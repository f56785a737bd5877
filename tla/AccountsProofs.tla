--------------------------- MODULE AccountsProofs ---------------------------
(***************************************************************************)
(* Theorems about the operations on accounts, for all accounts, logins,    *)
(* goroutines and generations.                                             *)
(***************************************************************************)
EXTENDS Accounts, TLAPS

Past == {"preempt", "call", "refresh", "again", "keep", "save"}
Readers == {"refresh", "activity", "list"}

-----------------------------------------------------------------------------
(* What an operation looks like at each place of its code.                 *)

\* It knows its account.
HasAccount(r) ==
    /\ r.at \in Past \union {"read", "mu", "find", "lock", "drain"} => r.id \in Id
    /\ r.at = "queued" => r.op \in Readers /\ (r.op # "list" => r.id \in Id)

\* Which operations get where.
Placed(r) ==
    /\ r.at = "mu" => r.op = "activity"
    /\ r.at = "read" => r.op \in {"refresh", "activity"}
    /\ r.at = "list" => r.op = "list"
    /\ r.at = "find" => r.op = "import"
    /\ r.at \in {"lock", "drain"} => r.op = "delete"
    /\ r.at = "idle" => r.op = "none"
    /\ r.at \in Past => r.op \in Readers \union {"import"}

\* Which calls are made where.
Asked(r) ==
    /\ r.at \in Past \ {"refresh"} => r.call \in {"usage", "status", "checkin", "recheck"}
    /\ r.at = "refresh" => r.call \in {"usage", "status", "checkin", "import"}
    /\ r.at = "preempt" => r.call = "usage" /\ Client(Owner[r.id]).early
    /\ r.at \in Past /\ r.call = "status" => r.op \in {"list", "activity"}
    /\ r.at \in Past /\ r.call \in {"checkin", "recheck"} => r.op = "activity"
    /\ r.at \in Past /\ r.call = "import" => r.op = "import"
    /\ r.at \in Past /\ r.op \in {"list", "activity"} => Family[Owner[r.id]] = "workbuddy"
    /\ r.op = "list" => \A i \in r.todo : Family[Owner[i]] = "workbuddy"

\* When it holds a renewed credential.
Renewed(r) ==
    /\ r.dirty => r.at \in Past \union {"find"}
    /\ r.op = "list" /\ r.dirty => r.tried
    /\ r.dirty /\ Family[Owner[r.id]] = "codex" /\ r.op # "import" => r.at \in {"again", "keep", "save"}

Shape(r) == HasAccount(r) /\ Placed(r) /\ Asked(r) /\ Renewed(r)
Good(r) == r \in Operation /\ Shape(r)
AllGood == proc \in [Process -> Operation] /\ \A p \in Process : Shape(proc[p])

LEMMA BecomesGood ==
    ASSUME AllGood, NEW p \in Process, NEW r, Good(r), Becomes(p, r)
    PROVE  AllGood' /\ proc'[p] = r /\ \A q \in Process : q # p => proc'[q] = proc[q]
BY DEF AllGood, Good, Becomes

LEMMA IdleGood == Good(Idle)
BY MaxGenAssumption DEF Good, Idle, Operation, Gen, Where, Shape, HasAccount, Placed, Asked, Renewed, Past

\* The places with nothing but an account.
LEMMA StartedGood ==
    ASSUME NEW op \in {"refresh", "activity"}, NEW i \in Id, NEW w \in BOOLEAN
    PROVE  Good([Idle EXCEPT !.op = op, !.id = i, !.at = IF w THEN FirstStep(op) ELSE "queued"])
<1> DEFINE r == [Idle EXCEPT !.op = op, !.id = i, !.at = IF w THEN FirstStep(op) ELSE "queued"]
<1>1. FirstStep(op) = IF op = "refresh" THEN "read" ELSE "mu"
  BY DEF FirstStep
<1>2. /\ r.op = op /\ r.id = i /\ r.at = (IF w THEN FirstStep(op) ELSE "queued")
      /\ r.call = "none" /\ r.dirty = FALSE
  BY DEF Idle
<1>3. r \in Operation
  <2>1. r.at \in Where
    BY <1>1, <1>2 DEF Where
  <2>2. \A at \in Where : [Idle EXCEPT !.op = op, !.id = i, !.at = at] \in Operation
    <3>1. Idle \in Operation
      BY IdleGood DEF Good
    <3> QED
      BY <3>1 DEF Operation
  <2> QED
    BY <1>2, <2>1, <2>2
<1> HIDE DEF r
<1>4. Good(r)
  BY <1>1, <1>2, <1>3 DEF Good, Shape, HasAccount, Placed, Asked, Renewed, Past, Readers
<1> QED
  BY <1>4 DEF r

LEMMA UsageGood ==
    ASSUME NEW r \in Operation, Shape(r), r.id \in Id, r.at # "idle",
           r.op \in {"refresh", "activity", "import"},
           r.op = "activity" => Family[Owner[r.id]] = "workbuddy",
           r.dirty /\ Family[Owner[r.id]] = "codex" => r.op = "import"
    PROVE  Good(UsageCall(r, Owner[r.id]))
<1> DEFINE u == UsageCall(r, Owner[r.id])
<1>1. u \in Operation
  BY DEF UsageCall, Operation, Where
<1>2. /\ u.op = r.op /\ u.id = r.id /\ u.dirty = r.dirty /\ u.call = "usage"
      /\ u.at \in {"preempt", "call"} /\ (u.at = "preempt" => Client(Owner[r.id]).early)
  BY DEF UsageCall, Operation
<1> HIDE DEF u
<1>3. Good(u)
  <2>1. HasAccount(u) /\ Placed(u)
    BY <1>2 DEF HasAccount, Placed, Past, Readers
  <2>2. Asked(u)
    BY <1>2 DEF Asked, Past
  <2>3. Renewed(u)
    BY <1>2 DEF Renewed, Past
  <2> QED
    BY <1>1, <2>1, <2>2, <2>3 DEF Good, Shape
<1> QED
  BY <1>3 DEF u

LEMMA ElsewhereGood ==
    ASSUME NEW r \in Operation, NEW at \in Where
    PROVE  LET s == [r EXCEPT !.at = at] IN
           /\ s \in Operation /\ s.at = at
           /\ s.op = r.op /\ s.id = r.id /\ s.call = r.call /\ s.held = r.held
           /\ s.tried = r.tried /\ s.dirty = r.dirty /\ s.granted = r.granted /\ s.todo = r.todo
BY DEF Operation

\* Where an operation may go from the steps of a call.
LEMMA OnwardGood ==
    ASSUME NEW r, Good(r), r.at \in Past \ {"refresh"}, NEW at \in Past \ {"refresh"},
           at = "preempt" => r.at = "preempt",
           at = "call" => r.at = "preempt",
           at = "again" => r.at = "call"
    PROVE  Good([r EXCEPT !.at = at])
<1> DEFINE s == [r EXCEPT !.at = at]
<1>1. /\ s \in Operation /\ s.at = at
      /\ s.op = r.op /\ s.id = r.id /\ s.call = r.call /\ s.held = r.held
      /\ s.tried = r.tried /\ s.dirty = r.dirty /\ s.todo = r.todo
  <2>1. r \in Operation /\ at \in Where
    BY DEF Good, Past, Where
  <2> QED
    BY <2>1, ElsewhereGood
<1> HIDE DEF s
<1>2. Shape(r)
  BY DEF Good
<1>3. HasAccount(s) /\ Placed(s)
  BY <1>1, <1>2 DEF Shape, HasAccount, Placed, Past, Readers
<1>4. Asked(s)
  BY <1>1, <1>2 DEF Shape, Asked, Past
<1>5. Renewed(s)
  <2>1. Family[Owner[r.id]] = "codex" => r.at # "preempt"
    BY <1>2 DEF Shape, Asked, Client, CodexClient
  <2> QED
    BY <1>1, <1>2, <2>1 DEF Shape, Renewed, Past
<1>6. Good(s)
  BY <1>1, <1>3, <1>4, <1>5 DEF Good, Shape
<1> QED
  BY <1>6 DEF s

LEMMA ReturnGood ==
    ASSUME TypeOK, AllGood, NEW p \in Process, Return(p)
    PROVE  /\ AllGood' /\ mu' \in Process \union {None}
           /\ proc'[p] = Idle
           /\ \A q \in Process : q # p => proc'[q] = proc[q]
           /\ mu' = IF mu = p THEN None ELSE mu
BY IdleGood DEF Return, AllGood, Good, TypeOK

LEMMA LeaveGood ==
    ASSUME TypeOK, AllGood, NEW p \in Process, Leave(p)
    PROVE  /\ AllGood' /\ mu' \in Process \union {None}
           /\ proc'[p].at \in {"idle", "list"} /\ proc'[p].dirty = FALSE
           /\ proc'[p].op \in {"none", "list"}
           /\ \A q \in Process : q # p => proc'[q] = proc[q]
           /\ mu' = IF proc[p].op # "list" /\ mu = p THEN None ELSE mu
<1>1. CASE proc[p].op = "list"
  <2> DEFINE r == [proc[p] EXCEPT !.at = "list", !.id = None, !.tried = FALSE, !.dirty = FALSE]
  <2>1. /\ r \in Operation /\ r.at = "list" /\ r.op = "list" /\ r.dirty = FALSE
        /\ r.todo = proc[p].todo
    BY <1>1 DEF AllGood, Operation, Where
  <2>2. Becomes(p, r) /\ mu' = mu
    BY <1>1 DEF Leave
  <2> HIDE DEF r
  <2>3. Good(r)
    BY <1>1, <2>1 DEF AllGood, Good, Shape, HasAccount, Placed, Asked, Renewed, Past
  <2> QED
    BY <1>1, <2>1, <2>2, <2>3, BecomesGood DEF TypeOK
<1>2. CASE proc[p].op # "list"
  BY <1>2, ReturnGood DEF Leave, Idle
<1> QED
  BY <1>1, <1>2

LEMMA LoseTyped ==
    ASSUME TypeOK, NEW p \in Process, NEW cause \in Cause, Lose(p, cause)
    PROVE  lost' \in [Login -> Cause \union {None}]
BY DEF Lose, TypeOK, Cause

-----------------------------------------------------------------------------
(* Each step keeps the types and the shape of the operations.              *)

LEMMA StartsGood ==
    ASSUME TypeOK, AllGood, NEW p \in Process, Start(p)
    PROVE  TypeOK' /\ AllGood'
<1>1. Idle \in Operation /\ Shape(Idle)
  BY IdleGood DEF Good
<1>2. ASSUME NEW op \in {"refresh", "activity"}, NEW i \in Id, RLock(p, op, i)
      PROVE  TypeOK' /\ AllGood'
  <2> DEFINE r == [Idle EXCEPT !.op = op, !.id = i, !.at = IF writer = None THEN FirstStep(op) ELSE "queued"]
  <2>1. Good(r)
    BY StartedGood, (writer = None) \in BOOLEAN
  <2>2. Becomes(p, r)
    BY <1>2 DEF RLock
  <2> HIDE DEF r
  <2>3. AllGood'
    BY <2>1, <2>2, BecomesGood
  <2> QED
    BY <1>2, <2>3 DEF RLock, TypeOK, AllGood, platform, locks
<1>3. CASE StartListActivities(p)
  <2> DEFINE ids == {i \in Id : Family[Owner[i]] = "workbuddy"}
             r(at) == [Idle EXCEPT !.op = "list", !.at = at, !.todo = ids]
  <2>1. \A at \in {"list", "queued"} : Good(r(at))
    <3> SUFFICES ASSUME NEW at \in {"list", "queued"} PROVE Good(r(at))
      OBVIOUS
    <3>1. r(at) \in Operation
      BY <1>1 DEF Operation, Where
    <3>2. r(at).at = at /\ r(at).op = "list" /\ r(at).dirty = FALSE /\ r(at).todo = ids
      BY DEF Idle
    <3> QED
      BY <3>1, <3>2 DEF Good, Shape, HasAccount, Placed, Asked, Renewed, Past, Readers
  <2>2. \E at \in {"list", "queued"} : Becomes(p, r(at))
    BY <1>3 DEF StartListActivities
  <2> HIDE DEF r
  <2>3. AllGood'
    BY <2>1, <2>2, BecomesGood
  <2> QED
    BY <1>3, <2>3 DEF StartListActivities, TypeOK, AllGood, platform, locks
<1>4. CASE StartDelete(p)
  <2>1. PICK i \in Known : Becomes(p, [Idle EXCEPT !.op = "delete", !.id = i, !.at = "lock"])
    BY <1>4 DEF StartDelete
  <2> DEFINE r == [Idle EXCEPT !.op = "delete", !.id = i, !.at = "lock"]
  <2>2. r \in Operation /\ r.at = "lock" /\ r.op = "delete" /\ r.id \in Id /\ r.dirty = FALSE
    <3>1. i \in Id
      BY DEF Known
    <3> QED
      BY <1>1, <3>1 DEF Operation, Where, Idle
  <2> HIDE DEF r
  <2>3. Good(r)
    BY <2>2 DEF Good, Shape, HasAccount, Placed, Asked, Renewed, Past
  <2>4. AllGood'
    BY <2>1, <2>3, BecomesGood DEF r
  <2> QED
    BY <1>4, <2>4 DEF StartDelete, TypeOK, AllGood, platform, locks
<1>5. CASE StartImportCodex(p)
  <2>1. PICK i \in Id, at \in {"find", "refresh"} :
          /\ file[Owner[i]] # None
          /\ Becomes(p, [Idle EXCEPT !.op = "import", !.call = "import", !.id = i, !.at = at,
                                     !.held = file[Owner[i]]])
    BY <1>5 DEF StartImportCodex
  <2> DEFINE r == [Idle EXCEPT !.op = "import", !.call = "import", !.id = i, !.at = at,
                               !.held = file[Owner[i]]]
  <2>2. file[Owner[i]] \in Gen
    BY <2>1, OwnerAssumption DEF TypeOK
  <2>3. /\ r \in Operation /\ r.at = at /\ r.op = "import" /\ r.id = i /\ r.dirty = FALSE
        /\ r.call = "import"
    BY <1>1, <2>2 DEF Operation, Where, Idle
  <2> HIDE DEF r
  <2>4. Good(r)
    BY <2>3 DEF Good, Shape, HasAccount, Placed, Asked, Renewed, Past, Readers
  <2>5. AllGood'
    BY <2>1, <2>4, BecomesGood DEF r
  <2> QED
    BY <1>5, <2>5 DEF StartImportCodex, TypeOK, AllGood, platform, locks
<1>6. CASE StartImport(p)
  <2>1. PICK i \in Id :
          /\ file[Owner[i]] # None
          /\ Becomes(p, UsageCall([Idle EXCEPT !.op = "import", !.id = i, !.held = file[Owner[i]]],
                                  Owner[i]))
    BY <1>6 DEF StartImport
  <2> DEFINE r == [Idle EXCEPT !.op = "import", !.id = i, !.held = file[Owner[i]]]
             u == UsageCall(r, Owner[i])
  <2>2. file[Owner[i]] \in Gen
    BY <2>1, OwnerAssumption DEF TypeOK
  <2>3. /\ r \in Operation /\ r.op = "import" /\ r.id = i /\ r.dirty = FALSE
    BY <1>1, <2>2 DEF Operation, Where, Idle
  <2>4. /\ u \in Operation /\ u.op = "import" /\ u.id = i /\ u.dirty = FALSE /\ u.call = "usage"
        /\ u.at \in {"preempt", "call"} /\ (u.at = "preempt" => Client(Owner[i]).early)
    <3> HIDE DEF r
    <3> QED
      BY <2>3 DEF UsageCall, Operation, Where
  <2> HIDE DEF u, r
  <2>5. Good(u)
    BY <2>4 DEF Good, Shape, HasAccount, Placed, Asked, Renewed, Past, Readers
  <2>6. AllGood'
    BY <2>1, <2>5, BecomesGood DEF u, r
  <2> QED
    BY <1>6, <2>6 DEF StartImport, TypeOK, AllGood, platform, locks
<1> QED
  BY <1>2, <1>3, <1>4, <1>5, <1>6 DEF Start, StartRefreshOne, StartRunActivity, Known

LEMMA LocksGood ==
    ASSUME TypeOK, AllGood, NEW p \in Process, Lock(p) \/ LockActivity(p) \/ Delete(p)
    PROVE  TypeOK' /\ AllGood'
<1>1. CASE Lock(p)
  <2> DEFINE r == [proc[p] EXCEPT !.at = "drain"]
  <2>1. proc[p] \in Operation /\ Shape(proc[p]) /\ proc[p].at = "lock"
    BY <1>1 DEF AllGood, Lock
  <2>2. /\ r \in Operation /\ r.at = "drain"
        /\ r.op = proc[p].op /\ r.id = proc[p].id /\ r.dirty = proc[p].dirty /\ r.todo = proc[p].todo
    BY <2>1, ElsewhereGood DEF Where
  <2> HIDE DEF r
  <2>3. Good(r)
    BY <2>1, <2>2 DEF Good, Shape, HasAccount, Placed, Asked, Renewed, Past
  <2>4. AllGood'
    BY <1>1, <2>3, BecomesGood DEF Lock, Goes, r
  <2> QED
    BY <1>1, <2>4 DEF Lock, TypeOK, AllGood, platform
<1>2. CASE LockActivity(p)
  <2> DEFINE r == [proc[p] EXCEPT !.at = "read"]
  <2>1. proc[p] \in Operation /\ Shape(proc[p]) /\ proc[p].at = "mu"
    BY <1>2 DEF AllGood, LockActivity
  <2>2. /\ r \in Operation /\ r.at = "read"
        /\ r.op = proc[p].op /\ r.id = proc[p].id /\ r.dirty = proc[p].dirty /\ r.todo = proc[p].todo
    BY <2>1, ElsewhereGood DEF Where
  <2> HIDE DEF r
  <2>3. Good(r)
    BY <2>1, <2>2 DEF Good, Shape, HasAccount, Placed, Asked, Renewed, Past
  <2>4. AllGood'
    BY <1>2, <2>3, BecomesGood DEF LockActivity, Goes, r
  <2> QED
    BY <1>2, <2>4 DEF LockActivity, TypeOK, AllGood, platform
<1>3. CASE Delete(p)
  <2>1. \A q \in Process : Good(proc'[q])
    <3> SUFFICES ASSUME NEW q \in Process PROVE Good(proc'[q])
      OBVIOUS
    <3>1. CASE q = p
      BY <1>3, <3>1, IdleGood DEF Delete, Unlock
    <3>2. CASE q # p /\ proc[q].at = "queued"
      <4> DEFINE r == [proc[q] EXCEPT !.at = FirstStep(proc[q].op)]
      <4>1. proc[q] \in Operation /\ Shape(proc[q])
        BY DEF AllGood
      <4>2. proc[q].op \in Readers
        BY <3>2, <4>1 DEF Shape, HasAccount
      <4>3. FirstStep(proc[q].op) = IF proc[q].op = "refresh" THEN "read"
                                    ELSE IF proc[q].op = "activity" THEN "mu" ELSE "list"
        BY <4>2 DEF FirstStep, Readers
      <4>4. FirstStep(proc[q].op) \in Where
        BY <4>3 DEF Where
      <4>5. /\ r \in Operation /\ r.at = FirstStep(proc[q].op)
            /\ r.op = proc[q].op /\ r.id = proc[q].id /\ r.dirty = proc[q].dirty
            /\ r.todo = proc[q].todo
        BY <4>1, <4>4, ElsewhereGood
      <4>6. proc'[q] = r
        BY <1>3, <3>2 DEF Delete, Unlock
      <4> HIDE DEF r
      <4>7. Good(r)
        BY <3>2, <4>1, <4>2, <4>3, <4>5
           DEF Good, Shape, HasAccount, Placed, Asked, Renewed, Past, Readers
      <4> QED
        BY <4>6, <4>7
    <3>3. CASE q # p /\ proc[q].at # "queued"
      BY <1>3, <3>3 DEF Delete, Unlock, AllGood, Good
    <3> QED
      BY <3>1, <3>2, <3>3
  <2>2. AllGood'
    BY <1>3, <2>1 DEF AllGood, Good, Delete, Unlock
  <2>3. proc[p].id \in Id
    BY <1>3 DEF Delete, AllGood, Shape, HasAccount
  <2>4. rows' \in [Id -> Gen \union {None}] /\ deleted' \subseteq Id /\ lost' \in [Login -> Cause \union {None}]
    BY <1>3, <2>3 DEF Delete, DeleteRow, TypeOK, Cause
  <2> QED
    BY <1>3, <2>2, <2>4 DEF Delete, Unlock, TypeOK, AllGood, platform
<1> QED
  BY <1>1, <1>2, <1>3

LEMMA ReadGood ==
    ASSUME TypeOK, AllGood, NEW p \in Process, Read(p)
    PROVE  TypeOK' /\ AllGood'
<1> DEFINE i == proc[p].id
<1>1. /\ proc[p] \in Operation /\ Shape(proc[p]) /\ proc[p].at = "read" /\ proc[p].dirty = FALSE
      /\ i \in Id /\ proc[p].op \in {"refresh", "activity"}
  BY DEF AllGood, Read, Shape, HasAccount, Placed, Renewed, Past
<1>2. AllGood' /\ mu' \in Process \union {None}
  <2>1. ASSUME rows[i] # None, proc[p].op = "refresh",
               Becomes(p, UsageCall([proc[p] EXCEPT !.held = rows[i]], Owner[i])), UNCHANGED mu
        PROVE  AllGood' /\ mu' \in Process \union {None}
    <3> DEFINE r == [proc[p] EXCEPT !.held = rows[i]]
    <3>1. rows[i] \in Gen
      BY <1>1, <2>1 DEF TypeOK
    <3>2. /\ r \in Operation /\ r.at = "read" /\ r.op = proc[p].op /\ r.id = i /\ r.dirty = FALSE
          /\ r.todo = proc[p].todo
      BY <1>1, <3>1 DEF Operation
    <3> HIDE DEF r
    <3>3. Shape(r)
      BY <1>1, <3>2 DEF Shape, HasAccount, Placed, Asked, Renewed, Past
    <3>4. Good(UsageCall(r, Owner[i]))
      BY <1>1, <2>1, <3>2, <3>3, UsageGood
    <3> QED
      BY <2>1, <3>4, BecomesGood DEF r, TypeOK
  <2>2. ASSUME rows[i] # None, proc[p].op = "activity", Family[Owner[i]] = "workbuddy",
               Becomes(p, [proc[p] EXCEPT !.call = "status", !.at = "call", !.held = rows[i]]), UNCHANGED mu
        PROVE  AllGood' /\ mu' \in Process \union {None}
    <3> DEFINE r == [proc[p] EXCEPT !.call = "status", !.at = "call", !.held = rows[i]]
    <3>1. rows[i] \in Gen
      BY <1>1, <2>2 DEF TypeOK
    <3>2. /\ r \in Operation /\ r.at = "call" /\ r.call = "status" /\ r.op = "activity"
          /\ r.id = i /\ r.dirty = FALSE
      BY <1>1, <2>2, <3>1 DEF Operation, Where
    <3> HIDE DEF r
    <3>3. Good(r)
      BY <1>1, <2>2, <3>2 DEF Good, Shape, HasAccount, Placed, Asked, Renewed, Past, Readers
    <3> QED
      BY <2>2, <3>3, BecomesGood DEF r, TypeOK
  <2> QED
    BY <2>1, <2>2, ReturnGood DEF Read
<1> QED
  BY <1>2 DEF Read, TypeOK, AllGood, platform

LEMMA NextAccountGood ==
    ASSUME TypeOK, AllGood, NEW p \in Process, NextAccount(p)
    PROVE  TypeOK' /\ AllGood'
<1>1. /\ proc[p] \in Operation /\ Shape(proc[p]) /\ proc[p].at = "list" /\ proc[p].op = "list"
      /\ proc[p].dirty = FALSE
  <2>1. proc[p] \in Operation /\ Shape(proc[p]) /\ proc[p].at = "list"
    BY DEF AllGood, NextAccount
  <2> QED
    BY <2>1 DEF Operation, Shape, Placed, Renewed, Past
<1>2. AllGood' /\ mu' \in Process \union {None}
  <2>1. ASSUME NEW i \in proc[p].todo, rows[i] # None, UNCHANGED mu,
               Becomes(p, [proc[p] EXCEPT !.id = i, !.call = "status", !.at = "call",
                                          !.held = rows[i], !.todo = @ \ {i}])
        PROVE  AllGood' /\ mu' \in Process \union {None}
    <3> DEFINE r == [proc[p] EXCEPT !.id = i, !.call = "status", !.at = "call",
                                    !.held = rows[i], !.todo = @ \ {i}]
    <3>1. i \in Id
      BY <1>1 DEF Operation
    <3>2. rows[i] \in Gen
      BY <2>1, <3>1 DEF TypeOK
    <3>3. /\ r \in Operation /\ r.at = "call" /\ r.call = "status" /\ r.op = "list"
          /\ r.id = i /\ r.dirty = FALSE /\ r.todo \subseteq proc[p].todo
      BY <1>1, <3>1, <3>2 DEF Operation, Where
    <3> HIDE DEF r
    <3>4. Good(r)
      BY <1>1, <3>1, <3>3 DEF Good, Shape, HasAccount, Placed, Asked, Renewed, Past, Readers
    <3> QED
      BY <2>1, <3>4, BecomesGood DEF r, TypeOK
  <2>2. ASSUME NEW i \in proc[p].todo, UNCHANGED mu, Becomes(p, [proc[p] EXCEPT !.todo = @ \ {i}])
        PROVE  AllGood' /\ mu' \in Process \union {None}
    <3> DEFINE r == [proc[p] EXCEPT !.todo = @ \ {i}]
    <3>1. /\ r \in Operation /\ r.at = "list" /\ r.op = "list" /\ r.dirty = FALSE
          /\ r.todo \subseteq proc[p].todo
      BY <1>1 DEF Operation
    <3> HIDE DEF r
    <3>2. Good(r)
      BY <1>1, <3>1 DEF Good, Shape, HasAccount, Placed, Asked, Renewed, Past, Readers
    <3> QED
      BY <2>2, <3>2, BecomesGood DEF r, TypeOK
  <2> QED
    BY <2>1, <2>2, ReturnGood DEF NextAccount
<1> QED
  BY <1>2 DEF NextAccount, TypeOK, AllGood, platform

LEMMA FindCodexGood ==
    ASSUME TypeOK, AllGood, NEW p \in Process, FindCodex(p)
    PROVE  TypeOK' /\ AllGood'
<1>1. /\ proc[p] \in Operation /\ Shape(proc[p]) /\ proc[p].at = "find" /\ proc[p].op = "import"
      /\ proc[p].id \in Id
  BY DEF AllGood, FindCodex, Shape, HasAccount, Placed
<1>2. ASSUME NEW i \in Id, rows[i] # None, Owner[i] = LoginOf(p),
             Becomes(p, UsageCall([proc[p] EXCEPT !.id = i, !.held = rows[i], !.dirty = FALSE], LoginOf(p)))
      PROVE  AllGood'
  <2> DEFINE r == [proc[p] EXCEPT !.id = i, !.held = rows[i], !.dirty = FALSE]
  <2>1. rows[i] \in Gen
    BY <1>2 DEF TypeOK
  <2>2. /\ r \in Operation /\ r.at = "find" /\ r.op = "import" /\ r.id = i /\ r.dirty = FALSE
    BY <1>1, <2>1 DEF Operation
  <2> HIDE DEF r
  <2>3. Shape(r)
    BY <2>2 DEF Shape, HasAccount, Placed, Asked, Renewed, Past
  <2>4. Good(UsageCall(r, Owner[i]))
    BY <2>2, <2>3, UsageGood
  <2> QED
    BY <1>2, <2>4, BecomesGood DEF r
<1>3. ASSUME Becomes(p, UsageCall(proc[p], LoginOf(p)))
      PROVE  AllGood'
  <2>1. Good(UsageCall(proc[p], Owner[proc[p].id]))
    BY <1>1, UsageGood
  <2> QED
    BY <1>3, <2>1, BecomesGood DEF LoginOf
<1>4. AllGood'
  BY <1>2, <1>3 DEF FindCodex
<1>5. lost' \in [Login -> Cause \union {None}]
  BY LoseTyped DEF FindCodex, TypeOK, Cause
<1> QED
  BY <1>4, <1>5 DEF FindCodex, TypeOK, AllGood, platform, locks

\* A goroutine at a step of a call.
LEMMA AtCall ==
    ASSUME AllGood, NEW p \in Process, proc[p].at \in Past
    PROVE  /\ proc[p] \in Operation /\ Shape(proc[p]) /\ Good(proc[p])
           /\ proc[p].id \in Id /\ LoginOf(p) \in Login
           /\ proc[p].op \in Readers \union {"import"}
BY OwnerAssumption DEF AllGood, Good, Shape, HasAccount, Placed, LoginOf

LEMMA GoesGood ==
    ASSUME AllGood, NEW p \in Process, proc[p].at \in Past \ {"refresh"},
           NEW at \in Past \ {"refresh"}, Goes(p, at),
           at = "preempt" => proc[p].at = "preempt",
           at = "call" => proc[p].at = "preempt",
           at = "again" => proc[p].at = "call"
    PROVE  /\ AllGood'
           /\ proc'[p] = [proc[p] EXCEPT !.at = at]
           /\ \A q \in Process : q # p => proc'[q] = proc[q]
<1>1. Good([proc[p] EXCEPT !.at = at])
  BY AtCall, OnwardGood
<1> QED
  BY <1>1, BecomesGood DEF Goes

\* After a successful call: what a goroutine does next.
LEMMA SucceedGood ==
    ASSUME TypeOK, AllGood, NEW p \in Process, CallSucceeds(p)
    PROVE  TypeOK' /\ AllGood'
<1>1. proc[p].at \in {"call", "again"} /\ proc[p].at \in Past
  BY DEF CallSucceeds, Past
<1>2. /\ proc[p] \in Operation /\ Shape(proc[p]) /\ Good(proc[p])
      /\ proc[p].id \in Id /\ LoginOf(p) \in Login
      /\ proc[p].op \in Readers \union {"import"}
  BY <1>1, AtCall
<1>3. proc[p].call \in {"usage", "status", "checkin", "recheck"}
  BY <1>1, <1>2 DEF Shape, Asked
<1>4. proc[p].call = "status" => proc[p].op \in {"list", "activity"}
  BY <1>1, <1>2 DEF Shape, Asked
<1>5. proc[p].call \in {"checkin", "recheck"} => proc[p].op = "activity"
  BY <1>1, <1>2 DEF Shape, Asked
<1>6. proc[p].op = "activity" => Family[LoginOf(p)] = "workbuddy"
  BY <1>1, <1>2 DEF Shape, Asked, LoginOf
<1>7. "save" \in Past
  BY DEF Past
<1>8. /\ AllGood'
      /\ mu' \in Process \union {None} /\ checked' \subseteq Login
  <2>1. ASSUME Goes(p, "save"), UNCHANGED <<mu, checked>>
        PROVE  AllGood' /\ mu' \in Process \union {None} /\ checked' \subseteq Login
    BY <1>1, <1>7, <2>1, GoesGood DEF TypeOK
  <2>2. ASSUME proc[p].op = "activity", Becomes(p, UsageCall(proc[p], LoginOf(p)))
        PROVE  AllGood'
    <3>1. Good(UsageCall(proc[p], Owner[proc[p].id]))
      BY <1>1, <1>2, <1>6, <2>2, UsageGood DEF LoginOf
    <3> QED
      BY <2>2, <3>1, BecomesGood DEF LoginOf
  <2>3. CASE proc[p].call = "usage"
    BY <1>1, <2>1, <2>3 DEF CallSucceeds, Succeed
  <2>4. CASE proc[p].call = "status" /\ proc[p].op = "list"
    <3>1. /\ IF proc[p].tried THEN Goes(p, "save") /\ UNCHANGED mu ELSE Leave(p)
          /\ UNCHANGED checked
      BY <2>4 DEF CallSucceeds, Succeed
    <3> QED
      BY <2>1, <3>1, LeaveGood DEF TypeOK
  <2>5. CASE proc[p].call = "status" /\ proc[p].op = "activity"
    <3>1. /\ Becomes(p, IF LoginOf(p) \in checked THEN UsageCall(proc[p], LoginOf(p))
                        ELSE [proc[p] EXCEPT !.call = "checkin", !.at = "call"])
          /\ UNCHANGED <<mu, checked>>
      BY <2>5 DEF CallSucceeds, Succeed
    <3>2. ASSUME Becomes(p, [proc[p] EXCEPT !.call = "checkin", !.at = "call"])
          PROVE  AllGood'
      <4> DEFINE r == [proc[p] EXCEPT !.call = "checkin", !.at = "call"]
      <4>1. /\ r \in Operation /\ r.at = "call" /\ r.call = "checkin" /\ r.op = proc[p].op
            /\ r.id = proc[p].id /\ r.dirty = proc[p].dirty /\ r.todo = proc[p].todo
        BY <1>2 DEF Operation, Where
      <4> HIDE DEF r
      <4>2. Family[Owner[r.id]] = "workbuddy"
        BY <1>6, <2>5, <4>1 DEF LoginOf
      <4>3. Good(r)
        BY <1>2, <2>5, <4>1, <4>2 DEF Good, Shape, HasAccount, Placed, Asked, Renewed, Past, Readers
      <4> QED
        BY <3>2, <4>3, BecomesGood DEF r
    <3> QED
      BY <2>2, <2>5, <3>1, <3>2 DEF TypeOK
  <2>6. CASE proc[p].call = "checkin"
    <3>1. /\ Becomes(p, UsageCall(proc[p], LoginOf(p)))
          /\ checked' = checked \union {LoginOf(p)}
          /\ UNCHANGED mu
      BY <2>6 DEF CallSucceeds, Succeed
    <3> QED
      BY <1>2, <1>5, <2>2, <2>6, <3>1 DEF TypeOK
  <2>7. CASE proc[p].call = "recheck"
    <3>1. Becomes(p, UsageCall(proc[p], LoginOf(p))) /\ UNCHANGED <<mu, checked>>
      BY <2>7 DEF CallSucceeds, Succeed
    <3> QED
      BY <1>5, <2>2, <2>7, <3>1 DEF TypeOK
  <2> QED
    BY <1>3, <1>4, <2>3, <2>4, <2>5, <2>6, <2>7
<1> QED
  BY <1>8 DEF CallSucceeds, TypeOK, AllGood

\* A check-in that is not confirmed: the answer is lost, or today's status is
\* asked for, on the same account with the same credential.
LEMMA UnconfirmedGood ==
    ASSUME TypeOK, AllGood, NEW p \in Process, CheckinUnconfirmed(p)
    PROVE  \/ Leave(p) /\ Lose(p, "dropped") /\ checked' = checked \union {LoginOf(p)}
           \/ /\ AllGood' /\ UNCHANGED <<mu, lost>>
              /\ proc'[p].at = proc[p].at /\ proc'[p].op = proc[p].op /\ proc'[p].id = proc[p].id
              /\ proc'[p].held = proc[p].held /\ proc'[p].dirty = proc[p].dirty
              /\ proc'[p].call = "recheck"
              /\ \A q \in Process : q # p => proc'[q] = proc[q]
              /\ \/ checked' = checked \union {LoginOf(p)} /\ proc'[p].granted
                 \/ checked' = checked /\ proc'[p].granted = proc[p].granted
<1>1. proc[p].at \in {"call", "again"} /\ proc[p].at \in Past /\ proc[p].call = "checkin"
  BY DEF CheckinUnconfirmed, Past
<1>2. proc[p] \in Operation /\ Shape(proc[p]) /\ proc[p].op = "activity"
  BY <1>1, AtCall DEF Shape, Asked
<1> DEFINE r(g) == [proc[p] EXCEPT !.call = "recheck", !.granted = g]
<1>3. \A g \in BOOLEAN :
        /\ r(g) \in Operation /\ r(g).at = proc[p].at /\ r(g).op = proc[p].op /\ r(g).id = proc[p].id
        /\ r(g).held = proc[p].held /\ r(g).dirty = proc[p].dirty /\ r(g).todo = proc[p].todo
        /\ r(g).call = "recheck" /\ r(g).granted = g
  BY <1>2 DEF Operation
<1>4. proc[p].granted \in BOOLEAN /\ [proc[p] EXCEPT !.call = "recheck"] = r(proc[p].granted)
  BY <1>2 DEF Operation
<1> HIDE DEF r
<1>5. \A g \in BOOLEAN : Good(r(g))
  BY <1>1, <1>2, <1>3 DEF Good, Shape, HasAccount, Placed, Asked, Renewed, Past, Readers
<1>6. ASSUME NEW g \in BOOLEAN, Becomes(p, r(g))
      PROVE  AllGood' /\ proc'[p] = r(g) /\ \A q \in Process : q # p => proc'[q] = proc[q]
  BY <1>5, <1>6, BecomesGood
<1>7. CASE /\ checked' = checked \union {LoginOf(p)} /\ UNCHANGED <<mu, lost>>
           /\ Becomes(p, r(TRUE))
  BY <1>3, <1>6, <1>7
<1>8. CASE UNCHANGED <<checked, mu, lost>> /\ Becomes(p, r(proc[p].granted))
  BY <1>3, <1>4, <1>6, <1>8
<1> QED
  BY <1>4, <1>7, <1>8 DEF CheckinUnconfirmed, r

\* A refused call: a refused question about the status is a refused check-in.
LEMMA RefusedGood ==
    ASSUME TypeOK, AllGood, NEW p \in Process, CallRefused(p), ~proc[p].tried
    PROVE  /\ AllGood' /\ UNCHANGED <<mu, lost, checked>>
           /\ proc[p].at = "call" /\ proc'[p].at = "refresh"
           /\ proc'[p].op = proc[p].op /\ proc'[p].id = proc[p].id
           /\ proc'[p].held = proc[p].held /\ proc'[p].dirty = proc[p].dirty
           /\ proc'[p].granted = proc[p].granted
           /\ proc'[p].call = IF proc[p].call = "recheck" THEN "checkin" ELSE proc[p].call
           /\ \A q \in Process : q # p => proc'[q] = proc[q]
<1> DEFINE r == [proc[p] EXCEPT !.at = "refresh", !.call = IF @ = "recheck" THEN "checkin" ELSE @]
<1>1. /\ proc[p].at = "call" /\ proc[p].at \in Past
      /\ Becomes(p, r) /\ UNCHANGED <<mu, lost, checked>>
  BY DEF CallRefused, Past, platform
<1>2. proc[p] \in Operation /\ Shape(proc[p])
  BY <1>1, AtCall
<1>3. /\ r \in Operation /\ r.at = "refresh" /\ r.op = proc[p].op /\ r.id = proc[p].id
      /\ r.held = proc[p].held /\ r.dirty = proc[p].dirty /\ r.todo = proc[p].todo
      /\ r.tried = proc[p].tried /\ r.granted = proc[p].granted
      /\ r.call = IF proc[p].call = "recheck" THEN "checkin" ELSE proc[p].call
  BY <1>2 DEF Operation, Where
<1> HIDE DEF r
<1>4. Good(r)
  BY <1>1, <1>2, <1>3 DEF Good, Shape, HasAccount, Placed, Asked, Renewed, Past, Readers
<1> QED
  BY <1>1, <1>3, <1>4, BecomesGood

LEMMA CallsGood ==
    ASSUME TypeOK, AllGood, NEW p \in Process,
           CheckinUnconfirmed(p) \/ CallRefused(p) \/ CallFails(p) \/ NotExpiring(p)
    PROVE  TypeOK' /\ AllGood'
<1>1. {"call", "again", "refresh", "keep", "preempt"} \subseteq Past /\ "dropped" \in Cause
  BY DEF Past, Cause
<1>2. CASE CheckinUnconfirmed(p)
  <2>1. LoginOf(p) \in Login
    BY <1>1, <1>2, AtCall DEF CheckinUnconfirmed
  <2>2. /\ AllGood' /\ mu' \in Process \union {None} /\ lost' \in [Login -> Cause \union {None}]
        /\ checked' \subseteq Login
    <3>1. CASE Leave(p) /\ Lose(p, "dropped") /\ checked' = checked \union {LoginOf(p)}
      BY <1>1, <2>1, <3>1, LeaveGood, LoseTyped DEF TypeOK
    <3>2. CASE /\ AllGood' /\ UNCHANGED <<mu, lost>>
               /\ checked' = checked \/ checked' = checked \union {LoginOf(p)}
      BY <2>1, <3>2 DEF TypeOK
    <3> QED
      BY <1>2, <3>1, <3>2, UnconfirmedGood
  <2> QED
    BY <1>2, <2>2 DEF CheckinUnconfirmed, TypeOK, AllGood
<1>3. CASE CallRefused(p)
  <2>1. /\ AllGood' /\ mu' \in Process \union {None} /\ lost' \in [Login -> Cause \union {None}]
    <3>1. CASE proc[p].tried
      BY <1>1, <1>3, <3>1, LeaveGood, LoseTyped DEF CallRefused
    <3>2. CASE ~proc[p].tried
      BY <1>3, <3>2, RefusedGood DEF TypeOK
    <3> QED
      BY <3>1, <3>2
  <2> QED
    BY <1>3, <2>1 DEF CallRefused, TypeOK, AllGood, platform
<1>4. CASE CallFails(p)
  <2>1. /\ AllGood' /\ mu' \in Process \union {None} /\ lost' \in [Login -> Cause \union {None}]
    <3>1. CASE Kind(p) = "codex" /\ proc[p].at = "again"
      <4>1. Goes(p, "keep") /\ UNCHANGED <<mu, lost>>
        BY <1>4, <3>1 DEF CallFails
      <4> QED
        BY <1>1, <3>1, <4>1, GoesGood DEF TypeOK
    <3>2. CASE ~(Kind(p) = "codex" /\ proc[p].at = "again")
      BY <1>1, <1>4, <3>2, LeaveGood, LoseTyped DEF CallFails
    <3> QED
      BY <3>1, <3>2
  <2> QED
    BY <1>4, <2>1 DEF CallFails, TypeOK, AllGood, platform
<1>5. CASE NotExpiring(p)
  <2>1. AllGood'
    BY <1>1, <1>5, GoesGood DEF NotExpiring
  <2> QED
    BY <1>5, <2>1 DEF NotExpiring, TypeOK, AllGood, platform, locks
<1> QED
  BY <1>2, <1>3, <1>4, <1>5

LEMMA RenewalFailedGood ==
    ASSUME TypeOK, AllGood, NEW p \in Process, proc[p].at \in {"preempt", "refresh"}, RenewalFailed(p)
    PROVE  /\ AllGood' /\ mu' \in Process \union {None}
           /\ \A q \in Process : q # p => proc'[q] = proc[q]
<1>1. {"call", "refresh", "preempt"} \subseteq Past
  BY DEF Past
<1>2. CASE proc[p].at = "preempt" /\ ~Client(LoginOf(p)).insists
  <2>1. Goes(p, "call") /\ UNCHANGED mu
    BY <1>2 DEF RenewalFailed
  <2> QED
    BY <1>1, <1>2, <2>1, GoesGood DEF TypeOK
<1>3. CASE ~(proc[p].at = "preempt" /\ ~Client(LoginOf(p)).insists)
  BY <1>3, LeaveGood DEF RenewalFailed
<1> QED
  BY <1>2, <1>3

\* The platform has handed out the next generation.
LEMMA RenewFacts ==
    ASSUME TypeOK, AllGood, NEW p \in Process, Renew(p)
    PROVE  /\ proc[p].at \in {"preempt", "refresh"} /\ proc[p].at \in Past
           /\ LoginOf(p) \in Login /\ newest[LoginOf(p)] \in Nat
           /\ newest' \in [Login -> Gen]
           /\ newest'[LoginOf(p)] = newest[LoginOf(p)] + 1
           /\ \A l \in Login : l # LoginOf(p) => newest'[l] = newest[l]
<1>1. proc[p].at \in {"preempt", "refresh"} /\ proc[p].at \in Past
  BY DEF Renew, Past
<1>2. LoginOf(p) \in Login
  BY <1>1, AtCall
<1> QED
  BY <1>1, <1>2, MaxGenAssumption DEF Renew, Renewable, TypeOK, Gen

LEMMA RenewalAnsweredGood ==
    ASSUME TypeOK, AllGood, NEW p \in Process, RenewalAnswered(p)
    PROVE  /\ TypeOK' /\ AllGood'
           /\ proc'[p].dirty = Rotates(LoginOf(p)) /\ proc'[p].held = newest'[LoginOf(p)]
           /\ proc'[p].id = proc[p].id /\ proc'[p].op = proc[p].op /\ proc'[p].call = proc[p].call
           /\ proc'[p].granted = proc[p].granted
           /\ proc'[p].at \in {"find", "call", "again"}
           /\ proc'[p].at = "call" => proc'[p].call = "usage"
           /\ \A q \in Process : q # p => proc'[q] = proc[q]
<1> DEFINE at == CASE proc[p].call = "import" -> "find"
                   [] proc[p].at = "preempt"  -> "call"
                   [] OTHER                   -> "again"
           r == [proc[p] EXCEPT !.held = newest'[LoginOf(p)], !.tried = TRUE,
                                !.dirty = Rotates(LoginOf(p)), !.at = at]
<1>1. proc[p] \in Operation /\ Shape(proc[p]) /\ proc[p].id \in Id /\ proc[p].op \in Readers \union {"import"}
  BY RenewFacts, AtCall DEF RenewalAnswered
<1>2. newest'[LoginOf(p)] \in Gen /\ proc[p].at \in {"preempt", "refresh"}
  BY RenewFacts DEF RenewalAnswered
<1>3. Rotates(LoginOf(p)) \in BOOLEAN
  BY RenewFacts, FamilyAssumption
     DEF RenewalAnswered, Rotates, Client, CodexClient, WorkBuddyClient, GeminiClient, TraeClient,
         KiroClient, QoderClient, CursorClient
<1>4. proc[p].at = "preempt" => /\ proc[p].call = "usage"
                                /\ Family[Owner[proc[p].id]] # "codex"
                                /\ Client(Owner[proc[p].id]).early
  BY <1>1, <1>2 DEF Shape, Asked, Client, CodexClient
<1>5. at = IF proc[p].call = "import" THEN "find" ELSE IF proc[p].at = "preempt" THEN "call" ELSE "again"
  BY <1>4
<1>6. proc[p].at = "refresh" => proc[p].call \in {"usage", "status", "checkin", "import"}
  BY <1>1 DEF Shape, Asked, Operation
<1> HIDE DEF at
<1>7. /\ r \in Operation /\ r.at = at /\ r.op = proc[p].op /\ r.id = proc[p].id
      /\ r.call = proc[p].call /\ r.tried = TRUE /\ r.dirty = Rotates(LoginOf(p))
      /\ r.held = newest'[LoginOf(p)] /\ r.todo = proc[p].todo /\ r.granted = proc[p].granted
  <2>1. at \in Where
    BY <1>5 DEF Where
  <2> QED
    BY <1>1, <1>2, <1>3, <2>1 DEF Operation
<1> HIDE DEF r
<1>8. Good(r)
  <2>1. HasAccount(r) /\ Placed(r)
    BY <1>1, <1>2, <1>4, <1>5, <1>7 DEF Shape, HasAccount, Placed, Asked, Past, Readers
  <2>2. Asked(r)
    BY <1>1, <1>2, <1>4, <1>5, <1>6, <1>7 DEF Shape, Asked, Past
  <2>3. Renewed(r)
    BY <1>1, <1>2, <1>4, <1>5, <1>7 DEF Shape, Asked, Renewed, Past
  <2> QED
    BY <1>7, <2>1, <2>2, <2>3 DEF Good, Shape
<1>9. AllGood' /\ proc'[p] = r /\ \A q \in Process : q # p => proc'[q] = proc[q]
  BY <1>8, BecomesGood DEF RenewalAnswered, r, at
<1>10. TypeOK'
  BY <1>9, RenewFacts DEF RenewalAnswered, TypeOK, AllGood, locks
<1> QED
  BY <1>4, <1>5, <1>7, <1>9, <1>10

LEMMA RenewalsGood ==
    ASSUME TypeOK, AllGood, NEW p \in Process, RenewalUnanswered(p) \/ RenewalFails(p)
    PROVE  TypeOK' /\ AllGood'
<1>1. {"answer", "dropped"} \subseteq Cause
  BY DEF Cause
<1>2. CASE RenewalUnanswered(p)
  <2>1. AllGood' /\ mu' \in Process \union {None}
    BY <1>2, RenewFacts, RenewalFailedGood DEF RenewalUnanswered
  <2>2. newest' \in [Login -> Gen]
    BY <1>2, RenewFacts DEF RenewalUnanswered
  <2>3. lost' \in [Login -> Cause \union {None}]
    BY <1>1, <1>2 DEF RenewalUnanswered, TypeOK
  <2> QED
    BY <1>2, <2>1, <2>2, <2>3 DEF RenewalUnanswered, TypeOK, AllGood
<1>3. CASE RenewalFails(p)
  <2>1. AllGood' /\ mu' \in Process \union {None}
    BY <1>3, RenewalFailedGood DEF RenewalFails
  <2>2. lost' \in [Login -> Cause \union {None}]
    BY <1>1, <1>3, LoseTyped DEF RenewalFails
  <2> QED
    BY <1>3, <2>1, <2>2 DEF RenewalFails, TypeOK, AllGood, platform
<1> QED
  BY <1>2, <1>3

LEMMA SavesGood ==
    ASSUME TypeOK, AllGood, NEW p \in Process, Save(p) \/ SaveFails(p) \/ Keep(p)
    PROVE  TypeOK' /\ AllGood'
<1>1. {"save", "keep"} \subseteq Past /\ {"unsaved", "overwritten"} \subseteq Cause
  BY DEF Past, Cause
<1>2. CASE Save(p)
  <2>1. proc[p].id \in Id /\ LoginOf(p) \in Login /\ proc[p].held \in Gen
    BY <1>1, <1>2, AtCall DEF Save, Operation
  <2>2. rows' \in [Id -> Gen \union {None}] /\ lost' \in [Login -> Cause \union {None}]
    <3>1. rows' \in [Id -> Gen \union {None}]
      BY <1>2, <2>1 DEF Save, TypeOK
    <3>2. lost' \in [Login -> Cause \union {None}]
      BY <1>1, <1>2, <2>1 DEF Save, TypeOK
    <3> QED
      BY <3>1, <3>2
  <2>3. AllGood' /\ mu' \in Process \union {None}
    BY <1>2, LeaveGood DEF Save
  <2> QED
    BY <1>2, <2>2, <2>3 DEF Save, TypeOK, AllGood, platform
<1>3. CASE SaveFails(p)
  <2>1. AllGood' /\ mu' \in Process \union {None} /\ lost' \in [Login -> Cause \union {None}]
    BY <1>1, <1>3, LeaveGood, LoseTyped DEF SaveFails
  <2> QED
    BY <1>3, <2>1 DEF SaveFails, TypeOK, AllGood, platform
<1>4. CASE Keep(p)
  <2>1. AllGood' /\ mu' \in Process \union {None} /\ lost' \in [Login -> Cause \union {None}]
    <3>1. CASE Goes(p, "save") /\ UNCHANGED <<mu, lost>>
      <4>1. proc[p].at = "keep"
        BY <1>4 DEF Keep
      <4> QED
        BY <1>1, <3>1, <4>1, GoesGood DEF TypeOK
    <3>2. CASE Leave(p) /\ Lose(p, "unsaved")
      BY <1>1, <3>2, LeaveGood, LoseTyped
    <3> QED
      BY <1>4, <3>1, <3>2 DEF Keep
  <2> QED
    BY <1>4, <2>1 DEF Keep, TypeOK, AllGood, platform
<1> QED
  BY <1>2, <1>3, <1>4

LEMMA PlatformsGood ==
    ASSUME TypeOK, AllGood, NEW l \in Login, Expire(l) \/ RenewElsewhere(l)
    PROVE  TypeOK' /\ AllGood'
<1>1. CASE Expire(l)
  BY <1>1, MaxGenAssumption DEF Expire, TypeOK, AllGood, Gen, locks
<1>2. CASE RenewElsewhere(l)
  <2>1. newest[l] + 1 \in Gen /\ "elsewhere" \in Cause
    BY <1>2, MaxGenAssumption DEF RenewElsewhere, Renewable, TypeOK, Gen, Cause
  <2> QED
    BY <1>2, <2>1 DEF RenewElsewhere, TypeOK, AllGood, locks
<1> QED
  BY <1>1, <1>2

LEMMA GoodStep == TypeOK /\ AllGood /\ [Next]_vars => TypeOK' /\ AllGood'
<1> SUFFICES ASSUME TypeOK, AllGood, [Next]_vars PROVE TypeOK' /\ AllGood'
  OBVIOUS
<1>1. ASSUME NEW p \in Process, Step(p) PROVE TypeOK' /\ AllGood'
  BY <1>1, LocksGood, ReadGood, NextAccountGood, FindCodexGood, SucceedGood, CallsGood,
     RenewalAnsweredGood, RenewalsGood, SavesGood DEF Step
<1>2. CASE UNCHANGED vars
  BY <1>2 DEF vars, platform, locks, TypeOK, AllGood
<1> QED
  BY <1>1, <1>2, StartsGood, LocksGood, PlatformsGood DEF Next

-----------------------------------------------------------------------------
(* The invariant.                                                          *)

\* A goroutine that has read an account in accountOps finds it connected
\* until it returns: this is what keeps deleted accounts deleted.
RowsHeld ==
    \A p \in Process : proc[p].op \in Readers /\ proc[p].at \in Past => rows[proc[p].id] # None

\* An import is of a login that has a file.
FromFile ==
    \A p \in Process : proc[p].op = "import" /\ proc[p].at \in Past \union {"find"}
                       => file[LoginOf(p)] # None

\* No generation is known before the platform has handed it out.
Issued ==
    /\ \A i \in Id : rows[i] # None => rows[i] <= newest[Owner[i]]
    /\ \A l \in Login : file[l] # None => file[l] <= newest[l]
    /\ \A p \in Process : proc[p].at \in Past \union {"find"} => proc[p].held <= newest[LoginOf(p)]

\* A check-in that has been granted is asked for again only by the goroutine
\* that it was granted to, after the first request.
AsksForCheckin(r) == r.call \in {"checkin", "recheck"} /\ r.at \in {"call", "refresh", "again"}
NotTwice(r, done) == Owner[r.id] \notin done \/ (r.granted /\ ~(r.call = "checkin" /\ r.at = "call"))

\* A check-in is asked for by the holder of activityMu.
CheckinsGuarded ==
    \A p \in Process :
      /\ proc[p].op = "activity" /\ proc[p].at \in Past \union {"read"} => mu = p
      /\ AsksForCheckin(proc[p]) => NotTwice(proc[p], checked)

\* The credential that can be renewed is stored, or about to be, or there is
\* a cause; or the login has never been used.
Stored(l) == \E i \in Id : Owner[i] = l /\ rows[i] = newest[l]
InHand(l) == \E p \in Process : proc[p].dirty /\ LoginOf(p) = l /\ proc[p].held = newest[l]
Unused(l) == file[l] = None /\ \A i \in Id : Owner[i] = l => rows[i] = None
Traced == \A l \in Login : Rotates(l) => Stored(l) \/ InHand(l) \/ lost[l] \in Pardoned(l) \/ Unused(l)

-----------------------------------------------------------------------------
(* What the steps of a call do to the goroutine.                           *)

Calling(p) ==
    \/ CallSucceeds(p) \/ CheckinUnconfirmed(p) \/ CallRefused(p) \/ CallFails(p)
    \/ NotExpiring(p) \/ RenewalAnswered(p) \/ RenewalUnanswered(p) \/ RenewalFails(p)
    \/ Save(p) \/ SaveFails(p) \/ Keep(p)

\* It returns, or it is at a list of accounts.
Leaves(p) ==
    /\ proc'[p].at \in {"idle", "list"}
    /\ proc'[p].dirty = FALSE
    /\ mu' = mu \/ (mu = p /\ mu' = None)

\* It goes on, with the same account.
GoesOn(p) ==
    /\ proc'[p].at \in Past \union {"find"}
    /\ proc'[p].op = proc[p].op /\ proc'[p].id = proc[p].id
    /\ mu' = mu
    /\ AsksForCheckin(proc'[p]) =>
         \/ AsksForCheckin(proc[p]) /\ (NotTwice(proc[p], checked) => NotTwice(proc'[p], checked'))
         \/ proc[p].op = "activity" /\ NotTwice(proc'[p], checked')

SameCredential(p) == proc'[p].dirty = proc[p].dirty /\ proc'[p].held = proc[p].held

LEMMA LeavesOn == ASSUME TypeOK, AllGood, NEW p \in Process, Leave(p)
                  PROVE  Leaves(p) /\ \A q \in Process : q # p => proc'[q] = proc[q]
BY LeaveGood DEF Leaves

LEMMA GoesOnTo ==
    ASSUME AllGood, NEW p \in Process, proc[p].at \in Past, NEW at \in Past, Goes(p, at), UNCHANGED mu,
           at \in {"call", "refresh", "again"} => proc[p].call = "usage"
    PROVE  /\ GoesOn(p) /\ SameCredential(p)
           /\ \A q \in Process : q # p => proc'[q] = proc[q]
<1> DEFINE s == [proc[p] EXCEPT !.at = at]
<1>1. proc[p] \in Operation /\ at \in Where
  BY DEF AllGood, Past, Where
<1>2. /\ s.at = at /\ s.op = proc[p].op /\ s.id = proc[p].id /\ s.call = proc[p].call
      /\ s.held = proc[p].held /\ s.dirty = proc[p].dirty
  BY <1>1, ElsewhereGood
<1>3. proc'[p] = s /\ \A q \in Process : q # p => proc'[q] = proc[q]
  BY DEF Goes, Becomes, AllGood
<1> HIDE DEF s
<1> QED
  BY <1>2, <1>3 DEF GoesOn, SameCredential, AsksForCheckin

LEMMA UsageOn ==
    ASSUME AllGood, NEW p \in Process, NEW l, Becomes(p, UsageCall(proc[p], l)), UNCHANGED mu
    PROVE  /\ GoesOn(p) /\ SameCredential(p)
           /\ \A q \in Process : q # p => proc'[q] = proc[q]
<1> DEFINE s == UsageCall(proc[p], l)
<1>1. /\ s.at \in {"preempt", "call"} /\ s.op = proc[p].op /\ s.id = proc[p].id /\ s.call = "usage"
      /\ s.held = proc[p].held /\ s.dirty = proc[p].dirty
  BY DEF UsageCall, AllGood, Operation
<1>2. proc'[p] = s /\ \A q \in Process : q # p => proc'[q] = proc[q]
  BY DEF Becomes, AllGood
<1> HIDE DEF s
<1> QED
  BY <1>1, <1>2 DEF GoesOn, SameCredential, AsksForCheckin, Past

LEMMA SucceedFlow ==
    ASSUME TypeOK, AllGood, NEW p \in Process, CallSucceeds(p)
    PROVE  /\ proc[p].at \in Past
           /\ \/ Leaves(p) /\ proc[p].dirty = FALSE
              \/ GoesOn(p) /\ SameCredential(p)
           /\ \A q \in Process : q # p => proc'[q] = proc[q]
           /\ checked' = checked
              \/ (AsksForCheckin(proc[p]) /\ checked' = checked \union {LoginOf(p)})
<1>1. proc[p].at \in {"call", "again"} /\ proc[p].at \in Past
  BY DEF CallSucceeds, Past
<1>2. /\ proc[p] \in Operation /\ Shape(proc[p])
  BY <1>1, AtCall
<1>3. /\ proc[p].call \in {"usage", "status", "checkin", "recheck"}
      /\ proc[p].call = "status" => proc[p].op \in {"list", "activity"}
      /\ proc[p].op = "list" /\ proc[p].dirty => proc[p].tried
  BY <1>1, <1>2 DEF Shape, Asked, Renewed
<1>4. "save" \in Past
  BY DEF Past
<1>5. CASE proc[p].call = "usage"
  <2>1. Goes(p, "save") /\ UNCHANGED <<mu, checked>>
    BY <1>5 DEF CallSucceeds, Succeed
  <2> QED
    BY <1>1, <1>4, <2>1, GoesOnTo
<1>6. CASE proc[p].call = "status" /\ proc[p].op = "list"
  <2>1. /\ IF proc[p].tried THEN Goes(p, "save") /\ UNCHANGED mu ELSE Leave(p)
        /\ UNCHANGED checked
    BY <1>6 DEF CallSucceeds, Succeed
  <2>2. CASE proc[p].tried
    BY <1>1, <1>4, <2>1, <2>2, GoesOnTo
  <2>3. CASE ~proc[p].tried
    <3>1. proc[p].dirty = FALSE
      BY <1>2, <1>3, <1>6, <2>3 DEF Operation
    <3>2. Leave(p) /\ checked' = checked
      BY <2>1, <2>3
    <3>3. Leaves(p) /\ \A q \in Process : q # p => proc'[q] = proc[q]
      BY <3>2, LeavesOn
    <3> QED
      BY <1>1, <3>1, <3>2, <3>3
  <2> QED
    BY <2>2, <2>3
<1>7. CASE proc[p].call = "status" /\ proc[p].op = "activity"
  <2>1. /\ Becomes(p, IF LoginOf(p) \in checked THEN UsageCall(proc[p], LoginOf(p))
                      ELSE [proc[p] EXCEPT !.call = "checkin", !.at = "call"])
        /\ UNCHANGED <<mu, checked>>
    BY <1>7 DEF CallSucceeds, Succeed
  <2>2. CASE LoginOf(p) \in checked
    BY <1>1, <2>1, <2>2, UsageOn
  <2>3. CASE LoginOf(p) \notin checked
    <3> DEFINE s == [proc[p] EXCEPT !.call = "checkin", !.at = "call"]
    <3>1. /\ s.at = "call" /\ s.op = proc[p].op /\ s.id = proc[p].id
          /\ s.held = proc[p].held /\ s.dirty = proc[p].dirty
      BY <1>2 DEF Operation
    <3>2. proc'[p] = s /\ \A q \in Process : q # p => proc'[q] = proc[q]
      BY <2>1, <2>3 DEF Becomes, AllGood
    <3> HIDE DEF s
    <3> QED
      BY <1>1, <1>7, <2>1, <2>3, <3>1, <3>2 DEF GoesOn, SameCredential, Past, NotTwice, LoginOf
  <2> QED
    BY <2>2, <2>3
<1>8. CASE proc[p].call = "checkin"
  <2>1. /\ Becomes(p, UsageCall(proc[p], LoginOf(p)))
        /\ checked' = checked \union {LoginOf(p)}
        /\ UNCHANGED mu
    BY <1>8 DEF CallSucceeds, Succeed
  <2> QED
    BY <1>1, <1>8, <2>1, UsageOn DEF AsksForCheckin
<1>9. CASE proc[p].call = "recheck"
  <2>1. Becomes(p, UsageCall(proc[p], LoginOf(p))) /\ UNCHANGED <<mu, checked>>
    BY <1>9 DEF CallSucceeds, Succeed
  <2> QED
    BY <1>1, <2>1, UsageOn
<1> QED
  BY <1>3, <1>5, <1>6, <1>7, <1>8, <1>9

LEMMA CallingFlow ==
    ASSUME TypeOK, AllGood, NEW p \in Process, Calling(p)
    PROVE  /\ proc[p].at \in Past
           /\ \/ Leaves(p)
              \/ GoesOn(p) /\ (SameCredential(p) \/ RenewalAnswered(p))
           /\ \A q \in Process : q # p => proc'[q] = proc[q]
           /\ \/ checked' = checked
              \/ AsksForCheckin(proc[p]) /\ checked' = checked \union {LoginOf(p)}
<1>1. CASE CallSucceeds(p)
  BY <1>1, SucceedFlow
<1>2. CASE CheckinUnconfirmed(p)
  <2>1. proc[p].at \in Past /\ AsksForCheckin(proc[p])
    BY <1>2 DEF CheckinUnconfirmed, AsksForCheckin, Past
  <2>2. CASE Leave(p) /\ checked' = checked \union {LoginOf(p)}
    BY <2>1, <2>2, LeavesOn
  <2>3. CASE /\ UNCHANGED mu
             /\ proc'[p].at = proc[p].at /\ proc'[p].op = proc[p].op /\ proc'[p].id = proc[p].id
             /\ proc'[p].held = proc[p].held /\ proc'[p].dirty = proc[p].dirty
             /\ proc'[p].call = "recheck"
             /\ \A q \in Process : q # p => proc'[q] = proc[q]
             /\ \/ checked' = checked \union {LoginOf(p)} /\ proc'[p].granted
                \/ checked' = checked /\ proc'[p].granted = proc[p].granted
    <3>1. NotTwice(proc[p], checked) => NotTwice(proc'[p], checked')
      BY <2>3 DEF NotTwice
    <3> QED
      BY <2>1, <2>3, <3>1 DEF GoesOn, SameCredential
  <2> QED
    BY <1>2, <2>2, <2>3, UnconfirmedGood
<1>3. CASE CallRefused(p)
  <2>1. proc[p].at = "call" /\ proc[p].at \in Past
    BY <1>3 DEF CallRefused, Past
  <2>2. CASE proc[p].tried
    BY <1>3, <2>1, <2>2, LeavesOn DEF CallRefused, platform
  <2>3. CASE ~proc[p].tried
    <3>1. AsksForCheckin(proc'[p]) =>
            AsksForCheckin(proc[p]) /\ (NotTwice(proc[p], checked) => NotTwice(proc'[p], checked'))
      BY <1>3, <2>3, RefusedGood DEF AsksForCheckin, NotTwice
    <3> QED
      BY <1>3, <2>1, <2>3, <3>1, RefusedGood DEF GoesOn, SameCredential, Past
  <2> QED
    BY <2>2, <2>3
<1>4. CASE CallFails(p)
  <2>1. proc[p].at \in Past /\ "keep" \in Past
    BY <1>4 DEF CallFails, Past
  <2>2. CASE Kind(p) = "codex" /\ proc[p].at = "again"
    <3>1. Goes(p, "keep") /\ UNCHANGED mu /\ checked' = checked
      BY <1>4, <2>2 DEF CallFails, platform
    <3> QED
      BY <2>1, <3>1, GoesOnTo
  <2>3. CASE ~(Kind(p) = "codex" /\ proc[p].at = "again")
    BY <1>4, <2>1, <2>3, LeavesOn DEF CallFails, platform
  <2> QED
    BY <2>2, <2>3
<1>5. CASE NotExpiring(p)
  <2>1. proc[p].at = "preempt" /\ proc[p].at \in Past /\ "call" \in Past
    BY <1>5 DEF NotExpiring, Past
  <2>2. proc[p].call = "usage"
    BY <2>1, AtCall DEF Shape, Asked
  <2>3. Goes(p, "call") /\ UNCHANGED mu /\ checked' = checked
    BY <1>5 DEF NotExpiring, platform, locks
  <2> QED
    BY <2>1, <2>2, <2>3, GoesOnTo
<1>6. CASE RenewalAnswered(p)
  <2>1. /\ proc'[p].id = proc[p].id /\ proc'[p].op = proc[p].op /\ proc'[p].call = proc[p].call
        /\ proc'[p].granted = proc[p].granted
        /\ proc'[p].at \in {"find", "call", "again"}
        /\ proc'[p].at = "call" => proc'[p].call = "usage"
        /\ \A q \in Process : q # p => proc'[q] = proc[q]
        /\ proc[p].at \in {"preempt", "refresh"} /\ proc[p].at \in Past
    BY <1>6, RenewalAnsweredGood, RenewFacts DEF RenewalAnswered
  <2>2. proc[p].at = "preempt" => proc[p].call = "usage"
    BY <2>1, AtCall DEF Shape, Asked
  <2>3. UNCHANGED <<mu, checked>>
    BY <1>6 DEF RenewalAnswered, locks
  <2>4. AsksForCheckin(proc'[p]) =>
          AsksForCheckin(proc[p]) /\ (NotTwice(proc[p], checked) => NotTwice(proc'[p], checked'))
    BY <2>1, <2>2, <2>3 DEF AsksForCheckin, NotTwice
  <2> QED
    BY <1>6, <2>1, <2>3, <2>4 DEF GoesOn, Past
<1>7. ASSUME RenewalFailed(p), proc[p].at \in {"preempt", "refresh"}, UNCHANGED checked
      PROVE  /\ proc[p].at \in Past
             /\ \/ Leaves(p)
                \/ GoesOn(p) /\ SameCredential(p)
             /\ \A q \in Process : q # p => proc'[q] = proc[q]
  <2>1. proc[p].at \in Past /\ "call" \in Past
    BY <1>7 DEF Past
  <2>2. CASE proc[p].at = "preempt" /\ ~Client(LoginOf(p)).insists
    <3>1. proc[p].call = "usage"
      BY <2>1, <2>2, AtCall DEF Shape, Asked
    <3>2. Goes(p, "call") /\ UNCHANGED mu
      BY <1>7, <2>2 DEF RenewalFailed
    <3> QED
      BY <2>1, <3>1, <3>2, GoesOnTo
  <2>3. CASE ~(proc[p].at = "preempt" /\ ~Client(LoginOf(p)).insists)
    BY <1>7, <2>1, <2>3, LeavesOn DEF RenewalFailed
  <2> QED
    BY <2>2, <2>3
<1>8. CASE RenewalUnanswered(p)
  BY <1>7, <1>8, RenewFacts DEF RenewalUnanswered
<1>9. CASE RenewalFails(p)
  BY <1>7, <1>9 DEF RenewalFails, platform
<1>10. CASE Save(p)
  <2>1. Leave(p) /\ checked' = checked /\ proc[p].at \in Past
    BY <1>10 DEF Save, platform, Past
  <2> QED
    BY <2>1, LeavesOn
<1>11. CASE SaveFails(p)
  <2>1. Leave(p) /\ checked' = checked /\ proc[p].at \in Past
    BY <1>11 DEF SaveFails, platform, Past
  <2> QED
    BY <2>1, LeavesOn
<1>12. CASE Keep(p)
  <2>1. checked' = checked /\ proc[p].at \in Past /\ "save" \in Past
    BY <1>12 DEF Keep, platform, Past
  <2>2. CASE Goes(p, "save") /\ UNCHANGED mu
    BY <2>1, <2>2, GoesOnTo
  <2>3. CASE Leave(p)
    BY <2>1, <2>3, LeavesOn
  <2> QED
    BY <1>12, <2>2, <2>3 DEF Keep
<1> QED
  BY <1>1, <1>2, <1>3, <1>4, <1>5, <1>6, <1>8, <1>9, <1>10, <1>11, <1>12 DEF Calling

\* A goroutine that begins has no credential in hand, unless it imports.
LEMMA StartFlow ==
    ASSUME TypeOK, AllGood, NEW p \in Process, Start(p)
    PROVE  /\ UNCHANGED <<rows, deleted, platform, mu, lost>>
           /\ \A q \in Process : q # p => proc'[q] = proc[q]
           /\ proc[p].at = "idle" /\ proc'[p].dirty = FALSE
           /\ ~AsksForCheckin(proc'[p])
           /\ proc'[p].op = "activity" => proc'[p].at \in {"mu", "queued"}
           /\ proc'[p].at \in Past \union {"find"} =>
                /\ proc'[p].op = "import" /\ proc'[p].id \in Id
                /\ file[Owner[proc'[p].id]] # None /\ proc'[p].held = file[Owner[proc'[p].id]]
<1>1. \A q \in Process : q # p => proc'[q] = proc[q]
  BY DEF Start, StartRefreshOne, StartRunActivity, StartListActivities, StartDelete,
         StartImportCodex, StartImport, RLock, Becomes, AllGood
<1>2. UNCHANGED <<rows, deleted, platform, mu, lost>> /\ proc[p].at = "idle"
  BY DEF Start, StartRefreshOne, StartRunActivity, StartListActivities, StartDelete,
         StartImportCodex, StartImport, RLock, locks
<1>3. ASSUME NEW op \in {"refresh", "activity"}, NEW i \in Id, RLock(p, op, i)
      PROVE  /\ proc'[p].op = op /\ proc'[p].at \in {"queued", "mu", "read"} /\ proc'[p].dirty = FALSE
             /\ op = "activity" => proc'[p].at \in {"queued", "mu"}
  <2>1. FirstStep(op) = IF op = "refresh" THEN "read" ELSE "mu"
    BY DEF FirstStep
  <2>2. proc'[p] = [Idle EXCEPT !.op = op, !.id = i, !.at = IF writer = None THEN FirstStep(op) ELSE "queued"]
    BY <1>3 DEF RLock, Becomes, AllGood
  <2> QED
    BY <2>1, <2>2 DEF Idle
<1>4. CASE \E i \in Id : RLock(p, "refresh", i) \/ RLock(p, "activity", i)
  BY <1>1, <1>2, <1>3, <1>4 DEF AsksForCheckin, Past
<1>5. CASE StartListActivities(p)
  <2>1. \E at \in {"list", "queued"} :
          proc'[p] = [Idle EXCEPT !.op = "list", !.at = at,
                                  !.todo = {i \in Id : Family[Owner[i]] = "workbuddy"}]
    BY <1>5 DEF StartListActivities, Becomes, AllGood
  <2>2. proc'[p].op = "list" /\ proc'[p].at \in {"list", "queued"} /\ proc'[p].dirty = FALSE
    BY <2>1 DEF Idle
  <2> QED
    BY <1>1, <1>2, <2>2 DEF AsksForCheckin, Past
<1>6. CASE StartDelete(p)
  <2>1. \E i \in Known : proc'[p] = [Idle EXCEPT !.op = "delete", !.id = i, !.at = "lock"]
    BY <1>6 DEF StartDelete, Becomes, AllGood
  <2>2. proc'[p].op = "delete" /\ proc'[p].at = "lock" /\ proc'[p].dirty = FALSE
    BY <2>1 DEF Idle
  <2> QED
    BY <1>1, <1>2, <2>2 DEF AsksForCheckin, Past
<1>7. CASE StartImportCodex(p)
  <2>1. PICK i \in Id, at \in {"find", "refresh"} :
          /\ file[Owner[i]] # None
          /\ proc'[p] = [Idle EXCEPT !.op = "import", !.call = "import", !.id = i, !.at = at,
                                     !.held = file[Owner[i]]]
    BY <1>7 DEF StartImportCodex, Becomes, AllGood
  <2>2. /\ proc'[p].op = "import" /\ proc'[p].call = "import" /\ proc'[p].id = i
        /\ proc'[p].dirty = FALSE /\ proc'[p].held = file[Owner[i]]
    BY <2>1 DEF Idle
  <2> QED
    BY <1>1, <1>2, <2>1, <2>2 DEF AsksForCheckin
<1>8. CASE StartImport(p)
  <2>1. PICK i \in Id :
          /\ file[Owner[i]] # None
          /\ proc'[p] = UsageCall([Idle EXCEPT !.op = "import", !.id = i, !.held = file[Owner[i]]],
                                  Owner[i])
    BY <1>8 DEF StartImport, Becomes, AllGood
  <2>2. /\ proc'[p].op = "import" /\ proc'[p].call = "usage" /\ proc'[p].id = i
        /\ proc'[p].dirty = FALSE /\ proc'[p].held = file[Owner[i]]
    BY <2>1 DEF Idle, UsageCall
  <2> QED
    BY <1>1, <1>2, <2>1, <2>2 DEF AsksForCheckin
<1> QED
  BY <1>4, <1>5, <1>6, <1>7, <1>8 DEF Start, StartRefreshOne, StartRunActivity, Known

\* A goroutine that goes from the locks to its account.
Entering(p) == Lock(p) \/ LockActivity(p) \/ Read(p) \/ NextAccount(p) \/ FindCodex(p)

LEMMA EnterFlow ==
    ASSUME TypeOK, AllGood, NEW p \in Process, Entering(p)
    PROVE  /\ UNCHANGED <<rows, deleted, platform>>
           /\ \A q \in Process : q # p => proc'[q] = proc[q]
           /\ ~AsksForCheckin(proc'[p])
           /\ \/ mu' = mu
              \/ mu = p /\ mu' = None /\ proc'[p].op # "activity"
              \/ mu = None /\ mu' = p
           /\ proc'[p].op = "activity" /\ proc'[p].at \in Past \union {"read"} =>
                mu' = p \/ (mu' = mu /\ proc[p].op = "activity" /\ proc[p].at = "read")
           /\ proc'[p].op \in Readers /\ proc'[p].at \in Past => rows[proc'[p].id] # None
           /\ proc'[p].op = "import" => proc[p].op = "import" /\ proc[p].at = "find"
                                        /\ Owner[proc'[p].id] = LoginOf(p)
           /\ proc'[p].dirty => FindCodex(p) /\ SameCredential(p) /\ lost' = lost
                                /\ Owner[proc'[p].id] = LoginOf(p)
           /\ FindCodex(p) \/ lost' = lost
           /\ proc'[p].at \in Past \union {"find"} =>
                \/ rows[proc'[p].id] # None /\ proc'[p].held = rows[proc'[p].id]
                \/ FindCodex(p) /\ SameCredential(p) /\ Owner[proc'[p].id] = LoginOf(p)
<1>1. CASE Lock(p)
  <2>1. proc[p] \in Operation /\ Shape(proc[p]) /\ proc[p].at = "lock"
        /\ proc'[p] = [proc[p] EXCEPT !.at = "drain"] /\ mu' = mu
    BY <1>1 DEF Lock, Goes, Becomes, AllGood
  <2>2. proc'[p].op = "delete" /\ proc'[p].at = "drain" /\ proc'[p].dirty = FALSE
    BY <2>1 DEF Operation, Shape, Placed, Renewed, Past
  <2> QED
    BY <1>1, <2>1, <2>2 DEF Lock, Goes, Becomes, AllGood, AsksForCheckin, Past, Readers
<1>2. CASE LockActivity(p)
  <2>1. proc[p] \in Operation /\ Shape(proc[p]) /\ proc[p].at = "mu"
        /\ proc'[p] = [proc[p] EXCEPT !.at = "read"] /\ mu = None /\ mu' = p
    BY <1>2 DEF LockActivity, Goes, Becomes, AllGood
  <2>2. proc'[p].op = "activity" /\ proc'[p].at = "read" /\ proc'[p].dirty = FALSE
    BY <2>1 DEF Operation, Shape, Placed, Renewed, Past
  <2> QED
    BY <1>2, <2>1, <2>2 DEF LockActivity, Goes, Becomes, AllGood, AsksForCheckin, Past, Readers
<1>3. ASSUME Return(p)
      PROVE  /\ \A q \in Process : q # p => proc'[q] = proc[q]
             /\ proc'[p].op = "none" /\ proc'[p].at = "idle" /\ proc'[p].dirty = FALSE
             /\ mu' = mu \/ (mu = p /\ mu' = None)
  BY <1>3 DEF Return, AllGood, Idle
<1>4. CASE Read(p)
  <2>1. /\ proc[p] \in Operation /\ proc[p].at = "read" /\ proc[p].dirty = FALSE
        /\ proc[p].op \in {"refresh", "activity"}
    <3>1. proc[p] \in Operation /\ Shape(proc[p]) /\ proc[p].at = "read"
      BY <1>4 DEF Read, AllGood
    <3> QED
      BY <3>1 DEF Operation, Shape, Placed, Renewed, Past
  <2>2. UNCHANGED <<rows, deleted, platform, lost>>
    BY <1>4 DEF Read
  <2>3. ASSUME NEW r, proc'[p] = r, r.op = proc[p].op, r.id = proc[p].id, r.dirty = FALSE,
               r.at \in {"preempt", "call"}, r.call \in {"usage", "status"}, r.held = rows[proc[p].id],
               rows[proc[p].id] # None, mu' = mu, \A q \in Process : q # p => proc'[q] = proc[q]
        PROVE  /\ ~AsksForCheckin(proc'[p]) /\ proc'[p].op # "import" /\ proc'[p].dirty = FALSE
               /\ proc'[p].op = "activity" => proc[p].op = "activity"
               /\ rows[proc'[p].id] # None /\ proc'[p].held = rows[proc'[p].id]
    BY <2>1, <2>3 DEF AsksForCheckin
  <2>4. CASE Return(p)
    BY <1>3, <2>2, <2>4 DEF AsksForCheckin, Past, Readers
  <2>5. CASE /\ rows[proc[p].id] # None /\ UNCHANGED mu
             /\ Becomes(p, UsageCall([proc[p] EXCEPT !.held = rows[proc[p].id]], Owner[proc[p].id]))
    <3> DEFINE r == UsageCall([proc[p] EXCEPT !.held = rows[proc[p].id]], Owner[proc[p].id])
    <3>1. /\ r.op = proc[p].op /\ r.id = proc[p].id /\ r.dirty = FALSE
          /\ r.at \in {"preempt", "call"} /\ r.call = "usage"
          /\ r.held = rows[proc[p].id]
      BY <2>1 DEF UsageCall, Operation
    <3>2. proc'[p] = r /\ \A q \in Process : q # p => proc'[q] = proc[q]
      BY <2>5 DEF Becomes, AllGood
    <3> HIDE DEF r
    <3> QED
      BY <2>1, <2>2, <2>3, <2>5, <3>1, <3>2
  <2>6. CASE /\ rows[proc[p].id] # None /\ UNCHANGED mu
             /\ Becomes(p, [proc[p] EXCEPT !.call = "status", !.at = "call", !.held = rows[proc[p].id]])
    <3> DEFINE r == [proc[p] EXCEPT !.call = "status", !.at = "call", !.held = rows[proc[p].id]]
    <3>1. /\ r.op = proc[p].op /\ r.id = proc[p].id /\ r.dirty = FALSE
          /\ r.at \in {"preempt", "call"} /\ r.call = "status"
          /\ r.held = rows[proc[p].id]
      BY <2>1 DEF Operation
    <3>2. proc'[p] = r /\ \A q \in Process : q # p => proc'[q] = proc[q]
      BY <2>6 DEF Becomes, AllGood
    <3> HIDE DEF r
    <3> QED
      BY <2>1, <2>2, <2>3, <2>6, <3>1, <3>2
  <2> QED
    BY <1>4, <2>4, <2>5, <2>6 DEF Read
<1>5. CASE NextAccount(p)
  <2>1. /\ proc[p] \in Operation /\ proc[p].at = "list" /\ proc[p].dirty = FALSE
        /\ proc[p].op = "list"
    <3>1. proc[p] \in Operation /\ Shape(proc[p]) /\ proc[p].at = "list"
      BY <1>5 DEF NextAccount, AllGood
    <3> QED
      BY <3>1 DEF Operation, Shape, Placed, Renewed, Past
  <2>2. UNCHANGED <<rows, deleted, platform, lost>>
    BY <1>5 DEF NextAccount
  <2>3. CASE Return(p)
    BY <1>3, <2>2, <2>3 DEF AsksForCheckin, Past, Readers
  <2>4. ASSUME NEW i \in proc[p].todo, UNCHANGED mu, rows[i] # None,
               Becomes(p, [proc[p] EXCEPT !.id = i, !.call = "status", !.at = "call",
                                          !.held = rows[i], !.todo = @ \ {i}])
        PROVE  /\ \A q \in Process : q # p => proc'[q] = proc[q]
               /\ mu' = mu /\ proc'[p].op = "list" /\ proc'[p].dirty = FALSE
               /\ ~AsksForCheckin(proc'[p])
               /\ rows[proc'[p].id] # None /\ proc'[p].held = rows[proc'[p].id]
    <3> DEFINE r == [proc[p] EXCEPT !.id = i, !.call = "status", !.at = "call",
                                    !.held = rows[i], !.todo = @ \ {i}]
    <3>1. r.op = "list" /\ r.id = i /\ r.dirty = FALSE /\ r.call = "status" /\ r.held = rows[i]
      BY <2>1 DEF Operation
    <3>2. proc'[p] = r /\ \A q \in Process : q # p => proc'[q] = proc[q]
      BY <2>4 DEF Becomes, AllGood
    <3> HIDE DEF r
    <3> QED
      BY <2>4, <3>1, <3>2 DEF AsksForCheckin
  <2>5. ASSUME NEW i \in proc[p].todo, UNCHANGED mu, Becomes(p, [proc[p] EXCEPT !.todo = @ \ {i}])
        PROVE  /\ \A q \in Process : q # p => proc'[q] = proc[q]
               /\ mu' = mu /\ proc'[p].op = "list" /\ proc'[p].dirty = FALSE
               /\ ~AsksForCheckin(proc'[p])
               /\ proc'[p].at = "list"
    <3> DEFINE r == [proc[p] EXCEPT !.todo = @ \ {i}]
    <3>1. r.op = "list" /\ r.dirty = FALSE /\ r.at = "list"
      BY <2>1 DEF Operation
    <3>2. proc'[p] = r /\ \A q \in Process : q # p => proc'[q] = proc[q]
      BY <2>5 DEF Becomes, AllGood
    <3> HIDE DEF r
    <3> QED
      BY <2>5, <3>1, <3>2 DEF AsksForCheckin
  <2>6. CASE \E i \in proc[p].todo :
               /\ IF rows[i] # None
                  THEN Becomes(p, [proc[p] EXCEPT !.id = i, !.call = "status", !.at = "call",
                                                  !.held = rows[i], !.todo = @ \ {i}])
                  ELSE Becomes(p, [proc[p] EXCEPT !.todo = @ \ {i}])
               /\ UNCHANGED mu
    BY <2>2, <2>4, <2>5, <2>6 DEF Past
  <2> QED
    BY <1>5, <2>3, <2>6 DEF NextAccount
<1>6. CASE FindCodex(p)
  <2>1. proc[p] \in Operation /\ Shape(proc[p]) /\ proc[p].at = "find" /\ proc[p].op = "import"
    BY <1>6 DEF FindCodex, AllGood, Shape, Placed
  <2>2. UNCHANGED <<rows, deleted, platform, mu>>
    BY <1>6 DEF FindCodex, locks
  <2>3. ASSUME NEW i \in Id, Owner[i] = LoginOf(p), rows[i] # None,
               Becomes(p, UsageCall([proc[p] EXCEPT !.id = i, !.held = rows[i], !.dirty = FALSE], LoginOf(p)))
        PROVE  /\ \A q \in Process : q # p => proc'[q] = proc[q]
               /\ proc'[p].op = "import" /\ proc'[p].call = "usage" /\ proc'[p].dirty = FALSE
               /\ proc'[p].id = i /\ proc'[p].held = rows[i]
    <3> DEFINE r == UsageCall([proc[p] EXCEPT !.id = i, !.held = rows[i], !.dirty = FALSE], LoginOf(p))
    <3>1. r.op = "import" /\ r.id = i /\ r.dirty = FALSE /\ r.call = "usage" /\ r.held = rows[i]
      BY <2>1 DEF Operation, UsageCall
    <3>2. proc'[p] = r /\ \A q \in Process : q # p => proc'[q] = proc[q]
      BY <2>3 DEF Becomes, AllGood
    <3> HIDE DEF r
    <3> QED
      BY <3>1, <3>2
  <2>4. ASSUME Becomes(p, UsageCall(proc[p], LoginOf(p)))
        PROVE  /\ \A q \in Process : q # p => proc'[q] = proc[q]
               /\ proc'[p].op = "import" /\ proc'[p].call = "usage" /\ SameCredential(p)
               /\ proc'[p].id = proc[p].id
    <3> DEFINE r == UsageCall(proc[p], LoginOf(p))
    <3>1. r.op = "import" /\ r.id = proc[p].id /\ r.dirty = proc[p].dirty /\ r.held = proc[p].held
          /\ r.call = "usage"
      BY <2>1 DEF Operation, UsageCall
    <3>2. proc'[p] = r /\ \A q \in Process : q # p => proc'[q] = proc[q]
      BY <2>4 DEF Becomes, AllGood
    <3> HIDE DEF r
    <3> QED
      BY <3>1, <3>2 DEF SameCredential
  <2>5. CASE \E i \in Id :
               /\ rows[i] # None
               /\ Owner[i] = LoginOf(p)
               /\ Becomes(p, UsageCall([proc[p] EXCEPT !.id = i, !.held = rows[i], !.dirty = FALSE], LoginOf(p)))
    BY <1>6, <2>1, <2>2, <2>3, <2>5 DEF AsksForCheckin, Readers
  <2>6. CASE Becomes(p, UsageCall(proc[p], LoginOf(p))) /\ UNCHANGED lost
    BY <1>6, <2>1, <2>2, <2>4, <2>6 DEF AsksForCheckin, Readers, LoginOf
  <2> QED
    BY <1>6, <2>5, <2>6 DEF FindCodex
<1> QED
  BY <1>1, <1>2, <1>4, <1>5, <1>6 DEF Entering

LEMMA DeleteFlow ==
    ASSUME TypeOK, AllGood, NEW p \in Process, Delete(p)
    PROVE  /\ UNCHANGED <<platform, mu>>
           /\ proc'[p].at = "idle" /\ proc'[p].dirty = FALSE
           /\ \A q \in Process : q # p =>
                \/ proc'[q] = proc[q]
                \/ /\ proc[q].at = "queued" /\ proc'[q].at \in {"read", "mu", "list"}
                   /\ proc'[q].op \in Readers /\ proc'[q].dirty = FALSE
                   /\ proc'[q].op = "activity" => proc'[q].at = "mu"
           /\ proc[p].dirty = FALSE /\ proc[p].id \in Id
           /\ \A q \in Process : ~Reading(q)
           /\ DeleteRow(proc[p].id) \/ UNCHANGED <<rows, deleted, lost>>
<1>1. proc'[p] = Idle /\ Shape(proc[p]) /\ proc[p].at = "drain" /\ proc[p] \in Operation
  BY DEF Delete, Unlock, AllGood
<1>2. proc[p].dirty = FALSE /\ proc[p].id \in Id
  BY <1>1 DEF Shape, HasAccount, Renewed, Past, Operation
<1>3. ASSUME NEW q \in Process, q # p, proc'[q] # proc[q]
      PROVE  /\ proc[q].at = "queued" /\ proc'[q].at \in {"read", "mu", "list"}
             /\ proc'[q].op \in Readers /\ proc'[q].dirty = FALSE
             /\ proc'[q].op = "activity" => proc'[q].at = "mu"
  <2>1. proc[q].at = "queued" /\ proc'[q] = [proc[q] EXCEPT !.at = FirstStep(proc[q].op)]
    BY <1>3 DEF Delete, Unlock
  <2>2. proc[q] \in Operation /\ proc[q].op \in Readers /\ proc[q].dirty = FALSE
    <3>1. proc[q] \in Operation /\ Shape(proc[q])
      BY DEF AllGood
    <3> QED
      BY <2>1, <3>1 DEF Shape, HasAccount, Renewed, Past, Operation
  <2>3. FirstStep(proc[q].op) = IF proc[q].op = "refresh" THEN "read"
                                ELSE IF proc[q].op = "activity" THEN "mu" ELSE "list"
    BY <2>2 DEF FirstStep, Readers
  <2>4. FirstStep(proc[q].op) \in Where
    BY <2>3 DEF Where
  <2>5. /\ proc'[q].at = FirstStep(proc[q].op) /\ proc'[q].op = proc[q].op
        /\ proc'[q].dirty = proc[q].dirty
    BY <2>1, <2>2, <2>4, ElsewhereGood
  <2> QED
    BY <2>1, <2>2, <2>3, <2>5
<1>4. /\ UNCHANGED <<platform, mu>> /\ \A q \in Process : ~Reading(q)
      /\ DeleteRow(proc[p].id) \/ UNCHANGED <<rows, deleted, lost>>
  BY DEF Delete
<1>5. proc'[p].at = "idle" /\ proc'[p].dirty = FALSE
  BY <1>1 DEF Idle
<1> QED
  BY <1>2, <1>3, <1>4, <1>5

-----------------------------------------------------------------------------
(* Connected accounts stay so under the goroutines that have read them.    *)

LEMMA RowsOfCalls ==
    ASSUME TypeOK, AllGood, NEW p \in Process, Calling(p)
    PROVE  /\ UNCHANGED <<deleted, file>>
           /\ \/ rows' = rows
              \/ /\ Save(p)
                 /\ rows' = [rows EXCEPT ![proc[p].id] = proc[p].held]
                 /\ proc[p].id \in Id /\ proc[p].held \in Nat
<1>1. CASE Save(p)
  <2>1. proc[p].at \in Past
    BY <1>1 DEF Save, Past
  <2>2. proc[p].id \in Id /\ proc[p].held \in Gen
    BY <2>1, AtCall DEF Operation
  <2> QED
    BY <1>1, <2>2, MaxGenAssumption DEF Save, Gen, platform
<1>2. CASE ~Save(p)
  BY <1>2 DEF Calling, CallSucceeds, CheckinUnconfirmed, CallRefused, CallFails, NotExpiring,
              RenewalAnswered, RenewalUnanswered, RenewalFails, SaveFails, Keep, platform
<1> QED
  BY <1>1, <1>2

LEMMA RowsHeldStep == TypeOK /\ AllGood /\ RowsHeld /\ [Next]_vars => RowsHeld'
<1> SUFFICES ASSUME TypeOK, AllGood, RowsHeld, [Next]_vars,
                    NEW q \in Process, proc'[q].op \in Readers, proc'[q].at \in Past
             PROVE  rows'[proc'[q].id] # None
  BY DEF RowsHeld
<1>1. ASSUME NEW p \in Process, Start(p) PROVE rows'[proc'[q].id] # None
  <2>1. q # p
    BY <1>1, StartFlow DEF Readers
  <2> QED
    BY <1>1, <2>1, StartFlow DEF RowsHeld
<1>2. ASSUME NEW p \in Process, Entering(p) PROVE rows'[proc'[q].id] # None
  <2>1. CASE q = p
    BY <1>2, <2>1, EnterFlow
  <2>2. CASE q # p
    BY <1>2, <2>2, EnterFlow DEF RowsHeld
  <2> QED
    BY <2>1, <2>2
<1>3. ASSUME NEW p \in Process, Delete(p) PROVE rows'[proc'[q].id] # None
  <2>1. q # p /\ proc'[q] = proc[q]
    BY <1>3, DeleteFlow DEF Past
  <2>2. Reading(q)
    BY <2>1 DEF Reading, Readers, Past
  <2> QED
    BY <1>3, <2>2, DeleteFlow
<1>4. ASSUME NEW p \in Process, Calling(p) PROVE rows'[proc'[q].id] # None
  <2>1. rows[proc'[q].id] # None /\ proc'[q].id \in Id
    <3>1. CASE q = p
      <4>1. GoesOn(p) /\ proc[p].at \in Past
        BY <1>4, <3>1, CallingFlow DEF Leaves, Past
      <4> QED
        BY <3>1, <4>1, AtCall DEF GoesOn, RowsHeld
    <3>2. CASE q # p
      BY <1>4, <3>2, CallingFlow, AtCall DEF RowsHeld
    <3> QED
      BY <3>1, <3>2
  <2> QED
    BY <1>4, <2>1, RowsOfCalls, NoneAssumption DEF TypeOK
<1>5. ASSUME NEW l \in Login, Expire(l) \/ RenewElsewhere(l) PROVE rows'[proc'[q].id] # None
  BY <1>5 DEF Expire, RenewElsewhere, RowsHeld
<1>6. CASE UNCHANGED vars
  BY <1>6 DEF vars, RowsHeld
<1> QED
  BY <1>1, <1>2, <1>3, <1>4, <1>5, <1>6 DEF Next, Step, Entering, Calling

LEMMA CheckinsStep == TypeOK /\ AllGood /\ CheckinsGuarded /\ [Next]_vars => CheckinsGuarded'
<1> DEFINE Guarded(q) == /\ proc[q].op = "activity" /\ proc[q].at \in Past \union {"read"} => mu = q
                         /\ AsksForCheckin(proc[q]) => NotTwice(proc[q], checked)
<1> SUFFICES ASSUME TypeOK, AllGood, CheckinsGuarded, [Next]_vars, NEW q \in Process PROVE Guarded(q)'
  BY DEF CheckinsGuarded
<1>1. Guarded(q)
  BY DEF CheckinsGuarded
<1>2. ASSUME NEW p \in Process, Start(p) PROVE Guarded(q)'
  <2>1. CASE q = p
    BY <1>2, <2>1, StartFlow DEF Past
  <2>2. CASE q # p
    <3>1. proc'[q] = proc[q] /\ mu' = mu /\ checked' = checked
      BY <1>2, <2>2, StartFlow DEF platform
    <3> QED
      BY <1>1, <3>1 DEF LoginOf
  <2> QED
    BY <2>1, <2>2
<1>3. ASSUME NEW p \in Process, Entering(p) PROVE Guarded(q)'
  <2>1. CASE q = p
    BY <1>1, <1>3, <2>1, EnterFlow
  <2>2. CASE q # p
    BY <1>1, <1>3, <2>2, EnterFlow, NoneAssumption DEF LoginOf, platform
  <2> QED
    BY <2>1, <2>2
<1>4. ASSUME NEW p \in Process, Delete(p) PROVE Guarded(q)'
  <2>1. CASE q = p
    BY <1>4, <2>1, DeleteFlow DEF Past, AsksForCheckin
  <2>2. CASE q # p
    <3>1. mu' = mu /\ checked' = checked
      BY <1>4, DeleteFlow DEF platform
    <3>2. CASE proc'[q] = proc[q]
      BY <1>1, <3>1, <3>2 DEF LoginOf
    <3>3. CASE proc'[q] # proc[q]
      <4>1. proc'[q].at \in {"read", "mu", "list"} /\ (proc'[q].op = "activity" => proc'[q].at = "mu")
        BY <1>4, <2>2, <3>3, DeleteFlow
      <4> QED
        BY <4>1 DEF Past, AsksForCheckin
    <3> QED
      BY <3>2, <3>3
  <2> QED
    BY <2>1, <2>2
<1>5. ASSUME NEW p \in Process, Calling(p) PROVE Guarded(q)'
  <2>1. CASE q = p
    <3>1. CASE Leaves(p)
      BY <2>1, <3>1 DEF Leaves, Past, AsksForCheckin
    <3>2. CASE GoesOn(p)
      BY <1>1, <1>5, <2>1, <3>2, CallingFlow DEF GoesOn, LoginOf
    <3> QED
      BY <1>5, <3>1, <3>2, CallingFlow
  <2>2. CASE q # p
    <3>1. proc'[q] = proc[q]
      BY <1>5, <2>2, CallingFlow
    <3>2. proc[q].op = "activity" /\ proc[q].at \in Past \union {"read"} => mu' = q
      BY <1>1, <1>5, <2>2, CallingFlow DEF Leaves, GoesOn
    <3>3. ASSUME AsksForCheckin(proc[q]) PROVE NotTwice(proc[q], checked')
      <4>1. checked' = checked
        <5> SUFFICES ASSUME AsksForCheckin(proc[p]) PROVE FALSE
          BY <1>5, CallingFlow
        <5>1. \A r \in {p, q} : mu = r
          <6> SUFFICES ASSUME NEW r \in {p, q} PROVE mu = r
            OBVIOUS
          <6>1. r \in Process /\ proc[r].call \in {"checkin", "recheck"} /\ proc[r].at \in Past
            BY <3>3 DEF AsksForCheckin, Past
          <6>2. proc[r].op = "activity"
            BY <6>1, AtCall DEF Shape, Asked
          <6> QED
            BY <6>1, <6>2 DEF CheckinsGuarded
        <5> QED
          BY <2>2, <5>1
      <4> QED
        BY <1>1, <3>3, <4>1
    <3> QED
      BY <3>1, <3>2, <3>3 DEF LoginOf
  <2> QED
    BY <2>1, <2>2
<1>6. ASSUME NEW l \in Login, Expire(l) \/ RenewElsewhere(l) PROVE Guarded(q)'
  BY <1>1, <1>6 DEF Expire, RenewElsewhere, LoginOf, locks
<1>7. CASE UNCHANGED vars
  BY <1>1, <1>7 DEF vars, LoginOf, platform, locks
<1> QED
  BY <1>2, <1>3, <1>4, <1>5, <1>6, <1>7 DEF Next, Step, Entering, Calling

-----------------------------------------------------------------------------
(* Imports have a file, and generations are issued before they are used.   *)

LEMMA FileKept ==
    ASSUME TypeOK, [Next]_vars, NEW l \in Login, file[l] # None
    PROVE  file'[l] # None
<1>1. ASSUME NEW k \in Login, RenewElsewhere(k) PROVE file'[l] # None
  BY <1>1, NoneAssumption, MaxGenAssumption DEF RenewElsewhere, TypeOK, Gen
<1>2. ASSUME NEW p \in Process, Start(p) \/ Entering(p) \/ Delete(p) \/ Calling(p)
      PROVE  file' = file
  BY <1>2 DEF Start, StartRefreshOne, StartRunActivity, StartListActivities, StartDelete,
              StartImportCodex, StartImport, RLock, Entering, Lock, LockActivity, Read, NextAccount,
              FindCodex, Delete, Calling, CallSucceeds, CheckinUnconfirmed, CallRefused, CallFails,
              NotExpiring, RenewalAnswered, RenewalUnanswered, RenewalFails, Save, SaveFails, Keep,
              platform
<1>3. ASSUME NEW k \in Login, Expire(k) PROVE file' = file
  BY <1>3 DEF Expire
<1>4. CASE UNCHANGED vars
  BY <1>4 DEF vars, platform
<1> QED
  BY <1>1, <1>2, <1>3, <1>4 DEF Next, Step, Entering, Calling

LEMMA FromFileStep == TypeOK /\ AllGood /\ FromFile /\ [Next]_vars => FromFile'
<1> SUFFICES ASSUME TypeOK, AllGood, FromFile, [Next]_vars,
                    NEW q \in Process, proc'[q].op = "import", proc'[q].at \in Past \union {"find"}
             PROVE  file'[Owner[proc'[q].id]] # None
  BY DEF FromFile, LoginOf
<1>1. AllGood'
  BY GoodStep
<1>2. proc'[q].id \in Id /\ Owner[proc'[q].id] \in Login
  BY <1>1, OwnerAssumption DEF AllGood, Shape, HasAccount
<1> SUFFICES file[Owner[proc'[q].id]] # None
  BY <1>2, FileKept
<1>3. CASE proc'[q] = proc[q]
  BY <1>3 DEF FromFile, LoginOf
<1>4. ASSUME NEW p \in Process, Start(p) PROVE file[Owner[proc'[q].id]] # None
  BY <1>3, <1>4, StartFlow
<1>5. ASSUME NEW p \in Process, Entering(p) PROVE file[Owner[proc'[q].id]] # None
  BY <1>3, <1>5, EnterFlow DEF FromFile
<1>6. ASSUME NEW p \in Process, Delete(p) PROVE file[Owner[proc'[q].id]] # None
  BY <1>3, <1>6, DeleteFlow DEF Past
<1>7. ASSUME NEW p \in Process, Calling(p) PROVE file[Owner[proc'[q].id]] # None
  <2>1. CASE q = p
    <3>1. GoesOn(p) /\ proc[p].at \in Past
      BY <1>7, <2>1, CallingFlow DEF Leaves, Past
    <3> QED
      BY <2>1, <3>1 DEF GoesOn, FromFile, LoginOf
  <2> QED
    BY <1>3, <1>7, <2>1, CallingFlow
<1>8. ASSUME NEW l \in Login, Expire(l) \/ RenewElsewhere(l) PROVE proc'[q] = proc[q]
  BY <1>8 DEF Expire, RenewElsewhere
<1>9. CASE UNCHANGED vars
  BY <1>3, <1>9 DEF vars
<1> QED
  BY <1>3, <1>4, <1>5, <1>6, <1>7, <1>8, <1>9 DEF Next, Step, Entering, Calling

LEMMA NewestGrows ==
    ASSUME TypeOK, AllGood, [Next]_vars, NEW l \in Login
    PROVE  newest[l] \in Nat /\ newest'[l] \in Nat /\ newest[l] <= newest'[l]
<1>1. newest[l] \in Nat /\ newest'[l] \in Nat
  BY GoodStep, MaxGenAssumption DEF TypeOK, Gen
<1>2. ASSUME NEW k \in Login, Expire(k) \/ RenewElsewhere(k) PROVE newest[l] <= newest'[l]
  BY <1>1, <1>2, MaxGenAssumption DEF Expire, RenewElsewhere, TypeOK, Gen
<1>3. ASSUME NEW p \in Process, RenewalAnswered(p) \/ RenewalUnanswered(p) PROVE newest[l] <= newest'[l]
  <2>1. Renew(p)
    BY <1>3 DEF RenewalAnswered, RenewalUnanswered
  <2> QED
    BY <1>1, <2>1, RenewFacts
<1>4. ASSUME NEW p \in Process,
             \/ Start(p) \/ Entering(p) \/ Delete(p)
             \/ Calling(p) /\ ~(RenewalAnswered(p) \/ RenewalUnanswered(p))
      PROVE  newest' = newest
  BY <1>4 DEF Start, StartRefreshOne, StartRunActivity, StartListActivities, StartDelete,
              StartImportCodex, StartImport, RLock, Entering, Lock, LockActivity, Read, NextAccount,
              FindCodex, Delete, Calling, CallSucceeds, CheckinUnconfirmed, CallRefused, CallFails,
              NotExpiring, RenewalFails, Save, SaveFails, Keep, platform
<1>5. CASE UNCHANGED vars
  BY <1>1, <1>5 DEF vars, platform
<1> QED
  BY <1>1, <1>2, <1>3, <1>4, <1>5 DEF Next, Step, Entering, Calling

LEMMA RowsStep ==
    ASSUME TypeOK, AllGood, [Next]_vars, NEW i \in Id, rows'[i] # None
    PROVE  \/ rows'[i] = rows[i]
           \/ \E p \in Process : Save(p) /\ i = proc[p].id /\ rows'[i] = proc[p].held
<1>1. ASSUME NEW p \in Process, Start(p) PROVE rows'[i] = rows[i]
  BY <1>1, StartFlow
<1>2. ASSUME NEW p \in Process, Entering(p) PROVE rows'[i] = rows[i]
  BY <1>2, EnterFlow
<1>3. ASSUME NEW p \in Process, Delete(p) PROVE rows'[i] = rows[i]
  BY <1>3, DeleteFlow DEF DeleteRow, TypeOK
<1>4. ASSUME NEW p \in Process, Calling(p)
      PROVE  rows'[i] = rows[i] \/ (Save(p) /\ i = proc[p].id /\ rows'[i] = proc[p].held)
  BY <1>4, RowsOfCalls DEF TypeOK
<1>5. ASSUME NEW l \in Login, Expire(l) \/ RenewElsewhere(l) PROVE rows'[i] = rows[i]
  BY <1>5 DEF Expire, RenewElsewhere
<1>6. CASE UNCHANGED vars
  BY <1>6 DEF vars
<1> QED
  BY <1>1, <1>2, <1>3, <1>4, <1>5, <1>6 DEF Next, Step, Entering, Calling

LEMMA FileStep ==
    ASSUME TypeOK, AllGood, [Next]_vars, NEW l \in Login
    PROVE  file'[l] = file[l] \/ file'[l] = newest'[l]
<1>1. ASSUME NEW k \in Login, RenewElsewhere(k) PROVE file'[l] = file[l] \/ file'[l] = newest'[l]
  BY <1>1 DEF RenewElsewhere, TypeOK
<1>2. ASSUME NEW p \in Process, Start(p) \/ Entering(p) \/ Delete(p) \/ Calling(p) PROVE file' = file
  BY <1>2, StartFlow, EnterFlow, DeleteFlow, RowsOfCalls DEF platform
<1>3. ASSUME NEW k \in Login, Expire(k) PROVE file' = file
  BY <1>3 DEF Expire
<1>4. CASE UNCHANGED vars
  BY <1>4 DEF vars, platform
<1> QED
  BY <1>1, <1>2, <1>3, <1>4 DEF Next, Step, Entering, Calling

LEMMA IssuedStep == TypeOK /\ AllGood /\ Issued /\ [Next]_vars => Issued'
<1> SUFFICES ASSUME TypeOK, AllGood, Issued, [Next]_vars PROVE Issued'
  OBVIOUS
<1>0. TypeOK' /\ AllGood'
  BY GoodStep
<1>1. \A l \in Login : newest[l] \in Nat /\ newest'[l] \in Nat /\ newest[l] <= newest'[l]
  BY NewestGrows
<1>2. ASSUME NEW i \in Id, rows'[i] # None PROVE rows'[i] <= newest'[Owner[i]]
  <2>1. Owner[i] \in Login /\ rows'[i] \in Nat
    BY <1>0, <1>2, OwnerAssumption, MaxGenAssumption DEF TypeOK, Gen
  <2>2. CASE rows'[i] = rows[i]
    BY <1>1, <1>2, <2>1, <2>2 DEF Issued
  <2>3. ASSUME NEW p \in Process, Save(p), i = proc[p].id, rows'[i] = proc[p].held
        PROVE  rows'[i] <= newest'[Owner[i]]
    <3>1. proc[p].held <= newest[LoginOf(p)]
      BY <2>3 DEF Save, Past, Issued
    <3> QED
      BY <1>1, <2>1, <2>3, <3>1 DEF LoginOf
  <2> QED
    BY <1>2, <2>2, <2>3, RowsStep
<1>3. ASSUME NEW l \in Login, file'[l] # None PROVE file'[l] <= newest'[l]
  <2>1. file'[l] \in Nat
    BY <1>0, <1>3, MaxGenAssumption DEF TypeOK, Gen
  <2> QED
    BY <1>1, <1>3, <2>1, FileStep DEF Issued
<1>4. ASSUME NEW q \in Process, proc'[q].at \in Past \union {"find"}
      PROVE  proc'[q].held <= newest'[Owner[proc'[q].id]]
  <2>1. /\ proc'[q].id \in Id /\ Owner[proc'[q].id] \in Login /\ proc'[q].held \in Nat
    BY <1>0, <1>4, OwnerAssumption, MaxGenAssumption DEF AllGood, Shape, HasAccount, Operation, Gen
  <2> DEFINE l == Owner[proc'[q].id]
  <2>2. ASSUME proc'[q].held <= newest[l] PROVE proc'[q].held <= newest'[l]
    BY <1>1, <2>1, <2>2
  <2>3. CASE proc'[q] = proc[q]
    BY <1>4, <2>2, <2>3 DEF Issued, LoginOf
  <2>4. ASSUME NEW p \in Process, Start(p) PROVE proc'[q].held <= newest'[l]
    <3>1. CASE q = p
      <4>1. file[l] # None /\ proc'[q].held = file[l]
        BY <1>4, <2>4, <3>1, StartFlow
      <4> QED
        BY <2>1, <2>2, <4>1 DEF Issued
    <3> QED
      BY <2>3, <2>4, <3>1, StartFlow
  <2>5. ASSUME NEW p \in Process, Entering(p) PROVE proc'[q].held <= newest'[l]
    <3>1. CASE q = p /\ rows[proc'[p].id] # None /\ proc'[p].held = rows[proc'[p].id]
      BY <2>1, <2>2, <3>1 DEF Issued
    <3>2. CASE q = p /\ FindCodex(p) /\ SameCredential(p) /\ Owner[proc'[p].id] = LoginOf(p)
      BY <2>2, <3>2 DEF Issued, SameCredential, FindCodex
    <3>3. CASE q # p
      BY <2>3, <2>5, <3>3, EnterFlow
    <3> QED
      BY <1>4, <2>5, <3>1, <3>2, <3>3, EnterFlow
  <2>6. ASSUME NEW p \in Process, Delete(p) PROVE proc'[q].held <= newest'[l]
    BY <1>4, <2>3, <2>6, DeleteFlow DEF Past
  <2>7. ASSUME NEW p \in Process, Calling(p) PROVE proc'[q].held <= newest'[l]
    <3>1. CASE q = p /\ RenewalAnswered(p)
      <4>1. proc'[p].held = newest'[LoginOf(p)] /\ proc'[p].id = proc[p].id
        BY <3>1, RenewalAnsweredGood
      <4> QED
        BY <1>1, <2>1, <3>1, <4>1 DEF LoginOf
    <3>2. CASE q = p /\ ~RenewalAnswered(p)
      <4>1. GoesOn(p) /\ SameCredential(p) /\ proc[p].at \in Past
        BY <1>4, <2>7, <3>2, CallingFlow DEF Leaves, Past
      <4> QED
        BY <2>2, <3>2, <4>1 DEF GoesOn, SameCredential, Issued, LoginOf
    <3>3. CASE q # p
      BY <2>3, <2>7, <3>3, CallingFlow
    <3> QED
      BY <3>1, <3>2, <3>3
  <2>8. ASSUME NEW k \in Login, Expire(k) \/ RenewElsewhere(k) PROVE proc'[q] = proc[q]
    BY <2>8 DEF Expire, RenewElsewhere
  <2>9. CASE UNCHANGED vars
    BY <2>3, <2>9 DEF vars
  <2> QED
    BY <2>3, <2>4, <2>5, <2>6, <2>7, <2>8, <2>9 DEF Next, Step, Entering, Calling
<1> QED
  BY <1>2, <1>3, <1>4 DEF Issued, LoginOf

-----------------------------------------------------------------------------
(* The credential that can be renewed does not get lost without a cause.   *)

CauseGiven(p) == lost'[LoginOf(p)] \in Pardoned(LoginOf(p))
CausesOnly == \A l \in Login : lost'[l] = lost[l] \/ lost'[l] \in Pardoned(l)

\* What a goroutine that gives up a renewed credential leaves behind.
LEMMA LoseTraces ==
    ASSUME TypeOK, NEW p \in Process, LoginOf(p) \in Login,
           NEW cause \in {"dropped", "unsaved", "import"}, Lose(p, cause),
           cause = "dropped" => ~(proc[p].dirty /\ Kind(p) = "codex" /\ proc[p].op # "import")
    PROVE  CausesOnly /\ (proc[p].dirty => CauseGiven(p))
<1>1. CASE proc[p].dirty
  <2>1. lost' = [lost EXCEPT ![LoginOf(p)] = IF proc[p].op = "import" THEN "import" ELSE cause]
    BY <1>1 DEF Lose
  <2>2. (IF proc[p].op = "import" THEN "import" ELSE cause) \in Pardoned(LoginOf(p))
    BY <1>1 DEF Pardoned, Kind
  <2> QED
    BY <2>1, <2>2 DEF CausesOnly, CauseGiven, TypeOK
<1>2. CASE ~proc[p].dirty
  BY <1>2 DEF Lose, CausesOnly
<1> QED
  BY <1>1, <1>2

Quiet(p) == CallSucceeds(p) \/ CheckinUnconfirmed(p) \/ CallRefused(p) \/ CallFails(p)
            \/ NotExpiring(p) \/ RenewalFails(p) \/ SaveFails(p) \/ Keep(p)

LEMMA QuietFlow ==
    ASSUME TypeOK, AllGood, NEW p \in Process, Quiet(p)
    PROVE  /\ UNCHANGED <<rows, newest, file>>
           /\ CausesOnly
           /\ proc[p].dirty => \/ SameCredential(p) /\ proc'[p].id = proc[p].id
                               \/ CauseGiven(p)
<1>0. UNCHANGED <<rows, newest, file>>
  BY DEF Quiet, CallSucceeds, CheckinUnconfirmed, CallRefused, CallFails, NotExpiring,
         RenewalFails, SaveFails, Keep, platform
<1> DEFINE Fine == /\ CausesOnly
                   /\ proc[p].dirty => \/ SameCredential(p) /\ proc'[p].id = proc[p].id
                                       \/ CauseGiven(p)
<1> SUFFICES Fine
  BY <1>0
<1>1. proc[p].at \in Past
  BY DEF Quiet, CallSucceeds, CheckinUnconfirmed, CallRefused, CallFails, NotExpiring,
         RenewalFails, SaveFails, Keep, Past
<1>2. /\ LoginOf(p) \in Login /\ Shape(proc[p]) /\ proc[p] \in Operation
  BY <1>1, AtCall
<1>3. proc[p].dirty /\ Kind(p) = "codex" /\ proc[p].op # "import" => proc[p].at \in {"again", "keep", "save"}
  BY <1>2 DEF Shape, Renewed, Kind, LoginOf
<1>4. ASSUME NEW cause \in {"dropped", "unsaved"}, Lose(p, cause),
             cause = "dropped" => ~(proc[p].dirty /\ Kind(p) = "codex" /\ proc[p].op # "import")
      PROVE  Fine
  BY <1>2, <1>4, LoseTraces
<1>5. ASSUME UNCHANGED lost, SameCredential(p), GoesOn(p) PROVE Fine
  BY <1>5 DEF CausesOnly, GoesOn
<1>6. CASE CallSucceeds(p)
  <2>1. UNCHANGED lost
    BY <1>6 DEF CallSucceeds
  <2> QED
    BY <1>6, <2>1, SucceedFlow DEF CausesOnly, GoesOn
<1>7. CASE CheckinUnconfirmed(p)
  <2>1. proc[p].call = "checkin"
    BY <1>7 DEF CheckinUnconfirmed
  <2>2. Kind(p) # "codex"
    BY <1>1, <1>2, <2>1 DEF Shape, Asked, Kind, LoginOf
  <2>3. CASE Lose(p, "dropped")
    BY <1>4, <2>2, <2>3
  <2>4. CASE /\ UNCHANGED lost /\ proc'[p].id = proc[p].id
             /\ proc'[p].held = proc[p].held /\ proc'[p].dirty = proc[p].dirty
    BY <2>4 DEF CausesOnly, SameCredential
  <2> QED
    BY <1>7, <2>3, <2>4, UnconfirmedGood
<1>8. CASE CallRefused(p)
  <2>1. proc[p].at = "call"
    BY <1>8 DEF CallRefused
  <2>2. CASE proc[p].tried
    <3>1. Lose(p, "dropped")
      BY <1>8, <2>2 DEF CallRefused
    <3> QED
      BY <1>3, <1>4, <2>1, <3>1
  <2>3. CASE ~proc[p].tried
    BY <1>8, <2>3, RefusedGood DEF CausesOnly, SameCredential
  <2> QED
    BY <2>2, <2>3
<1>9. CASE CallFails(p)
  <2>1. proc[p].at \in {"call", "again"} /\ "keep" \in Past
    BY <1>9 DEF CallFails, Past
  <2>2. CASE Kind(p) = "codex" /\ proc[p].at = "again"
    <3>1. Goes(p, "keep") /\ UNCHANGED <<mu, lost>>
      BY <1>9, <2>2 DEF CallFails
    <3> QED
      BY <1>1, <1>5, <2>1, <3>1, GoesOnTo
  <2>3. CASE ~(Kind(p) = "codex" /\ proc[p].at = "again")
    <3>1. Lose(p, "dropped")
      BY <1>9, <2>3 DEF CallFails
    <3> QED
      BY <1>3, <1>4, <2>1, <2>3, <3>1
  <2> QED
    BY <2>2, <2>3
<1>10. CASE NotExpiring(p)
  <2>1. proc[p].at = "preempt" /\ "call" \in Past /\ Goes(p, "call") /\ UNCHANGED <<mu, lost>>
    BY <1>10 DEF NotExpiring, Past, locks
  <2>2. proc[p].call = "usage"
    BY <1>2, <2>1 DEF Shape, Asked
  <2> QED
    BY <1>1, <1>5, <2>1, <2>2, GoesOnTo
<1>11. CASE RenewalFails(p)
  <2>1. proc[p].at \in {"preempt", "refresh"} /\ Lose(p, "dropped")
    BY <1>11 DEF RenewalFails
  <2> QED
    BY <1>3, <1>4, <2>1
<1>12. CASE SaveFails(p)
  BY <1>4, <1>12 DEF SaveFails
<1>13. CASE Keep(p)
  <2>1. "save" \in Past /\ proc[p].at = "keep"
    BY <1>13 DEF Keep, Past
  <2>2. CASE Goes(p, "save") /\ UNCHANGED <<mu, lost>>
    BY <1>1, <1>5, <2>1, <2>2, GoesOnTo
  <2>3. CASE Lose(p, "unsaved")
    BY <1>4, <2>3
  <2> QED
    BY <1>13, <2>2, <2>3 DEF Keep
<1> QED
  BY <1>6, <1>7, <1>8, <1>9, <1>10, <1>11, <1>12, <1>13 DEF Quiet

TracedLogin(l) == Stored(l) \/ InHand(l) \/ lost[l] \in Pardoned(l) \/ Unused(l)

\* As long as the renewed credentials stay in hand or a cause is given.
LEMMA QuietTraces ==
    ASSUME NEW l \in Login, TracedLogin(l),
           UNCHANGED rows, newest'[l] = newest[l], file'[l] = file[l],
           lost'[l] = lost[l] \/ lost'[l] \in Pardoned(l),
           \A q \in Process : proc[q].dirty /\ LoginOf(q) = l =>
             \/ proc'[q].dirty /\ Owner[proc'[q].id] = l /\ proc'[q].held = proc[q].held
             \/ lost'[l] \in Pardoned(l)
    PROVE  TracedLogin(l)'
<1>1. Pardoned(l)' = Pardoned(l)
  BY DEF Pardoned
<1>2. CASE Stored(l)
  BY <1>2 DEF Stored, TracedLogin
<1>3. CASE InHand(l)
  <2>1. PICK q \in Process : proc[q].dirty /\ LoginOf(q) = l /\ proc[q].held = newest[l]
    BY <1>3 DEF InHand
  <2>2. CASE proc'[q].dirty /\ Owner[proc'[q].id] = l /\ proc'[q].held = proc[q].held
    BY <2>1, <2>2 DEF InHand, LoginOf, TracedLogin
  <2>3. CASE lost'[l] \in Pardoned(l)
    BY <1>1, <2>3 DEF TracedLogin
  <2> QED
    BY <2>1, <2>2, <2>3
<1>4. CASE lost[l] \in Pardoned(l)
  BY <1>1, <1>4 DEF TracedLogin
<1>5. CASE Unused(l)
  BY <1>5 DEF Unused, TracedLogin
<1> QED
  BY <1>2, <1>3, <1>4, <1>5 DEF TracedLogin

LEMMA FindTraces ==
    ASSUME TypeOK, AllGood, NEW p \in Process, FindCodex(p)
    PROVE  /\ CausesOnly
           /\ proc[p].dirty => \/ SameCredential(p) /\ Owner[proc'[p].id] = LoginOf(p)
                               \/ CauseGiven(p)
<1>1. /\ proc[p] \in Operation /\ Shape(proc[p]) /\ proc[p].op = "import" /\ LoginOf(p) \in Login
  BY OwnerAssumption DEF AllGood, FindCodex, Shape, HasAccount, Placed, LoginOf
<1>2. CASE Lose(p, "import")
  BY <1>1, <1>2, LoseTraces
<1>3. CASE UNCHANGED lost /\ Becomes(p, UsageCall(proc[p], LoginOf(p)))
  <2>1. SameCredential(p) /\ GoesOn(p)
    BY <1>3, UsageOn DEF FindCodex, locks
  <2> QED
    BY <1>3, <2>1 DEF CausesOnly, GoesOn, LoginOf
<1> QED
  BY <1>2, <1>3 DEF FindCodex

LEMMA DeleteTraces ==
    ASSUME TypeOK, AllGood, NEW p \in Process, Delete(p), NEW l \in Login, TracedLogin(l)
    PROVE  TracedLogin(l)'
<1>1. \A q \in Process : proc[q].dirty => proc'[q] = proc[q]
  <2> SUFFICES ASSUME NEW q \in Process, proc[q].dirty PROVE proc'[q] = proc[q]
    OBVIOUS
  <2>1. q # p
    BY DeleteFlow
  <2>2. proc[q].at # "queued"
    BY DEF AllGood, Shape, Renewed, Past
  <2> QED
    BY <2>1, <2>2, DeleteFlow
<1>2. newest' = newest /\ file' = file
  BY DeleteFlow DEF platform
<1>3. CASE UNCHANGED <<rows, deleted, lost>>
  BY <1>1, <1>2, <1>3, QuietTraces DEF LoginOf
<1>4. CASE DeleteRow(proc[p].id)
  <2> DEFINE i == proc[p].id
  <2>1. i \in Id /\ Owner[i] \in Login
    BY DeleteFlow, OwnerAssumption
  <2>2. \A j \in Id : rows'[j] = IF j = i THEN None ELSE rows[j]
    BY <1>4, <2>1 DEF DeleteRow, TypeOK
  <2>3. /\ lost'[l] = lost[l] \/ lost'[l] = "deleted"
        /\ rows[i] = newest[l] /\ Owner[i] = l => lost'[l] = "deleted"
    BY <1>4, <2>1 DEF DeleteRow, TypeOK
  <2>4. Pardoned(l)' = Pardoned(l) /\ "deleted" \in Pardoned(l)
    BY DEF Pardoned
  <2>5. CASE lost'[l] = "deleted"
    BY <2>4, <2>5 DEF TracedLogin
  <2>6. CASE lost'[l] # "deleted"
    <3>1. CASE Stored(l)
      BY <1>2, <2>1, <2>2, <2>3, <2>6, <3>1 DEF Stored, TracedLogin
    <3>2. CASE InHand(l)
      BY <1>1, <1>2, <3>2 DEF InHand, LoginOf, TracedLogin
    <3>3. CASE lost[l] \in Pardoned(l)
      BY <2>3, <2>4, <2>6, <3>3 DEF TracedLogin
    <3>4. CASE Unused(l)
      BY <1>2, <2>2, <3>4 DEF Unused, TracedLogin
    <3> QED
      BY <3>1, <3>2, <3>3, <3>4 DEF TracedLogin
  <2> QED
    BY <2>5, <2>6
<1> QED
  BY <1>3, <1>4, DeleteFlow

LEMMA SaveTraces ==
    ASSUME TypeOK, AllGood, RowsHeld, FromFile, Issued,
           NEW p \in Process, Save(p), NEW l \in Login, TracedLogin(l)
    PROVE  TracedLogin(l)'
<1> DEFINE i == proc[p].id
<1>1. /\ proc[p].at = "save" /\ proc[p].at \in Past
      /\ UNCHANGED <<newest, file>>
      /\ rows' = [rows EXCEPT ![i] = proc[p].held]
      /\ lost' = [lost EXCEPT ![LoginOf(p)] =
                    IF proc[p].held = newest[LoginOf(p)] THEN None
                    ELSE IF rows[i] # None /\ rows[i] > proc[p].held THEN "overwritten"
                    ELSE @]
      /\ Leave(p)
  BY DEF Save, Past, platform
<1>2. /\ i \in Id /\ LoginOf(p) \in Login /\ Owner[i] = LoginOf(p)
      /\ proc[p].op \in Readers \union {"import"} /\ proc[p] \in Operation
  BY <1>1, AtCall DEF LoginOf
<1>3. /\ proc[p].held \in Nat /\ newest[LoginOf(p)] \in Nat /\ proc[p].held <= newest[LoginOf(p)]
  BY <1>1, <1>2, MaxGenAssumption DEF Operation, Gen, TypeOK, Issued
<1>4. \A q \in Process : q # p => proc'[q] = proc[q]
  BY <1>1, LeavesOn
<1>5. \A j \in Id : rows'[j] = IF j = i THEN proc[p].held ELSE rows[j]
  BY <1>1, <1>2 DEF TypeOK
<1>6. Pardoned(l)' = Pardoned(l) /\ "overwritten" \in Pardoned(l)
  BY DEF Pardoned
<1>7. CASE l = LoginOf(p)
  <2>1. CASE proc[p].held = newest[l]
    BY <1>1, <1>2, <1>5, <1>7, <2>1 DEF Stored, TracedLogin
  <2>2. CASE rows[i] # None /\ rows[i] > proc[p].held
    <3>1. CASE proc[p].held # newest[l]
      <4>1. lost'[l] = "overwritten"
        BY <1>1, <1>2, <1>7, <2>2, <3>1 DEF TypeOK
      <4> QED
        BY <1>6, <4>1 DEF TracedLogin
    <3> QED
      BY <2>1, <3>1
  <2>3. CASE proc[p].held # newest[l] /\ ~(rows[i] # None /\ rows[i] > proc[p].held)
    <3>1. lost'[l] = lost[l]
      BY <1>1, <1>2, <1>7, <2>3 DEF TypeOK
    <3>2. CASE Stored(l)
      <4>1. PICK j \in Id : Owner[j] = l /\ rows[j] = newest[l]
        BY <3>2 DEF Stored
      <4>2. j # i
        BY <1>3, <1>7, <2>3, <4>1, NoneAssumption
      <4> QED
        BY <1>1, <1>5, <4>1, <4>2 DEF Stored, TracedLogin
    <3>3. CASE InHand(l)
      <4>1. PICK q \in Process : proc[q].dirty /\ LoginOf(q) = l /\ proc[q].held = newest[l]
        BY <3>3 DEF InHand
      <4>2. q # p
        BY <2>3, <4>1
      <4> QED
        BY <1>1, <1>4, <4>1, <4>2 DEF InHand, LoginOf, TracedLogin
    <3>4. CASE lost[l] \in Pardoned(l)
      BY <1>6, <3>1, <3>4 DEF TracedLogin
    <3>5. ~Unused(l)
      BY <1>1, <1>2, <1>7 DEF Unused, RowsHeld, FromFile
    <3> QED
      BY <3>2, <3>3, <3>4, <3>5 DEF TracedLogin
  <2> QED
    BY <2>1, <2>2, <2>3
<1>8. CASE l # LoginOf(p)
  <2>1. lost'[l] = lost[l]
    BY <1>1, <1>8 DEF TypeOK
  <2>2. CASE Stored(l)
    BY <1>1, <1>2, <1>5, <1>8, <2>2 DEF Stored, TracedLogin
  <2>3. CASE InHand(l)
    <3>1. PICK q \in Process : proc[q].dirty /\ LoginOf(q) = l /\ proc[q].held = newest[l]
      BY <2>3 DEF InHand
    <3>2. q # p
      BY <1>8, <3>1
    <3> QED
      BY <1>1, <1>4, <3>1, <3>2 DEF InHand, LoginOf, TracedLogin
  <2>4. CASE lost[l] \in Pardoned(l)
    BY <1>6, <2>1, <2>4 DEF TracedLogin
  <2>5. CASE Unused(l)
    BY <1>1, <1>2, <1>5, <1>8, <2>5 DEF Unused, TracedLogin
  <2> QED
    BY <2>2, <2>3, <2>4, <2>5 DEF TracedLogin
<1> QED
  BY <1>7, <1>8

LEMMA RenewTraces ==
    ASSUME TypeOK, AllGood, NEW p \in Process, RenewalAnswered(p) \/ RenewalUnanswered(p),
           NEW l \in Login, Rotates(l), TracedLogin(l)
    PROVE  TracedLogin(l)'
<1>1. Renew(p)
  BY DEF RenewalAnswered, RenewalUnanswered
<1>2. /\ LoginOf(p) \in Login /\ proc[p].at \in Past
      /\ \A k \in Login : k # LoginOf(p) => newest'[k] = newest[k]
  BY <1>1, RenewFacts
<1>3. \A q \in Process : q # p => proc'[q] = proc[q]
  BY <1>1, RenewalAnsweredGood, RenewalFailedGood, RenewFacts DEF RenewalUnanswered
<1>4. UNCHANGED <<rows, file>>
  BY DEF RenewalAnswered, RenewalUnanswered
<1>5. CASE l = LoginOf(p) /\ RenewalAnswered(p)
  <2>1. proc'[p].dirty = TRUE /\ proc'[p].held = newest'[l] /\ proc'[p].id = proc[p].id
    <3>1. /\ proc'[p].dirty = Rotates(l) /\ proc'[p].held = newest'[l] /\ proc'[p].id = proc[p].id
          /\ AllGood'
      BY <1>5, RenewalAnsweredGood
    <3>2. proc'[p].dirty \in BOOLEAN
      BY <3>1 DEF AllGood, Operation
    <3> QED
      BY <3>1, <3>2
  <2> QED
    BY <1>5, <2>1 DEF InHand, LoginOf, TracedLogin
<1>6. CASE l = LoginOf(p) /\ RenewalUnanswered(p)
  <2>1. lost'[l] = "answer"
    BY <1>6 DEF RenewalUnanswered, TypeOK
  <2> QED
    BY <2>1 DEF Pardoned, TracedLogin
<1>7. CASE l # LoginOf(p)
  <2>1. lost'[l] = lost[l]
    BY <1>7 DEF RenewalAnswered, RenewalUnanswered, TypeOK
  <2>2. \A q \in Process : proc[q].dirty /\ LoginOf(q) = l => proc'[q] = proc[q]
    BY <1>3, <1>7
  <2> QED
    BY <1>2, <1>4, <1>7, <2>1, <2>2, QuietTraces DEF LoginOf
<1> QED
  BY <1>5, <1>6, <1>7

LEMMA TracedStep ==
    TypeOK /\ AllGood /\ RowsHeld /\ FromFile /\ Issued /\ Traced /\ [Next]_vars => Traced'
<1> SUFFICES ASSUME TypeOK, AllGood, RowsHeld, FromFile, Issued, Traced, [Next]_vars,
                    NEW l \in Login, Rotates(l)
             PROVE  TracedLogin(l)'
  BY DEF Traced, TracedLogin, Rotates, Client
<1>1. TracedLogin(l)
  BY DEF Traced, TracedLogin
<1>2. ASSUME NEW p \in Process, Start(p) PROVE TracedLogin(l)'
  <2>1. \A q \in Process : proc[q].dirty => proc'[q] = proc[q]
    <3>1. ~proc[p].dirty
      BY <1>2, StartFlow DEF AllGood, Shape, Renewed, Past
    <3> QED
      BY <1>2, <3>1, StartFlow
  <2>2. UNCHANGED <<rows, newest, file, lost>>
    BY <1>2, StartFlow DEF platform
  <2> QED
    BY <1>1, <2>1, <2>2, QuietTraces DEF LoginOf
<1>3. ASSUME NEW p \in Process, Entering(p) PROVE TracedLogin(l)'
  <2>1. UNCHANGED <<rows, newest, file>> /\ \A q \in Process : q # p => proc'[q] = proc[q]
    BY <1>3, EnterFlow DEF platform
  <2>2. CASE FindCodex(p)
    <3>1. lost'[l] = lost[l] \/ lost'[l] \in Pardoned(l)
      BY <2>2, FindTraces DEF CausesOnly
    <3>2. ASSUME NEW q \in Process, proc[q].dirty, LoginOf(q) = l
          PROVE  \/ proc'[q].dirty /\ Owner[proc'[q].id] = l /\ proc'[q].held = proc[q].held
                 \/ lost'[l] \in Pardoned(l)
      BY <2>1, <2>2, <3>2, FindTraces DEF SameCredential, CauseGiven, LoginOf
    <3> QED
      BY <1>1, <2>1, <3>1, <3>2, QuietTraces
  <2>3. CASE ~FindCodex(p)
    <3>1. UNCHANGED lost
      BY <1>3, <2>3, EnterFlow
    <3>2. ~proc[p].dirty
      BY <1>3, <2>3 DEF Entering, Lock, LockActivity, Read, NextAccount, AllGood, Shape, Renewed, Past
    <3> QED
      BY <1>1, <2>1, <3>1, <3>2, QuietTraces DEF LoginOf
  <2> QED
    BY <2>2, <2>3
<1>4. ASSUME NEW p \in Process, Delete(p) PROVE TracedLogin(l)'
  BY <1>1, <1>4, DeleteTraces
<1>5. ASSUME NEW p \in Process, Quiet(p) PROVE TracedLogin(l)'
  <2>1. UNCHANGED <<rows, newest, file>> /\ \A q \in Process : q # p => proc'[q] = proc[q]
    BY <1>5, QuietFlow, CallingFlow DEF Quiet, Calling
  <2>2. lost'[l] = lost[l] \/ lost'[l] \in Pardoned(l)
    BY <1>5, QuietFlow DEF CausesOnly
  <2>3. ASSUME NEW q \in Process, proc[q].dirty, LoginOf(q) = l
        PROVE  \/ proc'[q].dirty /\ Owner[proc'[q].id] = l /\ proc'[q].held = proc[q].held
               \/ lost'[l] \in Pardoned(l)
    BY <1>5, <2>1, <2>3, QuietFlow DEF SameCredential, CauseGiven, LoginOf
  <2> QED
    BY <1>1, <2>1, <2>2, <2>3, QuietTraces
<1>6. ASSUME NEW p \in Process, Save(p) PROVE TracedLogin(l)'
  BY <1>1, <1>6, SaveTraces
<1>7. ASSUME NEW p \in Process, RenewalAnswered(p) \/ RenewalUnanswered(p) PROVE TracedLogin(l)'
  BY <1>1, <1>7, RenewTraces
<1>8. ASSUME NEW k \in Login, Expire(k) PROVE TracedLogin(l)'
  <2>1. UNCHANGED <<rows, newest, file, lost, proc>>
    BY <1>8 DEF Expire
  <2> QED
    BY <1>1, <2>1, QuietTraces DEF LoginOf
<1>9. ASSUME NEW k \in Login, RenewElsewhere(k) PROVE TracedLogin(l)'
  <2>1. CASE k = l
    <3>1. lost'[l] = "elsewhere"
      BY <1>9, <2>1 DEF RenewElsewhere, TypeOK
    <3> QED
      BY <3>1 DEF Pardoned, TracedLogin
  <2>2. CASE k # l
    <3>1. UNCHANGED <<rows, proc>> /\ newest'[l] = newest[l] /\ file'[l] = file[l] /\ lost'[l] = lost[l]
      BY <1>9, <2>2 DEF RenewElsewhere, TypeOK
    <3> QED
      BY <1>1, <3>1, QuietTraces DEF LoginOf
  <2> QED
    BY <2>1, <2>2
<1>10. CASE UNCHANGED vars
  <2>1. UNCHANGED <<rows, newest, file, lost, proc>>
    BY <1>10 DEF vars, platform
  <2> QED
    BY <1>1, <2>1, QuietTraces DEF LoginOf
<1> QED
  BY <1>2, <1>3, <1>4, <1>5, <1>6, <1>7, <1>8, <1>9, <1>10 DEF Next, Step, Entering, Quiet

-----------------------------------------------------------------------------
(* The theorems.                                                           *)

AccountsInv ==
    /\ TypeOK /\ AllGood
    /\ RowsHeld /\ FromFile /\ CheckinsGuarded /\ Issued /\ Traced

LEMMA InitInv == Init => AccountsInv
<1> SUFFICES ASSUME Init PROVE AccountsInv
  OBVIOUS
<1>1. PICK start \in Starts :
        /\ rows = [i \in Id |-> IF i \in start THEN 0 ELSE None]
        /\ file = [l \in Login |-> IF \E i \in start : Owner[i] = l THEN 0 ELSE None]
  BY DEF Init
<1>2. start \subseteq Id
  BY StartsAssumption
<1>3. 0 \in Gen
  BY MaxGenAssumption DEF Gen
<1>4. Idle \in Operation /\ Shape(Idle)
  BY IdleGood DEF Good
<1>5. AllGood
  BY <1>4 DEF Init, AllGood
<1>6. TypeOK
  BY <1>1, <1>3, <1>5 DEF Init, TypeOK, AllGood
<1>7. \A p \in Process : proc[p].at = "idle" /\ proc[p].call = "none"
  BY DEF Init, Idle
<1>8. RowsHeld /\ FromFile /\ CheckinsGuarded
  BY <1>7 DEF RowsHeld, FromFile, CheckinsGuarded, AsksForCheckin, Past
<1>9. Issued
  <2>1. \A i \in Id : rows[i] # None => rows[i] = 0
    BY <1>1
  <2>2. \A l \in Login : file[l] # None => file[l] = 0
    BY <1>1
  <2>3. \A l \in Login : newest[l] = 0
    BY DEF Init
  <2> QED
    BY <1>7, <2>1, <2>2, <2>3, OwnerAssumption DEF Issued, Past
<1>10. Traced
  <2> SUFFICES ASSUME NEW l \in Login PROVE Stored(l) \/ Unused(l)
    BY DEF Traced
  <2>1. newest[l] = 0
    BY DEF Init
  <2>2. CASE \E i \in start : Owner[i] = l
    BY <1>1, <1>2, <2>1, <2>2 DEF Stored
  <2>3. CASE ~\E i \in start : Owner[i] = l
    BY <1>1, <2>3 DEF Unused
  <2> QED
    BY <2>2, <2>3
<1> QED
  BY <1>5, <1>6, <1>8, <1>9, <1>10 DEF AccountsInv

LEMMA InvStep == AccountsInv /\ [Next]_vars => AccountsInv'
BY GoodStep, RowsHeldStep, FromFileStep, CheckinsStep, IssuedStep, TracedStep DEF AccountsInv

LEMMA Invariance == Spec => []AccountsInv
BY InitInv, InvStep, PTL DEF Spec

\* The types of the rows, the locks and the goroutines' records.
THEOREM AccountsTypeOK == Spec => []TypeOK
<1>1. AccountsInv => TypeOK
  BY DEF AccountsInv
<1> QED
  BY <1>1, Invariance, PTL

\* Whatever the accounts, the goroutines and the order of their steps, only
\* an import brings a deleted account back: accountOps keeps a deletion away
\* from every goroutine between its read and its save.
THEOREM AccountsDeletedStaysDeleted == Spec => DeletedStaysDeleted
<1>1. ASSUME AccountsInv, [Next]_vars, NEW i \in deleted, rows[i] = None, rows'[i] # None
      PROVE  \E p \in Process : proc[p].op = "import" /\ proc[p].at = "save" /\ proc[p].id = i
  <2>1. TypeOK /\ AllGood /\ RowsHeld /\ i \in Id
    BY <1>1 DEF AccountsInv, TypeOK
  <2>2. PICK p \in Process : Save(p) /\ i = proc[p].id
    BY <1>1, <2>1, RowsStep
  <2>3. proc[p].at = "save" /\ proc[p].at \in Past
    BY <2>2 DEF Save, Past
  <2>4. proc[p].op \in Readers \union {"import"}
    BY <2>1, <2>3, AtCall
  <2>5. proc[p].op \notin Readers
    BY <1>1, <2>1, <2>2, <2>3 DEF RowsHeld
  <2> QED
    BY <2>2, <2>3, <2>4, <2>5
<1> DEFINE Brought == \A i \in deleted : rows[i] = None /\ rows'[i] # None =>
                        \E p \in Process : proc[p].op = "import" /\ proc[p].at = "save" /\ proc[p].id = i
<1>2. AccountsInv /\ [Next]_vars => [Brought]_vars
  BY <1>1
<1> QED
  BY <1>2, Invariance, PTL DEF Spec, DeletedStaysDeleted

\* activityMu is held from the question about today's check-in to the last
\* answer, so no goroutine asks for one that another was granted; it repeats a
\* request of its own after a grant only when it could not find out about it.
THEOREM AccountsAskAgainOnlyUnsure == Spec => []AsksAgainOnlyUnsure
<1>1. AccountsInv => AsksAgainOnlyUnsure
  BY DEF AccountsInv, CheckinsGuarded, AsksForCheckin, NotTwice, AsksAgainOnlyUnsure, LoginOf
<1> QED
  BY <1>1, Invariance, PTL

\* The credential that a platform will renew is stored or about to be, or it
\* went out of reach for one of the causes its client pardons: a Codex
\* credential never because a call after its renewal failed.
THEOREM AccountsStrandedForCause == Spec => []StrandedForCause
<1>1. ASSUME AccountsInv, NEW l \in Login, Stranded(l) PROVE lost[l] \in Pardoned(l)
  <2>1. Stored(l) \/ InHand(l) \/ lost[l] \in Pardoned(l) \/ Unused(l)
    BY <1>1 DEF AccountsInv, Traced, Stranded
  <2> QED
    BY <1>1, <2>1 DEF Stranded, Stored, InHand, Unused
<1>2. AccountsInv => StrandedForCause
  BY <1>1 DEF StrandedForCause
<1> QED
  BY <1>2, Invariance, PTL
=============================================================================
