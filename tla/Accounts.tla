------------------------------ MODULE Accounts ------------------------------
(***************************************************************************)
(* The operations of the account service that read a stored credential,   *)
(* use it at the platform and store it again: RefreshOne, RunActivity,     *)
(* ListActivities, ImportCodex and Delete (internal/service/accounts.go),  *)
(* with the renewal of credentials inside the platform clients             *)
(* (internal/integration).                                                 *)
(*                                                                         *)
(* A login at a platform is a sequence of generations of one credential.   *)
(* The access token of a generation is accepted for a while; its refresh   *)
(* token buys the next generation and, except at Gemini, is worth nothing  *)
(* afterwards.  The operations run in goroutines of HTTP handlers, of the  *)
(* refresh pool and of the notification loop.                              *)
(***************************************************************************)
EXTENDS Integers, FiniteSets

CONSTANTS
    Id,         \* identifiers of accounts: a kind of platform and a UUID
    Login,      \* logins of the user at the platforms
    Owner,      \* Owner[i]: the login that the account with identifier i is for
    Family,     \* Family[l]: the client that l is used through
    Starts,     \* the sets of accounts that may be connected at the start
    Process,    \* the goroutines
    MaxGen,     \* bound: the last generation a platform hands out
    None

ASSUME OwnerAssumption == Owner \in [Id -> Login]
ASSUME FamilyAssumption ==
    Family \in [Login -> {"codex", "workbuddy", "gemini", "trae", "kiro", "qoder", "cursor"}]
ASSUME StartsAssumption == Starts \subseteq SUBSET Id
ASSUME MaxGenAssumption == MaxGen \in Nat
ASSUME NoneAssumption == None \notin Process \union Nat

Gen == 0 .. MaxGen

\* How the clients renew, in FetchUsage, FetchCredits or FetchQuota: all of
\* them when the platform refuses the token; early, by the expiry time, two;
\* and one of these goes on without a renewal that was only a precaution.
CodexClient     == [rotates |-> TRUE,  early |-> FALSE, insists |-> TRUE]
WorkBuddyClient == [rotates |-> TRUE,  early |-> TRUE,  insists |-> FALSE]
GeminiClient    == [rotates |-> FALSE, early |-> TRUE,  insists |-> TRUE]
TraeClient      == [rotates |-> TRUE,  early |-> FALSE, insists |-> TRUE]
KiroClient      == [rotates |-> TRUE,  early |-> FALSE, insists |-> TRUE]
QoderClient     == [rotates |-> TRUE,  early |-> FALSE, insists |-> TRUE]
CursorClient    == [rotates |-> TRUE,  early |-> FALSE, insists |-> TRUE]

Client(l) ==
    CASE Family[l] = "codex" -> CodexClient [] Family[l] = "workbuddy" -> WorkBuddyClient
      [] Family[l] = "gemini" -> GeminiClient [] Family[l] = "trae" -> TraeClient
      [] Family[l] = "kiro" -> KiroClient [] Family[l] = "qoder" -> QoderClient
      [] Family[l] = "cursor" -> CursorClient
Rotates(l) == Client(l).rotates

VARIABLES
    rows,      \* rows[i]: the stored generation of connected account i, or None
    deleted,   \* history: identifiers of deleted accounts
    newest,    \* newest[l]: the platform's last generation
    accepted,  \* accepted[l]: the first generation whose access token works
    file,      \* file[l]: what the OAuth file of another client holds, or None
    checked,   \* logins that are checked in today
    writer,    \* the goroutine in accountOps.Lock, or None
    mu,        \* the holder of activityMu, or None
    proc,      \* proc[p]: the operation of goroutine p
    lost       \* history: how l's newest credential got out of reach, or None

platform == <<newest, accepted, file, checked>>
locks == <<writer, mu>>
vars == <<rows, deleted, platform, locks, proc, lost>>

Idle == [op |-> "none", at |-> "idle", id |-> None, call |-> "none",
         held |-> 0, tried |-> FALSE, dirty |-> FALSE, granted |-> FALSE, todo |-> {}]

Where == {"idle", "queued", "lock", "drain", "read", "mu", "list", "find",
          "preempt", "call", "refresh", "again", "keep", "save"}
Cause == {"answer", "dropped", "unsaved", "overwritten", "import", "elsewhere", "deleted"}

Operation ==
    [op : {"none", "refresh", "activity", "list", "import", "delete"},
     at : Where,
     id : Id \union {None},
     call : {"none", "usage", "status", "checkin", "recheck", "import"},
     held : Gen,
     tried : BOOLEAN,   \* the credential in hand was renewed for this call
     dirty : BOOLEAN,   \* it was renewed and is not stored yet
     granted : BOOLEAN, \* history: its check-in was granted, but not confirmed
     todo : SUBSET Id]

TypeOK ==
    /\ rows \in [Id -> Gen \union {None}]
    /\ deleted \subseteq Id
    /\ newest \in [Login -> Gen]
    /\ accepted \in [Login -> Gen]
    /\ file \in [Login -> Gen \union {None}]
    /\ checked \subseteq Login
    /\ writer \in Process \union {None}
    /\ mu \in Process \union {None}
    /\ proc \in [Process -> Operation]
    /\ lost \in [Login -> Cause \union {None}]

Init ==
    /\ \E start \in Starts :
         /\ rows = [i \in Id |-> IF i \in start THEN 0 ELSE None]
         /\ file = [l \in Login |-> IF \E i \in start : Owner[i] = l THEN 0 ELSE None]
    /\ deleted = {}
    /\ newest = [l \in Login |-> 0]
    /\ accepted = [l \in Login |-> 0]
    /\ checked = {}
    /\ writer = None
    /\ mu = None
    /\ proc = [p \in Process |-> Idle]
    /\ lost = [l \in Login |-> None]

-----------------------------------------------------------------------------
(* Helpers on the state.                                                   *)

LoginOf(p) == Owner[proc[p].id]
Kind(p) == Family[LoginOf(p)]
Accepts(l, g) == g >= accepted[l]
Renewable(l, g) == newest[l] < MaxGen /\ (Rotates(l) => g = newest[l])

\* Goroutines that hold accountOps for reading; an import holds nothing.
Reading(p) == proc[p].op \in {"refresh", "activity", "list"} /\ proc[p].at # "queued"

FirstStep(op) == CASE op = "refresh"  -> "read"
                   [] op = "activity" -> "mu"
                   [] op = "list"     -> "list"

Becomes(p, r) == proc' = [proc EXCEPT ![p] = r]
Goes(p, at) == Becomes(p, [proc[p] EXCEPT !.at = at])

\* Where the client of l starts for operation r.
UsageCall(r, l) == [r EXCEPT !.call = "usage", !.tried = FALSE,
                             !.at = IF Client(l).early THEN "preempt" ELSE "call"]

\* A renewed credential that is not stored goes out of reach.  An import
\* may give up an account it has not stored yet.
Lose(p, cause) ==
    lost' = IF ~proc[p].dirty THEN lost
            ELSE [lost EXCEPT ![LoginOf(p)] =
                    IF proc[p].op = "import" THEN "import" ELSE cause]

\* Mutant: an error path that returns without unlocking activityMu.
ReturnLocked(p) == proc' = [proc EXCEPT ![p] = Idle] /\ UNCHANGED mu

\* Return, with the deferred unlocks.
Return(p) ==
    /\ proc' = [proc EXCEPT ![p] = Idle]
    /\ mu' = IF mu = p THEN None ELSE mu

\* ListActivities goes on to the next account, the others return.
Leave(p) ==
    IF proc[p].op = "list"
    THEN /\ Becomes(p, [proc[p] EXCEPT !.at = "list", !.id = None, !.tried = FALSE, !.dirty = FALSE])
         /\ UNCHANGED mu
    ELSE Return(p)

-----------------------------------------------------------------------------
(* accountOps is a sync.RWMutex: a goroutine waiting in Lock turns new      *)
(* readers away, and Unlock lets all the waiting ones in.                  *)

RLock(p, op, i) ==
    /\ proc[p].at = "idle"
    /\ Becomes(p, [Idle EXCEPT !.op = op, !.id = i,
                               !.at = IF writer = None THEN FirstStep(op) ELSE "queued"])
    /\ UNCHANGED <<rows, deleted, platform, locks, lost>>

\* Accounts a page or a list of the pool may still name.
Known == {i \in Id : rows[i] # None \/ i \in deleted}

StartRefreshOne(p) == \E i \in Known : RLock(p, "refresh", i)
StartRunActivity(p) == \E i \in Known : RLock(p, "activity", i)
StartListActivities(p) ==
    /\ proc[p].at = "idle"
    /\ Becomes(p, [Idle EXCEPT !.op = "list", !.at = IF writer = None THEN "list" ELSE "queued",
                               !.todo = {i \in Id : Family[Owner[i]] = "workbuddy"}])
    /\ UNCHANGED <<rows, deleted, platform, locks, lost>>

StartDelete(p) ==
    /\ proc[p].at = "idle"
    /\ \E i \in Known : Becomes(p, [Idle EXCEPT !.op = "delete", !.id = i, !.at = "lock"])
    /\ UNCHANGED <<rows, deleted, platform, locks, lost>>

Lock(p) ==
    /\ proc[p].at = "lock"
    /\ writer = None
    /\ writer' = p
    /\ Goes(p, "drain")
    /\ UNCHANGED <<rows, deleted, platform, mu, lost>>

DeleteRow(i) ==
    /\ rows' = [rows EXCEPT ![i] = None]
    /\ deleted' = IF rows[i] = None THEN deleted ELSE deleted \union {i}
    /\ lost' = IF rows[i] = newest[Owner[i]]
               THEN [lost EXCEPT ![Owner[i]] = "deleted"] ELSE lost

\* The waiting readers go on when a deletion returns.
Unlock(p) ==
    /\ writer' = None
    /\ proc' = [q \in Process |->
                  IF q = p THEN Idle
                  ELSE IF proc[q].at = "queued"
                  THEN [proc[q] EXCEPT !.at = FirstStep(proc[q].op)]
                  ELSE proc[q]]

\* Mutant: the deletion does not wait for the readers.
DeleteAtOnce(p) ==
    /\ proc[p].at = "drain"
    /\ DeleteRow(proc[p].id)
    /\ Unlock(p)
    /\ UNCHANGED <<platform, mu>>

\* The row goes, or the store fails or has none; Unlock.
Delete(p) ==
    /\ proc[p].at = "drain"
    /\ \A q \in Process : ~Reading(q)
    /\ DeleteRow(proc[p].id) \/ UNCHANGED <<rows, deleted, lost>>
    /\ Unlock(p)
    /\ UNCHANGED <<platform, mu>>

-----------------------------------------------------------------------------
(* Before the platform is called.                                          *)

\* Mutant: activityMu is not taken.
LockNothing(p) ==
    /\ proc[p].at = "mu"
    /\ Goes(p, "read")
    /\ UNCHANGED <<rows, deleted, platform, locks, lost>>

LockActivity(p) ==
    /\ proc[p].at = "mu"
    /\ mu = None
    /\ mu' = p
    /\ Goes(p, "read")
    /\ UNCHANGED <<rows, deleted, platform, writer, lost>>

\* RefreshOne and RunActivity read and decrypt the row; without one, or with
\* one that cannot be decrypted, or has no check-in, they return.
Read(p) ==
    /\ proc[p].at = "read"
    /\ LET i == proc[p].id IN
       \/ /\ rows[i] # None
          /\ proc[p].op = "refresh"
          /\ Becomes(p, UsageCall([proc[p] EXCEPT !.held = rows[i]], Owner[i]))
          /\ UNCHANGED mu
       \/ /\ rows[i] # None
          /\ proc[p].op = "activity"
          /\ Family[Owner[i]] = "workbuddy"
          /\ Becomes(p, [proc[p] EXCEPT !.call = "status", !.at = "call", !.held = rows[i]])
          /\ UNCHANGED mu
       \/ Return(p)
    /\ UNCHANGED <<rows, deleted, platform, writer, lost>>

\* ListActivities reads the next account, and returns after the last.
NextAccount(p) ==
    /\ proc[p].at = "list"
    /\ \/ \E i \in proc[p].todo :
            /\ IF rows[i] # None
               THEN Becomes(p, [proc[p] EXCEPT !.id = i, !.call = "status", !.at = "call",
                                               !.held = rows[i], !.todo = @ \ {i}])
               ELSE Becomes(p, [proc[p] EXCEPT !.todo = @ \ {i}])
            /\ UNCHANGED mu
       \/ /\ proc[p].todo = {}
          /\ Return(p)
    /\ UNCHANGED <<rows, deleted, platform, writer, lost>>

\* A fresh UUID: of no account, past, present or to come.
Fresh(i) ==
    /\ rows[i] = None
    /\ i \notin deleted
    /\ \A q \in Process : proc[q].id # i

\* ImportCodex parses the file; one that holds a refresh token alone is
\* renewed at once.
StartImportCodex(p) ==
    /\ proc[p].at = "idle"
    /\ \E i \in Id, at \in {"find", "refresh"} :
         /\ Fresh(i)
         /\ file[Owner[i]] # None
         /\ Family[Owner[i]] = "codex"
         /\ Becomes(p, [Idle EXCEPT !.op = "import", !.call = "import", !.id = i, !.at = at,
                                    !.held = file[Owner[i]]])
    /\ UNCHANGED <<rows, deleted, platform, locks, lost>>

\* The imports of the other platforms always make a new account.
StartImport(p) ==
    /\ proc[p].at = "idle"
    /\ \E i \in Id :
         /\ Fresh(i)
         /\ file[Owner[i]] # None
         /\ Family[Owner[i]] # "codex"
         /\ Becomes(p, UsageCall([Idle EXCEPT !.op = "import", !.id = i, !.held = file[Owner[i]]],
                                 Owner[i]))
    /\ UNCHANGED <<rows, deleted, platform, locks, lost>>

\* findCodexCredential: an account of the same login keeps its identifier
\* and goes on with its stored credential.  A failed read finds none.
FindCodex(p) ==
    /\ proc[p].at = "find"
    /\ \/ \E i \in Id :
            /\ rows[i] # None
            /\ Owner[i] = LoginOf(p)
            /\ Becomes(p, UsageCall([proc[p] EXCEPT !.id = i, !.held = rows[i], !.dirty = FALSE],
                                    LoginOf(p)))
            /\ Lose(p, "import")
       \/ /\ Becomes(p, UsageCall(proc[p], LoginOf(p)))
          /\ UNCHANGED lost
    /\ UNCHANGED <<rows, deleted, platform, locks>>

-----------------------------------------------------------------------------
(* Calls to the platform.                                                  *)

\* After a successful call.
Succeed(p) ==
    LET l == LoginOf(p) IN
    CASE proc[p].call = "usage" ->
           Goes(p, "save") /\ UNCHANGED <<mu, checked>>
      [] proc[p].call = "status" /\ proc[p].op = "list" ->
           /\ IF proc[p].tried THEN Goes(p, "save") /\ UNCHANGED mu ELSE Leave(p)
           /\ UNCHANGED checked
      [] proc[p].call = "status" /\ proc[p].op = "activity" ->
           /\ Becomes(p, IF l \in checked THEN UsageCall(proc[p], l)
                         ELSE [proc[p] EXCEPT !.call = "checkin", !.at = "call"])
           /\ UNCHANGED <<mu, checked>>
      [] proc[p].call = "checkin" ->
           Becomes(p, UsageCall(proc[p], l)) /\ checked' = checked \union {l} /\ UNCHANGED mu
      [] proc[p].call = "recheck" ->
           Becomes(p, UsageCall(proc[p], l)) /\ UNCHANGED <<mu, checked>>

CallSucceeds(p) ==
    /\ proc[p].at \in {"call", "again"}
    /\ Accepts(LoginOf(p), proc[p].held)
    /\ proc[p].call = "recheck" => LoginOf(p) \in checked
    /\ Succeed(p)
    /\ UNCHANGED <<rows, deleted, newest, accepted, file, writer, lost>>

\* checkinOnce: an answer without an explicit success, to a check-in that was
\* granted or was not, makes it ask for today's status; or the answer is lost.
CheckinUnconfirmed(p) ==
    /\ proc[p].at \in {"call", "again"}
    /\ proc[p].call = "checkin"
    /\ Accepts(LoginOf(p), proc[p].held)
    /\ \/ /\ \/ /\ checked' = checked \union {LoginOf(p)}
                /\ Becomes(p, [proc[p] EXCEPT !.call = "recheck", !.granted = TRUE])
             \/ /\ UNCHANGED checked
                /\ Becomes(p, [proc[p] EXCEPT !.call = "recheck"])
          /\ UNCHANGED <<mu, lost>>
       \/ /\ checked' = checked \union {LoginOf(p)}
          /\ Leave(p) /\ Lose(p, "dropped")
    /\ UNCHANGED <<rows, deleted, newest, accepted, file, writer>>

\* 401 or 403 at the first attempt: the credential is renewed, unless this
\* call renewed it already.  Checkin takes a refused question about the status
\* for a refused check-in, which it asks for again.
CallRefused(p) ==
    /\ proc[p].at = "call"
    /\ ~Accepts(LoginOf(p), proc[p].held)
    /\ IF proc[p].tried
       THEN Leave(p) /\ Lose(p, "dropped")
       ELSE /\ Becomes(p, [proc[p] EXCEPT !.at = "refresh",
                                          !.call = IF @ = "recheck" THEN "checkin" ELSE @])
            /\ UNCHANGED <<mu, lost>>
    /\ UNCHANGED <<rows, deleted, platform, writer>>

\* Mutant: the second failure at Codex is treated like any other.
CallFailsDropping(p) ==
    /\ proc[p].at \in {"call", "again"}
    /\ Leave(p) /\ Lose(p, "dropped")
    /\ UNCHANGED <<rows, deleted, platform, writer>>

\* Any other failure, or the second refusal, or a status that still says that
\* nobody has checked in.  connectCodexWithID keeps a
\* credential that was renewed before the failure.
CallFails(p) ==
    /\ proc[p].at \in {"call", "again"}
    /\ IF Kind(p) = "codex" /\ proc[p].at = "again"
       THEN Goes(p, "keep") /\ UNCHANGED <<mu, lost>>
       ELSE Leave(p) /\ Lose(p, "dropped")
    /\ UNCHANGED <<rows, deleted, platform, writer>>

\* The expiry time is far off, or unknown.
NotExpiring(p) ==
    /\ proc[p].at = "preempt"
    /\ Goes(p, "call")
    /\ UNCHANGED <<rows, deleted, platform, locks, lost>>

Renew(p) ==
    /\ proc[p].at \in {"preempt", "refresh"}
    /\ Renewable(LoginOf(p), proc[p].held)
    /\ newest' = [newest EXCEPT ![LoginOf(p)] = @ + 1]

\* Refresh: the next generation, and the call with it.
RenewalAnswered(p) ==
    /\ Renew(p)
    /\ Becomes(p, [proc[p] EXCEPT !.held = newest'[LoginOf(p)], !.tried = TRUE,
                                  !.dirty = Rotates(LoginOf(p)),
                                  !.at = CASE proc[p].call = "import" -> "find"
                                           [] proc[p].at = "preempt"  -> "call"
                                           [] OTHER                   -> "again"])
    /\ UNCHANGED <<rows, deleted, accepted, file, checked, locks, lost>>

RenewalFailed(p) ==
    IF proc[p].at = "preempt" /\ ~Client(LoginOf(p)).insists
    THEN Goes(p, "call") /\ UNCHANGED mu
    ELSE Leave(p)

\* The platform has renewed, the answer is lost.
RenewalUnanswered(p) ==
    /\ Renew(p)
    /\ Rotates(LoginOf(p))
    /\ RenewalFailed(p)
    /\ lost' = [lost EXCEPT ![LoginOf(p)] = "answer"]
    /\ UNCHANGED <<rows, deleted, accepted, file, checked, writer>>

\* The platform has not: out of reach, or the refresh token is spent.
RenewalFails(p) ==
    /\ proc[p].at \in {"preempt", "refresh"}
    /\ RenewalFailed(p)
    /\ Lose(p, "dropped")
    /\ UNCHANGED <<rows, deleted, platform, writer>>

-----------------------------------------------------------------------------
(* Storing.                                                                *)

\* persist: encrypt and upsert, whether there is a row or not.
Save(p) ==
    LET i == proc[p].id
        l == LoginOf(p) IN
    /\ proc[p].at = "save"
    /\ rows' = [rows EXCEPT ![i] = proc[p].held]
    /\ lost' = [lost EXCEPT ![l] =
                  IF proc[p].held = newest[l] THEN None
                  ELSE IF rows[i] # None /\ rows[i] > proc[p].held THEN "overwritten"
                  ELSE @]
    /\ Leave(p)
    /\ UNCHANGED <<deleted, platform, writer>>

SaveFails(p) ==
    /\ proc[p].at = "save"
    /\ Leave(p)
    /\ Lose(p, "unsaved")
    /\ UNCHANGED <<rows, deleted, platform, writer>>

\* connectCodexWithID after a failed call: only an existing account is saved.
Keep(p) ==
    /\ proc[p].at = "keep"
    /\ \/ rows[proc[p].id] # None /\ Goes(p, "save") /\ UNCHANGED <<mu, lost>>
       \/ Leave(p) /\ Lose(p, "unsaved")
    /\ UNCHANGED <<rows, deleted, platform, writer>>

-----------------------------------------------------------------------------
(* The platforms and the user's other clients.                             *)

Expire(l) ==
    /\ file[l] # None \/ \E i \in Known : Owner[i] = l
    /\ newest[l] < MaxGen
    /\ accepted[l] <= newest[l]
    /\ accepted' = [accepted EXCEPT ![l] = newest[l] + 1]
    /\ UNCHANGED <<rows, deleted, newest, file, checked, locks, proc, lost>>

\* Another client that shares the login renews its copy.
RenewElsewhere(l) ==
    /\ Rotates(l)
    /\ file[l] # None
    /\ Renewable(l, file[l])
    /\ newest' = [newest EXCEPT ![l] = @ + 1]
    /\ file' = [file EXCEPT ![l] = newest[l] + 1]
    /\ lost' = [lost EXCEPT ![l] = "elsewhere"]
    /\ UNCHANGED <<rows, deleted, accepted, checked, locks, proc>>

Start(p) ==
    \/ StartRefreshOne(p)
    \/ StartRunActivity(p)
    \/ StartListActivities(p)
    \/ StartImportCodex(p) \/ StartImport(p)
    \/ StartDelete(p)

Step(p) ==
    \/ Delete(p)
    \/ Read(p) \/ NextAccount(p) \/ FindCodex(p)
    \/ CallSucceeds(p) \/ CheckinUnconfirmed(p) \/ CallRefused(p) \/ CallFails(p)
    \/ NotExpiring(p) \/ RenewalAnswered(p) \/ RenewalUnanswered(p) \/ RenewalFails(p)
    \/ Save(p) \/ SaveFails(p) \/ Keep(p)

Next ==
    \/ \E p \in Process : Start(p) \/ Lock(p) \/ LockActivity(p) \/ Step(p)
    \/ \E l \in Login : Expire(l) \/ RenewElsewhere(l)

Spec == Init /\ [][Next]_vars

\* Every call has a timeout.  A sync.Mutex is handed to the waiting goroutine
\* before others can starve it, and accountOps.Lock is guarded by one.
FairSpec ==
    /\ Spec
    /\ \A p \in Process : WF_vars(Step(p)) /\ SF_vars(Lock(p)) /\ SF_vars(LockActivity(p))

-----------------------------------------------------------------------------
(* Properties.                                                             *)

\* A deleted account comes back only through an import that had found it
\* before the deletion: all the other operations keep deletions out between
\* their read and their save (accountOps in RefreshOne, RunActivity and
\* ListActivities; ImportCodex does not take it).
DeletedStaysDeleted ==
    [][\A i \in deleted : rows[i] = None /\ rows'[i] # None =>
         \E p \in Process : proc[p].op = "import" /\ proc[p].at = "save" /\ proc[p].id = i]_vars

\* How the credential of a login may get out of reach under each client.  A
\* Codex credential is not dropped because the call after its renewal failed
\* (connectCodexWithID); the other clients drop it.
Pardoned(l) ==
    {"answer", "unsaved", "overwritten", "elsewhere", "import", "deleted"} \union
    (IF Family[l] = "codex" THEN {} ELSE {"dropped"})

\* A login has accounts, but none of them has the credential that could be
\* renewed, and no goroutine is about to store it.
Stranded(l) ==
    /\ Rotates(l)
    /\ \E i \in Id : Owner[i] = l /\ rows[i] # None
    /\ \A i \in Id : Owner[i] = l => rows[i] # newest[l]
    /\ \A p \in Process : proc[p].dirty => LoginOf(p) # l

\* An account has to be connected anew only after one of these.
StrandedForCause == \A l \in Login : Stranded(l) => lost[l] \in Pardoned(l)

\* RunActivity asks for a check-in that has been granted in one case only: it
\* was granted to itself, by an answer that did not say so, and the credential
\* was refused when it asked for the status; then it asks once more.  It never
\* repeats the check-in of another, for activityMu is held from the question
\* about today's status to the last answer.
AsksAgainOnlyUnsure ==
    \A p \in Process :
        proc[p].call = "checkin" /\ proc[p].at \in {"call", "again"} /\ LoginOf(p) \in checked
        => proc[p].at = "again" /\ proc[p].granted

\* Every operation ends, deletions among a stream of refreshes as well.
EveryCallEnds == \A p \in Process : proc[p].at # "idle" ~> proc[p].at = "idle"
=============================================================================
