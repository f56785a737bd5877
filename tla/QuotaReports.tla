---------------------------- MODULE QuotaReports ----------------------------
(***************************************************************************)
(* What the console shows of the accounts: readings of the providers are   *)
(* saved (SaveConnectedAccount in internal/store/sqlite/store.go), and the *)
(* dashboard (Overview in internal/service/dashboard.go) reads them back   *)
(* by several statements, between which others may save and delete.        *)
(***************************************************************************)
EXTENDS WorkBuddyCredits

CONSTANTS
    Account,
    Answer,         \* Answer[p]: what provider p may answer
    Together,       \* bound: [provider, loads], what is checked together
    MaxSaves        \* bound: savings of an account (1 if no overview is loaded)

ASSUME MaxSavesAssumption == MaxSaves \in Nat \ {0}
ASSUME AnswersAssumption ==
    /\ DOMAIN Answer \subseteq DOMAIN AnswersOf
    /\ \A p \in DOMAIN Answer : Answer[p] \subseteq AnswersOf[p]
ASSUME CreditsAssumption ==
    "workbuddy" \in DOMAIN Answer => \A x \in Answer["workbuddy"] : Truthful(x)
ASSUME TogetherAssumption ==
    Together \subseteq [provider : [Account -> DOMAIN Answer \union {""}], loads : BOOLEAN]

\* The threshold of the low-quota alert (Policy, notifications.go).
LowQuotaPercent == 15

VARIABLES
    provider,   \* provider[a]: whose account a is, "" for none
    loads,      \* whether a dashboard loads the overview
    rows,       \* connected_accounts: the status, and the save it is of
    windows,    \* account_quota_windows: the windows, and the save
    answer,     \* history: the answer that was saved last
    saves,      \* history: how often an account has been saved
    view        \* the overview that is being loaded

vars == <<provider, loads, rows, windows, answer, saves, view>>

NoRow == [status |-> "", save |-> 0]
NoWindows == [list |-> <<>>, save |-> 0]
NoAnswer == [ok |-> FALSE]
NoCard == [row |-> NoRow, windows |-> NoWindows]
NoView == [at |-> "idle", since |-> [a \in Account |-> 0], todo |-> {},
           cards |-> [a \in Account |-> NoCard]]

Init == \E t \in Together :
    /\ provider = t.provider
    /\ loads = t.loads
    /\ rows = [a \in Account |-> NoRow]
    /\ windows = [a \in Account |-> NoWindows]
    /\ answer = [a \in Account |-> NoAnswer]
    /\ saves = [a \in Account |-> 0]
    /\ view = NoView

\* What may come of an answer: one reading, but where a Go map is walked.
Readings(p, x) ==
    CASE p = "aliyun" -> {Aliyun(x)}
      [] p = "claude" -> {Claude(x)}
      [] p = "codex" -> {Codex(x)}
      [] p = "coze" -> Coze(x)
      [] p = "cursor" -> {Cursor(x)}
      [] p = "deepseek" -> {DeepSeek(x)}
      [] p = "gemini" -> Gemini(x)
      [] p = "generic" -> {Generic(x)}
      [] p = "kiro" -> {Kiro(x)}
      [] p = "mimo" -> {Mimo(x)}
      [] p = "qoder" -> {Qoder(x)}
      [] p = "trae" -> {Trae(x)}
      [] p = "workbuddy" -> {WorkBuddy(x)}
      [] p = "zhipu" -> {Zhipu(x)}

\* A mutant: the windows of the last reading are not deleted first.
SaveAppending(a, list) ==
    /\ rows' = [rows EXCEPT ![a] = [status |-> AccountStatus(list), save |-> saves[a] + 1]]
    /\ windows' = [windows EXCEPT ![a] = [list |-> @.list \o list, save |-> saves[a] + 1]]
    /\ saves' = [saves EXCEPT ![a] = @ + 1]

\* SaveConnectedAccount, in one transaction.
Save(a, list) ==
    /\ rows' = [rows EXCEPT ![a] = [status |-> AccountStatus(list), save |-> saves[a] + 1]]
    /\ windows' = [windows EXCEPT ![a] = [list |-> list, save |-> saves[a] + 1]]
    /\ saves' = [saves EXCEPT ![a] = @ + 1]

\* An account is connected or refreshed; a reading that fails saves nothing.
Refresh(a) ==
    /\ provider[a] # "" /\ saves[a] < (IF loads THEN MaxSaves ELSE 1)
    /\ \E x \in Answer[provider[a]] : \E r \in Readings(provider[a], x) :
         /\ r.ok
         /\ Save(a, r.windows)
         /\ answer' = [answer EXCEPT ![a] = x]
    /\ UNCHANGED <<provider, loads, view>>

Delete(a) ==
    /\ loads /\ rows[a] # NoRow
    /\ provider' = [provider EXCEPT ![a] = ""]
    /\ rows' = [rows EXCEPT ![a] = NoRow]
    /\ windows' = [windows EXCEPT ![a] = NoWindows]
    /\ UNCHANGED <<loads, answer, saves, view>>

-----------------------------------------------------------------------------
(* Overview.                                                               *)

\* A request for the overview; usage and alerts are read before and after.
Ask ==
    /\ loads /\ view.at \in {"idle", "shown"}
    /\ view' = [NoView EXCEPT !.at = "rows", !.since = saves]
    /\ UNCHANGED <<provider, loads, rows, windows, answer, saves>>

\* ConnectedAccounts: the rows, then the windows of each.
ReadRows ==
    /\ view.at = "rows"
    /\ view' = [view EXCEPT !.at = "windows", !.todo = {a \in Account : rows[a] # NoRow},
                            !.cards = [a \in Account |-> [NoCard EXCEPT !.row = rows[a]]]]
    /\ UNCHANGED <<provider, loads, rows, windows, answer, saves>>

ReadWindows(a) ==
    /\ view.at = "windows" /\ a \in view.todo
    /\ view' = [view EXCEPT !.cards[a].windows = windows[a], !.todo = @ \ {a}]
    /\ UNCHANGED <<provider, loads, rows, windows, answer, saves>>

Show ==
    /\ view.at = "windows" /\ view.todo = {}
    /\ view' = [view EXCEPT !.at = "shown"]
    /\ UNCHANGED <<provider, loads, rows, windows, answer, saves>>

Next ==
    \/ \E a \in Account : Refresh(a) \/ Delete(a) \/ ReadWindows(a)
    \/ Ask \/ ReadRows \/ Show

Spec == Init /\ [][Next]_vars

-----------------------------------------------------------------------------
(* Properties.                                                             *)

Status == {"healthy", "warning", "critical"}
\* Labels are the clients' own, or come with an answer.
Label == {"5h", "week", "credits", "plan", "bonus", "on demand", "pack", "balance", "available",
          "cash", "quota", "package"} \union STRING
Window == [label : Label, left : Int, of : Nat, status : Status]
Listed(a) == Range(windows[a].list)

\* Rows, windows and the overview have their shapes; whatever a provider
\* says is used, no share is below nothing where the client subtracts, nor
\* above the whole where it computes a percentage.
TypeOK ==
    /\ provider \in [Account -> DOMAIN Answer \union {""}]
    /\ loads \in BOOLEAN
    /\ rows \in [Account -> [status : Status \union {""}, save : 0 .. MaxSaves]]
    /\ windows \in [Account -> [list : Seq(Window), save : 0 .. MaxSaves]]
    /\ saves \in [Account -> 0 .. MaxSaves]
    /\ view.at \in {"idle", "rows", "windows", "shown"} /\ view.todo \subseteq Account
    /\ \A a \in Account : \A w \in Listed(a) : w.of > 0 =>
         LET percent == provider[a] \in {"claude", "codex", "gemini", "mimo", "zhipu"}
             less == provider[a] \in {"kiro", "trae", "workbuddy"}
         IN /\ percent \/ less => w.left >= 0
            /\ percent => w.left <= w.of

\* A window with a percentage is critical exactly when it is low enough for
\* the low-quota alert (quotaStatus here, LowQuotaPercent there): no card is
\* red that nobody is told about, and the other way round.
CriticalIsAlerted ==
    \A a \in Account : \A w \in Listed(a) :
        w.of > 0 => (w.status = "critical" <=> 100 * w.left <= LowQuotaPercent * w.of)

\* What a card shows was saved when the load began or later, its windows no
\* earlier than its status; and where both are of one save, the status is
\* that of the worst window, wherever among them that is.
CardsAreRecent ==
    view.at = "shown" => \A a \in Account :
        LET card == view.cards[a]
            worst(s) == \E w \in Range(card.windows.list) : w.status = s
        IN card.row # NoRow =>
             /\ card.row.save >= view.since[a]
             /\ card.windows = NoWindows \/ card.windows.save >= card.row.save
             /\ card.windows.save = card.row.save =>
                  /\ card.row.status = "critical" <=> worst("critical")
                  /\ card.row.status = "warning" <=> worst("warning") /\ ~worst("critical")

\* Some limit in an answer is used up.  (MiMo: to the full; used beyond it,
\* without a percentage of its own, an answer is read as a few percent.)
UsedUp(p, x) ==
    CASE p = "codex" -> \E w \in Range(x.limits) : w.used >= 100
      [] p = "claude" -> \E w \in Range(x.limits) : w.kind = "window" /\ w.named /\ w.used >= 100
      [] p = "cursor" -> x.percent = 100 \/ (x.percent = Missing /\ x.limit > 0 /\ x.remaining = 0)
      [] p = "gemini" -> \E b \in Range(x.buckets) : b.model.family # "" /\ b.left = 0
      [] p = "kiro" -> (x.total > 0 /\ x.used >= x.total) \/ (x.bonusTotal > 0 /\ x.bonusUsed >= x.bonusTotal)
      [] p = "mimo" -> x.percent = <<>> /\ x.limit > 0 /\ x.used = x.limit
      [] p = "qoder" -> \E w \in Range(x.quotas) : w.total > 0 /\ w.left = 0
      [] p = "zhipu" -> x.plan.ok /\ Len(x.plan.limits) <= 2 /\
                          \E w \in Range(x.plan.limits) :
                            w.type \in {"TOKENS_LIMIT", "CREDIT_LIMIT"} /\ w.used >= 100
      [] OTHER -> FALSE

\* An account one of whose limits is used up is critical, whichever of its
\* limits it is and whatever the others say.
UsedUpIsCritical ==
    \A a \in Account :
        rows[a] # NoRow /\ UsedUp(provider[a], answer[a]) => rows[a].status = "critical"

\* The credits of a WorkBuddy account are those of the packages it holds:
\* none is counted twice, whichever of the requests fail and however the
\* answers overlap, and none is missed when all of them succeed.
CreditsCountedOnce ==
    \A a \in Account : rows[a] # NoRow /\ provider[a] = "workbuddy" =>
        LET x == answer[a]
            held == LeftOf(x.held)
            shown == windows[a].list[1].left
        IN /\ shown <= held
           /\ x.domestic /\ (\A r \in {x.summary, x.paid, x.free} : Recognised(r))
                => shown = held
=============================================================================
