-------------------------- MODULE ProviderAnswers --------------------------
(***************************************************************************)
(* From the answer of a provider to the quota windows of an account: the   *)
(* clients in internal/integration read the fields, and connect...WithID   *)
(* in internal/service/accounts.go builds the windows and their status.    *)
(*                                                                         *)
(* An answer is a record of the fields that are read, each a number or     *)
(* Missing; "ok" is FALSE when the request fails, or answers with an error.*)
(* What a window has left is a share, left / of, when it has a percentage, *)
(* and an amount, with of = 0, when it has none.  Texts, units and times   *)
(* are left out.                                                           *)
(***************************************************************************)
EXTENDS Integers, SequencesExt, FiniteSetsExt

Missing == -1

Refused == [ok : {FALSE}]
GenericPath == [asked : BOOLEAN, value : Int]
CozeFields == [code : Int, balance : Int, total : Int]
TraeQuota == [credits : Int, basic : Int, bonus : Int]
CreditResource == [code : STRING, total : Int, left : Int, used : Int, expires : Nat]
CreditReply == [status : STRING, present : BOOLEAN, items : Seq(CreditResource)]

\* The shape of an answer, with any numbers: nothing keeps a provider from
\* reporting more than the whole, or less than nothing.
AnswersOf == [
    aliyun |-> Refused \union [ok : {TRUE}, available : Int, cash : Int],
    claude |-> Refused \union
        [ok : {TRUE}, limits : Seq([label : STRING, used : Int, kind : STRING, named : BOOLEAN])],
    codex |-> Refused \union
        [ok : {TRUE}, limits : Seq([label : STRING, used : Int]),
         credits : [balance : Int, has : {"true", "false", "absent"}, unlimited : BOOLEAN]],
    coze |-> [known : BOOLEAN, ok : BOOLEAN, outer : CozeFields, inner : SUBSET CozeFields],
    cursor |-> Refused \union [ok : {TRUE}, percent : Int, remaining : Int, limit : Int, used : Int,
                               onDemand : Int, onDemandMax : Int],
    deepseek |-> Refused \union [ok : {TRUE}, infos : BOOLEAN, total : Int, available : BOOLEAN],
    gemini |-> Refused \union
        [ok : {TRUE}, buckets : Seq([model : [family : STRING, version : Nat], left : Int])],
    generic |-> Refused \union [ok : {TRUE}, value : Int,
        total : GenericPath, reset : GenericPath, expires : GenericPath],
    kiro |-> Refused \union [ok : {TRUE}, total : Int, used : Int, bonusTotal : Int, bonusUsed : Int],
    mimo |-> Refused \union
        [ok : {TRUE}, percent : {<<>>} \union (Int \X (Nat \ {0})), used : Int, limit : Int],
    qoder |-> Refused \union [ok : {TRUE}, quotas : Seq([label : STRING, total : Int, left : Int])],
    trae |-> Refused \union
        [ok : {TRUE}, packs : Seq([hidden : BOOLEAN, base : TraeQuota, subscription : TraeQuota,
                                   package : TraeQuota, used : TraeQuota])],
    workbuddy |-> [domestic : BOOLEAN, held : SUBSET CreditResource, summary : CreditReply,
                   paid : CreditReply, free : CreditReply, legacy : CreditReply],
    zhipu |-> [plan : Refused \union
                   [ok : {TRUE}, limits : Seq([type : STRING, unit : Int, used : Int])],
               report : Refused \union [ok : {TRUE}, balance : Int],
               models : BOOLEAN]]

AtLeastZero(n) == IF n < 0 THEN 0 ELSE n

\* A mutant: bounded above only.
ClampAbove(n) == IF n > 100 THEN 100 ELSE n

Clamp(n) == IF n > 100 THEN 100 ELSE AtLeastZero(n)

OrZero(n) == IF n = Missing THEN 0 ELSE n

\* A mutant: the bound itself counts as above it.
QuotaStatusStrict(left, of) ==
    IF 100 * left < 15 * of THEN "critical"
    ELSE IF 100 * left <= 35 * of THEN "warning" ELSE "healthy"

QuotaStatus(left, of) ==
    IF 100 * left <= 15 * of THEN "critical"
    ELSE IF 100 * left <= 35 * of THEN "warning" ELSE "healthy"

BalanceStatus(left) == IF left <= 0 THEN "critical" ELSE "healthy"

Share(label, left, of) ==
    [label |-> label, left |-> left, of |-> of, status |-> QuotaStatus(left, of)]
Amount(label, left, status) == [label |-> label, left |-> left, of |-> 0, status |-> status]
Sized(label, left, total) ==
    IF total > 0 THEN Share(label, left, total) ELSE Amount(label, left, "healthy")

Failed == [ok |-> FALSE, windows |-> <<>>]
Report(windows) == [ok |-> TRUE, windows |-> windows]
\* Most providers refuse an answer in which they recognise nothing.
ReportSome(windows) == IF windows = <<>> THEN Failed ELSE Report(windows)

Each(Op(_), s) == [i \in 1 .. Len(s) |-> Op(s[i])]

\* What a loop over s does not skip: its elements that are in S.
Those(s, S) == FoldLeft(LAMBDA kept, x : IF x \in S THEN Append(kept, x) ELSE kept, <<>>, s)

\* A mutant: the last window that is not healthy decides.
NextStatusLast(status, window) ==
    IF window.status \in {"critical", "warning"} THEN window.status ELSE status

\* newConnected goes through the windows and stops at a critical one.
NextStatus(status, window) ==
    IF status = "critical" THEN status
    ELSE IF window.status \in {"critical", "warning"} THEN window.status ELSE status

AccountStatus(windows) == FoldLeft(NextStatus, "healthy", windows)

-----------------------------------------------------------------------------
(* Providers that answer with what is used, in percent.                    *)

Used(label, used) == Share(label, Clamp(100 - used), 100)

\* limits: [label, used] of the two windows; credits: [balance, has, unlimited].
Codex(a) ==
    LET limits == Those(a.limits, {w \in Range(a.limits) : w.used # Missing})
        credits == a.credits
        shown == /\ credits.balance # Missing /\ ~credits.unlimited
                 /\ \/ credits.has = "true"
                    \/ credits.has = "absent" /\ (credits.balance > 0)
    IN IF ~a.ok THEN Failed
       ELSE ReportSome(Each(LAMBDA w : Used(w.label, w.used), limits)
                         \o IF shown THEN <<Amount("credits", credits.balance, "healthy")>> ELSE <<>>)

\* limits: the two windows, then the list, of which those for a model count.
Claude(a) ==
    LET counted == {w \in Range(a.limits) :
                      w.used # Missing /\ w.kind \in {"window", "weekly_scoped"} /\ w.named}
    IN IF ~a.ok THEN Failed
       ELSE ReportSome(Each(LAMBDA w : Used(w.label, w.used), Those(a.limits, counted)))

\* modelLabel: the models of a family share a label, others are their own.
ModelLabel(model) ==
    IF model.family \in {"pro", "flash", "flash-lite"} THEN [model EXCEPT !.version = 0] ELSE model
ModelRank(label) ==
    CASE label.family = "pro" -> 0 [] label.family = "flash" -> 1
      [] label.family = "flash-lite" -> 2 [] OTHER -> 3

\* A mutant: a label shows the bucket that comes first.
BucketOfFirst(buckets, label) ==
    LET mine == {i \in DOMAIN buckets : ModelLabel(buckets[i].model) = label}
    IN buckets[Min(mine)].left

\* What the fullest bucket of a label has left; no fraction means all of it.
BucketOf(buckets, label) ==
    Min({IF b.left = Missing THEN 100 ELSE Clamp(b.left) :
           b \in {c \in Range(buckets) : ModelLabel(c.model) = label}})

\* The order of labels of one rank is that of a Go map: any.
Ranked(labels) ==
    {s \in SetToSeqs(labels) : \A i, j \in DOMAIN s : i < j => ModelRank(s[i]) <= ModelRank(s[j])}

Gemini(a) ==
    LET buckets == Those(a.buckets, {b \in Range(a.buckets) : b.model.family # ""})
        labels == {ModelLabel(b.model) : b \in Range(buckets)}
    IN IF ~a.ok THEN {Failed}
       ELSE {ReportSome(Each(LAMBDA x : Share(x.family, BucketOf(buckets, x), 100), s)) :
                s \in Ranked(labels)}

\* percent is <<n, d>> for n / d, or Missing; up to 1 it is taken for a
\* fraction, beyond for a percentage, and so is used / limit.
Mimo(a) ==
    LET percent == IF a.percent # <<>> THEN a.percent
                   ELSE IF OrZero(a.limit) > 0 THEN <<OrZero(a.used), a.limit>> ELSE <<>>
        n == IF percent[1] <= percent[2] THEN 100 * percent[1] ELSE percent[1]
        whole == 100 * percent[2]
    IN IF ~a.ok \/ percent = <<>> THEN Failed
       ELSE Report(<<Share("plan", IF n > whole THEN 0 ELSE IF n < 0 THEN whole ELSE whole - n, whole)>>)

\* A window of the coding plan whose unit is not known takes a label that is
\* still free, if there is one.
Place(windows, w) ==
    LET free(label) == \A i \in DOMAIN windows : windows[i].label # label
    IN IF free("5h") THEN Append(windows, Used("5h", OrZero(w.used)))
       ELSE IF free("week") THEN Append(windows, Used("week", OrZero(w.used)))
       ELSE windows

\* The coding plan: limits are [type, unit, used]; units 3 and 6 are known,
\* and the others come after them.
ZhipuPlan(a) ==
    LET known == {w \in Range(a.limits) : w.type \in {"TOKENS_LIMIT", "CREDIT_LIMIT"}}
        units == {w \in known : w.unit \in {3, 6}}
        labelled == Each(LAMBDA w : Used(IF w.unit = 3 THEN "5h" ELSE "week", OrZero(w.used)),
                         Those(a.limits, units))
    IN IF ~a.ok THEN Failed
       ELSE ReportSome(FoldLeft(Place, labelled, Those(a.limits, known \ units)))

ZhipuBalance(a) ==
    IF ~a.ok \/ a.balance = Missing THEN Failed
    ELSE Report(<<Amount("balance", a.balance, BalanceStatus(a.balance))>>)

\* Three billing domains are asked in turn, whatever the failure of the one
\* before; the last of them says only that the key works.
Zhipu(a) ==
    IF ZhipuPlan(a.plan).ok THEN ZhipuPlan(a.plan)
    ELSE IF ZhipuBalance(a.report).ok THEN ZhipuBalance(a.report)
    ELSE IF a.models THEN Report(<<>>) ELSE Failed

-----------------------------------------------------------------------------
(* Providers that answer with amounts.                                     *)

\* Used up beyond a hundred percent, an answer is refused.
Cursor(a) ==
    LET left == IF a.percent # Missing THEN <<100 - a.percent, 100>>
                ELSE IF a.remaining # Missing /\ a.limit > 0 THEN <<a.remaining, a.limit>>
                ELSE IF a.used # Missing /\ a.limit > 0 THEN <<a.limit - a.used, a.limit>>
                ELSE <<-1, 1>>
        plan == Share("plan", IF left[1] > left[2] THEN left[2] ELSE left[1], left[2])
    IN IF ~a.ok \/ left[1] < 0 THEN Failed
       ELSE Report(<<plan>> \o IF a.onDemand = Missing THEN <<>>
                               ELSE <<Sized("on demand", a.onDemand, a.onDemandMax)>>)

Kiro(a) ==
    LET plan(label, total, used) ==
            IF total > 0 THEN <<Share(label, AtLeastZero(total - used), total)>> ELSE <<>>
    IN IF ~a.ok THEN Failed
       ELSE ReportSome(plan("plan", OrZero(a.total), OrZero(a.used))
                         \o plan("bonus", OrZero(a.bonusTotal), OrZero(a.bonusUsed)))

Qoder(a) ==
    IF ~a.ok \/ \A w \in Range(a.quotas) : w.total = 0 /\ w.left = 0 THEN Failed
    ELSE Report(Each(LAMBDA w : Sized(w.label, w.left, w.total), a.quotas))

\* effectiveQuota: the first of the pack's three quotas that says anything,
\* and the last if none does.
EffectiveQuota(pack) ==
    LET says(q) == q.credits # Missing \/ q.basic # Missing
    IN IF says(pack.base) THEN pack.base
       ELSE IF says(pack.subscription) THEN pack.subscription ELSE pack.package

\* hidden: of product type 3, hidden, or of status 3.  Credits below zero
\* (-2 here) are without limit.  A pack of nothing counts as full.
Trae(a) ==
    LET shown == {p \in Range(a.packs) : LET q == EffectiveQuota(p) IN
            ~p.hidden /\ (q.credits >= 0 \/ (q.credits = Missing /\ q.basic # Missing))}
        total(p) == LET q == EffectiveQuota(p) IN
            IF q.credits # Missing THEN q.credits ELSE q.basic + OrZero(q.bonus)
        used(p) == IF EffectiveQuota(p).credits # Missing THEN OrZero(p.used.credits)
                   ELSE OrZero(p.used.basic) + OrZero(p.used.bonus)
        window(p) == IF total(p) > 0 THEN Share("pack", AtLeastZero(total(p) - used(p)), total(p))
                     ELSE Share("pack", 1, 1)
    IN IF ~a.ok THEN Failed ELSE ReportSome(Each(window, Those(a.packs, shown)))

DeepSeek(a) ==
    IF ~a.ok \/ ~a.infos THEN Failed
    ELSE Report(<<Amount("balance", OrZero(a.total), IF a.available THEN "healthy" ELSE "critical")>>)

Aliyun(a) ==
    IF ~a.ok \/ a.available = Missing THEN Failed
    ELSE Report(<<Amount("available", a.available, "healthy")>>
                  \o IF a.cash = Missing THEN <<>> ELSE <<Amount("cash", a.cash, "healthy")>>)

\* A path that the user has configured must be found.
Generic(a) ==
    LET found(field) == ~field.asked \/ field.value # Missing
    IN IF ~a.ok \/ a.value = Missing \/ ~found(a.reset) \/ ~found(a.expires)
          \/ (a.total.asked /\ a.total.value <= 0)
       THEN Failed
       ELSE Report(<<Sized("quota", a.value, IF a.total.asked THEN a.total.value ELSE 0)>>)

\* walk visits the outer map before the maps in it, and those in the order of
\* a Go map: any.  What findNumber may return for a field:
FindNumber(a, field) ==
    LET inner == {m[field] : m \in a.inner} \ {Missing}
    IN IF a.outer[field] # Missing THEN {a.outer[field]}
       ELSE IF inner # {} THEN inner ELSE {Missing}

\* The account is asked for its id first.  A code anywhere is an error.
Coze(a) ==
    {IF ~a.known \/ ~a.ok \/ code \notin {0, Missing} \/ left = Missing THEN Failed
     ELSE Report(<<Sized("credits", left, total)>>) :
        code \in FindNumber(a, "code"), left \in FindNumber(a, "balance"), total \in FindNumber(a, "total")}
=============================================================================
