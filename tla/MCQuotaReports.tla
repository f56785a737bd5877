--------------------------- MODULE MCQuotaReports ---------------------------
(* What the providers may answer: every field that is read takes the       *)
(* values around its thresholds, or is missing.                            *)
EXTENDS QuotaReports

CONSTANTS a1, a2

Percent == {Missing, 0, 64, 65, 84, 85, 100, 101}
Spent == {Missing, 0, 17, 20, 21}
Rest == {0, 3, 20, 21}
NoReply == [ok |-> FALSE]

CodexAnswers == {NoReply} \union
    {[ok |-> TRUE, limits |-> <<[label |-> "5h", used |-> u], [label |-> "week", used |-> v]>>,
      credits |-> [balance |-> b, has |-> h, unlimited |-> n]] :
        u \in Percent, v \in Percent, b \in {Missing, 0, 4}, h \in {"true", "false", "absent"}, n \in BOOLEAN}

ClaudeAnswers == {NoReply} \union
    {[ok |-> TRUE, limits |-> <<[label |-> "5h", used |-> u, kind |-> "window", named |-> TRUE],
                                [label |-> "week", used |-> v, kind |-> "window", named |-> TRUE],
                                [label |-> "model", used |-> w, kind |-> k, named |-> n]>>] :
        u \in {Missing, 0, 85, 101}, v \in Percent, w \in {Missing, 65, 100},
        k \in {"weekly_scoped", "other"}, n \in BOOLEAN}

Models == {[family |-> "pro", version |-> 1], [family |-> "pro", version |-> 2],
           [family |-> "flash", version |-> 1], [family |-> "other", version |-> 1],
           [family |-> "", version |-> 1]}
Buckets == {[model |-> m, left |-> l] : m \in Models, l \in {Missing, 0, 15, 36}}
GeminiAnswers == {NoReply} \union
    {[ok |-> TRUE, buckets |-> s] : s \in {<<>>} \union {<<b>> : b \in Buckets}
                                          \union {<<b, c>> : b \in Buckets, c \in Buckets}}

MimoAnswers == {NoReply} \union
    {[ok |-> TRUE, percent |-> p, used |-> u, limit |-> l] :
        p \in {<<>>, <<0, 1>>, <<85, 100>>, <<1, 1>>, <<85, 1>>, <<101, 1>>, <<-5, 1>>}, u \in Spent, l \in {Missing, 0, 20}}

PlanLimits == {[type |-> t, unit |-> n, used |-> u] :
    t \in {"TOKENS_LIMIT", "CREDIT_LIMIT", "OTHER"}, n \in {3, 6, 9}, u \in {Missing, 65, 100}}
Plans == {NoReply} \union
    {[ok |-> TRUE, limits |-> s] : s \in {<<>>} \union {<<w>> : w \in PlanLimits}
                                         \union {<<v, w>> : v \in PlanLimits, w \in PlanLimits}}
ZhipuAnswers ==
    {[plan |-> p, report |-> r, models |-> m] :
        p \in Plans, r \in {NoReply} \union {[ok |-> TRUE, balance |-> b] : b \in {Missing, 0, 4}}, m \in BOOLEAN}

CursorAnswers == {NoReply} \union
    {[ok |-> TRUE, percent |-> p, remaining |-> r, limit |-> l, used |-> u, onDemand |-> d, onDemandMax |-> m] :
        p \in {Missing, 0, 85, 100, 101}, r \in {Missing, 0, 3, 21}, l \in {0, 20}, u \in Spent,
        d \in {Missing, 0, 5}, m \in {0, 5}}

KiroAnswers == {NoReply} \union
    {[ok |-> TRUE, total |-> n, used |-> u, bonusTotal |-> m, bonusUsed |-> v] :
        n \in {Missing, 0, 20}, u \in Spent \union {-2}, m \in {Missing, 0, 20}, v \in Spent}

QoderAnswers == {NoReply} \union
    {[ok |-> TRUE, quotas |-> <<[label |-> "own", total |-> n, left |-> l],
                                [label |-> "shared", total |-> m, left |-> k]>>] :
        n \in {0, 20}, l \in Rest, m \in {0, 20}, k \in Rest}

\* One quota of a pack says something, or none; -2 is without limit.
Quotas == {[credits |-> c, basic |-> b, bonus |-> n] :
    c \in {Missing, -2, 0, 20}, b \in {Missing, 20}, n \in {Missing, 5}}
Silent == [credits |-> Missing, basic |-> Missing, bonus |-> Missing]
Packs == {[hidden |-> h, base |-> IF at = 1 THEN q ELSE Silent, subscription |-> IF at = 2 THEN q ELSE Silent,
           package |-> IF at = 3 THEN q ELSE Silent,
           used |-> [credits |-> c, basic |-> c, bonus |-> n]] :
    h \in BOOLEAN, at \in 1 .. 3, q \in Quotas, c \in {Missing, 17, 26}, n \in {Missing, 5}}
TraeAnswers == {NoReply} \union
    {[ok |-> TRUE, packs |-> s] : s \in {<<>>} \union {<<p>> : p \in Packs}}

DeepSeekAnswers == {NoReply} \union
    {[ok |-> TRUE, infos |-> i, total |-> n, available |-> v] : i \in BOOLEAN, n \in {Missing, 4}, v \in BOOLEAN}

AliyunAnswers == {NoReply} \union
    {[ok |-> TRUE, available |-> n, cash |-> c] : n \in {Missing, 0, 4}, c \in {Missing, 4}}

Path == {[asked |-> FALSE, value |-> Missing], [asked |-> TRUE, value |-> Missing], [asked |-> TRUE, value |-> 20]}
GenericAnswers == {NoReply} \union
    {[ok |-> TRUE, value |-> v, total |-> n, reset |-> r, expires |-> e] :
        v \in Rest \union {Missing}, n \in Path \union {[asked |-> TRUE, value |-> 0]}, r \in Path, e \in Path}

Maps == [code : {Missing, 0, 7}, balance : {Missing, 4}, total : {Missing, 20}]
CozeAnswers == {[known |-> k, ok |-> o, outer |-> m, inner |-> i] :
    k \in BOOLEAN, o \in BOOLEAN, m \in Maps, i \in {{}} \union {{n} : n \in Maps}
        \union {{n, [code |-> 0, balance |-> 5, total |-> Missing]} : n \in Maps}}

\* Two packages of one code that expire at different times, one of another
\* code, and one without a code, which the summary lists too.
Package(code, left, expires) == [code |-> code, total |-> 20, left |-> left, used |-> 20 - left, expires |-> expires]
Some(r) == {r, [r EXCEPT !.total = Missing], [r EXCEPT !.left = Missing], [r EXCEPT !.used = Missing]}
Reply(items) == [status |-> "ok", present |-> items # <<>>, items |-> items]
Silence == {[status |-> s, present |-> FALSE, items |-> <<>>] : s \in {"ok", "refused", "error", "unauthorized"}}
WorkBuddyAnswers ==
    UNION {LET held == {Package("A", l, 1), Package("A", 3, 2), Package("B", 0, 1), Package("", 5, 1)}
               sum == [code |-> "A", total |-> 40, left |-> l + 3, used |-> 37 - l, expires |-> 1]
               summary == {Reply(<<s, Package("B", 0, 1), Package("", 5, 1)>>) : s \in Some(sum)}
               paid == {Reply(<<s, Package("A", 3, 2)>>) : s \in Some(Package("A", l, 1))}
               free == {Reply(<<s, Package("", 5, 1)>>) : s \in Some(Package("B", 0, 1))}
               legacy == {Reply(<<Package("A", l, 1), Package("A", 3, 2), Package("A", l, 1)>>)}
           IN {[domestic |-> d, held |-> held, summary |-> s, paid |-> p, free |-> f, legacy |-> g] :
                  d \in BOOLEAN, s \in summary \union Silence, p \in paid \union Silence,
                  f \in free \union Silence, g \in legacy \union Silence} : l \in {3, 20}}

Answers == [codex |-> CodexAnswers, claude |-> ClaudeAnswers, gemini |-> GeminiAnswers, mimo |-> MimoAnswers,
            zhipu |-> ZhipuAnswers, cursor |-> CursorAnswers, kiro |-> KiroAnswers, qoder |-> QoderAnswers,
            trae |-> TraeAnswers, deepseek |-> DeepSeekAnswers, aliyun |-> AliyunAnswers,
            generic |-> GenericAnswers, coze |-> CozeAnswers, workbuddy |-> WorkBuddyAnswers]

\* One account of each provider alone, and two with a reader of the overview.
Scenarios == {[provider |-> [a \in Account |-> IF a = a1 THEN p ELSE ""], loads |-> FALSE] : p \in DOMAIN Answers}
    \union {[provider |-> [a \in Account |-> "deepseek"], loads |-> TRUE]}
=============================================================================
