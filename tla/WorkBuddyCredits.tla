-------------------------- MODULE WorkBuddyCredits --------------------------
(***************************************************************************)
(* The credits of a WorkBuddy account (internal/integration/workbuddy):    *)
(* the domestic service is asked three times, for a summary and for the    *)
(* paid and the free packages, and what they answer is put together.       *)
(*                                                                         *)
(* A package is [code, total, left, used, expires], code = "" when it has  *)
(* none; a reply is [status, present, items].                              *)
(***************************************************************************)
EXTENDS ProviderAnswers

\* normalizeResource: what is not said follows from what is.
Normalize(r) ==
    LET total == IF r.total # Missing THEN r.total ELSE OrZero(r.left) + OrZero(r.used)
    IN [r EXCEPT !.total = AtLeastZero(total),
                 !.left = AtLeastZero(IF r.left # Missing THEN r.left ELSE total - OrZero(r.used)),
                 !.used = AtLeastZero(IF r.used # Missing THEN r.used
                                      ELSE total - (IF r.left # Missing THEN r.left
                                                    ELSE AtLeastZero(total)))]

\* A mutant: the summary is always added.
MergeAll(summary, details) == details \o summary

\* mergeResources: details replace what the summary says of their codes.
MergeResources(summary, details) ==
    LET codes == {r.code : r \in Range(details)}
    IN details \o Those(summary, {r \in Range(summary) : r.code = "" \/ r.code \notin codes})

\* dedupeResources: of packages alike in everything, the first stays.
DedupeResources(resources) ==
    FoldLeft(LAMBDA kept, r : IF r \in Range(kept) THEN kept ELSE Append(kept, r), <<>>, resources)

Summed(Field(_), resources) == FoldLeft(LAMBDA n, r : n + Field(r), 0, resources)

\* summarizeResources and the windows built from it: all of the credits,
\* then each package.
Summarize(resources) ==
    Report(<<Sized("credits", Summed(LAMBDA r : r.left, resources), Summed(LAMBDA r : r.total, resources))>>
             \o Each(LAMBDA r : Sized("package", r.left, r.total), resources))

\* A reply that is no success, or lists nothing, is passed over.
Recognised(reply) == reply.status = "ok" /\ reply.present
Items(reply) == IF Recognised(reply) THEN Each(Normalize, reply.items) ELSE <<>>

\* fetchDomesticCredits; an error or a login that is over ends it.
Domestic(a) == Summarize(DedupeResources(MergeResources(Items(a.summary), Items(a.paid) \o Items(a.free))))

Legacy(a) ==
    IF Recognised(a.legacy) THEN Summarize(DedupeResources(Items(a.legacy))) ELSE Failed

\* The answers that tell the truth of the packages an account holds: a list
\* names some of them, the paid and the free together all, and the summary
\* has those without a code as they are, and what a code has left together.
LeftOf(packages) == MapThenSumSet(LAMBDA r : r.left, packages)
Truthful(a) ==
    LET listed(reply) == Range(Items(reply))
        ofCode(code) == {h \in a.held : h.code = code}
    IN /\ IsFiniteSet(a.held) /\ \A h \in a.held : h.left >= 0
       /\ \A reply \in {a.paid, a.free, a.legacy} : listed(reply) \subseteq a.held
       /\ Recognised(a.paid) /\ Recognised(a.free) => a.held = listed(a.paid) \union listed(a.free)
       /\ \A r \in listed(a.summary) : IF r.code = "" THEN r \in a.held ELSE r.left = LeftOf(ofCode(r.code))
       /\ \A r, s \in listed(a.summary) : r.code = s.code /\ r.code # "" => r = s

WorkBuddy(a) ==
    LET replies == {a.summary, a.paid, a.free}
    IN IF ~a.domestic THEN Legacy(a)
       ELSE IF \E r \in replies : r.status \in {"error", "unauthorized"} THEN Failed
       ELSE IF \E r \in replies : Recognised(r) THEN Domestic(a) ELSE Legacy(a)
=============================================================================
