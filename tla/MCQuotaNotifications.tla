------------------------ MODULE MCQuotaNotifications ------------------------
EXTENDS QuotaNotifications, TLC
CONSTANTS w1, w2

\* Windows that differ in a field the identity hashes.
DistinctLabels == [w \in Window |-> w]

\* Windows that agree in all those fields.
SameLabels == [w \in Window |-> "pack"]

\* Reset times as the provider states them, and such as a client computes
\* from the seconds left, a second apart from one report to the next.
Stated == [w \in Window |-> {0}]
Computed == [w \in Window |-> {0, 1}]

\* Channels are interchangeable; symmetry is used for safety only.
ChannelSymmetry == Permutations(Channel)
=============================================================================
