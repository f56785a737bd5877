----------------------------- MODULE MCConsole -----------------------------
EXTENDS Console

CONSTANTS r1, r2, x1, x2, p1, p2

\* Two logins over three addresses; two streams and two publishers; and a
\* login and a stream, with a password.
Scenarios == {
    [required |-> TRUE, login |-> {r1, r2}, stream |-> {}, publisher |-> {}],
    [required |-> FALSE, login |-> {}, stream |-> {x1, x2}, publisher |-> {p1, p2}],
    [required |-> TRUE, login |-> {r1}, stream |-> {x1}, publisher |-> {}]}
=============================================================================
