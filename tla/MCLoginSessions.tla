-------------------------- MODULE MCLoginSessions --------------------------
(* Instances of LoginSessions: two TRAE logins that replace one another,   *)
(* or a Kiro login called back twice beside one that is polled for.        *)
EXTENDS LoginSessions

CONSTANTS p1, t1, t2, k1

MCTogether == {{t1, t2}, {p1, k1}, {p1, t1}}
=============================================================================
