--------------------------- MODULE LoginContract ---------------------------
(***************************************************************************)
(* What a login through a platform's own page promises the dashboard that  *)
(* polls it (DeviceLoginSession, internal/service/accounts.go): it is      *)
(* pending until it either failed, and connected nothing, or completed,    *)
(* and connected the one account it names.  Neither is ever taken back.    *)
(***************************************************************************)
EXTENDS Naturals

CONSTANT Logins

VARIABLES
    status,     \* status[s]: what DeviceLoginStatus answers for login s
    connected   \* connected[s]: the number of accounts login s stored

Init ==
    /\ status = [s \in Logins |-> "absent"]
    /\ connected = [s \in Logins |-> 0]

Begin(s) ==
    /\ status[s] = "absent"
    /\ status' = [status EXCEPT ![s] = "pending"]
    /\ UNCHANGED connected

\* The account appears in the pool a moment before the session names it.
Connect(s) ==
    /\ status[s] = "pending" /\ connected[s] = 0
    /\ connected' = [connected EXCEPT ![s] = 1]
    /\ UNCHANGED status

Complete(s) ==
    /\ status[s] = "pending" /\ connected[s] = 1
    /\ status' = [status EXCEPT ![s] = "completed"]
    /\ UNCHANGED connected

Fail(s) ==
    /\ status[s] = "pending" /\ connected[s] = 0
    /\ status' = [status EXCEPT ![s] = "failed"]
    /\ UNCHANGED connected

Next == \E s \in Logins : Begin(s) \/ Connect(s) \/ Complete(s) \/ Fail(s)

Spec == Init /\ [][Next]_<<status, connected>>
=============================================================================
