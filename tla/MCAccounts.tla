----------------------------- MODULE MCAccounts -----------------------------
(* Instances of Accounts: a Codex or a TRAE account with room for another  *)
(* one of the same login, a WorkBuddy or a Gemini account.                 *)
EXTENDS Accounts

CONSTANTS c1, c2, w, g1, t, t2, codex, workbuddy, gemini, trae

MCOwner == [i \in Id |-> CASE i \in {c1, c2} -> codex [] i = w -> workbuddy
                           [] i = g1 -> gemini [] i \in {t, t2} -> trae]
MCFamily == [l \in Login |-> CASE l = codex -> "codex" [] l = workbuddy -> "workbuddy"
                               [] l = gemini -> "gemini" [] l = trae -> "trae"]
\* TRAE stands for the clients that renew as it does.
ASSUME ClientsAgree == {KiroClient, QoderClient, CursorClient} = {TraeClient}

OneAccount == {{c1}, {w}, {g1}, {t}}
=============================================================================
