---------------------------- MODULE MCUsageSync ----------------------------
(* Instances of UsageSync: one account of each kind, one at a time.        *)
EXTENDS UsageSync

CONSTANTS met, rhythm, codex

MCProvider == [a \in Account |-> CASE a = met -> "metered" [] a = rhythm -> "tokenrhythm"
                                   [] a = codex -> "codex"]
OneAccount == {{met}, {rhythm}, {codex}}
=============================================================================
