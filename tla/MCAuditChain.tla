----------------------------- MODULE MCAuditChain -----------------------------
(***************************************************************************)
(* An instance of AuditChain: four writers and a clock of four ticks, so   *)
(* that a writer can be overtaken between its timestamp and its lock.      *)
(***************************************************************************)
EXTENDS AuditChain, TLC

CONSTANTS w1, w2, w3, w4

Perms == Permutations({w1, w2, w3, w4})
=============================================================================
