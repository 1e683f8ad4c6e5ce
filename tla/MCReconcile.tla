---------------------------- MODULE MCReconcile ----------------------------
(***************************************************************************)
(* Bounds for TLC: one long strategy, two, or a short one, with two moves  *)
(* of the account, or one move and one failure, of the recovery or of a    *)
(* read; and one strategy whose transactions fail.                         *)
(***************************************************************************)
EXTENDS Reconcile

CONSTANTS s1, s2, sh

Reads == {"recover", "crash", "account", "orders", "trades", "futures"}
Writes == {"persist", "cleanup"}

MCProfiles ==
    [enabled : {{s1}, {s1, s2}, {sh}}, faults : {Reads}]
        \cup {[enabled |-> {s1}, faults |-> Writes]}
Short == {[enabled |-> {sh}, faults |-> Reads]}
MCBudgets == {<<2, 0>>, <<1, 1>>}
=============================================================================
