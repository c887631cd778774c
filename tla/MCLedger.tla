------------------------------ MODULE MCLedger -------------------------------
(* Two receipts, appended as often as the bounds allow. *)
EXTENDS Ledger, TLC
CONSTANTS r1, r2
MCReceipts == {r1, r2}
MCFaults == {"fragment", "all but the newline", "error"}
Symmetric == Permutations(MCReceipts)
=============================================================================
