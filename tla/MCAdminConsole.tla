--------------------------- MODULE MCAdminConsole ---------------------------
(* A small instance of AdminConsole: two flags, two requests, two admin POSTs. *)
EXTENDS AdminConsole, TLC

CONSTANTS t1, t2, a1, a2, r1, r2, f1, f2

TwoTxns == {t1, t2}
TwoAnalysts == {a1, a2}
TwoRequests == {r1, r2}
TwoForms == {f1, f2}

AdminSymmetry == Permutations(Txns) \cup Permutations(Analysts) \cup Permutations(Requests) \cup Permutations(Forms)
=============================================================================
