--------------------------- MODULE MCIngestCommand ---------------------------
(* Two settings, and every file of up to three rows and two columns with a  *)
(* sample of two rows.  isFraud has an override, so its cells matter only   *)
(* by being text or missing.                                                *)
EXTENDS IngestCommand, TLC

CONSTANTS account, password

TwoSettings == {account, password}
AllColumns == {"V1", "isFraud"}
KnownOverrides == [n \in {"TransactionID", "isFraud"} |-> IF n = "isFraud" THEN "BOOLEAN" ELSE "INTEGER"]
SmallRows == {[V1 |-> kind, isFraud |-> "text"] : kind \in Kinds}
                 \cup {[V1 |-> "int", isFraud |-> "absent"]}
SmallFiles == UNION {[1..n -> SmallRows] : n \in 0..3}
SettingSymmetry == Permutations(Settings)
=============================================================================
