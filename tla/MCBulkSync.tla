----------------------------- MODULE MCBulkSync ------------------------------
(* BulkSync for TLC: of these sizes two workers divide 6 and 4, three 6 and 3 *)
EXTENDS BulkSync

MCSizes == <<6, 4, 3>>
=============================================================================
