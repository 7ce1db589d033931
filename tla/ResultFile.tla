----------------------------- MODULE ResultFile ------------------------------
(***************************************************************************)
(* The result file as main of master_npb.c and of master_bench.c write it: *)
(* a temporary file in the same directory is filled, flushed, synced and   *)
(* closed, then renamed over the old results.                              *)
(*                                                                         *)
(* A file is what a reader sees of it (rows, and whether the last row is   *)
(* there); "synced" says that its bytes survive a power loss.              *)
(***************************************************************************)
EXTENDS Naturals, Sequences

VARIABLES
    tmp,      \* csv_tmp
    csv,      \* csv_file
    oldcsv    \* what the directory on the disk may still call csv_file

File(there, new, whole, synced, rows) ==
    [there |-> there, new |-> new, whole |-> whole, synced |-> synced, rows |-> rows]

NoFile   == File(FALSE, FALSE, TRUE, TRUE, <<>>)
Previous == File(TRUE, FALSE, TRUE, TRUE, <<>>)    \* results of an earlier run

FilesInit == tmp = NoFile /\ csv = Previous /\ oldcsv = Previous

\* fopen(csv_tmp, "w").
OpenTmp == tmp' = File(TRUE, TRUE, FALSE, FALSE, <<>>) /\ UNCHANGED <<csv, oldcsv>>

\* The fprintf calls and fflush: all the rows are there, or not all of them.
WriteTmp(rows, ok) ==
    /\ tmp' = [tmp EXCEPT !.rows = IF ok THEN rows ELSE <<>>, !.whole = ok]
    /\ UNCHANGED <<csv, oldcsv>>

SyncTmp_Skipped == UNCHANGED <<tmp, csv, oldcsv>>

SyncTmp == tmp' = [tmp EXCEPT !.synced = TRUE] /\ UNCHANGED <<csv, oldcsv>>

\* rename(csv_tmp, csv_file) takes effect at once for every reader; the
\* directory itself is not synced.
RenameTmp == csv' = tmp /\ tmp' = NoFile /\ UNCHANGED oldcsv

RemoveTmp == tmp' = NoFile /\ UNCHANGED <<csv, oldcsv>>

\* External: the machine loses power.  A file that was not synced may be
\* torn, and a rename may be undone.
AfterPowerLoss(f) == IF f.synced THEN {f} ELSE {f, [f EXCEPT !.whole = FALSE]}

LosePower ==
    /\ csv' \in AfterPowerLoss(csv) \cup AfterPowerLoss(oldcsv)
    /\ tmp' \in AfterPowerLoss(tmp)
    /\ oldcsv' = csv'
=============================================================================
