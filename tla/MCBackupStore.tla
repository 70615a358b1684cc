---------------------------- MODULE MCBackupStore ----------------------------
(* Small directories for BackupStore. *)
EXTENDS BackupStore, TLC

\* Two dumps of one Sunday, one of the next, none of the last day.
TwoSundays == <<1, 1, 2, 0, 0>>
Weekdays == [f \in 1 .. MaxOps |-> 0]

\* Restores are interchangeable, and no property tells them apart.
Interchangeable == Permutations(Restores)
=============================================================================
