--------------------------- MODULE MCBackupJobs ---------------------------
(* Small instances of BackupJobs for TLC.                                     *)
EXTENDS BackupJobs

(* One backup of each kind, the full one first: their archives have different *)
(* names, which CompletedHasArchive asks for. (BackupJobsCrash also has two   *)
(* backups of one kind, in one second and in two.) Nobody asks for a third.   *)
KindOf(b) == IF b = 1 THEN "full" ELSE "category"
OneOfEach ==
  /\ \A b \in 1..created : filename[b][1] = KindOf(b)
  /\ created + Cardinality({r \in Clients : pc[r] = "insert"}) <= MaxBackups
OneOfEachSpec ==
  /\ Init /\ [][NextUninterrupted /\ OneOfEach']_vars
  /\ \A b \in Backups : WF_vars(JobStep(b))
=============================================================================
