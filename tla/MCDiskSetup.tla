----------------------------- MODULE MCDiskSetup -----------------------------
(* Small disks for DiskSetup: file systems that stand for the ways MakeFs  *)
(* and SetLabel treat one, two names that recipes give.                    *)
EXTENDS DiskSetup

Sda     == <<Word("sda")>>
Nvme0n1 == <<Word("nvme"), Num(0), Letter("n"), Num(1)>>

(* Disks for which DiskPathAssumption may be made.                         *)
ScsiAndNvme ==
  {<<Word(w)>> : w \in {"sda", "sdb", "sdaa", "vda", "xvda", "hda"}}
    \cup {<<Word("nvme"), Num(i), Letter("n"), Num(j)>> : i \in {0, 1, 10}, j \in 1..2}
ASSUME ScsiAndNvmeRoundTrip == \A d \in ScsiAndNvme, n \in 1..128 : RoundTrips(d, n)

(* labelled when there is a label, labelled always, never, not made        *)
FsClasses == {"ext4", "xfs", "linux-swap", "udf"}
OneFound  == {"ext4"}
==============================================================================
