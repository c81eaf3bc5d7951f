----------------------------- MODULE DevicePaths -----------------------------
(***************************************************************************)
(* How Albius names a partition of a disk, and how it recovers the disk    *)
(* and the partition number from such a name.                              *)
(*                                                                         *)
(* A path under /dev/ is the sequence of its maximal runs of letters and   *)
(* of digits, which is all that the two regular expressions look at:       *)
(* /dev/sda1 is <<Word("sda"), Num(1)>> and /dev/nvme0n1p3 is              *)
(* <<Word("nvme"), Num(0), Letter("n"), Num(1), Letter("p"), Num(3)>>.     *)
(***************************************************************************)
EXTENDS Naturals, Sequences

Word(w)   == <<"word", w>>      \* a run of at least two letters
Letter(c) == <<"letter", c>>    \* a run of one lower-case letter
Num(n)    == <<"num", n>>       \* a run of digits

IsNum(run)    == run[1] = "num"
IsLetter(run) == run[1] = "letter"

NoNumber == 0                   \* the empty string where a number is expected

(* The path of partition n of the disk at base: a `p' separates the two    *)
(* numbers when the disk's own name ends in a digit.                       *)
FillPath(base, n) ==
  IF IsNum(base[Len(base)])
  THEN base \o <<Letter("p"), Num(n)>>
  ELSE base \o <<Num(n)>>

\* A slip: the expression stops at the leading letters.
DiskExprLettersOnly(path) == SubSeq(path, 1, 1)

(* diskExpr: the leading letters and, when they follow at once, digits, a  *)
(* single letter and digits, as in nvme0n1.                                *)
DiskExpr(path) ==
  IF /\ Len(path) >= 4
     /\ IsNum(path[2])
     /\ IsLetter(path[3])
     /\ IsNum(path[4])
  THEN SubSeq(path, 1, 4)
  ELSE SubSeq(path, 1, 1)

(* partExpr: the digits at the end of the path.                            *)
PartExpr(path) ==
  IF IsNum(path[Len(path)]) THEN path[Len(path)][2] ELSE NoNumber

SeparateDiskPart(path) == <<DiskExpr(path), PartExpr(path)>>

(* parted is told the right disk and number for partition n of base.       *)
RoundTrips(base, n) == SeparateDiskPart(FillPath(base, n)) = <<base, n>>
==============================================================================
