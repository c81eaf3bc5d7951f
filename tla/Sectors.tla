------------------------------- MODULE Sectors -------------------------------
(***************************************************************************)
(* AvailableSectors: the free ranges of a disk from what parted prints of  *)
(* it in MiB.  A partition is <<start, end>>; the partitions come in the   *)
(* order of their numbers, which need not be that of their positions.      *)
(***************************************************************************)
EXTENDS Integers, Sequences

(* parted prints positions below 100 MiB with decimals.                    *)
Decimals(position) == position < 100

(* strconv.Atoi, after the unit has been cut off, fails on decimals.       *)
Legible(disk) ==
  /\ \A i \in DOMAIN disk.parts : ~Decimals(disk.parts[i][2])
  /\ \A i \in 2..Len(disk.parts) : ~Decimals(disk.parts[i][1])
  /\ ~Decimals(disk.size)

(* From the end of each partition to the start of the one with the next    *)
(* number, unless these are the same.                                      *)
Between(disk) ==
  LET gaps[n \in DOMAIN disk.parts] ==
        IF n = 1 THEN <<>>
        ELSE IF disk.parts[n - 1][2] = disk.parts[n][1] THEN gaps[n - 1]
        ELSE Append(gaps[n - 1], <<disk.parts[n - 1][2], disk.parts[n][1]>>)
  IN  gaps[Len(disk.parts)]

\* A slip: the space after the last partition is that after the first.
AfterLastFirst(disk) ==
  LET end == disk.parts[1][2]
  IN IF end < disk.size THEN <<<<end, disk.size>>>> ELSE <<>>

AfterLast(disk) ==
  LET end == disk.parts[Len(disk.parts)][2]
  IN IF end < disk.size THEN <<<<end, disk.size>>>> ELSE <<>>

(* With no partition the code indexes the empty list.                      *)
AvailableSectors(disk) ==
  IF disk.parts = <<>> THEN [result |-> "panic", sectors |-> <<>>]
  ELSE IF Legible(disk)
  THEN [result |-> "ok", sectors |-> Between(disk) \o AfterLast(disk)]
  ELSE [result |-> "error", sectors |-> <<>>]

-----------------------------------------------------------------------------
(* What the free ranges are to be: the positions that no partition has.    *)
Within(sectors, x) == \E i \in DOMAIN sectors : sectors[i][1] <= x /\ x < sectors[i][2]
Free(disk, x) == ~Within(disk.parts, x)

(* The numbers follow the positions, and no partition overlaps another.    *)
InOrder(disk) ==
  \A i, j \in DOMAIN disk.parts : i < j => disk.parts[i][2] <= disk.parts[j][1]
=============================================================================
