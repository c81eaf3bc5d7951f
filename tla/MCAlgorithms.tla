---------------------------- MODULE MCAlgorithms -----------------------------
(***************************************************************************)
(* The program's pure functions, asked one question from each state and    *)
(* checked against what they are to compute: the device paths, the         *)
(* attribute strings of LVM, and the free ranges of a disk.                *)
(***************************************************************************)
EXTENDS DevicePaths, LvmAttrs, Sectors, FiniteSets

CONSTANTS Bases, MaxNumber, Positions

VARIABLE asked   \* the kind of the question and its argument

Init == asked = <<"nothing">>

AskPath ==
  /\ asked = <<"nothing">>
  /\ \E base \in Bases, n \in 1..MaxNumber : asked' = <<"path", base, n>>

AskPv ==
  /\ asked = <<"nothing">>
  /\ \E a \in {"a", "d", "u", "-", "?"}, x \in {"x", "-"}, m \in {"m", "-"} :
       asked' = <<"pv", <<a, x, m>>>>

AskVg ==
  /\ asked = <<"nothing">>
  /\ \E w \in {"w", "r", "-"}, z \in {"z", "-"}, x \in {"x", "-"},
        p \in {"p", "-"}, a \in {"a", "c", "l", "n", "i"}, s \in {"c", "s", "-"} :
       asked' = <<"vg", <<w, z, x, p, a, s>>>>

(* Strings that differ from "----------" in up to three places.            *)
AskLv ==
  /\ asked = <<"nothing">>
  /\ \E i \in 1..10, j \in {Fixed, Blocks}, k \in {Skip, 1} :
     \E c \in ToSet(LvChars[i]) \cup {"-", "?"}, d \in ToSet(LvChars[j]) \cup {"-", "?"},
        e \in {LvChars[k][1], "-", "?"} :
       asked' = <<"lv", [[[p \in 1..10 |-> "-"] EXCEPT ![k] = e] EXCEPT ![j] = d, ![i] = c]>>

(* Disks of up to three partitions that do not overlap, in any order.      *)
AskDisk ==
  /\ asked = <<"nothing">>
  /\ \E size \in Positions, n \in 0..3 :
     \E parts \in [1..n -> {r \in Positions \X Positions : r[1] < r[2] /\ r[2] <= size}] :
       /\ \A i, j \in 1..n : i # j => parts[i][2] <= parts[j][1] \/ parts[j][2] <= parts[i][1]
       /\ asked' = <<"disk", [parts |-> parts, size |-> size]>>

Next == AskPath \/ AskPv \/ AskVg \/ AskLv \/ AskDisk
Spec == Init /\ [][Next]_asked

-----------------------------------------------------------------------------
(* SeparateDiskPart (util.go:60-69) recovers the disk and the number that  *)
(* FillPath (partition.go:216) has put together, for disks named by        *)
(* letters alone, or by letters and two numbers with a letter between, as  *)
(* nvme0n1, and for every number.                                          *)
CommonPathsRecovered ==
  asked[1] = "path" =>
    LET base == asked[2] IN
      \/ Len(base) = 1
      \/ Len(base) = 4 /\ IsNum(base[2]) /\ IsLetter(base[3]) /\ IsNum(base[4])
      => RoundTrips(base, asked[3])

(* The predicates of a Pv and a Vg (pv.go:56-74, vg.go:110-152) say of it  *)
(* what pvs(8) and vgs(8) mean by the character at the position of each,   *)
(* and no string is refused but one with a character those do not list.    *)
GroupAttrsRead ==
  /\ asked[1] = "pv" =>
       LET s == asked[2]
           attr == ParsePvAttrs(s)
       IN IF s[1] = "?" THEN attr = Invalid
          ELSE /\ PvIs(attr, "allocatable") <=> s[1] = "a"
               /\ PvIs(attr, "duplicate") <=> s[1] = "d"
               /\ PvIs(attr, "used") <=> s[1] = "u"
               /\ PvIs(attr, "exported") <=> s[2] = "x"
               /\ PvIs(attr, "missing") <=> s[3] = "m"
  /\ asked[1] = "vg" =>
       LET s == asked[2]
           attr == ParseVgAttrs(s)
       IN IF s[1] = "-" \/ s[5] = "i" THEN attr = Invalid
          ELSE /\ VgIs(attr, "writable") <=> s[1] = "w"
               /\ VgIs(attr, "readonly") <=> s[1] = "r"
               /\ VgIs(attr, "resizable") <=> s[2] = "z"
               /\ VgIs(attr, "exported") <=> s[3] = "x"
               /\ VgIs(attr, "partial") <=> s[4] = "p"
               /\ VgIs(attr, "contiguous") <=> s[5] = "c"
               /\ VgIs(attr, "cling") <=> s[5] = "l"
               /\ VgIs(attr, "normal") <=> s[5] = "n"
               /\ VgIs(attr, "anywhere") <=> s[5] = "a"
               /\ VgIs(attr, "clustered") <=> s[6] = "c"
               /\ VgIs(attr, "shared") <=> s[6] = "s"

(* A field of an Lv tells which character the attribute string has there.  *)
Recovers(s, i) ==
  LET value(c) == IF c = "-" THEN 0 ELSE BitOf(LvChars[i], c)
  IN  {c \in ToSet(LvChars[i]) \cup {"-"} : value(c) = ParseLvAttrs(s)[i]} = {s[i]}

(* Seven of the fields are recovered from every string, and all of them    *)
(* from one whose blocks are not zeroed and whose activation is not        *)
(* skipped; a character that lvs(8) does not list at its place is refused  *)
(* (lv.go:224-273).                                                        *)
LvAttrsRead ==
  asked[1] = "lv" =>
    LET s == asked[2]
        shared == {Fixed, Blocks, Skip}
    IN IF "?" \in ToSet(s) THEN ParseLvAttrs(s) = <<>>
       ELSE /\ \A i \in 1..10 \ shared : Recovers(s, i)
            /\ s[Blocks] = "-" /\ s[Skip] = "-" => \A i \in shared : Recovers(s, i)

(* AvailableSectors (disk.go:38-75) answers for a disk with a partition    *)
(* that has no size, and but for the first start no position, below        *)
(* 100 MiB; when the numbers follow the positions, any answer is the space *)
(* behind the start of the first partition that no partition has.          *)
FreeSpaceFound ==
  asked[1] = "disk" /\ asked[2].parts # <<>> =>
    LET disk == asked[2]
        answer == AvailableSectors(disk)
    IN /\ /\ disk.size >= 100
          /\ \A i \in DOMAIN disk.parts :
               disk.parts[i][2] >= 100 /\ (i > 1 => disk.parts[i][1] >= 100)
          => answer.result = "ok"
       /\ answer.result = "ok" /\ InOrder(disk) =>
            \A x \in Positions :
              x >= disk.parts[1][1] /\ x < disk.size
                => (Within(answer.sectors, x) <=> Free(disk, x))

DisksOfAllKinds ==
  {<<Word("sda")>>, <<Word("vdb")>>, <<Word("mmcblk"), Num(0)>>, <<Word("loop"), Num(1)>>,
   <<Word("md"), Num(127)>>, <<Word("nvme"), Num(0), Letter("n"), Num(1)>>,
   <<Word("nvme"), Num(1), Letter("n"), Num(2)>>}
==============================================================================
