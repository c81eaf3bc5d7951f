----------------------------- MODULE MCLabelDisk -----------------------------
(* A disk with two partitions beside another disk with one, two groups,    *)
(* and two places one of which is below the other.                         *)
EXTENDS LabelDisk

TwoPlaces == {<<"boot">>, <<"boot", "efi">>}
==============================================================================
