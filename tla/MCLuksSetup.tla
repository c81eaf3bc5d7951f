----------------------------- MODULE MCLuksSetup -----------------------------
(* Two devices and the UUIDs of two leftovers and two formats.             *)
EXTENDS LuksSetup, TLC

CONSTANTS d1, d2, u1, u2, u3, u4

TwoDevs   == {d1, d2}
FourUUIDs == {u1, u2, u3, u4}
FsClasses == {"ext4", "linux-swap"}

Symmetry == Permutations(TwoDevs) \cup Permutations(FourUUIDs)
==============================================================================
