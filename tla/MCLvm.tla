------------------------------- MODULE MCLvm ---------------------------------
(* Two partitions, one of them made just before, and a mistyped path.      *)
EXTENDS Lvm
==============================================================================
