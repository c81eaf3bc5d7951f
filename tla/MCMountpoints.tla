---------------------------- MODULE MCMountpoints ----------------------------
(* Targets two deep, with a sibling, for recipes of up to four of them.    *)
EXTENDS Mountpoints

SomeTargets == {<<>>, <<"boot">>, <<"boot", "efi">>, <<"var">>}
==============================================================================
