------------------------------ MODULE MCInstall ------------------------------
(* A root and a /boot, on partitions of which any may be encrypted, and an *)
(* image tag that can move once or more.                                   *)
EXTENDS Install

RootAndBoot == <<[target |-> "/", partition |-> "sda3"],
                 [target |-> "/boot", partition |-> "sda2"]>>
RootAndBootParts == {"sda2", "sda3"}
=============================================================================
