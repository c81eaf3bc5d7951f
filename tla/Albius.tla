-------------------------------- MODULE Albius --------------------------------
(***************************************************************************)
(* The installer: setup, mounting, installation and post-installation, one *)
(* after the other, each ended by its first error.  Started again, it runs *)
(* the same recipe over what is there: over everything that a failed run   *)
(* has left, or after the root was unmounted, or after a reboot.           *)
(*                                                                         *)
(* The first three phases are taken as a whole here; DiskSetup, LuksSetup, *)
(* Lvm and LabelDisk, Mountpoints, and Install have their steps.           *)
(***************************************************************************)
EXTENDS PostInstall

CONSTANTS
  Recipes,      \* recipes as [formats, method, post]: does the setup format
                \* the root?
  Images,       \* the images, [system, ships]
  LiveSystem,   \* the live system after it has started
  Blank,        \* what an empty file system holds
  MaxRuns       \* bound on the runs of the installer

(* A setting that grub-mkconfig is to read is written before it.  On a     *)
(* root that the setup does not format it may otherwise find the one that  *)
(* an earlier run wrote.                                                   *)
MenuLast(post) ==
  \A m, n \in DOMAIN post :
    post[m].op = "grub-mkconfig" /\ m < n
      => post[n].op \notin {"grub-default-config", "grub-add-script", "grub-remove-script"}

(* A system as the installer finds one: the files that the steps work on,  *)
(* and every account under its name.                                       *)
Files == {"content", "users", "packages", "timezone", "localtime", "hostname",
          "hosts", "localegen", "locales", "locale", "keyboard", "console",
          "defaults", "scripts", "loader", "menu", "marks"}
Accounts(users) ==
  \A name \in DOMAIN users : "name" \in DOMAIN users[name] /\ users[name].name = name
IsSystem(s) ==
  /\ s = [file \in Files |-> s[file]]
  /\ s.content \in {"none", "mixed", "image", "ready"}
  /\ Accounts(s.users)

(* What the type assertions on the parameters of a step leave.             *)
IsList(s) == s \in Seq(ToSet(s))
AccountFields == {"name", "fullname", "groups", "password", "uid", "gid"}
IsStep(s) ==
  /\ s.op \in Operations /\ s.chroot \in BOOLEAN
  /\ s.op = "adduser" => s.account = [field \in AccountFields |-> s.account[field]]
  /\ s.op = "grub-default-config" => IsList(s.lines)
  /\ s.op \in Loops => IsList(Arguments(s))

ASSUME StepsAssumption ==
  \A r \in Recipes : IsList(r.post) /\ \A s \in ToSet(r.post) : IsStep(s)
ASSUME SystemsAssumption ==
  \A s \in {LiveSystem, Blank} \cup {i.system : i \in Images} : IsSystem(s)
ASSUME RecipesAssumption ==
  \A r \in Recipes : /\ r.method \in {"unsquashfs", "oci"} /\ r.formats \in BOOLEAN
                     /\ r.formats \/ MenuLast(r.post)

(* An image has accounts, root's for one, and may be without other files.  *)
ASSUME ImagesAssumption ==
  \A i \in Images :
    /\ "users" \in i.ships
    /\ \A file \in Files \ i.ships : i.system[file] = Blank[file]
    /\ i.system.defaults = [lines |-> i.system.defaults.lines,
                            bare |-> i.system.defaults.bare]
    /\ IsList(i.system.defaults.lines) /\ i.system.defaults.bare \in BOOLEAN

(* Neither GRUB's settings nor its scripts are in an empty file system.    *)
ASSUME BlankAssumption ==
  Blank.scripts = {} /\ Blank.defaults = [lines |-> <<>>, bare |-> FALSE]
ASSUME MaxRunsAssumption == MaxRuns \in Nat \ {0}

VARIABLE runs         \* runs begun

vars == <<recipe, image, sites, mounted, binds, swaps, nvram, pc, at, arg, config, runs>>

Ended == {"idle", "done", "failed", "refused"}
NoBinds == [dir \in ToSet(RequiredBinds) |-> 0]

Init ==
  /\ recipe \in Recipes /\ image \in Images
  /\ sites = [live |-> LiveSystem, root |-> Blank, below |-> Blank]
  /\ mounted = FALSE /\ binds = NoBinds
  /\ swaps = {} /\ nvram = {}
  /\ pc = "idle" /\ at = 0 /\ arg = 1 /\ config = <<>>
  /\ runs = 0

Begin ==
  /\ pc \in Ended /\ runs < MaxRuns
  /\ pc' = "setup" /\ at' = 0 /\ arg' = 1 /\ config' = <<>>
  /\ runs' = runs + 1
  /\ UNCHANGED <<recipe, image, sites, mounted, binds, swaps, nvram>>

Phase(from, to) ==
  /\ pc = from /\ pc' = to
  /\ at' = (IF to = "step" THEN 1 ELSE 0)
  /\ UNCHANGED <<recipe, image, arg, config, swaps, nvram, runs>>

(* RunSetup.  label unmounts the disk's partitions and gives up when one   *)
(* is in use: by the directories that are bound into it, for one.          *)
RunSetup ==
  /\ Phase("setup", IF recipe.formats /\ binds # NoBinds THEN "refused" ELSE "mount")
  /\ IF recipe.formats /\ binds = NoBinds
     THEN mounted' = FALSE /\ sites' = [sites EXCEPT !.root = Blank]
     ELSE UNCHANGED <<mounted, sites>>
  /\ UNCHANGED binds

(* SetupMountpoints: a root that is mounted is refused, see Mountpoints.   *)
SetupMountpoints ==
  /\ Phase("mount", IF mounted THEN "refused" ELSE "copy")
  /\ mounted' = TRUE
  /\ UNCHANGED <<sites, binds>>

(* The copy of the image's files, or of some of them, over what is there.  *)
Copied(some, content) ==
  LET old == sites[Target]
      new(file) == IF file = "scripts" THEN old.scripts \cup image.system.scripts
                   ELSE image.system[file]
      all == [file \in DOMAIN old |-> IF file \in some THEN new(file) ELSE old[file]]
  IN  [sites EXCEPT ![Target] = [all EXCEPT !.content = content]]

(* OCISetup does not work on a root that has a /var/tmp.                   *)
CopyRefused ==
  /\ recipe.method = "oci" /\ sites[Target].content # "none"
  /\ Phase("copy", "refused")
  /\ UNCHANGED <<sites, mounted, binds>>

Copy ==
  /\ recipe.method = "oci" => sites[Target].content = "none"
  /\ \/ Phase("copy", "tables") /\ sites' = Copied(image.ships, "image")
     \/ Phase("copy", "failed") /\ \E some \in SUBSET image.ships :
                                     sites' = Copied(some, "mixed")
  /\ UNCHANGED <<mounted, binds>>

(* The tables and the initramfs, for which four of the directories are     *)
(* bound into the root and then unmounted, in another order.               *)
Initramfs ==
  /\ Phase("tables", "step")
  /\ sites' = [sites EXCEPT ![Target].content = "ready"]
  /\ UNCHANGED <<mounted, binds>>

(* What UpdateInitramfs leaves bound when it gives up: the directories     *)
(* that it had bound by then, or had not yet unmounted.                    *)
UnmountOrder == <<"pts", "dev", "proc", "sys">>
LeftBound ==
  {ToSet(SubSeq(RequiredBinds, 1, n)) : n \in 1..4}
    \cup {ToSet(SubSeq(UnmountOrder, n, 4)) : n \in 1..4}

InitramfsBroken ==
  /\ Phase("tables", "failed")
  /\ \E left \in LeftBound :
       binds' = [dir \in DOMAIN binds |-> IF dir \in left THEN 1 ELSE binds[dir]]
  /\ UNCHANGED <<sites, mounted>>

PostInstallation == RunPostInstall /\ UNCHANGED runs

NoProcess == at' = 0 /\ arg' = 1 /\ config' = <<>>

Finish ==
  /\ pc = "step" /\ at \notin DOMAIN recipe.post
  /\ pc' = "done" /\ NoProcess
  /\ UNCHANGED <<recipe, image, sites, mounted, binds, swaps, nvram, runs>>

(* Any command may fail, and the process panics.                           *)
Fail ==
  /\ pc \in {"setup", "mount", "copy", "tables"} \cup Commands
  /\ pc' = "failed" /\ NoProcess
  /\ UNCHANGED <<recipe, image, sites, mounted, binds, swaps, nvram, runs>>

(* Between two runs: umount -R of the root; a reboot of the live system.   *)
Unmount ==
  /\ pc \in Ended /\ mounted
  /\ mounted' = FALSE /\ binds' = NoBinds
  /\ pc' = "idle" /\ NoProcess
  /\ UNCHANGED <<recipe, image, sites, swaps, nvram, runs>>

Reboot ==
  /\ pc \in Ended /\ runs > 0
  /\ mounted' = FALSE /\ binds' = NoBinds /\ swaps' = {}
  /\ sites' = [sites EXCEPT !.live = LiveSystem, !.below = Blank]
  /\ pc' = "idle" /\ NoProcess
  /\ UNCHANGED <<recipe, image, nvram, runs>>

Next ==
  \/ Begin \/ RunSetup \/ SetupMountpoints \/ CopyRefused \/ Copy \/ Initramfs
  \/ InitramfsBroken \/ PostInstallation \/ Finish \/ Fail \/ Unmount \/ Reboot

Spec == Init /\ [][Next]_vars

-----------------------------------------------------------------------------
(* Every site has the fields of a system, and the loops over arguments and *)
(* directories stay within their lists.                                    *)
TypeOK ==
  /\ recipe \in Recipes /\ image \in Images
  /\ DOMAIN sites = {"live", "root", "below"}
  /\ \A site \in DOMAIN sites : IsSystem(sites[site])
  /\ mounted \in BOOLEAN /\ binds \in [ToSet(RequiredBinds) -> 0..Len(recipe.post) + 1]
  /\ pc \in Ended \cup {"setup", "mount", "copy", "tables", "step"} \cup Commands
  /\ at \in 0..Len(recipe.post) + 1
  /\ (pc \in Commands => at \in DOMAIN recipe.post)
  /\ arg \in 1..(CASE pc = "bind"   -> Len(RequiredBinds)
                   [] pc \in Loops -> Len(Arguments(step))
                   [] OTHER -> 1)
  /\ (config # <<>> => pc = "write-config")
  /\ runs \in 0..MaxRuns

Promised == INSTANCE Installation
  WITH post <- recipe.post, image <- image.system,
       phase <- IF pc = "done" THEN "installed" ELSE "open",
       system <- [sites.root EXCEPT !.defaults.lines = Sourced(@)]

(* The installer implements an installation: whenever a run ends without   *)
(* an error, the root holds the image with the recipe's Chroot steps       *)
(* applied in order, whatever earlier runs over the same root have copied, *)
(* configured or broken off, and in whatever order /etc/default/grub was   *)
(* written (grub.go:79) when its lines do not use each other.              *)
Implements == Promised!Spec

(* README.md:104-109, a step runs "on the installed system (chroot) or on  *)
(* the host": while the installer mounts, copies or runs a Chroot step, no *)
(* file of the live system changes, nor of its directory below the root's  *)
(* mount (targetRoot in every path and command of core/system).            *)
InRoot == at \notin DOMAIN recipe.post \/ step.chroot
LiveUntouched ==
  [][pc \notin Ended /\ InRoot
       => sites'.live = sites.live /\ sites'.below = sites.below]_vars

(* A Chroot step is refused for what is in the root only if it would be in *)
(* an installation made in one go: the accounts, scripts and settings that *)
(* an earlier run left are copied over, and the binds that grub-install    *)
(* leaves (grub.go:133) are there when grub-mkconfig needs them.  Swap is  *)
(* the machine's; and a /etc/default/grub whose last line was cut off      *)
(* stays when neither the image nor the setup replaces it (grub.go:72).    *)
CutOff == /\ sites.root.defaults.bare
          /\ "defaults" \notin image.ships /\ ~recipe.formats
Repeatable ==
  pc = "refused" /\ at \in DOMAIN recipe.post =>
    \/ ~step.chroot \/ step.op = "swapon"
    \/ step.op = "grub-default-config" /\ CutOff
    \/ ~Promised!Feasible(at)
===============================================================================
