------------------------------- MODULE Install -------------------------------
(***************************************************************************)
(* The installation proper: the system is copied into the mounted root     *)
(* from a squashfs file or from an OCI image, /etc/crypttab and /etc/fstab *)
(* are generated from the recipe's mountpoints, and update-initramfs runs  *)
(* in the root with the host's /dev, /dev/pts, /proc and /sys bound into   *)
(* it.                                                                     *)
(*                                                                         *)
(* Any command may fail, which ends the run and leaves every file and      *)
(* every mount as they are.  The recipe can then be run again over the     *)
(* same root, or after a reboot over one that its setup has formatted.     *)
(***************************************************************************)
EXTENDS Naturals, SequencesExt

CONSTANTS
  Parts,      \* partitions, each standing for its UUID too
  Mounts,     \* recipe.Mountpoints: a sequence of [target, partition]
  Images,     \* the images that the OCI source's tag names over time
  MaxRuns     \* bound on the runs of the recipe

ASSUME MountsAssumption ==
  Mounts \in Seq([target : STRING, partition : Parts]) /\ Mounts # <<>>
ASSUME MaxRunsAssumption == MaxRuns \in Nat \ {0}
ASSUME ImagesAssumption ==
  Images \cap {"none", "empty", "mixed", "squashfs"} = {}

VARIABLES
  method,     \* recipe.Installation.Method
  luks,       \* the partitions that hold a LUKS container
  remote,     \* the image that the tag names at this moment
  root,       \* what is in the root file system, see Root
  binds,      \* the host's directories bound into the root, oldest first
  tmpBound,   \* how often the root's /var/tmp is bound over the host's
  ramUsed,    \* was something pulled into the host's own /var/tmp?
  pc,         \* the next step of the run
  at,         \* the loop counter of that step
  manifest,   \* manifest and manifestDigest of OCISetup
  manifestDigest,
  found,      \* binds and tmpBound when the run began
  runs        \* the runs begun

prog == <<pc, at, manifest, manifestDigest, found, runs>>
vars == <<method, luks, remote, root, binds, tmpBound, ramUsed, prog>>

MountOrder   == <<"dev", "pts", "proc", "sys">>
\* A slip: the directories are unmounted in the order of mounting.
UnmountInOrder == <<"dev", "pts", "proc", "sys">>
\* A slip: /sys is forgotten.
UnmountAllButSys == <<"pts", "dev", "proc">>
UnmountOrder == <<"pts", "dev", "proc", "sys">>
Tries        == 4               \* for range 4 in OCISetup

Sources == {"mapper", "uuid"} \X Parts
Entries == [source : Sources, target : STRING, fstype : {"inner", "crypto_LUKS"}]
Initrds == [content : Images \cup {"squashfs"},
            fstab : SUBSET Entries, crypttab : SUBSET Parts]
NoInitrd == [content |-> "none", fstab |-> {}, crypttab |-> {}]

(* The root's content, its two tables (crypttab by the partitions it       *)
(* unlocks), its initramfs, its .oci_digest, and its /var/tmp: absent,     *)
(* empty, or with the files of a pull in it.                               *)
EmptyRoot == [content |-> "empty", fstab |-> {}, crypttab |-> {},
              initrd |-> NoInitrd, digest |-> "none", tmp |-> "absent"]

Init ==
  /\ method \in {"unsquashfs", "oci"}
  /\ luks \in SUBSET Parts
  /\ remote \in Images
  /\ root = EmptyRoot
  /\ binds = <<>> /\ tmpBound = 0 /\ ramUsed = FALSE
  /\ pc = "idle" /\ at = 1
  /\ manifest = "none" /\ manifestDigest = "none"
  /\ found = [binds |-> <<>>, tmpBound |-> 0]
  /\ runs = 0

Step(from, to) == pc = from /\ pc' = to
Settled == at' = 1 /\ UNCHANGED <<method, luks, found, runs>>
RootOnly == Settled /\ UNCHANGED <<remote, binds, tmpBound, ramUsed, manifest, manifestDigest>>

Begin ==
  /\ pc = "idle" /\ runs < MaxRuns
  /\ pc' = IF method = "oci" THEN "mkdir" ELSE "unsquashfs"
  /\ at' = 1 /\ manifest' = "none" /\ manifestDigest' = "none"
  /\ found' = [binds |-> binds, tmpBound |-> tmpBound]
  /\ runs' = runs + 1
  /\ UNCHANGED <<method, luks, remote, root, binds, tmpBound, ramUsed>>

-----------------------------------------------------------------------------
(* The copy.                                                               *)

(* Copying replaces the tables that the source ships, which have no        *)
(* entries, and leaves another that a run before has generated.  An        *)
(* initramfs in the source replaces that of an earlier run; the digest is  *)
(* in no source.  Every source has a /var/tmp.                             *)
Copied(content, ships) ==
  [root EXCEPT !.content = content,
               !.fstab = IF "fstab" \in ships THEN {} ELSE @,
               !.crypttab = IF "crypttab" \in ships THEN {} ELSE @,
               !.initrd = NoInitrd,
               !.tmp = IF @ = "absent" THEN "empty" ELSE @]

Unsquashfs ==
  /\ Step("unsquashfs", "crypttab")
  /\ \E ships \in SUBSET {"fstab", "crypttab"} : root' = Copied("squashfs", ships)
  /\ RootOnly

\* A slip: a directory that exists is taken as it is, as os.MkdirAll would.
MkdirAll ==
  /\ Step("mkdir", "bindtmp")
  /\ root' = [root EXCEPT !.tmp = IF @ = "absent" THEN "empty" ELSE @]
  /\ RootOnly

(* os.Mkdir of the root's /var/tmp fails when there is one.                *)
Mkdir ==
  /\ Step("mkdir", IF root.tmp = "absent" THEN "bindtmp" ELSE "failed")
  /\ root' = [root EXCEPT !.tmp = IF @ = "absent" THEN "empty" ELSE @]
  /\ RootOnly

\* A slip: a bind that fails is only logged.
BindTmpOrNot ==
  /\ Step("bindtmp", "pull")
  /\ tmpBound' \in {tmpBound, tmpBound + 1}
  /\ Settled /\ UNCHANGED <<remote, root, binds, ramUsed, manifest, manifestDigest>>

BindTmp ==
  /\ Step("bindtmp", "pull")
  /\ tmpBound' = tmpBound + 1
  /\ Settled /\ UNCHANGED <<remote, root, binds, ramUsed, manifest, manifestDigest>>

(* A pull writes its temporary files to /var/tmp, whichever that is.       *)
PullWrites ==
  /\ root' = [root EXCEPT !.tmp = IF tmpBound > 0 THEN "files" ELSE @]
  /\ ramUsed' = (ramUsed \/ tmpBound = 0)

Pulled ==
  /\ Step("pull", "rsync")
  /\ PullWrites
  /\ manifest' = remote
  /\ manifestDigest' = remote
  /\ Settled /\ UNCHANGED <<remote, binds, tmpBound>>

\* A slip: a try too many.
PullBrokenOnceMore ==
  /\ pc = "pull"
  /\ PullWrites
  /\ manifest' = "none"
  /\ manifestDigest' \in {"none", remote}
  /\ at' = at + 1
  /\ pc' = IF at <= Tries THEN "pull" ELSE "failed"
  /\ UNCHANGED <<method, luks, remote, binds, tmpBound, found, runs>>

(* A pull that breaks off, perhaps with the digest already resolved, is    *)
(* tried again.                                                            *)
PullBroken ==
  /\ pc = "pull"
  /\ PullWrites
  /\ manifest' = "none"
  /\ manifestDigest' \in {"none", remote}
  /\ at' = at + 1
  /\ pc' = IF at < Tries THEN "pull" ELSE "failed"
  /\ UNCHANGED <<method, luks, remote, binds, tmpBound, found, runs>>

(* The image with the manifest's id is found, mounted and copied.          *)
Rsync ==
  /\ Step("rsync", "umounttmp")
  /\ \E ships \in SUBSET {"fstab", "crypttab"} : root' = Copied(manifest, ships)
  /\ RootOnly

(* Either copy can stop half-way.                                          *)
CopyBroken ==
  /\ pc \in {"unsquashfs", "rsync"}
  /\ pc' = "failed"
  /\ \E ships \in SUBSET {"fstab", "crypttab"} : root' = Copied("mixed", ships)
  /\ RootOnly

UmountTmp ==
  /\ Step("umounttmp", "cleantmp")
  /\ tmpBound > 0
  /\ tmpBound' = tmpBound - 1
  /\ Settled /\ UNCHANGED <<remote, root, binds, ramUsed, manifest, manifestDigest>>

CleanTmp ==
  /\ Step("cleantmp", "digest")
  /\ root' = [root EXCEPT !.tmp = "empty"]
  /\ RootOnly

WriteDigest ==
  /\ Step("digest", "crypttab")
  /\ root' = [root EXCEPT !.digest = manifestDigest]
  /\ RootOnly

-----------------------------------------------------------------------------
(* The two tables.                                                         *)

IsLuks(p) == p \in luks

\* A slip: the container's own UUID and type, as for any partition.
PlainEntry(mnt) ==
  [source |-> <<"uuid", mnt.partition>>, target |-> mnt.target,
   fstype |-> IF IsLuks(mnt.partition) THEN "crypto_LUKS" ELSE "inner"]

FstabEntry(mnt) ==
  [source |-> <<IF IsLuks(mnt.partition) THEN "mapper" ELSE "uuid", mnt.partition>>,
   target |-> mnt.target,
   fstype |-> "inner"]

CrypttabEntries ==
  {mnt.partition : mnt \in {m \in ToSet(Mounts) : IsLuks(m.partition)}}

(* GenCrypttab is called only when there are entries.                      *)
Crypttab ==
  /\ Step("crypttab", "fstab")
  /\ root' = [root EXCEPT !.crypttab =
                IF CrypttabEntries = {} THEN @ ELSE CrypttabEntries]
  /\ RootOnly

(* A table that cannot be written to its end has some first entries.       *)
Upto(n) == {FstabEntry(Mounts[i]) : i \in 1..n}

Fstab ==
  /\ Step("fstab", "pre")
  /\ root' = [root EXCEPT !.fstab = Upto(Len(Mounts))]
  /\ RootOnly

TableBroken ==
  /\ pc \in {"crypttab", "fstab"}
  /\ pc' = "failed"
  /\ root' \in
       IF pc = "fstab"
       THEN {[root EXCEPT !.fstab = Upto(n)] : n \in 0..(Len(Mounts) - 1)}
       ELSE {[root EXCEPT !.crypttab = some] :
               some \in SUBSET CrypttabEntries \ {CrypttabEntries}}
  /\ RootOnly

-----------------------------------------------------------------------------
(* The initramfs.                                                          *)

Scripts(from, to) ==
  /\ Step(from, to)
  /\ RootOnly /\ UNCHANGED root

PreScripts == Scripts("pre", "bind")

Bind ==
  /\ pc = "bind"
  /\ binds' = Append(binds, MountOrder[at])
  /\ IF at < Len(MountOrder)
     THEN pc' = "bind" /\ at' = at + 1
     ELSE pc' = "initramfs" /\ at' = 1
  /\ UNCHANGED <<method, luks, remote, root, tmpBound, ramUsed, manifest,
                 manifestDigest, found, runs>>

MakeInitramfs ==
  /\ Step("initramfs", "unbind")
  /\ root' = [root EXCEPT !.initrd = [content |-> root.content,
                                      fstab |-> root.fstab,
                                      crypttab |-> root.crypttab]]
  /\ RootOnly

(* The bind that a path shows is the last one on it; one on /dev/pts is    *)
(* below that on /dev, which hides the ones before it and is busy while it *)
(* has one.                                                                *)
LastOf(dir) == {i \in DOMAIN binds : binds[i] = dir
                  /\ \A j \in DOMAIN binds : j > i => binds[j] # dir}
Umountable(dir) ==
  CASE dir = "pts" -> {i \in LastOf("pts") : \A j \in LastOf("dev") : i > j}
    [] dir = "dev" -> {i \in LastOf("dev") : \A j \in LastOf("pts") : j < i}
    [] OTHER       -> LastOf(dir)

Unbind ==
  /\ pc = "unbind"
  /\ \E i \in Umountable(UnmountOrder[at]) : binds' = RemoveAt(binds, i)
  /\ IF at < Len(UnmountOrder)
     THEN pc' = "unbind" /\ at' = at + 1
     ELSE pc' = "post" /\ at' = 1
  /\ UNCHANGED <<method, luks, remote, root, tmpBound, ramUsed, manifest,
                 manifestDigest, found, runs>>

PostScripts == Scripts("post", "done")

-----------------------------------------------------------------------------
(* Any command may fail and end the run.                                   *)
Fail ==
  /\ pc \notin {"idle", "done", "failed"}
  /\ pc' = "failed"
  /\ RootOnly /\ UNCHANGED root

(* The recipe is run again over what is there, or one whose setup encrypts *)
(* other partitions than the one before.                                   *)
Rerun ==
  /\ pc \in {"done", "failed"}
  /\ pc' = "idle" /\ at' = 1
  /\ luks' \in SUBSET Parts
  /\ UNCHANGED <<method, remote, root, binds, tmpBound, ramUsed, manifest,
                 manifestDigest, found, runs>>

(* The machine is rebooted and the recipe's setup formats the root anew.   *)
Reboot ==
  /\ pc \in {"done", "failed"}
  /\ pc' = "idle" /\ at' = 1
  /\ luks' \in SUBSET Parts
  /\ root' = EmptyRoot /\ binds' = <<>> /\ tmpBound' = 0
  /\ UNCHANGED <<method, remote, ramUsed, manifest, manifestDigest, found, runs>>

(* The image's publisher moves the tag.                                    *)
MoveTag ==
  /\ pc = "pull"
  /\ remote' \in Images \ {remote}
  /\ UNCHANGED <<method, luks, root, binds, tmpBound, ramUsed, prog>>

Copy == \/ Unsquashfs \/ Mkdir \/ BindTmp \/ Pulled \/ PullBroken \/ Rsync
        \/ CopyBroken \/ UmountTmp \/ CleanTmp \/ WriteDigest
Tables == Crypttab \/ Fstab \/ TableBroken
Initramfs == PreScripts \/ Bind \/ MakeInitramfs \/ Unbind \/ PostScripts
Next == \/ Begin \/ Copy \/ Tables \/ Initramfs
        \/ Fail \/ Rerun \/ Reboot \/ MoveTag

Spec == Init /\ [][Next]_vars

-----------------------------------------------------------------------------
(* Types.                                                                  *)
Binding == [binds : Seq(ToSet(MountOrder)), tmpBound : 0..MaxRuns]
TypeOK ==
  /\ method \in {"unsquashfs", "oci"} /\ luks \subseteq Parts /\ remote \in Images
  /\ root \in [content : Images \cup {"empty", "mixed", "squashfs"},
               fstab : SUBSET Entries, crypttab : SUBSET Parts,
               initrd : Initrds \cup {NoInitrd},
               digest : Images \cup {"none"}, tmp : {"absent", "empty", "files"}]
  /\ [binds |-> binds, tmpBound |-> tmpBound] \in Binding /\ found \in Binding
  /\ ramUsed \in BOOLEAN /\ runs \in 0..MaxRuns
  /\ pc \in {"idle", "unsquashfs", "mkdir", "bindtmp", "pull", "rsync", "umounttmp",
             "cleantmp", "digest", "crypttab", "fstab", "pre", "bind", "initramfs",
             "unbind", "post", "done", "failed"}
  /\ at \in 1..Tries + 1
  /\ {manifest, manifestDigest} \subseteq Images \cup {"none"}

(* What Install promises of the system it reports as installed: every      *)
(* mountpoint has an fstab entry that names something mountable, and       *)
(* whatever an entry finds under /dev/mapper both crypttab and the one in  *)
(* the initramfs unlock, on a first run and on one over what a failed run  *)
(* left; the initramfs was made from the tree and the tables that are      *)
(* there at the end.                                                       *)
Bootable == pc = "done" =>
  /\ \A mnt \in ToSet(Mounts) : \E e \in root.fstab :
       /\ e.target = mnt.target
       /\ e.source[2] = mnt.partition
       /\ (e.source[1] = "uuid") <=> ~IsLuks(mnt.partition)
       /\ e.fstype = "inner"
  /\ \A e \in root.fstab : e.source[1] = "mapper" => e.source[2] \in root.crypttab
  /\ root.initrd = [content |-> root.content, fstab |-> root.fstab,
                    crypttab |-> root.crypttab]

(* The .oci_digest that the update manager compares with the registry is   *)
(* that of the image in the root, however often the pull was tried, the    *)
(* tag moved or the recipe ran (OCISetup writes it last; that a second run *)
(* over the same root ends at os.Mkdir is part of why it holds).           *)
DigestNamesRoot == root.digest # "none" => root.digest = root.content

(* A run that succeeds leaves as many of the host's directories bound into *)
(* the root, and the host's /var/tmp as covered, as it found: UpdateInitramfs *)
(* and OCISetup undo their own mounts, the ones a failed run left are      *)
(* stacked below.                                                          *)
BindsRestored == pc = "done" => [binds |-> binds, tmpBound |-> tmpBound] = found

(* No unmount of UpdateInitramfs is refused because of a mount that albius *)
(* itself made, in this run or in one that failed (unmountOrder takes      *)
(* /dev/pts before /dev).                                                  *)
NeverBusy == pc = "unbind" => Umountable(UnmountOrder[at]) # {}

(* Podman's temporary files never go to the installation medium's /var/tmp, *)
(* which is in RAM, and are not left in an installed system                *)
(* (filesystem.go:140, OCISetup's bind and its cleaning up).               *)
TempFilesOnDisk == ~ramUsed /\ (pc = "done" => root.tmp = "empty")
=============================================================================
