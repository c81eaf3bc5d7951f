# A verification project for Albius

Albius installs a Linux system from a recipe. `main` (albius.go) reads the
recipe and runs four phases, each of which returns at the first error:

    ReadRecipe -> RunSetup -> SetupMountpoints -> Install -> RunPostInstall

Every phase runs shell commands, one after the other, and decides from their
output and from structs it decoded earlier. Nothing runs concurrently inside
Albius. What makes it hard is that the things it works on have several copies
that change at different times (the partition table, the kernel's partitions,
udev's records, the device mapper's names, the mounts, and the structs in the
program), that each command can fail and leave its first effects, and that an
installer that failed is started again over what it left.

This directory holds TLA+ models of the phases and of their composition, the
TLC runs that check them, and proofs about every component that keeps state.
All the paths below are relative to the repository's core directory or its root.

## Inventory

| Component | State | Operations | Where |
|---|---|---|---|
| Device paths | none | `FillPath`, `SeparateDiskPart` | core/disk/partition.go, core/util/util.go |
| Partitioning | partition table, kernel's partitions, contents; `Disk.Partitions`, `Partition` | mkpart, rm, resizepart, namepart, setlabel, setflag, format | core/recipe.go, core/disk |
| Encryption | LUKS headers, udev's UUIDs, /dev/mapper, `Partition.Filesystem` | luks-format, lvm-luks-format, encrypted mkpart, `LuksTryOpen` in `Mount` | core/recipe.go, core/disk/luks |
| label | table, mounts, groups and physical volumes | `LabelDisk`, `UnmountPartition` | core/disk/disk.go, core/lvm |
| Mountpoints | the mounts under /mnt/a and /mnt/b | `SetupMountpoints`, `Partition.Mount` | core/recipe.go, core/disk/partition.go |
| Installation | the root's files, bind mounts, /var/tmp | `OCISetup`, `Unsquashfs`, `GenCrypttab`, `GenFstab`, `UpdateInitramfs`, scripts | core/recipe.go, core/disk/filesystem.go |
| LVM | physical volumes, groups, volumes; `Pv`, `Vg`, `Lv` | pv*, vg*, lv*, make-thin-pool, lvm-format | core/recipe.go, core/lvm |
| Post-installation | files of the root or of the live system | adduser, timezone, shell, pkgremove, hostname, locale, swapon, keyboard | core/recipe.go, core/system/post_install.go |
| GRUB | /etc/default/grub, /etc/grub.d, bind mounts, EFI entries | grub-install, grub-default-config, grub-add-script, grub-remove-script, grub-mkconfig | core/recipe.go, core/system/grub.go |
| Free space | none | `AvailableSectors` (called by tests only) | core/disk/disk.go |
| Commands | none | `RunCommand`, `OutputCommand`, `RunInChroot` | core/util/util.go |

They interact through the machine, not through calls: partitioning changes
what the kernel and udev know, which encryption, LVM and mounting read;
encryption leaves mappings that mounting finds by name; mounting decides where
the installation's files go; the installation reads UUIDs back for the tables
that the installed system boots with; label has to undo what an earlier run
of all of these left.

What is hard to test, and what correctness means, component by component:

* **Partitioning.** The kernel follows the table late; a device node that is
  out of date writes into another partition. Correct: each operation changes
  the partition it was meant for and no other, the wait for a new partition
  ends, and ends only when the kernel has it.
* **Encryption.** The name of a mapping comes from a UUID that lsblk gives
  with a delay and that is asked for again at each step. Correct: a container
  only ever receives and shows its own device's file system, and what was
  encrypted can be mounted without a password, which mounting does not have.
* **label.** It must undo mounts, containers and groups in an order the
  machine accepts, and be repeatable after it failed half way.
* **Mountpoints.** Correct: files land where the recipe says for every order
  of the recipe and on every repeated run; nothing is hidden.
* **Installation.** Correct: the tables, the initramfs and the copied tree
  belong together however often the run was repeated; mounts are undone.
* **LVM.** A group or volume is known by a name that changes, to LVM and in
  the structs that the program holds. Correct: an operation changes the
  volumes it names and no others, the name in a struct stays that of what it
  was read from, or nobody's, until it is given to something else, and the wait
  for a device path ends.
* **Post-installation and GRUB.** Half of each operation goes through a path
  below the root and half through a command in it; some cannot be repeated;
  grub-install leaves bind mounts behind; the defaults are written in random
  order. Correct: the live system is untouched by Chroot steps, and the root
  ends up as the recipe says however often the installer was started.
* **Pure functions.** Correct: paths are taken apart for the disks they are
  meant for, attribute strings are read as LVM's manual says, and the free
  ranges are those that no partition has.

The hazards of `PROJECT.json` list what is hard to test, line by line, with the
properties about each.

## Modules

| Module | Models |
|---|---|
| `DevicePaths` | `FillPath` and `SeparateDiskPart`; a path is the sequence of its runs of letters and digits |
| `FileSystems` | which types `MakeFs` and `SetLabel` have a command for, and what parted prints |
| `DiskSetup` | the partitioning operations (extends the two above) |
| `DiskSetupProofs` | theorems about `DiskSetup`, taking paths apart and `AvailableSectors`, for TLAPS |
| `LuksSetup` | encryption and opening (extends `FileSystems`) |
| `LuksSetupProofs` | theorems about `LuksSetup`, for TLAPS |
| `LvmReports` | which rows of an LVM report survive the trimming of its output |
| `LabelDisk` | the label operation (extends `LvmReports`) |
| `LabelDiskProofs` | theorems about `LabelDisk`, for TLAPS |
| `Lvm` | the LVM operations of the setup phase and the methods of `Vg` and `Lv` |
| `LvmProofs` | theorems about `Lvm`, for TLAPS |
| `LvmAttrs` | `parsePvAttrs`, `parseVgAttrs`, `parseLvAttrs` and the predicates |
| `Sectors` | `AvailableSectors`, and what free space is |
| `MountOrder` | the abstract promise of mounting: nothing is placed above what is in place |
| `Mountpoints` | `SetupMountpoints` and `Partition.Mount`; implements `MountOrder` |
| `MountpointsProofs` | theorems about `Mountpoints`, the refinement among them, for TLAPS |
| `Install` | `Recipe.Install` |
| `InstallProofs` | theorems about `Install`, for TLAPS |
| `GrubDefaults` | /etc/default/grub as lines, as a map, and as a shell reads it |
| `PostInstall` | `RunPostInstall`, every operation (extends `GrubDefaults`) |
| `Installation` | the abstract promise of the whole: the image with the recipe's steps applied |
| `Albius` | the four phases, run after run (extends `PostInstall`); implements `Installation` |
| `AlbiusProofs` | theorems about `Albius` with `PostInstall`, for TLAPS |
| `SequenceFacts` | lemmas on sequences that several of the proofs need |
| `MC...` | constants for TLC; `MCAlgorithms` asks the pure functions, one question from each state |

How they fit together: `DiskSetup`, `LuksSetup`, `LabelDisk` and `Lvm` are the
operations of the first phase, each with the part of the machine it works on;
`Mountpoints` and `Install` are the second and third phase; `Albius` takes these
three as a whole, keeps of them what a later phase or run can notice (is the
root mounted, what is in it, what is bound into it), and runs the fourth
command by command.

`GrubDefaults` reads a file of lines in two ways: `Mapped` as the code does, the
last line for each key, and `Sourced` as a shell does, which works from the first
line on and lets a line use what an earlier one has set.

A definition marked "A slip" is a plausible mistake in the code of the
definition that follows it. No specification uses it; replacing the definition
by its slip must make a property fail, which shows that the property notices.

**DiskSetup.** `table`, `node`, `holders`, `content` and `entry` are the
machine: the numbers in the partition table, what the kernel has under each
number (nothing, the present partition, or an entry out of date), the
partitions with a mapping or volume on them, what is written inside, and the
entry's attributes. `pc`, `op`, `snap` and `part` are the program: the next
command, the entry of the recipe, `Disk.Partitions` and the `*Partition`.
There is one action for each command: `Begin` (LocateDisk, the switch,
GetPartition), `PartedMkpart`, `Partprobe`, `LeaveWait`, `Update`, `MakeFs`,
`SetLabel`, `NamePartition`, `EditEntry` (resizepart, namepart, setflag),
`RemovePartition`. `Fail` can take the place of any; `Rerun` starts again.
`KernelNotice`, `Stack` and `Unstack` are the environment. `began` is a history
variable, the machine as it was when the operation began. A write through a
node out of date may go to any partition (`Written`).

**LuksSetup.** `sig` is the header on each device, `seen` what lsblk answers,
`mapper` the device open under each name `luks-<uuid>` (the empty UUID
included), `inner` the content of each container, `mounted` what is mounted
for each device. `GetUUID` is a step of its own each time the code asks, so
udev can act in between. `fs` is `Partition.Filesystem`, which the encrypted
branch of mkpart sets only after `LuksOpen`. Mount has no password: when
`LuksTryOpen` finds no mapping of the name, cryptsetup reads the end of a file
and the operation ends in the state `locked`. The guard of `Rerun` says that
udev has settled by the time somebody starts the installer again.

**LabelDisk.** One disk, other partitions of which some have a path that
contains the disk's (`Lookalike`), volume groups with one volume each. `at` is
the set of places of each partition, since a bind of one of its directories, or a
mount of an earlier run, is one more; the order of a partition's own mounts is
left out, so that `Umount`, one umount by the partition's path, undoes any one of
them, where the kernel takes the last, and may be refused when any is in the way.
A group's volume has one place (`lvAt`): label looks only whether it has any, and
unmounts none. The
actions are the steps of `UnmountPartition` for each partition and the loops of
`LabelDisk`; a refusal by umount, cryptsetup, vgremove or parted ends the
operation in a state of its own, so that properties can speak of it.
`prefixed` says whether LVM puts blanks before its rows, as it does unless
lvm.conf is changed; then `Intact` leaves one row of a report that the program
reads as it was meant. `inUse`, `sole` and `multiple` are history variables: what
could justify a refusal when the operation began, and which partitions were then
mounted more than once. A reader should also know what no
property claims: physical volumes without a group, and all but one of a removed
group's, stay on the disk (disk.go:174).

**Lvm.** `pv`, `group` and `lvs` are LVM's state, in which a group or volume has
an identity besides its name, as LVM's UUIDs, which the program never sees.
`nodes` are the paths that udev has made. `vg` and `lv` are one struct that a
caller holds, with the identity it was read from; `Methods` are the calls
through it, which pass the names it holds to the same functions. Renaming and
listing are two steps (`Vgrename`, `ListRenamedVg`), since the listing can fail
after the renaming is done. `vgStanding` and `lvStanding` are history variables:
"own" while nothing has come between the struct and what it was read from,
"lost" when that has been renamed elsewhere or removed, or renamed by the
struct's own method whose listing then failed, "taken" once the name in the struct
has been given to something else. `OwnGroup` and `OwnVolume` promise something in
the first two: a lost name still means that group or volume, or nothing, so that a
method is refused. In the third a method acts on something else, and nothing in
the program prevents it. `Applicable` leaves
out operations that LVM refuses without a change, except that the wait in front
of pvcreate and vgcreate also meets a mistyped path. A thin pool's metadata
volume disappears into the pool, and a pool takes its thin volumes with it.

**LvmAttrs, Sectors, DevicePaths.** Operators; `MCAlgorithms` states what they
compute. `ParseLvAttrs` keeps that the constants of three attributes are equal
and are added into one field, so that `AttrBlocks` and `AttrSkip` of an `Lv` are
always 0. `LvAttrsRead` asks that an attribute can be read back from its field, of
the seven other fields for every string, and of all ten for the strings without the
two flags that have no field.

**Mountpoints.** `recipe` is any sequence of targets, a target the sequence of
the directories in it, none of them empty (`TargetsAssumption`). The two loops
that order it are taken a mountpoint at a time: `Consider` looks at one and
appends it if it has the depth in question, `NextDepth` begins another round
while there are mountpoints left to order. `mounts` is the kernel's list, oldest first; of several at one
place the last shows. `Location` keeps the trailing slash that the code builds
for `/`, `At` is what the kernel makes of it: the two differ for the roots,
and only there.

**Install.** `root` is what the root file system holds: content, fstab,
crypttab, initramfs with the tables it was made from, `.oci_digest`, and
/var/tmp. `binds` is the list of directories bound into the root; `Umountable`
says which of them umount finds at a path, and that /dev is busy while
something is mounted in it. `found` is the state of the mounts at the start of
the run. An image ships fstab and crypttab independently of each other, and which
partitions are encrypted (`luks`) changes between runs, since the setup of the
next run, which comes before it, formats as its recipe says.

**PostInstall.** `sites` holds three systems: the `live` one, the one in the
`root`, and what is `below` the root's mount point in the live system, which is
what every path and chroot leads to when the root is not mounted. A system is a
record of what the operations read and write. `FirstOf`, `Goes`, `Edits`,
`Refused` and `Round` are the program counter (a shell step or a script step with
no parameters ends where it begins); each other definition is a command or a file.
A command that finds something it cannot work with ends as `refused`, which
`Repeatable` is about; any command can also just fail (`Fail`). `config` is the
`GrubConfig` in memory; `Written` is every file that ranging over the map can
make, and `WriteBroken` what is left when the write ends early.

**Albius and Installation.** `Installation` has two variables that matter: the
recipe's steps and the system in the root. Its only real step is `Install`: the
system becomes the image with each step's documented `Effect` applied in order.
`Albius` implements it (`Implements`) with a mapping that reads /etc/default/grub
as a shell would: whatever earlier runs left in the root, a run that ends
without an error ends with that system, provided the lines of
/etc/default/grub do not use each other (`Independent`); for files in which they
do, nothing is promised about the system, and the code does not keep their
order (grub.go:79). On a root that the setup does not format, grub-mkconfig must
come after the steps that change what it reads (`MenuLast`): otherwise it finds
the settings that an earlier run wrote. Nor is anything promised for a recipe that
gives an account both a UID and a GID (`OneNumber`), since the code then uses the
one for the other (post_install.go:45). `Feasible` says which steps can be done in
an installation made in one go; no step removes the same script twice there.

What `Albius` assumes of its constants: a recipe's steps have the arguments that
the code's type assertions ask for (`IsStep`); a system is a record of the files
that the steps work on, its accounts under their names (`IsSystem`); an image ships
its accounts, root's for one, and for a file it does not ship it says what an empty
file system says (`ImagesAssumption`); an empty file system has neither GRUB's
settings nor scripts (`BlankAssumption`).

## Runs

Violations are properties that a comment or the changelog states and the code
does not have; `PROJECT.json` quotes them under "findings".

| Run | Bounds | Properties | Result |
|---|---|---|---|
| disk_setup | 3 partitions, 1 operation, every initial disk, with fairness | `TypeOK`, `PickedMade`, `AwareWhenQuiet`, `NoCollateral`, `Delivered`, `WaitEnds` | hold |
| disk_setup_hole | 2 partitions, 1 operation | `WorksOnNewPartition` | fails: a hole in the numbers |
| luks_setup | 2 devices, 4 UUIDs, symmetric | `TypeOK`, `OwnContainer`, `MountsOwn`, `MountFindsMapping`, `InnerDelivered` | hold |
| luks_wait | same | `WaitUpdatesUUID` | fails: Filesystem is empty, or the old UUID is taken |
| label_disk | 2 partitions, 2 on other disks (one a lookalike), 2 groups, 2 places | `TypeOK`, `SinglesUnmounted`, `NoGroupTorn`, `RefusedOnlyInUse` | hold |
| label_groups | 2 partitions, 1 on another disk, 2 groups, 2 places | `GroupsRemoved` | fails: rows after the first keep their blanks |
| label_mounts | 2 partitions, 1 lookalike on another disk, 2 groups, 2 places | `OwnMountsUnmounted` | fails: the order of closing and unmounting, and one umount for each partition |
| lvm | 2 devices (one late), 1 mistyped path, 2 names and 2 identities of groups and of volumes, with fairness | `TypeOK`, `OwnGroup`, `OwnVolume`, `OnlyNamedVolumes`, `WaitEnds` | hold |
| mountpoints | recipes of up to 4 mountpoints over 4 targets, 3 runs | `TypeOK`, `FilesLandAsDeclared`, `NothingHidden`, `BusyOnlyAtRoot`, `PlacesInOrder` | hold |
| install | 2 mountpoints, 2 images, 3 runs | `TypeOK`, `Bootable`, `DigestNamesRoot`, `BindsRestored`, `NeverBusy`, `TempFilesOnDisk` | hold |
| algorithms | 7 disks, 12 partitions; attribute strings; disks of up to 3 partitions on 7 positions | `CommonPathsRecovered`, `GroupAttrsRead`, `LvAttrsRead`, `FreeSpaceFound` | hold |
| albius | 12 recipes, 4 images, 3 runs | `TypeOK`, `Repeatable`, `LiveUntouched`, `Implements` | hold |

Why the bounds are enough. *DiskSetup*: operations share nothing but the
machine, and `Init` is every machine there can be between two of them (any
table, any kernel view that lags, any holder), so one operation from there is
as good as a sequence, for `WaitEnds` too, which also meets there what a failed
operation left. Three numbers are the least that allow a
hole with partitions on both sides; the proofs do not depend on the bound.
File system types stand for the four ways `MakeFs` and `SetLabel` treat one.
*LuksSetup*: mixing up containers takes two devices; two leftovers and two
formats take four UUIDs. *LabelDisk*: two partitions make an order, other
partitions make a group span disks or lie beside it, the second group makes the
loop go on after a removal and gives a report a second row; two places let a
partition be mounted twice, and one mount be below another.
*Lvm*: two groups and two volumes let one take a name that the other had, which
is all that a stale struct can meet; identities are used again only when nothing
has them. *Algorithms*: the functions look at a path's first four runs, at each
attribute character by itself, and at neighbouring partitions only.
*Mountpoints*: four mountpoints make a chain of three depths with a sibling, or two
roots and two below, and rounds of the ordering that find nothing; the third run
is over what a second one left of the first. *Install*: one mountpoint encrypted
and one not is the least for tables that disagree; the second run is over
whatever the first left, with other partitions encrypted, and the third over what
the second made of that.
*Albius*: the second run meets what the first left, the third what the second
has left of it; a run's own effects do not depend on how many came before. The
recipes have every operation, two of them more than once, the template of the
repository among them, and one recipe for each reason to refuse a step.

Deadlock is not checked: each model may stop, when the bound on operations or
runs is reached, or when label or the recipe has ended.

**Fairness** is assumed in `disk_setup` and `lvm` only, for `WaitEnds`.
`WF(LeaveWait)` and `WF(WaitUntilAvailable)`: the loops poll without a pause or
every 50 ms. `WF(KernelNotice)`: the kernel reads the table again after
partprobe as long as nobody uses the entry; entries in use are exempt.
`WF(NodeAppears(d))`: udev makes the path of every partition that exists, in the
end; for a path that names none nothing is promised, and the program does wait
for ever. The program may still fail instead. The other properties are safety
properties, which fairness does not change.

## Known limits that the models contain

These are not findings of a run, but a reader of the models should know them. No
property asserts as right what is wrong here.

* `CommonPathsRecovered` is about disks named like sda or nvme0n1. Of
  /dev/mmcblk0p1, /dev/loop1p1 and /dev/md127p1, which `FillPath` puts together,
  `SeparateDiskPart` takes the whole for the disk (util.go:63), though it "separates
  it into the device root and partition number" (util.go:60-61).
  `PathsRecoveredExactly` is the exact extent.
* `LvAttrsRead` leaves out that parseLvAttrs adds "blocks are zeroed" and "skip
  activation" into `AttrFixed`, where three constants that are all 1 cannot be told
  apart, and never sets `AttrBlocks` and `AttrSkip` (lv.go:257, 267, 272), which `Lv`
  has as fields of their own (lv.go:14, 16).
* `BusyOnlyAtRoot` is less than "Check if partition is already mounted at location
  instead of throwing error" (debian/changelog 0.1.6): for the target `/` the code
  looks for /mnt/a/ in a list that has /mnt/a (partition.go:69), so that a second
  run over the mounts of the first is refused at its root.
* "If password is an empty string, cryptsetup will prompt the password when
  executed" (luks.go:40-41) is not so: RunCommand gives it no input to prompt on
  (util.go:18-23). Mount, whose password is empty (partition.go:46), can only use a
  container that is open (`locked` in `LuksSetup`).
* A physical volume of another disk whose path contains this one's is removed with
  its group: /dev/sdaa1 for /dev/sda, /dev/loop10p1 for /dev/loop1 (disk.go:168). The
  model has it (`Lookalike`), and no property says that it should or should not be.
* `AwareWhenQuiet` needs a disk with nothing stacked on it: waitForNewPartition
  counts every line of lsblk, so an open container ends it at once (disk.go:144).
* Where the root is mounted already, `Albius.SetupMountpoints` refuses, as
  `BusyOnlyAtRoot` says it can.
* `SinglesUnmounted` excepts partitions that were mounted more than once when label
  was called, which are part of the finding of `label_mounts`; parted then refuses
  the new table (`Mklabel`), so nothing is lost but the run.
* `Repeatable` exempts swapon, refused when the swap is active from an earlier
  run, and a /etc/default/grub that was cut off in the middle of a line when
  neither the image nor the setup replaces it (`CutOff`). It speaks of the steps in
  the chroot; refusals of the earlier phases are outside it.
* `DigestNamesRoot` rests on a second run over the same root ending at `os.Mkdir`
  (filesystem.go:143); that the run cannot be repeated is in no property.
* `Implements` says nothing of a /etc/default/grub whose lines use each other, of
  which the code writes a random order (`Independent`, grub.go:79).
* `--gid` replaces `--uid` when a recipe gives both (post_install.go:45). The
  model does the same (`Useradded`); the recipes of the run give the UID alone.
* The repository's template (src/recipe_template.json:132) gives grub-install
  its arguments in another order than the code reads them (recipe.go:851): the
  fourth is no string, and the type assertion panics. The recipe of `MCAlbius`
  has them in the code's order.
* With an A/B layout the fstab gets two lines for `/` (recipe.go:1022): `Install`
  models the entries of one root.

## Proofs

TLAPS checks the theorems of the seven `...Proofs` modules, for every value of the
constants that the named assumptions allow. Each module follows the same line:
the properties of the run are not inductive, so an invariant `IInv` (in
`AlbiusProofs`, `TypeInv`, `RepeatInv` and `ImplementsInv`, each with the one
before it) says what is true between any two steps; one lemma `...Next` for each
of its conjuncts goes through the actions; the theorems read the properties off
it. Every one of these invariants also holds in TLC's run of its module.
The assumptions are those that the modules state, and TLC evaluates them for the
constants of each run.

`DiskSetupProofs` is for every `MaxPart`, `MaxOps`, set of types and names,
and every disk whose paths survive `SeparateDiskPart` (`DiskPathAssumption`,
which `MCDiskSetup` has TLC check for SCSI, IDE, virtio, Xen and NVMe disks
and 128 partitions):

* `TypeCorrect`: `Spec => []TypeOK`, which includes that no operation runs on
  the nil `*Partition` of a number that is gone;
* `PickedIsMade`: `Spec => []PickedMade`;
* `WaitMakesAware`: `Spec => []AwareWhenQuiet`;
* `OthersUntouched`: `Spec => []NoCollateral`;
* `Delivers`: `Spec => []Delivered`;
* `PathsRecoveredExactly`: of all names a disk can have, those that the assumption
  is true of are the names without a digit and those of the form nvme0n1. It says
  in general what `CommonPathsRecovered` asks of some names, and that it is true of no others;
* `FreeSpaceFoundExactly`: for a disk of any number of partitions in the order of
  their positions, `AvailableSectors` answers with exactly the positions that no
  partition has, from the first start on. It says in general what `FreeSpaceFound`
  asks of disks on a grid. The loop is a recursive function (`Between`); by
  induction over its rounds (`BetweenIs`) its result has a range for each two
  neighbours that do not touch, and between ranges in order there is nothing else
  that is free (`BetweenRanges`).

The invariant `IInv` is the conjunction of

* `TypeInv`: types, and that `pc` fits the operation (`Dispatched`);
* `Progress`: how far `table` has gone from `began.table` at each command, and
  that the list read at the start is `began.table`. It gives `PickedMade`: the
  partition parted made is the first free number, and without a hole that is
  above all others, hence the last of the new list;
* `Known`: when the kernel was in step at the start and nothing is stacked, it
  has at the wait either the old partitions or the new ones. With the lemma
  `WaitIsLongEnough`, on the cardinality of the old set, a count that differs
  means the new ones, which gives `AwareWhenQuiet`;
* `OnTarget`: the number in `part` is that of a partition whose node is up to
  date, so that `Written` is that one partition (`WrittenIs`, `WritesTarget`);
* `NoCollateral` itself;
* `MakingDeeds` and `OtherDeeds`: what a prepared operation has done so far, to
  the partition that mkpart made or to the one that the recipe names. `Delivered`
  is what they come to at the last command.

`LuksSetupProofs` is for any devices, UUIDs and types; "no UUID" is not a UUID and
"no device" not a device. It proves all five properties of the run: `TypeCorrect`
(`TypeOK`), `WritesOwn` (`OwnContainer`), `MountsItsOwn` (`MountsOwn`),
`StaysOpen` (`MountFindsMapping`) and `DeliversInside` (`InnerDelivered`).
What lsblk answers can be of the header before the present one, so the argument
cannot go by the present UUIDs:

* `OneOwner`: a UUID that a header has, that udev remembers, that a mapping is
  named after or that the program holds is one device's in all these places;
* `Nameless`: the empty answer has no owner. A device for which udev has nothing
  is the one that is open under `luks-`, unless its own operation has still to
  open it. Without this, the step that looks the name up again could come through
  `luks-` to another device's container;
* `Fresh`, `Ready`: for a device that had no signature nothing old can be
  answered, so the wait ends with the new UUID, and the mapping stays until a boot,
  where Mount, which could not open it, finds it;
* `Inside`, `InHeader`: what the operation has written so far, and that there is
  a header below it.

`LabelDiskProofs` proves all four properties of the run `label_disk`, for a disk
of any number of partitions, any other partitions, volume groups and places.
The assumptions are that the disk's partitions are not among the others, that no
group is called "no pv" or "free pv", and that the empty path is not a place.
The theorems are `TypeCorrect` (`TypeOK`), `Unmounted` (`SinglesUnmounted`),
`NoneTorn` (`NoGroupTorn`) and `RefusedForUse` (`RefusedOnlyInUse`). `TypeOK` itself is not inductive: it says that the groups are
those with physical volumes, which pvremove keeps only because what is to be
removed has already lost its group. `IInv` is the conjunction of

* `TypeInv`: types, `Freed` (what is to be removed is in no group) and
  `PlainMounts` (what is mounted is no physical volume, so umount by path takes
  a partition out of `IsMounted`);
* `Passed`: of the partitions that had one mount or none when label was called, none
  has come to have two, and those below `number` have none, after the loop all;
* `Quiet`: if nothing was in use at the start, nothing is. The lemmas `Shrinks`
  and `MountsShrink` say that no step mounts, opens or creates anything;
* `Accounted`: if LVM's rows come without blanks, or the machine has one group
  only, each group on the disk is still in the list, with a physical volume that
  the loop finds (lemma `Listing`); with the list empty, none is left;
* `RefusedOnlyInUse` itself: parted's refusal needs `Accounted`, the other
  three `Quiet`.

`LvmProofs` is for any devices and names and any number of identities; the empty
name is no name, and the devices whose paths come late are among those that exist.
The theorems are `TypeCorrect` (`TypeOK`), `GroupHeld` (`OwnGroup`), `VolumeHeld`
(`OwnVolume`) and `OthersKept` (the action property `OnlyNamedVolumes`).

* `GroupsInv`, `VolumesInv`: no two groups or volumes have an identity or a name
  in common, each volume is in a group and on physical volumes of it, each thin
  volume has its pool;
* `OpInv`, `HeldInv`: a command runs with the names its operation needs, and a
  method's are those that its struct holds;
* `OwnGroupStep`, `OwnVolumeStep`: `OwnGroup` and `OwnVolume` speak of the time
  between operations; between the command that renames and the listing that
  follows it, the struct still holds the old name, and it is the new one that
  leads to what it was read from;
* `GroupNameStep`, `VolumeNameStep`: as long as the name in the struct has not been
  given away it leads to what the struct was read from or to nothing, also between
  the renaming and the listing. A listing that fails then leaves a struct whose
  name is nobody's.

`MountpointsProofs` is for recipes of any length, targets of any depth and any
number of runs. It proves every property of the run:
`TypeCorrect` (`TypeOK`, which also bounds the passes that the ordering makes), `HidesNothing` (`NothingHidden`), `RefusedForRoots`
(`BusyOnlyAtRoot`), `LandAsDeclared` (`FilesLandAsDeclared`) and `Refines`, the
refinement of `MountOrder` (`PlacesInOrder`): `Init` maps to its initial states,
`Mount` to its step (`PlaceStep`), an unmount and a reboot to its removals, and
everything else to a stutter.

* `Sorting`: the list so far is sorted by depth, and within a depth as the recipe
  is; at depth `depth` and index `scan` it has just the mountpoints that come
  before these;
* `Reaching`: there is a mountpoint at this depth or below it. A pass is followed by
  another only if the list is shorter than the recipe, and then a mountpoint is
  missing from it (`ShortSequence`), which by `Sorting` is deeper. So the loop, whose
  condition counts mountpoints and not depths, ends;
* `Progress`: what the list has before `next` is mounted, and `rootAMounted` says
  whether a root is among it, hence whether the next root is /mnt/b;
* `Closed`: whatever of the recipe is strictly above something mounted is mounted
  too. This is what failed runs keep, and unmounts, which the kernel refuses below
  something. A place that is free then has nothing mounted below it, so mounting
  there hides nothing.

`FilesLandAsDeclared` follows at the end of a run: all is mounted, nothing is
hidden, so the deepest mount on the way to a path is the declared one
(`LastIsLongest`, `LandsAsDeclared`).

`InstallProofs` is for any partitions, sequence of mountpoints, set of images and
number of runs; no image is named like one of the states of a root. It proves all
six properties of the run: `TypeCorrect` (`TypeOK`), `InstalledBootable`
(`Bootable`), `DigestCorrect` (`DigestNamesRoot`), `MountsUndone` (`BindsRestored`),
`UnmountsPossible` (`NeverBusy`) and `TempFilesKept` (`TempFilesOnDisk`).

* `Copying`: which image the root has at each step of the copy, and that a digest
  is there only where `os.Mkdir` will refuse the next run, so that no later pull
  changes the root below it;
* `Tabled`: each table, once its step is done, is that of the present containers,
  and the initramfs, once made, has the present tables and files. It is stated step
  by step, since a failed run leaves tables of another state of the disk;
* `Stacked`: the binds are those that the run found with its own on top, for each
  value of `at`. umount takes the top one at a path, so a run undoes exactly its own
  (`UnbindOwn`), and /dev is free when its turn comes, also with leftovers below.

`AlbiusProofs` is for any recipes, images and number of runs that the assumptions
above allow. It proves every property of the run: `TypeCorrect` (`TypeOK`),
`LiveKeptUntouched` (the action property `LiveUntouched`), `RefusedAsAtFirst`
(`Repeatable`) and `InstallsAsPromised`, the refinement of `Installation`
(`Implements`). The first two go through every command of every operation with
`TypeInv`:

* `Belongs`: a command runs in a step of its own operation;
* `Mounting`: from the copy on the root is mounted. It is what `LiveUntouched`
  rests on: a path below /mnt/a would otherwise be one of the live system;
* `BindsCounted`: a directory has been bound at most once for each step so far,
  which bounds `binds`.

The other two compare the root with `base`, which is what the installation made in
one go has before the present step (`Promised!After[at - 1]`). `Repeatable` must
show, at each step that can be refused, that the same thing would be in the way
there. `RepeatInv` adds one part for each reason, since what earlier runs left
differs from reason to reason:

* `Own`: what has brought the program to a command (a bind is only done for a step
  in the chroot, efibootmgr only run for a target that needs it);
* `GrubBound`: once a step in the chroot has run grub-install, all its directories
  are bound, in this run or by an earlier one, so grub-mkconfig finds them;
* `UserNames`: the accounts in the root have the names of those in `base`, and that
  of the account being added. The copy of the image takes back what an earlier run
  added, which is why images must ship their accounts;
* `ScriptsKept`: the root has at least the scripts of `base`, but for those that
  the present step has removed. It may have more: the copy adds, and removes none;
* `BareKept`: a last line without its "=" is in the root only where the image has
  it, or neither the image nor the setup replaces the file.

For `Implements`, `ImplementsInv` must know of every file of the root:

* `LinesKnown`, `ConfigKnown`: /etc/default/grub has lines of the image and the
  recipe only, and the `GrubConfig` in memory is what the file and the step give;
* `Halfway`: what the commands of a step have written before its last;
* `Left`: between runs, what the image does not ship (and the scripts, which the
  copy does not take away) differs from the image only by what some step of the
  recipe does: it has the file in question as its own, adds these scripts, or sets
  these keys. The image's other files are copied again;
* `Current`: during the steps the same of the root and `base`, with only the
  present step and the later ones left (`Undone`), and none of them when the setup
  formats the root. After the last step none is left, and the two are equal as far
  as a user sees them. The menu needs `MenuLast` here. The key of a setting has the
  same last line in both (`SameFor`), and a shell reads no more than that when no
  line uses another key (`SourcedIs`), which is where `Independent` comes in;
* `UsersSame`: the accounts equal those of `base`, but for what is still missing in
  the one that is being added, where `OneNumber` comes in.

`Init` maps to an initial state of `Installation`, `Finish` with the recipe at its
end to `Install`, any other step to `Open` or a stutter. `After` is a recursive
function over the steps, and the theorems of the library on induction cannot be
used; that it is what its definition says (`AfterSteps`) is shown with the least
index at which it would not be.

The proof corrected `Installation` in two places that TLC's recipes had not reached.
`Effect` was a CASE whose arms overlapped for a grub-install on the live system's
EFI partition, which left the choice open; and `Feasible` took a step that
removes the same script twice for one that can be done, which the second `rm`
refuses. One of the recipes of `MCAlbius` now has such a step.

`SequenceFacts` has the lemmas on `RemoveAt`, prefixes, the last index, the lengths of
a sequence and induction over the indices below a number (`EachIndex`), which
needs no more than a set, that the other modules share.

**Only model-checked.** Liveness (`DiskSetup.WaitEnds`, `Lvm.WaitEnds`): TLAPS
proves nothing under fairness here. Of the four properties of `algorithms`, the general
form of `CommonPathsRecovered` and of `FreeSpaceFound` is proved; `GroupAttrsRead` and
`LvAttrsRead` rest on powers of two, of which the provers know nothing, and
the former on a fold over a set. The four runs that end in a violation have no
theorem, of course.

## Not modelled

* Positions and sizes of partitions, so neither overlaps nor resizing data
  loss; parted is taken to refuse what does not fit (`Fail`).
* Sizes and extents of volumes; a command that asks for more than there is
  fails. Snapshots, mirrors and the other types of lvcreate are taken for linear
  volumes.
* MSDOS labels (numbers of logical partitions start at 5); the disks are GPT.
* Active swap, which lsblk lists as a mountpoint `[SWAP]` and umount refuses,
  and physical volumes inside a container, in `LabelDisk`.
* Shell quoting: names, labels and passwords are single words.
* The 30-second timeout of `Disk.WaitUntilAvailable`, whose error is ignored.
* What scripts of the recipe change by themselves: they succeed or fail, and of
  a shell step `PostInstall` records that each command was run.
* Writes of the small files other than /etc/default/grub are whole or not at
  all; how often `efibootmgr --create` adds the same entry is not counted.
* JSON decoding, wording of errors, output. An operation's arguments are of the
  right number and type; otherwise the type assertion panics, like a failure.
* Tests and development utilities.

## Plan

Done, in this order: `DevicePaths`, `FileSystems`, `DiskSetup` and its proofs,
`LuksSetup`, `LabelDisk`, `MountOrder` and `Mountpoints`, `Install`; then
`LvmReports` with `LabelDisk` again, `LvmAttrs` and `Sectors`, `Lvm`,
`PostInstall` with `GrubDefaults`, `Installation` and `Albius`; then the proofs about
`LuksSetup`, `Install`, `Mountpoints` (whose ordering became steps of its own),
`Lvm` and `Albius`, and `Delivered` of `DiskSetup`; at last `Repeatable` and
`Implements` of `Albius`, and `AvailableSectors` for any disk.

Next, to extend the model: `DiskSetup` with `LuksSetup`, the encrypted branch of
mkpart with the partition NewPartition really returns; A/B roots in `Install`.

Next, to prove more: of the runs' safety properties there remain the two about
attribute strings, which need a prover that knows powers of two. The rest comes
with the extensions above.
