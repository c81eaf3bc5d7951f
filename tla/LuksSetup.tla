------------------------------ MODULE LuksSetup ------------------------------
(***************************************************************************)
(* Encrypted devices: luks-format, lvm-luks-format and the encrypted       *)
(* branch of mkpart create a LUKS container, open it and put a file system *)
(* inside; Mount opens it again when it has to.                            *)
(*                                                                         *)
(* A container is opened under the name luks-<uuid>.  Albius never keeps   *)
(* the name: each function asks lsblk for the UUID again, and lsblk        *)
(* answers from udev's records, which follow the device with a delay.      *)
(***************************************************************************)
EXTENDS FileSystems

CONSTANTS
  Dev,          \* partitions and logical volumes
  UUID,         \* UUIDs that mkfs and luksFormat draw
  NoUUID,       \* lsblk's empty answer
  NoDev

ASSUME NoUUIDAssumption == NoUUID \notin UUID
ASSUME NoDevAssumption == NoDev \notin Dev

MaybeUUID == UUID \cup {NoUUID}
Sig       == [kind : {"plain", "luks"}, uuid : UUID]
               \cup {[kind |-> "blank", uuid |-> NoUUID]}
BlankSig  == [kind |-> "blank", uuid |-> NoUUID]

VARIABLES
  made,         \* devices that exist
  sig,          \* the signature at the start of each device
  seen,         \* the UUID udev has recorded for each device
  mapper,       \* the container open under /dev/mapper/luks-<uuid>
  inner,        \* what is inside each device's container
  mounted,      \* the container, or plain device, mounted for each device
  drawn,        \* UUIDs in use or used before
  pc,           \* the command the program runs next
  kind,         \* the operation it is in
  dev,          \* the Partition it works on
  fs,           \* Partition.Filesystem
  wantFs,       \* the file system the recipe asks for
  label,        \* the label the recipe asks for
  uuid,         \* the last answer of GetUUID
  clean,        \* history: the device had no signature to begin with
  ready         \* history: devices luks-format has finished, from blank

disks  == <<made, sig, seen, mapper, inner, mounted, drawn>>
locals == <<kind, dev, fs, wantFs, label, clean>>
vars   == <<made, sig, seen, mapper, inner, mounted, drawn, pc, kind, dev, fs,
            wantFs, label, uuid, clean, ready>>

Running == {"format", "wait", "uuid", "open", "mkfsuuid", "mkfs",
            "labeluuid", "label", "isluks", "tryuuid", "tryopen", "pathuuid",
            "mount"}

Open(d) == \E u \in MaybeUUID : mapper[u] = d

-----------------------------------------------------------------------------
(* Devices hold whatever an earlier install left, each with its own UUID.  *)
Init ==
  /\ made \in SUBSET Dev
  /\ sig \in [Dev -> Sig]
  /\ \A d, e \in Dev : d # e /\ sig[d].kind # "blank" => sig[d].uuid # sig[e].uuid
  /\ seen = [d \in Dev |-> IF d \in made THEN sig[d].uuid ELSE NoUUID]
  /\ mapper = [u \in MaybeUUID |-> NoDev]
  /\ inner = [d \in Dev |-> Blank]
  /\ mounted = [d \in Dev |-> NoDev]
  /\ drawn = {sig[d].uuid : d \in Dev} \ {NoUUID}
  /\ pc = "idle" /\ kind = "none" /\ dev = NoDev
  /\ fs = NoFs /\ wantFs = NoFs /\ label = NoName /\ uuid = NoUUID
  /\ clean = FALSE
  /\ ready = {}

(* luks-format and lvm-luks-format set Filesystem before anything else.    *)
BeginFormat(d, f, l) ==
  /\ pc = "idle" /\ d \in made
  /\ pc' = "format" /\ kind' = "luks-format" /\ dev' = d
  /\ fs' = f /\ wantFs' = f /\ label' = l
  /\ clean' = (sig[d].kind = "blank" /\ seen[d] = NoUUID)
  /\ UNCHANGED <<disks, uuid, ready>>

(* mkpart has NewPartition make the partition without a file system.  Its  *)
(* Filesystem is what parted finds in the area: nothing if it is blank or  *)
(* LUKS, else the type of a file system left from before.                  *)
BeginMkpart(d, f, l) ==
  /\ pc = "idle" /\ d \notin made
  /\ pc' = "format" /\ kind' = "mkpart" /\ dev' = d
  /\ made' = made \cup {d}
  /\ \E s \in {sig[d], BlankSig} :
       /\ sig' = [sig EXCEPT ![d] = s]
       /\ fs' \in IF s.kind = "plain" THEN FsTypes ELSE {NoFs}
       /\ clean' = (s.kind = "blank")
  /\ wantFs' = f /\ label' = l
  /\ UNCHANGED <<seen, mapper, inner, mounted, drawn, uuid, ready>>

(* cryptsetup refuses a device that is in use.                             *)
LuksFormat ==
  /\ pc = "format"
  /\ ~Open(dev) /\ mounted[dev] = NoDev
  /\ \E u \in UUID \ drawn :
       /\ sig' = [sig EXCEPT ![dev] = [kind |-> "luks", uuid |-> u]]
       /\ drawn' = drawn \cup {u}
  /\ inner' = [inner EXCEPT ![dev] = Blank]
  /\ pc' = "wait"
  /\ UNCHANGED <<made, seen, mapper, mounted, locals, uuid, ready>>

\* A slip: take the device for ready as soon as its path exists.
WaitForPathOnly ==
  /\ pc = "wait"
  /\ pc' = "uuid"
  /\ UNCHANGED <<disks, locals, uuid, ready>>

(* Without a Filesystem the wait ends at once, else it ends with a UUID.   *)
WaitUntilAvailable ==
  /\ pc = "wait"
  /\ fs = NoFs \/ seen[dev] # NoUUID
  /\ pc' = "uuid"
  /\ UNCHANGED <<disks, locals, uuid, ready>>

(* GetUUID, each time before the name luks-<uuid> is used: by the caller   *)
(* of LuksOpen, LUKSMakeFs, LUKSSetLabel, Mount and GetLUKSMapperPath.     *)
AfterUUID ==
  [uuid |-> "open", mkfsuuid |-> "mkfs", labeluuid |-> "label",
   tryuuid |-> "tryopen", pathuuid |-> "mount"]

GetUUID ==
  /\ pc \in DOMAIN AfterUUID
  /\ uuid' = seen[dev]
  /\ pc' = AfterUUID[pc]
  /\ UNCHANGED <<disks, locals, ready>>

\* A slip: a name that is taken is as good as opened.
LuksOpenOrTaken ==
  /\ pc = "open"
  /\ mapper' = [mapper EXCEPT ![uuid] = IF @ = NoDev THEN dev ELSE @]
  /\ fs' = wantFs
  /\ pc' = "mkfsuuid"
  /\ UNCHANGED <<made, sig, seen, inner, mounted, drawn, kind, dev, wantFs,
                 label, uuid, clean, ready>>

\* A slip: mkpart does not set Filesystem.
LuksOpenKeepingFs ==
  /\ pc = "open"
  /\ mapper[uuid] = NoDev
  /\ mapper' = [mapper EXCEPT ![uuid] = dev]
  /\ pc' = "mkfsuuid"
  /\ UNCHANGED <<made, sig, seen, inner, mounted, drawn, locals, uuid, ready>>

(* LuksOpen is an error when the name is taken.  mkpart sets Filesystem    *)
(* only now.                                                               *)
LuksOpen ==
  /\ pc = "open"
  /\ mapper[uuid] = NoDev
  /\ mapper' = [mapper EXCEPT ![uuid] = dev]
  /\ fs' = wantFs
  /\ pc' = "mkfsuuid"
  /\ UNCHANGED <<made, sig, seen, inner, mounted, drawn, kind, dev, wantFs,
                 label, uuid, clean, ready>>

(* MakeFs on /dev/mapper/luks-<uuid>.                                      *)
InnerMakeFs ==
  /\ pc = "mkfs"
  /\ mapper[uuid] # NoDev /\ fs \in Formattable
  /\ inner' = [inner EXCEPT ![mapper[uuid]] = [fs |-> fs, label |-> NoName]]
  /\ pc' = IF kind = "luks-format" /\ label = NoName THEN "done"
           ELSE "labeluuid"
  /\ UNCHANGED <<made, sig, seen, mapper, mounted, drawn, locals, uuid, ready>>

(* SetLabel on /dev/mapper/luks-<uuid>.                                    *)
InnerSetLabel ==
  /\ pc = "label"
  /\ CanLabel(fs, label)
  /\ \/ fs \in Unlabelled /\ UNCHANGED inner
     \/ /\ fs \notin Unlabelled /\ mapper[uuid] # NoDev
        /\ inner' = [inner EXCEPT ![mapper[uuid]] = Relabel(@, label)]
  /\ pc' = "done"
  /\ UNCHANGED <<made, sig, seen, mapper, mounted, drawn, locals, uuid, ready>>

-----------------------------------------------------------------------------
\* A slip: mount whatever GetPartition returns.
BeginMountUnchecked(d) ==
  /\ pc = "idle"
  /\ pc' = "isluks" /\ kind' = "mount" /\ dev' = d
  /\ UNCHANGED <<disks, fs, wantFs, label, uuid, clean, ready>>

(* Mount, for a device of the recipe's mountpoints.                        *)
BeginMount(d) ==
  /\ pc = "idle" /\ d \in made
  /\ pc' = "isluks" /\ kind' = "mount" /\ dev' = d
  /\ UNCHANGED <<disks, fs, wantFs, label, uuid, clean, ready>>

(* A device that is not LUKS is mounted by its own path.                   *)
IsLuks ==
  /\ pc = "isluks"
  /\ \/ sig[dev].kind = "luks" /\ pc' = "tryuuid" /\ UNCHANGED mounted
     \/ /\ sig[dev].kind = "plain" /\ pc' = "done"
        /\ mounted' = [mounted EXCEPT ![dev] = dev]
  /\ UNCHANGED <<made, sig, seen, mapper, inner, drawn, locals, uuid, ready>>

(* LuksTryOpen leaves a mapping of that name alone.  Otherwise it calls    *)
(* LuksOpen without a password; RunCommand gives cryptsetup an empty       *)
(* standard input, so there is nothing to read and Mount fails.            *)
LuksTryOpen ==
  /\ pc = "tryopen"
  /\ pc' = IF mapper[uuid] # NoDev THEN "pathuuid" ELSE "locked"
  /\ UNCHANGED <<disks, locals, uuid, ready>>

MountMapping ==
  /\ pc = "mount"
  /\ mapper[uuid] # NoDev
  /\ mounted' = [mounted EXCEPT ![dev] = mapper[uuid]]
  /\ pc' = "done"
  /\ UNCHANGED <<made, sig, seen, mapper, inner, drawn, locals, uuid, ready>>

-----------------------------------------------------------------------------
(* The locals of the operation go out of scope.                            *)
Forget ==
  /\ kind' = "none" /\ dev' = NoDev /\ fs' = NoFs /\ wantFs' = NoFs
  /\ label' = NoName /\ uuid' = NoUUID /\ clean' = FALSE

Return ==
  /\ pc = "done"
  /\ pc' = "idle"
  /\ Forget
  /\ ready' = IF kind = "luks-format" /\ clean THEN ready \cup {dev} ELSE ready
  /\ UNCHANGED disks

(* A command fails or the process dies: main panics.                       *)
Fail ==
  /\ pc \in Running \cup {"done"}
  /\ pc' = "failed"
  /\ UNCHANGED <<disks, locals, uuid, ready>>

(* By the time somebody starts the installer again udev has settled.       *)
Rerun ==
  /\ pc \in {"failed", "locked"}
  /\ \A d \in made : seen[d] = sig[d].uuid
  /\ pc' = "idle"
  /\ Forget
  /\ UNCHANGED <<disks, ready>>

Reboot ==
  /\ pc \in {"idle", "failed", "locked"}
  /\ pc' = "idle"
  /\ Forget
  /\ mapper' = [u \in MaybeUUID |-> NoDev]
  /\ mounted' = [d \in Dev |-> NoDev]
  /\ seen' = [d \in Dev |-> IF d \in made THEN sig[d].uuid ELSE NoUUID]
  /\ ready' = {}
  /\ UNCHANGED <<made, sig, inner, drawn>>

(* udev records the signature of a device.                                 *)
UdevNotice(d) ==
  /\ d \in made /\ seen[d] # sig[d].uuid
  /\ seen' = [seen EXCEPT ![d] = sig[d].uuid]
  /\ UNCHANGED <<made, sig, mapper, inner, mounted, drawn, pc, locals, uuid,
                 ready>>

(* rm and lvremove, as far as they matter here: an idle device goes away.  *)
RemoveDevice(d) ==
  /\ pc = "idle" /\ d \in made
  /\ ~Open(d) /\ mounted[d] = NoDev
  /\ made' = made \ {d}
  /\ seen' = [seen EXCEPT ![d] = NoUUID]
  /\ ready' = ready \ {d}
  /\ UNCHANGED <<sig, mapper, inner, mounted, drawn, pc, locals, uuid>>

Next ==
  \/ \E d \in Dev, f \in FsTypes, l \in Name :
       BeginFormat(d, f, l) \/ BeginMkpart(d, f, l)
  \/ LuksFormat \/ WaitUntilAvailable \/ GetUUID \/ LuksOpen
  \/ InnerMakeFs \/ InnerSetLabel
  \/ \E d \in Dev : BeginMount(d)
  \/ IsLuks \/ LuksTryOpen \/ MountMapping
  \/ Return \/ Fail \/ Rerun \/ Reboot
  \/ \E d \in Dev : UdevNotice(d) \/ RemoveDevice(d)

Spec == Init /\ [][Next]_vars

-----------------------------------------------------------------------------
(* Every variable keeps its type, and every step of an operation has the   *)
(* device it works on.                                                     *)
TypeOK ==
  /\ made \subseteq Dev /\ sig \in [Dev -> Sig]
  /\ seen \in [Dev -> MaybeUUID]
  /\ mapper \in [MaybeUUID -> Dev \cup {NoDev}]
  /\ inner \in [Dev -> Content]
  /\ mounted \in [Dev -> Dev \cup {NoDev}]
  /\ drawn \subseteq UUID
  /\ pc \in Running \cup {"idle", "done", "failed", "locked"}
  /\ kind \in {"none", "mkpart", "luks-format", "mount"}
  /\ dev \in Dev \cup {NoDev} /\ (pc \in Running => dev \in made)
  /\ fs \in Fs /\ wantFs \in Fs /\ label \in Name
  /\ uuid \in MaybeUUID
  /\ clean \in BOOLEAN /\ ready \subseteq Dev

(* LUKSMakeFs and LUKSSetLabel write only inside the container of the      *)
(* partition they were given, although they look its name up afresh        *)
(* (filesystem.go:66-71, partition.go:309-314).                            *)
OwnContainer ==
  pc \in {"mkfs", "label"} => mapper[uuid] \in {dev, NoDev}

(* Mount never puts one device's container where another's belongs         *)
(* (partition.go:38-80).                                                   *)
MountsOwn == \A d \in Dev : mounted[d] \in {d, NoDev}

(* A device luks-format finished, starting from one without a signature,   *)
(* is open under its header's UUID until the next boot.  Mount, which has  *)
(* no password to open it with (partition.go:46), finds that mapping.      *)
MountFindsMapping ==
  /\ \A d \in ready : mapper[sig[d].uuid] = d
  /\ pc = "locked" => dev \notin ready

(* When luks-format is done, what the recipe asked for is inside the       *)
(* device's own container.                                                 *)
InnerDelivered ==
  pc = "done" /\ kind \in {"mkpart", "luks-format"}
    => /\ Open(dev)
       /\ inner[dev].fs = wantFs
       /\ label # NoName /\ wantFs \notin Unlabelled
            => inner[dev].label = label

(* "lsblk seems to take a few milliseconds to update the partition's UUID, *)
(* so we loop until it gives us one" (recipe.go:161-162, 339-340 and       *)
(* 647-648): when the loop of mkpart, luks-format and lvm-luks-format      *)
(* ends, lsblk gives the UUID that luksFormat drew.                        *)
WaitUpdatesUUID == pc = "uuid" => seen[dev] = sig[dev].uuid
==============================================================================
