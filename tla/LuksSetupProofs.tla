--------------------------- MODULE LuksSetupProofs ---------------------------
(***************************************************************************)
(* Theorems about LuksSetup, for any devices, UUIDs and file system types. *)
(*                                                                         *)
(* A UUID is of one device only (OneOwner): whatever lsblk answers for a   *)
(* device, old or new, the name luks-<uuid> leads to that device's         *)
(* container or to none.  The empty answer is shared by all devices, so    *)
(* what is open under the name luks- needs an argument of its own          *)
(* (Nameless): a device without a recorded UUID is the one that is open    *)
(* there, unless an operation has still to open it.                        *)
(***************************************************************************)
EXTENDS LuksSetup, TLAPS

(* The commands of an operation that has formatted the device, and those   *)
(* of Mount once it has seen a LUKS header.                                *)
Encrypting == {"wait", "uuid", "open", "mkfsuuid", "mkfs", "labeluuid", "label"}
Opening    == {"tryuuid", "tryopen", "pathuuid", "mount"}

TypeInv ==
  /\ TypeOK
  /\ pc = "done" => dev \in made
  /\ pc = "idle" => dev = NoDev /\ uuid = NoUUID
  /\ \A d \in Dev \ made : seen[d] = NoUUID
  /\ ready \subseteq made

InHeader == pc \in Encrypting \cup Opening => sig[dev].kind = "luks"

Belongs(u, d) ==
  sig[d].uuid = u \/ seen[d] = u \/ mapper[u] = d \/ (dev = d /\ uuid = u)

OneOwner ==
  \A u \in UUID, d \in Dev :
    Belongs(u, d) => u \in drawn /\ \A e \in Dev : Belongs(u, e) => e = d

(* The operation whose device need not be open under luks- yet.            *)
Unopened == pc \in {"format", "wait", "uuid", "open", "failed"}

Nameless ==
  /\ \A d \in made :
       sig[d].kind = "luks" /\ seen[d] = NoUUID
         => mapper[NoUUID] = d \/ (Unopened /\ d = dev)
  /\ pc = "open" /\ seen[dev] = NoUUID => uuid = NoUUID
  /\ pc \in {"mkfs", "label", "tryopen", "mount"} /\ uuid = NoUUID
       => mapper[NoUUID] = dev

(* How far luks-format has come with a device that had no signature.       *)
Undisturbed ==
  /\ pc = "format" => sig[dev].kind = "blank" /\ seen[dev] = NoUUID /\ fs # NoFs
  /\ pc = "wait" => seen[dev] \in {NoUUID, sig[dev].uuid} /\ fs # NoFs
  /\ pc \in {"uuid", "open", "mkfsuuid", "mkfs", "labeluuid", "label", "done"}
       => seen[dev] = sig[dev].uuid
  /\ pc = "open" => uuid = sig[dev].uuid
  /\ pc \in {"mkfsuuid", "mkfs", "labeluuid", "label", "done"}
       => mapper[sig[dev].uuid] = dev

Fresh == clean /\ kind = "luks-format" => Undisturbed

Ready ==
  /\ \A d \in ready : seen[d] = sig[d].uuid /\ mapper[sig[d].uuid] = d
  /\ pc = "tryopen" /\ dev \in ready => uuid = sig[dev].uuid
  /\ pc = "locked" => dev \notin ready

(* How far an operation that encrypts has come with what it puts inside.   *)
Inside ==
  /\ pc \in {"mkfsuuid", "mkfs", "labeluuid", "label"} => fs = wantFs /\ Open(dev)
  /\ pc \in Encrypting \cup {"format"} => kind \in {"mkpart", "luks-format"}
  /\ pc \in Opening \cup {"isluks"} => kind = "mount"
  /\ pc \in {"labeluuid", "label"} => inner[dev].fs = wantFs

IInv ==
  /\ TypeInv /\ InHeader /\ OneOwner /\ Nameless /\ MountsOwn
  /\ Fresh /\ Ready /\ Inside /\ InnerDelivered

-----------------------------------------------------------------------------
LEMMA Signatures ==
  /\ BlankSig \in Sig
  /\ \A u \in UUID : [kind |-> "luks", uuid |-> u] \in Sig
  /\ \A s \in Sig : /\ s.uuid \in MaybeUUID
                    /\ s.kind = "blank" <=> s.uuid \notin UUID
                    /\ s.kind = "blank" <=> s.uuid = NoUUID
BY NoUUIDAssumption DEF Sig, BlankSig, MaybeUUID

LEMMA Contents ==
  /\ Blank \in Content
  /\ \A f \in Fs : [fs |-> f, label |-> NoName] \in Content
  /\ \A c \in Content, l \in Name : Relabel(c, l) \in Content
BY DEF Blank, Content, Fs, Name, NoFs, Relabel

LEMMA InitInv == Init => IInv
<1> SUFFICES ASSUME Init PROVE IInv
  OBVIOUS
<1>1. TypeInv
  <2>1. clean \in BOOLEAN
    BY Zenon DEF Init
  <2>2. /\ sig \in [Dev -> Sig] /\ drawn \subseteq UUID
        /\ seen \in [Dev -> MaybeUUID]
    BY Signatures DEF Init, MaybeUUID
  <2>3. /\ mapper \in [MaybeUUID -> Dev \cup {NoDev}]
        /\ inner \in [Dev -> Content] /\ mounted \in [Dev -> Dev \cup {NoDev}]
    BY Contents DEF Init
  <2> QED
    BY <2>1, <2>2, <2>3
    DEF Init, TypeInv, TypeOK, Running, Fs, Name, NoFs, MaybeUUID
<1>2. OneOwner
  <2> SUFFICES ASSUME NEW u \in UUID, NEW d \in Dev, Belongs(u, d)
               PROVE  u \in drawn /\ \A e \in Dev : Belongs(u, e) => e = d
    BY DEF OneOwner
  <2>1. \A e \in Dev : Belongs(u, e) => sig[e].uuid = u
    BY NoUUIDAssumption, NoDevAssumption DEF Init, Belongs, MaybeUUID
  <2> QED
    BY <2>1, Signatures, NoUUIDAssumption DEF Init
<1>3. Nameless
  BY Signatures DEF Init, Nameless
<1>4. Fresh
  <2>1. ~clean
    BY DEF Init
  <2> QED
    BY <2>1, Zenon DEF Fresh
<1>5. InHeader /\ MountsOwn /\ Ready /\ Inside /\ InnerDelivered
  BY DEF Init, InHeader, MountsOwn, Ready, Inside, InnerDelivered, Encrypting,
         Opening
<1> QED
  BY <1>1, <1>2, <1>3, <1>4, <1>5 DEF IInv

-----------------------------------------------------------------------------
(* Types, and the device of the operation, in one step.                    *)
LEMMA TypeNext == TypeInv /\ [Next]_vars => TypeInv'
<1> SUFFICES ASSUME TypeInv, [Next]_vars PROVE TypeInv'
  OBVIOUS
<1> USE DEF TypeInv, TypeOK, disks, locals
<1>1. ASSUME NEW d \in Dev, NEW f \in FsTypes, NEW l \in Name, BeginFormat(d, f, l)
      PROVE  TypeInv'
  <2>1. clean' \in BOOLEAN
    BY <1>1, Zenon DEF BeginFormat
  <2> QED
    BY <1>1, <2>1 DEF BeginFormat, Running, Fs
<1>2. ASSUME NEW d \in Dev, NEW f \in FsTypes, NEW l \in Name, BeginMkpart(d, f, l)
      PROVE  TypeInv'
  <2>1. PICK s \in {sig[d], BlankSig} :
          /\ sig' = [sig EXCEPT ![d] = s]
          /\ fs' \in IF s.kind = "plain" THEN FsTypes ELSE {NoFs}
          /\ clean' = (s.kind = "blank")
    BY <1>2 DEF BeginMkpart
  <2>2. clean' \in BOOLEAN
    BY <2>1, Zenon
  <2>3. sig' \in [Dev -> Sig] /\ fs' \in Fs
    BY <2>1, Signatures DEF Fs
  <2> QED
    BY <1>2, <2>2, <2>3 DEF BeginMkpart, Running, Fs
<1>3. CASE LuksFormat
  <2>1. sig' \in [Dev -> Sig] /\ drawn' \subseteq UUID /\ inner' \in [Dev -> Content]
    BY <1>3, Signatures, Contents DEF LuksFormat
  <2> QED
    BY <1>3, <2>1 DEF LuksFormat, Running
<1>4. CASE WaitUntilAvailable
  BY <1>4 DEF WaitUntilAvailable, Running
<1>5. CASE GetUUID
  <2>1. pc \in Running /\ pc' \in Running
    BY <1>5 DEF GetUUID, AfterUUID, Running
  <2> QED
    BY <1>5, <2>1 DEF GetUUID, Running
<1>6. CASE LuksOpen
  BY <1>6 DEF LuksOpen, Running
<1>7. CASE InnerMakeFs
  <2>1. inner' \in [Dev -> Content]
    BY <1>7, Contents DEF InnerMakeFs
  <2> QED
    BY <1>7, <2>1 DEF InnerMakeFs, Running
<1>8. CASE InnerSetLabel
  <2>1. inner' \in [Dev -> Content]
    BY <1>8, Contents DEF InnerSetLabel
  <2> QED
    BY <1>8, <2>1 DEF InnerSetLabel, Running
<1>9. ASSUME NEW d \in Dev, BeginMount(d) PROVE TypeInv'
  BY <1>9 DEF BeginMount, Running
<1>10. CASE IsLuks
  BY <1>10 DEF IsLuks, Running
<1>11. CASE LuksTryOpen
  BY <1>11 DEF LuksTryOpen, Running
<1>12. CASE MountMapping
  BY <1>12 DEF MountMapping, Running
<1>14. CASE Return
  BY <1>14, Zenon DEF Return, Forget, Running, Fs, Name, MaybeUUID
<1>15. CASE Fail
  BY <1>15 DEF Fail, Running
<1>16. CASE Rerun
  BY <1>16 DEF Rerun, Forget, Running, Fs, Name, MaybeUUID
<1>17. CASE Reboot
  BY <1>17, Signatures DEF Reboot, Forget, Running, Fs, Name, MaybeUUID
<1>18. ASSUME NEW d \in Dev, UdevNotice(d) PROVE TypeInv'
  BY <1>18, Signatures DEF UdevNotice
<1>19. ASSUME NEW d \in Dev, RemoveDevice(d) PROVE TypeInv'
  BY <1>19 DEF RemoveDevice, MaybeUUID, Running
<1>20. CASE UNCHANGED vars
  BY <1>20 DEF vars
<1> QED
  BY <1>1, <1>2, <1>3, <1>4, <1>5, <1>6, <1>7, <1>8, <1>9, <1>10, <1>11, <1>12,
     <1>14, <1>15, <1>16, <1>17, <1>18, <1>19, <1>20 DEF Next

(* The commands that follow a LUKS header find it there.                   *)
LEMMA HeaderNext == TypeInv /\ InHeader /\ [Next]_vars => InHeader'
<1> SUFFICES ASSUME TypeInv, InHeader, [Next]_vars PROVE InHeader'
  OBVIOUS
<1>1. CASE pc' \notin Encrypting \cup Opening
  BY <1>1 DEF InHeader
<1>2. CASE pc \in Encrypting \cup Opening /\ UNCHANGED <<sig, dev>>
  BY <1>2 DEF InHeader
<1>3. CASE LuksFormat
  BY <1>3 DEF LuksFormat, locals, InHeader, TypeInv, TypeOK, Running
<1>4. CASE IsLuks
  BY <1>4 DEF IsLuks, locals, InHeader, Encrypting, Opening
<1>5. CASE UNCHANGED vars
  BY <1>5 DEF vars, InHeader
<1>6. CASE GetUUID
  BY <1>1, <1>2, <1>6 DEF GetUUID, AfterUUID, disks, locals, Encrypting, Opening
<1> QED
  BY <1>1, <1>2, <1>3, <1>4, <1>5, <1>6
  DEF Next, BeginFormat, BeginMkpart, WaitUntilAvailable, LuksOpen, InnerMakeFs,
      InnerSetLabel, BeginMount, LuksTryOpen, MountMapping, Return,
      Fail, Rerun, Reboot, UdevNotice, RemoveDevice, disks, locals, Encrypting,
      Opening

-----------------------------------------------------------------------------
(* A step that draws no UUID puts one only where it is the device's own.   *)
LEMMA BelongsKept ==
  ASSUME TypeInv, OneOwner, UNCHANGED drawn,
         \A u \in UUID, d \in Dev : Belongs(u, d)' => Belongs(u, d)
  PROVE  OneOwner'
BY DEF OneOwner

LEMMA OwnerNext == TypeInv /\ OneOwner /\ [Next]_vars => OneOwner'
<1> SUFFICES ASSUME TypeInv, OneOwner, [Next]_vars PROVE OneOwner'
  OBVIOUS
<1> USE DEF TypeInv, TypeOK, disks, locals
<1>1. CASE UNCHANGED <<sig, seen, mapper, drawn, dev, uuid>>
  BY <1>1, BelongsKept DEF Belongs
<1>2. ASSUME NEW d \in Dev, NEW f \in FsTypes, NEW l \in Name,
             BeginFormat(d, f, l) \/ BeginMkpart(d, f, l)
      PROVE  OneOwner'
  <2>1. uuid' = NoUUID /\ UNCHANGED <<seen, mapper, drawn>>
    BY <1>2 DEF BeginFormat, BeginMkpart
  <2>2. \A e \in Dev : sig'[e] \in {sig[e], BlankSig}
    BY <1>2 DEF BeginFormat, BeginMkpart
  <2>3. \A u \in UUID, e \in Dev : sig'[e].uuid = u => sig[e].uuid = u
    BY <2>2, NoUUIDAssumption DEF BlankSig
  <2> QED
    BY <2>1, <2>3, NoUUIDAssumption, BelongsKept DEF Belongs
<1>3. CASE LuksFormat
  <2>1. PICK v \in UUID \ drawn :
          /\ sig' = [sig EXCEPT ![dev] = [kind |-> "luks", uuid |-> v]]
          /\ drawn' = drawn \cup {v}
    BY <1>3 DEF LuksFormat
  <2>2. UNCHANGED <<seen, mapper, dev, uuid>> /\ dev \in Dev
    BY <1>3 DEF LuksFormat, Running
  <2>3. \A u \in UUID, e \in Dev :
          Belongs(u, e)' => Belongs(u, e) \/ (u = v /\ e = dev)
    <3> SUFFICES ASSUME NEW u \in UUID, NEW e \in Dev, Belongs(u, e)'
                 PROVE  Belongs(u, e) \/ (u = v /\ e = dev)
      OBVIOUS
    <3>1. CASE sig'[e].uuid = u
      BY <2>1, <2>2, <3>1 DEF Belongs
    <3>2. CASE seen'[e] = u \/ mapper'[u] = e \/ (dev' = e /\ uuid' = u)
      BY <2>2, <3>2 DEF Belongs
    <3> QED
      BY <3>1, <3>2 DEF Belongs
  <2>4. \A e \in Dev : ~Belongs(v, e)
    BY <2>1 DEF OneOwner
  <2> QED
    BY <2>1, <2>3, <2>4 DEF OneOwner
<1>4. CASE GetUUID
  BY <1>4, BelongsKept DEF GetUUID, Belongs
<1>5. CASE LuksOpen
  <2>1. \A u \in UUID, e \in Dev : mapper'[u] = e => mapper[u] = e \/ (dev = e /\ uuid = u)
    BY <1>5 DEF LuksOpen, MaybeUUID
  <2> QED
    BY <1>5, <2>1, BelongsKept DEF LuksOpen, Belongs
<1>6. CASE Return \/ Rerun
  <2>1. UNCHANGED <<sig, seen, mapper, drawn>> /\ dev' = NoDev
    BY <1>6 DEF Return, Rerun, Forget
  <2>2. \A u \in UUID, e \in Dev : Belongs(u, e)' => Belongs(u, e)
    BY <2>1, NoDevAssumption DEF Belongs
  <2> QED
    BY <2>1, <2>2, BelongsKept
<1>7. CASE Reboot
  <2>1. \A u \in UUID, e \in Dev : Belongs(u, e)' => sig[e].uuid = u
    BY <1>7, NoDevAssumption, NoUUIDAssumption DEF Reboot, Forget, Belongs, MaybeUUID
  <2> QED
    BY <1>7, <2>1, BelongsKept DEF Reboot, Belongs
<1>8. ASSUME NEW d \in Dev, UdevNotice(d) \/ RemoveDevice(d) PROVE OneOwner'
  <2>1. \A e \in Dev : seen'[e] \in {seen[e], sig[e].uuid, NoUUID}
    BY <1>8 DEF UdevNotice, RemoveDevice
  <2>2. UNCHANGED <<sig, mapper, drawn, dev, uuid>>
    BY <1>8 DEF UdevNotice, RemoveDevice
  <2>3. \A u \in UUID, e \in Dev : seen'[e] = u => seen[e] = u \/ sig[e].uuid = u
    BY <2>1, NoUUIDAssumption
  <2> QED
    BY <2>2, <2>3, BelongsKept DEF Belongs
<1>9. ASSUME NEW d \in Dev, BeginMount(d) PROVE OneOwner'
  <2>1. uuid' = NoUUID /\ UNCHANGED <<sig, seen, mapper, drawn>>
    BY <1>9 DEF BeginMount
  <2> QED
    BY <2>1, NoUUIDAssumption, BelongsKept DEF Belongs
<1>10. CASE UNCHANGED vars
  BY <1>1, <1>10 DEF vars
<1> QED
  BY <1>1, <1>2, <1>3, <1>4, <1>5, <1>6, <1>7, <1>8, <1>9, <1>10
  DEF Next, WaitUntilAvailable, InnerMakeFs, InnerSetLabel, IsLuks, LuksTryOpen,
      MountMapping, Fail

-----------------------------------------------------------------------------
(* What is open under the name of the device's own UUID is its container.  *)
LEMMA OwnMapping ==
  ASSUME TypeInv, OneOwner, uuid \in UUID, dev \in Dev, mapper[uuid] # NoDev
  PROVE  mapper[uuid] = dev
<1>1. mapper[uuid] \in Dev
  BY DEF TypeInv, TypeOK
<1>2. Belongs(uuid, mapper[uuid]) /\ Belongs(uuid, dev)
  BY DEF Belongs
<1> QED
  BY <1>1, <1>2 DEF OneOwner

(* The name luks- is given away once, and only by an operation whose       *)
(* device has no recorded UUID.                                            *)
LEMMA NamelessNext ==
  ASSUME TypeInv, InHeader, OneOwner, Nameless, [Next]_vars
  PROVE  Nameless'
<1> USE DEF TypeInv, TypeOK
<1> DEFINE Lagging(d) == sig[d].kind = "luks" /\ seen[d] = NoUUID
<1> DEFINE Naming == {"mkfs", "label", "tryopen", "mount"}
<1>1. ASSUME NEW d \in Dev, NEW f \in FsTypes, NEW l \in Name,
             BeginFormat(d, f, l) \/ BeginMkpart(d, f, l)
      PROVE  Nameless'
  <2>1. pc = "idle" /\ pc' = "format" /\ dev' = d /\ UNCHANGED <<seen, mapper>>
    BY <1>1 DEF BeginFormat, BeginMkpart, disks
  <2>2. made' \subseteq made \cup {d} /\ \A e \in made : e # d => sig'[e] = sig[e]
    BY <1>1 DEF BeginFormat, BeginMkpart, disks
  <2> QED
    BY <2>1, <2>2 DEF Nameless, Unopened
<1>2. CASE UNCHANGED <<made, sig, seen, mapper, dev, uuid>>
           /\ (Unopened => Unopened') /\ pc' \notin Naming /\ pc' # "open"
  BY <1>2 DEF Nameless
<1>3. CASE LuksFormat
  BY <1>3 DEF LuksFormat, locals, Nameless, Unopened
<1>4. CASE GetUUID
  <2>1. UNCHANGED <<made, sig, seen, mapper, dev>> /\ uuid' = seen[dev]
    BY <1>4 DEF GetUUID, disks, locals
  <2>2. \/ pc = "uuid" /\ pc' = "open"
        \/ pc \in Encrypting \cup Opening /\ ~Unopened /\ ~Unopened' /\ pc' \in Naming
    BY <1>4 DEF GetUUID, AfterUUID, Unopened, Encrypting, Opening
  <2>3. CASE pc = "uuid" /\ pc' = "open"
    BY <2>1, <2>3 DEF Nameless, Unopened
  <2>4. CASE pc \in Encrypting \cup Opening /\ ~Unopened /\ ~Unopened' /\ pc' \in Naming
    <3>1. dev \in made /\ sig[dev].kind = "luks"
      BY <2>4 DEF InHeader, Encrypting, Opening, Running
    <3> QED
      BY <2>1, <2>4, <3>1 DEF Nameless
  <2> QED
    BY <2>2, <2>3, <2>4
<1>5. CASE LuksOpen
  <2>1. /\ pc = "open" /\ pc' = "mkfsuuid" /\ mapper[uuid] = NoDev
        /\ mapper' = [mapper EXCEPT ![uuid] = dev]
        /\ UNCHANGED <<made, sig, seen, dev, uuid>>
    BY <1>5 DEF LuksOpen
  <2>2. ASSUME NEW d \in made, Lagging(d) PROVE mapper'[NoUUID] = d
    <3>1. CASE d = dev
      BY <2>1, <2>2, <3>1 DEF Nameless, MaybeUUID
    <3>2. CASE d # dev
      <4>1. mapper[NoUUID] = d /\ d # NoDev
        BY <2>2, <3>2, NoDevAssumption DEF Nameless
      <4> QED
        BY <2>1, <4>1
    <3> QED
      BY <3>1, <3>2
  <2> QED
    BY <2>1, <2>2 DEF Nameless
<1>7. CASE LuksTryOpen
  BY <1>7 DEF LuksTryOpen, disks, locals, Nameless, Unopened
<1>8. CASE Rerun
  <2>1. \A d \in made : seen[d] = sig[d].uuid
    BY <1>8 DEF Rerun
  <2> QED
    BY <1>8, <2>1, Signatures DEF Rerun, disks, Nameless
<1>9. CASE Reboot
  BY <1>9, Signatures DEF Reboot, Nameless
<1>10. CASE Return
  BY <1>10 DEF Return, Forget, disks, Nameless, Unopened
<1>11. ASSUME NEW d \in Dev, UdevNotice(d) PROVE Nameless'
  <2>1. UNCHANGED <<made, sig, mapper, dev, uuid, pc>>
    BY <1>11 DEF UdevNotice, locals
  <2>2. \A e \in made : Lagging(e)' => Lagging(e)
    BY <1>11, Signatures DEF UdevNotice
  <2>3. pc = "open" => Lagging(dev)' \/ seen'[dev] # NoUUID
    BY <1>11, <2>1 DEF UdevNotice, InHeader, Encrypting
  <2> QED
    BY <2>1, <2>2, <2>3 DEF Nameless, Unopened
<1>12. ASSUME NEW d \in Dev, RemoveDevice(d) PROVE Nameless'
  BY <1>12 DEF RemoveDevice, locals, Nameless, Unopened
<1>13. ASSUME NEW d \in Dev, BeginMount(d) PROVE Nameless'
  BY <1>13 DEF BeginMount, disks, Nameless, Unopened
<1>14. CASE UNCHANGED vars
  BY <1>14 DEF vars, Nameless, Unopened
<1> QED
  BY <1>1, <1>2, <1>3, <1>4, <1>5, <1>7, <1>8, <1>9, <1>10, <1>11, <1>12,
     <1>13, <1>14
  DEF Next, WaitUntilAvailable, InnerMakeFs, InnerSetLabel, IsLuks, MountMapping,
      Fail, disks, locals, Unopened

(* OwnContainer, and the same of the name that Mount mounts.               *)
LEMMA OwnName ==
  ASSUME TypeInv, OneOwner, Nameless, pc \in {"mkfs", "label", "mount"}
  PROVE  mapper[uuid] \in {dev, NoDev}
<1>1. CASE uuid = NoUUID
  BY <1>1 DEF Nameless
<1>2. CASE uuid \in UUID
  BY <1>2, OwnMapping DEF TypeInv, TypeOK, Running
<1> QED
  BY <1>1, <1>2 DEF TypeInv, TypeOK, MaybeUUID

LEMMA MountsNext ==
  ASSUME TypeInv, OneOwner, Nameless, MountsOwn, [Next]_vars
  PROVE  MountsOwn'
<1>1. CASE MountMapping
  BY <1>1, OwnName DEF MountMapping, MountsOwn, TypeInv, TypeOK
<1>2. CASE IsLuks
  BY <1>2 DEF IsLuks, MountsOwn, TypeInv, TypeOK
<1>3. CASE Reboot
  BY <1>3 DEF Reboot, MountsOwn
<1>4. CASE UNCHANGED mounted
  BY <1>4 DEF MountsOwn
<1> QED
  BY <1>1, <1>2, <1>3, <1>4
  DEF Next, BeginFormat, BeginMkpart, LuksFormat, WaitUntilAvailable, GetUUID,
      LuksOpen, InnerMakeFs, InnerSetLabel, BeginMount, LuksTryOpen,
      Return, Fail, Rerun, UdevNotice, RemoveDevice, disks, vars

(* A file system that the recipe asks for is not the empty one, so the     *)
(* wait of luks-format does not end before there is a UUID.                *)
LEMMA FreshNext ==
  ASSUME TypeInv, InHeader, Fresh, Inside, [Next]_vars
  PROVE  Fresh'
<1> SUFFICES ASSUME clean', kind' = "luks-format" PROVE Undisturbed'
  BY Zenon DEF Fresh
<1>1. ASSUME NEW d \in Dev, NEW f \in FsTypes, NEW l \in Name, BeginFormat(d, f, l)
      PROVE  Undisturbed'
  <2>1. sig[d].kind = "blank" /\ seen[d] = NoUUID
    BY <1>1, Zenon DEF BeginFormat
  <2> QED
    BY <1>1, <2>1, FsTypesAssumption DEF BeginFormat, disks, NoFs, Undisturbed
<1>2. CASE UNCHANGED <<clean, kind>>
  <2> USE DEF TypeInv, TypeOK, disks, locals
  <2>1. Undisturbed
    BY <1>2, Zenon DEF Fresh
  <2>2. CASE LuksFormat
    BY <2>1, <2>2, Signatures DEF LuksFormat, Undisturbed, Running
  <2>3. CASE WaitUntilAvailable
    BY <2>1, <2>3 DEF WaitUntilAvailable, Undisturbed
  <2>4. CASE GetUUID
    BY <2>1, <2>4 DEF GetUUID, AfterUUID, Undisturbed
  <2>5. CASE LuksOpen
    BY <2>1, <2>5 DEF LuksOpen, Undisturbed
  <2>6. CASE InnerMakeFs \/ InnerSetLabel
    BY <2>1, <2>6 DEF InnerMakeFs, InnerSetLabel, Undisturbed
  <2>7. CASE IsLuks \/ LuksTryOpen \/ MountMapping
    BY <1>2, <2>7 DEF IsLuks, LuksTryOpen, MountMapping, Inside, Opening
  <2>8. ASSUME NEW d \in Dev, UdevNotice(d) PROVE Undisturbed'
    BY <2>1, <2>8, Signatures DEF UdevNotice, Undisturbed
  <2>9. CASE pc' \in {"idle", "failed", "isluks"}
    BY <2>9 DEF Undisturbed
  <2>10. CASE UNCHANGED vars
    BY <2>1, <2>10 DEF vars, Undisturbed
  <2>11. ASSUME NEW d \in Dev, NEW f \in FsTypes, NEW l \in Name,
                BeginFormat(d, f, l) \/ BeginMkpart(d, f, l)
         PROVE  Undisturbed'
    BY <1>1, <2>11 DEF BeginMkpart
  <2> QED
    BY <2>2, <2>3, <2>4, <2>5, <2>6, <2>7, <2>8, <2>9, <2>10, <2>11
    DEF Next, BeginMount, Return, Fail, Rerun, Reboot, RemoveDevice
<1>3. ASSUME NEW d \in Dev, NEW f \in FsTypes, NEW l \in Name, BeginMkpart(d, f, l)
      PROVE  FALSE
  BY <1>3 DEF BeginMkpart
<1>4. Return \/ Rerun \/ Reboot => FALSE
  BY DEF Return, Rerun, Reboot, Forget
<1>5. ASSUME NEW d \in Dev, BeginMount(d) PROVE FALSE
  BY <1>5 DEF BeginMount
<1> QED
  BY <1>1, <1>2, <1>3, <1>4, <1>5
  DEF Next, LuksFormat, WaitUntilAvailable, GetUUID, LuksOpen, InnerMakeFs,
      InnerSetLabel, IsLuks, LuksTryOpen, MountMapping, Fail,
      UdevNotice, RemoveDevice, locals, vars

(* The devices that luks-format has finished are open until a reboot.      *)
LEMMA ReadyNext ==
  ASSUME TypeInv, InHeader, OneOwner, Fresh, Ready, [Next]_vars
  PROVE  Ready'
<1> USE DEF TypeInv, TypeOK, disks, locals
<1>1. \A d \in ready : d \in made /\ d # NoDev /\ Open(d) /\ sig[d].uuid \in MaybeUUID
  BY NoDevAssumption, Signatures DEF Ready, Open
<1>2. ASSUME NEW d \in Dev, NEW f \in FsTypes, NEW l \in Name,
             BeginFormat(d, f, l) \/ BeginMkpart(d, f, l)
      PROVE  Ready'
  <2>1. \A e \in ready : sig'[e] = sig[e]
    BY <1>1, <1>2 DEF BeginFormat, BeginMkpart
  <2> QED
    BY <1>2, <2>1 DEF BeginFormat, BeginMkpart, Ready
<1>3. CASE LuksFormat
  <2>1. dev \notin ready
    BY <1>1, <1>3 DEF LuksFormat
  <2>2. \A e \in ready : sig'[e] = sig[e]
    BY <1>1, <1>3, <2>1 DEF LuksFormat
  <2> QED
    BY <1>3, <2>2 DEF LuksFormat, Ready
<1>4. CASE GetUUID
  BY <1>4 DEF GetUUID, AfterUUID, Ready
<1>5. CASE LuksOpen
  <2>1. mapper[uuid] = NoDev /\ mapper' = [mapper EXCEPT ![uuid] = dev]
    BY <1>5 DEF LuksOpen
  <2>2. \A e \in ready : mapper'[sig[e].uuid] = e
    BY <1>1, <2>1 DEF Ready
  <2> QED
    BY <1>5, <2>2 DEF LuksOpen, Ready
<1>6. CASE LuksTryOpen
  <2>1. dev \in ready => mapper[uuid] # NoDev
    BY <1>1, <1>6 DEF LuksTryOpen, Ready
  <2> QED
    BY <1>6, <2>1 DEF LuksTryOpen, Ready
<1>7. CASE Return
  <2>1. ready' = ready \/ (kind = "luks-format" /\ clean /\ ready' = ready \cup {dev})
    BY <1>7, Zenon DEF Return
  <2>2. CASE ready' = ready
    BY <1>7, <2>2 DEF Return, Ready
  <2>3. CASE kind = "luks-format" /\ clean /\ ready' = ready \cup {dev}
    <3>1. Undisturbed
      BY <2>3, Zenon DEF Fresh
    <3>2. seen[dev] = sig[dev].uuid /\ mapper[sig[dev].uuid] = dev
      BY <1>7, <3>1 DEF Return, Undisturbed
    <3> QED
      BY <1>7, <2>3, <3>2 DEF Return, Ready
  <2> QED
    BY <2>1, <2>2, <2>3
<1>8. CASE Reboot
  BY <1>8 DEF Reboot, Ready
<1>9. ASSUME NEW d \in Dev, UdevNotice(d) PROVE Ready'
  BY <1>9 DEF UdevNotice, Ready
<1>10. ASSUME NEW d \in Dev, RemoveDevice(d) PROVE Ready'
  BY <1>10 DEF RemoveDevice, Ready
<1>11. CASE /\ UNCHANGED <<ready, sig, seen, mapper>>
            /\ pc' \notin {"tryopen", "locked"} \/ UNCHANGED <<pc, dev, uuid>>
  BY <1>11 DEF Ready
<1> QED
  BY <1>2, <1>3, <1>4, <1>5, <1>6, <1>7, <1>8, <1>9, <1>10, <1>11
  DEF Next, WaitUntilAvailable, InnerMakeFs, InnerSetLabel, BeginMount, IsLuks,
      MountMapping, Fail, Rerun, vars

-----------------------------------------------------------------------------
LEMMA InsideNext ==
  ASSUME TypeInv, OneOwner, Nameless, Inside, [Next]_vars
  PROVE  Inside'
<1> USE DEF TypeInv, TypeOK, disks, locals, Encrypting, Opening
<1>1. CASE pc' \in {"idle", "failed", "locked", "done"}
  BY <1>1 DEF Inside
<1>2. ASSUME NEW d \in Dev, NEW f \in FsTypes, NEW l \in Name,
             BeginFormat(d, f, l) \/ BeginMkpart(d, f, l)
      PROVE  Inside'
  BY <1>2 DEF BeginFormat, BeginMkpart, Inside
<1>3. CASE LuksFormat \/ WaitUntilAvailable
  BY <1>3 DEF LuksFormat, WaitUntilAvailable, Inside
<1>4. CASE GetUUID
  <2>1. Open(dev)' <=> Open(dev)
    BY <1>4 DEF GetUUID, Open
  <2> QED
    BY <1>4, <2>1 DEF GetUUID, AfterUUID, Inside
<1>5. CASE LuksOpen
  <2>1. Open(dev)'
    BY <1>5 DEF LuksOpen, Open
  <2> QED
    BY <1>5, <2>1 DEF LuksOpen, Inside
<1>6. CASE InnerMakeFs
  <2>1. mapper[uuid] = dev /\ dev \in Dev
    BY <1>6, OwnName DEF InnerMakeFs, Running
  <2>2. inner'[dev].fs = wantFs
    BY <1>6, <2>1 DEF InnerMakeFs, Inside
  <2>3. Open(dev)'
    BY <1>6 DEF InnerMakeFs, Inside, Open
  <2> QED
    BY <1>6, <2>2, <2>3 DEF InnerMakeFs, Inside
<1>7. ASSUME NEW d \in Dev, BeginMount(d) PROVE Inside'
  BY <1>7 DEF BeginMount, Inside
<1>8. CASE IsLuks \/ LuksTryOpen
  BY <1>8 DEF IsLuks, LuksTryOpen, Inside
<1>9. CASE UNCHANGED <<pc, kind, dev, fs, wantFs, mapper, inner>>
  BY <1>9 DEF Inside, Open
<1> QED
  BY <1>1, <1>2, <1>3, <1>4, <1>5, <1>6, <1>7, <1>8, <1>9
  DEF Next, InnerSetLabel, MountMapping, Return, Fail, Rerun, Reboot, UdevNotice,
      RemoveDevice, vars

LEMMA DeliveredNext ==
  ASSUME TypeInv, OneOwner, Nameless, Inside, InnerDelivered, [Next]_vars
  PROVE  InnerDelivered'
<1> USE DEF TypeInv, TypeOK, disks, locals
<1>1. CASE pc' # "done"
  BY <1>1 DEF InnerDelivered
<1>2. CASE InnerMakeFs /\ pc' = "done"
  <2>1. mapper[uuid] = dev /\ dev \in Dev
    BY <1>2, OwnName DEF InnerMakeFs, Running
  <2>2. inner'[dev].fs = wantFs /\ label = NoName /\ UNCHANGED <<dev, wantFs, label>>
    BY <1>2, <2>1 DEF InnerMakeFs, Inside
  <2>3. Open(dev)'
    BY <1>2 DEF InnerMakeFs, Inside, Open
  <2> QED
    BY <2>2, <2>3 DEF InnerDelivered
<1>3. CASE InnerSetLabel
  <2>1. dev \in Dev /\ Open(dev)' /\ fs = wantFs /\ inner[dev].fs = wantFs
    BY <1>3 DEF InnerSetLabel, Inside, Open, Running
  <2>2. CASE fs \in Unlabelled /\ UNCHANGED inner
    BY <1>3, <2>1, <2>2 DEF InnerSetLabel, InnerDelivered
  <2>3. CASE /\ fs \notin Unlabelled /\ mapper[uuid] # NoDev
             /\ inner' = [inner EXCEPT ![mapper[uuid]] = Relabel(@, label)]
    <3>1. mapper[uuid] = dev
      BY <1>3, <2>3, OwnName DEF InnerSetLabel
    <3>2. inner[dev] \in Content /\ inner'[dev] = Relabel(inner[dev], label)
      BY <2>1, <2>3, <3>1
    <3>3. inner'[dev].fs = wantFs /\ (label # NoName => inner'[dev].label = label)
      BY <2>1, <3>2 DEF Relabel, Content
    <3> QED
      BY <1>3, <2>1, <3>3 DEF InnerSetLabel, InnerDelivered
  <2> QED
    BY <1>3, <2>2, <2>3 DEF InnerSetLabel
<1>4. CASE IsLuks \/ MountMapping
  BY <1>4 DEF IsLuks, MountMapping, Inside, InnerDelivered, Opening
<1>5. CASE UNCHANGED <<pc, kind, dev, wantFs, label, mapper, inner>>
  BY <1>5 DEF InnerDelivered, Open
<1> QED
  BY <1>1, <1>2, <1>3, <1>4, <1>5
  DEF Next, BeginFormat, BeginMkpart, LuksFormat, WaitUntilAvailable, GetUUID,
      AfterUUID, LuksOpen, BeginMount, LuksTryOpen, Return, Fail,
      Rerun, Reboot, UdevNotice, RemoveDevice, vars

-----------------------------------------------------------------------------
LEMMA IInvNext == IInv /\ [Next]_vars => IInv'
BY TypeNext, HeaderNext, OwnerNext, NamelessNext, MountsNext, FreshNext,
   ReadyNext, InsideNext, DeliveredNext DEF IInv

LEMMA IInvAlways == Spec => []IInv
<1>1. Init => IInv
  BY InitInv
<1>2. IInv /\ [Next]_vars => IInv'
  BY IInvNext
<1> QED
  BY <1>1, <1>2, PTL DEF Spec

(* Every variable keeps its type, and each command of an operation has the *)
(* device it works on (recipe.go:125-210, 318-365, 625-690).               *)
THEOREM TypeCorrect == Spec => []TypeOK
<1>1. IInv => TypeOK
  BY DEF IInv, TypeInv
<1> QED
  BY <1>1, IInvAlways, PTL

(* LUKSMakeFs and LUKSSetLabel never write into another device's container *)
(* (filesystem.go:66-71, partition.go:309-314).                            *)
THEOREM WritesOwn == Spec => []OwnContainer
<1>1. IInv => OwnContainer
  BY OwnName DEF IInv, OwnContainer
<1> QED
  BY <1>1, IInvAlways, PTL

(* Mount never mounts another device's container (partition.go:38-80).     *)
THEOREM MountsItsOwn == Spec => []MountsOwn
<1>1. IInv => MountsOwn
  BY DEF IInv
<1> QED
  BY <1>1, IInvAlways, PTL

(* A device that luks-format finished, starting from one without a         *)
(* signature, is open under its header's UUID until the next boot, where   *)
(* Mount finds it (luks.go:71-80, partition.go:38-61).                     *)
THEOREM StaysOpen == Spec => []MountFindsMapping
<1>1. IInv => MountFindsMapping
  BY DEF IInv, Ready, MountFindsMapping
<1> QED
  BY <1>1, IInvAlways, PTL

(* What the recipe asked for is in the device's own container when the     *)
(* operation is done (recipe.go:180-205, 345-362).                         *)
THEOREM DeliversInside == Spec => []InnerDelivered
<1>1. IInv => InnerDelivered
  BY DEF IInv
<1> QED
  BY <1>1, IInvAlways, PTL
==============================================================================
