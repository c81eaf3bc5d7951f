----------------------------- MODULE AlbiusProofs -----------------------------
(***************************************************************************)
(* Theorems about Albius, for any recipes, images and number of runs.      *)
(*                                                                         *)
(* TypeOK is inductive once each command is known to run in a step of its  *)
(* operation (Belongs) and each bind is counted by the steps (BindsCounted,*)
(* which needs that none is there before the first).  LiveUntouched needs  *)
(* that the root is mounted while the installer works on it (Mounting).    *)
(*                                                                         *)
(* Repeatable and Implements compare the root with the installation made   *)
(* in one go, After[at - 1].  RepeatInv knows of each reason to refuse a   *)
(* step that it is there too; ImplementsInv knows of each file what it has *)
(* from that installation, and what earlier runs can have left in it.      *)
(***************************************************************************)
EXTENDS Albius, SequenceFacts, SequenceTheorems, TLAPS

(* The operation whose command the program is in.                          *)
Belongs ==
  /\ pc = "step" => at >= 1
  /\ pc = "useradd" => step.op = "adduser"
  /\ pc \in Loops => step.op = pc

(* The root is mounted after the mounting phase, and nothing is bound into *)
(* it before the steps.                                                    *)
Mounting ==
  /\ pc \in {"copy", "tables", "step"} \cup Commands => mounted
  /\ ~mounted \/ pc \in {"copy", "tables"} => binds = NoBinds

(* Each of the directories has been bound at most once in every step.      *)
BindsCounted ==
  pc \in {"step"} \cup Commands =>
    \A i \in DOMAIN RequiredBinds :
      binds[RequiredBinds[i]] <=
        IF pc = "step" \/ (pc = "bind" /\ arg <= i) THEN at - 1 ELSE at

TypeInv == TypeOK /\ Belongs /\ Mounting /\ BindsCounted

SitesTyped ==
  /\ DOMAIN sites = {"live", "root", "below"}
  /\ \A site \in DOMAIN sites : IsSystem(sites[site])

-----------------------------------------------------------------------------
(* Lemmas about recipes, systems and directories.                          *)

(* A recipe's list of steps.                                               *)
LEMMA PostIsSequence ==
  ASSUME recipe \in Recipes
  PROVE  /\ Len(recipe.post) \in Nat
         /\ DOMAIN recipe.post = 1..Len(recipe.post)
         /\ \A n \in DOMAIN recipe.post : IsStep(recipe.post[n])
<1>1. recipe.post \in Seq(ToSet(recipe.post))
  BY StepsAssumption DEF IsList
<1>2. \A s \in ToSet(recipe.post) : IsStep(s)
  BY StepsAssumption
<1>3. \A n \in DOMAIN recipe.post : recipe.post[n] \in ToSet(recipe.post)
  BY DEF ToSet
<1>. QED
  BY <1>1, <1>2, <1>3, LenProperties

(* A step begins with a command of its operation, and a loop with no       *)
(* parameters is no step at all.                                           *)
LEMMA FirstCommand ==
  ASSUME NEW s, IsStep(s)
  PROVE  /\ FirstOf(s) \in Commands \cup {"step"}
         /\ FirstOf(s) = "useradd" => s.op = "adduser"
         /\ FirstOf(s) \in Loops => s.op = FirstOf(s) /\ Arguments(s) # <<>>
<1>1. CASE s.op \in Loops
  <2>1. FirstOf(s) = IF Arguments(s) = <<>> THEN "step" ELSE s.op
    BY <1>1 DEF FirstOf, Loops
  <2>. QED
    BY <1>1, <2>1 DEF Loops, Commands
<1>2. CASE s.op \in {"adduser", "locale", "grub-install"}
  <2>1. FirstOf(s) \in {"useradd", "grep", "bind", "target"}
        /\ (s.op # "adduser" => FirstOf(s) # "useradd")
    BY <1>2 DEF FirstOf, Loops
  <2>. QED
    BY <1>2, <2>1 DEF Loops, Commands
<1>3. CASE s.op \in Operations \ (Loops \cup {"adduser", "locale", "grub-install"})
  <2>1. FirstOf(s) = s.op
    BY <1>3 DEF FirstOf
  <2>. QED
    BY <1>3, <2>1 DEF Operations, Loops, Commands
<1>. QED
  BY <1>1, <1>2, <1>3 DEF IsStep

LEMMA LoopArguments ==
  ASSUME NEW s, IsStep(s), s.op \in Loops
  PROVE  /\ Len(Arguments(s)) \in Nat
         /\ Arguments(s) # <<>> => Len(Arguments(s)) >= 1
<1>. DEFINE a == Arguments(s)
<1>1. a \in Seq(ToSet(a))
  BY DEF IsStep, IsList
<1>. HIDE DEF a
<1>2. Len(a) \in Nat /\ (a # <<>> => Len(a) # 0)
  BY <1>1, EmptySeq, LenProperties
<1>. QED
  BY <1>2 DEF a

(* The five directories are different.                                     *)
LEMMA BindDirs ==
  /\ Len(RequiredBinds) = 5 /\ DOMAIN RequiredBinds = 1..5
  /\ \A i \in 1..5 : RequiredBinds[i] \in ToSet(RequiredBinds)
  /\ \A dir \in ToSet(RequiredBinds) : \E i \in 1..5 : dir = RequiredBinds[i]
  /\ \A i, j \in 1..5 : RequiredBinds[i] = RequiredBinds[j] => i = j
BY DEF RequiredBinds, ToSet

(* Setting a field other than the content and the accounts.                *)
LEMMA FieldSet ==
  ASSUME NEW s, IsSystem(s), NEW f, f \notin {"content", "users"}, NEW v
  PROVE  IsSystem([s EXCEPT ![f] = v])
BY DEF IsSystem

LEMMA SiteEdited ==
  ASSUME SitesTyped, NEW site \in {"live", "root", "below"},
         NEW s, IsSystem(s), sites' = [sites EXCEPT ![site] = s]
  PROVE  SitesTyped'
BY DEF SitesTyped, IsSystem

(* The sites that the commands of a step work on.                          *)
LEMMA Places ==
  /\ Target \in {"live", "root", "below"}
  /\ Site \in {"live", "root", "below"}
  /\ SitesTyped => IsSystem(sys) /\ IsSystem(sites[Target])
BY DEF Target, Site, sys, SitesTyped

-----------------------------------------------------------------------------
(* The commands of a step.                                                 *)
Plain == Commands \ (Loops \cup {"bind"})

LEMMA CommandNames ==
  /\ Loops \subseteq Commands /\ "bind" \in Commands \ Loops
  /\ Commands \cap (Ended \cup {"setup", "mount", "copy", "tables", "step"}) = {}
  /\ {"useradd", "write-config"} \subseteq Plain
BY DEF Loops, Commands, Ended, Plain

(* What a command in a step may rely on.                                   *)
LEMMA InStep ==
  ASSUME TypeInv, pc \in Commands
  PROVE  /\ recipe \in Recipes /\ Len(recipe.post) \in Nat
         /\ DOMAIN recipe.post = 1..Len(recipe.post)
         /\ at \in 1..Len(recipe.post) /\ IsStep(step)
         /\ mounted = TRUE /\ SitesTyped
<1>1. recipe \in Recipes /\ at \in DOMAIN recipe.post /\ SitesTyped
  BY DEF TypeInv, TypeOK, SitesTyped
<1>2. mounted /\ mounted \in BOOLEAN
  BY Zenon DEF TypeInv, TypeOK, Mounting
<1>. QED
  BY <1>1, <1>2, PostIsSequence DEF step

(* A plain command, or the end of a loop, goes on to another plain         *)
(* command, to the next step or to the end of the run.                     *)
LEMMA Moved ==
  ASSUME TypeInv, pc \in Commands,
         NEW to \in (Plain \ {"useradd"}) \cup {"step", "refused", "failed"},
         Goes(pc, to), SitesTyped', UNCHANGED runs,
         config' # <<>> => to = "write-config",
         \/ UNCHANGED binds /\ pc # "bind"
         \/ /\ binds' \in [ToSet(RequiredBinds) -> 0..Len(recipe.post) + 1]
            /\ to # "step"
            /\ \A i \in 1..5 : binds'[RequiredBinds[i]] <= at
  PROVE  TypeInv'
<1>1. /\ pc' = to /\ arg' = 1 /\ at' = IF to = "step" THEN at + 1 ELSE at
      /\ UNCHANGED <<recipe, image, mounted>>
  BY DEF Goes
<1>2. /\ recipe \in Recipes /\ Len(recipe.post) \in Nat
      /\ DOMAIN recipe.post = 1..Len(recipe.post)
      /\ at \in 1..Len(recipe.post) /\ mounted
  BY InStep
<1>3. binds' \in [ToSet(RequiredBinds) -> 0..Len(recipe.post) + 1]
  BY DEF TypeInv, TypeOK
<1>4. /\ at' \in 0..Len(recipe.post) + 1
      /\ to \in Commands => at' \in DOMAIN recipe.post
      /\ to = "step" => at' >= 1
  BY <1>1, <1>2, CommandNames
<1>5. /\ to \notin Loops /\ to # "bind"
      /\ to \in Ended \cup {"setup", "mount", "copy", "tables", "step"} \cup Commands
  BY CommandNames DEF Plain, Ended
<1>6. TypeOK'
  <2>1. DOMAIN sites' = {"live", "root", "below"}
        /\ \A site \in DOMAIN sites' : IsSystem(sites'[site])
    BY DEF SitesTyped
  <2>2. arg' \in 1..(CASE pc' = "bind"   -> Len(RequiredBinds)
                       [] pc' \in Loops -> Len(Arguments(step'))
                       [] OTHER -> 1)
    BY <1>1, <1>5
  <2>3. recipe' \in Recipes /\ image' \in Images /\ runs' \in 0..MaxRuns
    BY <1>1 DEF TypeInv, TypeOK
  <2>4. mounted' \in BOOLEAN
    BY <1>1, Zenon DEF TypeInv, TypeOK
  <2>. QED
    BY <1>1, <1>3, <1>4, <1>5, <2>1, <2>2, <2>3, <2>4 DEF TypeOK
<1>7. Belongs'
  BY <1>1, <1>4, <1>5, CommandNames DEF Belongs
<1>8. Mounting'
  BY <1>1, <1>2, <1>5, CommandNames DEF Mounting, Plain
<1>9. BindsCounted'
  <2>1. SUFFICES ASSUME NEW i \in 1..5
                 PROVE  binds'[RequiredBinds[i]] <= at' - (IF to = "step" THEN 1 ELSE 0)
    BY <1>1, <1>2, <1>5, BindDirs DEF BindsCounted
  <2>2. ASSUME UNCHANGED binds, pc # "bind" PROVE binds'[RequiredBinds[i]] <= at
    BY <2>2, BindDirs, CommandNames DEF TypeInv, BindsCounted
  <2>3. binds'[RequiredBinds[i]] <= at
    BY <2>2
  <2>. QED
    BY <1>1, <1>2, <2>3
<1>. QED
  BY <1>6, <1>7, <1>8, <1>9 DEF TypeInv

(* A command that edits a system and leaves the rest.                      *)
LEMMA Edited ==
  ASSUME TypeInv, NEW from \in Plain,
         NEW to \in (Plain \ {"useradd"}) \cup {"step"}, to # "write-config",
         from # "write-config", NEW s, SitesTyped => IsSystem(s),
         Edits(from, to, s), UNCHANGED runs
  PROVE  TypeInv'
<1>1. pc = from /\ Goes(pc, to) /\ UNCHANGED <<binds, config>>
  BY DEF Edits, Goes, Keeps
<1>2. pc \in Commands /\ pc # "bind"
  BY <1>1 DEF Plain
<1>3. SitesTyped'
  BY <1>2, InStep, Places, SiteEdited DEF Edits
<1>4. config = <<>>
  BY <1>1 DEF TypeInv, TypeOK
<1>. QED
  BY <1>1, <1>2, <1>3, <1>4, Moved

(* And one that refuses what it finds.                                     *)
LEMMA RefusedStep ==
  ASSUME TypeInv, NEW from \in Commands \ {"bind", "write-config"},
         Refused(from), UNCHANGED runs
  PROVE  TypeInv'
<1>1. pc = from /\ Goes(pc, "refused") /\ UNCHANGED <<binds, config, sites>>
  BY DEF Refused, Goes, Keeps
<1>2. config = <<>> /\ SitesTyped'
  BY <1>1, InStep DEF TypeInv, TypeOK, SitesTyped
<1>. QED
  BY <1>1, <1>2, Moved

(* A round of a loop that is not the last.                                 *)
LEMMA NextRound ==
  ASSUME TypeInv, pc \in Loops, arg < Len(Arguments(step)), arg' = arg + 1,
         UNCHANGED <<pc, at, recipe, image, mounted, binds, config, runs>>,
         SitesTyped'
  PROVE  TypeInv'
<1>1. /\ pc \in Commands /\ pc # "bind" /\ IsStep(step) /\ step.op = pc
  BY InStep, CommandNames DEF TypeInv, Belongs
<1>2. Len(Arguments(step)) \in Nat
  BY <1>1, LoopArguments
<1>3. arg \in 1..Len(Arguments(step))
  BY <1>1 DEF TypeInv, TypeOK
<1>4. step' = step
  BY DEF step
<1>5. TypeOK'
  <2>1. DOMAIN sites' = {"live", "root", "below"}
        /\ \A site \in DOMAIN sites' : IsSystem(sites'[site])
    BY DEF SitesTyped
  <2>2. arg' \in 1..Len(Arguments(step))
    BY <1>2, <1>3
  <2>3. arg' \in 1..(CASE pc' = "bind"   -> Len(RequiredBinds)
                       [] pc' \in Loops -> Len(Arguments(step'))
                       [] OTHER -> 1)
    BY <1>1, <1>4, <2>2
  <2>. QED
    BY <2>1, <2>3 DEF TypeInv, TypeOK
<1>6. Belongs' /\ Mounting' /\ BindsCounted'
  BY <1>1, <1>4 DEF TypeInv, Belongs, Mounting, BindsCounted
<1>. QED
  BY <1>5, <1>6 DEF TypeInv

-----------------------------------------------------------------------------
(* The operations, command by command.                                     *)
LEMMA AddUserStep == TypeInv /\ AddUser /\ UNCHANGED runs => TypeInv'
<1>. SUFFICES ASSUME TypeInv, AddUser, UNCHANGED runs PROVE TypeInv'
  OBVIOUS
<1>. USE DEF Plain, Commands, Loops
<1>g. AfterPassword \in {"step", "groups"}
  BY DEF AfterPassword
<1>1. CASE Useradd
  <2>1. CASE Refused("useradd")
    BY <2>1, RefusedStep
  <2>. DEFINE name == step.account.name
              users == [n \in DOMAIN sys.users \cup {name} |->
                          IF n = name THEN Useradded ELSE sys.users[n]]
              s == [sys EXCEPT !.users = users]
  <2>2. CASE Edits("useradd", "comment", s)
    <3>1. pc = "useradd"
      BY <1>1 DEF Useradd
    <3>2. "name" \in DOMAIN step.account
      BY <3>1, InStep DEF TypeInv, Belongs, IsStep, AccountFields
    <3>3. "name" \in DOMAIN Useradded /\ Useradded.name = name
      BY <3>2 DEF Useradded
    <3>. HIDE DEF name
    <3>4. SitesTyped => IsSystem(s)
      <4>1. SUFFICES ASSUME IsSystem(sys) PROVE IsSystem(s)
        BY Places
      <4>2. Accounts(users)
        BY <4>1, <3>3 DEF IsSystem, Accounts
      <4>. HIDE DEF users
      <4>. QED
        BY <4>1, <4>2 DEF IsSystem
    <3>. HIDE DEF s
    <3>. QED
      BY <2>2, <3>4, Edited
  <2>. QED
    BY <1>1, <2>1, <2>2 DEF Useradd
<1>2. ASSUME NEW from \in {"comment", "chpasswd", "groups"},
             NEW to \in {"chpasswd", "groups", "step"},
             NEW field \in {"fullname", "password", "groups"},
             SetsUser(from, to, field)
      PROVE  TypeInv'
  <2>. DEFINE users == [sys.users EXCEPT ![step.account.name][field] = step.account[field]]
              s == [sys EXCEPT !.users = users]
  <2>1. SitesTyped => IsSystem(s)
    <3>1. SUFFICES ASSUME IsSystem(sys) PROVE IsSystem(s)
      BY Places
    <3>2. Accounts(users)
      BY <3>1 DEF IsSystem, Accounts
    <3>. HIDE DEF users
    <3>. QED
      BY <3>1, <3>2 DEF IsSystem
  <2>2. Edits(from, to, s)
    BY <1>2 DEF SetsUser
  <2>. HIDE DEF s
  <2>. QED
    BY <2>1, <2>2, Edited
<1>3. CASE Comment
  BY <1>3, <1>2, <1>g, Zenon DEF Comment
<1>4. CASE Chpasswd
  BY <1>4, <1>2, <1>g DEF Chpasswd
<1>5. CASE AddGroups
  BY <1>5, <1>2 DEF AddGroups
<1>. QED
  BY <1>1, <1>3, <1>4, <1>5 DEF AddUser

(* The commands that set one field of the system.                          *)
LEMMA FieldStep ==
  ASSUME TypeInv, UNCHANGED runs,
         NEW from \in Plain \ {"useradd", "write-config"},
         NEW to \in (Plain \ {"useradd", "write-config"}) \cup {"step"},
         NEW f, f \notin {"content", "users"}, NEW v,
         Edits(from, to, [sys EXCEPT ![f] = v])
  PROVE  TypeInv'
<1>1. SitesTyped => IsSystem([sys EXCEPT ![f] = v])
  BY Places, FieldSet
<1>. QED
  BY <1>1, Edited

LEMMA FilesStep ==
  /\ TypeInv /\ UNCHANGED runs
  /\ SetTimezone \/ RemovePackages \/ ChangeHostname \/ SetKeyboardLayout
  => TypeInv'
<1>. SUFFICES ASSUME TypeInv, UNCHANGED runs,
                     SetTimezone \/ RemovePackages \/ ChangeHostname
                       \/ SetKeyboardLayout
              PROVE  TypeInv'
  OBVIOUS
<1>. USE DEF Plain, Commands, Loops
<1>1. CASE WriteTimezone
  BY <1>1, FieldStep DEF WriteTimezone
<1>2. CASE LinkLocaltime
  BY <1>2, FieldStep DEF LinkLocaltime
<1>3. CASE RemovePackages
  BY <1>3, FieldStep DEF RemovePackages
<1>4. CASE WriteHostname
  BY <1>4, FieldStep DEF WriteHostname
<1>5. CASE WriteHosts
  BY <1>5, FieldStep DEF WriteHosts
<1>6. CASE WriteKeyboard
  BY <1>6, FieldStep DEF WriteKeyboard
<1>7. CASE Setupcon
  BY <1>7, FieldStep DEF Setupcon
<1>. QED
  BY <1>1, <1>2, <1>3, <1>4, <1>5, <1>6, <1>7
  DEF SetTimezone, ChangeHostname, SetKeyboardLayout

LEMMA LocaleStep == TypeInv /\ UNCHANGED runs /\ SetLocale => TypeInv'
<1>. SUFFICES ASSUME TypeInv, UNCHANGED runs, SetLocale PROVE TypeInv'
  OBVIOUS
<1>. USE DEF Plain, Commands, Loops
<1>1. CASE GrepSupported
  <2>1. CASE Refused("grep")
    BY <2>1, RefusedStep
  <2>2. CASE Edits("grep", "sed", sys)
    BY <2>2, Places, Edited
  <2>. QED
    BY <1>1, <2>1, <2>2 DEF GrepSupported
<1>2. CASE SedLocaleGen
  BY <1>2, FieldStep DEF SedLocaleGen
<1>3. CASE LocaleGen
  BY <1>3, FieldStep DEF LocaleGen
<1>4. CASE WriteLocale
  BY <1>4, FieldStep DEF WriteLocale
<1>. QED
  BY <1>1, <1>2, <1>3, <1>4 DEF SetLocale

(* The commands that leave every system as it was.                         *)
LEMMA SystemsKept ==
  ASSUME TypeInv, UNCHANGED <<sites, binds, config, runs>>,
         pc \in Plain \ {"write-config"},
         NEW to \in Plain \cup {"step"}, to \notin {"useradd", "write-config"},
         Goes(pc, to)
  PROVE  TypeInv'
<1>1. pc \in Commands /\ pc # "bind" /\ config = <<>>
  BY DEF Plain, TypeInv, TypeOK
<1>2. SitesTyped'
  BY <1>1, InStep DEF SitesTyped
<1>. QED
  BY <1>1, <1>2, Moved

LEMMA SwaponStep == TypeInv /\ UNCHANGED runs /\ Swapon => TypeInv'
<1>. SUFFICES ASSUME TypeInv, UNCHANGED runs, Swapon PROVE TypeInv'
  OBVIOUS
<1>. USE DEF Plain, Commands, Loops
<1>1. CASE Refused("swapon")
  BY <1>1, RefusedStep
<1>2. CASE Goes("swapon", "step") /\ UNCHANGED <<sites, binds, config>>
  BY <1>2, SystemsKept DEF Goes
<1>. QED
  BY <1>1, <1>2 DEF Swapon

LEMMA ShellStep == TypeInv /\ UNCHANGED runs /\ Shell => TypeInv'
<1>. SUFFICES ASSUME TypeInv, UNCHANGED runs, Shell PROVE TypeInv'
  OBVIOUS
<1>1. pc = "shell" /\ UNCHANGED <<binds, config>>
  BY DEF Shell, Keeps
<1>2. pc \in Loops /\ pc \in Commands /\ pc # "bind" /\ config = <<>>
  BY <1>1 DEF Loops, Commands, TypeInv, TypeOK
<1>3. SitesTyped'
  <2>. DEFINE marks == sys.marks \cup {Arguments(step)[arg]}
              s == [sys EXCEPT !.marks = marks]
  <2>1. IsSystem(s)
    BY <1>2, InStep, Places, FieldSet
  <2>2. sites' = [sites EXCEPT ![Site] = s]
    BY Places DEF Shell, sys
  <2>. HIDE DEF s
  <2>. QED
    BY <1>2, <2>1, <2>2, InStep, Places, SiteEdited
<1>4. Round(Len(Arguments(step)), "step")
  BY DEF Shell
<1>5. CASE arg < Len(Arguments(step))
  BY <1>1, <1>2, <1>3, <1>4, <1>5, NextRound DEF Round
<1>6. CASE ~(arg < Len(Arguments(step)))
  BY <1>1, <1>2, <1>3, <1>4, <1>6, Moved DEF Round
<1>. QED
  BY <1>5, <1>6

LEMMA ScriptsStep ==
  TypeInv /\ UNCHANGED runs /\ (AddGrubScript \/ RemoveGrubScript) => TypeInv'
<1>. SUFFICES ASSUME TypeInv, UNCHANGED runs, AddGrubScript \/ RemoveGrubScript
              PROVE  TypeInv'
  OBVIOUS
<1>1. ASSUME NEW from \in {"grub-add-script", "grub-remove-script"},
             NEW scripts, Scripts(from, scripts)
      PROVE  TypeInv'
  <2>1. pc = from /\ UNCHANGED <<binds, config>>
    BY <1>1 DEF Scripts, Keeps
  <2>2. pc \in Loops /\ pc \in Commands /\ pc # "bind" /\ config = <<>>
    BY <2>1 DEF Loops, Commands, TypeInv, TypeOK
  <2>3. SitesTyped'
    <3>. DEFINE s == [sys EXCEPT !.scripts = scripts]
    <3>1. IsSystem(s)
      BY <2>2, InStep, Places, FieldSet
    <3>2. sites' = [sites EXCEPT ![Site] = s]
      BY <1>1, Places DEF Scripts, sys
    <3>. HIDE DEF s
    <3>. QED
      BY <2>2, <3>1, <3>2, InStep, Places, SiteEdited
  <2>4. Round(Len(Arguments(step)), "step")
    BY <1>1 DEF Scripts
  <2>5. CASE arg < Len(Arguments(step))
    BY <2>1, <2>2, <2>3, <2>4, <2>5, NextRound DEF Round
  <2>6. CASE ~(arg < Len(Arguments(step)))
    BY <2>1, <2>2, <2>3, <2>4, <2>6, Moved DEF Round
  <2>. QED
    BY <2>5, <2>6
<1>2. CASE Refused("grub-remove-script")
  BY <1>2, RefusedStep DEF Commands
<1>. QED
  BY <1>1, <1>2 DEF AddGrubScript, RemoveGrubScript

(* A directory is bound once in a step, each in its round.                 *)
LEMMA BindStep == TypeInv /\ UNCHANGED runs /\ BindForGrub => TypeInv'
<1>. SUFFICES ASSUME TypeInv, UNCHANGED runs, BindForGrub PROVE TypeInv'
  OBVIOUS
<1>1. /\ pc = "bind" /\ pc \in Commands /\ UNCHANGED <<sites, config>>
      /\ binds' = [binds EXCEPT ![RequiredBinds[arg]] = @ + 1]
      /\ Round(5, "target")
  BY BindDirs, CommandNames DEF BindForGrub
<1>2. /\ Len(recipe.post) \in Nat /\ at \in 1..Len(recipe.post)
      /\ SitesTyped /\ SitesTyped'
  BY <1>1, InStep DEF SitesTyped
<1>3. arg \in 1..5 /\ config = <<>>
  <2>1. arg \in 1..Len(RequiredBinds)
    BY <1>1 DEF TypeInv, TypeOK, Loops
  <2>. QED
    BY <1>1, <2>1, BindDirs DEF TypeInv, TypeOK
<1>4. binds \in [ToSet(RequiredBinds) -> 0..Len(recipe.post) + 1]
  BY DEF TypeInv, TypeOK
<1>5. \A i \in 1..5 :
        /\ binds[RequiredBinds[i]] \in 0..Len(recipe.post) + 1
        /\ binds[RequiredBinds[i]] <= IF arg <= i THEN at - 1 ELSE at
  BY <1>1, <1>4, BindDirs DEF TypeInv, BindsCounted
<1>6. \A i \in 1..5 :
        binds'[RequiredBinds[i]] =
          binds[RequiredBinds[i]] + (IF i = arg THEN 1 ELSE 0)
  <2>. TAKE i \in 1..5
  <2>1. RequiredBinds[i] \in DOMAIN binds /\ binds[RequiredBinds[i]] \in Nat
    BY <1>4, <1>5, BindDirs
  <2>2. CASE i = arg
    BY <1>1, <2>1, <2>2
  <2>3. CASE i # arg
    <3>1. RequiredBinds[i] # RequiredBinds[arg]
      BY <1>3, <2>3, BindDirs
    <3>. QED
      BY <1>1, <2>1, <2>3, <3>1
  <2>. QED
    BY <2>2, <2>3
<1>7. \A i \in 1..5 :
        /\ binds'[RequiredBinds[i]] \in 0..Len(recipe.post) + 1
        /\ binds'[RequiredBinds[i]] <= IF arg + 1 <= i THEN at - 1 ELSE at
  <2>. TAKE i \in 1..5
  <2>. DEFINE n == binds[RequiredBinds[i]]
              m == binds'[RequiredBinds[i]]
              last == Len(recipe.post)
  <2>1. n \in Nat /\ n <= IF arg <= i THEN at - 1 ELSE at
    BY <1>5
  <2>2. m = n + (IF i = arg THEN 1 ELSE 0)
    BY <1>6
  <2>3. last \in Nat /\ at \in 1..last /\ arg \in Nat /\ i \in Nat
    BY <1>2, <1>3
  <2>. HIDE DEF n, m, last
  <2>4. m \in Nat /\ m <= IF arg + 1 <= i THEN at - 1 ELSE at
    BY <2>1, <2>2, <2>3
  <2>5. m \in 0..last + 1
    BY <2>3, <2>4
  <2>. QED
    BY <2>4, <2>5 DEF m, last
<1>8. binds' \in [ToSet(RequiredBinds) -> 0..Len(recipe.post) + 1]
  <2>1. DOMAIN binds' = ToSet(RequiredBinds)
    BY <1>1, <1>4
  <2>2. \A dir \in ToSet(RequiredBinds) : binds'[dir] \in 0..Len(recipe.post) + 1
    BY <1>7, BindDirs
  <2>3. binds' = [dir \in DOMAIN binds' |-> binds'[dir]]
    BY <1>1
  <2>. QED
    BY <2>1, <2>2, <2>3
<1>9. CASE arg < 5
  <2>1. /\ arg' = arg + 1 /\ arg' \in 1..5
        /\ UNCHANGED <<pc, at, recipe, image, mounted>>
    BY <1>1, <1>3, <1>9 DEF Round
  <2>2. TypeOK'
    <3>1. arg' \in 1..(CASE pc' = "bind"   -> Len(RequiredBinds)
                         [] pc' \in Loops -> Len(Arguments(step'))
                         [] OTHER -> 1)
      BY <1>1, <2>1, BindDirs DEF Loops
    <3>. QED
      BY <1>1, <1>8, <2>1, <3>1 DEF TypeInv, TypeOK
  <2>3. Belongs' /\ Mounting'
    BY <1>1, <2>1, CommandNames DEF TypeInv, Belongs, Mounting, Loops
  <2>4. BindsCounted'
    BY <1>1, <1>7, <2>1, BindDirs DEF BindsCounted
  <2>. QED
    BY <2>2, <2>3, <2>4 DEF TypeInv
<1>10. CASE ~(arg < 5)
  <2>1. Goes(pc, "target")
    BY <1>1, <1>10 DEF Round
  <2>2. "target" \in Plain \ {"useradd"}
    BY DEF Plain, Commands, Loops
  <2>3. ASSUME NEW i \in 1..5 PROVE binds'[RequiredBinds[i]] <= at
    <3>. DEFINE m == binds'[RequiredBinds[i]]
    <3>1. m \in Nat /\ m <= IF arg + 1 <= i THEN at - 1 ELSE at
      BY <1>2, <1>7
    <3>2. at \in Nat
      BY <1>2
    <3>. HIDE DEF m
    <3>3. m <= at
      BY <3>1, <3>2
    <3>. QED
      BY <3>3 DEF m
  <2>. QED
    BY <1>1, <1>2, <1>3, <1>8, <2>1, <2>2, <2>3, Moved
<1>. QED
  BY <1>9, <1>10

LEMMA GrubInstallStep == TypeInv /\ UNCHANGED runs /\ RunGrubInstall => TypeInv'
<1>. SUFFICES ASSUME TypeInv, UNCHANGED runs, RunGrubInstall PROVE TypeInv'
  OBVIOUS
<1>1. CASE BindForGrub
  BY <1>1, BindStep
<1>2. CASE GetGrubTarget
  <2>. USE DEF Plain, Commands, Loops
  <2>1. CASE Refused("target")
    BY <2>1, RefusedStep
  <2>2. CASE Edits("target", "grub-install", sys)
    BY <2>2, Places, Edited
  <2>. QED
    BY <1>2, <2>1, <2>2 DEF GetGrubTarget
<1>3. CASE GrubInstall
  <2>. DEFINE site == IF step.boot = "root" THEN Target ELSE Site
              s == [sites[site] EXCEPT !.loader = step.target]
  <2>1. PICK to \in {"efibootmgr", "step"} : Goes("grub-install", to)
    BY <1>3 DEF GrubInstall
  <2>2. pc = "grub-install" /\ pc \in Commands /\ pc # "bind"
        /\ UNCHANGED <<binds, config>>
    BY <1>3, <2>1 DEF GrubInstall, Goes, Keeps, Commands
  <2>3. SitesTyped'
    <3>1. site \in {"live", "root", "below"} /\ SitesTyped
      BY <2>2, Places, InStep
    <3>2. sites' = [sites EXCEPT ![site].loader = step.target]
      BY <1>3 DEF GrubInstall
    <3>. HIDE DEF site
    <3>3. IsSystem(sites[site])
      BY <3>1 DEF SitesTyped
    <3>4. IsSystem(s)
      BY <3>3, FieldSet
    <3>5. sites' = [sites EXCEPT ![site] = s]
      BY <3>2
    <3>. HIDE DEF s
    <3>. QED
      BY <3>1, <3>4, <3>5, SiteEdited
  <2>4. config = <<>> /\ to \in (Plain \ {"useradd"}) \cup {"step"}
    BY <2>1, <2>2 DEF TypeInv, TypeOK, Plain, Commands, Loops
  <2>. QED
    BY <2>1, <2>2, <2>3, <2>4, Moved
<1>4. CASE Efibootmgr
  <2>. USE DEF Plain, Commands, Loops
  <2>1. CASE Refused("efibootmgr")
    BY <2>1, RefusedStep
  <2>2. CASE Goes("efibootmgr", "step") /\ UNCHANGED <<sites, binds, config>>
    BY <2>2, SystemsKept DEF Goes
  <2>. QED
    BY <1>4, <2>1, <2>2, Zenon DEF Efibootmgr
<1>. QED
  BY <1>1, <1>2, <1>3, <1>4 DEF RunGrubInstall

LEMMA GrubConfigStep ==
  TypeInv /\ UNCHANGED runs /\ (GrubDefaultConfig \/ RunGrubMkconfig) => TypeInv'
<1>. SUFFICES ASSUME TypeInv, UNCHANGED runs, GrubDefaultConfig \/ RunGrubMkconfig
              PROVE  TypeInv'
  OBVIOUS
<1>1. CASE GetGrubConfig
  <2>1. CASE Refused("grub-default-config")
    BY <2>1, RefusedStep DEF Commands
  <2>2. CASE /\ Goes("grub-default-config", "write-config")
             /\ UNCHANGED <<sites, binds>>
    <3>1. pc = "grub-default-config" /\ pc \in Commands /\ pc # "bind"
      BY <2>2 DEF Goes, Commands
    <3>2. SitesTyped'
      BY <2>2, <3>1, InStep DEF SitesTyped
    <3>3. "write-config" \in Plain \ {"useradd"}
      BY CommandNames
    <3>. QED
      BY <2>2, <3>1, <3>2, <3>3, Moved
  <2>. QED
    BY <1>1, <2>1, <2>2 DEF GetGrubConfig
<1>2. ASSUME NEW to \in {"step", "failed"}, NEW systems, WritesConfig(to, systems),
             \A s \in systems : \E v : s = [sys EXCEPT !.defaults = v]
      PROVE  TypeInv'
  <2>1. /\ pc = "write-config" /\ pc \in Commands /\ pc # "bind"
        /\ Goes(pc, to) /\ config' = <<>> /\ UNCHANGED binds
    BY <1>2 DEF WritesConfig, Goes, Commands
  <2>2. PICK s \in systems : sites' = [sites EXCEPT ![Site] = s]
    BY <1>2 DEF WritesConfig
  <2>3. IsSystem(s)
    <3>1. PICK v : s = [sys EXCEPT !.defaults = v]
      BY <1>2
    <3>2. IsSystem(sys)
      BY <2>1, InStep, Places
    <3>3. IsSystem([sys EXCEPT !.defaults = v])
      BY <3>2, FieldSet
    <3>. QED
      BY <3>1, <3>3
  <2>4. SitesTyped'
    BY <2>1, <2>2, <2>3, InStep, Places, SiteEdited
  <2>. QED
    BY <2>1, <2>4, Moved
<1>3. ASSUME NEW keys, NEW bare
      PROVE  \A s \in Written(keys, bare) : \E v : s = [sys EXCEPT !.defaults = v]
  BY DEF Written
<1>4. CASE WriteGrubConfig
  <2>. DEFINE systems == Written(DOMAIN config, FALSE)
  <2>1. \A s \in systems : \E v : s = [sys EXCEPT !.defaults = v]
    BY <1>3
  <2>2. WritesConfig("step", systems)
    BY <1>4 DEF WriteGrubConfig
  <2>. HIDE DEF systems
  <2>. QED
    BY <1>2, <2>1, <2>2
<1>5. CASE WriteBroken
  <2>. DEFINE systems == UNION {Written(some, bare) :
                                  some \in SUBSET DOMAIN config \ {DOMAIN config},
                                  bare \in BOOLEAN}
  <2>1. \A s \in systems : \E v : s = [sys EXCEPT !.defaults = v]
    BY <1>3
  <2>2. WritesConfig("failed", systems)
    BY <1>5 DEF WriteBroken
  <2>. HIDE DEF systems
  <2>. QED
    BY <1>2, <2>1, <2>2
<1>6. CASE RunGrubMkconfig
  <2>1. CASE Refused("grub-mkconfig")
    BY <2>1, RefusedStep DEF Commands
  <2>2. CASE Edits("grub-mkconfig", "step", [sys EXCEPT !.menu = Menu])
    BY <2>2, FieldStep DEF Plain, Commands, Loops
  <2>. QED
    BY <1>6, <2>1, <2>2 DEF RunGrubMkconfig
<1>. QED
  BY <1>1, <1>4, <1>5, <1>6 DEF GrubDefaultConfig

-----------------------------------------------------------------------------
LEMMA DispatchStep == TypeInv /\ UNCHANGED runs /\ Dispatch => TypeInv'
<1>. SUFFICES ASSUME TypeInv, UNCHANGED runs, Dispatch PROVE TypeInv'
  OBVIOUS
<1>. DEFINE to == FirstOf(step)
<1>1. /\ pc = "step" /\ pc' = to /\ arg' = 1
      /\ at' = IF to = "step" THEN at + 1 ELSE at
      /\ UNCHANGED <<recipe, image, mounted, sites, binds, config>>
      /\ at \in DOMAIN recipe.post /\ recipe \in Recipes
  BY DEF Dispatch, Goes, Keeps, TypeInv, TypeOK
<1>2. /\ Len(recipe.post) \in Nat /\ at \in 1..Len(recipe.post)
      /\ DOMAIN recipe.post = 1..Len(recipe.post) /\ IsStep(step)
  BY <1>1, PostIsSequence DEF step
<1>3. /\ to \in Commands \cup {"step"}
      /\ to = "useradd" => step.op = "adduser"
      /\ to \in Loops => step.op = to /\ Arguments(step) # <<>>
  BY <1>2, FirstCommand
<1>. HIDE DEF to
<1>4. step' = step \/ to = "step"
  BY <1>1 DEF step
<1>5. TypeOK'
  <2>1. at' \in 0..Len(recipe.post) + 1 /\ (to \in Commands => at' \in DOMAIN recipe.post)
    BY <1>1, <1>2, CommandNames
  <2>2. arg' \in 1..(CASE pc' = "bind"   -> Len(RequiredBinds)
                       [] pc' \in Loops -> Len(Arguments(step'))
                       [] OTHER -> 1)
    <3>1. CASE to \in Loops
      <4>1. step' = step /\ to # "bind" /\ step.op \in Loops
        BY <1>3, <1>4, <3>1 DEF Loops
      <4>2. Len(Arguments(step)) \in Nat /\ Len(Arguments(step)) >= 1
        BY <1>2, <1>3, <3>1, <4>1, LoopArguments
      <4>. QED
        BY <1>1, <3>1, <4>1, <4>2
    <3>2. CASE to \notin Loops
      BY <1>1, <3>2, BindDirs
    <3>. QED
      BY <3>1, <3>2
  <2>. QED
    BY <1>1, <1>3, <2>1, <2>2 DEF TypeInv, TypeOK
<1>6. Belongs'
  <2>1. to = "step" => at' >= 1
    BY <1>1, <1>2
  <2>2. to = "useradd" => step'.op = "adduser"
    BY <1>3, <1>4
  <2>3. to \in Loops => step'.op = to
    BY <1>3, <1>4 DEF Loops
  <2>. QED
    BY <1>1, <2>1, <2>2, <2>3 DEF Belongs
<1>7. Mounting'
  BY <1>1, <1>3, CommandNames DEF TypeInv, Mounting
<1>8. BindsCounted'
  <2>1. SUFFICES ASSUME NEW i \in 1..5
                 PROVE  binds[RequiredBinds[i]] <=
                          IF to = "step" \/ (to = "bind" /\ 1 <= i) THEN at' - 1 ELSE at'
    BY <1>1, BindDirs DEF BindsCounted
  <2>2. binds[RequiredBinds[i]] <= at - 1 /\ binds[RequiredBinds[i]] \in Nat
    <3>1. binds[RequiredBinds[i]] <= at - 1
      BY <1>1, BindDirs DEF TypeInv, BindsCounted
    <3>2. binds[RequiredBinds[i]] \in Nat
      BY <1>2, BindDirs DEF TypeInv, TypeOK
    <3>. QED
      BY <3>1, <3>2
  <2>. QED
    BY <1>1, <1>2, <2>2
<1>. QED
  BY <1>5, <1>6, <1>7, <1>8 DEF TypeInv

LEMMA PostInstallStep == TypeInv /\ PostInstallation => TypeInv'
BY DispatchStep, AddUserStep, FilesStep, ShellStep, LocaleStep, SwaponStep,
   GrubInstallStep, GrubConfigStep, ScriptsStep
DEF PostInstallation, RunPostInstall

(* The phases before the steps, and what ends a run or comes between two.  *)
Resting == Ended \cup {"setup", "mount", "copy", "tables"}

LEMMA PhaseStep ==
  ASSUME TypeInv, pc' \in Resting,
         at' = 0, arg' = 1, config' = <<>>, UNCHANGED <<recipe, image>>,
         runs' \in 0..MaxRuns, SitesTyped', mounted' \in BOOLEAN,
         binds' \in [ToSet(RequiredBinds) -> 0..Len(recipe.post) + 1],
         pc' \in {"copy", "tables"} => mounted',
         ~mounted' \/ pc' \in {"copy", "tables"} => binds' = NoBinds
  PROVE  TypeInv'
<1>1. pc' \notin Commands /\ pc' \notin Loops /\ pc' \notin {"bind", "step", "useradd"}
  BY CommandNames DEF Resting, Ended, Plain
<1>2. Len(recipe.post) \in Nat /\ recipe \in Recipes /\ image \in Images
  BY PostIsSequence DEF TypeInv, TypeOK
<1>3. TypeOK'
  <2>1. arg' \in 1..(CASE pc' = "bind"   -> Len(RequiredBinds)
                       [] pc' \in Loops -> Len(Arguments(step'))
                       [] OTHER -> 1)
    BY <1>1
  <2>2. at' \in 0..Len(recipe.post) + 1
    BY <1>2
  <2>. QED
    BY <1>1, <1>2, <2>1, <2>2 DEF TypeOK, SitesTyped, Resting
<1>4. Belongs' /\ BindsCounted'
  BY <1>1 DEF Belongs, BindsCounted
<1>5. Mounting'
  BY <1>1 DEF Mounting
<1>. QED
  BY <1>3, <1>4, <1>5 DEF TypeInv

(* A copy of the image, or of a part of it, makes a system of the root.    *)
LEMMA CopiedTyped ==
  ASSUME SitesTyped, image \in Images, NEW some,
         NEW content \in {"mixed", "image"}, sites' = Copied(some, content)
  PROVE  SitesTyped'
<1>. DEFINE old == sites[Target]
            new(file) == IF file = "scripts" THEN old.scripts \cup image.system.scripts
                         ELSE image.system[file]
            all == [file \in DOMAIN old |-> IF file \in some THEN new(file) ELSE old[file]]
            s == [all EXCEPT !.content = content]
<1>1. /\ IsSystem(old) /\ IsSystem(image.system)
      /\ {"content", "users"} \subseteq Files
  BY Places, SystemsAssumption DEF Files
<1>2. /\ DOMAIN all = Files
      /\ all["users"] = image.system["users"] \/ all["users"] = old["users"]
  BY <1>1 DEF IsSystem
<1>3. Accounts(all["users"])
  BY <1>1, <1>2 DEF IsSystem
<1>4. sites' = [sites EXCEPT ![Target] = s]
  BY DEF Copied
<1>5. /\ s = [file \in Files |-> s[file]]
      /\ s.content = content /\ s.users = all["users"]
  BY <1>1, <1>2
<1>. HIDE DEF all
<1>6. IsSystem(s)
  BY <1>2, <1>3, <1>5 DEF IsSystem
<1>. HIDE DEF s
<1>. QED
  BY <1>4, <1>6, Places, SiteEdited

LEMMA TypeInit == Init => TypeInv
<1>. SUFFICES ASSUME Init PROVE TypeInv
  OBVIOUS
<1>1. /\ recipe \in Recipes /\ image \in Images /\ mounted = FALSE
      /\ sites = [live |-> LiveSystem, root |-> Blank, below |-> Blank]
      /\ binds = NoBinds /\ pc = "idle" /\ at = 0 /\ arg = 1
      /\ config = <<>> /\ runs = 0
  BY DEF Init
<1>2. pc \notin Commands /\ pc \notin Loops /\ pc # "bind" /\ pc \in Ended
  BY <1>1 DEF Commands, Loops, Ended
<1>3. Len(recipe.post) \in Nat
  BY <1>1, PostIsSequence
<1>4. binds \in [ToSet(RequiredBinds) -> 0..Len(recipe.post) + 1]
  BY <1>1, <1>3 DEF NoBinds
<1>5. IsSystem(LiveSystem) /\ IsSystem(Blank)
  BY SystemsAssumption
<1>6. DOMAIN sites = {"live", "root", "below"} /\ \A site \in DOMAIN sites : IsSystem(sites[site])
  BY <1>1, <1>5
<1>7. arg \in 1..(CASE pc = "bind"   -> Len(RequiredBinds)
                    [] pc \in Loops -> Len(Arguments(step))
                    [] OTHER -> 1)
  BY <1>1, <1>2
<1>8. runs \in 0..MaxRuns /\ at \in 0..Len(recipe.post) + 1
  BY <1>1, <1>3, MaxRunsAssumption
<1>9. TypeOK
  BY <1>1, <1>2, <1>4, <1>6, <1>7, <1>8 DEF TypeOK
<1>. QED
  BY <1>1, <1>2, <1>9 DEF TypeInv, Belongs, Mounting, BindsCounted

LEMMA TypeNext == TypeInv /\ [Next]_vars => TypeInv'
<1>. SUFFICES ASSUME TypeInv, [Next]_vars PROVE TypeInv'
  OBVIOUS
<1>t. /\ recipe \in Recipes /\ image \in Images /\ SitesTyped
      /\ mounted \in BOOLEAN /\ runs \in 0..MaxRuns
      /\ binds \in [ToSet(RequiredBinds) -> 0..Len(recipe.post) + 1]
      /\ Len(recipe.post) \in Nat
  BY PostIsSequence, Zenon DEF TypeInv, TypeOK, SitesTyped
<1>n. NoBinds \in [ToSet(RequiredBinds) -> 0..Len(recipe.post) + 1]
  BY <1>t DEF NoBinds
<1>s. IsSystem(LiveSystem) /\ IsSystem(Blank)
  BY SystemsAssumption
<1>r. pc \in Resting \cup {"step"} => arg = 1 /\ config = <<>>
  <2>1. pc \in Resting \cup {"step"} => pc \notin Loops /\ pc # "bind" /\ pc # "write-config"
    BY DEF Resting, Ended, Loops
  <2>. QED
    BY <2>1 DEF TypeInv, TypeOK
<1>m. /\ pc \in {"copy", "tables"} => mounted /\ binds = NoBinds
      /\ ~mounted => binds = NoBinds
  BY DEF TypeInv, Mounting
<1>k. UNCHANGED sites => SitesTyped'
  BY <1>t DEF SitesTyped
<1>. USE DEF Resting, Ended
<1>1. CASE Begin
  <2>1. runs' \in 0..MaxRuns
    BY <1>1, <1>t, MaxRunsAssumption DEF Begin
  <2>. QED
    BY <1>1, <1>t, <1>m, <1>k, <2>1, PhaseStep DEF Begin
<1>2. CASE RunSetup
  <2>1. /\ pc = "setup" /\ pc' \in {"refused", "mount"} /\ at' = 0
        /\ UNCHANGED <<recipe, image, arg, config, runs, binds>>
    BY <1>2 DEF RunSetup, Phase
  <2>2. CASE UNCHANGED <<mounted, sites>>
    BY <1>t, <1>m, <1>r, <1>k, <2>1, <2>2, PhaseStep
  <2>3. CASE binds = NoBinds /\ mounted' = FALSE /\ sites' = [sites EXCEPT !.root = Blank]
    <3>1. SitesTyped'
      BY <1>t, <1>s, <2>3, SiteEdited
    <3>. QED
      BY <1>t, <1>r, <2>1, <2>3, <3>1, PhaseStep
  <2>. QED
    BY <1>2, <2>2, <2>3 DEF RunSetup
<1>3. CASE SetupMountpoints
  <2>1. /\ pc = "mount" /\ pc' = (IF mounted THEN "refused" ELSE "copy") /\ at' = 0
        /\ mounted' = TRUE
        /\ UNCHANGED <<recipe, image, arg, config, runs, sites, binds>>
    BY <1>3 DEF SetupMountpoints, Phase
  <2>. QED
    BY <1>t, <1>m, <1>r, <1>k, <2>1, PhaseStep
<1>4. ASSUME CopyRefused \/ Copy PROVE TypeInv'
  <2>1. /\ pc = "copy" /\ pc' \in {"refused", "tables", "failed"} /\ at' = 0
        /\ UNCHANGED <<recipe, image, arg, config, runs, mounted, binds>>
    BY <1>4 DEF CopyRefused, Copy, Phase
  <2>2. SitesTyped'
    <3>1. CASE UNCHANGED sites
      BY <1>k, <3>1
    <3>2. CASE \E some : sites' = Copied(some, "image") \/ sites' = Copied(some, "mixed")
      BY <1>t, <3>2, CopiedTyped
    <3>. QED
      BY <1>4, <3>1, <3>2 DEF CopyRefused, Copy
  <2>. QED
    BY <1>t, <1>m, <1>r, <2>1, <2>2, PhaseStep
<1>5. CASE Initramfs
  <2>1. /\ pc = "tables" /\ pc' = "step" /\ at' = 1
        /\ UNCHANGED <<recipe, image, arg, config, runs, mounted, binds>>
    BY <1>5 DEF Initramfs, Phase
  <2>2. SitesTyped'
    <3>. DEFINE s == [sites[Target] EXCEPT !.content = "ready"]
    <3>1. IsSystem(sites[Target])
      BY <1>t, Places
    <3>2. IsSystem(s)
      BY <3>1 DEF IsSystem
    <3>3. sites' = [sites EXCEPT ![Target] = s]
      BY <1>5 DEF Initramfs
    <3>. HIDE DEF s
    <3>. QED
      BY <1>t, <3>2, <3>3, Places, SiteEdited
  <2>3. TypeOK'
    <3>1. arg' \in 1..(CASE pc' = "bind"   -> Len(RequiredBinds)
                         [] pc' \in Loops -> Len(Arguments(step'))
                         [] OTHER -> 1)
      BY <1>r, <2>1 DEF Loops
    <3>2. at' \in 0..Len(recipe.post) + 1
      BY <1>t, <2>1
    <3>. QED
      BY <1>t, <1>r, <2>1, <2>2, <3>1, <3>2, CommandNames DEF TypeOK, SitesTyped
  <2>4. Belongs' /\ Mounting'
    BY <1>m, <2>1 DEF Belongs, Mounting, Loops
  <2>5. BindsCounted'
    <3>1. SUFFICES ASSUME NEW i \in 1..5 PROVE binds[RequiredBinds[i]] <= 0
      BY <2>1, BindDirs DEF BindsCounted
    <3>2. binds[RequiredBinds[i]] = 0
      BY <1>m, <2>1, BindDirs DEF NoBinds
    <3>. QED
      BY <3>2
  <2>. QED
    BY <2>3, <2>4, <2>5 DEF TypeInv
<1>6. CASE InitramfsBroken
  <2>1. /\ pc = "tables" /\ pc' = "failed" /\ at' = 0
        /\ UNCHANGED <<recipe, image, arg, config, runs, mounted, sites>>
    BY <1>6 DEF InitramfsBroken, Phase
  <2>2. binds' \in [ToSet(RequiredBinds) -> 0..Len(recipe.post) + 1]
    BY <1>6, <1>t DEF InitramfsBroken
  <2>. QED
    BY <1>t, <1>m, <1>r, <1>k, <2>1, <2>2, PhaseStep
<1>7. CASE PostInstallation
  BY <1>7, PostInstallStep
<1>8. ASSUME Finish \/ Fail PROVE TypeInv'
  <2>1. /\ pc' \in {"done", "failed"} /\ at' = 0 /\ arg' = 1 /\ config' = <<>>
        /\ UNCHANGED <<recipe, image, runs, mounted, binds, sites>>
    BY <1>8 DEF Finish, Fail, NoProcess
  <2>. QED
    BY <1>t, <1>m, <1>k, <2>1, PhaseStep
<1>9. ASSUME Unmount \/ Reboot PROVE TypeInv'
  <2>1. /\ pc' = "idle" /\ at' = 0 /\ arg' = 1 /\ config' = <<>>
        /\ mounted' = FALSE /\ binds' = NoBinds
        /\ UNCHANGED <<recipe, image, runs>>
    BY <1>9 DEF Unmount, Reboot, NoProcess
  <2>2. SitesTyped'
    BY <1>9, <1>t, <1>s, <1>k DEF Unmount, Reboot, SitesTyped
  <2>. QED
    BY <1>t, <1>n, <2>1, <2>2, PhaseStep
<1>10. CASE UNCHANGED vars
  <2>1. UNCHANGED <<recipe, image, sites, mounted, binds, pc, at, arg, config, runs>>
    BY <1>10 DEF vars
  <2>2. step' = step
    BY <2>1 DEF step
  <2>. QED
    BY <2>1, <2>2 DEF TypeInv, TypeOK, Belongs, Mounting, BindsCounted
<1>. QED
  BY <1>1, <1>2, <1>3, <1>4, <1>5, <1>6, <1>7, <1>8, <1>9, <1>10 DEF Next

LEMMA TypeInvariant == Spec => []TypeInv
BY TypeInit, TypeNext, PTL DEF Spec

(* Every site keeps the fields of a system and its accounts under their    *)
(* names, a command runs in a step of the recipe, and the loops over       *)
(* parameters and directories stay within their lists.                     *)
THEOREM TypeCorrect == Spec => []TypeOK
<1>1. TypeInv => TypeOK
  BY DEF TypeInv
<1>. QED
  BY TypeInvariant, <1>1, PTL

-----------------------------------------------------------------------------
Elsewhere == sites'.live = sites.live /\ sites'.below = sites.below

(* An edit of the root, or of a part of it, is no edit of the others.      *)
LEMMA RootEdited ==
  ASSUME SitesTyped, NEW s, sites' = [sites EXCEPT !["root"] = s]
  PROVE  Elsewhere
BY DEF SitesTyped, Elsewhere

(* The commands of a Chroot step, while the root is mounted.               *)
LEMMA ChrootStepElsewhere ==
  ASSUME SitesTyped, mounted = TRUE, step.chroot, RunPostInstall, pc # "step"
  PROVE  Elsewhere
<1>1. Target = "root" /\ Site = "root"
  BY DEF Target, Site
<1>e. UNCHANGED sites => Elsewhere
  BY DEF Elsewhere
<1>2. ASSUME NEW from, NEW to, NEW s, Edits(from, to, s) PROVE Elsewhere
  BY <1>1, <1>2, RootEdited DEF Edits
<1>3. ASSUME NEW from, Refused(from) PROVE Elsewhere
  BY <1>3, <1>e DEF Refused
<1>4. CASE AddUser
  BY <1>4, <1>2, <1>3, Zenon DEF AddUser, Useradd, Comment, Chpasswd, AddGroups, SetsUser
<1>5. CASE SetTimezone \/ RemovePackages \/ ChangeHostname \/ SetKeyboardLayout
  BY <1>5, <1>2
  DEF SetTimezone, WriteTimezone, LinkLocaltime, RemovePackages, ChangeHostname,
      WriteHostname, WriteHosts, SetKeyboardLayout, WriteKeyboard, Setupcon
<1>6. CASE SetLocale
  BY <1>6, <1>2, <1>3
  DEF SetLocale, GrepSupported, SedLocaleGen, LocaleGen, WriteLocale
<1>7. CASE Shell
  <2>. DEFINE marks == sites["root"].marks \cup {Arguments(step)[arg]}
              s == [sites["root"] EXCEPT !.marks = marks]
  <2>1. sites' = [sites EXCEPT !["root"] = s]
    BY <1>1, <1>7 DEF Shell
  <2>. HIDE DEF s
  <2>. QED
    BY <2>1, RootEdited
<1>8. CASE Swapon
  BY <1>8, <1>3, <1>e DEF Swapon
<1>9. CASE RunGrubInstall
  <2>1. CASE BindForGrub
    BY <1>e, <2>1 DEF BindForGrub
  <2>2. CASE GetGrubTarget
    BY <1>2, <1>3, <2>2 DEF GetGrubTarget
  <2>3. CASE GrubInstall
    <3>. DEFINE site == IF step.boot = "root" THEN Target ELSE Site
              s == [sites["root"] EXCEPT !.loader = step.target]
    <3>1. site = "root"
      BY <1>1
    <3>2. sites' = [sites EXCEPT ![site].loader = step.target]
      BY <2>3 DEF GrubInstall
    <3>. HIDE DEF site
    <3>3. sites' = [sites EXCEPT !["root"] = s]
      BY <3>1, <3>2
    <3>. HIDE DEF s
    <3>. QED
      BY <3>3, RootEdited
  <2>4. CASE Efibootmgr
    BY <1>3, <1>e, <2>4, Zenon DEF Efibootmgr
  <2>. QED
    BY <1>9, <2>1, <2>2, <2>3, <2>4 DEF RunGrubInstall
<1>10. CASE GrubDefaultConfig
  <2>1. ASSUME NEW to, NEW systems, WritesConfig(to, systems) PROVE Elsewhere
    BY <1>1, <2>1, RootEdited DEF WritesConfig
  <2>2. CASE GetGrubConfig
    BY <1>3, <1>e, <2>2 DEF GetGrubConfig
  <2>3. CASE WriteGrubConfig
    BY <2>1, <2>3 DEF WriteGrubConfig
  <2>4. CASE WriteBroken
    BY <2>1, <2>4 DEF WriteBroken
  <2>. QED
    BY <1>10, <2>2, <2>3, <2>4 DEF GrubDefaultConfig
<1>11. CASE AddGrubScript \/ RemoveGrubScript
  <2>1. ASSUME NEW from, NEW scripts, Scripts(from, scripts) PROVE Elsewhere
    <3>1. sites' = [sites EXCEPT !["root"] = [@ EXCEPT !.scripts = scripts]]
      BY <1>1, <2>1 DEF Scripts
    <3>. QED
      BY <3>1, RootEdited
  <2>. QED
    BY <1>3, <1>11, <2>1 DEF AddGrubScript, RemoveGrubScript
<1>12. CASE RunGrubMkconfig
  BY <1>2, <1>3, <1>12 DEF RunGrubMkconfig
<1>13. CASE Dispatch
  BY <1>13 DEF Dispatch, Goes
<1>. QED
  BY <1>4, <1>5, <1>6, <1>7, <1>8, <1>9, <1>10, <1>11, <1>12, <1>13
  DEF RunPostInstall

(* Whatever is not a command only chooses the next one.                    *)
LEMMA CommandOrDispatch == RunPostInstall => pc \in Commands \/ Dispatch
<1>. SUFFICES ASSUME RunPostInstall, ~Dispatch PROVE pc \in Commands
  OBVIOUS
<1>. USE DEF Edits, Goes, Commands
<1>1. AddUser => pc \in Commands
  BY Zenon DEF AddUser, Useradd, Comment, Chpasswd, AddGroups, SetsUser
<1>2. SetTimezone \/ RemovePackages \/ ChangeHostname \/ SetKeyboardLayout
        => pc \in Commands
  BY DEF SetTimezone, WriteTimezone, LinkLocaltime, RemovePackages, ChangeHostname,
         WriteHostname, WriteHosts, SetKeyboardLayout, WriteKeyboard, Setupcon
<1>3. Shell \/ Swapon => pc \in Commands
  BY DEF Shell, Swapon
<1>4. SetLocale => pc \in Commands
  BY DEF SetLocale, GrepSupported, SedLocaleGen, LocaleGen, WriteLocale
<1>5. RunGrubInstall => pc \in Commands
  BY Zenon DEF RunGrubInstall, BindForGrub, GetGrubTarget, GrubInstall, Efibootmgr
<1>6. GrubDefaultConfig \/ RunGrubMkconfig => pc \in Commands
  <2>1. ASSUME NEW to, NEW systems, WritesConfig(to, systems) PROVE pc \in Commands
    BY <2>1 DEF WritesConfig
  <2>2. WriteGrubConfig => pc \in Commands
    BY <2>1 DEF WriteGrubConfig
  <2>3. WriteBroken => pc \in Commands
    BY <2>1 DEF WriteBroken
  <2>4. GetGrubConfig \/ RunGrubMkconfig => pc \in Commands
    BY DEF GetGrubConfig, RunGrubMkconfig
  <2>. QED
    BY <2>2, <2>3, <2>4 DEF GrubDefaultConfig
<1>7. AddGrubScript \/ RemoveGrubScript => pc \in Commands
  BY DEF AddGrubScript, RemoveGrubScript, Scripts
<1>. QED
  BY <1>1, <1>2, <1>3, <1>4, <1>5, <1>6, <1>7 DEF RunPostInstall

LEMMA LiveKept ==
  ASSUME TypeInv, [Next]_vars, pc \notin Ended, InRoot
  PROVE  Elsewhere
<1>t. SitesTyped /\ mounted \in BOOLEAN
  BY Zenon DEF TypeInv, TypeOK, SitesTyped
<1>m. pc \in {"copy", "tables", "step"} \cup Commands => mounted = TRUE /\ Target = "root"
  <2>1. pc \in {"copy", "tables", "step"} \cup Commands => mounted = TRUE
    BY <1>t, Zenon DEF TypeInv, Mounting
  <2>. QED
    BY <2>1 DEF Target
<1>e. UNCHANGED sites => Elsewhere
  BY DEF Elsewhere
<1>. USE DEF Ended
<1>1. CASE Begin \/ Unmount \/ Reboot
  BY <1>1 DEF Begin, Unmount, Reboot
<1>2. CASE RunSetup
  <2>1. UNCHANGED sites \/ sites' = [sites EXCEPT !["root"] = Blank]
    BY <1>2 DEF RunSetup
  <2>. QED
    BY <1>t, <1>e, <2>1, RootEdited
<1>3. CASE SetupMountpoints \/ CopyRefused \/ InitramfsBroken \/ Finish \/ Fail
  BY <1>3, <1>e DEF SetupMountpoints, CopyRefused, InitramfsBroken, Finish, Fail
<1>4. CASE Copy
  <2>1. Target = "root"
    BY <1>m, <1>4 DEF Copy, Phase
  <2>2. ASSUME NEW some, NEW content, sites' = Copied(some, content) PROVE Elsewhere
    BY <1>t, <2>1, <2>2, RootEdited DEF Copied
  <2>. QED
    BY <1>4, <2>2 DEF Copy
<1>5. CASE Initramfs
  <2>1. Target = "root"
    BY <1>m, <1>5 DEF Initramfs, Phase
  <2>2. sites' = [sites EXCEPT !["root"] = [@ EXCEPT !.content = "ready"]]
    BY <1>5, <2>1 DEF Initramfs
  <2>. QED
    BY <1>t, <2>2, RootEdited
<1>6. CASE PostInstallation
  <2>1. CASE pc \in Commands
    <3>1. at \in DOMAIN recipe.post /\ pc # "step"
      BY <2>1, CommandNames DEF TypeInv, TypeOK
    <3>2. step.chroot
      BY <3>1 DEF InRoot
    <3>. QED
      BY <1>t, <1>m, <1>6, <2>1, <3>1, <3>2, ChrootStepElsewhere DEF PostInstallation
  <2>2. CASE pc \notin Commands
    <3>1. Dispatch
      BY <1>6, <2>2, CommandOrDispatch DEF PostInstallation
    <3>. QED
      BY <1>e, <3>1 DEF Dispatch
  <2>. QED
    BY <2>1, <2>2
<1>7. CASE UNCHANGED vars
  BY <1>7, <1>e DEF vars
<1>. QED
  BY <1>1, <1>2, <1>3, <1>4, <1>5, <1>6, <1>7 DEF Next

(* While the installer mounts, copies or runs a Chroot step, no file of    *)
(* the live system changes, nor of its directory below the root's mount,   *)
(* whatever the recipe and wherever earlier runs broke off.                *)
THEOREM LiveKeptUntouched == Spec => LiveUntouched
<1>1. TypeInv /\ [Next]_vars =>
        [pc \notin Ended /\ InRoot
           => sites'.live = sites.live /\ sites'.below = sites.below]_vars
  BY LiveKept DEF Elsewhere
<1>. QED
  BY <1>1, TypeInvariant, PTL DEF Spec, LiveUntouched

-----------------------------------------------------------------------------
(* The inductive invariants of Repeatable and of Implements.  The state of *)
(* the root is compared with `base`, what the installation made in one go  *)
(* has after the steps before the present one.                             *)
root == sites.root
base == Promised!After[at - 1]
InSteps == pc \in {"step"} \cup Commands

(* The operation that a command belongs to, and what has brought it there. *)
OperationOf(command) ==
  CASE command \in {"useradd", "comment", "chpasswd", "groups"} -> "adduser"
    [] command \in {"timezone", "localtime"} -> "timezone"
    [] command \in {"hostname", "hosts"} -> "hostname"
    [] command \in {"grep", "sed", "locale-gen", "default-locale"} -> "locale"
    [] command \in {"keyboard", "setupcon"} -> "keyboard"
    [] command \in {"bind", "target", "grub-install", "efibootmgr"} -> "grub-install"
    [] command \in {"grub-default-config", "write-config"} -> "grub-default-config"
    [] OTHER -> command
Own ==
  /\ pc \in Commands => step.op = OperationOf(pc)
  /\ pc = "bind" => step.chroot
  /\ pc = "efibootmgr" => step.target = "efi" /\ ~step.removable

(* The directories that a chroot's grub-install has bound stay bound.      *)
AllBound == \A dir \in ToSet(RequiredBinds) : binds[dir] # 0
GrubBound ==
  /\ InSteps => \A m \in 1..at - 1 :
       recipe.post[m].op = "grub-install" /\ recipe.post[m].chroot => AllBound
  /\ pc = "bind" => \A i \in 1..arg - 1 : binds[RequiredBinds[i]] # 0
  /\ pc \in {"target", "grub-install", "efibootmgr"} /\ step.chroot => AllBound

(* The accounts in the root are named as those of the installation so far. *)
Adding == pc \in {"comment", "chpasswd", "groups"} /\ step.chroot
UserNames ==
  /\ pc = "tables" => root.users = image.system.users
  /\ InSteps => DOMAIN root.users =
                  DOMAIN base.users \cup IF Adding THEN {step.account.name} ELSE {}

(* The arguments that a loop has been through.                             *)
Earlier == {Arguments(step)[i] : i \in 1..arg - 1}

(* No script of the installation so far is missing in the root, but those  *)
(* that are being removed.                                                 *)
Removing == pc = "grub-remove-script" /\ step.chroot
ScriptsKept ==
  /\ pc = "tables" => image.system.scripts \subseteq root.scripts
  /\ InSteps => base.scripts \subseteq root.scripts \cup IF Removing THEN Earlier ELSE {}
  /\ pc = "grub-add-script" /\ step.chroot => Earlier \subseteq root.scripts

(* A last line that is cut off is in the root only where nothing replaces  *)
(* it.                                                                     *)
BareKept ==
  /\ pc \in {"mount", "copy"} /\ recipe.formats => root = Blank
  /\ pc = "tables" \/ InSteps =>
       (root.defaults.bare =>
          image.system.defaults.bare \/ ("defaults" \notin image.ships /\ ~recipe.formats))

RepeatInv ==
  TypeInv /\ Own /\ GrubBound /\ UserNames /\ ScriptsKept /\ BareKept /\ Repeatable

(* The settings in the root are lines of the image and the recipe, and the *)
(* GrubConfig in memory is the map of the file and the step.               *)
GoodDefaults(d) ==
  d = [lines |-> d.lines, bare |-> d.bare] /\ d.lines \in Seq(Promised!Lines)
LinesKnown == GoodDefaults(root.defaults) /\ root.defaults.bare \in BOOLEAN
ConfigKnown ==
  pc = "write-config" /\ step.chroot =>
    config = Mapped(root.defaults.lines \o step.lines) /\ ~root.defaults.bare

(* What the commands of a step have done before its last.                  *)
HalfwayFiles ==
  /\ pc = "localtime" => root.timezone = step.tz
  /\ pc = "hosts" => root.hostname = step.name
  /\ pc = "setupcon" => root.keyboard = step.layout
  /\ pc \in {"locale-gen", "default-locale"} => step.code \in root.localegen
  /\ pc = "default-locale" => root.locales = root.localegen
HalfwayLoops ==
  /\ pc = "shell" => Earlier \subseteq root.marks
  /\ pc = "grub-remove-script" => Earlier \cap root.scripts = {}
Halfway ==
  /\ step.chroot => HalfwayFiles /\ HalfwayLoops
  /\ pc = "efibootmgr" /\ Promised!InRoot(step) => root.loader = step.target

(* The operations that write a file, and the files whose old content is    *)
(* replaced.                                                               *)
Writers(file) ==
  CASE file = "users" -> {"adduser"}
    [] file \in {"timezone", "localtime"} -> {"timezone"}
    [] file \in {"hostname", "hosts"} -> {"hostname"}
    [] file \in {"localegen", "locales", "locale"} -> {"locale"}
    [] file \in {"keyboard", "console"} -> {"keyboard"}
    [] file = "packages" -> {"pkgremove"}
    [] file = "marks" -> {"shell"}
    [] file = "loader" -> {"grub-install"}
    [] file = "defaults" -> {"grub-default-config"}
    [] file = "scripts" -> {"grub-add-script", "grub-remove-script"}
    [] file = "menu" -> {"grub-mkconfig"}
    [] OTHER -> {}
Replaced == {"timezone", "localtime", "hostname", "hosts", "locale", "locales", "keyboard",
             "console", "loader", "menu"}

(* What the steps in R would do in the root, and how a file of the system  *)
(* s may differ from that of b by what they, in some run, have done to it. *)
Acts(R, op) == {m \in R : Promised!InRoot(recipe.post[m]) /\ recipe.post[m].op = op}
Marks(R)    == UNION {ToSet(recipe.post[m].commands) : m \in Acts(R, "shell")}
Unwanted(R) == UNION {recipe.post[m].unwanted : m \in Acts(R, "pkgremove")}
Codes(R)    == {recipe.post[m].code : m \in Acts(R, "locale")}
Added(R)    == UNION {ToSet(recipe.post[m].scripts) : m \in Acts(R, "grub-add-script")}
NewKeys(R)  == UNION {Keys(recipe.post[m].lines) : m \in Acts(R, "grub-default-config")}
SameFor(a, b, key) ==
  /\ key \in Keys(a) <=> key \in Keys(b)
  /\ key \in Keys(a) => Mapped(a)[key] = Mapped(b)[key]
Part(file, s, b, R) ==
  /\ file \in Replaced /\ (\A op \in Writers(file) : Acts(R, op) = {}) => s[file] = b[file]
  /\ file = "marks" => b.marks \subseteq s.marks /\ s.marks \subseteq b.marks \cup Marks(R)
  /\ file = "packages" =>
       s.packages \subseteq b.packages /\ b.packages \subseteq s.packages \cup Unwanted(R)
  /\ file = "localegen" =>
       b.localegen \subseteq s.localegen /\ s.localegen \subseteq b.localegen \cup Codes(R)
  /\ file = "scripts" => s.scripts \subseteq b.scripts \cup Added(R)
  /\ file = "defaults" =>
       /\ \A key : key \notin NewKeys(R) => SameFor(s.defaults.lines, b.defaults.lines, key)
       /\ s.defaults.bare # b.defaults.bare =>
            s.defaults.bare /\ Acts(R, "grub-default-config") # {}
Like(files, s, b, R) == \A file \in files : Part(file, s, b, R)

(* What an image does not ship is in the root as an earlier run left it.   *)
Unshipped == (Files \ image.ships) \cup {"scripts"}
Left == Like(Unshipped, root, image.system, DOMAIN recipe.post)

(* During the steps, the root is the installation so far but for what the  *)
(* present step is doing and what the later ones have done in an earlier   *)
(* run.  Where the setup formats the root, there is nothing of that.       *)
Due(n) == IF recipe.formats THEN {} ELSE n..Len(recipe.post)
Undone == IF pc = "step" THEN Due(at) ELSE {at} \cup Due(at + 1)
Current ==
  /\ pc = "tables" => Like(Files, root, image.system, Due(1))
  /\ InSteps => root.content = "ready" /\ Like(Files, root, base, Undone)

(* The accounts in the root are those of the installation so far, but for  *)
(* what is still missing in the one that is being added.                   *)
With(users, account) ==
  [name \in DOMAIN users \cup {account.name} |->
     IF name = account.name THEN account ELSE users[name]]
AddedUpTo(command) ==
  [step.account EXCEPT !.fullname = IF command = "comment" THEN "" ELSE @,
                       !.password = IF command \in {"comment", "chpasswd"} THEN "" ELSE @,
                       !.groups = {}]
UsersSame ==
  InSteps => root.users = IF Adding THEN With(base.users, AddedUpTo(pc)) ELSE base.users

ImplementsInv ==
  /\ RepeatInv /\ LinesKnown /\ ConfigKnown /\ Halfway /\ Left
  /\ Promised!Independent => Current
  /\ Promised!OneNumber => UsersSame

-----------------------------------------------------------------------------
(* The steps of an installation, and what the program makes of the root.   *)

(* The installation's steps are applied one after the other.               *)
LEMMA AfterSteps ==
  ASSUME recipe \in Recipes
  PROVE  /\ Promised!After[0] = image.system
         /\ \A n \in 1..Len(recipe.post) :
              Promised!After[n] = Promised!Effect(Promised!After[n - 1], recipe.post[n])
<1>. DEFINE N == Len(recipe.post)
            Upto(k) == \E f : f = [n \in 0..k |-> IF n = 0 THEN image.system
                                   ELSE Promised!Effect(f[n - 1], recipe.post[n])]
            Bad == {k \in 0..N : ~Upto(k)}
<1>1. N \in Nat
  BY PostIsSequence
<1>2. ASSUME Bad # {} PROVE FALSE
  <2>1. IsWellFoundedOn(OpToRel(<, Nat), Nat)
    BY NatLessThanWellFounded, Zenon
  <2>2. Bad \subseteq Nat
    BY <1>1
  <2>. HIDE DEF Bad
  <2>3. PICK k \in Bad : \A j \in Bad : <<j, k>> \notin OpToRel(<, Nat)
    BY <1>2, <2>1, <2>2, WFMin, Zenon
  <2>4. \A j \in Bad : ~(j < k)
    BY <2>2, <2>3 DEF OpToRel
  <2>. USE DEF Bad
  <2>5. CASE k = 0
    <3>. DEFINE f == [n \in 0..0 |-> image.system]
    <3>1. f = [n \in 0..0 |-> IF n = 0 THEN image.system
                              ELSE Promised!Effect(f[n - 1], recipe.post[n])]
      OBVIOUS
    <3>2. Upto(0)
      BY <3>1
    <3>. QED
      BY <2>3, <2>5, <3>2, Zenon
  <2>6. CASE k # 0
    <3>1. k \in 1..N /\ k - 1 \in 0..N /\ k - 1 < k
      BY <1>1, <2>6
    <3>2. Upto(k - 1)
      BY <2>4, <3>1
    <3>3. PICK f : f = [n \in 0..k - 1 |-> IF n = 0 THEN image.system
                           ELSE Promised!Effect(f[n - 1], recipe.post[n])]
      BY <3>2
    <3>. DEFINE g == [n \in 0..k |-> IF n = k
                        THEN Promised!Effect(f[k - 1], recipe.post[k]) ELSE f[n]]
    <3>4. \A n \in 0..k - 1 : g[n] = f[n]
      BY <3>1
    <3>5. \A n \in 0..k : g[n] = IF n = 0 THEN image.system
                                 ELSE Promised!Effect(g[n - 1], recipe.post[n])
      <4>. TAKE n \in 0..k
      <4>1. CASE n = k
        BY <3>1, <3>4, <4>1
      <4>2. CASE n # k
        <5>1. n \in 0..k - 1
          BY <3>1, <4>2
        <5>2. f[n] = IF n = 0 THEN image.system
                     ELSE Promised!Effect(f[n - 1], recipe.post[n])
          BY <3>3, <5>1
        <5>3. n # 0 => f[n - 1] = g[n - 1]
          BY <3>1, <3>4, <5>1
        <5>. QED
          BY <3>4, <5>1, <5>2, <5>3
      <4>. QED
        BY <4>1, <4>2
    <3>6. g = [n \in 0..k |-> IF n = 0 THEN image.system
                              ELSE Promised!Effect(g[n - 1], recipe.post[n])]
      <4>. DEFINE h == [n \in 0..k |-> IF n = 0 THEN image.system
                              ELSE Promised!Effect(g[n - 1], recipe.post[n])]
      <4>1. \A n \in 0..k : g[n] = h[n]
        BY <3>5
      <4>. QED
        BY <4>1
    <3>. HIDE DEF g
    <3>7. Upto(k)
      BY <3>6
    <3>. QED
      BY <2>3, <3>7, Zenon
  <2>. QED
    BY <2>5, <2>6
<1>3. Upto(N)
  BY <1>1, <1>2
<1>4. Promised!After =
        [n \in 0..N |-> IF n = 0 THEN image.system
                        ELSE Promised!Effect(Promised!After[n - 1], recipe.post[n])]
  BY <1>3 DEF Promised!After
<1>. QED
  BY <1>1, <1>4

LEMMA AfterSame ==
  ASSUME UNCHANGED <<recipe, image>>
  PROVE  /\ Promised!After' = Promised!After
         /\ \A s : Promised!InRoot(s)' = Promised!InRoot(s)
         /\ Promised!Lines' = Promised!Lines /\ Promised!Independent' = Promised!Independent
         /\ Promised!OneNumber' = Promised!OneNumber
         /\ \A n : Promised!Feasible(n)' = Promised!Feasible(n)
BY DEF Promised!After, Promised!Effect, Promised!InRoot, Promised!Lines, Promised!Independent,
  Promised!OneNumber, Promised!Rooted, Promised!Feasible

(* What a command of a Chroot step makes of the root.                      *)
Becomes(next, s) == pc' = next /\ root' = s
Stays(next) == pc' = next /\ root' = root
NextRoundOr(next) ==
  \/ arg < Len(Arguments(step)) /\ pc' = pc /\ arg' = arg + 1
  \/ ~(arg < Len(Arguments(step))) /\ pc' = next
RootUsers ==
  /\ pc = "useradd" =>
       \/ Stays("refused") /\ step.account.name \in DOMAIN root.users
       \/ Becomes("comment", [root EXCEPT !.users = With(@, Useradded)])
  /\ pc = "comment" =>
       Becomes(IF step.account.password = "" THEN AfterPassword ELSE "chpasswd",
         [root EXCEPT !.users[step.account.name].fullname = step.account.fullname])
  /\ pc = "chpasswd" =>
       Becomes(AfterPassword,
         [root EXCEPT !.users[step.account.name].password = step.account.password])
  /\ pc = "groups" =>
       Becomes("step",
         [root EXCEPT !.users[step.account.name].groups = step.account.groups])
RootFiles ==
  /\ pc = "timezone"  => Becomes("localtime", [root EXCEPT !.timezone = step.tz])
  /\ pc = "localtime" => Becomes("step", [root EXCEPT !.localtime = step.tz])
  /\ pc = "hostname"  => Becomes("hosts", [root EXCEPT !.hostname = step.name])
  /\ pc = "hosts"     => Becomes("step", [root EXCEPT !.hosts = step.name])
  /\ pc = "keyboard"  => Becomes("setupcon", [root EXCEPT !.keyboard = step.layout])
  /\ pc = "setupcon"  => Becomes("step", [root EXCEPT !.console = root.keyboard])
  /\ pc = "pkgremove" => Becomes("step", [root EXCEPT !.packages = @ \ step.unwanted])
  /\ pc = "grep"      => \/ Stays("sed") /\ step.code \in Supported
                         \/ Stays("refused") /\ step.code \notin Supported
  /\ pc = "sed"       => Becomes("locale-gen", [root EXCEPT !.localegen = @ \cup {step.code}])
  /\ pc = "locale-gen"     => Becomes("default-locale", [root EXCEPT !.locales = root.localegen])
  /\ pc = "default-locale" => Becomes("step", [root EXCEPT !.locale = step.code])
  /\ pc = "swapon" => Stays("step") \/ Stays("refused")
  /\ pc = "shell" => /\ NextRoundOr("step")
                     /\ root' = [root EXCEPT !.marks = @ \cup {Arguments(step)[arg]}]
RootGrub ==
  /\ pc = "bind" =>
       /\ root' = root /\ binds' = [binds EXCEPT ![RequiredBinds[arg]] = @ + 1]
       /\ \/ arg < Len(RequiredBinds) /\ pc' = pc /\ arg' = arg + 1
          \/ ~(arg < Len(RequiredBinds)) /\ pc' = "target"
  /\ pc = "target" => \/ Stays("grub-install") /\ step.target \in {"bios", "efi"}
                      \/ Stays("refused") /\ step.target \notin {"bios", "efi"}
  /\ pc = "grub-install" =>
       Becomes(IF step.target = "efi" /\ ~step.removable THEN "efibootmgr" ELSE "step",
         [root EXCEPT !.loader = step.target])
  /\ pc = "efibootmgr" => \/ Stays("refused") /\ step.efiDevice = ""
                          \/ Stays("step")
Rewrites(keys, bare) ==
  \E order \in SetToSeqs(keys) : root' = [root EXCEPT !.defaults =
    [lines |-> [n \in DOMAIN order |-> config[order[n]]], bare |-> bare]]
RootConfig ==
  /\ pc = "grub-default-config" =>
       \/ Stays("refused") /\ (root.defaults.bare \/ step.bare)
       \/ /\ Stays("write-config") /\ ~root.defaults.bare
          /\ config' = Mapped(root.defaults.lines \o step.lines)
  /\ pc = "write-config" =>
       \E some \in SUBSET DOMAIN config, bare \in BOOLEAN :
         /\ Rewrites(some, bare)
         /\ \/ pc' = "failed"
            \/ pc' = "step" /\ some = DOMAIN config /\ bare = FALSE
  /\ pc = "grub-add-script" =>
       /\ NextRoundOr("step")
       /\ root' = [root EXCEPT !.scripts = @ \cup {Arguments(step)[arg]}]
  /\ pc = "grub-remove-script" =>
       \/ Stays("refused") /\ Arguments(step)[arg] \notin root.scripts
       \/ /\ NextRoundOr("step") /\ Arguments(step)[arg] \in root.scripts
          /\ root' = [root EXCEPT !.scripts = @ \ {Arguments(step)[arg]}]
  /\ pc = "grub-mkconfig" =>
       \/ /\ Stays("refused") /\ \E dir \in {"dev", "proc", "sys"} : binds[dir] = 0
       \/ Becomes("step", [root EXCEPT !.menu =
            [settings |-> Sourced(root.defaults.lines), scripts |-> root.scripts]])
RootTable == RootUsers /\ RootFiles /\ RootGrub /\ RootConfig

LEMMA ChrootEdit ==
  ASSUME TypeInv, pc \in Commands, step.chroot
  PROVE  /\ Target = "root" /\ Site = "root" /\ sys = root
         /\ \A s : sites' = [sites EXCEPT ![Site] = s] => root' = s
BY InStep DEF Target, Site, sys, root, SitesTyped

LEMMA ChrootCommand ==
  ASSUME TypeInv, RunPostInstall, pc \in Commands, step.chroot
  PROVE  RootTable
<1>s. /\ Target = "root" /\ Site = "root" /\ sys = root
      /\ \A s : sites' = [sites EXCEPT ![Site] = s] => root' = s
  BY ChrootEdit
<1>k. UNCHANGED sites => root' = root
  BY DEF root
<1>b. SitesTyped
  BY InStep
<1>. USE DEF Edits, Refused, Goes, Keeps, Becomes, Stays
<1>1. CASE Useradd
  <2>1. pc = "useradd"
    BY <1>1 DEF Useradd
  <2>2. Useradded.name = step.account.name
    BY DEF Useradded
  <2>. QED
    BY <1>1, <1>s, <1>k, <2>1, <2>2 DEF Useradd, RootTable, RootUsers, RootFiles,
       RootGrub, RootConfig, With
<1>2. CASE Comment \/ Chpasswd \/ AddGroups
  BY <1>2, <1>s, <1>k, Zenon DEF Comment, Chpasswd, AddGroups, SetsUser,
    RootTable, RootUsers, RootFiles, RootGrub, RootConfig
<1>3. CASE SetTimezone \/ RemovePackages \/ ChangeHostname \/ SetKeyboardLayout
  BY <1>3, <1>s, <1>k, Zenon DEF SetTimezone, WriteTimezone, LinkLocaltime,
     RemovePackages, ChangeHostname,
      WriteHostname, WriteHosts, SetKeyboardLayout, WriteKeyboard, Setupcon,
    RootTable, RootUsers, RootFiles, RootGrub, RootConfig
<1>4. CASE SetLocale
  BY <1>4, <1>s, <1>k, Zenon DEF SetLocale, GrepSupported, SedLocaleGen, LocaleGen, WriteLocale,
    RootTable, RootUsers, RootFiles, RootGrub, RootConfig

<1>5. CASE Shell
  <2>1. sites' = [sites EXCEPT !["root"] = [root EXCEPT !.marks = @ \cup {Arguments(step)[arg]}]]
    BY <1>5, <1>s, <1>b DEF Shell, root
  <2>2. root' = [root EXCEPT !.marks = @ \cup {Arguments(step)[arg]}]
    BY <1>s, <2>1
  <2>. QED
    BY <1>5, <2>2 DEF Shell, Round, NextRoundOr, RootTable, RootUsers, RootFiles,
       RootGrub, RootConfig
<1>6. CASE Swapon
  BY <1>6, <1>s, <1>k DEF Swapon, RootTable, RootUsers, RootFiles, RootGrub, RootConfig
<1>7. CASE BindForGrub \/ GetGrubTarget \/ Efibootmgr
  BY <1>7, <1>s, <1>k, Zenon DEF BindForGrub, GetGrubTarget, Efibootmgr, Round,
    RootTable, RootUsers, RootFiles, RootGrub, RootConfig
<1>8. CASE GrubInstall
  <2>0. sites' = [sites EXCEPT !["root"].loader = step.target]
    BY <1>8, <1>s DEF GrubInstall
  <2>1. sites' = [sites EXCEPT !["root"] = [root EXCEPT !.loader = step.target]]
    BY <2>0, <1>b DEF root
  <2>2. root' = [root EXCEPT !.loader = step.target]
    BY <1>s, <2>1
  <2>. QED
    BY <1>8, <2>2 DEF GrubInstall, RootTable, RootUsers, RootFiles, RootGrub, RootConfig
<1>9. CASE GetGrubConfig
  BY <1>9, <1>s, <1>k DEF GetGrubConfig, RootTable, RootUsers, RootFiles, RootGrub, RootConfig
<1>10. CASE WriteGrubConfig \/ WriteBroken
  <2>1. ASSUME NEW to, NEW systems, WritesConfig(to, systems)
        PROVE  pc = "write-config" /\ pc' = to /\ \E s \in systems : root' = s
    BY <1>s, <2>1 DEF WritesConfig
  <2>2. CASE WriteGrubConfig
    <3>1. /\ pc = "write-config" /\ pc' = "step"
          /\ \E s \in Written(DOMAIN config, FALSE) : root' = s
      BY <2>1, <2>2 DEF WriteGrubConfig
    <3>2. Rewrites(DOMAIN config, FALSE)
      BY <1>s, <3>1 DEF Written, Rewrites
    <3>. QED
      BY <3>1, <3>2 DEF RootTable, RootUsers, RootFiles, RootGrub, RootConfig
  <2>3. CASE WriteBroken
    <3>1. PICK s \in UNION {Written(some, bare) :
                  some \in SUBSET DOMAIN config \ {DOMAIN config}, bare \in BOOLEAN} :
            pc = "write-config" /\ pc' = "failed" /\ root' = s
      BY <2>1, <2>3 DEF WriteBroken
    <3>2. PICK some \in SUBSET DOMAIN config, bare \in BOOLEAN : s \in Written(some, bare)
      BY <3>1
    <3>3. Rewrites(some, bare)
      BY <1>s, <3>1, <3>2 DEF Written, Rewrites
    <3>. QED
      BY <3>1, <3>3 DEF RootTable, RootUsers, RootFiles, RootGrub, RootConfig
  <2>. QED
    BY <1>10, <2>2, <2>3
<1>11. CASE AddGrubScript \/ RemoveGrubScript
  <2>1. ASSUME NEW scripts, sites' = [sites EXCEPT ![Site].scripts = scripts]
        PROVE  root' = [root EXCEPT !.scripts = scripts]
    <3>1. sites' = [sites EXCEPT !["root"] = [root EXCEPT !.scripts = scripts]]
      BY <2>1, <1>s, <1>b DEF root
    <3>. QED
      BY <1>s, <3>1
  <2>2. CASE AddGrubScript
    <3>1. sites' = [sites EXCEPT ![Site].scripts = root.scripts \cup {Arguments(step)[arg]}]
      BY <1>s, <2>2 DEF AddGrubScript, Scripts
    <3>2. root' = [root EXCEPT !.scripts = root.scripts \cup {Arguments(step)[arg]}]
      BY <2>1, <3>1
    <3>. QED
      BY <2>2, <3>2 DEF AddGrubScript, Scripts, Round, NextRoundOr,
        RootTable, RootUsers, RootFiles, RootGrub, RootConfig
  <2>3. CASE RemoveGrubScript /\ Arguments(step)[arg] \in root.scripts
    <3>1. sites' = [sites EXCEPT ![Site].scripts = root.scripts \ {Arguments(step)[arg]}]
      BY <1>s, <2>3 DEF RemoveGrubScript, Scripts
    <3>2. root' = [root EXCEPT !.scripts = root.scripts \ {Arguments(step)[arg]}]
      BY <2>1, <3>1
    <3>. QED
      BY <1>s, <2>3, <3>2 DEF RemoveGrubScript, Scripts, Round, NextRoundOr,
        RootTable, RootUsers, RootFiles, RootGrub, RootConfig
  <2>4. CASE RemoveGrubScript /\ Arguments(step)[arg] \notin root.scripts
    BY <1>s, <1>k, <2>4 DEF RemoveGrubScript,
      RootTable, RootUsers, RootFiles, RootGrub, RootConfig
  <2>. QED
    BY <1>11, <2>2, <2>3, <2>4
<1>12. CASE RunGrubMkconfig
  BY <1>12, <1>s, <1>k DEF RunGrubMkconfig, Menu,
    RootTable, RootUsers, RootFiles, RootGrub, RootConfig
<1>13. ~Dispatch
  BY CommandNames DEF Dispatch
<1>. QED
  BY <1>1, <1>2, <1>3, <1>4, <1>5, <1>6, <1>7, <1>8, <1>9, <1>10, <1>11, <1>12, <1>13
  DEF RunPostInstall, AddUser, RunGrubInstall, GrubDefaultConfig

(* A command of a step on the host leaves the root, but for grub-install   *)
(* with the root's boot directory.                                         *)
LEMMA HostCommand ==
  ASSUME TypeInv, RunPostInstall, pc \in Commands, ~step.chroot
  PROVE  root' = IF pc = "grub-install" /\ step.boot = "root"
                 THEN [root EXCEPT !.loader = step.target] ELSE root
<1>b. SitesTyped /\ mounted = TRUE /\ Site = "live" /\ Target = "root"
  BY InStep DEF Site, Target
<1>k. UNCHANGED sites => root' = root
  BY DEF root
<1>s. ASSUME NEW s, sites' = [sites EXCEPT ![Site] = s] PROVE root' = root
  BY <1>b, <1>s DEF root, SitesTyped
<1>. USE DEF Edits, Refused, Goes, Keeps
<1>1. CASE AddUser
  BY <1>1, <1>k, <1>s, Zenon DEF AddUser, Useradd, Comment, Chpasswd, AddGroups, SetsUser
<1>2. CASE SetTimezone \/ RemovePackages \/ ChangeHostname \/ SetKeyboardLayout
  BY <1>2, <1>s DEF SetTimezone, WriteTimezone, LinkLocaltime, RemovePackages, ChangeHostname,
      WriteHostname, WriteHosts, SetKeyboardLayout, WriteKeyboard, Setupcon
<1>3. CASE SetLocale
  BY <1>3, <1>s, <1>k DEF SetLocale, GrepSupported, SedLocaleGen, LocaleGen, WriteLocale
<1>4. CASE Shell
  <2>. DEFINE s == [sites["live"] EXCEPT !.marks = @ \cup {Arguments(step)[arg]}]
  <2>1. sites' = [sites EXCEPT ![Site] = s] /\ pc = "shell"
    BY <1>4, <1>b DEF Shell
  <2>. HIDE DEF s
  <2>. QED
    BY <2>1, <1>s
<1>5. CASE Swapon \/ BindForGrub \/ GetGrubTarget \/ Efibootmgr \/ GetGrubConfig \/ RunGrubMkconfig
  BY <1>5, <1>s, <1>k, Zenon DEF Swapon, BindForGrub, GetGrubTarget, Efibootmgr,
     GetGrubConfig, RunGrubMkconfig
<1>6. CASE GrubInstall
  <2>1. CASE step.boot = "root"
    <3>1. sites' = [sites EXCEPT !["root"].loader = step.target]
      BY <1>6, <1>b, <2>1 DEF GrubInstall
    <3>2. root' = [root EXCEPT !.loader = step.target]
      BY <3>1, <1>b DEF root, SitesTyped
    <3>. QED
      BY <1>6, <2>1, <3>2 DEF GrubInstall
  <2>2. CASE step.boot # "root"
    <3>. DEFINE s == [sites["live"] EXCEPT !.loader = step.target]
    <3>0. sites' = [sites EXCEPT ![Site].loader = step.target]
      BY <1>6, <2>2 DEF GrubInstall
    <3>1. sites' = [sites EXCEPT ![Site] = s]
      BY <3>0, <1>b
    <3>. HIDE DEF s
    <3>. QED
      BY <2>2, <3>1, <1>s
  <2>. QED
    BY <2>1, <2>2
<1>7. CASE WriteGrubConfig \/ WriteBroken
  <2>1. ASSUME NEW to, NEW systems, WritesConfig(to, systems)
        PROVE  pc # "grub-install" /\ root' = root
    <3>1. PICK s \in systems : sites' = [sites EXCEPT ![Site] = s] /\ pc = "write-config"
      BY <2>1 DEF WritesConfig
    <3>. QED
      BY <1>s, <3>1
  <2>. DEFINE all == Written(DOMAIN config, FALSE)
              parts == UNION {Written(some, bare) :
                         some \in SUBSET DOMAIN config \ {DOMAIN config}, bare \in BOOLEAN}
  <2>2. WriteGrubConfig => WritesConfig("step", all)
    BY DEF WriteGrubConfig
  <2>3. WriteBroken => WritesConfig("failed", parts)
    BY DEF WriteBroken
  <2>. HIDE DEF all, parts
  <2>. QED
    BY <1>7, <2>1, <2>2, <2>3
<1>8. CASE AddGrubScript \/ RemoveGrubScript
  <2>1. ASSUME NEW from, NEW scripts, Scripts(from, scripts) PROVE pc = from /\ root' = root
    <3>. DEFINE s == [sites["live"] EXCEPT !.scripts = scripts]
    <3>1. sites' = [sites EXCEPT ![Site] = s]
      BY <2>1, <1>b DEF Scripts
    <3>. HIDE DEF s
    <3>. QED
      BY <2>1, <3>1, <1>s DEF Scripts
  <2>. QED
    BY <1>8, <2>1, <1>k DEF AddGrubScript, RemoveGrubScript
<1>9. ~Dispatch
  BY CommandNames DEF Dispatch
<1>. QED
  BY <1>1, <1>2, <1>3, <1>4, <1>5, <1>6, <1>7, <1>8, <1>9
  DEF RunPostInstall, RunGrubInstall, GrubDefaultConfig

-----------------------------------------------------------------------------

(* Where a command leads.                                                  *)
OnTo ==
  /\ UNCHANGED <<recipe, image, mounted>>
  /\ \/ /\ pc' \in Commands /\ at' = at /\ OperationOf(pc') = OperationOf(pc)
        /\ arg' = IF pc' = pc THEN arg + 1 ELSE 1
     \/ pc' = "step" /\ at' = at + 1 /\ arg' = 1
     \/ pc' \in {"refused", "failed"} /\ at' = at /\ arg' = 1
  /\ pc' = "bind" => pc = "bind"
  /\ pc' = "efibootmgr" => pc = "grub-install" /\ step.target = "efi" /\ ~step.removable
  /\ pc' = "step" => pc \notin {"bind", "target"}
  /\ pc # "bind" => UNCHANGED binds
  /\ pc' = "failed" => pc = "write-config"

LEMMA CommandLeads ==
  ASSUME RunPostInstall, pc \in Commands
  PROVE  OnTo
<1>. USE DEF Commands, OperationOf, OnTo, Edits, Refused, Goes, Keeps
<1>1. CASE AddUser
  <2>1. AfterPassword \in {"step", "groups"}
    BY DEF AfterPassword
  <2>. QED
    BY <1>1, <2>1, Zenon DEF AddUser, Useradd, Comment, Chpasswd, AddGroups, SetsUser
<1>2. CASE SetTimezone \/ RemovePackages \/ ChangeHostname \/ SetKeyboardLayout
  BY <1>2 DEF SetTimezone, WriteTimezone, LinkLocaltime, RemovePackages, ChangeHostname,
      WriteHostname, WriteHosts, SetKeyboardLayout, WriteKeyboard, Setupcon
<1>3. CASE SetLocale
  BY <1>3 DEF SetLocale, GrepSupported, SedLocaleGen, LocaleGen, WriteLocale
<1>4. CASE Shell \/ Swapon
  BY <1>4 DEF Shell, Swapon, Round
<1>5. CASE BindForGrub \/ GetGrubTarget
  BY <1>5 DEF BindForGrub, GetGrubTarget, Round
<1>6. CASE GrubInstall \/ Efibootmgr
  BY <1>6, Zenon DEF GrubInstall, Efibootmgr
<1>7. CASE WriteGrubConfig \/ WriteBroken
  <2>1. ASSUME NEW to \in {"step", "failed"}, NEW systems, WritesConfig(to, systems) PROVE OnTo
    <3>1. Goes("write-config", to) /\ UNCHANGED binds
      BY <2>1 DEF WritesConfig
    <3>. QED
      BY <3>1
  <2>. DEFINE all == Written(DOMAIN config, FALSE)
              parts == UNION {Written(some, bare) :
                         some \in SUBSET DOMAIN config \ {DOMAIN config}, bare \in BOOLEAN}
  <2>2. WriteGrubConfig => WritesConfig("step", all)
    BY DEF WriteGrubConfig
  <2>3. WriteBroken => WritesConfig("failed", parts)
    BY DEF WriteBroken
  <2>. HIDE DEF all, parts
  <2>. QED
    BY <1>7, <2>1, <2>2, <2>3
<1>8. CASE AddGrubScript \/ RemoveGrubScript
  BY <1>8 DEF AddGrubScript, RemoveGrubScript, Scripts, Round
<1>9. CASE GetGrubConfig \/ RunGrubMkconfig
  BY <1>9 DEF GetGrubConfig, RunGrubMkconfig
<1>10. ~Dispatch
  BY CommandNames DEF Dispatch
<1>. QED
  BY <1>1, <1>2, <1>3, <1>4, <1>5, <1>6, <1>7, <1>8, <1>9, <1>10
  DEF RunPostInstall, RunGrubInstall, GrubDefaultConfig

-----------------------------------------------------------------------------
(* What a step of the installation makes of a system, file by file.        *)
IsFiles(s) == s = [file \in Files |-> s[file]]
If(op, x, new, old) == IF x.op = op THEN new ELSE old
EffectTable(s, x, e) ==
  /\ e.content = s.content
  /\ e.users = If("adduser", x, With(s.users, x.account), s.users)
  /\ e.timezone  = If("timezone", x, x.tz, s.timezone)
  /\ e.localtime = If("timezone", x, x.tz, s.localtime)
  /\ e.marks     = If("shell", x, s.marks \cup ToSet(x.commands), s.marks)
  /\ e.packages  = If("pkgremove", x, s.packages \ x.unwanted, s.packages)
  /\ e.hostname  = If("hostname", x, x.name, s.hostname)
  /\ e.hosts     = If("hostname", x, x.name, s.hosts)
  /\ e.locale    = If("locale", x, x.code, s.locale)
  /\ e.localegen = If("locale", x, s.localegen \cup {x.code}, s.localegen)
  /\ e.locales   = If("locale", x, s.localegen \cup {x.code}, s.locales)
  /\ e.keyboard  = If("keyboard", x, x.layout, s.keyboard)
  /\ e.console   = If("keyboard", x, x.layout, s.console)
  /\ e.loader    = If("grub-install", x, x.target, s.loader)
  /\ e.defaults  = If("grub-default-config", x,
                      [s.defaults EXCEPT !.lines = @ \o x.lines], s.defaults)
  /\ e.scripts = CASE x.op = "grub-add-script"    -> s.scripts \cup ToSet(x.scripts)
                   [] x.op = "grub-remove-script" -> s.scripts \ ToSet(x.scripts)
                   [] OTHER -> s.scripts
  /\ e.menu = If("grub-mkconfig", x,
                 [settings |-> Sourced(s.defaults.lines), scripts |-> s.scripts], s.menu)

LEMMA EffectFiles ==
  ASSUME NEW s, IsFiles(s), NEW x, x.op \in Operations
  PROVE  /\ IsFiles(Promised!Effect(s, x))
         /\ ~Promised!InRoot(x) => Promised!Effect(s, x) = s
         /\ Promised!InRoot(x) => EffectTable(s, x, Promised!Effect(s, x))
<1>. DEFINE e == Promised!Effect(s, x)
<1>1. CASE ~Promised!InRoot(x)
  <2>1. e = s
    BY <1>1 DEF Promised!Effect
  <2>. QED
    BY <1>1, <2>1
<1>2. CASE Promised!InRoot(x)
  <2>. SUFFICES IsFiles(e) /\ EffectTable(s, x, e)
    BY <1>2
  <2>0. DOMAIN s = Files
    BY DEF IsFiles
  <2>. USE DEF Files, EffectTable, If
  <2>1. CASE x.op = "adduser"
    <3>1. e = [s EXCEPT !["users"] = With(s.users, x.account)]
      BY <1>2, <2>1 DEF Promised!Effect, With
    <3>. HIDE DEF e
    <3>. QED
      BY <2>0, <2>1, <3>1 DEF IsFiles
  <2>2. CASE x.op = "timezone"
    <3>1. e = [s EXCEPT !["timezone"] = x.tz, !["localtime"] = x.tz]
      BY <1>2, <2>2 DEF Promised!Effect
    <3>. HIDE DEF e
    <3>. QED
      BY <2>0, <2>2, <3>1 DEF IsFiles
  <2>3. CASE x.op = "shell"
    <3>1. e = [s EXCEPT !["marks"] = s.marks \cup ToSet(x.commands)]
      BY <1>2, <2>3 DEF Promised!Effect, Promised!ToSet, ToSet
    <3>. HIDE DEF e
    <3>. QED
      BY <2>0, <2>3, <3>1 DEF IsFiles
  <2>4. CASE x.op = "pkgremove"
    <3>1. e = [s EXCEPT !["packages"] = s.packages \ x.unwanted]
      BY <1>2, <2>4 DEF Promised!Effect
    <3>. HIDE DEF e
    <3>. QED
      BY <2>0, <2>4, <3>1 DEF IsFiles
  <2>5. CASE x.op = "hostname"
    <3>1. e = [s EXCEPT !["hostname"] = x.name, !["hosts"] = x.name]
      BY <1>2, <2>5 DEF Promised!Effect
    <3>. HIDE DEF e
    <3>. QED
      BY <2>0, <2>5, <3>1 DEF IsFiles
  <2>6. CASE x.op = "locale"
    <3>1. e = [s EXCEPT !.locale = x.code, !.localegen = s.localegen \cup {x.code},
                        !.locales = s.localegen \cup {x.code}]
      BY <1>2, <2>6 DEF Promised!Effect
    <3>. HIDE DEF e
    <3>. QED
      BY <2>0, <2>6, <3>1 DEF IsFiles
  <2>7. CASE x.op = "keyboard"
    <3>1. e = [s EXCEPT !["keyboard"] = x.layout, !["console"] = x.layout]
      BY <1>2, <2>7 DEF Promised!Effect
    <3>. HIDE DEF e
    <3>. QED
      BY <2>0, <2>7, <3>1 DEF IsFiles
  <2>8. CASE x.op = "grub-install"
    <3>1. e = [s EXCEPT !["loader"] = x.target]
      BY <1>2, <2>8 DEF Promised!Effect
    <3>. HIDE DEF e
    <3>. QED
      BY <2>0, <2>8, <3>1 DEF IsFiles
  <2>9. CASE x.op = "grub-default-config"
    <3>1. e = [s EXCEPT !["defaults"] = [s.defaults EXCEPT !.lines = @ \o x.lines]]
      BY <1>2, <2>9 DEF Promised!Effect
    <3>. HIDE DEF e
    <3>. QED
      BY <2>0, <2>9, <3>1 DEF IsFiles
  <2>10. CASE x.op \in {"grub-add-script", "grub-remove-script"}
    <3>1. \/ x.op = "grub-add-script"
             /\ e = [s EXCEPT !["scripts"] = s.scripts \cup ToSet(x.scripts)]
          \/ x.op = "grub-remove-script"
             /\ e = [s EXCEPT !["scripts"] = s.scripts \ ToSet(x.scripts)]
      BY <1>2, <2>10 DEF Promised!Effect, Promised!ToSet, ToSet
    <3>. HIDE DEF e
    <3>. QED
      BY <2>0, <2>10, <3>1, Zenon DEF IsFiles
  <2>11. CASE x.op = "grub-mkconfig"
    <3>1. e = [s EXCEPT !["menu"] = [settings |-> Sourced(s.defaults.lines), scripts |-> s.scripts]]
      BY <1>2, <2>11 DEF Promised!Effect
    <3>. HIDE DEF e
    <3>. QED
      BY <2>0, <2>11, <3>1 DEF IsFiles
  <2>12. CASE x.op = "swapon"
    <3>1. e = s
      BY <1>2, <2>12 DEF Promised!Effect
    <3>. HIDE DEF e
    <3>. QED
      BY <2>12, <3>1
  <2>. HIDE DEF e, EffectTable
  <2>. QED
    BY <2>1, <2>2, <2>3, <2>4, <2>5, <2>6, <2>7, <2>8, <2>9, <2>10, <2>11, <2>12
    DEF Operations, Loops
<1>. QED
  BY <1>1, <1>2

LEMMA InList ==
  ASSUME NEW s, IsList(s), NEW S, ToSet(s) \subseteq S
  PROVE  s \in Seq(S)
<1>1. s \in Seq(ToSet(s))
  BY DEF IsList
<1>2. \A T : s \in Seq(T) /\ T \subseteq S => s \in Seq(S)
  OBVIOUS
<1>. QED
  BY <1>1, <1>2

LEMMA LinesIn ==
  ASSUME recipe \in Recipes, image \in Images
  PROVE  /\ image.system.defaults.lines \in Seq(Promised!Lines)
         /\ \A n \in 1..Len(recipe.post) :
              recipe.post[n].op = "grub-default-config" /\ Promised!InRoot(recipe.post[n])
                => recipe.post[n].lines \in Seq(Promised!Lines)
<1>t. \A s : Promised!ToSet(s) = ToSet(s)
  BY DEF ToSet, Promised!ToSet
<1>1. image.system.defaults.lines \in Seq(Promised!Lines)
  <2>. DEFINE l == image.system.defaults.lines
  <2>1. IsList(l)
    BY ImagesAssumption
  <2>2. ToSet(l) \subseteq Promised!Lines
    BY <1>t DEF Promised!Lines
  <2>. QED
    BY <2>1, <2>2, InList
<1>2. ASSUME NEW n \in 1..Len(recipe.post), recipe.post[n].op = "grub-default-config",
             Promised!InRoot(recipe.post[n])
      PROVE  recipe.post[n].lines \in Seq(Promised!Lines)
  <2>1. IsList(recipe.post[n].lines) /\ n \in DOMAIN recipe.post
    BY <1>2, PostIsSequence DEF IsStep
  <2>2. n \in Promised!Rooted("grub-default-config")
    BY <1>2, <2>1 DEF Promised!Rooted
  <2>3. ToSet(recipe.post[n].lines) \subseteq Promised!Lines
    BY <1>t, <2>2 DEF Promised!Lines
  <2>. QED
    BY <2>1, <2>3, InList
<1>. QED
  BY <1>1, <1>2

AfterGood(n) ==
  /\ IsFiles(Promised!After[n]) /\ GoodDefaults(Promised!After[n].defaults)
  /\ Promised!After[n].defaults.bare = image.system.defaults.bare

LEMMA AfterFiles ==
  ASSUME recipe \in Recipes, image \in Images
  PROVE  \A n \in 0..Len(recipe.post) : AfterGood(n)
<1>. DEFINE N == Len(recipe.post)
            Bad == {n \in 0..N : ~AfterGood(n)}
<1>1. N \in Nat /\ \A n \in 1..N : IsStep(recipe.post[n])
  BY PostIsSequence
<1>2. ASSUME Bad # {} PROVE FALSE
  <2>1. IsWellFoundedOn(OpToRel(<, Nat), Nat)
    BY NatLessThanWellFounded, Zenon
  <2>2. Bad \subseteq Nat
    BY <1>1
  <2>. HIDE DEF Bad
  <2>3. PICK k \in Bad : \A j \in Bad : <<j, k>> \notin OpToRel(<, Nat)
    BY <1>2, <2>1, <2>2, WFMin, Zenon
  <2>4. \A j \in Bad : ~(j < k)
    BY <2>2, <2>3 DEF OpToRel
  <2>. USE DEF Bad
  <2>5. CASE k = 0
    <3>1. Promised!After[0] = image.system
      BY AfterSteps
    <3>2. IsFiles(image.system)
      BY SystemsAssumption DEF IsSystem, IsFiles
    <3>3. GoodDefaults(image.system.defaults)
      BY LinesIn, ImagesAssumption DEF GoodDefaults
    <3>. QED
      BY <2>3, <2>5, <3>1, <3>2, <3>3, Zenon DEF AfterGood
  <2>6. CASE k # 0
    <3>. DEFINE s == Promised!After[k - 1]
                x == recipe.post[k]
                e == Promised!Effect(s, x)
    <3>1. k \in 1..N /\ k - 1 \in 0..N /\ k - 1 < k
      BY <1>1, <2>6
    <3>2. AfterGood(k - 1)
      BY <2>4, <3>1
    <3>3. Promised!After[k] = e
      BY <3>1, AfterSteps
    <3>4. IsStep(x) /\ x.op \in Operations
      BY <1>1, <3>1 DEF IsStep
    <3>5. /\ IsFiles(e) /\ (~Promised!InRoot(x) => e = s)
          /\ Promised!InRoot(x) => EffectTable(s, x, e)
      BY <3>2, <3>4, EffectFiles DEF AfterGood
    <3>6. GoodDefaults(e.defaults) /\ e.defaults.bare = image.system.defaults.bare
      <4>1. CASE Promised!InRoot(x) /\ x.op = "grub-default-config"
        <5>. DEFINE d == s.defaults
        <5>1. x.lines \in Seq(Promised!Lines)
          BY <3>1, <4>1, LinesIn
        <5>2. e.defaults = [d EXCEPT !.lines = d.lines \o x.lines]
          BY <3>5, <4>1 DEF EffectTable, If
        <5>3. d = [lines |-> d.lines, bare |-> d.bare] /\ d.lines \in Seq(Promised!Lines)
              /\ d.bare = image.system.defaults.bare
          BY <3>2 DEF AfterGood, GoodDefaults
        <5>4. d.lines \o x.lines \in Seq(Promised!Lines)
          BY <5>1, <5>3
        <5>. HIDE DEF d, e
        <5>. QED
          BY <5>2, <5>3, <5>4, Zenon DEF GoodDefaults
      <4>2. CASE ~(Promised!InRoot(x) /\ x.op = "grub-default-config")
        <5>1. e.defaults = s.defaults
          BY <3>5, <4>2 DEF EffectTable, If
        <5>. QED
          BY <3>2, <5>1 DEF AfterGood
      <4>. QED
        BY <4>1, <4>2
    <3>. QED
      BY <2>3, <3>3, <3>5, <3>6, Zenon DEF AfterGood
  <2>. QED
    BY <2>5, <2>6
<1>. QED
  BY <1>2

-----------------------------------------------------------------------------
(* What a step of the installer is, as far as the root is concerned.       *)
Firsts == {"useradd", "timezone", "hostname", "keyboard", "pkgremove", "grep", "swapon",
           "shell", "bind", "target", "grub-default-config", "grub-add-script",
           "grub-remove-script", "grub-mkconfig"}
Dispatched ==
  /\ pc = "step" /\ at \in 1..Len(recipe.post) /\ IsStep(step)
  /\ UNCHANGED <<recipe, image, sites, binds, config>> /\ arg' = 1
  /\ \/ /\ pc' \in Firsts /\ at' = at /\ OperationOf(pc') = step.op
        /\ (pc' = "bind" => step.chroot) /\ (pc' = "target" => ~step.chroot)
     \/ pc' = "step" /\ at' = at + 1 /\ step.op \in Loops /\ Arguments(step) = <<>>

Started ==
  /\ pc = "tables" /\ pc' = "step" /\ at' = 1
  /\ root' = [root EXCEPT !.content = "ready"]
  /\ UNCHANGED <<recipe, image, binds, config>>

Overlay(s, some, content) ==
  [[file \in DOMAIN s |->
     IF file \in some
     THEN IF file = "scripts" THEN s.scripts \cup image.system.scripts ELSE image.system[file]
     ELSE s[file]] EXCEPT !.content = content]
Rests ==
  /\ pc' \in Resting /\ at' = 0 /\ UNCHANGED <<recipe, image>>
  /\ \/ root' = root
     \/ recipe.formats /\ root' = Blank
     \/ \E some \in SUBSET image.ships, content \in {"mixed", "image"} :
          root' = Overlay(root, some, content)
  /\ pc' = "mount" /\ recipe.formats => root' = Blank
  /\ pc' = "copy" => pc = "mount" /\ root' = root
  /\ pc' = "tables" => pc = "copy" /\ root' = Overlay(root, image.ships, "image")

LEMMA DispatchRow == TypeInv /\ Dispatch => Dispatched
<1>. SUFFICES ASSUME TypeInv, Dispatch PROVE Dispatched
  OBVIOUS
<1>1. /\ pc = "step" /\ pc' = FirstOf(step) /\ arg' = 1
      /\ at' = IF FirstOf(step) = "step" THEN at + 1 ELSE at
      /\ UNCHANGED <<recipe, image, sites, binds, config>>
      /\ at \in DOMAIN recipe.post /\ recipe \in Recipes
  BY DEF Dispatch, Goes, Keeps, TypeInv, TypeOK
<1>2. at \in 1..Len(recipe.post) /\ IsStep(step)
  BY <1>1, PostIsSequence DEF step
<1>. DEFINE to == FirstOf(step)
<1>3. \/ /\ to \in Firsts /\ OperationOf(to) = step.op
         /\ (to = "bind" => step.chroot) /\ (to = "target" => ~step.chroot)
      \/ to = "step" /\ step.op \in Loops /\ Arguments(step) = <<>>
  <2>. USE DEF Firsts, OperationOf
  <2>1. CASE step.op \in Loops
    <3>1. to = IF Arguments(step) = <<>> THEN "step" ELSE step.op
      BY <2>1 DEF FirstOf, Loops
    <3>. QED
      BY <2>1, <3>1 DEF Loops
  <2>2. CASE step.op = "adduser"
    <3>1. to = "useradd"
      BY <2>2 DEF FirstOf, Loops
    <3>. HIDE DEF to
    <3>. QED
      BY <2>2, <3>1
  <2>3. CASE step.op = "locale"
    <3>1. to = "grep"
      BY <2>3 DEF FirstOf, Loops
    <3>. HIDE DEF to
    <3>. QED
      BY <2>3, <3>1
  <2>4. CASE step.op = "grub-install"
    <3>1. to = IF step.chroot THEN "bind" ELSE "target"
      BY <2>4 DEF FirstOf, Loops
    <3>. HIDE DEF to
    <3>. QED
      BY <2>4, <3>1
  <2>5. CASE step.op \in Operations \ (Loops \cup {"adduser", "locale", "grub-install"})
    <3>1. to = step.op
      BY <2>5 DEF FirstOf
    <3>. HIDE DEF to
    <3>. QED
      BY <2>5, <3>1 DEF Operations, Loops
  <2>. QED
    BY <1>2, <2>1, <2>2, <2>3, <2>4, <2>5 DEF IsStep
<1>. HIDE DEF to
<1>4. to \in Firsts => to # "step"
  BY DEF Firsts
<1>. QED
  BY <1>1, <1>2, <1>3, <1>4 DEF Dispatched, to

LEMMA StepKinds ==
  ASSUME TypeInv, [Next]_vars
  PROVE  \/ RunPostInstall /\ pc \in Commands
         \/ Dispatched \/ Started \/ Rests \/ UNCHANGED vars
<1>t. SitesTyped /\ mounted \in BOOLEAN
  BY Zenon DEF TypeInv, TypeOK, SitesTyped
<1>m. pc \in {"copy", "tables"} => Target = "root" /\ IsSystem(root)
  <2>1. pc \in {"copy", "tables"} => mounted = TRUE
    BY <1>t, Zenon DEF TypeInv, Mounting
  <2>. QED
    BY <1>t, <2>1 DEF Target, root, SitesTyped
<1>r. pc \in Resting \cup {"step"} => config = <<>>
  BY DEF Resting, Ended, TypeInv, TypeOK
<1>k. UNCHANGED sites => root' = root
  BY DEF root
<1>. USE DEF Resting, Ended
<1>1. CASE Begin \/ Finish \/ Fail \/ SetupMountpoints \/ InitramfsBroken \/ CopyRefused
  <2>1. /\ pc' \in Resting \ {"tables", "mount"} /\ at' = 0
        /\ UNCHANGED <<recipe, image, sites>> /\ (pc' = "copy" => pc = "mount")
    BY <1>1 DEF Begin, Finish, Fail, SetupMountpoints, InitramfsBroken, CopyRefused,
       Phase, NoProcess
  <2>. QED
    BY <1>k, <2>1 DEF Rests
<1>2. CASE Unmount \/ Reboot
  <2>1. pc' = "idle" /\ at' = 0 /\ UNCHANGED <<recipe, image>> /\ root' = root
    BY <1>2, <1>t DEF Unmount, Reboot, NoProcess, root, SitesTyped
  <2>. QED
    BY <2>1 DEF Rests
<1>3. CASE RunSetup
  <2>1. pc' \in {"refused", "mount"} /\ at' = 0 /\ UNCHANGED <<recipe, image>>
    BY <1>3 DEF RunSetup, Phase
  <2>2. CASE recipe.formats /\ binds = NoBinds
    <3>1. root' = Blank
      BY <1>3, <1>t, <2>2 DEF RunSetup, root, SitesTyped
    <3>. QED
      BY <2>1, <2>2, <3>1 DEF Rests
  <2>3. CASE ~(recipe.formats /\ binds = NoBinds)
    <3>1. root' = root /\ (recipe.formats => pc' = "refused")
      BY <1>3, <1>k, <2>3 DEF RunSetup, Phase
    <3>. QED
      BY <2>1, <3>1 DEF Rests
  <2>. QED
    BY <2>2, <2>3
<1>4. CASE Copy
  <2>1. ASSUME NEW some, NEW content, sites' = Copied(some, content), pc = "copy"
        PROVE  root' = Overlay(root, some, content)
    BY <1>t, <1>m, <2>1 DEF Copied, Overlay, root, SitesTyped
  <2>2. /\ pc = "copy" /\ at' = 0 /\ UNCHANGED <<recipe, image>>
        /\ \/ pc' = "tables" /\ sites' = Copied(image.ships, "image")
           \/ pc' = "failed" /\ \E some \in SUBSET image.ships : sites' = Copied(some, "mixed")
    BY <1>4 DEF Copy, Phase
  <2>3. CASE pc' = "tables" /\ sites' = Copied(image.ships, "image")
    BY <2>1, <2>2, <2>3 DEF Rests
  <2>4. CASE pc' = "failed" /\ \E some \in SUBSET image.ships : sites' = Copied(some, "mixed")
    BY <2>1, <2>2, <2>4 DEF Rests
  <2>. QED
    BY <2>2, <2>3, <2>4
<1>5. CASE Initramfs
  <2>1. /\ pc = "tables" /\ pc' = "step" /\ at' = 1 /\ UNCHANGED <<recipe, image, binds, config>>
        /\ sites' = [sites EXCEPT ![Target].content = "ready"]
    BY <1>5 DEF Initramfs, Phase
  <2>2. root' = [root EXCEPT !.content = "ready"]
    BY <1>t, <1>m, <2>1 DEF root, SitesTyped
  <2>. QED
    BY <2>1, <2>2 DEF Started
<1>6. CASE PostInstallation
  BY <1>6, CommandOrDispatch, DispatchRow DEF PostInstallation
<1>. QED
  BY <1>1, <1>2, <1>3, <1>4, <1>5, <1>6 DEF Next

LEMMA OwnStep == TypeInv /\ Own /\ [Next]_vars => Own'
<1>. SUFFICES ASSUME TypeInv, Own, [Next]_vars PROVE Own'
  OBVIOUS
<1>1. CASE RunPostInstall /\ pc \in Commands
  <2>1. OnTo
    BY <1>1, CommandLeads
  <2>2. pc' \in Commands => step' = step
    BY <2>1, CommandNames DEF OnTo, step, Ended
  <2>3. pc' = "bind" \/ pc' = "efibootmgr" => pc' \in Commands
    BY DEF Commands
  <2>. QED
    BY <1>1, <2>1, <2>2, <2>3, CommandNames DEF OnTo, Own, Ended
<1>2. CASE Dispatched
  <2>1. pc' # "step" => step' = step
    BY <1>2 DEF Dispatched, step
  <2>2. "step" \notin Commands
    BY CommandNames
  <2>. QED
    BY <1>2, <2>1, <2>2 DEF Dispatched, Own, Firsts
<1>3. CASE Started \/ Rests
  BY <1>3 DEF Started, Rests, Own, Resting, Ended, Commands
<1>4. CASE UNCHANGED vars
  BY <1>4 DEF vars, Own, step
<1>. QED
  BY <1>1, <1>2, <1>3, <1>4, StepKinds

LEMMA BaseStep ==
  ASSUME TypeInv, UNCHANGED <<recipe, image>>
  PROVE  /\ at' = at => base' = base
         /\ at' = 1 => base' = image.system
         /\ at \in 1..Len(recipe.post) /\ at' = at + 1 =>
              /\ base' = Promised!Effect(base, step) /\ IsFiles(base')
              /\ ~Promised!InRoot(step) => base' = base
              /\ Promised!InRoot(step) => EffectTable(base, step, base')
         /\ at \in 1..Len(recipe.post) + 1 => AfterGood(at - 1)
<1>1. recipe \in Recipes /\ image \in Images /\ Len(recipe.post) \in Nat
  BY PostIsSequence DEF TypeInv, TypeOK
<1>2. Promised!After' = Promised!After
  BY AfterSame
<1>3. at' = 1 => base' = image.system
  BY <1>1, <1>2, AfterSteps DEF base
<1>4. ASSUME at \in 1..Len(recipe.post), at' = at + 1
      PROVE  /\ base' = Promised!Effect(base, step) /\ IsFiles(base')
             /\ ~Promised!InRoot(step) => base' = base
             /\ Promised!InRoot(step) => EffectTable(base, step, base')
  <2>1. base' = Promised!After[at]
    BY <1>1, <1>2, <1>4 DEF base
  <2>2. Promised!After[at] = Promised!Effect(base, step)
    BY <1>1, <1>4, AfterSteps DEF base, step
  <2>3. IsFiles(base) /\ step.op \in Operations
    <3>1. at - 1 \in 0..Len(recipe.post) /\ at \in DOMAIN recipe.post
      BY <1>1, <1>4, PostIsSequence
    <3>2. AfterGood(at - 1) /\ IsStep(recipe.post[at])
      BY <1>1, <3>1, AfterFiles, PostIsSequence
    <3>. QED
      BY <3>2 DEF AfterGood, base, IsStep, step
  <2>. QED
    BY <2>1, <2>2, <2>3, EffectFiles
<1>5. at \in 1..Len(recipe.post) + 1 => AfterGood(at - 1)
  BY <1>1, AfterFiles
<1>. QED
  BY <1>2, <1>3, <1>4, <1>5 DEF base

LEMMA RootIsFiles == TypeInv => IsFiles(root)
<1>. SUFFICES ASSUME TypeInv PROVE IsFiles(root)
  OBVIOUS
<1>1. IsSystem(sites["root"])
  BY DEF TypeInv, TypeOK
<1>. QED
  BY <1>1 DEF IsSystem, IsFiles, root

LEMMA CommandFrame ==
  ASSUME TypeInv, Own, RunPostInstall, pc \in Commands,
         NEW file \in Files, ~Promised!InRoot(step) \/ step.op \notin Writers(file)
  PROVE  root'[file] = root[file]
<1>1. DOMAIN root = Files
  BY RootIsFiles DEF IsFiles
<1>2. ASSUME NEW f \in Files, NEW v, root' = [root EXCEPT ![f] = v], f # file
      PROVE  root'[file] = root[file]
  BY <1>1, <1>2
<1>3. step.op = OperationOf(pc)
  BY DEF Own
<1>4. CASE ~step.chroot
  <2>1. CASE root' = root
    BY <2>1
  <2>2. CASE pc = "grub-install" /\ step.boot = "root"
           /\ root' = [root EXCEPT !["loader"] = step.target]
    <3>1. file # "loader" /\ "loader" \in Files
      BY <1>3, <2>2 DEF OperationOf, Promised!InRoot, Writers, Files
    <3>. QED
      BY <1>2, <2>2, <3>1
  <2>. QED
    BY <1>4, <2>1, <2>2, HostCommand
<1>5. CASE step.chroot
  <2>1. RootTable /\ step.op \notin Writers(file)
    BY <1>5, ChrootCommand DEF Promised!InRoot
  <2>. USE DEF Becomes, Stays, RootTable, RootUsers, RootFiles, RootGrub, RootConfig
  <2>2. \/ root' = root
        \/ \E f \in Files : \E v : root' = [root EXCEPT ![f] = v] /\ OperationOf(pc) \in Writers(f)
    <3>. USE DEF OperationOf, Writers, Files
    <3>0. ASSUME NEW f \in Files, \E v : root' = [root EXCEPT ![f] = v],
                 OperationOf(pc) \in Writers(f)
          PROVE  \E g \in Files : \E v : root' = [root EXCEPT ![g] = v]
                   /\ OperationOf(pc) \in Writers(g)
      <4>. HIDE DEF OperationOf, Writers, Files
      <4>. QED
        BY <3>0, Zenon
    <3>1. CASE pc \in {"useradd", "comment", "chpasswd", "groups"}
      <4>1. root' = root \/ \E v : root' = [root EXCEPT !["users"] = v]
        BY <2>1, <3>1, Zenon
      <4>2. "users" \in Files /\ OperationOf(pc) \in Writers("users")
        BY <3>1
      <4>. QED
        BY <4>1, <4>2, <3>0, Zenon
    <3>2. CASE pc \in {"timezone", "localtime", "hostname", "hosts"}
      <4>1. CASE pc = "timezone"
        <5>1. \E v : root' = [root EXCEPT !["timezone"] = v]
          BY <2>1, <4>1
        <5>. QED
          BY <3>0, <4>1, <5>1
      <4>2. CASE pc = "localtime"
        <5>1. \E v : root' = [root EXCEPT !["localtime"] = v]
          BY <2>1, <4>2
        <5>. QED
          BY <3>0, <4>2, <5>1
      <4>3. CASE pc = "hostname"
        <5>1. \E v : root' = [root EXCEPT !["hostname"] = v]
          BY <2>1, <4>3
        <5>. QED
          BY <3>0, <4>3, <5>1
      <4>4. CASE pc = "hosts"
        <5>1. \E v : root' = [root EXCEPT !["hosts"] = v]
          BY <2>1, <4>4
        <5>. QED
          BY <3>0, <4>4, <5>1
      <4>. QED
        BY <3>2, <4>1, <4>2, <4>3, <4>4
    <3>3. CASE pc \in {"keyboard", "setupcon", "pkgremove", "shell", "swapon"}
      <4>1. CASE pc = "keyboard"
        <5>1. \E v : root' = [root EXCEPT !["keyboard"] = v]
          BY <2>1, <4>1
        <5>. QED
          BY <3>0, <4>1, <5>1
      <4>2. CASE pc = "setupcon"
        <5>1. \E v : root' = [root EXCEPT !["console"] = v]
          BY <2>1, <4>2
        <5>. QED
          BY <3>0, <4>2, <5>1
      <4>3. CASE pc = "pkgremove"
        <5>1. \E v : root' = [root EXCEPT !["packages"] = v]
          BY <2>1, <4>3
        <5>. QED
          BY <3>0, <4>3, <5>1
      <4>4. CASE pc = "shell"
        <5>1. \E v : root' = [root EXCEPT !["marks"] = v]
          BY <2>1, <4>4
        <5>. QED
          BY <3>0, <4>4, <5>1
      <4>5. pc = "swapon" => root' = root
        BY <2>1
      <4>. QED
        BY <3>3, <4>1, <4>2, <4>3, <4>4, <4>5
    <3>4. CASE pc \in {"grep", "sed", "locale-gen", "default-locale"}
      <4>1. pc = "grep" => root' = root
        BY <2>1
      <4>2. CASE pc = "sed"
        <5>1. \E v : root' = [root EXCEPT !["localegen"] = v]
          BY <2>1, <4>2
        <5>. QED
          BY <3>0, <4>2, <5>1
      <4>3. CASE pc = "locale-gen"
        <5>1. \E v : root' = [root EXCEPT !["locales"] = v]
          BY <2>1, <4>3
        <5>. QED
          BY <3>0, <4>3, <5>1
      <4>4. CASE pc = "default-locale"
        <5>1. \E v : root' = [root EXCEPT !["locale"] = v]
          BY <2>1, <4>4
        <5>. QED
          BY <3>0, <4>4, <5>1
      <4>. QED
        BY <3>4, <4>1, <4>2, <4>3, <4>4
    <3>5. CASE pc \in {"bind", "target", "grub-install", "efibootmgr"}
      <4>1. pc = "bind" => root' = root
        BY <2>1
      <4>2. pc = "target" => root' = root
        BY <2>1
      <4>3. CASE pc = "grub-install"
        <5>1. \E v : root' = [root EXCEPT !["loader"] = v]
          BY <2>1, <4>3
        <5>. QED
          BY <3>0, <4>3, <5>1
      <4>4. pc = "efibootmgr" => root' = root
        BY <2>1, Zenon
      <4>. QED
        BY <3>5, <4>1, <4>2, <4>3, <4>4
    <3>6. CASE pc \in {"grub-default-config", "write-config", "grub-add-script",
             "grub-remove-script", "grub-mkconfig"}
      <4>1. pc = "grub-default-config" => root' = root
        BY <2>1
      <4>2. CASE pc = "write-config"
        <5>1. \E v : root' = [root EXCEPT !["defaults"] = v]
          BY <2>1, <4>2 DEF Rewrites
        <5>. QED
          BY <3>0, <4>2, <5>1
      <4>3. CASE pc = "grub-add-script"
        <5>1. \E v : root' = [root EXCEPT !["scripts"] = v]
          BY <2>1, <4>3
        <5>. QED
          BY <3>0, <4>3, <5>1
      <4>4. CASE pc = "grub-remove-script"
        <5>1. root' = root \/ \E v : root' = [root EXCEPT !["scripts"] = v]
          BY <2>1, <4>4
        <5>. QED
          BY <3>0, <4>4, <5>1
      <4>5. CASE pc = "grub-mkconfig"
        <5>1. root' = root \/ \E v : root' = [root EXCEPT !["menu"] = v]
          BY <2>1, <4>5
        <5>. QED
          BY <3>0, <4>5, <5>1
      <4>. QED
        BY <3>6, <4>1, <4>2, <4>3, <4>4, <4>5
    <3>. HIDE DEF OperationOf, Writers, Files
    <3>. QED
      BY <3>1, <3>2, <3>3, <3>4, <3>5, <3>6 DEF Commands
  <2>. QED
    BY <1>2, <1>3, <2>1, <2>2, Zenon
<1>. QED
  BY <1>4, <1>5

(* The accounts, the scripts and the settings change only by the commands  *)
(* of their own operations.                                                *)
LEMMA CommandKeeps ==
  ASSUME TypeInv, Own, RunPostInstall, pc \in Commands
  PROVE  /\ ~step.chroot \/ step.op # "adduser" => root'.users = root.users
         /\ ~step.chroot \/ step.op \notin {"grub-add-script", "grub-remove-script"}
              => root'.scripts = root.scripts
         /\ ~step.chroot \/ step.op # "grub-default-config" => root'.defaults = root.defaults
         /\ root'.content = root.content
<1>1. \A file \in Files : ~Promised!InRoot(step) \/ step.op \notin Writers(file)
        => root'[file] = root[file]
  BY CommandFrame
<1>. QED
  BY <1>1 DEF Promised!InRoot, Writers, Files

-----------------------------------------------------------------------------
(* What an installation over an earlier one's remains finds in its root.   *)

LEMMA GrubBoundStep == TypeInv /\ Own /\ GrubBound /\ [Next]_vars => GrubBound'
<1>. SUFFICES ASSUME TypeInv, Own, GrubBound, [Next]_vars PROVE GrubBound'
  OBVIOUS
<1>b. \A dir \in ToSet(RequiredBinds) : binds[dir] \in Nat
  <2>1. recipe \in Recipes /\ binds \in [ToSet(RequiredBinds) -> 0..Len(recipe.post) + 1]
    BY DEF TypeInv, TypeOK
  <2>. QED
    BY <2>1, PostIsSequence
<1>d. DOMAIN binds = ToSet(RequiredBinds)
  BY DEF TypeInv, TypeOK
<1>1. CASE RunPostInstall /\ pc \in Commands
  <2>1. OnTo /\ step.op = OperationOf(pc) /\ at \in 1..Len(recipe.post) /\ IsStep(step)
    BY <1>1, CommandLeads, InStep DEF Own
  <2>2. pc' \in {"refused", "failed"} => GrubBound'
    BY DEF GrubBound, InSteps, Commands
  <2>p. ASSUME UNCHANGED binds PROVE AllBound' = AllBound
    BY <2>p DEF AllBound
  <2>3. CASE pc = "bind"
    <3>1. step.chroot
      BY <2>3 DEF Own
    <3>2. /\ binds' = [binds EXCEPT ![RequiredBinds[arg]] = @ + 1]
          /\ \/ arg < 5 /\ pc' = pc /\ arg' = arg + 1
             \/ ~(arg < 5) /\ pc' = "target"
      BY <1>1, <2>3, <3>1, ChrootCommand, BindDirs DEF RootTable, RootGrub
    <3>3. arg \in 1..5
      <4>1. arg \in 1..Len(RequiredBinds)
        BY <2>3 DEF TypeInv, TypeOK, Loops
      <4>. QED
        BY <4>1, BindDirs
    <3>4. \A dir \in ToSet(RequiredBinds) :
            binds[dir] # 0 \/ dir = RequiredBinds[arg] => binds'[dir] # 0
      BY <1>b, <1>d, <3>2, <3>3, BindDirs
    <3>5. AllBound => AllBound'
      BY <3>4 DEF AllBound
    <3>6. \A i \in 1..arg : binds'[RequiredBinds[i]] # 0
      BY <2>3, <3>3, <3>4, BindDirs DEF GrubBound
    <3>7. at' = at /\ UNCHANGED recipe
      BY <2>1, <3>2, <2>3 DEF OnTo, Commands
    <3>8. \A m \in 1..at - 1 :
            recipe.post[m].op = "grub-install" /\ recipe.post[m].chroot => AllBound'
      BY <2>3, <3>5 DEF GrubBound, InSteps, Commands
    <3>9. CASE pc' = pc
      BY <2>3, <3>2, <3>3, <3>6, <3>7, <3>8, <3>9 DEF GrubBound, InSteps
    <3>10. CASE pc' = "target" /\ arg = 5
      <4>1. AllBound'
        BY <3>6, <3>10, BindDirs DEF AllBound
      <4>. QED
        BY <3>7, <3>10, <4>1 DEF GrubBound, InSteps
    <3>. QED
      BY <3>2, <3>3, <3>9, <3>10
  <2>4. CASE pc # "bind" /\ pc' \in Commands
    <3>1. /\ at' = at /\ step' = step /\ UNCHANGED <<recipe, binds>> /\ pc' # "bind"
          /\ OperationOf(pc') = OperationOf(pc) /\ AllBound' = AllBound
      BY <2>1, <2>4, <2>p, CommandNames DEF OnTo, step, Ended
    <3>2. \A m \in 1..at - 1 :
            recipe.post[m].op = "grub-install" /\ recipe.post[m].chroot => AllBound
      BY <1>1 DEF GrubBound, InSteps
    <3>3. pc' \in {"target", "grub-install", "efibootmgr"} /\ step.chroot => AllBound
      <4>1. pc' \in {"target", "grub-install", "efibootmgr"} => OperationOf(pc) = "grub-install"
        BY <3>1 DEF OperationOf
      <4>2. OperationOf(pc) = "grub-install" =>
               pc \in {"bind", "target", "grub-install", "efibootmgr"}
        BY <1>1 DEF OperationOf, Commands
      <4>. QED
        BY <2>4, <4>1, <4>2 DEF GrubBound
    <3>. QED
      BY <2>4, <3>1, <3>2, <3>3 DEF GrubBound
  <2>5. CASE pc # "bind" /\ pc' = "step"
    <3>1. at' = at + 1 /\ UNCHANGED <<recipe, binds>> /\ AllBound' = AllBound
      BY <2>1, <2>5, <2>p, CommandNames DEF OnTo, Ended
    <3>2. \A m \in 1..at - 1 :
            recipe.post[m].op = "grub-install" /\ recipe.post[m].chroot => AllBound
      BY <1>1 DEF GrubBound, InSteps
    <3>3. step.op = "grub-install" /\ step.chroot => AllBound
      <4>1. OperationOf(pc) = "grub-install" =>
               pc \in {"bind", "target", "grub-install", "efibootmgr"}
        BY <1>1 DEF OperationOf, Commands
      <4>. QED
        BY <2>1, <2>5, <4>1 DEF GrubBound
    <3>4. \A m \in 1..at : recipe.post[m].op = "grub-install" /\ recipe.post[m].chroot => AllBound
      BY <2>1, <3>2, <3>3 DEF step
    <3>5. at' - 1 = at
      BY <2>1, <3>1
    <3>. QED
      BY <2>5, <3>1, <3>4, <3>5 DEF GrubBound
  <2>. QED
    BY <2>1, <2>2, <2>3, <2>4, <2>5 DEF OnTo
<1>2. CASE Dispatched
  <2>1. UNCHANGED <<recipe, binds>> /\ AllBound' = AllBound /\ at \in 1..Len(recipe.post)
    BY <1>2 DEF Dispatched, AllBound
  <2>2. \A m \in 1..at - 1 :
          recipe.post[m].op = "grub-install" /\ recipe.post[m].chroot => AllBound
    BY <1>2 DEF Dispatched, GrubBound, InSteps
  <2>3. CASE pc' \in Firsts /\ at' = at
    <3>1. step' = step /\ pc' \notin {"grub-install", "efibootmgr"}
      BY <2>1, <2>3 DEF Firsts, step
    <3>2. pc' = "target" => ~step.chroot
      BY <1>2, <2>3 DEF Dispatched, Firsts
    <3>3. pc' = "bind" => \A i \in 1..arg' - 1 : binds'[RequiredBinds[i]] # 0
      BY <1>2 DEF Dispatched
    <3>. QED
      BY <2>1, <2>2, <2>3, <3>1, <3>2, <3>3 DEF GrubBound
  <2>4. CASE pc' = "step" /\ at' = at + 1 /\ step.op \in Loops
    <3>1. \A m \in 1..at : recipe.post[m].op = "grub-install" /\ recipe.post[m].chroot => AllBound
      BY <2>1, <2>2, <2>4 DEF Loops, step
    <3>2. at' - 1 = at
      BY <2>1, <2>4
    <3>. QED
      BY <2>1, <2>4, <3>1, <3>2 DEF GrubBound
  <2>. QED
    BY <1>2, <2>3, <2>4 DEF Dispatched
<1>3. CASE Started
  <2>1. pc' = "step" /\ 1..at' - 1 = {}
    BY <1>3 DEF Started
  <2>. QED
    BY <2>1 DEF GrubBound
<1>4. CASE Rests
  <2>1. ~InSteps' /\ pc' \notin {"bind", "target", "grub-install", "efibootmgr"}
    BY <1>4, CommandNames DEF Rests, InSteps, Resting, Ended, Commands
  <2>. QED
    BY <2>1 DEF GrubBound
<1>5. CASE UNCHANGED vars
  BY <1>5 DEF vars, GrubBound, AllBound, InSteps, step
<1>. QED
  BY <1>1, <1>2, <1>3, <1>4, <1>5, StepKinds

LEMMA UserNamesStep == TypeInv /\ Own /\ UserNames /\ [Next]_vars => UserNames'
<1>. SUFFICES ASSUME TypeInv, Own, UserNames, [Next]_vars PROVE UserNames'
  OBVIOUS
<1>f. DOMAIN root = Files /\ "users" \in Files /\ "content" \in Files
  BY RootIsFiles DEF IsFiles, Files
<1>c. "step" \notin Commands /\ "tables" \notin Commands /\ "refused" \notin Commands
      /\ "failed" \notin Commands
  BY DEF Commands
<1>1. CASE RunPostInstall /\ pc \in Commands
  <2>1. OnTo /\ step.op = OperationOf(pc) /\ at \in 1..Len(recipe.post) /\ IsStep(step)
    BY <1>1, CommandLeads, InStep DEF Own
  <2>0. UNCHANGED <<recipe, image>>
    BY <2>1 DEF OnTo
  <2>2. CASE pc' \in {"refused", "failed"}
    BY <1>c, <2>2 DEF UserNames, InSteps
  <2>3. CASE ~(step.chroot /\ step.op = "adduser")
    <3>1. root'.users = root.users
      BY <1>1, <2>3, CommandKeeps
    <3>2. DOMAIN root.users = DOMAIN base.users
      BY <1>1, <2>1, <2>3 DEF UserNames, InSteps, Adding, OperationOf
    <3>3. CASE pc' \in Commands
      <4>1. at' = at /\ step' = step /\ OperationOf(pc') = step.op
        BY <1>c, <2>1, <3>3 DEF OnTo, step
      <4>2. base' = base /\ ~Adding'
        BY <2>0, <2>3, <4>1, BaseStep DEF Adding, OperationOf
      <4>. QED
        BY <1>c, <3>1, <3>2, <3>3, <4>2 DEF UserNames
    <3>4. CASE pc' = "step"
      <4>1. at' = at + 1
        BY <1>c, <2>1, <3>4 DEF OnTo
      <4>2. base'.users = base.users
        <5>1. CASE Promised!InRoot(step)
          BY <2>0, <2>1, <2>3, <4>1, <5>1, BaseStep DEF EffectTable, If, Promised!InRoot
        <5>2. CASE ~Promised!InRoot(step)
          BY <2>0, <2>1, <4>1, <5>2, BaseStep
        <5>. QED
          BY <5>1, <5>2
      <4>. QED
        BY <3>1, <3>2, <3>4, <4>2 DEF UserNames, Adding
    <3>. QED
      BY <2>1, <2>2, <3>3, <3>4 DEF OnTo
  <2>4. CASE step.chroot /\ step.op = "adduser" /\ pc' \in Commands \cup {"step"}
    <3>1. RootUsers
      BY <1>1, <2>4, ChrootCommand DEF RootTable
    <3>2. pc \in {"useradd", "comment", "chpasswd", "groups"}
      BY <1>1, <2>1, <2>4 DEF OperationOf, Commands
    <3>3. Useradded.name = step.account.name
      BY <2>1, <2>4 DEF Useradded, IsStep, AccountFields
    <3>4. DOMAIN root'.users = DOMAIN base.users \cup {step.account.name}
      <4>1. CASE pc = "useradd"
        <5>1. root' = [root EXCEPT !.users = With(@, Useradded)]
          BY <1>c, <2>4, <3>1, <4>1 DEF RootUsers, Becomes, Stays
        <5>2. DOMAIN root'.users = DOMAIN root.users \cup {step.account.name}
          BY <1>f, <3>3, <5>1 DEF With
        <5>. QED
          BY <1>1, <4>1, <5>2 DEF UserNames, Adding, InSteps
      <4>2. CASE pc # "useradd"
        <5>. DEFINE edited(field) ==
               [root EXCEPT !.users[step.account.name][field] = step.account[field]]
        <5>1. \/ root' = edited("fullname") \/ root' = edited("password")
              \/ root' = edited("groups")
          BY <3>1, <3>2, <4>2, Zenon DEF RootUsers, Becomes
        <5>2. \A field : DOMAIN edited(field).users = DOMAIN root.users
          BY <1>f
        <5>. HIDE DEF edited
        <5>3. DOMAIN root'.users = DOMAIN root.users
          BY <5>1, <5>2
        <5>. QED
          BY <1>1, <2>4, <3>2, <4>2, <5>3 DEF UserNames, Adding, InSteps
      <4>. QED
        BY <4>1, <4>2
    <3>5. CASE pc' = "step"
      <4>1. at' = at + 1
        BY <1>c, <2>1, <3>5 DEF OnTo
      <4>2. base'.users = With(base.users, step.account)
        BY <2>0, <2>1, <2>4, <4>1, BaseStep DEF EffectTable, If, Promised!InRoot
      <4>. QED
        BY <3>4, <3>5, <4>2 DEF UserNames, Adding, With
    <3>6. CASE pc' \in Commands
      <4>1. at' = at /\ step' = step /\ base' = base
        BY <1>c, <2>0, <2>1, <3>6, BaseStep DEF OnTo, step
      <4>2. pc' \in {"comment", "chpasswd", "groups"}
        BY <1>c, <3>1, <3>2, <3>6, Zenon DEF RootUsers, Becomes, Stays, AfterPassword
      <4>. QED
        BY <2>4, <3>4, <4>1, <4>2 DEF UserNames, Adding
    <3>. QED
      BY <2>4, <3>5, <3>6
  <2>. QED
    BY <2>1, <2>2, <2>3, <2>4 DEF OnTo
<1>2. CASE Dispatched
  <2>1. /\ UNCHANGED <<recipe, image>> /\ root' = root /\ at \in 1..Len(recipe.post)
        /\ pc = "step" /\ IsStep(step)
    BY <1>2 DEF Dispatched, root
  <2>2. DOMAIN root.users = DOMAIN base.users
    BY <2>1 DEF UserNames, InSteps, Adding
  <2>3. CASE pc' \in Firsts /\ at' = at
    BY <2>1, <2>2, <2>3, BaseStep DEF UserNames, Adding, Firsts
  <2>4. CASE pc' = "step" /\ at' = at + 1 /\ step.op \in Loops
    <3>1. base'.users = base.users
      <4>1. CASE Promised!InRoot(step)
        BY <2>1, <2>4, <4>1, BaseStep DEF EffectTable, If, Loops
      <4>2. CASE ~Promised!InRoot(step)
        BY <2>1, <2>4, <4>2, BaseStep
      <4>. QED
        BY <4>1, <4>2
    <3>. QED
      BY <2>1, <2>2, <2>4, <3>1 DEF UserNames, Adding
  <2>. QED
    BY <1>2, <2>3, <2>4 DEF Dispatched
<1>3. CASE Started
  <2>1. /\ pc = "tables" /\ pc' = "step" /\ base' = image.system /\ root'.users = root.users
    BY <1>3, <1>f, BaseStep DEF Started
  <2>. QED
    BY <2>1 DEF UserNames, Adding
<1>4. CASE Rests
  <2>1. ~InSteps'
    BY <1>4, CommandNames DEF Rests, InSteps, Resting, Ended, Commands
  <2>2. CASE pc' = "tables"
    <3>1. root' = Overlay(root, image.ships, "image") /\ image' = image /\ "users" \in image.ships
      BY <1>4, <2>2, ImagesAssumption DEF Rests, TypeInv, TypeOK
    <3>2. root'.users = image.system.users
      BY <1>f, <3>1 DEF Overlay
    <3>. QED
      BY <2>1, <3>1, <3>2 DEF UserNames
  <2>. QED
    BY <2>1, <2>2 DEF UserNames
<1>5. CASE UNCHANGED vars
  <2>1. base' = base
    BY <1>5, AfterSame DEF vars, base
  <2>. QED
    BY <1>5, <2>1 DEF vars, UserNames, InSteps, Adding, root, step
<1>. QED
  BY <1>1, <1>2, <1>3, <1>4, <1>5, StepKinds

LEMMA EarlierGrows ==
  ASSUME TypeInv, pc \in Loops, step.op = pc
  PROVE  /\ UNCHANGED recipe /\ at' = at /\ arg' = arg + 1
              => Earlier' = Earlier \cup {Arguments(step)[arg]}
         /\ ~(arg < Len(Arguments(step)))
              => ToSet(Arguments(step)) = Earlier \cup {Arguments(step)[arg]}
<1>1. arg \in 1..Len(Arguments(step)) /\ Arguments(step) \in Seq(ToSet(Arguments(step)))
  <2>1. arg \in 1..Len(Arguments(step))
    BY DEF TypeInv, TypeOK, Loops
  <2>2. IsStep(step)
    BY InStep, CommandNames
  <2>. QED
    BY <2>1, <2>2 DEF IsStep, IsList
<1>. DEFINE all == Arguments(step)
<1>2. ASSUME UNCHANGED recipe, at' = at, arg' = arg + 1
      PROVE  Earlier' = Earlier \cup {all[arg]}
  <2>1. step' = step
    BY <1>2 DEF step
  <2>2. Earlier' = {all[i] : i \in 1..arg}
    BY <1>1, <1>2, <2>1 DEF Earlier, Arguments
  <2>3. 1..arg = (1..arg - 1) \cup {arg}
    BY <1>1
  <2>. QED
    BY <2>2, <2>3 DEF Earlier
<1>3. ASSUME ~(arg < Len(all))
      PROVE  ToSet(all) = Earlier \cup {all[arg]}
  <2>1. arg = Len(all) /\ DOMAIN all = 1..Len(all)
    BY <1>1, <1>3
  <2>2. 1..Len(all) = (1..arg - 1) \cup {arg}
    BY <1>1, <2>1
  <2>. HIDE DEF all
  <2>. QED
    BY <2>1, <2>2 DEF ToSet, Earlier, all
<1>. QED
  BY <1>2, <1>3

LEMMA ScriptsKeptStep == TypeInv /\ Own /\ ScriptsKept /\ [Next]_vars => ScriptsKept'
<1>. SUFFICES ASSUME TypeInv, Own, ScriptsKept, [Next]_vars PROVE ScriptsKept'
  OBVIOUS
<1>f. DOMAIN root = Files /\ "scripts" \in Files /\ "content" \in Files
  BY RootIsFiles DEF IsFiles, Files
<1>c. "step" \notin Commands /\ "tables" \notin Commands /\ "refused" \notin Commands
      /\ "failed" \notin Commands
  BY DEF Commands
<1>. DEFINE ops == {"grub-add-script", "grub-remove-script"}
<1>k. ASSUME UNCHANGED <<recipe, image>>, at \in 1..Len(recipe.post), at' = at + 1,
             ~step.chroot \/ step.op \notin ops
      PROVE  base'.scripts = base.scripts
  <2>1. CASE Promised!InRoot(step)
    <3>1. EffectTable(base, step, base') /\ step.op \notin ops
      BY <1>k, <2>1, BaseStep DEF Promised!InRoot
    <3>. QED
      BY <3>1 DEF EffectTable
  <2>2. CASE ~Promised!InRoot(step)
    BY <1>k, <2>2, BaseStep
  <2>. QED
    BY <2>1, <2>2
<1>1. CASE RunPostInstall /\ pc \in Commands
  <2>1. OnTo /\ step.op = OperationOf(pc) /\ at \in 1..Len(recipe.post) /\ IsStep(step)
    BY <1>1, CommandLeads, InStep DEF Own
  <2>0. UNCHANGED <<recipe, image>>
    BY <2>1 DEF OnTo
  <2>2. CASE pc' \in {"refused", "failed"}
    BY <1>c, <2>2 DEF ScriptsKept, InSteps
  <2>3. CASE ~(step.chroot /\ step.op \in ops)
    <3>1. root'.scripts = root.scripts
      BY <1>1, <2>3, CommandKeeps
    <3>2. base.scripts \subseteq root.scripts
      BY <1>1, <2>1, <2>3 DEF ScriptsKept, InSteps, Removing, OperationOf
    <3>3. CASE pc' \in Commands
      <4>1. at' = at /\ step' = step /\ OperationOf(pc') = step.op
        BY <1>c, <2>1, <3>3 DEF OnTo, step
      <4>2. base' = base /\ ~(pc' \in ops /\ step'.chroot)
        BY <2>0, <2>3, <4>1, BaseStep DEF OperationOf
      <4>. QED
        BY <1>c, <3>1, <3>2, <3>3, <4>2 DEF ScriptsKept, Removing
    <3>4. CASE pc' = "step"
      <4>1. at' = at + 1
        BY <1>c, <2>1, <3>4 DEF OnTo
      <4>2. base'.scripts = base.scripts
        BY <1>k, <2>0, <2>1, <2>3, <4>1
      <4>. QED
        BY <3>1, <3>2, <3>4, <4>2 DEF ScriptsKept, Removing
    <3>. QED
      BY <2>1, <2>2, <3>3, <3>4 DEF OnTo
  <2>4. CASE step.chroot /\ step.op \in ops /\ pc' \in Commands \cup {"step"}
    <3>. DEFINE x == Arguments(step)[arg]
    <3>1. pc = step.op /\ pc \in Loops
      BY <1>1, <2>1, <2>4 DEF OperationOf, Commands, Loops
    <3>2. Arguments(step) = step.scripts /\ Promised!InRoot(step)
      BY <2>4 DEF Arguments, Promised!InRoot
    <3>3. /\ NextRoundOr("step")
          /\ root'.scripts = IF pc = "grub-add-script" THEN root.scripts \cup {x}
                             ELSE root.scripts \ {x}
      <4>1. RootConfig
        BY <1>1, <2>4, ChrootCommand DEF RootTable
      <4>2. pc' # "refused"
        BY <1>c, <2>4
      <4>. QED
        BY <1>f, <2>4, <3>1, <4>1, <4>2 DEF RootConfig, Stays
    <3>4. CASE pc' = pc /\ arg' = arg + 1
      <4>1. at' = at /\ base' = base /\ step' = step
        BY <1>1, <1>c, <2>0, <2>1, <3>4, BaseStep DEF OnTo, step
      <4>2. Earlier' = Earlier \cup {x}
        BY <2>0, <3>1, <3>4, <4>1, EarlierGrows
      <4>. QED
        BY <1>1, <1>c, <2>4, <3>1, <3>3, <3>4, <4>1, <4>2 DEF ScriptsKept, Removing, InSteps
    <3>5. CASE pc' = "step" /\ ~(arg < Len(Arguments(step)))
      <4>1. at' = at + 1 /\ EffectTable(base, step, base')
        BY <1>c, <2>0, <2>1, <3>2, <3>5, BaseStep DEF OnTo
      <4>2. ToSet(step.scripts) = Earlier \cup {x}
        BY <3>1, <3>2, <3>5, EarlierGrows
      <4>3. base'.scripts = IF pc = "grub-add-script" THEN base.scripts \cup ToSet(step.scripts)
                            ELSE base.scripts \ ToSet(step.scripts)
        BY <2>4, <3>1, <4>1 DEF EffectTable
      <4>. HIDE DEF x
      <4>4. base'.scripts \subseteq root'.scripts
        BY <1>1, <2>4, <3>1, <3>3, <4>2, <4>3 DEF ScriptsKept, Removing, InSteps
      <4>. QED
        BY <3>5, <4>4 DEF ScriptsKept, Removing
    <3>. QED
      BY <3>3, <3>4, <3>5 DEF NextRoundOr
  <2>. QED
    BY <2>1, <2>2, <2>3, <2>4 DEF OnTo
<1>2. CASE Dispatched
  <2>1. /\ UNCHANGED <<recipe, image>> /\ root' = root /\ at \in 1..Len(recipe.post)
        /\ pc = "step" /\ IsStep(step) /\ arg' = 1
    BY <1>2 DEF Dispatched, root
  <2>2. base.scripts \subseteq root.scripts
    BY <2>1 DEF ScriptsKept, InSteps, Removing
  <2>3. CASE pc' \in Firsts /\ at' = at
    <3>1. Earlier' = {}
      BY <2>1 DEF Earlier
    <3>. QED
      BY <2>1, <2>2, <2>3, <3>1, BaseStep DEF ScriptsKept, Firsts
  <2>4. CASE pc' = "step" /\ at' = at + 1 /\ step.op \in Loops /\ Arguments(step) = <<>>
    <3>1. base'.scripts = base.scripts
      <4>1. CASE step.chroot /\ step.op \in ops
        <5>1. Promised!InRoot(step) /\ ToSet(step.scripts) = {}
          BY <2>4, <4>1 DEF Promised!InRoot, Arguments, ToSet
        <5>2. EffectTable(base, step, base')
          BY <2>1, <2>4, <5>1, BaseStep
        <5>. QED
          BY <4>1, <5>1, <5>2 DEF EffectTable
      <4>2. CASE ~(step.chroot /\ step.op \in ops)
        BY <1>k, <2>1, <2>4, <4>2
      <4>. QED
        BY <4>1, <4>2
    <3>. QED
      BY <2>1, <2>2, <2>4, <3>1 DEF ScriptsKept, Removing
  <2>. QED
    BY <1>2, <2>3, <2>4 DEF Dispatched
<1>3. CASE Started
  <2>1. /\ pc = "tables" /\ pc' = "step" /\ base' = image.system /\ root'.scripts = root.scripts
    BY <1>3, <1>f, BaseStep DEF Started
  <2>. QED
    BY <2>1 DEF ScriptsKept, Removing
<1>4. CASE Rests
  <2>1. ~InSteps' /\ pc' # "grub-add-script"
    BY <1>4, CommandNames DEF Rests, InSteps, Resting, Ended, Commands
  <2>2. CASE pc' = "tables"
    <3>1. root' = Overlay(root, image.ships, "image") /\ image' = image /\ image \in Images
      BY <1>4, <2>2 DEF Rests, TypeInv, TypeOK
    <3>2. "scripts" \notin image.ships => image.system.scripts = {}
      BY <1>f, <3>1, ImagesAssumption, BlankAssumption
    <3>3. image.system.scripts \subseteq root'.scripts
      BY <1>f, <3>1, <3>2 DEF Overlay
    <3>. QED
      BY <2>1, <3>1, <3>3 DEF ScriptsKept
  <2>. QED
    BY <2>1, <2>2 DEF ScriptsKept
<1>5. CASE UNCHANGED vars
  <2>1. base' = base
    BY <1>5, AfterSame DEF vars, base
  <2>. QED
    BY <1>5, <2>1 DEF vars, ScriptsKept, InSteps, Removing, root, step, Earlier
<1>. QED
  BY <1>1, <1>2, <1>3, <1>4, <1>5, StepKinds

LEMMA BareKeptStep == TypeInv /\ Own /\ BareKept /\ [Next]_vars => BareKept'
<1>. SUFFICES ASSUME TypeInv, Own, BareKept, [Next]_vars PROVE BareKept'
  OBVIOUS
<1>f. DOMAIN root = Files /\ "defaults" \in Files /\ "content" \in Files
  BY RootIsFiles DEF IsFiles, Files
<1>c. "step" \notin Commands /\ Commands \cap {"tables", "mount", "copy", "refused", "failed"} = {}
  BY DEF Commands
<1>k. ASSUME UNCHANGED <<recipe, image>>, InSteps \/ pc = "tables", root'.defaults = root.defaults,
             pc' \notin {"mount", "copy"}
      PROVE  BareKept'
  BY <1>k DEF BareKept
<1>1. CASE RunPostInstall /\ pc \in Commands
  <2>1. OnTo /\ step.op = OperationOf(pc) /\ UNCHANGED <<recipe, image>>
    BY <1>1, CommandLeads DEF Own, OnTo
  <2>2. pc' \in Commands \cup {"step", "refused", "failed"}
    BY <2>1 DEF OnTo
  <2>3. CASE ~(step.chroot /\ pc = "write-config")
    <3>1. root'.defaults = root.defaults
      <4>1. CASE ~(step.chroot /\ pc \in {"grub-default-config", "write-config"})
        <5>1. ~step.chroot \/ step.op # "grub-default-config"
          BY <1>1, <2>1, <4>1 DEF OperationOf, Commands
        <5>. QED
          BY <1>1, <5>1, CommandKeeps
      <4>2. CASE step.chroot /\ pc = "grub-default-config"
        BY <1>1, <4>2, ChrootCommand DEF RootTable, RootConfig, Stays
      <4>. QED
        BY <2>3, <4>1, <4>2
    <3>. QED
      BY <1>1, <1>c, <1>k, <2>1, <2>2, <3>1 DEF InSteps
  <2>4. CASE step.chroot /\ pc = "write-config"
    <3>1. PICK some \in SUBSET DOMAIN config, bare \in BOOLEAN :
            /\ Rewrites(some, bare)
            /\ pc' = "failed" \/ (pc' = "step" /\ bare = FALSE)
      BY <1>1, <2>4, ChrootCommand DEF RootTable, RootConfig
    <3>2. root'.defaults.bare = bare
      BY <1>f, <3>1 DEF Rewrites
    <3>. QED
      BY <1>c, <3>1, <3>2 DEF BareKept, InSteps
  <2>. QED
    BY <2>3, <2>4
<1>2. CASE Dispatched
  <2>1. UNCHANGED <<recipe, image>> /\ root' = root /\ pc = "step" /\ pc' \in Firsts \cup {"step"}
    BY <1>2 DEF Dispatched, root
  <2>. QED
    BY <1>k, <2>1 DEF InSteps, Firsts
<1>3. CASE Started
  <2>1. UNCHANGED <<recipe, image>> /\ root'.defaults = root.defaults /\ pc = "tables"
           /\ pc' = "step"
    BY <1>3, <1>f DEF Started
  <2>. QED
    BY <1>k, <2>1
<1>4. CASE Rests
  <2>1. ~InSteps' /\ UNCHANGED <<recipe, image>> /\ image \in Images
    BY <1>4, CommandNames DEF Rests, InSteps, Resting, Ended, Commands, TypeInv, TypeOK
  <2>2. CASE pc' = "mount"
    BY <1>4, <2>1, <2>2 DEF Rests, BareKept
  <2>3. CASE pc' = "copy"
    BY <1>4, <2>1, <2>3 DEF Rests, BareKept
  <2>4. CASE pc' = "tables"
    <3>1. pc = "copy" /\ root' = Overlay(root, image.ships, "image")
      BY <1>4, <2>4 DEF Rests
    <3>2. root'.defaults = IF "defaults" \in image.ships THEN image.system.defaults
                           ELSE root.defaults
      BY <1>f, <3>1 DEF Overlay
    <3>3. recipe.formats => root.defaults.bare = FALSE
      BY <3>1, BlankAssumption DEF BareKept
    <3>. QED
      BY <2>1, <2>4, <3>2, <3>3 DEF BareKept
  <2>. QED
    BY <2>1, <2>2, <2>3, <2>4 DEF BareKept
<1>5. CASE UNCHANGED vars
  BY <1>5 DEF vars, BareKept, InSteps, root
<1>. QED
  BY <1>1, <1>2, <1>3, <1>4, <1>5, StepKinds

LEMMA RefusalInfeasible ==
  ASSUME TypeInv, Own, GrubBound, UserNames, ScriptsKept, BareKept,
         RunPostInstall, pc \in Commands, pc' = "refused", step.chroot
  PROVE  \/ step.op = "swapon"
         \/ step.op = "grub-default-config" /\ CutOff
         \/ ~Promised!Feasible(at)
<1>. DEFINE Feasible == Promised!Feasible(at)
<1>1. /\ step.op = OperationOf(pc) /\ at \in 1..Len(recipe.post) /\ IsStep(step) /\ RootTable
      /\ recipe \in Recipes /\ image \in Images
  BY ChrootCommand, InStep DEF Own, TypeInv, TypeOK
<1>2. pc \in {"useradd", "grep", "swapon", "target", "efibootmgr", "grub-default-config",
              "grub-remove-script", "grub-mkconfig"}
  <2>1. AfterPassword # "refused"
    BY DEF AfterPassword
  <2>. QED
    BY <1>1, <2>1, Zenon DEF Commands, RootTable, RootUsers, RootFiles, RootGrub,
       RootConfig, Becomes,
      NextRoundOr
<1>. USE DEF Promised!Feasible
<1>3. CASE pc = "useradd"
  <2>1. step.op = "adduser" /\ step.account.name \in DOMAIN root.users
    BY <1>1, <1>3 DEF RootTable, RootUsers, Becomes, OperationOf
  <2>2. step.account.name \in DOMAIN base.users
    BY <1>3, <2>1 DEF UserNames, InSteps, Adding
  <2>. QED
    BY <2>1, <2>2 DEF base, step
<1>4. CASE pc = "grep"
  <2>1. step.op = "locale" /\ step.code \notin Supported
    BY <1>1, <1>4 DEF RootTable, RootFiles, Stays, OperationOf
  <2>. QED
    BY <2>1 DEF step
<1>5. CASE pc = "swapon"
  BY <1>1, <1>5 DEF OperationOf
<1>6. CASE pc \in {"target", "efibootmgr"}
  <2>1. /\ step.op = "grub-install"
        /\ \/ step.target \notin {"bios", "efi"}
           \/ step.efiDevice = "" /\ step.target = "efi" /\ ~step.removable
    BY <1>1, <1>6, Zenon DEF RootTable, RootGrub, Stays, OperationOf, Own
  <2>. QED
    BY <2>1, Zenon DEF step
<1>7. CASE pc = "grub-default-config"
  <2>1. step.op = "grub-default-config" /\ (root.defaults.bare \/ step.bare)
    BY <1>1, <1>7 DEF RootTable, RootConfig, Stays, OperationOf
  <2>2. CASE step.bare
    BY <2>1, <2>2 DEF step
  <2>3. CASE root.defaults.bare
    <3>1. image.system.defaults.bare \/ CutOff
      BY <1>7, <2>3 DEF BareKept, InSteps, CutOff, root, Commands
    <3>2. base.defaults.bare = image.system.defaults.bare
      BY <1>1, AfterFiles DEF AfterGood, base
    <3>. QED
      BY <2>1, <3>1, <3>2 DEF base, step
  <2>. QED
    BY <2>1, <2>2, <2>3, Zenon
<1>8. CASE pc = "grub-remove-script"
  <2>. DEFINE x == Arguments(step)[arg]
  <2>1. step.op = "grub-remove-script" /\ x \notin root.scripts
    BY <1>1, <1>8 DEF RootTable, RootConfig, NextRoundOr, OperationOf
  <2>2. /\ Arguments(step) = step.scripts /\ arg \in 1..Len(step.scripts)
        /\ DOMAIN step.scripts = 1..Len(step.scripts)
    <3>1. Arguments(step) = step.scripts
      BY <2>1 DEF Arguments
    <3>2. arg \in 1..Len(Arguments(step)) /\ IsList(Arguments(step))
      BY <1>1, <1>8, <2>1 DEF TypeInv, TypeOK, Loops, IsStep
    <3>. QED
      BY <3>1, <3>2 DEF IsList
  <2>3. base.scripts \subseteq root.scripts \cup Earlier
    BY <1>8 DEF ScriptsKept, InSteps, Removing
  <2>4. ASSUME ToSet(step.scripts) \subseteq base.scripts, Promised!IsInjective(step.scripts)
        PROVE  FALSE
    <3>1. x \in base.scripts
      BY <2>2, <2>4 DEF ToSet
    <3>2. PICK i \in 1..arg - 1 : step.scripts[i] = step.scripts[arg]
      BY <2>1, <2>2, <2>3, <3>1 DEF Earlier
    <3>3. i \in DOMAIN step.scripts /\ arg \in DOMAIN step.scripts /\ i # arg
      BY <2>2
    <3>. QED
      BY <2>4, <3>2, <3>3 DEF Promised!IsInjective
  <2>5. Promised!ToSet(step.scripts) = ToSet(step.scripts)
    BY DEF ToSet, Promised!ToSet
  <2>. QED
    BY <2>1, <2>4, <2>5 DEF base, step
<1>9. CASE pc = "grub-mkconfig"
  <2>1. step.op = "grub-mkconfig" /\ \E dir \in {"dev", "proc", "sys"} : binds[dir] = 0
    BY <1>1, <1>9 DEF RootTable, RootConfig, Becomes, OperationOf
  <2>2. {"dev", "proc", "sys"} \subseteq ToSet(RequiredBinds)
    <3>1. "dev" = RequiredBinds[1] /\ "proc" = RequiredBinds[3] /\ "sys" = RequiredBinds[4]
      BY DEF RequiredBinds
    <3>. QED
      BY <3>1, BindDirs
  <2>3. ~AllBound
    BY <2>1, <2>2 DEF AllBound
  <2>4. ~\E m \in 1..at - 1 : recipe.post[m].op = "grub-install" /\ recipe.post[m].chroot
    BY <1>9, <2>3 DEF GrubBound, InSteps
  <2>. QED
    BY <2>1, <2>4 DEF step
<1>. QED
  BY <1>2, <1>3, <1>4, <1>5, <1>6, <1>7, <1>8, <1>9, Zenon

LEMMA RepeatableStep ==
  /\ TypeInv /\ Own /\ GrubBound /\ UserNames /\ ScriptsKept /\ BareKept
  /\ Repeatable /\ [Next]_vars
  => Repeatable'
<1>. SUFFICES ASSUME TypeInv, Own, GrubBound, UserNames, ScriptsKept, BareKept, Repeatable,
                     [Next]_vars
              PROVE  Repeatable'
  OBVIOUS
<1>1. CASE RunPostInstall /\ pc \in Commands
  <2>1. UNCHANGED <<recipe, image>> /\ (pc' = "refused" => at' = at)
    BY <1>1, CommandLeads, CommandNames DEF OnTo, Ended
  <2>2. CASE pc' = "refused"
    <3>1. step' = step /\ at' = at
      BY <2>1, <2>2 DEF step
    <3>2. Promised!Feasible(at)' = Promised!Feasible(at)
      BY <2>1, <3>1, AfterSame
    <3>3. step.chroot /\ step.op = "grub-default-config" => CutOff' = CutOff
      <4>. SUFFICES ASSUME step.chroot, step.op = "grub-default-config" PROVE CutOff' = CutOff
        OBVIOUS
      <4>1. pc \in {"grub-default-config", "write-config"} /\ RootConfig
        BY <1>1, ChrootCommand DEF Own, OperationOf, Commands, RootTable
      <4>2. root' = root
        BY <2>2, <4>1 DEF RootConfig, Stays
      <4>. QED
        BY <2>1, <4>2 DEF CutOff, root
    <3>. QED
      BY <1>1, <2>2, <3>1, <3>2, <3>3, RefusalInfeasible DEF Repeatable
  <2>. QED
    BY <2>2 DEF Repeatable
<1>2. CASE Dispatched \/ Started
  BY <1>2 DEF Dispatched, Started, Firsts, Repeatable
<1>3. CASE Rests
  <2>1. at' = 0 /\ recipe' = recipe /\ DOMAIN recipe.post = 1..Len(recipe.post)
    BY <1>3, PostIsSequence DEF Rests, TypeInv, TypeOK
  <2>. QED
    BY <2>1 DEF Repeatable
<1>4. CASE UNCHANGED vars
  <2>1. Promised!Feasible(at)' = Promised!Feasible(at)
    BY <1>4, AfterSame DEF vars
  <2>. QED
    BY <1>4, <2>1 DEF vars, Repeatable, CutOff, step
<1>. QED
  BY <1>1, <1>2, <1>3, <1>4, StepKinds

LEMMA RepeatInit == Init => RepeatInv
<1>. SUFFICES ASSUME Init PROVE RepeatInv
  OBVIOUS
<1>1. TypeInv
  BY TypeInit
<1>2. pc = "idle" /\ pc \notin Commands /\ ~InSteps
  BY DEF Init, InSteps, Commands
<1>. QED
  BY <1>1, <1>2 DEF RepeatInv, Own, GrubBound, UserNames, ScriptsKept, BareKept, Repeatable

(* The refusals of a second installation, Repeatable, are those of a       *)
(* first: for whatever an earlier run left, no Chroot step is refused that *)
(* could be done in an installation made in one go (post_install.go).      *)
THEOREM RefusedAsAtFirst == Spec => []Repeatable
<1>1. RepeatInv /\ [Next]_vars => RepeatInv'
  BY TypeNext, OwnStep, GrubBoundStep, UserNamesStep, ScriptsKeptStep, BareKeptStep,
    RepeatableStep DEF RepeatInv
<1>2. RepeatInv => Repeatable
  BY DEF RepeatInv
<1>. QED
  BY RepeatInit, <1>1, <1>2, PTL DEF Spec

-----------------------------------------------------------------------------
(* Lemmas about the lines and the map of /etc/default/grub.                *)

(* The largest of some indices, and zero.                                  *)
LEMMA MaxIs ==
  ASSUME NEW n \in Nat, NEW I \in SUBSET 1..n
  PROVE  /\ I = {} => Max({0} \cup I) = 0
         /\ I # {} => /\ Max({0} \cup I) \in I
                      /\ \A k \in I : k <= Max({0} \cup I)
<1>. DEFINE S == {0} \cup I
            m == Max(S)
<1>1. ASSUME NEW x \in S, \A y \in S : x >= y
      PROVE  m = x
  <2>1. m \in S /\ \A y \in S : m >= y
    BY <1>1 DEF Max
  <2>. HIDE DEF m
  <2>2. m >= x /\ x >= m /\ m \in Int /\ x \in Int
    BY <1>1, <2>1
  <2>. QED
    BY <2>2
<1>2. ASSUME I = {} PROVE m = 0
  BY <1>1, <1>2
<1>3. ASSUME I # {} PROVE m \in I /\ \A k \in I : k <= m
  <2>1. PICK x \in I : \A k \in I : k <= x
    BY <1>3, LastIndex
  <2>2. m = x
    BY <1>1, <2>1
  <2>. HIDE DEF m
  <2>. QED
    BY <2>1, <2>2
<1>. QED
  BY <1>2, <1>3

LEMMA LastForIs ==
  ASSUME NEW L, NEW lines \in Seq(L), NEW key, NEW n \in 0..Len(lines)
  PROVE  /\ LastFor(lines, key, n) \in 0..n
         /\ (\A k \in 1..n : lines[k].key # key) => LastFor(lines, key, n) = 0
         /\ \A k \in 1..n : lines[k].key = key =>
              /\ k <= LastFor(lines, key, n) /\ LastFor(lines, key, n) \in 1..n
              /\ lines[LastFor(lines, key, n)].key = key
<1>. DEFINE I == {k \in 1..n : lines[k].key = key}
            m == LastFor(lines, key, n)
<1>1. n \in Nat /\ I \in SUBSET 1..n
  OBVIOUS
<1>2. m = Max({0} \cup I)
  BY DEF LastFor
<1>3. /\ I = {} => m = 0
      /\ I # {} => m \in I /\ \A k \in I : k <= m
  <2>. HIDE DEF I, m
  <2>. QED
    BY <1>1, <1>2, MaxIs
<1>4. /\ m \in 0..n
      /\ (\A k \in 1..n : lines[k].key # key) => m = 0
      /\ \A k \in 1..n : lines[k].key = key => k <= m /\ m \in 1..n /\ lines[m].key = key
  <2>. HIDE DEF m
  <2>. QED
    BY <1>1, <1>3
<1>. QED
  BY <1>4

LEMMA MappedIs ==
  ASSUME NEW L, NEW lines \in Seq(L)
  PROVE  /\ DOMAIN Mapped(lines) = Keys(lines)
         /\ \A key \in Keys(lines) :
              LET k == LastFor(lines, key, Len(lines))
              IN  /\ k \in 1..Len(lines) /\ lines[k].key = key
                  /\ Mapped(lines)[key] = lines[k]
<1>1. ASSUME NEW key \in Keys(lines)
      PROVE  LET k == LastFor(lines, key, Len(lines))
             IN  /\ k \in 1..Len(lines) /\ lines[k].key = key
                 /\ Mapped(lines)[key] = lines[k]
  <2>1. PICK j \in 1..Len(lines) : lines[j].key = key
    BY <1>1 DEF Keys
  <2>2. Len(lines) \in 0..Len(lines)
    OBVIOUS
  <2>3. /\ LastFor(lines, key, Len(lines)) \in 1..Len(lines)
        /\ lines[LastFor(lines, key, Len(lines))].key = key
    BY <2>1, <2>2, LastForIs
  <2>. QED
    BY <2>3 DEF Mapped
<1>. QED
  BY <1>1 DEF Mapped

(* The last line for a key is what the map has for it.                     *)
LEMMA MappedAt ==
  ASSUME NEW L, NEW lines \in Seq(L), NEW k \in 1..Len(lines),
         \A j \in 1..Len(lines) : k < j => lines[j].key # lines[k].key
  PROVE  lines[k].key \in Keys(lines) /\ Mapped(lines)[lines[k].key] = lines[k]
<1>. DEFINE m == LastFor(lines, lines[k].key, Len(lines))
<1>1. lines[k].key \in Keys(lines)
  BY DEF Keys
<1>2. m \in 1..Len(lines) /\ lines[m].key = lines[k].key
      /\ Mapped(lines)[lines[k].key] = lines[m]
  BY <1>1, MappedIs
<1>3. k <= m
  <2>1. Len(lines) \in 0..Len(lines)
    OBVIOUS
  <2>. QED
    BY <2>1, LastForIs
<1>4. m = k
  BY <1>2, <1>3
<1>. QED
  BY <1>1, <1>2, <1>4

LEMMA MappedAppended ==
  ASSUME NEW L, NEW a \in Seq(L), NEW b \in Seq(L)
  PROVE  /\ a \o b \in Seq(L) /\ Keys(a \o b) = Keys(a) \cup Keys(b)
         /\ \A key \in Keys(b) : Mapped(a \o b)[key] = Mapped(b)[key]
         /\ \A key \in Keys(a) \ Keys(b) : Mapped(a \o b)[key] = Mapped(a)[key]
<1>. DEFINE c == a \o b
<1>1. /\ c \in Seq(L) /\ Len(c) = Len(a) + Len(b) /\ Len(a) \in Nat /\ Len(b) \in Nat
      /\ \A i \in 1..Len(a) : c[i] = a[i]
      /\ \A i \in 1..Len(b) : c[Len(a) + i] = b[i]
      /\ \A i \in Len(a) + 1..Len(c) : i - Len(a) \in 1..Len(b) /\ c[i] = b[i - Len(a)]
  OBVIOUS
<1>. HIDE DEF c
<1>2. Keys(c) = Keys(a) \cup Keys(b)
  <2>1. Keys(c) \subseteq Keys(a) \cup Keys(b)
    <3>. SUFFICES ASSUME NEW i \in 1..Len(c) PROVE c[i].key \in Keys(a) \cup Keys(b)
      BY <1>1 DEF Keys
    <3>1. CASE i \in 1..Len(a)
      BY <1>1, <3>1 DEF Keys
    <3>2. CASE i \in Len(a) + 1..Len(c)
      BY <1>1, <3>2 DEF Keys
    <3>. QED
      BY <1>1, <3>1, <3>2
  <2>2. Keys(a) \subseteq Keys(c)
    <3>. SUFFICES ASSUME NEW i \in 1..Len(a) PROVE a[i].key \in Keys(c)
      BY DEF Keys
    <3>1. i \in 1..Len(c)
      BY <1>1
    <3>. QED
      BY <1>1, <3>1 DEF Keys
  <2>3. Keys(b) \subseteq Keys(c)
    <3>. SUFFICES ASSUME NEW i \in 1..Len(b) PROVE b[i].key \in Keys(c)
      BY DEF Keys
    <3>1. Len(a) + i \in DOMAIN c /\ c[Len(a) + i] = b[i]
      BY <1>1
    <3>2. c[Len(a) + i].key \in Keys(c)
      BY <3>1 DEF Keys
    <3>. QED
      BY <3>1, <3>2
  <2>. QED
    BY <2>1, <2>2, <2>3
<1>3. ASSUME NEW key \in Keys(b) PROVE Mapped(c)[key] = Mapped(b)[key]
  <2>. DEFINE k == LastFor(b, key, Len(b))
  <2>1. k \in 1..Len(b) /\ b[k].key = key /\ Mapped(b)[key] = b[k]
    BY MappedIs
  <2>2. \A j \in 1..Len(b) : b[j].key = key => j <= k
    <3>1. Len(b) \in 0..Len(b)
      OBVIOUS
    <3>. QED
      BY <3>1, LastForIs
  <2>. HIDE DEF k
  <2>3. Len(a) + k \in 1..Len(c) /\ c[Len(a) + k] = b[k]
    <3>1. c[Len(a) + k] = b[k]
      BY <1>1, <2>1
    <3>. QED
      BY <1>1, <2>1, <3>1
  <2>4. \A j \in 1..Len(c) : Len(a) + k < j => c[j].key # key
    <3>. SUFFICES ASSUME NEW j \in 1..Len(c), Len(a) + k < j PROVE c[j].key # key
      OBVIOUS
    <3>1. j \in Len(a) + 1..Len(c) /\ k < j - Len(a)
      BY <1>1, <2>1
    <3>2. j - Len(a) \in 1..Len(b) /\ c[j] = b[j - Len(a)]
      BY <1>1, <3>1
    <3>. QED
      BY <2>1, <2>2, <3>1, <3>2
  <2>5. Mapped(c)[c[Len(a) + k].key] = c[Len(a) + k]
    <3>1. \A j \in 1..Len(c) : Len(a) + k < j => c[j].key # c[Len(a) + k].key
      BY <2>1, <2>3, <2>4
    <3>. QED
      BY <1>1, <2>3, <3>1, MappedAt
  <2>. QED
    BY <2>1, <2>3, <2>5
<1>4. ASSUME NEW key \in Keys(a) \ Keys(b) PROVE Mapped(c)[key] = Mapped(a)[key]
  <2>. DEFINE k == LastFor(a, key, Len(a))
  <2>1. k \in 1..Len(a) /\ a[k].key = key /\ Mapped(a)[key] = a[k]
    BY MappedIs
  <2>2. \A j \in 1..Len(a) : a[j].key = key => j <= k
    <3>1. Len(a) \in 0..Len(a)
      OBVIOUS
    <3>. QED
      BY <3>1, LastForIs
  <2>. HIDE DEF k
  <2>3. k \in 1..Len(c) /\ c[k] = a[k]
    BY <1>1, <2>1
  <2>4. \A j \in 1..Len(c) : k < j => c[j].key # key
    <3>. SUFFICES ASSUME NEW j \in 1..Len(c), k < j PROVE c[j].key # key
      OBVIOUS
    <3>1. CASE j \in 1..Len(a)
      BY <1>1, <2>1, <2>2, <3>1
    <3>2. CASE j \in Len(a) + 1..Len(c)
      BY <1>1, <3>2 DEF Keys
    <3>. QED
      BY <1>1, <3>1, <3>2
  <2>5. Mapped(c)[c[k].key] = c[k]
    <3>1. \A j \in 1..Len(c) : k < j => c[j].key # c[k].key
      BY <2>1, <2>3, <2>4
    <3>. QED
      BY <1>1, <2>3, <3>1, MappedAt
  <2>. QED
    BY <2>1, <2>3, <2>5
<1>. QED
  BY <1>1, <1>2, <1>3, <1>4 DEF c

(* Lines for different keys, in any order, are the map that they came from.*)
LEMMA MappedWritten ==
  ASSUME NEW L, NEW lines \in Seq(L), NEW keys \in SUBSET Keys(lines),
         NEW order \in SetToSeqs(keys)
  PROVE  LET new == [n \in DOMAIN order |-> Mapped(lines)[order[n]]]
         IN  /\ new \in Seq(L) /\ Keys(new) = keys
             /\ \A key \in keys : Mapped(new)[key] = Mapped(lines)[key]
<1>. DEFINE N == Cardinality(keys)
            map == Mapped(lines)
            new == [n \in DOMAIN order |-> map[order[n]]]
<1>1. IsFiniteSet(keys) /\ N \in Nat
  <2>. DEFINE f == [k \in 1..Len(lines) |-> lines[k].key]
  <2>1. f \in Surjection(1..Len(lines), Keys(lines))
    BY DEF Surjection, Keys
  <2>2. IsFiniteSet(1..Len(lines))
    BY FS_Interval
  <2>. HIDE DEF f
  <2>3. IsFiniteSet(Keys(lines))
    BY <2>1, <2>2, FS_Surjection
  <2>4. IsFiniteSet(keys)
    BY <2>3, FS_Subset
  <2>. QED
    BY <2>4, FS_CardinalityType
<1>2. /\ order \in [1..N -> keys] /\ DOMAIN order = 1..N
      /\ \A i, j \in 1..N : i # j => order[i] # order[j]
  BY DEF SetToSeqs
<1>3. \A key \in keys : \E n \in 1..N : order[n] = key
  <2>1. order \in Injection(1..N, keys)
    <3>1. \A i, j \in 1..N : order[i] = order[j] => i = j
      BY <1>2
    <3>. QED
      BY <1>2, <3>1 DEF Injection, IsInjective
  <2>2. Cardinality(1..N) = N
    BY <1>1, FS_Interval
  <2>3. order \in Surjection(1..N, keys)
    BY <1>1, <2>1, <2>2, FS_Injection
  <2>. QED
    BY <2>3 DEF Surjection
<1>4. \A key \in keys : map[key] \in L /\ map[key].key = key
  BY MappedIs
<1>. HIDE DEF N
<1>. HIDE DEF map
<1>5. new \in Seq(L) /\ Len(new) = N /\ \A n \in 1..N : new[n] = map[order[n]]
  <2>1. \A n \in 1..N : new[n] \in L
    BY <1>2, <1>4
  <2>. QED
    BY <1>1, <1>2, <2>1
<1>. HIDE DEF new
<1>6. \A n \in 1..N : new[n].key = order[n]
  BY <1>2, <1>4, <1>5
<1>7. Keys(new) = keys
  BY <1>2, <1>3, <1>5, <1>6 DEF Keys
<1>8. ASSUME NEW key \in keys PROVE Mapped(new)[key] = map[key]
  <2>1. PICK n \in 1..N : order[n] = key
    BY <1>3
  <2>2. \A j \in 1..Len(new) : n < j => new[j].key # new[n].key
    BY <1>1, <1>2, <1>5, <1>6
  <2>3. Mapped(new)[new[n].key] = new[n]
    BY <1>5, <2>2, MappedAt
  <2>. QED
    BY <1>5, <1>6, <2>1, <2>3
<1>. QED
  BY <1>5, <1>7, <1>8 DEF new, map

(* A shell that uses no other key reads the text of the last line for each.*)
LEMMA SourcedIs ==
  ASSUME NEW L, \A line, other \in L : line.uses # other.key,
         NEW lines \in Seq(L)
  PROVE  Sourced(lines) = [key \in Keys(lines) |-> <<Mapped(lines)[key].text>> \o <<>>]
<1>. DEFINE N == Len(lines)
            body(f, n) == IF n = 0 THEN <<>>
                          ELSE <<lines[n].text>> \o f[LastFor(lines, lines[n].uses, n - 1)]
            value[n \in 0..N] == body(value, n)
            g == [n \in 0..N |-> IF n = 0 THEN <<>> ELSE <<lines[n].text>> \o <<>>]
<1>1. N \in Nat
  OBVIOUS
<1>2. \A n \in 1..N : LastFor(lines, lines[n].uses, n - 1) = 0
  <2>. TAKE n \in 1..N
  <2>1. \A k \in 1..n - 1 : lines[k].key # lines[n].uses
    OBVIOUS
  <2>2. n - 1 \in 0..N
    OBVIOUS
  <2>. QED
    BY <2>1, <2>2, LastForIs
<1>3. g = [n \in 0..N |-> body(g, n)]
  <2>1. \A n \in 0..N : g[n] = body(g, n)
    <3>. TAKE n \in 0..N
    <3>1. n # 0 => n \in 1..N /\ g[0] = <<>>
      BY <1>1
    <3>. QED
      BY <1>2, <3>1
  <2>. QED
    BY <2>1
<1>4. value = [n \in 0..N |-> body(value, n)]
  <2>1. \E f : f = [n \in 0..N |-> body(f, n)]
    BY <1>3
  <2>. QED
    BY <2>1, Zenon
<1>. HIDE DEF value
<1>5. \A n \in 1..N : value[n] = <<lines[n].text>> \o <<>>
  <2>1. value[0] = <<>>
    BY <1>1, <1>4
  <2>2. \A n \in 1..N : value[n] = <<lines[n].text>> \o value[LastFor(lines, lines[n].uses, n - 1)]
    <3>. TAKE n \in 1..N
    <3>1. n \in 0..N /\ n # 0
      BY <1>1
    <3>. QED
      BY <1>4, <3>1
  <2>. QED
    BY <1>2, <2>1, <2>2
<1>6. Sourced(lines) = [key \in Keys(lines) |-> value[LastFor(lines, key, N)]]
  BY DEF Sourced, value
<1>7. \A key \in Keys(lines) :
        value[LastFor(lines, key, N)] = <<Mapped(lines)[key].text>> \o <<>>
  BY <1>5, MappedIs
<1>. QED
  BY <1>6, <1>7

LEMMA SourcedSame ==
  ASSUME NEW L, \A line, other \in L : line.uses # other.key,
         NEW a \in Seq(L), NEW b \in Seq(L), Keys(a) = Keys(b),
         \A key \in Keys(a) : Mapped(a)[key] = Mapped(b)[key]
  PROVE  Sourced(a) = Sourced(b)
BY SourcedIs

-----------------------------------------------------------------------------

LEMMA PartPrimed ==
  ASSUME UNCHANGED recipe
  PROVE  \A file, s, b, R : Part(file, s, b, R)' = Part(file, s, b, R)
<1>1. \A s : Promised!InRoot(s)' = Promised!InRoot(s)
  BY DEF Promised!InRoot
<1>2. \A R, op : Acts(R, op)' = Acts(R, op)
  BY <1>1 DEF Acts
<1>3. \A R : /\ Marks(R)' = Marks(R) /\ Unwanted(R)' = Unwanted(R) /\ Codes(R)' = Codes(R)
             /\ Added(R)' = Added(R) /\ NewKeys(R)' = NewKeys(R)
  BY <1>2 DEF Marks, Unwanted, Codes, Added, NewKeys
<1>. QED
  BY <1>2, <1>3 DEF Part

LEMMA ActsMore ==
  ASSUME NEW R, NEW Q, R \subseteq Q
  PROVE  /\ \A op : Acts(R, op) \subseteq Acts(Q, op)
         /\ Marks(R) \subseteq Marks(Q) /\ Unwanted(R) \subseteq Unwanted(Q)
         /\ Codes(R) \subseteq Codes(Q) /\ Added(R) \subseteq Added(Q)
         /\ NewKeys(R) \subseteq NewKeys(Q)
<1>1. \A op : Acts(R, op) \subseteq Acts(Q, op)
  BY DEF Acts
<1>. QED
  BY <1>1 DEF Marks, Unwanted, Codes, Added, NewKeys

LEMMA PartMore ==
  ASSUME NEW R, NEW Q, R \subseteq Q, NEW file, NEW s, NEW b, Part(file, s, b, R)
  PROVE  Part(file, s, b, Q)
<1>1. \A op : Acts(Q, op) = {} => Acts(R, op) = {}
  BY ActsMore
<1>. QED
  BY <1>1, ActsMore DEF Part

LEMMA PartEqual ==
  ASSUME NEW file, NEW s, NEW b, s[file] = b[file], NEW R
  PROVE  Part(file, s, b, R)
BY DEF Part, SameFor

LEMMA PartThrough ==
  ASSUME NEW R, NEW file, NEW s, NEW t, NEW b, Part(file, s, t, R), Part(file, t, b, R),
         file = "defaults" =>
           {s.defaults.bare, t.defaults.bare, b.defaults.bare} \subseteq BOOLEAN
  PROVE  Part(file, s, b, R)
<1>1. CASE file = "defaults"
  <2>1. \A key : key \notin NewKeys(R) => SameFor(s.defaults.lines, b.defaults.lines, key)
    BY <1>1 DEF Part, SameFor
  <2>2. s.defaults.bare # b.defaults.bare =>
          s.defaults.bare /\ Acts(R, "grub-default-config") # {}
    BY <1>1 DEF Part
  <2>. QED
    BY <1>1, <2>1, <2>2 DEF Part, Replaced
<1>2. CASE file # "defaults"
  BY <1>2 DEF Part
<1>. QED
  BY <1>1, <1>2

LEMMA PartFrame ==
  ASSUME NEW R, NEW Q, NEW file, NEW s, NEW b, NEW t, NEW c, Part(file, s, b, R),
         t[file] = s[file], c[file] = b[file],
         \A op \in Writers(file) : Acts(Q, op) = Acts(R, op)
  PROVE  Part(file, t, c, Q)
<1>1. /\ file = "marks" => Marks(Q) = Marks(R)
      /\ file = "packages" => Unwanted(Q) = Unwanted(R)
      /\ file = "localegen" => Codes(Q) = Codes(R)
      /\ file = "scripts" => Added(Q) = Added(R)
      /\ file = "defaults" =>
           NewKeys(Q) = NewKeys(R)
              /\ Acts(Q, "grub-default-config") = Acts(R, "grub-default-config")
  BY DEF Writers, Marks, Unwanted, Codes, Added, NewKeys
<1>. QED
  BY <1>1 DEF Part

(* What one step adds to the others.                                       *)
LEMMA ActsOne ==
  ASSUME NEW R
  PROVE  /\ \A op : op # step.op \/ ~Promised!InRoot(step) => Acts({at} \cup R, op) = Acts(R, op)
         /\ Promised!InRoot(step) => at \in Acts({at}, step.op) /\ at \in Acts({at} \cup R, step.op)
         /\ step.op = "shell" => Marks({at} \cup R) \subseteq Marks(R) \cup ToSet(step.commands)
         /\ step.op = "pkgremove" => Unwanted({at} \cup R) \subseteq Unwanted(R) \cup step.unwanted
         /\ step.op = "locale" => Codes({at} \cup R) \subseteq Codes(R) \cup {step.code}
         /\ step.op = "grub-add-script" =>
              Added({at} \cup R) \subseteq Added(R) \cup ToSet(step.scripts)
         /\ step.op = "grub-default-config" =>
              NewKeys({at} \cup R) \subseteq NewKeys(R) \cup Keys(step.lines)
<1>1. \A op : Acts({at} \cup R, op) \subseteq Acts(R, op) \cup {at}
  BY DEF Acts, step
<1>2. \A op : op # step.op \/ ~Promised!InRoot(step) => Acts({at} \cup R, op) = Acts(R, op)
  BY DEF Acts, step
<1>3. Promised!InRoot(step) => at \in Acts({at}, step.op) /\ at \in Acts({at} \cup R, step.op)
  BY DEF Acts, step
<1>4. /\ Marks({at} \cup R) \subseteq Marks(R) \cup ToSet(step.commands)
      /\ Unwanted({at} \cup R) \subseteq Unwanted(R) \cup step.unwanted
      /\ Codes({at} \cup R) \subseteq Codes(R) \cup {step.code}
  BY <1>1 DEF Marks, Unwanted, Codes, step
<1>5. /\ Added({at} \cup R) \subseteq Added(R) \cup ToSet(step.scripts)
      /\ NewKeys({at} \cup R) \subseteq NewKeys(R) \cup Keys(step.lines)
  BY <1>1 DEF Added, NewKeys, step
<1>. QED
  BY <1>2, <1>3, <1>4, <1>5

LEMMA WrittenLines ==
  ASSUME TypeInv, Own, LinesKnown, ConfigKnown, pc = "write-config", step.chroot,
         NEW some \in SUBSET DOMAIN config, NEW bare, Rewrites(some, bare)
  PROVE  LET old == root.defaults.lines
             new == root'.defaults.lines
         IN  /\ step.lines \in Seq(Promised!Lines) /\ old \in Seq(Promised!Lines)
             /\ DOMAIN config = Keys(old) \cup Keys(step.lines)
             /\ root'.defaults = [lines |-> new, bare |-> bare]
             /\ new \in Seq(Promised!Lines) /\ Keys(new) = some
             /\ \A key \in some : Mapped(new)[key] = config[key]
             /\ \A key \in Keys(step.lines) : config[key] = Mapped(step.lines)[key]
             /\ \A key \in Keys(old) \ Keys(step.lines) : config[key] = Mapped(old)[key]
<1>. DEFINE old == root.defaults.lines
            all == old \o step.lines
            new == root'.defaults.lines
<1>1. /\ old \in Seq(Promised!Lines) /\ config = Mapped(all)
      /\ step.op = "grub-default-config" /\ at \in 1..Len(recipe.post)
      /\ recipe \in Recipes /\ image \in Images
  <2>1. pc \in Commands
    BY DEF Commands
  <2>. QED
    BY <2>1, InStep DEF LinesKnown, GoodDefaults, ConfigKnown, Own, OperationOf, TypeInv, TypeOK
<1>2. step.lines \in Seq(Promised!Lines)
  BY <1>1, LinesIn DEF step, Promised!InRoot
<1>3. /\ all \in Seq(Promised!Lines) /\ Keys(all) = Keys(old) \cup Keys(step.lines)
      /\ \A key \in Keys(step.lines) : Mapped(all)[key] = Mapped(step.lines)[key]
      /\ \A key \in Keys(old) \ Keys(step.lines) : Mapped(all)[key] = Mapped(old)[key]
  BY <1>1, <1>2, MappedAppended
<1>4. DOMAIN config = Keys(all)
  BY <1>1, <1>3, MappedIs
<1>5. DOMAIN root = Files /\ "defaults" \in Files
  BY RootIsFiles DEF IsFiles, Files
<1>6. PICK order \in SetToSeqs(some) : root' = [root EXCEPT !.defaults =
        [lines |-> [n \in DOMAIN order |-> config[order[n]]], bare |-> bare]]
  BY DEF Rewrites
<1>7. /\ new = [n \in DOMAIN order |-> config[order[n]]]
      /\ root'.defaults = [lines |-> new, bare |-> bare]
  BY <1>5, <1>6
<1>. HIDE DEF new, all
<1>8. /\ new \in Seq(Promised!Lines) /\ Keys(new) = some
      /\ \A key \in some : Mapped(new)[key] = config[key]
  <2>. DEFINE made == [n \in DOMAIN order |-> Mapped(all)[order[n]]]
  <2>1. some \in SUBSET Keys(all)
    BY <1>4
  <2>2. /\ made \in Seq(Promised!Lines) /\ Keys(made) = some
        /\ \A key \in some : Mapped(made)[key] = Mapped(all)[key]
    BY <1>3, <1>6, <2>1, MappedWritten
  <2>3. new = made
    BY <1>1, <1>7
  <2>. QED
    BY <1>1, <2>2, <2>3
<1>. QED
  BY <1>1, <1>2, <1>3, <1>4, <1>7, <1>8 DEF new, all

LEMMA LinesKnownStep ==
  TypeInv /\ Own /\ LinesKnown /\ ConfigKnown /\ [Next]_vars => LinesKnown' /\ ConfigKnown'
<1>. SUFFICES ASSUME TypeInv, Own, LinesKnown, ConfigKnown, [Next]_vars
              PROVE  LinesKnown' /\ ConfigKnown'
  OBVIOUS
<1>f. DOMAIN root = Files /\ "defaults" \in Files /\ "content" \in Files
  BY RootIsFiles DEF IsFiles, Files
<1>k. ASSUME UNCHANGED <<recipe, image>>, root'.defaults = root.defaults PROVE LinesKnown'
  BY <1>k, AfterSame DEF LinesKnown, GoodDefaults
<1>1. CASE RunPostInstall /\ pc \in Commands
  <2>1. OnTo /\ UNCHANGED <<recipe, image>> /\ step.op = OperationOf(pc)
    BY <1>1, CommandLeads DEF Own, OnTo
  <2>2. CASE step.chroot /\ pc = "write-config"
    <3>1. PICK some \in SUBSET DOMAIN config, bare \in BOOLEAN :
            Rewrites(some, bare) /\ pc' \in {"failed", "step"}
      BY <1>1, <2>2, ChrootCommand DEF RootTable, RootConfig
    <3>2. /\ root'.defaults = [lines |-> root'.defaults.lines, bare |-> bare]
          /\ root'.defaults.lines \in Seq(Promised!Lines)
      BY <2>2, <3>1, WrittenLines
    <3>3. LinesKnown'
      BY <2>1, <3>2, AfterSame DEF LinesKnown, GoodDefaults
    <3>. QED
      BY <3>1, <3>3 DEF ConfigKnown
  <2>3. CASE ~(step.chroot /\ pc = "write-config")
    <3>1. root'.defaults = root.defaults
      <4>1. CASE ~(step.chroot /\ pc \in {"grub-default-config", "write-config"})
        <5>1. ~step.chroot \/ step.op # "grub-default-config"
          BY <1>1, <2>1, <4>1 DEF OperationOf, Commands
        <5>. QED
          BY <1>1, <5>1, CommandKeeps
      <4>2. CASE step.chroot /\ pc = "grub-default-config"
        BY <1>1, <4>2, ChrootCommand DEF RootTable, RootConfig, Stays
      <4>. QED
        BY <2>3, <4>1, <4>2
    <3>2. ASSUME pc' = "write-config", step'.chroot PROVE ConfigKnown'
      <4>1. step' = step /\ OperationOf(pc) = "grub-default-config" /\ pc' # pc
        <5>1. pc' \in Commands /\ pc' \notin {"step", "refused", "failed"}
          BY <3>2 DEF Commands
        <5>2. at' = at /\ OperationOf(pc) = OperationOf(pc')
          BY <2>1, <5>1 DEF OnTo
        <5>3. step' = step
          BY <2>1, <5>2 DEF step
        <5>. QED
          BY <2>3, <3>2, <5>2, <5>3 DEF OperationOf
      <4>2. pc = "grub-default-config"
        BY <1>1, <3>2, <4>1 DEF OperationOf, Commands
      <4>3. root' = root /\ ~root.defaults.bare
               /\ config' = Mapped(root.defaults.lines \o step.lines)
        BY <1>1, <3>2, <4>1, <4>2, ChrootCommand DEF RootTable, RootConfig, Stays
      <4>. QED
        BY <4>1, <4>3 DEF ConfigKnown
    <3>. QED
      BY <1>k, <2>1, <3>1, <3>2 DEF ConfigKnown
  <2>. QED
    BY <2>2, <2>3
<1>2. CASE Dispatched \/ Started
  <2>1. /\ UNCHANGED <<recipe, image>> /\ root'.defaults = root.defaults /\ pc' # "write-config"
    BY <1>2, <1>f DEF Dispatched, Started, Firsts, root
  <2>. QED
    BY <1>k, <2>1 DEF ConfigKnown
<1>3. CASE Rests
  <2>1. /\ UNCHANGED <<recipe, image>> /\ pc' # "write-config"
        /\ recipe \in Recipes /\ image \in Images
    BY <1>3 DEF Rests, Resting, Ended, TypeInv, TypeOK
  <2>2. root'.defaults = root.defaults \/ root'.defaults = Blank.defaults
        \/ root'.defaults = image.system.defaults
    BY <1>3, <1>f DEF Rests, Overlay
  <2>3. ASSUME NEW d \in {Blank.defaults, image.system.defaults}, root'.defaults = d
        PROVE  LinesKnown'
    <3>1. d = [lines |-> d.lines, bare |-> d.bare] /\ d.bare \in BOOLEAN
      <4>1. CASE d = Blank.defaults
        BY <4>1, BlankAssumption
      <4>2. CASE d = image.system.defaults
        <5>1. image.system.defaults = [lines |-> image.system.defaults.lines,
                                       bare |-> image.system.defaults.bare]
              /\ image.system.defaults.bare \in BOOLEAN
          BY <2>1, ImagesAssumption
        <5>. QED
          BY <4>2, <5>1
      <4>. QED
        BY <4>1, <4>2
    <3>2. d.lines \in Seq(Promised!Lines)
      <4>1. Blank.defaults.lines = <<>> /\ <<>> \in Seq(Promised!Lines)
        BY BlankAssumption
      <4>2. image.system.defaults.lines \in Seq(Promised!Lines)
        BY <2>1, LinesIn
      <4>. QED
        BY <4>1, <4>2
    <3>. QED
      BY <2>1, <2>3, <3>1, <3>2, AfterSame DEF LinesKnown, GoodDefaults
  <2>. QED
    BY <1>k, <2>1, <2>2, <2>3 DEF ConfigKnown
<1>4. CASE UNCHANGED vars
  <2>1. UNCHANGED <<recipe, image, pc>> /\ root' = root /\ step' = step /\ config' = config
    BY <1>4 DEF vars, root, step
  <2>. QED
    BY <1>k, <2>1 DEF ConfigKnown
<1>. QED
  BY <1>1, <1>2, <1>3, <1>4, StepKinds

LEMMA HalfwayStep == TypeInv /\ Own /\ Halfway /\ [Next]_vars => Halfway'
<1>. SUFFICES ASSUME TypeInv, Own, Halfway, [Next]_vars PROVE Halfway'
  OBVIOUS
<1>f. DOMAIN root = Files
  BY RootIsFiles DEF IsFiles
<1>c. \A p \in {"step", "refused", "failed", "idle", "done", "setup", "mount", "copy", "tables"} :
        pc' = p => HalfwayFiles' /\ HalfwayLoops' /\ pc' # "efibootmgr"
  BY DEF HalfwayFiles, HalfwayLoops
<1>1. CASE RunPostInstall /\ pc \in Commands
  <2>1. OnTo /\ step.op = OperationOf(pc) /\ UNCHANGED recipe
    BY <1>1, CommandLeads DEF Own, OnTo
  <2>2. CASE pc' \in {"step", "refused", "failed"}
    BY <1>c, <2>2 DEF Halfway
  <2>3. CASE pc' \in Commands
    <3>1. /\ at' = at /\ step' = step /\ OperationOf(pc') = OperationOf(pc)
          /\ Promised!InRoot(step)' = Promised!InRoot(step)
      BY <2>1, <2>3, CommandNames DEF OnTo, step, Ended, Commands, Promised!InRoot
    <3>2. ASSUME step.chroot PROVE HalfwayFiles'
      <4>1. RootTable
        BY <1>1, <3>2, ChrootCommand
      <4>. USE DEF OperationOf, Commands, RootTable, RootFiles, RootUsers, Becomes, Stays
      <4>2. pc' = "localtime" => root'.timezone = step.tz
        <5>1. pc' = "localtime" => pc \in {"timezone", "localtime"}
          BY <1>1, <3>1
        <5>2. pc' = "localtime" => root' = [root EXCEPT !.timezone = step.tz]
          BY <4>1, <5>1, Zenon
        <5>. QED
          BY <1>f, <5>2 DEF Files
      <4>3. pc' = "hosts" => root'.hostname = step.name
        <5>1. pc' = "hosts" => pc \in {"hostname", "hosts"}
          BY <1>1, <3>1
        <5>2. pc' = "hosts" => root' = [root EXCEPT !.hostname = step.name]
          BY <4>1, <5>1, Zenon
        <5>. QED
          BY <1>f, <5>2 DEF Files
      <4>4. pc' = "setupcon" => root'.keyboard = step.layout
        <5>1. pc' = "setupcon" => pc \in {"keyboard", "setupcon"}
          BY <1>1, <3>1
        <5>2. pc' = "setupcon" => root' = [root EXCEPT !.keyboard = step.layout]
          BY <4>1, <5>1, Zenon
        <5>. QED
          BY <1>f, <5>2 DEF Files
      <4>5. pc' = "locale-gen" => step.code \in root'.localegen
        <5>1. pc' = "locale-gen" => pc \in {"grep", "sed", "locale-gen", "default-locale"}
          BY <1>1, <3>1
        <5>2. pc' = "locale-gen" => root' = [root EXCEPT !.localegen = @ \cup {step.code}]
          BY <4>1, <5>1, Zenon
        <5>. QED
          BY <1>f, <5>2 DEF Files
      <4>6. pc' = "default-locale" =>
              step.code \in root'.localegen /\ root'.locales = root'.localegen
        <5>1. pc' = "default-locale" => pc \in {"grep", "sed", "locale-gen", "default-locale"}
          BY <1>1, <3>1
        <5>2. pc' = "default-locale" =>
                pc = "locale-gen" /\ root' = [root EXCEPT !.locales = root.localegen]
          BY <4>1, <5>1, Zenon
        <5>3. pc = "locale-gen" => step.code \in root.localegen
          BY <3>2 DEF Halfway, HalfwayFiles
        <5>. QED
          BY <1>f, <5>2, <5>3 DEF Files
      <4>. QED
        BY <3>1, <4>2, <4>3, <4>4, <4>5, <4>6 DEF HalfwayFiles
    <3>3. ASSUME step.chroot, pc' = "shell" \/ pc' = "grub-remove-script" PROVE HalfwayLoops'
      <4>1. pc = pc' /\ pc \in Loops /\ step.op = pc
        BY <1>1, <2>1, <3>1, <3>3 DEF OperationOf, Commands, Loops
      <4>2. Earlier' = Earlier \cup {Arguments(step)[arg]}
        <5>1. arg' = arg + 1
          BY <2>1, <2>3, <4>1, CommandNames DEF OnTo, Ended, Commands
        <5>. QED
          BY <2>1, <3>1, <4>1, <5>1, EarlierGrows
      <4>3. RootTable
        BY <1>1, <3>3, ChrootCommand
      <4>4. CASE pc = "shell"
        <5>1. root' = [root EXCEPT !.marks = @ \cup {Arguments(step)[arg]}]
          BY <4>3, <4>4 DEF RootTable, RootFiles
        <5>2. Earlier \subseteq root.marks
          BY <3>3, <4>4 DEF Halfway, HalfwayLoops
        <5>. QED
          BY <1>f, <4>1, <4>2, <4>4, <5>1, <5>2 DEF HalfwayLoops, Files
      <4>5. CASE pc = "grub-remove-script"
        <5>1. root' = [root EXCEPT !.scripts = @ \ {Arguments(step)[arg]}]
          BY <4>1, <4>3, <4>5 DEF RootTable, RootConfig, Stays
        <5>2. Earlier \cap root.scripts = {}
          BY <3>3, <4>5 DEF Halfway, HalfwayLoops
        <5>. QED
          BY <1>f, <4>1, <4>2, <4>5, <5>1, <5>2 DEF HalfwayLoops, Files
      <4>. QED
        BY <3>3, <4>1, <4>4, <4>5
    <3>4. ASSUME pc' = "efibootmgr", Promised!InRoot(step) PROVE root'.loader = step.target
      <4>1. pc = "grub-install"
        BY <2>1, <3>4 DEF OnTo
      <4>2. root' = [root EXCEPT !.loader = step.target]
        <5>1. CASE step.chroot
          BY <1>1, <4>1, <5>1, ChrootCommand DEF RootTable, RootGrub, Becomes
        <5>2. CASE ~step.chroot
          BY <1>1, <3>4, <4>1, <5>2, HostCommand DEF Promised!InRoot
        <5>. QED
          BY <5>1, <5>2
      <4>. QED
        BY <1>f, <4>2 DEF Files
    <3>5. step.chroot => HalfwayLoops'
      BY <3>3 DEF HalfwayLoops
    <3>. QED
      BY <3>1, <3>2, <3>4, <3>5 DEF Halfway
  <2>. QED
    BY <2>1, <2>2, <2>3 DEF OnTo
<1>2. CASE Dispatched
  <2>1. arg' = 1 /\ pc' \in Firsts \cup {"step"}
    BY <1>2 DEF Dispatched
  <2>2. Earlier' = {}
    BY <2>1 DEF Earlier
  <2>. QED
    BY <2>1, <2>2 DEF Firsts, Halfway, HalfwayFiles, HalfwayLoops
<1>3. CASE Started \/ Rests
  BY <1>3, <1>c DEF Started, Rests, Resting, Ended, Halfway
<1>4. CASE UNCHANGED vars
  <2>1. UNCHANGED <<pc, arg, recipe>> /\ root' = root /\ step' = step
    BY <1>4 DEF vars, root, step
  <2>2. Earlier' = Earlier
    BY <2>1 DEF Earlier, Arguments
  <2>3. Promised!InRoot(step)' = Promised!InRoot(step)
    BY <2>1 DEF Promised!InRoot
  <2>. QED
    BY <2>1, <2>2, <2>3 DEF Halfway, HalfwayFiles, HalfwayLoops
<1>. QED
  BY <1>1, <1>2, <1>3, <1>4, StepKinds

(* What the root has of a step after the last of its commands.             *)
Completes ==
  /\ step.op = "timezone" => root'.timezone = step.tz /\ root'.localtime = step.tz
  /\ step.op = "hostname" => root'.hostname = step.name /\ root'.hosts = step.name
  /\ step.op = "keyboard" => root'.keyboard = step.layout /\ root'.console = step.layout
  /\ step.op = "locale" => /\ step.code \in root.localegen /\ root'.localegen = root.localegen
                           /\ root'.locales = root.localegen /\ root'.locale = step.code
  /\ step.op = "pkgremove" => root'.packages = root.packages \ step.unwanted
  /\ step.op = "shell" => root'.marks = root.marks \cup ToSet(step.commands)
  /\ step.op = "grub-install" => root'.loader = step.target
  /\ step.op = "grub-default-config" => pc = "write-config" /\ Rewrites(DOMAIN config, FALSE)
  /\ step.op = "grub-add-script" => root'.scripts \subseteq root.scripts \cup ToSet(step.scripts)
  /\ step.op = "grub-remove-script" => root'.scripts \subseteq root.scripts \ ToSet(step.scripts)
  /\ step.op = "grub-mkconfig" =>
       root'.menu = [settings |-> Sourced(root.defaults.lines), scripts |-> root.scripts]

LEMMA StepDone ==
  ASSUME TypeInv, Own, Halfway, RunPostInstall, pc \in Commands, pc' = "step",
         Promised!InRoot(step)
  PROVE  Completes
<1>1. step.op = OperationOf(pc) /\ DOMAIN root = Files /\ IsStep(step)
  BY RootIsFiles, InStep DEF IsFiles, Own
<1>2. CASE step.op = "grub-install"
  <2>1. pc \in {"bind", "target", "grub-install", "efibootmgr"}
    BY <1>1, <1>2 DEF OperationOf, Commands
  <2>2. CASE step.chroot
    <3>1. \/ pc = "grub-install" /\ root' = [root EXCEPT !.loader = step.target]
          \/ pc = "efibootmgr" /\ root' = root
      BY <2>1, <2>2, ChrootCommand DEF RootTable, RootGrub, Becomes, Stays
    <3>2. root'.loader = step.target
      BY <1>1, <3>1 DEF Halfway, Files
    <3>. QED
      BY <1>2, <3>2 DEF Completes
  <2>3. CASE ~step.chroot
    <3>1. pc \in {"grub-install", "efibootmgr"}
      <4>1. OnTo
        BY CommandLeads
      <4>. QED
        BY <2>1, <4>1 DEF OnTo
    <3>2. root' = IF pc = "grub-install" THEN [root EXCEPT !.loader = step.target] ELSE root
      BY <1>2, <2>3, HostCommand DEF Promised!InRoot
    <3>3. root'.loader = step.target
      BY <1>1, <3>1, <3>2 DEF Halfway, Files
    <3>. QED
      BY <1>2, <3>3 DEF Completes
  <2>. QED
    BY <2>2, <2>3
<1>3. CASE step.op # "grub-install"
  <2>1. step.chroot /\ RootTable /\ HalfwayFiles /\ HalfwayLoops
    BY <1>3, ChrootCommand DEF Promised!InRoot, Halfway
  <2>. USE DEF OperationOf, Commands, RootTable, RootFiles, RootConfig, RootGrub,
     Becomes, Stays,
         HalfwayFiles, HalfwayLoops
  <2>2. CASE step.op = "timezone"
    <3>1. pc \in {"timezone", "localtime"}
      BY <1>1, <2>2
    <3>2. root.timezone = step.tz /\ root' = [root EXCEPT !.localtime = step.tz]
      BY <2>1, <3>1
    <3>3. root'.timezone = step.tz /\ root'.localtime = step.tz
      BY <1>1, <3>2 DEF Files
    <3>. QED
      BY <2>2, <3>3 DEF Completes
  <2>3. CASE step.op = "hostname"
    <3>1. pc \in {"hostname", "hosts"}
      BY <1>1, <2>3
    <3>2. root.hostname = step.name /\ root' = [root EXCEPT !.hosts = step.name]
      BY <2>1, <3>1
    <3>3. root'.hostname = step.name /\ root'.hosts = step.name
      BY <1>1, <3>2 DEF Files
    <3>. QED
      BY <2>3, <3>3 DEF Completes
  <2>4. CASE step.op = "keyboard"
    <3>1. pc \in {"keyboard", "setupcon"}
      BY <1>1, <2>4
    <3>2. root.keyboard = step.layout /\ root' = [root EXCEPT !.console = root.keyboard]
      BY <2>1, <3>1
    <3>3. root'.keyboard = step.layout /\ root'.console = step.layout
      BY <1>1, <3>2 DEF Files
    <3>. QED
      BY <2>4, <3>3 DEF Completes
  <2>5. CASE step.op = "locale"
    <3>1. pc \in {"grep", "sed", "locale-gen", "default-locale"}
      BY <1>1, <2>5
    <3>2. /\ step.code \in root.localegen /\ root.locales = root.localegen
          /\ root' = [root EXCEPT !.locale = step.code]
      BY <2>1, <3>1
    <3>3. /\ root'.localegen = root.localegen /\ root'.locales = root.localegen
          /\ root'.locale = step.code
      BY <1>1, <3>2 DEF Files
    <3>. QED
      BY <2>5, <3>2, <3>3 DEF Completes
  <2>6. CASE step.op = "pkgremove"
    <3>1. root' = [root EXCEPT !.packages = @ \ step.unwanted]
      BY <1>1, <2>1, <2>6
    <3>2. root'.packages = root.packages \ step.unwanted
      BY <1>1, <3>1 DEF Files
    <3>. QED
      BY <2>6, <3>2 DEF Completes
  <2>7. CASE step.op \in Loops
    <3>1. pc = step.op /\ pc \in Loops
      BY <1>1, <2>7 DEF Loops
    <3>2. NextRoundOr("step") => ToSet(Arguments(step)) = Earlier \cup {Arguments(step)[arg]}
      BY <3>1, EarlierGrows, CommandNames DEF NextRoundOr
    <3>3. CASE pc = "shell"
      <4>1. root'.marks = root.marks \cup {Arguments(step)[arg]}
        BY <1>1, <2>1, <3>3 DEF Files
      <4>2. ToSet(step.commands) = Earlier \cup {Arguments(step)[arg]}
               /\ Earlier \subseteq root.marks
        BY <2>1, <3>1, <3>2, <3>3 DEF Arguments
      <4>3. root'.marks = root.marks \cup ToSet(step.commands)
        BY <4>1, <4>2
      <4>. QED
        BY <3>1, <3>3, <4>3 DEF Completes
    <3>4. CASE pc = "grub-add-script"
      <4>1. root'.scripts = root.scripts \cup {Arguments(step)[arg]}
        BY <1>1, <2>1, <3>4 DEF Files
      <4>2. ToSet(step.scripts) = Earlier \cup {Arguments(step)[arg]}
        BY <2>1, <3>1, <3>2, <3>4 DEF Arguments
      <4>. QED
        BY <3>1, <3>4, <4>1, <4>2 DEF Completes
    <3>5. CASE pc = "grub-remove-script"
      <4>1. NextRoundOr("step") /\ root'.scripts = root.scripts \ {Arguments(step)[arg]}
        BY <1>1, <2>1, <3>5 DEF Files
      <4>2. ToSet(step.scripts) = Earlier \cup {Arguments(step)[arg]}
            /\ Earlier \cap root.scripts = {}
        BY <2>1, <3>1, <3>2, <3>5, <4>1 DEF Arguments
      <4>3. root'.scripts \subseteq root.scripts \ ToSet(step.scripts)
        BY <4>1, <4>2
      <4>. QED
        BY <3>1, <3>5, <4>3 DEF Completes
    <3>. QED
      BY <3>1, <3>3, <3>4, <3>5 DEF Loops
  <2>8. CASE step.op = "grub-default-config"
    <3>1. pc \in {"grub-default-config", "write-config"}
      BY <1>1, <2>8
    <3>2. pc = "write-config" /\ Rewrites(DOMAIN config, FALSE)
      BY <2>1, <3>1
    <3>. QED
      BY <2>8, <3>2 DEF Completes
  <2>9. CASE step.op = "grub-mkconfig"
    <3>1. root' = [root EXCEPT !.menu =
            [settings |-> Sourced(root.defaults.lines), scripts |-> root.scripts]]
      BY <1>1, <2>1, <2>9
    <3>2. root'.menu = [settings |-> Sourced(root.defaults.lines), scripts |-> root.scripts]
      BY <1>1, <3>1 DEF Files
    <3>. QED
      BY <2>9, <3>2 DEF Completes
  <2>10. CASE step.op \in {"adduser", "swapon"}
    BY <2>10 DEF Completes
  <2>. QED
    BY <1>1, <1>3, <2>2, <2>3, <2>4, <2>5, <2>6, <2>7, <2>8, <2>9, <2>10
    DEF IsStep, Operations, Loops
<1>. QED
  BY <1>2, <1>3

LEMMA EffectFrame ==
  ASSUME NEW s, NEW x, NEW e, EffectTable(s, x, e), NEW file \in Files, x.op \notin Writers(file)
  PROVE  e[file] = s[file]
BY DEF EffectTable, If, Files, Writers

(* The settings of two systems that differ in no key are the same to a     *)
(* shell.                                                                  *)
LEMMA SourcedAlike ==
  ASSUME Promised!Independent, NEW a \in Seq(Promised!Lines), NEW b \in Seq(Promised!Lines),
         \A key : SameFor(a, b, key)
  PROVE  Sourced(a) = Sourced(b)
<1>1. \A line, other \in Promised!Lines : line.uses # other.key
  BY DEF Promised!Independent
<1>2. Keys(a) = Keys(b) /\ \A key \in Keys(a) : Mapped(a)[key] = Mapped(b)[key]
  BY DEF SameFor
<1>. HIDE DEF Promised!Lines
<1>. QED
  BY <1>1, <1>2, SourcedSame

(* With its last command, a step is no longer one of those that make the   *)
(* root differ.                                                            *)
LEMMA DefaultsDone ==
  ASSUME TypeInv, Own, LinesKnown, ConfigKnown, Completes, EffectTable(base, step, base'),
         Promised!InRoot(step), step.op = "grub-default-config", GoodDefaults(base.defaults),
         base.defaults.bare \in BOOLEAN, NEW D, Part("defaults", root, base, {at} \cup D)
  PROVE  Part("defaults", root', base', D)
<1>. DEFINE old == root.defaults.lines
            new == root'.defaults.lines
            was == base.defaults.lines
            now == base'.defaults.lines
<1>1. pc = "write-config" /\ Rewrites(DOMAIN config, FALSE) /\ step.chroot
  BY DEF Completes, Promised!InRoot
<1>2. /\ step.lines \in Seq(Promised!Lines)
      /\ DOMAIN config = Keys(old) \cup Keys(step.lines)
      /\ root'.defaults = [lines |-> new, bare |-> FALSE] /\ Keys(new) = DOMAIN config
      /\ \A key \in DOMAIN config : Mapped(new)[key] = config[key]
      /\ \A key \in Keys(step.lines) : config[key] = Mapped(step.lines)[key]
      /\ \A key \in Keys(old) \ Keys(step.lines) : config[key] = Mapped(old)[key]
  BY <1>1, WrittenLines
<1>3. base'.defaults = [base.defaults EXCEPT !.lines = was \o step.lines]
  BY DEF EffectTable, If
<1>4. /\ was \in Seq(Promised!Lines) /\ now = was \o step.lines
      /\ base'.defaults.bare = base.defaults.bare
  <2>1. was \in Seq(Promised!Lines) /\ base.defaults = [lines |-> was, bare |-> base.defaults.bare]
    BY DEF GoodDefaults
  <2>. QED
    BY <1>3, <2>1
<1>5. /\ Keys(now) = Keys(was) \cup Keys(step.lines)
      /\ \A key \in Keys(step.lines) : Mapped(now)[key] = Mapped(step.lines)[key]
      /\ \A key \in Keys(was) \ Keys(step.lines) : Mapped(now)[key] = Mapped(was)[key]
  BY <1>2, <1>4, MappedAppended
<1>6. NewKeys({at} \cup D) \subseteq NewKeys(D) \cup Keys(step.lines)
  BY ActsOne
<1>7. /\ \A key : key \notin NewKeys({at} \cup D) => SameFor(old, was, key)
      /\ root.defaults.bare # base.defaults.bare => root.defaults.bare
  BY DEF Part
<1>8. base'.defaults.bare = FALSE /\ root'.defaults.bare = FALSE
  BY <1>1, <1>2, <1>4, <1>7 DEF ConfigKnown, LinesKnown
<1>. HIDE DEF old, new, was, now
<1>9. ASSUME NEW key, key \notin NewKeys(D) PROVE SameFor(new, now, key)
  <2>1. CASE key \in Keys(step.lines)
    BY <1>2, <1>5, <2>1 DEF SameFor
  <2>2. CASE key \notin Keys(step.lines)
    <3>1. SameFor(old, was, key)
      BY <1>6, <1>7, <1>9, <2>2
    <3>. QED
      BY <1>2, <1>5, <2>2, <3>1 DEF SameFor
  <2>. QED
    BY <2>1, <2>2
<1>. QED
  BY <1>8, <1>9 DEF Part, Replaced, new, now

LEMMA MenuDone ==
  ASSUME LinesKnown, Completes, EffectTable(base, step, base'), Promised!Independent,
         step.op = "grub-mkconfig", GoodDefaults(base.defaults),
         base.scripts \subseteq root.scripts,
         NEW D, \A op \in {"grub-default-config", "grub-add-script"} : Acts(D, op) = {},
         Part("defaults", root, base, {at} \cup D), Part("scripts", root, base, {at} \cup D)
  PROVE  root'.menu = base'.menu
<1>1. \A op \in {"grub-default-config", "grub-add-script"} : Acts({at} \cup D, op) = {}
  BY ActsOne
<1>2. NewKeys({at} \cup D) = {} /\ Added({at} \cup D) = {}
  BY <1>1 DEF NewKeys, Added
<1>3. \A key : SameFor(root.defaults.lines, base.defaults.lines, key)
  BY <1>2 DEF Part
<1>4. Sourced(root.defaults.lines) = Sourced(base.defaults.lines)
  BY <1>3, SourcedAlike DEF LinesKnown, GoodDefaults
<1>5. root.scripts = base.scripts
  BY <1>2 DEF Part
<1>. QED
  BY <1>4, <1>5 DEF Completes, EffectTable, If

LEMMA PartDone ==
  ASSUME TypeInv, Own, LinesKnown, ConfigKnown, Completes, EffectTable(base, step, base'),
         Promised!InRoot(step), Promised!Independent, GoodDefaults(base.defaults),
         base.defaults.bare \in BOOLEAN, step.op = "grub-mkconfig" =>
            base.scripts \subseteq root.scripts,
         \A file \in Files : step.op \notin Writers(file) => root'[file] = root[file],
         NEW D, Like(Files, root, base, {at} \cup D),
         step.op = "grub-mkconfig" =>
           \A op \in {"grub-default-config", "grub-add-script"} : Acts(D, op) = {}
  PROVE  Like(Files, root', base', D)
<1>. SUFFICES ASSUME NEW file \in Files PROVE Part(file, root', base', D)
  BY DEF Like
<1>p. \A f \in Files : Part(f, root, base, {at} \cup D)
  BY DEF Like
<1>1. CASE step.op \notin Writers(file)
  <2>1. root'[file] = root[file] /\ base'[file] = base[file]
    BY <1>1, EffectFrame
  <2>2. \A op \in Writers(file) : Acts(D, op) = Acts({at} \cup D, op)
    BY <1>1, ActsOne
  <2>. QED
    BY <1>p, <2>1, <2>2, PartFrame
<1>2. CASE file \in {"timezone", "localtime", "hostname", "hosts", "keyboard", "console", "locale",
                     "loader"} /\ step.op \in Writers(file)
  <2>1. root'[file] = base'[file]
    BY <1>2 DEF Writers, Completes, EffectTable, If
  <2>. QED
    BY <2>1, PartEqual
<1>3. CASE file \in {"localegen", "locales"} /\ step.op \in Writers(file)
  <2>1. step.op = "locale" /\ "localegen" \in Files
    BY <1>3 DEF Writers, Files
  <2>2. /\ base.localegen \subseteq root.localegen
        /\ root.localegen \subseteq base.localegen \cup Codes({at} \cup D)
    BY <1>p, <2>1 DEF Part
  <2>3. Codes({at} \cup D) \subseteq Codes(D) \cup {step.code}
    BY <2>1, ActsOne
  <2>4. /\ base'.localegen = base.localegen \cup {step.code}
        /\ base'.locales = base.localegen \cup {step.code}
        /\ step.code \in root.localegen
        /\ root'.localegen = root.localegen /\ root'.locales = root.localegen
    BY <2>1 DEF Completes, EffectTable, If
  <2>5. CASE file = "localegen"
    BY <2>2, <2>3, <2>4, <2>5 DEF Part, Replaced
  <2>6. CASE file = "locales"
    <3>1. ASSUME \A op \in Writers(file) : Acts(D, op) = {} PROVE root'.locales = base'.locales
      <4>1. Codes(D) = {}
        BY <2>6, <3>1 DEF Writers, Codes
      <4>. QED
        BY <2>2, <2>3, <2>4, <4>1
    <3>. QED
      BY <2>6, <3>1 DEF Part
  <2>. QED
    BY <1>3, <2>5, <2>6
<1>4. CASE file = "marks" /\ step.op \in Writers(file)
  <2>1. step.op = "shell"
    BY <1>4 DEF Writers
  <2>2. Marks({at} \cup D) \subseteq Marks(D) \cup ToSet(step.commands)
    BY <2>1, ActsOne
  <2>3. /\ root'.marks = root.marks \cup ToSet(step.commands)
        /\ base'.marks = base.marks \cup ToSet(step.commands)
    BY <2>1 DEF Completes, EffectTable, If
  <2>4. base.marks \subseteq root.marks /\ root.marks \subseteq base.marks \cup Marks({at} \cup D)
    BY <1>p, <1>4 DEF Part
  <2>. QED
    BY <1>4, <2>2, <2>3, <2>4 DEF Part, Replaced
<1>5. CASE file = "packages" /\ step.op \in Writers(file)
  <2>1. step.op = "pkgremove"
    BY <1>5 DEF Writers
  <2>2. Unwanted({at} \cup D) \subseteq Unwanted(D) \cup step.unwanted
    BY <2>1, ActsOne
  <2>3. /\ root'.packages = root.packages \ step.unwanted
        /\ base'.packages = base.packages \ step.unwanted
    BY <2>1 DEF Completes, EffectTable, If
  <2>4. /\ root.packages \subseteq base.packages
        /\ base.packages \subseteq root.packages \cup Unwanted({at} \cup D)
    BY <1>p, <1>5 DEF Part
  <2>. QED
    BY <1>5, <2>2, <2>3, <2>4 DEF Part, Replaced
<1>6. CASE file = "scripts" /\ step.op \in Writers(file)
  <2>1. root.scripts \subseteq base.scripts \cup Added({at} \cup D)
    BY <1>p, <1>6 DEF Part
  <2>2. CASE step.op = "grub-add-script"
    <3>1. Added({at} \cup D) \subseteq Added(D) \cup ToSet(step.scripts)
      BY <2>2, ActsOne
    <3>2. /\ root'.scripts \subseteq root.scripts \cup ToSet(step.scripts)
          /\ base'.scripts = base.scripts \cup ToSet(step.scripts)
      BY <2>2 DEF Completes, EffectTable
    <3>. QED
      BY <1>6, <2>1, <3>1, <3>2 DEF Part, Replaced
  <2>3. CASE step.op = "grub-remove-script"
    <3>1. Added({at} \cup D) = Added(D)
      <4>1. Acts({at} \cup D, "grub-add-script") = Acts(D, "grub-add-script")
        BY <2>3, ActsOne
      <4>. QED
        BY <4>1 DEF Added
    <3>2. /\ root'.scripts \subseteq root.scripts \ ToSet(step.scripts)
          /\ base'.scripts = base.scripts \ ToSet(step.scripts)
      BY <2>3 DEF Completes, EffectTable
    <3>. QED
      BY <1>6, <2>1, <3>1, <3>2 DEF Part, Replaced
  <2>. QED
    BY <1>6, <2>2, <2>3 DEF Writers
<1>7. CASE file = "defaults" /\ step.op \in Writers(file)
  <2>1. step.op = "grub-default-config"
    BY <1>7 DEF Writers
  <2>. QED
    BY <1>7, <1>p, <2>1, DefaultsDone
<1>8. CASE file = "menu" /\ step.op \in Writers(file)
  <2>1. step.op = "grub-mkconfig" /\ {"defaults", "scripts"} \subseteq Files
    BY <1>8 DEF Writers, Files
  <2>2. root'.menu = base'.menu
    BY <1>p, <2>1, MenuDone
  <2>. QED
    BY <1>8, <2>2, PartEqual
<1>9. CASE file \in {"users", "content"}
  BY <1>9 DEF Part, Replaced
<1>. QED
  BY <1>1, <1>2, <1>3, <1>4, <1>5, <1>6, <1>7, <1>8, <1>9 DEF Files

(* A command of a step makes no other difference than the step's.          *)
LEMMA CommandLike ==
  ASSUME TypeInv, Own, LinesKnown, ConfigKnown, RunPostInstall, pc \in Commands, pc' # "failed",
         NEW file \in Files
  PROVE  Part(file, root', root, {at})
<1>0. DOMAIN root = Files /\ step.op = OperationOf(pc) /\ IsStep(step)
  BY RootIsFiles, InStep DEF IsFiles, Own
<1>1. CASE ~Promised!InRoot(step) \/ step.op \notin Writers(file)
  <2>1. root'[file] = root[file]
    BY <1>1, CommandFrame
  <2>. QED
    BY <2>1, PartEqual
<1>2. CASE Promised!InRoot(step) /\ step.op \in Writers(file)
  <2>1. at \in Acts({at}, step.op)
    BY <1>2, ActsOne
  <2>2. CASE file \in Replaced
    BY <1>2, <2>1, <2>2 DEF Part, Replaced
  <2>3. CASE file \in {"users", "content"}
    BY <2>3 DEF Part, Replaced
  <2>4. CASE file \in {"marks", "packages", "localegen", "scripts", "defaults"}
    <3>1. step.chroot /\ RootTable
      <4>1. step.op # "grub-install"
        BY <1>2, <2>4 DEF Writers
      <4>. QED
        BY <1>2, <4>1, ChrootCommand DEF Promised!InRoot
    <3>. USE DEF RootTable, RootFiles, RootConfig, Becomes, Stays, OperationOf, Commands
    <3>2. CASE file \in {"marks", "scripts"}
      <4>1. step.op \in Loops /\ pc = step.op
        BY <1>0, <1>2, <3>2 DEF Writers, Loops
      <4>2. Arguments(step)[arg] \in ToSet(Arguments(step))
        <5>1. arg \in 1..Len(Arguments(step)) /\ Arguments(step) \in Seq(ToSet(Arguments(step)))
          BY <1>0, <4>1 DEF TypeInv, TypeOK, Loops, IsStep, IsList
        <5>. QED
          BY <5>1
      <4>3. CASE pc = "shell"
        <5>1. file = "marks" /\ root'.marks = root.marks \cup {Arguments(step)[arg]}
          BY <1>0, <1>2, <3>1, <3>2, <4>1, <4>3 DEF Writers, Files
        <5>2. ToSet(step.commands) \subseteq Marks({at})
          BY <2>1, <4>1, <4>3 DEF Marks, step
        <5>3. Arguments(step)[arg] \in Marks({at})
          BY <4>1, <4>2, <4>3, <5>2 DEF Arguments
        <5>. QED
          BY <5>1, <5>3 DEF Part, Replaced
      <4>4. CASE pc = "grub-add-script"
        <5>1. file = "scripts" /\ root'.scripts = root.scripts \cup {Arguments(step)[arg]}
          BY <1>0, <1>2, <3>1, <3>2, <4>1, <4>4 DEF Writers, Files
        <5>2. ToSet(step.scripts) \subseteq Added({at})
          BY <2>1, <4>1, <4>4 DEF Added, step
        <5>3. Arguments(step)[arg] \in Added({at})
          BY <4>1, <4>2, <4>4, <5>2 DEF Arguments
        <5>. QED
          BY <5>1, <5>3 DEF Part, Replaced
      <4>5. CASE pc = "grub-remove-script"
        <5>1. file = "scripts" /\ root'.scripts \subseteq root.scripts
          BY <1>0, <1>2, <3>1, <3>2, <4>1, <4>5 DEF Writers, Files
        <5>. QED
          BY <5>1 DEF Part, Replaced
      <4>. QED
        BY <4>1, <4>3, <4>4, <4>5 DEF Loops
    <3>3. CASE file = "packages"
      <4>1. step.op = "pkgremove" /\ pc = "pkgremove"
        BY <1>0, <1>2, <3>3 DEF Writers
      <4>2. root'.packages = root.packages \ step.unwanted
        BY <1>0, <3>1, <4>1 DEF Files
      <4>3. step.unwanted \subseteq Unwanted({at})
        BY <2>1, <4>1 DEF Unwanted, step
      <4>. QED
        BY <3>3, <4>2, <4>3 DEF Part, Replaced
    <3>4. CASE file = "localegen"
      <4>1. step.op = "locale" /\ pc \in {"grep", "sed", "locale-gen", "default-locale"}
        BY <1>0, <1>2, <3>4 DEF Writers
      <4>2. root'.localegen = root.localegen \/ root'.localegen = root.localegen \cup {step.code}
        BY <1>0, <3>1, <4>1 DEF Files
      <4>3. step.code \in Codes({at})
        BY <2>1, <4>1 DEF Codes, step
      <4>. QED
        BY <3>4, <4>2, <4>3 DEF Part, Replaced
    <3>5. CASE file = "defaults"
      <4>1. step.op = "grub-default-config" /\ pc \in {"grub-default-config", "write-config"}
        BY <1>0, <1>2, <3>5 DEF Writers
      <4>2. CASE pc = "grub-default-config"
        <5>1. root' = root
          BY <3>1, <4>2
        <5>. QED
          BY <5>1, PartEqual
      <4>3. CASE pc = "write-config"
        <5>1. Rewrites(DOMAIN config, FALSE)
          BY <3>1, <4>3
        <5>2. /\ Keys(root'.defaults.lines) = Keys(root.defaults.lines) \cup Keys(step.lines)
              /\ root'.defaults = [lines |-> root'.defaults.lines, bare |-> FALSE]
              /\ \A key \in Keys(root.defaults.lines) \ Keys(step.lines) :
                   Mapped(root'.defaults.lines)[key] = Mapped(root.defaults.lines)[key]
          BY <3>1, <4>3, <5>1, WrittenLines
        <5>3. Keys(step.lines) \subseteq NewKeys({at})
          BY <2>1, <4>1 DEF NewKeys, step
        <5>4. \A key : key \notin NewKeys({at}) =>
                SameFor(root'.defaults.lines, root.defaults.lines, key)
          BY <5>2, <5>3 DEF SameFor
        <5>5. root'.defaults.bare = root.defaults.bare
          <6>1. root.defaults.bare = FALSE
            BY <3>1, <4>3 DEF ConfigKnown, LinesKnown
          <6>2. root'.defaults.bare = FALSE
            BY <5>2
          <6>. QED
            BY <6>1, <6>2
        <5>. QED
          BY <3>5, <5>4, <5>5 DEF Part, Replaced
      <4>. QED
        BY <4>1, <4>2, <4>3
    <3>. QED
      BY <2>4, <3>2, <3>3, <3>4, <3>5
  <2>. QED
    BY <2>2, <2>3, <2>4 DEF Files, Replaced
<1>. QED
  BY <1>1, <1>2

(* Nor does a /etc/default/grub that is written in part.                   *)
LEMMA BrokenLike ==
  ASSUME TypeInv, Own, LinesKnown, ConfigKnown, pc = "write-config", step.chroot,
         NEW some \in SUBSET DOMAIN config, NEW bare \in BOOLEAN, Rewrites(some, bare),
         NEW R, at \in R, NEW b, b.defaults = [lines |-> <<>>, bare |-> FALSE],
         Part("defaults", root, b, R)
  PROVE  Part("defaults", root', b, R)
<1>. DEFINE old == root.defaults.lines
            new == root'.defaults.lines
<1>1. /\ DOMAIN config = Keys(old) \cup Keys(step.lines)
      /\ root'.defaults = [lines |-> new, bare |-> bare] /\ Keys(new) = some
  BY WrittenLines
<1>2. step.op = "grub-default-config" /\ pc \in Commands
  BY DEF Own, OperationOf, Commands
<1>3. at \in Acts(R, "grub-default-config")
  BY <1>2 DEF Acts, step, Promised!InRoot
<1>4. Keys(step.lines) \subseteq NewKeys(R)
  BY <1>3 DEF NewKeys, step
<1>5. Keys(<<>>) = {}
  BY DEF Keys
<1>. HIDE DEF old, new
<1>6. ASSUME NEW key, key \notin NewKeys(R) PROVE SameFor(new, <<>>, key)
  <2>1. key \notin Keys(old)
    BY <1>5, <1>6 DEF Part, SameFor, old
  <2>2. key \notin Keys(new)
    BY <1>1, <1>4, <1>6, <2>1
  <2>. QED
    BY <1>5, <2>2 DEF SameFor
<1>7. root'.defaults.bare = bare /\ b.defaults.bare = FALSE /\ b.defaults.lines = <<>>
  BY <1>1
<1>8. /\ \A key : key \notin NewKeys(R) => SameFor(root'.defaults.lines, b.defaults.lines, key)
      /\ root'.defaults.bare # b.defaults.bare => root'.defaults.bare
  BY <1>6, <1>7 DEF new
<1>. QED
  BY <1>3, <1>8 DEF Part, Replaced

LEMMA LeftStep ==
  TypeInv /\ Own /\ LinesKnown /\ ConfigKnown /\ Left /\ [Next]_vars => Left'
<1>. SUFFICES ASSUME TypeInv, Own, LinesKnown, ConfigKnown, Left, [Next]_vars PROVE Left'
  OBVIOUS
<1>. DEFINE All == DOMAIN recipe.post
<1>r. recipe \in Recipes /\ image \in Images /\ All = 1..Len(recipe.post)
  BY PostIsSequence DEF TypeInv, TypeOK
<1>f. DOMAIN root = Files /\ "defaults" \in Files /\ "scripts" \in Files
  BY RootIsFiles DEF IsFiles, Files
<1>i. \A file \in Unshipped : file # "scripts" => image.system[file] = Blank[file]
  BY <1>r, ImagesAssumption DEF Unshipped
<1>b. Blank.scripts = {} /\ Blank.defaults = [lines |-> <<>>, bare |-> FALSE]
  BY BlankAssumption
<1>p. \A file \in Unshipped : file \in Files /\ Part(file, root, image.system, All)
  BY <1>f DEF Left, Like, Unshipped
<1>n. ASSUME UNCHANGED <<recipe, image>>,
             \A file \in Unshipped : Part(file, root', image.system, All)
      PROVE  Left'
  <2>1. Unshipped' = Unshipped /\ (DOMAIN recipe.post)' = All /\ (image.system)' = image.system
    BY <1>n DEF Unshipped
  <2>2. \A file, s, b, R : Part(file, s, b, R)' = Part(file, s, b, R)
    BY <1>n, PartPrimed
  <2>. HIDE DEF All
  <2>. QED
    BY <1>n, <2>1, <2>2 DEF Left, Like
<1>k. ASSUME UNCHANGED <<recipe, image>>,
             \A file \in Unshipped : file # "content" => root'[file] = root[file]
      PROVE  Left'
  <2>1. ASSUME NEW file \in Unshipped PROVE Part(file, root', image.system, All)
    <3>1. CASE file = "content"
      BY <3>1 DEF Part, Replaced
    <3>2. CASE file # "content"
      BY <1>k, <1>p, <3>2, PartFrame
    <3>. QED
      BY <3>1, <3>2
  <2>. QED
    BY <1>k, <1>n, <2>1
<1>1. CASE RunPostInstall /\ pc \in Commands
  <2>1. OnTo /\ at \in All /\ UNCHANGED <<recipe, image>> /\ step.op = OperationOf(pc)
    BY <1>1, <1>r, CommandLeads, InStep DEF Own, OnTo
  <2>2. CASE pc' # "failed"
    <3>1. ASSUME NEW file \in Unshipped PROVE Part(file, root', image.system, All)
      <4>1. Part(file, root', root, {at})
        BY <1>1, <1>p, <2>2, CommandLike
      <4>2. Part(file, root', root, All)
        BY <2>1, <4>1, PartMore
      <4>3. /\ root'.defaults.bare \in BOOLEAN /\ root.defaults.bare \in BOOLEAN
            /\ image.system.defaults.bare \in BOOLEAN
        BY <1>r, ImagesAssumption, LinesKnownStep DEF LinesKnown
      <4>. QED
        BY <1>p, <4>2, <4>3, PartThrough
    <3>. QED
      BY <1>n, <2>1, <3>1
  <2>3. CASE pc' = "failed"
    <3>1. pc = "write-config" /\ step.op = "grub-default-config"
      BY <2>1, <2>3 DEF OnTo, OperationOf
    <3>2. CASE ~step.chroot
      <4>1. root' = root
        BY <1>1, <3>1, <3>2, HostCommand
      <4>. QED
        BY <1>k, <2>1, <4>1
    <3>3. CASE step.chroot
      <4>1. ASSUME NEW file \in Unshipped PROVE Part(file, root', image.system, All)
        <5>1. CASE file = "defaults"
          <6>1. PICK some \in SUBSET DOMAIN config, bare \in BOOLEAN : Rewrites(some, bare)
            BY <1>1, <3>1, <3>3, ChrootCommand DEF RootTable, RootConfig
          <6>2. image.system.defaults = [lines |-> <<>>, bare |-> FALSE]
            BY <1>b, <1>i, <5>1
          <6>3. Part("defaults", root, image.system, All)
            BY <1>p, <5>1
          <6>. HIDE DEF All
          <6>4. Part("defaults", root', image.system, All)
            BY <2>1, <3>1, <3>3, <6>1, <6>2, <6>3, BrokenLike
          <6>. QED
            BY <5>1, <6>4
        <5>2. CASE file # "defaults"
          <6>1. step.op \notin Writers(file)
            BY <3>1, <5>2 DEF Writers
          <6>2. root'[file] = root[file]
            BY <1>1, <1>p, <6>1, CommandFrame
          <6>. QED
            BY <1>p, <6>2, PartFrame
        <5>. QED
          BY <5>1, <5>2
      <4>. QED
        BY <1>n, <2>1, <4>1
    <3>. QED
      BY <3>2, <3>3
  <2>. QED
    BY <2>2, <2>3
<1>2. CASE Dispatched \/ Started
  <2>1. UNCHANGED <<recipe, image>> /\ (root' = root \/ root' = [root EXCEPT !.content = "ready"])
    BY <1>2 DEF Dispatched, Started, root
  <2>. QED
    BY <1>f, <1>k, <1>p, <2>1
<1>3. CASE Rests
  <2>1. UNCHANGED <<recipe, image>>
    BY <1>3 DEF Rests
  <2>2. CASE root' = root
    BY <1>k, <2>1, <2>2
  <2>3. CASE root' = Blank
    <3>1. ASSUME NEW file \in Unshipped PROVE Part(file, root', image.system, All)
      <4>1. CASE file = "scripts"
        BY <1>b, <2>3, <4>1 DEF Part, Replaced
      <4>2. CASE file # "scripts"
        BY <1>i, <2>3, <4>2, PartEqual
      <4>. QED
        BY <4>1, <4>2
    <3>. QED
      BY <1>n, <2>1, <3>1
  <2>4. ASSUME NEW some \in SUBSET image.ships, NEW content, root' = Overlay(root, some, content)
        PROVE  Left'
    <3>1. ASSUME NEW file \in Unshipped PROVE Part(file, root', image.system, All)
      <4>1. CASE file = "scripts"
        <5>1. root'.scripts \subseteq root.scripts \cup image.system.scripts
          BY <1>f, <2>4 DEF Overlay
        <5>. QED
          BY <1>p, <4>1, <5>1 DEF Part, Replaced
      <4>2. CASE file # "scripts" /\ file # "content"
        <5>1. root'[file] = root[file]
          BY <1>f, <1>p, <2>4, <4>2 DEF Overlay, Unshipped
        <5>. QED
          BY <1>p, <5>1, PartFrame
      <4>3. CASE file = "content"
        BY <4>3 DEF Part, Replaced
      <4>. QED
        BY <4>1, <4>2, <4>3
    <3>. QED
      BY <1>n, <2>1, <3>1
  <2>. QED
    BY <1>3, <2>2, <2>3, <2>4 DEF Rests
<1>4. CASE UNCHANGED vars
  <2>1. UNCHANGED <<recipe, image>> /\ root' = root
    BY <1>4 DEF vars, root
  <2>. QED
    BY <1>k, <2>1
<1>. QED
  BY <1>1, <1>2, <1>3, <1>4, StepKinds

-----------------------------------------------------------------------------

LEMMA CurrentNext ==
  ASSUME UNCHANGED recipe, pc' # "tables", root'.content = "ready",
         Like(Files, root', base', Undone')
  PROVE  Current'
<1>1. \A file, s, b, R : Part(file, s, b, R)' = Part(file, s, b, R)
  BY PartPrimed
<1>2. \A file \in Files : Part(file, root', base', Undone')
  BY DEF Like
<1>3. \A file \in Files : Part(file, root, base, Undone)'
  BY <1>1, <1>2
<1>. QED
  BY <1>3 DEF Current, Like

LEMMA DueIs ==
  ASSUME TypeInv, at \in 1..Len(recipe.post)
  PROVE  /\ Due(at) \subseteq {at} \cup Due(at + 1)
         /\ UNCHANGED recipe => \A n : Due(n)' = Due(n)
         /\ step.op = "grub-mkconfig" =>
              \A op \in {"grub-default-config", "grub-add-script"} : Acts(Due(at + 1), op) = {}
<1>1. recipe \in Recipes /\ Len(recipe.post) \in Nat /\ DOMAIN recipe.post = 1..Len(recipe.post)
      /\ recipe.formats \in BOOLEAN
  BY PostIsSequence, RecipesAssumption DEF TypeInv, TypeOK
<1>2. Due(at) \subseteq {at} \cup Due(at + 1)
  BY <1>1 DEF Due
<1>3. ASSUME step.op = "grub-mkconfig",
             NEW op \in {"grub-default-config", "grub-add-script"}
      PROVE  Acts(Due(at + 1), op) = {}
  <2>1. CASE recipe.formats
    BY <2>1 DEF Acts, Due
  <2>2. CASE ~recipe.formats
    <3>1. MenuLast(recipe.post)
      BY <1>1, <2>2, RecipesAssumption
    <3>2. \A n \in at + 1..Len(recipe.post) : recipe.post[n].op # op
      BY <1>1, <1>3, <3>1 DEF MenuLast, step
    <3>. QED
      BY <2>2, <3>2 DEF Acts, Due
  <2>. QED
    BY <2>1, <2>2
<1>. QED
  BY <1>2, <1>3 DEF Due

(* The last command of a step.                                             *)
LEMMA StepCurrent ==
  ASSUME TypeInv, Own, LinesKnown, ConfigKnown, Halfway, ScriptsKept, Promised!Independent,
         RunPostInstall, pc \in Commands, pc' = "step",
         Like(Files, root, base, {at} \cup Due(at + 1))
  PROVE  Like(Files, root', base', Due(at + 1))
<1>. DEFINE D == Due(at + 1)
<1>1. /\ OnTo /\ UNCHANGED <<recipe, image>> /\ at' = at + 1 /\ at \in 1..Len(recipe.post)
      /\ recipe \in Recipes /\ image \in Images
  BY CommandLeads, InStep, CommandNames DEF OnTo, TypeInv, TypeOK
<1>2. GoodDefaults(base.defaults) /\ base.defaults.bare \in BOOLEAN
  <2>1. at - 1 \in 0..Len(recipe.post)
    BY <1>1
  <2>2. AfterGood(at - 1)
    BY <1>1, <2>1, AfterFiles
  <2>. QED
    BY <1>1, <2>2, ImagesAssumption DEF AfterGood, base
<1>3. \A file \in Files : ~Promised!InRoot(step) \/ step.op \notin Writers(file)
        => root'[file] = root[file]
  BY CommandFrame
<1>4. CASE ~Promised!InRoot(step)
  <2>1. base' = base
    BY <1>1, <1>4, BaseStep
  <2>2. \A op : Acts(D, op) = Acts({at} \cup D, op)
    BY <1>4, ActsOne
  <2>3. ASSUME NEW file \in Files PROVE Part(file, root', base', D)
    <3>1. Part(file, root, base, {at} \cup D)
      BY DEF Like
    <3>. HIDE DEF D
    <3>. QED
      BY <1>3, <1>4, <2>1, <2>2, <3>1, PartFrame
  <2>. QED
    BY <2>3 DEF Like
<1>5. CASE Promised!InRoot(step)
  <2>1. EffectTable(base, step, base')
    BY <1>1, <1>5, BaseStep
  <2>2. Completes
    BY <1>5, StepDone
  <2>3. step.op = "grub-mkconfig" => base.scripts \subseteq root.scripts
    <3>1. step.op = "grub-mkconfig" => ~Removing
      BY DEF Own, OperationOf, Removing
    <3>. QED
      BY <3>1 DEF ScriptsKept, InSteps
  <2>4. step.op = "grub-mkconfig" =>
          \A op \in {"grub-default-config", "grub-add-script"} : Acts(D, op) = {}
    BY <1>1, DueIs
  <2>. HIDE DEF D
  <2>5. Like(Files, root, base, {at} \cup D)
    BY DEF D
  <2>6. Like(Files, root', base', D)
    BY <1>2, <1>3, <1>5, <2>1, <2>2, <2>3, <2>4, <2>5, PartDone
  <2>. QED
    BY <2>6 DEF D
<1>. QED
  BY <1>4, <1>5

LEMMA CurrentTables ==
  ASSUME UNCHANGED <<recipe, image>>, pc' = "tables", Like(Files, root', image.system, Due(1))
  PROVE  Current'
<1>1. \A file, s, b, R : Part(file, s, b, R)' = Part(file, s, b, R)
  BY PartPrimed
<1>2. Due(1)' = Due(1) /\ (image.system)' = image.system
  BY DEF Due
<1>3. \A file \in Files : Part(file, root', image.system, Due(1))
  BY DEF Like
<1>4. \A file \in Files : Part(file, root, image.system, Due(1))'
  BY <1>1, <1>2, <1>3
<1>. QED
  BY <1>4 DEF Current, Like, InSteps, Commands

(* A step with no arguments has no commands, and nothing to do.            *)
LEMMA NothingToDo ==
  ASSUME TypeInv, UNCHANGED <<recipe, image>>, at \in 1..Len(recipe.post), at' = at + 1,
         step.op \in Loops, Arguments(step) = <<>>, root' = root,
         Like(Files, root, base, Due(at))
  PROVE  Like(Files, root', base', Due(at + 1))
<1>. DEFINE D == Due(at + 1)
<1>1. ASSUME NEW file \in Files PROVE base'[file] = base[file]
  <2>1. CASE ~Promised!InRoot(step)
    BY <2>1, BaseStep
  <2>2. CASE Promised!InRoot(step)
    <3>1. EffectTable(base, step, base')
      BY <2>2, BaseStep
    <3>2. CASE step.op \notin Writers(file)
      BY <3>1, <3>2, EffectFrame
    <3>3. CASE step.op \in Writers(file)
      <4>1. ToSet(<<>>) = {}
        BY DEF ToSet
      <4>2. CASE step.op = "shell"
        <5>1. file = "marks" /\ step.commands = <<>>
          BY <3>3, <4>2 DEF Writers, Arguments, Files
        <5>. QED
          BY <3>1, <4>1, <4>2, <5>1 DEF EffectTable, If
      <4>3. CASE step.op = "grub-add-script"
        <5>1. file = "scripts" /\ step.scripts = <<>>
          BY <3>3, <4>3 DEF Writers, Arguments, Files
        <5>2. base'.scripts = base.scripts \cup ToSet(step.scripts)
          BY <3>1, <4>3 DEF EffectTable
        <5>. QED
          BY <4>1, <5>1, <5>2
      <4>4. CASE step.op = "grub-remove-script"
        <5>1. file = "scripts" /\ step.scripts = <<>>
          BY <3>3, <4>4 DEF Writers, Arguments, Files
        <5>2. base'.scripts = base.scripts \ ToSet(step.scripts)
          BY <3>1, <4>4 DEF EffectTable
        <5>. QED
          BY <4>1, <5>1, <5>2
      <4>. QED
        BY <4>2, <4>3, <4>4 DEF Loops
    <3>. QED
      BY <3>2, <3>3
  <2>. QED
    BY <2>1, <2>2
<1>2. Due(at) \subseteq {at} \cup D
  BY DueIs
<1>. HIDE DEF D
<1>3. ASSUME NEW file \in Files PROVE Part(file, root', base', D)
  <2>1. Part(file, root, base, {at} \cup D)
    BY <1>2, PartMore DEF Like
  <2>2. root'[file] = root[file] /\ base'[file] = base[file]
    BY <1>1
  <2>3. CASE step.op \notin Writers(file)
    <3>1. \A op \in Writers(file) : Acts(D, op) = Acts({at} \cup D, op)
      BY <2>3, ActsOne
    <3>. QED
      BY <2>1, <2>2, <3>1, PartFrame
  <2>4. CASE file = "marks" /\ step.op = "shell"
    <3>1. Marks({at} \cup D) \subseteq Marks(D)
      <4>1. ToSet(step.commands) = {}
        BY <2>4 DEF Arguments, ToSet
      <4>. QED
        BY <2>4, <4>1, ActsOne
    <3>. QED
      BY <2>1, <2>2, <2>4, <3>1 DEF Part, Replaced
  <2>5. CASE file = "scripts" /\ step.op \in {"grub-add-script", "grub-remove-script"}
    <3>1. Added({at} \cup D) \subseteq Added(D)
      <4>1. CASE step.op = "grub-add-script"
        <5>1. ToSet(step.scripts) = {}
          BY <4>1 DEF Arguments, ToSet
        <5>. QED
          BY <4>1, <5>1, ActsOne
      <4>2. CASE step.op = "grub-remove-script"
        <5>1. Acts({at} \cup D, "grub-add-script") = Acts(D, "grub-add-script")
          BY <4>2, ActsOne
        <5>. QED
          BY <5>1 DEF Added
      <4>. QED
        BY <2>5, <4>1, <4>2
    <3>. QED
      BY <2>1, <2>2, <2>5, <3>1 DEF Part, Replaced
  <2>. QED
    BY <2>3, <2>4, <2>5 DEF Writers, Loops, Files
<1>. QED
  BY <1>3 DEF Like, D

(* A command before the last of its step.                                  *)
LEMMA CommandCurrent ==
  ASSUME TypeInv, Own, LinesKnown, ConfigKnown, LinesKnown', RunPostInstall,
         pc \in Commands, pc' \in Commands,
         Like(Files, root, base, {at} \cup Due(at + 1))
  PROVE  Like(Files, root', base', {at} \cup Due(at + 1))
<1>. DEFINE R == {at} \cup Due(at + 1)
<1>1. /\ OnTo /\ UNCHANGED <<recipe, image>> /\ at' = at /\ at \in 1..Len(recipe.post)
      /\ recipe \in Recipes /\ image \in Images /\ pc' # "failed"
  BY CommandLeads, InStep, CommandNames DEF OnTo, TypeInv, TypeOK, Ended
<1>2. base' = base
  BY <1>1, BaseStep
<1>3. /\ root'.defaults.bare \in BOOLEAN /\ root.defaults.bare \in BOOLEAN
      /\ base.defaults.bare \in BOOLEAN
  <2>1. at - 1 \in 0..Len(recipe.post)
    BY <1>1
  <2>2. AfterGood(at - 1)
    BY <1>1, <2>1, AfterFiles
  <2>3. base.defaults.bare \in BOOLEAN
    BY <1>1, <2>2, ImagesAssumption DEF AfterGood, base
  <2>. QED
    BY <2>3 DEF LinesKnown
<1>4. ASSUME NEW file \in Files PROVE Part(file, root', base', R)
  <2>1. Part(file, root', root, {at})
    BY <1>1, CommandLike
  <2>2. Part(file, root', root, R)
    BY <2>1, PartMore
  <2>3. Part(file, root, base, R)
    BY DEF Like
  <2>. HIDE DEF R
  <2>. QED
    BY <1>2, <1>3, <2>2, <2>3, PartThrough
<1>. QED
  BY <1>4 DEF Like

LEMMA CurrentStep ==
  ASSUME TypeInv, Own, LinesKnown, ConfigKnown, Halfway, Left, ScriptsKept, BareKept,
         Promised!Independent, Current, [Next]_vars
  PROVE  Current'
<1>f. DOMAIN root = Files /\ "content" \in Files
  BY RootIsFiles DEF IsFiles, Files
<1>c. "step" \notin Commands /\ "tables" \notin Commands /\ "refused" \notin Commands
      /\ "failed" \notin Commands
  BY DEF Commands
<1>r. ASSUME pc' # "tables", pc' # "step", pc' \notin Commands PROVE Current'
  BY <1>r DEF Current, InSteps
<1>1. CASE RunPostInstall /\ pc \in Commands
  <2>1. /\ OnTo /\ UNCHANGED <<recipe, image>> /\ at \in 1..Len(recipe.post)
    BY <1>1, CommandLeads, InStep DEF OnTo
  <2>2. root.content = "ready" /\ Like(Files, root, base, {at} \cup Due(at + 1))
    BY <1>1, <1>c DEF Current, InSteps, Undone
  <2>3. root'.content = "ready"
    BY <1>1, <2>2, CommandKeeps
  <2>4. CASE pc' \in {"refused", "failed"}
    BY <1>c, <1>r, <2>4
  <2>5. CASE pc' = "step"
    <3>1. Like(Files, root', base', Due(at + 1))
      BY <1>1, <2>2, <2>5, StepCurrent
    <3>2. Undone' = Due(at + 1)
      BY <1>c, <2>1, <2>5 DEF OnTo, Undone, Due
    <3>. QED
      BY <2>1, <2>3, <2>5, <3>1, <3>2, CurrentNext
  <2>6. CASE pc' \in Commands
    <3>1. LinesKnown'
      BY LinesKnownStep
    <3>2. Like(Files, root', base', {at} \cup Due(at + 1))
      BY <1>1, <2>2, <2>6, <3>1, CommandCurrent
    <3>3. Undone' = {at} \cup Due(at + 1)
      BY <1>c, <2>1, <2>6 DEF OnTo, Undone, Due
    <3>. QED
      BY <1>c, <2>1, <2>3, <2>6, <3>2, <3>3, CurrentNext
  <2>. QED
    BY <2>1, <2>4, <2>5, <2>6 DEF OnTo
<1>2. CASE Dispatched
  <2>1. /\ UNCHANGED <<recipe, image>> /\ root' = root /\ at \in 1..Len(recipe.post)
        /\ pc = "step" /\ pc' # "tables"
    BY <1>2 DEF Dispatched, Firsts, root
  <2>2. root.content = "ready" /\ Like(Files, root, base, Due(at))
    BY <2>1 DEF Current, InSteps, Undone
  <2>3. CASE pc' \in Firsts /\ at' = at
    <3>1. base' = base
      BY <2>1, <2>3, BaseStep
    <3>2. Due(at) \subseteq {at} \cup Due(at + 1)
      BY <2>1, DueIs
    <3>3. Undone' = {at} \cup Due(at + 1)
      BY <2>1, <2>3 DEF Undone, Due, Firsts
    <3>. DEFINE R == {at} \cup Due(at + 1)
    <3>4. \A file \in Files : Part(file, root, base, Due(at))
      BY <2>2 DEF Like
    <3>. HIDE DEF R
    <3>5. \A file \in Files : Part(file, root, base, R)
      BY <3>2, <3>4, PartMore DEF R
    <3>6. Like(Files, root', base', Undone')
      BY <2>1, <3>1, <3>3, <3>5 DEF Like, R
    <3>. QED
      BY <2>1, <2>2, <3>6, CurrentNext
  <2>4. CASE pc' = "step" /\ at' = at + 1 /\ step.op \in Loops /\ Arguments(step) = <<>>
    <3>1. Like(Files, root', base', Due(at + 1))
      BY <2>1, <2>2, <2>4, NothingToDo
    <3>2. Undone' = Due(at + 1)
      BY <2>1, <2>4 DEF Undone, Due
    <3>. QED
      BY <2>1, <2>2, <3>1, <3>2, CurrentNext
  <2>. QED
    BY <1>2, <2>3, <2>4 DEF Dispatched
<1>3. CASE Started
  <2>1. /\ UNCHANGED <<recipe, image>> /\ pc = "tables" /\ pc' = "step" /\ at' = 1
        /\ root' = [root EXCEPT !.content = "ready"]
    BY <1>3 DEF Started
  <2>2. base' = image.system
    BY <2>1, BaseStep
  <2>3. Undone' = Due(1)
    BY <2>1 DEF Undone, Due
  <2>4. \A file \in Files : Part(file, root, image.system, Due(1))
    BY <2>1 DEF Current, Like
  <2>5. ASSUME NEW file \in Files PROVE Part(file, root', image.system, Due(1))
    <3>1. CASE file = "content"
      BY <3>1 DEF Part, Replaced
    <3>2. CASE file # "content"
      <4>1. root'[file] = root[file]
        BY <1>f, <2>1, <3>2
      <4>. QED
        BY <2>4, <4>1, PartFrame
    <3>. QED
      BY <3>1, <3>2
  <2>6. Like(Files, root', base', Undone')
    BY <2>2, <2>3, <2>5 DEF Like
  <2>. QED
    BY <1>f, <2>1, <2>6, CurrentNext
<1>4. CASE Rests
  <2>1. UNCHANGED <<recipe, image>> /\ pc' # "step" /\ pc' \notin Commands
    BY <1>4 DEF Rests, Resting, Ended, Commands
  <2>2. CASE pc' # "tables"
    BY <1>r, <2>1, <2>2
  <2>3. CASE pc' = "tables"
    <3>1. /\ pc = "copy" /\ root' = Overlay(root, image.ships, "image")
          /\ recipe \in Recipes /\ image \in Images
      BY <1>4, <2>3 DEF Rests, TypeInv, TypeOK
    <3>2. CASE recipe.formats
      <4>1. root = Blank
        BY <3>1, <3>2 DEF BareKept
      <4>2. ASSUME NEW file \in Files PROVE Part(file, root', image.system, Due(1))
        <5>1. CASE file = "content"
          BY <5>1 DEF Part, Replaced
        <5>2. CASE file = "scripts"
          <6>1. root'.scripts \subseteq image.system.scripts
            BY <1>f, <3>1, <4>1, <5>2, BlankAssumption DEF Overlay
          <6>. QED
            BY <5>2, <6>1 DEF Part, Replaced
        <5>3. CASE file \notin {"content", "scripts"}
          <6>1. file \in image.ships => root'[file] = image.system[file]
            BY <1>f, <3>1, <5>3 DEF Overlay
          <6>2. file \notin image.ships =>
                   root'[file] = Blank[file] /\ image.system[file] = Blank[file]
            BY <1>f, <3>1, <4>1, <5>3, ImagesAssumption DEF Overlay
          <6>. QED
            BY <6>1, <6>2, PartEqual
        <5>. QED
          BY <5>1, <5>2, <5>3
      <4>. QED
        BY <2>1, <2>3, <4>2, CurrentTables DEF Like
    <3>3. CASE ~recipe.formats
      <4>1. Due(1) = DOMAIN recipe.post
        BY <3>1, <3>3, PostIsSequence DEF Due
      <4>2. ASSUME NEW file \in Files PROVE Part(file, root', image.system, Due(1))
        <5>1. CASE file = "content"
          BY <5>1 DEF Part, Replaced
        <5>2. CASE file = "scripts"
          <6>1. Part("scripts", root, image.system, Due(1))
            BY <4>1, <5>2 DEF Left, Like, Unshipped
          <6>2. root'.scripts \subseteq root.scripts \cup image.system.scripts
            BY <1>f, <3>1, <5>2 DEF Overlay
          <6>. QED
            BY <5>2, <6>1, <6>2 DEF Part, Replaced
        <5>3. CASE file \notin {"content", "scripts"} /\ file \in image.ships
          <6>1. root'[file] = image.system[file]
            BY <1>f, <3>1, <5>3 DEF Overlay
          <6>. QED
            BY <6>1, PartEqual
        <5>4. CASE file \notin {"content", "scripts"} /\ file \notin image.ships
          <6>1. root'[file] = root[file]
            BY <1>f, <3>1, <5>4 DEF Overlay
          <6>2. Part(file, root, image.system, Due(1))
            BY <4>1, <5>4 DEF Left, Like, Unshipped
          <6>. QED
            BY <6>1, <6>2, PartFrame
        <5>. QED
          BY <5>1, <5>2, <5>3, <5>4
      <4>. QED
        BY <2>1, <2>3, <4>2, CurrentTables DEF Like
    <3>. QED
      BY <3>2, <3>3
  <2>. QED
    BY <2>2, <2>3
<1>5. CASE UNCHANGED vars
  <2>1. /\ UNCHANGED <<recipe, image, pc, at>> /\ root' = root
    BY <1>5 DEF vars, root
  <2>2. base' = base
    BY <2>1, BaseStep
  <2>3. Undone' = Undone
    BY <2>1 DEF Undone, Due
  <2>4. CASE pc = "tables"
    BY <2>1, <2>4, CurrentTables DEF Current
  <2>5. CASE InSteps
    BY <1>c, <2>1, <2>2, <2>3, <2>5, CurrentNext DEF Current, InSteps
  <2>6. CASE pc # "tables" /\ ~InSteps
    BY <1>r, <2>1, <2>6 DEF InSteps
  <2>. QED
    BY <2>4, <2>5, <2>6
<1>. QED
  BY <1>1, <1>2, <1>3, <1>4, <1>5, StepKinds

LEMMA WithAgain ==
  ASSUME NEW users, NEW a, NEW b, a.name = b.name
  PROVE  /\ With(users, a)[a.name] = a
         /\ [With(users, a) EXCEPT ![a.name] = b] = With(users, b)
BY DEF With

(* The four commands of adduser.                                           *)
LEMMA AdduserRow ==
  ASSUME TypeInv, Own, Promised!OneNumber, UsersSame, RunPostInstall, pc \in Commands,
         step.chroot, step.op = "adduser", pc' \in Commands \cup {"step"}
  PROVE  \/ pc' \in {"comment", "chpasswd", "groups"}
            /\ root'.users = With(base.users, AddedUpTo(pc'))
         \/ pc' = "step" /\ root'.users = With(base.users, step.account)
<1>. DEFINE a == step.account
            none == [a EXCEPT !.fullname = "", !.password = "", !.groups = {}]
            full == [a EXCEPT !.password = "", !.groups = {}]
            word == [a EXCEPT !.groups = {}]
<1>1. /\ step.op = OperationOf(pc) /\ at \in 1..Len(recipe.post) /\ DOMAIN root = Files
      /\ DOMAIN recipe.post = 1..Len(recipe.post)
      /\ a = [field \in AccountFields |-> a[field]]
  <2>1. IsStep(step) /\ at \in 1..Len(recipe.post) /\ DOMAIN recipe.post = 1..Len(recipe.post)
    BY InStep
  <2>. QED
    BY <2>1, RootIsFiles DEF IsFiles, IsStep, Own
<1>2. pc \in {"useradd", "comment", "chpasswd", "groups"}
  BY <1>1 DEF OperationOf, Commands
<1>3. RootUsers
  BY ChrootCommand DEF RootTable
<1>4. "auto" \in {a.uid, a.gid}
  <2>1. at \in Promised!Rooted("adduser")
    BY <1>1 DEF Promised!Rooted, Promised!InRoot, step
  <2>. QED
    BY <2>1 DEF Promised!OneNumber, step
<1>. HIDE DEF a
<1>5. Useradded = none
  <2>1. Useradded = [a EXCEPT !.fullname = "", !.password = "", !.groups = {},
                       !.uid = IF a.gid = "auto" THEN @ ELSE "auto"]
    BY DEF Useradded, a
  <2>. QED
    BY <1>1, <1>4, <2>1 DEF AccountFields
<1>6. /\ AddedUpTo("comment") = none /\ AddedUpTo("chpasswd") = full
      /\ AddedUpTo("groups") = word
  BY <1>1 DEF AddedUpTo, AccountFields, a
<1>7. /\ none = [field \in AccountFields |-> none[field]] /\ none.name = a.name
      /\ full = [field \in AccountFields |-> full[field]] /\ full.name = a.name
      /\ word = [field \in AccountFields |-> word[field]] /\ word.name = a.name
  BY <1>1 DEF AccountFields
<1>8. /\ full = [none EXCEPT !["fullname"] = a.fullname]
      /\ word = [full EXCEPT !["password"] = a.password]
      /\ a = [word EXCEPT !["groups"] = a.groups]
  BY <1>1 DEF AccountFields
<1>9. (a.password = "" => full = word) /\ (a.groups = {} => word = a)
  BY <1>1, Zenon DEF AccountFields
<1>. HIDE DEF none, full, word
<1>10. CASE pc = "useradd"
  <2>1. pc' = "comment" /\ root' = [root EXCEPT !.users = With(@, Useradded)]
    BY <1>3, <1>10 DEF RootUsers, Becomes, Stays, Commands
  <2>2. root.users = base.users
    BY <1>10 DEF UsersSame, InSteps, Adding
  <2>3. root'.users = With(base.users, none)
    BY <1>1, <1>5, <2>1, <2>2 DEF Files
  <2>. QED
    BY <1>6, <2>1, <2>3
<1>11. CASE pc = "comment"
  <2>1. /\ pc' = (IF a.password = "" THEN AfterPassword ELSE "chpasswd")
        /\ root' = [root EXCEPT !.users[a.name]["fullname"] = a.fullname]
    BY <1>3, <1>11, Zenon DEF RootUsers, Becomes, a
  <2>2. root.users = With(base.users, none)
    BY <1>6, <1>11 DEF UsersSame, InSteps, Adding
  <2>3. root.users[a.name] = none
    BY <1>7, <2>2, WithAgain
  <2>4. root' = [root EXCEPT !.users = [root.users EXCEPT ![a.name] = full]]
    BY <1>8, <2>1, <2>3, Zenon
  <2>5. root'.users = [With(base.users, none) EXCEPT ![a.name] = full]
    BY <1>1, <2>2, <2>4 DEF Files
  <2>6. root'.users = With(base.users, full)
    BY <1>7, <2>5, WithAgain
  <2>. QED
    BY <1>6, <1>9, <2>1, <2>6, Zenon DEF AfterPassword, a
<1>12. CASE pc = "chpasswd"
  <2>1. /\ pc' = AfterPassword
        /\ root' = [root EXCEPT !.users[a.name]["password"] = a.password]
    BY <1>3, <1>12 DEF RootUsers, Becomes, a
  <2>2. root.users = With(base.users, full)
    BY <1>6, <1>12 DEF UsersSame, InSteps, Adding
  <2>3. root.users[a.name] = full
    BY <1>7, <2>2, WithAgain
  <2>4. root' = [root EXCEPT !.users = [root.users EXCEPT ![a.name] = word]]
    BY <1>8, <2>1, <2>3
  <2>5. root'.users = [With(base.users, full) EXCEPT ![a.name] = word]
    BY <1>1, <2>2, <2>4 DEF Files
  <2>6. root'.users = With(base.users, word)
    BY <1>7, <2>5, WithAgain
  <2>. QED
    BY <1>6, <1>9, <2>1, <2>6, Zenon DEF AfterPassword, a
<1>13. CASE pc = "groups"
  <2>1. pc' = "step" /\ root' = [root EXCEPT !.users[a.name]["groups"] = a.groups]
    BY <1>3, <1>13 DEF RootUsers, Becomes, a
  <2>2. root.users = With(base.users, word)
    BY <1>6, <1>13 DEF UsersSame, InSteps, Adding
  <2>3. root.users[a.name] = word
    BY <1>7, <2>2, WithAgain
  <2>4. root' = [root EXCEPT !.users = [root.users EXCEPT ![a.name] = a]]
    BY <1>8, <2>1, <2>3
  <2>5. root'.users = [With(base.users, word) EXCEPT ![a.name] = a]
    BY <1>1, <2>2, <2>4 DEF Files
  <2>6. root'.users = With(base.users, a)
    BY <1>7, <2>5, WithAgain
  <2>. QED
    BY <2>1, <2>6 DEF a
<1>. QED
  BY <1>2, <1>10, <1>11, <1>12, <1>13

LEMMA UsersSameStep ==
  ASSUME TypeInv, Own, UserNames, Promised!OneNumber, UsersSame, [Next]_vars
  PROVE  UsersSame'
<1>c. "step" \notin Commands /\ "tables" \notin Commands /\ "refused" \notin Commands
      /\ "failed" \notin Commands
  BY DEF Commands
<1>r. ASSUME pc' # "step", pc' \notin Commands PROVE UsersSame'
  BY <1>r DEF UsersSame, InSteps
<1>1. CASE RunPostInstall /\ pc \in Commands
  <2>1. /\ OnTo /\ UNCHANGED <<recipe, image>> /\ step.op = OperationOf(pc)
        /\ at \in 1..Len(recipe.post) /\ IsStep(step)
    BY <1>1, CommandLeads, InStep DEF Own, OnTo
  <2>2. CASE pc' \in {"refused", "failed"}
    BY <1>c, <1>r, <2>2
  <2>3. CASE ~(step.chroot /\ step.op = "adduser")
    <3>1. root'.users = root.users
      BY <1>1, <2>3, CommandKeeps
    <3>2. root.users = base.users
      BY <1>1, <2>1, <2>3 DEF UsersSame, InSteps, Adding, OperationOf
    <3>3. CASE pc' \in Commands
      <4>1. at' = at /\ step' = step /\ OperationOf(pc') = step.op
        BY <1>c, <2>1, <3>3 DEF OnTo, step
      <4>2. base' = base /\ ~Adding'
        BY <2>1, <2>3, <4>1, BaseStep DEF Adding, OperationOf
      <4>. QED
        BY <3>1, <3>2, <4>2 DEF UsersSame
    <3>4. CASE pc' = "step"
      <4>1. at' = at + 1
        BY <1>c, <2>1, <3>4 DEF OnTo
      <4>2. base'.users = base.users
        <5>1. CASE Promised!InRoot(step)
          BY <2>1, <2>3, <4>1, <5>1, BaseStep DEF EffectTable, If, Promised!InRoot
        <5>2. CASE ~Promised!InRoot(step)
          BY <2>1, <4>1, <5>2, BaseStep
        <5>. QED
          BY <5>1, <5>2
      <4>. QED
        BY <3>1, <3>2, <3>4, <4>2 DEF UsersSame, Adding
    <3>. QED
      BY <2>1, <2>2, <3>3, <3>4 DEF OnTo
  <2>4. CASE step.chroot /\ step.op = "adduser" /\ pc' \in Commands \cup {"step"}
    <3>1. CASE pc' = "step"
      <4>1. at' = at + 1 /\ root'.users = With(base.users, step.account)
        BY <1>1, <1>c, <2>1, <2>4, <3>1, AdduserRow DEF OnTo
      <4>2. base'.users = With(base.users, step.account)
        BY <2>1, <2>4, <4>1, BaseStep DEF EffectTable, If, Promised!InRoot
      <4>. QED
        BY <3>1, <4>1, <4>2 DEF UsersSame, Adding
    <3>2. CASE pc' \in Commands
      <4>1. at' = at /\ step' = step /\ base' = base
        BY <1>c, <2>1, <3>2, BaseStep DEF OnTo, step
      <4>2. /\ pc' \in {"comment", "chpasswd", "groups"}
            /\ root'.users = With(base.users, AddedUpTo(pc'))
        BY <1>1, <1>c, <2>4, <3>2, AdduserRow
      <4>3. AddedUpTo(pc)' = AddedUpTo(pc')
        BY <4>1 DEF AddedUpTo
      <4>. QED
        BY <2>4, <4>1, <4>2, <4>3 DEF UsersSame, Adding
    <3>. QED
      BY <2>4, <3>1, <3>2
  <2>. QED
    BY <2>1, <2>2, <2>3, <2>4 DEF OnTo
<1>2. CASE Dispatched
  <2>1. /\ UNCHANGED <<recipe, image>> /\ root' = root /\ at \in 1..Len(recipe.post)
        /\ pc = "step"
    BY <1>2 DEF Dispatched, root
  <2>2. root.users = base.users
    BY <2>1 DEF UsersSame, InSteps, Adding
  <2>3. CASE pc' \in Firsts /\ at' = at
    <3>1. base' = base /\ ~Adding'
      BY <2>1, <2>3, BaseStep DEF Adding, Firsts
    <3>. QED
      BY <2>1, <2>2, <3>1 DEF UsersSame
  <2>4. CASE pc' = "step" /\ at' = at + 1 /\ step.op \in Loops
    <3>1. base'.users = base.users
      <4>1. CASE Promised!InRoot(step)
        BY <2>1, <2>4, <4>1, BaseStep DEF EffectTable, If, Loops
      <4>2. CASE ~Promised!InRoot(step)
        BY <2>1, <2>4, <4>2, BaseStep
      <4>. QED
        BY <4>1, <4>2
    <3>. QED
      BY <2>1, <2>2, <2>4, <3>1 DEF UsersSame, Adding
  <2>. QED
    BY <1>2, <2>3, <2>4 DEF Dispatched
<1>3. CASE Started
  <2>1. DOMAIN root = Files /\ "content" \in Files /\ "users" \in Files
    BY RootIsFiles DEF IsFiles, Files
  <2>2. /\ pc = "tables" /\ pc' = "step" /\ base' = image.system /\ root'.users = root.users
    BY <1>3, <2>1, BaseStep DEF Started
  <2>. QED
    BY <2>2 DEF UserNames, UsersSame, Adding
<1>4. CASE Rests
  BY <1>4, <1>r DEF Rests, Resting, Ended, Commands
<1>5. CASE UNCHANGED vars
  <2>1. UNCHANGED <<recipe, image, pc, at>> /\ root' = root /\ step' = step
    BY <1>5 DEF vars, root, step
  <2>2. base' = base
    BY <2>1, BaseStep
  <2>3. AddedUpTo(pc)' = AddedUpTo(pc)
    BY <2>1 DEF AddedUpTo
  <2>. QED
    BY <2>1, <2>2, <2>3 DEF UsersSame, InSteps, Adding
<1>. QED
  BY <1>1, <1>2, <1>3, <1>4, <1>5, StepKinds

-----------------------------------------------------------------------------

LEMMA ImplementsInit == Init => ImplementsInv
<1>. SUFFICES ASSUME Init PROVE ImplementsInv
  OBVIOUS
<1>1. RepeatInv
  BY RepeatInit
<1>2. /\ pc = "idle" /\ pc \notin Commands /\ ~InSteps /\ root = Blank
      /\ recipe \in Recipes /\ image \in Images
  BY DEF Init, InSteps, Commands, root
<1>3. Blank.scripts = {} /\ Blank.defaults = [lines |-> <<>>, bare |-> FALSE]
  BY BlankAssumption
<1>4. LinesKnown
  BY <1>2, <1>3 DEF LinesKnown, GoodDefaults
<1>5. Left
  <2>1. ASSUME NEW file \in Unshipped PROVE Part(file, root, image.system, DOMAIN recipe.post)
    <3>1. CASE file = "scripts"
      BY <1>2, <1>3, <3>1 DEF Part, Replaced
    <3>2. CASE file # "scripts"
      <4>1. image.system[file] = Blank[file]
        BY <1>2, <3>2, ImagesAssumption DEF Unshipped
      <4>. QED
        BY <1>2, <4>1, PartEqual
    <3>. QED
      BY <3>1, <3>2
  <2>. QED
    BY <2>1 DEF Left, Like
<1>. QED
  BY <1>1, <1>2, <1>4, <1>5
  DEF ImplementsInv, ConfigKnown, Halfway, HalfwayFiles, HalfwayLoops, Current, UsersSame

LEMMA RecipeStays == TypeInv /\ [Next]_vars => UNCHANGED <<recipe, image>>
<1>. SUFFICES ASSUME TypeInv, [Next]_vars PROVE UNCHANGED <<recipe, image>>
  OBVIOUS
<1>1. RunPostInstall /\ pc \in Commands => UNCHANGED <<recipe, image>>
  BY CommandLeads DEF OnTo
<1>. QED
  BY <1>1, StepKinds DEF Dispatched, Started, Rests, vars

LEMMA ImplementsStep == ImplementsInv /\ [Next]_vars => ImplementsInv'
<1>. SUFFICES ASSUME ImplementsInv, [Next]_vars PROVE ImplementsInv'
  OBVIOUS
<1>1. /\ TypeInv /\ Own /\ GrubBound /\ UserNames /\ ScriptsKept /\ BareKept /\ Repeatable
      /\ LinesKnown /\ ConfigKnown /\ Halfway /\ Left
  BY DEF ImplementsInv, RepeatInv
<1>2. RepeatInv'
  BY <1>1, TypeNext, OwnStep, GrubBoundStep, UserNamesStep, ScriptsKeptStep, BareKeptStep,
    RepeatableStep DEF RepeatInv
<1>3. LinesKnown' /\ ConfigKnown' /\ Halfway' /\ Left'
  BY <1>1, LinesKnownStep, HalfwayStep, LeftStep
<1>4. Promised!Independent' = Promised!Independent /\ Promised!OneNumber' = Promised!OneNumber
  BY <1>1, RecipeStays, AfterSame
<1>5. ASSUME Promised!Independent PROVE Current'
  <2>1. Current
    BY <1>5 DEF ImplementsInv
  <2>. QED
    BY <1>1, <1>5, <2>1, CurrentStep
<1>6. ASSUME Promised!OneNumber PROVE UsersSame'
  <2>1. UsersSame
    BY <1>6 DEF ImplementsInv
  <2>. QED
    BY <1>1, <1>6, <2>1, UsersSameStep
<1>. QED
  BY <1>2, <1>3, <1>4, <1>5, <1>6 DEF ImplementsInv

(* After the last step, nothing is left that could differ.                 *)
LEMMA AllDone ==
  ASSUME ImplementsInv, pc = "step", at \notin DOMAIN recipe.post,
         Promised!Independent, Promised!OneNumber
  PROVE  LET all == Promised!After[Len(recipe.post)]
         IN  /\ IsFiles(root) /\ IsFiles(all)
             /\ \A file \in Files \ {"content", "defaults"} : root[file] = all[file]
             /\ root.content = "ready"
             /\ Sourced(root.defaults.lines) = Sourced(all.defaults.lines)
             /\ root.defaults = [lines |-> root.defaults.lines, bare |-> all.defaults.bare]
             /\ all.defaults = [lines |-> all.defaults.lines, bare |-> all.defaults.bare]
<1>. DEFINE N == Len(recipe.post)
<1>1. /\ TypeInv /\ ScriptsKept /\ LinesKnown /\ Current /\ UsersSame
      /\ recipe \in Recipes /\ image \in Images
  BY DEF ImplementsInv, RepeatInv, TypeInv, TypeOK
<1>2. N \in Nat /\ at = N + 1
  <2>1. N \in Nat /\ DOMAIN recipe.post = 1..N
    BY <1>1, PostIsSequence
  <2>2. at \in 1..N + 1
    BY <1>1, <2>1 DEF TypeInv, TypeOK, Belongs
  <2>. QED
    BY <2>1, <2>2
<1>3. base = Promised!After[N] /\ AfterGood(N)
  <2>1. at - 1 = N /\ N \in 0..N
    BY <1>2
  <2>. QED
    BY <1>1, <2>1, AfterFiles DEF base
<1>4. Undone = {}
  BY <1>2 DEF Undone, Due
<1>5. root.content = "ready" /\ Like(Files, root, base, {})
  BY <1>1, <1>4 DEF Current, InSteps
<1>6. /\ \A op : Acts({}, op) = {}
      /\ Marks({}) = {} /\ Unwanted({}) = {} /\ Codes({}) = {} /\ Added({}) = {} /\ NewKeys({}) = {}
  BY DEF Acts, Marks, Unwanted, Codes, Added, NewKeys
<1>7. base.scripts \subseteq root.scripts /\ root.users = base.users
  BY <1>1 DEF ScriptsKept, UsersSame, InSteps, Removing, Adding
<1>8. ASSUME NEW file \in Files \ {"content", "defaults"} PROVE root[file] = base[file]
  <2>1. Part(file, root, base, {})
    BY <1>5 DEF Like
  <2>2. CASE file \in Replaced
    BY <1>6, <2>1, <2>2 DEF Part
  <2>3. CASE file \in {"marks", "packages", "localegen"}
    BY <1>6, <2>1, <2>3 DEF Part
  <2>4. CASE file \in {"scripts", "users"}
    BY <1>6, <1>7, <2>1, <2>4 DEF Part
  <2>. QED
    BY <2>2, <2>3, <2>4 DEF Files, Replaced
<1>9. Part("defaults", root, base, {})
  BY <1>5 DEF Like, Files
<1>10. /\ \A key : SameFor(root.defaults.lines, base.defaults.lines, key)
       /\ root.defaults.bare = base.defaults.bare
  BY <1>6, <1>9 DEF Part
<1>11. GoodDefaults(root.defaults) /\ GoodDefaults(base.defaults) /\ IsFiles(base)
  BY <1>1, <1>3 DEF LinesKnown, AfterGood
<1>12. Sourced(root.defaults.lines) = Sourced(base.defaults.lines)
  BY <1>10, <1>11, SourcedAlike DEF GoodDefaults
<1>13. /\ root.defaults = [lines |-> root.defaults.lines, bare |-> base.defaults.bare]
       /\ base.defaults = [lines |-> base.defaults.lines, bare |-> base.defaults.bare]
  BY <1>10, <1>11 DEF GoodDefaults
<1>14. IsFiles(root)
  BY <1>1, RootIsFiles
<1>. QED
  BY <1>3, <1>5, <1>8, <1>11, <1>12, <1>13, <1>14

LEMMA SameMeaning ==
  ASSUME NEW s, NEW t, IsFiles(s), IsFiles(t),
         \A file \in Files \ {"content", "defaults"} : s[file] = t[file],
         s.content = "ready", Sourced(s.defaults.lines) = Sourced(t.defaults.lines),
         s.defaults = [lines |-> s.defaults.lines, bare |-> t.defaults.bare],
         t.defaults = [lines |-> t.defaults.lines, bare |-> t.defaults.bare]
  PROVE  [s EXCEPT !.defaults.lines = Sourced(@)]
           = Promised!Meaning([t EXCEPT !.content = "ready"])
<1>. DEFINE read == [lines |-> Sourced(t.defaults.lines), bare |-> t.defaults.bare]
            u == [t EXCEPT !["content"] = "ready"]
<1>1. DOMAIN s = Files /\ DOMAIN t = Files /\ "content" \in Files /\ "defaults" \in Files
  BY DEF IsFiles, Files
<1>2. [s EXCEPT !.defaults.lines = Sourced(@)] = [s EXCEPT !["defaults"] = read]
  <2>1. [s.defaults EXCEPT !.lines = Sourced(@)] = read
    OBVIOUS
  <2>. QED
    BY <2>1
<1>3. u.defaults = t.defaults
  BY <1>1
<1>4. Promised!Meaning(u) = [u EXCEPT !["defaults"] = read]
  <2>. HIDE DEF u
  <2>1. [u.defaults EXCEPT !.lines = Sourced(@)] = read
    BY <1>3
  <2>. QED
    BY <2>1 DEF Promised!Meaning
<1>. HIDE DEF read
<1>5. \A file \in Files : [s EXCEPT !["defaults"] = read][file] =
         [u EXCEPT !["defaults"] = read][file]
  BY <1>1
<1>6. [s EXCEPT !["defaults"] = read] = [u EXCEPT !["defaults"] = read]
  <2>. DEFINE a == [s EXCEPT !["defaults"] = read]
              b == [u EXCEPT !["defaults"] = read]
  <2>1. a = [file \in Files |-> a[file]] /\ b = [file \in Files |-> b[file]]
    BY <1>1
  <2>2. \A file \in Files : a[file] = b[file]
    BY <1>5
  <2>. HIDE DEF a, b
  <2>3. a = b
    BY <2>1, <2>2
  <2>. QED
    BY <2>3 DEF a, b
<1>. QED
  BY <1>2, <1>4, <1>6

LEMMA EndsByFinish ==
  ASSUME TypeInv, Next, pc' = "done"
  PROVE  Finish
<1>1. RunPostInstall => pc' # "done"
  <2>1. RunPostInstall /\ pc \in Commands => pc' # "done"
    BY CommandLeads DEF OnTo, Commands
  <2>. QED
    BY <2>1, CommandOrDispatch, DispatchRow DEF Dispatched, Firsts
<1>. QED
  BY <1>1 DEF Next, Begin, RunSetup, SetupMountpoints, CopyRefused, Copy, Initramfs,
    InitramfsBroken, PostInstallation, Fail, Unmount, Reboot, Phase

LEMMA ImplementsNext ==
  ASSUME ImplementsInv, [Next]_vars
  PROVE  [Promised!Next]_<<recipe.post, image.system,
            IF pc = "done" THEN "installed" ELSE "open",
            [sites.root EXCEPT !.defaults.lines = Sourced(@)]>>
<1>1. TypeInv
  BY DEF ImplementsInv, RepeatInv
<1>2. UNCHANGED <<recipe.post, image.system>>
  BY <1>1, RecipeStays
<1>3. CASE UNCHANGED vars
  BY <1>3 DEF vars
<1>4. CASE Next /\ pc' # "done"
  BY <1>2, <1>4 DEF Promised!Next, Promised!Open
<1>5. CASE Next /\ pc' = "done"
  <2>1. Finish
    BY <1>1, <1>5, EndsByFinish
  <2>2. pc = "step" /\ at \notin DOMAIN recipe.post /\ root' = root
    BY <2>1 DEF Finish, root
  <2>3. ASSUME Promised!Independent, Promised!OneNumber
        PROVE  [root EXCEPT !.defaults.lines = Sourced(@)]
                 = Promised!Meaning([Promised!After[Len(recipe.post)] EXCEPT !.content = "ready"])
    BY <2>2, <2>3, AllDone, SameMeaning
  <2>4. [sites.root EXCEPT !.defaults.lines = Sourced(@)]'
          = [root EXCEPT !.defaults.lines = Sourced(@)]
    BY <2>2 DEF root
  <2>5. Promised!Install
    BY <1>5, <2>2, <2>3, <2>4 DEF Promised!Install
  <2>. QED
    BY <1>2, <2>5 DEF Promised!Next
<1>. QED
  BY <1>3, <1>4, <1>5

(* The refinement, Implements: whenever a run ends without an error, the   *)
(* root holds the image with the recipe's Chroot steps applied in order,   *)
(* whatever earlier runs over the same root have copied, configured or     *)
(* broken off (recipe.go, post_install.go, grub.go).                       *)
THEOREM InstallsAsPromised == Spec => Implements
<1>1. Init => Promised!Init
  BY DEF Init, Promised!Init
<1>2. Spec => []ImplementsInv
  BY ImplementsInit, ImplementsStep, PTL DEF Spec
<1>. QED
  BY <1>1, <1>2, ImplementsNext, PTL DEF Spec, Implements, Promised!Spec
===============================================================================
