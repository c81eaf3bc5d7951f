----------------------------- MODULE PostInstall ------------------------------
(***************************************************************************)
(* RunPostInstall: the recipe's steps that configure the installed system, *)
(* with Chroot, or the live system that the installer runs on, without.    *)
(* There is one action for each command or file that an operation goes     *)
(* through.  A command that finds something it cannot work with ends the   *)
(* run as "refused"; any command may also just fail.                       *)
(***************************************************************************)
EXTENDS Naturals, SequencesExt, GrubDefaults

CONSTANT Supported    \* the locales in /usr/share/i18n/SUPPORTED

VARIABLES
  recipe,       \* [formats, method, post]
  image,        \* [system, ships]: what is copied, and which files it has
  sites,        \* the system "live", the one in the "root", and what is in
                \* the live system's own directory "below" the root's mount
  mounted,      \* is the root mounted at RootA?
  binds,        \* how often each of the host's directories is bound into it
  swaps, nvram, \* the active swap partitions and the EFI boot entries
  pc,           \* the next command, or how the run ended
  at,           \* the step of the recipe, 0 before the first
  arg,          \* the argument of the step, or the directory, of a loop
  config        \* the GrubConfig in memory: for each key its line

step == recipe.post[at]

(* targetRoot, and where paths below it lead.                              *)
Target == IF mounted THEN "root" ELSE "below"
Site == IF step.chroot THEN Target ELSE "live"
sys == sites[Site]

RequiredBinds == <<"dev", "pts", "proc", "sys", "run">>

(* The operations of the switch; the last are loops over their parameters, *)
(* of which there may be none.                                             *)
Loops == {"shell", "grub-add-script", "grub-remove-script"}
Operations ==
  Loops \cup {"adduser", "timezone", "pkgremove", "hostname", "locale", "swapon",
             "keyboard", "grub-install", "grub-default-config", "grub-mkconfig"}
Arguments(s) == IF s.op = "shell" THEN s.commands ELSE s.scripts

(* The switch: the first command of each operation.                        *)
FirstOf(s) ==
  CASE s.op = "adduser"      -> "useradd"
    [] s.op = "locale"       -> "grep"
    [] s.op = "grub-install" -> IF s.chroot THEN "bind" ELSE "target"
    [] s.op \in Loops        -> IF Arguments(s) = <<>> THEN "step" ELSE s.op
    [] OTHER                 -> s.op

(* From the command at `from` to the one at `to`; "step" is the end of the *)
(* operation.                                                              *)
Goes(from, to) ==
  /\ pc = from /\ pc' = to
  /\ at' = IF to = "step" THEN at + 1 ELSE at
  /\ arg' = 1
  /\ UNCHANGED <<recipe, image, mounted>>

Keeps == UNCHANGED <<binds, swaps, nvram, config>>

(* The command makes the system s of the one it works on.                  *)
Edits(from, to, s) ==
  /\ Goes(from, to)
  /\ sites' = [sites EXCEPT ![Site] = s]
  /\ Keeps

Refused(from) == Goes(from, "refused") /\ Keeps /\ UNCHANGED sites

\* A slip: a round too many.
RoundOneMore(last, to) ==
  IF arg <= last
  THEN arg' = arg + 1 /\ UNCHANGED <<pc, at, recipe, image, mounted>>
  ELSE Goes(pc, to)

(* The next of a loop's rounds, or the step's end.                         *)
Round(last, to) ==
  IF arg < last
  THEN arg' = arg + 1 /\ UNCHANGED <<pc, at, recipe, image, mounted>>
  ELSE Goes(pc, to)

Dispatch ==
  /\ at \in DOMAIN recipe.post
  /\ Goes("step", FirstOf(step))
  /\ Keeps /\ UNCHANGED sites

-----------------------------------------------------------------------------
(* adduser: useradd && usermod -c, chpasswd, usermod -a -G.                *)
(* --gid replaces --uid in extraArgs.                                      *)
Useradded ==
  [step.account EXCEPT !.fullname = "", !.password = "", !.groups = {},
                       !.uid = IF step.account.gid = "auto" THEN @ ELSE "auto"]

Useradd ==
  /\ pc = "useradd"
  /\ IF step.account.name \in DOMAIN sys.users
     THEN Refused("useradd")
     ELSE Edits("useradd", "comment",
                [sys EXCEPT !.users = [name \in DOMAIN @ \cup {step.account.name} |->
                   IF name = step.account.name THEN Useradded ELSE @[name]]])

SetsUser(from, to, field) ==
  Edits(from, to,
        [sys EXCEPT !.users[step.account.name][field] = step.account[field]])

AfterPassword == IF step.account.groups = {} THEN "step" ELSE "groups"

Comment == SetsUser("comment", IF step.account.password = "" THEN AfterPassword
                               ELSE "chpasswd", "fullname")
Chpasswd  == SetsUser("chpasswd", AfterPassword, "password")
AddGroups == SetsUser("groups", "step", "groups")

(* timezone, hostname: two files, or a file and a link.                    *)
WriteTimezone == Edits("timezone", "localtime", [sys EXCEPT !.timezone = step.tz])
\* A slip: the link is made with RunCommand in either case.
LinkLocaltimeHere ==
  /\ Goes("localtime", "step")
  /\ sites' = [sites EXCEPT !.live.localtime = step.tz]
  /\ Keeps
LinkLocaltime == Edits("localtime", "step", [sys EXCEPT !.localtime = step.tz])
WriteHostname == Edits("hostname", "hosts", [sys EXCEPT !.hostname = step.name])
WriteHosts    == Edits("hosts", "step", [sys EXCEPT !.hosts = step.name])

(* shell: one command after the other; all that is known of one is that it *)
(* was run.                                                                *)
Shell ==
  /\ pc = "shell"
  /\ sites' = [sites EXCEPT ![Site].marks = @ \cup {Arguments(step)[arg]}]
  /\ Round(Len(Arguments(step)), "step")
  /\ Keeps

(* pkgremove: the list is a file of the live system in either case.        *)
RemovePackages ==
  Edits("pkgremove", "step", [sys EXCEPT !.packages = @ \ step.unwanted])

(* locale: look it up, enable it, generate what is enabled, choose it.     *)
GrepSupported ==
  /\ pc = "grep"
  /\ IF step.code \in Supported
     THEN Edits("grep", "sed", sys)
     ELSE Refused("grep")
SedLocaleGen == Edits("sed", "locale-gen", [sys EXCEPT !.localegen = @ \cup {step.code}])
LocaleGen    == Edits("locale-gen", "default-locale", [sys EXCEPT !.locales = sys.localegen])
WriteLocale  == Edits("default-locale", "step", [sys EXCEPT !.locale = step.code])

(* keyboard: setupcon saves what the file says.                            *)
WriteKeyboard == Edits("keyboard", "setupcon", [sys EXCEPT !.keyboard = step.layout])
Setupcon      == Edits("setupcon", "step", [sys EXCEPT !.console = sys.keyboard])

(* swapon: the same partition, and the same swap, from either system.      *)
Swapon ==
  /\ pc = "swapon"
  /\ IF step.partition \in swaps
     THEN Refused("swapon")
     ELSE /\ Goes("swapon", "step")
          /\ swaps' = swaps \cup {step.partition}
          /\ UNCHANGED <<sites, binds, nvram, config>>

-----------------------------------------------------------------------------
(* GRUB.  The binds come before the parameters are looked at, and stay.    *)
BindForGrub ==
  /\ pc = "bind"
  /\ binds' = [binds EXCEPT ![RequiredBinds[arg]] = @ + 1]
  /\ Round(Len(RequiredBinds), "target")
  /\ UNCHANGED <<sites, swaps, nvram, config>>

GetGrubTarget ==
  /\ pc = "target"
  /\ IF step.target \in {"bios", "efi"}
     THEN Edits("target", "grub-install", sys)
     ELSE Refused("target")

\* A slip: the binds are undone here, as UpdateInitramfs undoes its own.
GrubInstallUnbinding ==
  /\ Goes("grub-install",
          IF step.target = "efi" /\ ~step.removable THEN "efibootmgr" ELSE "step")
  /\ sites' = [sites EXCEPT ![IF step.boot = "root" THEN Target ELSE Site].loader
                 = step.target]
  /\ binds' = [dir \in DOMAIN binds |-> 0]
  /\ UNCHANGED <<swaps, nvram, config>>

(* --boot-directory leads to the root in either system.                    *)
GrubInstall ==
  /\ Goes("grub-install",
          IF step.target = "efi" /\ ~step.removable THEN "efibootmgr" ELSE "step")
  /\ sites' = [sites EXCEPT ![IF step.boot = "root" THEN Target ELSE Site].loader
                 = step.target]
  /\ Keeps

Efibootmgr ==
  /\ pc = "efibootmgr"
  /\ IF step.efiDevice = ""
     THEN Refused("efibootmgr")
     ELSE /\ Goes("efibootmgr", "step")
          /\ nvram' = nvram \cup {step.entry}
          /\ UNCHANGED <<sites, binds, swaps, config>>

(* kv[1] is out of range for a line, or a parameter, without a "=".        *)
GetGrubConfig ==
  /\ pc = "grub-default-config"
  /\ IF sys.defaults.bare \/ step.bare
     THEN Refused("grub-default-config")
     ELSE /\ Goes("grub-default-config", "write-config")
          /\ config' = Mapped(sys.defaults.lines \o step.lines)
          /\ UNCHANGED <<sites, binds, swaps, nvram>>

(* The file with the lines of some keys, in any order: `range` over a map. *)
Written(keys, bare) ==
  {[sys EXCEPT !.defaults = [lines |-> [n \in DOMAIN order |-> config[order[n]]],
                             bare |-> bare]] :
     order \in SetToSeqs(keys)}

WritesConfig(to, systems) ==
  /\ Goes("write-config", to)
  /\ \E s \in systems : sites' = [sites EXCEPT ![Site] = s]
  /\ config' = <<>>
  /\ UNCHANGED <<binds, swaps, nvram>>

WriteGrubConfig == WritesConfig("step", Written(DOMAIN config, FALSE))

(* os.WriteFile empties the file first and may end in the middle of a line. *)
WriteBroken ==
  WritesConfig("failed",
    UNION {Written(some, bare) : some \in SUBSET DOMAIN config \ {DOMAIN config},
                                 bare \in BOOLEAN})

Scripts(from, scripts) ==
  /\ pc = from
  /\ sites' = [sites EXCEPT ![Site].scripts = scripts]
  /\ Round(Len(Arguments(step)), "step")
  /\ Keeps

AddGrubScript == Scripts("grub-add-script", sys.scripts \cup {Arguments(step)[arg]})

RemoveGrubScript ==
  /\ pc = "grub-remove-script"
  /\ IF Arguments(step)[arg] \notin sys.scripts
     THEN Refused("grub-remove-script")
     ELSE Scripts("grub-remove-script", sys.scripts \ {Arguments(step)[arg]})

(* grub-mkconfig looks up the root's device, in a chroot with what is      *)
(* bound into it, and reads the scripts and the settings.                  *)
Menu == [settings |-> Sourced(sys.defaults.lines), scripts |-> sys.scripts]

RunGrubMkconfig ==
  /\ pc = "grub-mkconfig"
  /\ IF step.chroot /\ \E dir \in {"dev", "proc", "sys"} : binds[dir] = 0
     THEN Refused("grub-mkconfig")
     ELSE Edits("grub-mkconfig", "step", [sys EXCEPT !.menu = Menu])

-----------------------------------------------------------------------------
Commands == {"useradd", "comment", "chpasswd", "groups", "timezone", "localtime",
             "hostname", "hosts", "shell", "pkgremove", "grep", "sed", "locale-gen",
             "default-locale", "swapon", "keyboard", "setupcon", "bind", "target",
             "grub-install", "efibootmgr", "grub-default-config", "write-config",
             "grub-add-script", "grub-remove-script", "grub-mkconfig"}

AddUser == Useradd \/ Comment \/ Chpasswd \/ AddGroups
SetTimezone == WriteTimezone \/ LinkLocaltime
ChangeHostname == WriteHostname \/ WriteHosts
SetLocale == GrepSupported \/ SedLocaleGen \/ LocaleGen \/ WriteLocale
SetKeyboardLayout == WriteKeyboard \/ Setupcon
RunGrubInstall == BindForGrub \/ GetGrubTarget \/ GrubInstall \/ Efibootmgr
GrubDefaultConfig == GetGrubConfig \/ WriteGrubConfig \/ WriteBroken

RunPostInstall ==
  \/ Dispatch \/ AddUser \/ SetTimezone \/ Shell \/ RemovePackages \/ ChangeHostname
  \/ SetLocale \/ Swapon \/ SetKeyboardLayout \/ RunGrubInstall \/ GrubDefaultConfig
  \/ AddGrubScript \/ RemoveGrubScript \/ RunGrubMkconfig
===============================================================================
