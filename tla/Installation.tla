----------------------------- MODULE Installation -----------------------------
(***************************************************************************)
(* What an installation promises: at some moment the system in the root is *)
(* the image with the recipe's post-installation steps applied to it, in   *)
(* order and each as a whole.  How often the installer was started before  *)
(* that, and where it failed, makes no difference.                         *)
(***************************************************************************)
EXTENDS Naturals, SequencesExt

CONSTANTS
  Supported,    \* the locales the image supports
  Sourced(_)    \* what a shell reads from the lines of /etc/default/grub

VARIABLES
  post,         \* the recipe's PostInstallation
  image,        \* the system in the image
  phase,        \* "open" or "installed"
  system        \* the system in the root, see Meaning

(* A system as its user sees it: the settings, not how they are written.   *)
Meaning(s) == [s EXCEPT !.defaults.lines = Sourced(@)]

InRoot(step) == step.chroot \/ (step.op = "grub-install" /\ step.boot = "root")
Rooted(op) == {n \in DOMAIN post : InRoot(post[n]) /\ post[n].op = op}

(* The lines of /etc/default/grub may be put in any order, and all but the *)
(* last for a key left out, when none uses another.                        *)
Lines == ToSet(image.defaults.lines)
           \cup UNION {ToSet(post[n].lines) : n \in Rooted("grub-default-config")}
Independent == \A line, other \in Lines : line.uses # other.key

(* No account is given both a UID and a GID.                               *)
OneNumber ==
  \A n \in Rooted("adduser") : "auto" \in {post[n].account.uid, post[n].account.gid}

(* What each operation is documented to do.                                *)
Effect(s, step) ==
  IF ~InRoot(step) THEN s ELSE
  CASE step.op = "adduser" ->
         [s EXCEPT !.users = [name \in DOMAIN @ \cup {step.account.name} |->
            IF name = step.account.name THEN step.account ELSE @[name]]]
    [] step.op = "timezone"  -> [s EXCEPT !.timezone = step.tz, !.localtime = step.tz]
    [] step.op = "shell"     -> [s EXCEPT !.marks = @ \cup ToSet(step.commands)]
    [] step.op = "pkgremove" -> [s EXCEPT !.packages = @ \ step.unwanted]
    [] step.op = "hostname"  -> [s EXCEPT !.hostname = step.name, !.hosts = step.name]
    [] step.op = "locale"    -> [s EXCEPT !.locale = step.code,
                                          !.localegen = @ \cup {step.code},
                                          !.locales = s.localegen \cup {step.code}]
    [] step.op = "keyboard"  -> [s EXCEPT !.keyboard = step.layout, !.console = step.layout]
    [] step.op = "grub-install" -> [s EXCEPT !.loader = step.target]
    [] step.op = "grub-default-config" -> [s EXCEPT !.defaults.lines = @ \o step.lines]
    [] step.op = "grub-add-script"     -> [s EXCEPT !.scripts = @ \cup ToSet(step.scripts)]
    [] step.op = "grub-remove-script"  -> [s EXCEPT !.scripts = @ \ ToSet(step.scripts)]
    [] step.op = "grub-mkconfig" ->
         [s EXCEPT !.menu = [settings |-> Sourced(s.defaults.lines), scripts |-> s.scripts]]
    [] OTHER -> s

(* The root after the first n steps.                                       *)
After[n \in 0..Len(post)] == IF n = 0 THEN image ELSE Effect(After[n - 1], post[n])

(* Can the n-th step, one with Chroot, be done in an installation that is  *)
(* made in one go?  grub-mkconfig needs what grub-install has set up, and  *)
(* no script can be removed twice.                                         *)
Feasible(n) ==
  LET s == After[n - 1]
      step == post[n]
  IN  CASE step.op = "adduser" -> step.account.name \notin DOMAIN s.users
        [] step.op = "locale"  -> step.code \in Supported
        [] step.op = "grub-install" ->
             /\ step.target \in {"bios", "efi"}
             /\ step.target = "efi" /\ ~step.removable => step.efiDevice # ""
        [] step.op = "grub-default-config" -> ~s.defaults.bare /\ ~step.bare
        [] step.op = "grub-remove-script"  ->
             ToSet(step.scripts) \subseteq s.scripts /\ IsInjective(step.scripts)
        [] step.op = "grub-mkconfig" ->
             \E m \in 1..n - 1 : post[m].op = "grub-install" /\ post[m].chroot
        [] OTHER -> TRUE

-----------------------------------------------------------------------------
Init == phase = "open"

Open == phase' = "open"

Install ==
  /\ phase = "open" /\ phase' = "installed"
  /\ Independent /\ OneNumber =>
       system' = Meaning([After[Len(post)] EXCEPT !.content = "ready"])

Next == UNCHANGED <<post, image>> /\ (Open \/ Install)

Spec == Init /\ [][Next]_<<post, image, phase, system>>
===============================================================================
