------------------------------- MODULE MCAlbius -------------------------------
(* Recipes that use every operation, the template's among them, and some   *)
(* that cannot be carried out; images with and without /etc/default/grub.  *)
EXTENDS Albius

EmptySystem ==
  [content |-> "none", users |-> <<>>, packages |-> {}, timezone |-> "none",
   localtime |-> "none", hostname |-> "none", hosts |-> "none", localegen |-> {},
   locales |-> {}, locale |-> "none", keyboard |-> "none", console |-> "none",
   defaults |-> [lines |-> <<>>, bare |-> FALSE], scripts |-> {}, loader |-> "none",
   menu |-> [settings |-> <<>>, scripts |-> {}], marks |-> {}]

Account(name, fullname, groups, password, uid, gid) ==
  [name |-> name, fullname |-> fullname, groups |-> groups, password |-> password,
   uid |-> uid, gid |-> gid]

System(user, lines, bare) ==
  [EmptySystem EXCEPT !.users = [name \in {user} |-> Account(user, user, {}, "x", "0", "0")],
                      !.packages = {"base", "installer"}, !.localegen = {"C"},
                      !.scripts = {"10_linux"},
                      !.defaults = [lines |-> lines, bare |-> bare]]
Line(key, text, uses) == [key |-> key, text |-> text, uses |-> uses]

Live == System("live", <<Line("TIMEOUT", "5", "")>>, FALSE)

Shipped == {"users", "packages", "localegen", "scripts"}
WithDefaults(lines, bare) ==
  [system |-> System("root", lines, bare), ships |-> Shipped \cup {"defaults"}]
SomeImages ==
  {[system |-> System("root", <<>>, FALSE), ships |-> Shipped],
   WithDefaults(<<Line("TIMEOUT", "5", ""), Line("DISTRIBUTOR", "vos", "")>>, FALSE),
   WithDefaults(<<Line("TIMEOUT", "5", ""), Line("STYLE", "menu", "TIMEOUT")>>, FALSE),
   WithDefaults(<<Line("TIMEOUT", "5", "")>>, TRUE)}

User(chroot, name, groups, password, gid) ==
  [chroot |-> chroot, op |-> "adduser",
   account |-> Account(name, "Default", groups, password,
                       IF gid = "auto" THEN "1200" ELSE "auto", gid)]
Timezone(chroot) == [chroot |-> chroot, op |-> "timezone", tz |-> "Sao_Paulo"]
Packages == [chroot |-> TRUE, op |-> "pkgremove", unwanted |-> {"installer"}]
Hostname == [chroot |-> TRUE, op |-> "hostname", name |-> "vanilla"]
Locale(code) == [chroot |-> TRUE, op |-> "locale", code |-> code]
Keyboard(chroot) == [chroot |-> chroot, op |-> "keyboard", layout |-> "us"]
Commands2(chroot) == [chroot |-> chroot, op |-> "shell", commands |-> <<"mkdir", "cp">>]
Swap == [chroot |-> TRUE, op |-> "swapon", partition |-> "sda5"]
Grub(chroot, target, removable, device) ==
  [chroot |-> chroot, op |-> "grub-install", boot |-> "root", target |-> target,
   entry |-> "vanilla", removable |-> removable, efiDevice |-> device]
Defaults(chroot, bare) ==
  [chroot |-> chroot, op |-> "grub-default-config", bare |-> bare,
   lines |-> <<Line("TIMEOUT", "0", ""), Line("STYLE", "hidden", "")>>]
AddScripts(scripts) == [chroot |-> TRUE, op |-> "grub-add-script", scripts |-> scripts]
RemoveScripts(script) ==
  [chroot |-> TRUE, op |-> "grub-remove-script", scripts |-> <<"10_linux", script>>]
Mkconfig(chroot) == [chroot |-> chroot, op |-> "grub-mkconfig"]

Template == <<Packages, User(TRUE, "default", {"sudo"}, "password", "auto"), Timezone(TRUE),
              Hostname, Grub(TRUE, "efi", FALSE, "sda2"), Defaults(TRUE, FALSE),
              Mkconfig(TRUE)>>
Vanilla == <<Commands2(FALSE), Grub(FALSE, "efi", FALSE, "sda2"), Grub(TRUE, "efi", TRUE, ""),
             Mkconfig(TRUE), Locale("en_US"), Keyboard(TRUE), Swap, Commands2(TRUE),
             User(TRUE, "vanilla", {}, "", "1300")>>
Scripted == <<Grub(TRUE, "bios", FALSE, ""), AddScripts(<<"06_a", "07_b">>),
              AddScripts(<<>>), RemoveScripts("06_a"), Locale("pt_BR"), Locale("en_US"), Mkconfig(TRUE)>>
OnTheHost == <<User(FALSE, "guest", {}, "password", "auto"), Timezone(FALSE), Keyboard(FALSE),
               Defaults(FALSE, FALSE), Mkconfig(FALSE)>>
Infeasible ==
  {<<User(TRUE, "root", {}, "", "auto")>>, <<Locale("xx_XX")>>, <<Grub(TRUE, "efi", FALSE, "")>>,
   <<Grub(TRUE, "uefi", TRUE, "sda2")>>, <<Defaults(TRUE, TRUE)>>,
   <<RemoveScripts("99_none")>>, <<RemoveScripts("10_linux")>>, <<Mkconfig(TRUE)>>}

RecipeOf(post, formats, method) == [post |-> post, formats |-> formats, method |-> method]
SomeRecipes ==
  {RecipeOf(Template, FALSE, "unsquashfs"), RecipeOf(Vanilla, TRUE, "oci"),
   RecipeOf(Vanilla, FALSE, "oci"), RecipeOf(Scripted, FALSE, "unsquashfs"),
   RecipeOf(OnTheHost, TRUE, "unsquashfs")}
    \cup {RecipeOf(post, FALSE, "unsquashfs") : post \in Infeasible}
===============================================================================
