----------------------------- MODULE GrubDefaults -----------------------------
(***************************************************************************)
(* The settings in /etc/default/grub: as a file of lines, a map, and a     *)
(* shell's variables.  A line is KEY=text, and the text may use what       *)
(* another key has been given.                                             *)
(***************************************************************************)
EXTENDS Integers, SequencesExt

Keys(lines) == {lines[k].key : k \in DOMAIN lines}

(* The last of the first n lines that is for the key, 0 if none is.        *)
LastFor(lines, key, n) == Max({0} \cup {k \in 1..n : lines[k].key = key})

(* grub-mkconfig has a shell read the file, from the first line on.        *)
Sourced(lines) ==
  LET value[n \in 0..Len(lines)] ==
        IF n = 0 THEN <<>>
        ELSE <<lines[n].text>> \o value[LastFor(lines, lines[n].uses, n - 1)]
  IN  [key \in Keys(lines) |-> value[LastFor(lines, key, Len(lines))]]

\* A slip: a key that is in the file is left as it is.
MappedOnce(lines) ==
  [key \in Keys(lines) |-> lines[Min({k \in DOMAIN lines : lines[k].key = key})]]

(* A map from keys to lines: the last for a key is kept.                   *)
Mapped(lines) == [key \in Keys(lines) |-> lines[LastFor(lines, key, Len(lines))]]
===============================================================================
