------------------------------ MODULE LvmReports ------------------------------
(***************************************************************************)
(* What the program makes of the reports of pvs, vgs and lvs.  LVM puts    *)
(* two blanks before every row unless lvm.conf says otherwise (`prefixed`) *)
(* and RunCommand trims the output as a whole: the first row loses its     *)
(* blanks, all others keep them.  Which row comes first depends on LVM's   *)
(* order of names, which is left open here.                                *)
(***************************************************************************)

(* The rows whose first field is the name that LVM printed.  Pvs skips the *)
(* others, which do not begin with "/"; Vgs and Lvs take them with the     *)
(* blanks as part of the name, which is then nobody's.                     *)
Intact(rows, prefixed) ==
  IF prefixed /\ rows # {} THEN {{row} : row \in rows} ELSE {rows}
==============================================================================
