------------------------------- MODULE LvmAttrs -------------------------------
(***************************************************************************)
(* How the attribute strings of pvs, vgs and lvs become numbers, and what  *)
(* the predicates on Pv and Vg read back from them.  A string is a         *)
(* sequence of characters, so that Go's attrStr[i] is attr[i + 1].         *)
(***************************************************************************)
EXTENDS Integers, Sequences, SequencesExt

(* A group of constants 1 << iota is the sequence of what they stand for.  *)
BitOf(consts, x) == 2 ^ (CHOOSE i \in DOMAIN consts : consts[i] = x) \div 2

(* attr & bit > 0                                                          *)
HasBit(attr, bit) == (attr \div bit) % 2 = 1

AttrOf(consts, on) == FoldSet(LAMBDA x, sum : sum + BitOf(consts, x), 0, on)

Invalid == -1

-----------------------------------------------------------------------------
PvBits == <<"missing", "exported", "duplicate", "allocatable", "used">>

PvAllocation == [c \in {"d", "a", "u"} |->
  CASE c = "d" -> "duplicate" [] c = "a" -> "allocatable" [] c = "u" -> "used"]

(* parsePvAttrs: the first character has one of three meanings, the others *)
(* are set or not.                                                         *)
ParsePvAttrs(attr) ==
  LET on == {x \in {"missing"} : attr[3] # "-"}
            \cup {x \in {"exported"} : attr[2] # "-"}
            \cup {PvAllocation[c] : c \in {attr[1]} \cap DOMAIN PvAllocation}
  IN IF attr[1] \in DOMAIN PvAllocation \cup {"-"}
     THEN AttrOf(PvBits, on)
     ELSE Invalid

(* IsMissing, IsExported, IsDuplicate, IsAllocatable and IsUsed of a Pv.   *)
PvIs(attr, x) == HasBit(attr, BitOf(PvBits, x))

-----------------------------------------------------------------------------
VgBits == <<"writable", "readonly", "resizable", "exported", "partial",
            "contiguous", "cling", "normal", "anywhere", "clustered", "shared">>

VgAccess == [c \in {"w", "r"} |-> IF c = "w" THEN "writable" ELSE "readonly"]

VgPolicy == [c \in {"c", "l", "n", "a"} |->
  CASE c = "c" -> "contiguous" [] c = "l" -> "cling"
    [] c = "n" -> "normal" [] c = "a" -> "anywhere"]

VgSharing == [c \in {"c", "s"} |-> IF c = "c" THEN "clustered" ELSE "shared"]

\* A slip: the sharing is read from the position of the policy.
ParseVgAttrsSharing(attr) ==
  LET on == {VgAccess[c] : c \in {attr[1]} \cap DOMAIN VgAccess}
            \cup {x \in {"resizable"} : attr[2] # "-"}
            \cup {x \in {"exported"} : attr[3] # "-"}
            \cup {x \in {"partial"} : attr[4] # "-"}
            \cup {VgPolicy[c] : c \in {attr[5]} \cap DOMAIN VgPolicy}
            \cup {VgSharing[c] : c \in {attr[5]} \cap DOMAIN VgSharing}
  IN IF /\ attr[1] \in DOMAIN VgAccess
        /\ attr[5] \in DOMAIN VgPolicy
        /\ attr[6] \in DOMAIN VgSharing \cup {"-"}
     THEN AttrOf(VgBits, on)
     ELSE Invalid

(* parseVgAttrs: access, resizable, exported, partial, policy, sharing.    *)
ParseVgAttrs(attr) ==
  LET on == {VgAccess[c] : c \in {attr[1]} \cap DOMAIN VgAccess}
            \cup {x \in {"resizable"} : attr[2] # "-"}
            \cup {x \in {"exported"} : attr[3] # "-"}
            \cup {x \in {"partial"} : attr[4] # "-"}
            \cup {VgPolicy[c] : c \in {attr[5]} \cap DOMAIN VgPolicy}
            \cup {VgSharing[c] : c \in {attr[6]} \cap DOMAIN VgSharing}
  IN IF /\ attr[1] \in DOMAIN VgAccess
        /\ attr[5] \in DOMAIN VgPolicy
        /\ attr[6] \in DOMAIN VgSharing \cup {"-"}
     THEN AttrOf(VgBits, on)
     ELSE Invalid

(* IsWritable, IsReadonly, ... IsShared of a Vg.                           *)
VgIs(attr, x) == HasBit(attr, BitOf(VgBits, x))

-----------------------------------------------------------------------------
(* The characters of lv_attr in the order of their constants.              *)
LvVolType     == <<"C", "m", "M", "o", "O", "r", "R", "s", "S", "p", "v", "i",
                   "I", "l", "c", "V", "t", "T", "d", "D", "e">>
LvPermissions == <<"w", "r", "R">>
LvAllocPolicy == <<"a", "c", "i", "l", "n">>
LvState       == <<"a", "h", "s", "I", "S", "m", "M", "d", "i", "c", "C", "X">>
LvDevice      == <<"o", "X">>
LvTargetType  == <<"C", "m", "r", "s", "t", "u", "v">>
LvHealth      == <<"p", "X", "r", "m", "w", "F", "D", "M", "E">>

LvChars == <<LvVolType, LvPermissions, LvAllocPolicy, <<"m">>, LvState,
             LvDevice, LvTargetType, <<"z">>, LvHealth, <<"k">>>>

Fixed  == 4
Blocks == 8
Skip   == 10

\* A slip: only the fields that are looked up in a map are checked.
ParseLvAttrsUnchecked(attr) ==
  LET value(i) == IF attr[i] \in ToSet(LvChars[i]) THEN BitOf(LvChars[i], attr[i]) ELSE 0
  IN IF \A i \in 1..10 \ {Fixed, Blocks, Skip} : attr[i] \in ToSet(LvChars[i]) \cup {"-"}
     THEN [i \in 1..10 |->
             IF i = Fixed THEN value(Fixed) + value(Blocks) + value(Skip)
             ELSE IF i \in {Blocks, Skip} THEN 0 ELSE value(i)]
     ELSE <<>>

(* parseLvAttrs.  The constants of the fixed minor number, of the zeroed   *)
(* blocks and of the skipped activation are all 1, and all three are added *)
(* to the field of the first.                                              *)
ParseLvAttrs(attr) ==
  LET value(i) == IF attr[i] = "-" THEN 0 ELSE BitOf(LvChars[i], attr[i])
  IN IF \A i \in 1..10 : attr[i] \in ToSet(LvChars[i]) \cup {"-"}
     THEN [i \in 1..10 |->
             IF i = Fixed THEN value(Fixed) + value(Blocks) + value(Skip)
             ELSE IF i \in {Blocks, Skip} THEN 0 ELSE value(i)]
     ELSE <<>>
==============================================================================
