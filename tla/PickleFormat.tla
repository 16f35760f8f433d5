---------------------------- MODULE PickleFormat ----------------------------
(***************************************************************************)
(* The byte code of pickles: src/seam/generic/Pickle.hh and PutUInt.       *)
(*                                                                         *)
(* A stream is a sequence of bytes.  A byte is the name of an instruction, *)
(* a digit of a number or a byte of a chunk.                               *)
(***************************************************************************)
EXTENDS Integers, Sequences, SequencesExt

CONSTANT Radix   \* the number of values of a digit (128 in PutUInt)

ASSUME FormatAssumption == Radix \in Nat \ {0, 1}

Num(n) == <<"int", n>>
Ptr(k) == <<"ptr", k>>
IsInt(w) == w[1] = "int"
IsPtr(w) == w[1] = "ptr"

magic == <<"s", "e", "a", "m">>
majorVersion == 5
minorVersion == 0
CellLabel == 1      \* two labels of blocks
TagLabel == 2

\* PutUInt: the digits from the least significant one on, all but the last one
\* with the continuation bit.
RECURSIVE PutUInt(_)
PutUInt(i) == IF i >= Radix THEN <<(i % Radix) + Radix>> \o PutUInt(i \div Radix)
                            ELSE <<i>>

\* The numbers that follow an instruction.
Operands(tag) ==
    CASE tag \in {"STORE", "LOAD", "POSINT", "NEGINT", "CHUNK", "MCHUNK",
                  "TUPLE", "CLOSURE",
                  "aTRANSFORM", "FULFILL"} -> 1
      [] tag \in {"BLOCK", "MBLOCK", "aTUPLE", "aCLOSURE"} -> 2
      [] tag \in {"aBLOCK", "aMBLOCK"} -> 3
      [] OTHER -> 0
=============================================================================
