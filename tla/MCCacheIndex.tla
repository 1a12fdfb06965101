---------------------------- MODULE MCCacheIndex ----------------------------
(* Small instances of CacheIndex for TLC.                                    *)
EXTENDS CacheIndex, TLC

\* An original's size goes with its content; a render may be encoded anew: the
\* one that is not read is now within its budget alone, now over it.
MCSizesOf == [k \in Keys |-> IF k \in Originals \cup ReadKeys THEN {2} ELSE {1, 3}]
\* Over its layer's budget alone, so that every sweep evicts what it finds.
MCOversize == [k \in Keys |-> {2}]

\* Two bytes, swept down to one, and one byte without hysteresis.
MCBudget == [kind \in Kinds |-> 2]
MCLowWater == [kind \in Kinds |-> 1]

\* Requests are alike, and so are owners; sound for the invariants only.
MCSymmetry == Permutations(Writers) \cup Permutations(Admins)
=============================================================================
