--------------------------- MODULE MCArtPipeline ---------------------------
(***************************************************************************)
(* Instances of ArtPipeline: one title, addressed by name or by serial, its *)
(* cover filed under one of two names.                                      *)
(***************************************************************************)
EXTENDS ArtPipeline, TLC

CONSTANTS title, good, bad, artName, oldName

MCFiled == [t \in Titles |-> {artName}]
MCNoCover == [t \in Titles |-> {}]
MCNotFiled == [t \in Titles |-> {}]
MCGoodCover == [t \in Titles |-> {good}]
MCAnyCover == [t \in Titles |-> {good, bad}]
MCSymmetry == Permutations(Requests) \cup Permutations(Options)
=============================================================================
