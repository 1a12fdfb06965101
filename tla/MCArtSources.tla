---------------------------- MODULE MCArtSources ----------------------------
(* An instance of ArtSources: a title that two upstreams may know and one   *)
(* that has a serial only, and an embedded cover to fall back on.            *)
EXTENDS ArtSources

MCWalk == [f1 |-> <<"gametdb", "libretro">>, f2 |-> <<"gametdb", "libretro", "dsiware">>]
MCUrls == [gametdb |-> 2, libretro |-> 2, dsiware |-> 1]
=============================================================================
