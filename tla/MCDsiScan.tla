----------------------------- MODULE MCDsiScan -----------------------------
EXTENDS DsiScan

\* A card with the launchers' directory, a game beside it, and a directory with a
\* compressed game, a DS game whose name differs from the first one's in its
\* extension only, and a directory one level too deep.  The two directories that
\* are not walked hold games of the names of walked ones.
MCListing == [root |-> <<"own", "sub", "a.gba">>,
              sub |-> <<"b.lz77.gba", "a.nds", "sub2">>,
              sub2 |-> <<"sub2/b.lz77.gba">>,
              own |-> <<"own/a.nds">>]
MCNds == {"a.nds", "own/a.nds"}
MCLz77 == {"b.lz77.gba", "sub2/b.lz77.gba"}
MCCoverPath == [l \in {0, 2} |->
    [rom \in Rom |-> IF rom \in MCLz77 THEN "b.lz77.gba"
                     ELSE IF l = 0 /\ rom \in MCNds THEN "a.nds" ELSE "a.gba"]]
MCOption(launcher, overwrite, quick) == [launcher |-> launcher, overwrite |-> overwrite, quick |-> quick]
MCOptions == {MCOption(0, FALSE, FALSE), MCOption(0, FALSE, TRUE), MCOption(2, FALSE, FALSE), MCOption(2, TRUE, FALSE)}
MCCover == {"a.gba", "b.lz77.gba", "a.nds"}
=============================================================================
