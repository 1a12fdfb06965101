------------------------------- MODULE DsiScan -------------------------------
(***************************************************************************)
(* One run over the card (main.c): the walk, the request for each ROM's      *)
(* cover, the CRC and the second request after a miss, the counters and the  *)
(* history shown at its end.  The HTTP layer is its contract, ArtTransfer;   *)
(* the CRC of an ".lz77" ROM is Lz77's decoder, step by step.                *)
(***************************************************************************)
EXTENDS Lz77, Integers, FiniteSets, SequencesExt

CONSTANTS
    Cover, Formats,             \* as in ArtTransfer
    Dir, Root, Listing,         \* the card: each directory's entries, in order
    BuiltinRom, ServedRom,      \* the files the compiled and the served lists take for ROMs
    OwnDir,                     \* the launchers' directories, this app's output
    BuiltinRoot, ServedRoot,    \* directories skipped at the root
    ServedSkip,                 \* directories skipped anywhere
    NoRom,                      \* none of them
    Compressed, DsRom,          \* ".lz77.<ext>" names; names with a DS extension
    CoverPath,                  \* each launcher's path of each ROM's cover
    MaxDepth,                   \* MAX_DEPTH: the deepest directory walked
    Servable,                   \* the sets of lists an answer may fill
    Options,                    \* what the options menu may leave a run with
    MaxResults                  \* MAX_SCAN_RESULTS: 4096

VARIABLES
    card, call,                 \* see ArtTransfer
    config,                     \* g_config: launcher, overwrite, quick_scan
    lists,                      \* the g_server_* lists that are not empty
    scan,                       \* the walk's and fetch_art's locals, and "aborted"
    counters,
    results, complete,          \* scan_results, scan_history_complete
    seen, shut                  \* history: ROMs come to, directories that did not open

Http == INSTANCE ArtTransfer
scanVars == <<scan, counters, results, complete, seen, shut>>
vars == <<card, call, config, lists, lzVars, scanVars>>

Rom == BuiltinRom \cup ServedRom

ASSUME CardAssumption ==
    /\ Root \in Dir /\ NoRom \notin Rom
    /\ DOMAIN Listing = Dir /\ \A dir \in Dir : Listing[dir] \in Seq(ToSet(Listing[dir]))
\* An entry stands for its path: the root is nobody's entry, and no two are one.
ASSUME TreeAssumption ==
    \A dir \in Dir : \A i \in DOMAIN Listing[dir] :
        /\ Listing[dir][i] # Root
        /\ \A other \in Dir : \A j \in DOMAIN Listing[other] :
            Listing[dir][i] = Listing[other][j] => dir = other /\ i = j
\* Every ROM has a cover's path under every launcher, and the lists are no cover.
ASSUME CoverAssumption ==
    /\ Formats \notin Cover
    /\ \A option \in Options : CoverPath[option.launcher] \in [Rom -> Cover]
ASSUME LimitsAssumption ==
    /\ {MaxDepth, MaxResults} \subseteq Nat
    /\ Servable \subseteq SUBSET {"rom", "root", "dirs"}

Marks == {"got", "have", "miss", "fail"}
NoCounts == [found |-> 0, written |-> 0, skipped |-> 0, missed |-> 0, failed |-> 0]
IdleScan == [at |-> "off", stack |-> <<>>, rom |-> NoRom, known |-> FALSE, aborted |-> FALSE]
Scanning == scan.at \in {"walk", "asking", "hash", "decode", "retrying"}

-----------------------------------------------------------------------------
(* What counts (formats.c).                                                 *)

IsRom(file) == file \in (IF "rom" \in lists THEN ServedRom ELSE BuiltinRom)

IsSkipDir(dir, depth) ==
    \/ depth = 0 /\ dir \in OwnDir \cup (IF "root" \in lists THEN ServedRoot ELSE BuiltinRoot)
    \/ "dirs" \in lists /\ dir \in ServedSkip

CoverOf(rom) == CoverPath[config.launcher][rom]

\* Once, before the first run: the lists, each of which may be too long to keep,
\* or no answer, which leaves the compiled ones.
AskFormats ==
    /\ scan.at = "off"
    /\ Http!TransferBegin(Formats)
    /\ scan' = [scan EXCEPT !.at = "formats"]
    /\ UNCHANGED <<config, lists, lzVars, counters, results, complete, seen, shut>>

FetchFormats ==
    /\ scan.at = "formats" /\ ~Http!Waiting
    /\ IF call.answer = "200" THEN lists' \in Servable ELSE UNCHANGED lists
    /\ scan' = [scan EXCEPT !.at = "ready"]
    /\ UNCHANGED <<card, call, config, lzVars, counters, results, complete, seen, shut>>

-----------------------------------------------------------------------------
(* Counters and history.                                                    *)

\* The history takes the result, unless it is full or memory is short.
Remember(rom, mark, known) ==
    \/ /\ Len(results) < MaxResults
       /\ results' = Append(results, [rom |-> rom, mark |-> mark,
                                      crc |-> IF known THEN "rom" ELSE "none"])
       /\ UNCHANGED complete
    \/ complete' = FALSE /\ UNCHANGED results

Tally(answer) ==
    /\ counters' = [counters EXCEPT
            !.written = IF answer = "200" THEN @ + 1 ELSE @,
            !.missed = IF answer = "404" THEN @ + 1 ELSE @,
            !.failed = IF answer \notin {"200", "404"} THEN @ + 1 ELSE @]
    /\ Remember(scan.rom,
                IF answer = "200" THEN "got" ELSE IF answer = "404" THEN "miss" ELSE "fail", scan.known)
    /\ scan' = [scan EXCEPT !.at = "walk", !.rom = NoRom, !.known = FALSE]

-----------------------------------------------------------------------------
(* scan_directory.                                                          *)

Depth == Len(scan.stack) - 1
Frame(dir) == [dir |-> dir, next |-> 1]
More == Last(scan.stack).next <= Len(Listing[Last(scan.stack).dir])
Entry == Listing[Last(scan.stack).dir][Last(scan.stack).next]
Advanced == Front(scan.stack) \o <<[Last(scan.stack) EXCEPT !.next = @ + 1]>>
Stay == UNCHANGED <<card, call, config, lists, lzVars>>

\* Mutant of the next: the run before is still in the counters.
CountsKept == counters
CountsAtStart == NoCounts
\* A run begins from the options menu: counters, history and the abort flag are
\* reset.  The card's root may not open either.
StartRun ==
    /\ scan.at \in {"ready", "ended"}
    /\ config' \in Options
    /\ counters' = CountsAtStart
    /\ results' = <<>> /\ complete' = TRUE
    /\ seen' = {}
    /\ \/ scan' = [IdleScan EXCEPT !.at = "walk", !.stack = <<Frame(Root)>>] /\ shut' = {}
       \/ scan' = [IdleScan EXCEPT !.at = "walk"] /\ shut' = {Root}
    /\ UNCHANGED <<card, call, lists, lzVars>>

\* B is held when the walk looks.
UserAborts ==
    /\ scan.at = "walk" /\ scan.stack # <<>>
    /\ scan' = [scan EXCEPT !.aborted = TRUE]
    /\ UNCHANGED <<counters, results, complete, seen, shut>> /\ Stay

\* Mutant of the next: one level too few.
TooDeepSoon(depth) == depth >= MaxDepth
\* Mutant of the next: one level too many.
TooDeepLate(depth) == depth > MaxDepth + 1
TooDeep(depth) == depth > MaxDepth

Walking == scan.at = "walk" /\ scan.stack # <<>> /\ ~scan.aborted /\ More

WalkDir ==
    /\ Walking /\ Entry \in Dir
    /\ IF IsSkipDir(Entry, Depth) \/ TooDeep(Depth + 1)
       THEN scan' = [scan EXCEPT !.stack = Advanced] /\ UNCHANGED shut
       ELSE \/ scan' = [scan EXCEPT !.stack = Append(Advanced, Frame(Entry))] /\ UNCHANGED shut
            \/ scan' = [scan EXCEPT !.stack = Advanced] /\ shut' = shut \cup {Entry}
    /\ UNCHANGED <<counters, results, complete, seen>> /\ Stay

WalkOther ==
    /\ Walking /\ Entry \notin Dir /\ ~IsRom(Entry)
    /\ scan' = [scan EXCEPT !.stack = Advanced]
    /\ UNCHANGED <<counters, results, complete, seen, shut>> /\ Stay

\* Mutant of the next: the cover is looked up under the other launchers' name.
HaveWithExtension(rom) == ~config.overwrite /\ card[CoverPath[0][rom]] # "none"
\* fetch_art, where the cover is there and is to be kept.
Have(rom) == ~config.overwrite /\ card[CoverOf(rom)] # "none"
SkipRom ==
    /\ Walking /\ Entry \notin Dir /\ IsRom(Entry) /\ Have(Entry)
    /\ counters' = [counters EXCEPT !.found = @ + 1, !.skipped = @ + 1]
    /\ Remember(Entry, "have", FALSE)
    /\ seen' = seen \cup {Entry}
    /\ scan' = [scan EXCEPT !.stack = Advanced]
    /\ UNCHANGED shut /\ Stay

\* fetch_art's first request: the name, and the header unless compressed.
AskForRom ==
    /\ Walking /\ Entry \notin Dir /\ IsRom(Entry) /\ ~Have(Entry)
    /\ counters' = [counters EXCEPT !.found = @ + 1]
    /\ seen' = seen \cup {Entry}
    /\ Http!TransferBegin(CoverOf(Entry))
    /\ scan' = [scan EXCEPT !.stack = Advanced, !.at = "asking", !.rom = Entry]
    /\ UNCHANGED <<results, complete, shut, config, lists, lzVars>>

\* A directory is done, or the run was stopped.
Leave ==
    /\ scan.at = "walk" /\ scan.stack # <<>> /\ (scan.aborted \/ ~More)
    /\ scan' = [scan EXCEPT !.stack = Front(@)]
    /\ UNCHANGED <<counters, results, complete, seen, shut>> /\ Stay

EndScan ==
    /\ scan.at = "walk" /\ scan.stack = <<>>
    /\ scan' = [scan EXCEPT !.at = "ended"]
    /\ UNCHANGED <<counters, results, complete, seen, shut>> /\ Stay

-----------------------------------------------------------------------------
(* fetch_art, once the first answer is there.                               *)

MayHash == ~config.quick /\ scan.rom \notin DsRom

FirstAnswer ==
    /\ scan.at = "asking" /\ ~Http!Waiting
    /\ IF call.answer = "404" /\ MayHash
       THEN /\ scan' = [scan EXCEPT !.at = IF scan.rom \in Compressed THEN "decode" ELSE "hash"]
            /\ UNCHANGED <<counters, results, complete>>
       ELSE Tally(call.answer)
    /\ UNCHANGED <<seen, shut>> /\ Stay

AskAgain ==
    /\ Http!TransferBegin(CoverOf(scan.rom))
    /\ scan' = [scan EXCEPT !.at = "retrying", !.known = TRUE]
    /\ UNCHANGED <<counters, results, complete>>

\* Mutant of the next: a cancelled CRC skips its ROM and goes on.
CancelRom ==
    /\ scan' = [scan EXCEPT !.at = "walk", !.rom = NoRom]
    /\ UNCHANGED <<counters, results, complete, card, call>>
\* B during a CRC ends the run, and the ROM with no result.
CancelRun ==
    /\ scan' = [scan EXCEPT !.at = "walk", !.rom = NoRom, !.aborted = TRUE]
    /\ UNCHANGED <<counters, results, complete, card, call>>

HashFails == Tally("lost") /\ UNCHANGED <<card, call>>

\* file_crc32: read to the end, unreadable, or B held between two reads.
Hash ==
    /\ scan.at = "hash"
    /\ AskAgain \/ CancelRun \/ HashFails
    /\ UNCHANGED <<seen, shut, config, lists, lzVars>>

\* lz77_decode.
Decode ==
    /\ scan.at = "decode"
    /\ LzOpen \/ LzStep
    /\ UNCHANGED <<scanVars, card, call, config, lists>>

Decoded ==
    /\ scan.at = "decode"
    /\ \/ lz.at = "done" /\ AskAgain
       \/ lz.at = "cancelled" /\ CancelRun
       \/ lz.at = "failed" /\ HashFails
    /\ LzReturn
    /\ UNCHANGED <<seen, shut, config, lists>>

\* Mutant of the next: the miss before the CRC decides the mark.
SecondForgotten ==
    /\ scan.at = "retrying" /\ ~Http!Waiting
    /\ Tally("404")
    /\ UNCHANGED <<seen, shut>> /\ Stay
SecondAnswer ==
    /\ scan.at = "retrying" /\ ~Http!Waiting
    /\ Tally(call.answer)
    /\ UNCHANGED <<seen, shut>> /\ Stay

\* The HTTP layer at work.
Transfer ==
    /\ scan.at \in {"formats", "asking", "retrying"}
    /\ \/ Http!TransferDrop \/ Http!TransferLand \/ Http!TransferFill
       \/ Http!TransferRefused \/ Http!TransferLost
    /\ UNCHANGED <<scanVars, config, lists, lzVars>>

ScanInit ==
    /\ Http!TransferInit /\ LzInit
    /\ config \in Options
    /\ lists = {}
    /\ scan = IdleScan /\ counters = NoCounts
    /\ results = <<>> /\ complete = TRUE /\ seen = {} /\ shut = {}

ScanNext ==
    \/ AskFormats \/ FetchFormats \/ StartRun
    \/ UserAborts \/ WalkDir \/ WalkOther \/ SkipRom \/ AskForRom \/ Leave \/ EndScan
    \/ FirstAnswer \/ Hash \/ Decode \/ Decoded \/ SecondAnswer
    \/ Transfer

Spec == ScanInit /\ [][ScanNext]_vars

-----------------------------------------------------------------------------
(* What a run promises.                                                     *)

TypeOK ==
    /\ LzTypeOK
    /\ scan.at \in {"off", "formats", "ready", "walk", "asking", "hash", "decode", "retrying", "ended"}
    /\ Len(scan.stack) <= MaxDepth + 1
    /\ \A i \in DOMAIN scan.stack :
        scan.stack[i].next \in 1 .. Len(Listing[scan.stack[i].dir]) + 1
    /\ scan.rom \in Rom \cup {NoRom} /\ {scan.known, scan.aborted, complete} \subseteq BOOLEAN
    /\ counters \in [DOMAIN NoCounts -> Nat]
    /\ results \in Seq([rom : Rom, mark : Marks, crc : {"none", "rom"}]) /\ Len(results) <= MaxResults
    /\ lists \subseteq {"rom", "root", "dirs"} /\ config \in Options
    /\ seen \subseteq Rom /\ shut \subseteq Dir

\* Every ROM come to is counted and remembered once: got, have, miss or fail; one
\* has no outcome while it is worked on, or where B stopped its CRC.  The history
\* is short of results only where it says that it is (fetch_art).
ScanAddsUp ==
    LET told == counters.written + counters.skipped + counters.missed + counters.failed
        Marked(mark) == Cardinality({i \in DOMAIN results : results[i].mark = mark})
    IN  /\ counters.found - told =
                IF scan.rom # NoRom THEN 1
                ELSE IF scan.aborted /\ counters.found # told THEN 1 ELSE 0
        /\ complete <=> Len(results) = told
        /\ Marked("got") <= counters.written /\ Marked("have") <= counters.skipped
        /\ Marked("miss") <= counters.missed /\ Marked("fail") <= counters.failed

\* The ways down from the root to a directory at a depth, through directories that
\* are not to be skipped and that opened.
Ways(depth) ==
    {way \in [0 .. depth -> Dir] :
        /\ way[0] = Root /\ Root \notin shut
        /\ \A i \in 1 .. depth : /\ way[i] \in ToSet(Listing[way[i - 1]]) \ shut
                                /\ ~IsSkipDir(way[i], i - 1)}
RomsAt(depth) ==
    {file \in Rom : IsRom(file) /\ file \notin Dir
                     /\ \E way \in Ways(depth) : file \in ToSet(Listing[way[depth]])}

\* A run that nobody stopped has come to every ROM the lists and the depth admit,
\* to no other, and to each once (scan_directory's shared path and its recursion).
ScanIsWhole ==
    scan.at = "ended" /\ ~scan.aborted =>
        seen = UNION {RomsAt(depth) : depth \in 0 .. MaxDepth} /\ counters.found = Cardinality(seen)

\* With "overwrite" off no cover on the card is touched, also where two ROMs
\* share one (fetch_art).
OverwriteOffKeeps ==
    [][~config.overwrite /\ Scanning
       => \A c \in Cover : card[c] # "none" => card'[c] = card[c]]_<<card, scan>>

\* A mark tells what is on the card.  With "overwrite" off, "got" and "have" mean
\* that there is a cover, whatever came after.  The last mark of a cover, where the
\* history has them all and the cover is not being asked for again, tells as much
\* with "overwrite" on; and with it off, "miss" and "fail" mean that there is none.
LastOfCover(i) ==
    /\ \A j \in DOMAIN results : j > i => CoverOf(results[j].rom) # CoverOf(results[i].rom)
    /\ scan.rom # NoRom => CoverOf(scan.rom) # CoverOf(results[i].rom)
MarksTell ==
    \A i \in DOMAIN results : LET mark == results[i].mark
                                  there == card[CoverOf(results[i].rom)] IN
        /\ ~config.overwrite => /\ mark = "got" => there \in Http!Landed
                                /\ mark = "have" => there # "none"
        /\ complete /\ LastOfCover(i) =>
                /\ mark = "got" => there \in Http!Landed
                /\ ~config.overwrite /\ mark \in {"miss", "fail"} => there = "none"
=============================================================================
