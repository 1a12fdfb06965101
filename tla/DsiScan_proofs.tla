--------------------------- MODULE DsiScan_proofs ---------------------------
(***************************************************************************)
(* For any card, lists, options and limits: a run over the card comes to     *)
(* every ROM there is a way to, once; what it counts adds up; its marks tell  *)
(* what is on the card; and with "overwrite" off no cover is touched.        *)
(***************************************************************************)
EXTENDS DsiScan, Lz77_proofs, SequenceTheorems, FiniteSetTheorems

Stages == {"off", "formats", "ready", "walk", "asking", "hash", "decode", "retrying", "ended"}
Working == {"asking", "hash", "decode", "retrying"}
Asking == {"asking", "retrying"}
Frames == [dir : Dir, next : Nat]
Result == [rom : Rom, mark : Marks, crc : {"none", "rom"}]

\* The types TypeOK leaves to be seen from the rest, and those of the layer below.
StateOK ==
    /\ scan \in [at : Stages, stack : Seq(Frames), rom : Rom \cup {NoRom}, known : BOOLEAN, aborted : BOOLEAN]
    /\ card \in [Cover -> Http!Contents]
    /\ call \in [about : Http!Thing, dropped : BOOLEAN, answer : {"none", "pending"} \cup Http!Answers]

\* The layer is at work for the lists, or for the cover of the ROM in hand.
CallOK ==
    /\ scan.rom # NoRom <=> scan.at \in Working
    /\ scan.at \in Asking => call.about = CoverOf(scan.rom) /\ call.answer # "none"
    /\ scan.at = "formats" => call.about = Formats
    /\ scan.at \notin Asking \cup {"formats"} => call.answer # "pending"

IInv == LzInv /\ TypeOK /\ StateOK /\ CallOK

-----------------------------------------------------------------------------
(* The walk's stack.                                                        *)

LEMMA StackTop ==
  ASSUME IInv, scan.stack # <<>>
  PROVE  /\ Len(scan.stack) \in Nat \ {0} /\ Last(scan.stack) \in Frames
         /\ Last(scan.stack) = scan.stack[Len(scan.stack)]
         /\ Last(scan.stack).dir \in Dir /\ Len(Listing[Last(scan.stack).dir]) \in Nat
         /\ Last(scan.stack).next \in 1 .. Len(Listing[Last(scan.stack).dir]) + 1
<1>1. scan.stack \in Seq(Frames) /\ Len(scan.stack) \in Nat \ {0}
  BY DEF IInv, StateOK
<1>2. Last(scan.stack) = scan.stack[Len(scan.stack)]
  BY DEF Last
<1>3. Last(scan.stack) \in Frames /\ Len(scan.stack) \in DOMAIN scan.stack
  BY <1>1, <1>2
<1>4. Last(scan.stack).dir \in Dir
  BY <1>3 DEF Frames
<1>5. Len(Listing[Last(scan.stack).dir]) \in Nat
  BY <1>4, CardAssumption
<1>6. Last(scan.stack).next \in 1 .. Len(Listing[Last(scan.stack).dir]) + 1
  BY <1>2, <1>3 DEF IInv, TypeOK
<1> QED
  BY <1>1, <1>2, <1>3, <1>4, <1>5, <1>6

\* What the stack is when a directory is left.
LEMMA FrontOK ==
  ASSUME IInv, scan.stack # <<>>
  PROVE  /\ Front(scan.stack) \in Seq(Frames)
         /\ Len(Front(scan.stack)) = Len(scan.stack) - 1
         /\ \A i \in 1 .. Len(scan.stack) - 1 : Front(scan.stack)[i] = scan.stack[i]
<1>1. scan.stack \in Seq(Frames) /\ Len(scan.stack) \in Nat \ {0}
  BY StackTop DEF IInv, StateOK
<1> QED
  BY <1>1, SubSeqProperties DEF Front

LEMMA LastOfConcat ==
  ASSUME NEW S, NEW s \in Seq(S), NEW t \in Seq(S), Len(t) = 1
  PROVE  (s \o t)[Len(s) + 1] = t[1]
<1> DEFINE n == Len(s)
<1>1. \A i \in 1 .. n + Len(t) : (s \o t)[i] = IF i <= n THEN s[i] ELSE t[i - n]
  BY ConcatProperties
<1>2. n \in Nat
  OBVIOUS
<1> HIDE DEF n
<1>3. n + 1 \in 1 .. n + Len(t) /\ ~(n + 1 <= n) /\ (n + 1) - n = 1
  BY <1>2
<1>4. (s \o t)[n + 1] = t[1]
  BY <1>1, <1>3
<1> QED
  BY <1>4 DEF n

\* What it is when the walk goes on to the next entry.
LEMMA AdvancedOK ==
  ASSUME IInv, scan.stack # <<>>, More
  PROVE  /\ Advanced \in Seq(Frames)
         /\ Len(Advanced) = Len(scan.stack)
         /\ \A i \in 1 .. Len(scan.stack) - 1 : Advanced[i] = scan.stack[i]
         /\ Advanced[Len(scan.stack)] = [Last(scan.stack) EXCEPT !.next = @ + 1]
         /\ \A i \in DOMAIN Advanced :
                Advanced[i].next \in 1 .. Len(Listing[Advanced[i].dir]) + 1
<1> DEFINE top == [Last(scan.stack) EXCEPT !.next = @ + 1]
           n == Len(scan.stack)
<1>1. top \in Frames /\ top.next \in 1 .. Len(Listing[top.dir]) + 1
  BY StackTop DEF Frames, More
<1>2. Front(scan.stack) \in Seq(Frames) /\ Len(Front(scan.stack)) = n - 1 /\ n \in Nat \ {0}
  BY FrontOK, StackTop
<1>3. <<top>> \in Seq(Frames) /\ Len(<<top>>) = 1 /\ <<top>>[1] = top
  BY <1>1
<1> HIDE DEF top
<1>4. Advanced = Front(scan.stack) \o <<top>>
  BY DEF Advanced, top
<1>5. Advanced \in Seq(Frames) /\ Len(Advanced) = n
  BY <1>2, <1>3, <1>4, ConcatProperties
<1>6. \A i \in 1 .. n - 1 : Advanced[i] = scan.stack[i]
  BY <1>2, <1>3, <1>4, ConcatProperties, FrontOK
<1>7. Advanced[n] = top
  <2>1. Len(Front(scan.stack)) + 1 = n
    BY <1>2
  <2> HIDE DEF n
  <2>2. Advanced[Len(Front(scan.stack)) + 1] = <<top>>[1]
    BY <1>2, <1>3, <1>4, LastOfConcat
  <2> QED
    BY <2>1, <2>2, <1>3
<1>8. ASSUME NEW i \in DOMAIN Advanced
      PROVE  Advanced[i].next \in 1 .. Len(Listing[Advanced[i].dir]) + 1
  <2>1. i \in 1 .. n
    BY <1>5
  <2>2. CASE i = n
    BY <2>2, <1>7, <1>1
  <2>3. CASE i # n
    <3>1. i \in 1 .. n - 1 /\ i \in DOMAIN scan.stack
      BY <2>1, <2>3, <1>2 DEF IInv, StateOK
    <3> QED
      BY <3>1, <1>6 DEF IInv, TypeOK
  <2> QED
    BY <2>2, <2>3
<1> QED
  BY <1>5, <1>6, <1>7, <1>8 DEF top

-----------------------------------------------------------------------------
(* Types.                                                                   *)

LEMMA RomCovers ==
  ASSUME IInv, NEW rom \in Rom
  PROVE  CoverOf(rom) \in Cover /\ CoverOf(rom) # Formats
  BY CoverAssumption DEF IInv, TypeOK, CoverOf

LEMMA InitOK == ScanInit => IInv
<1> SUFFICES ASSUME ScanInit PROVE IInv
  OBVIOUS
<1>1. LzInv
  BY LzStart DEF ScanInit
<1>2. scan = IdleScan /\ card \in [Cover -> {"none", "old"}] /\ call = Http!IdleCall
  BY DEF ScanInit, Http!TransferInit
<1>3. StateOK
  BY <1>2 DEF StateOK, IdleScan, Stages, Http!Contents, Http!IdleCall, Http!Thing
<1>4. CallOK
  BY <1>2 DEF CallOK, IdleScan, Http!IdleCall, Working, Asking
<1>5. TypeOK
  BY <1>1, <1>2, LimitsAssumption DEF TypeOK, ScanInit, IdleScan, NoCounts, LzInv
<1> QED
  BY <1>1, <1>3, <1>4, <1>5 DEF IInv

\* The decoder steps as Lz77 says, whatever the run does.
LEMMA DecoderStep == [ScanNext]_vars => [LzNext]_lzVars
<1> SUFFICES ASSUME [ScanNext]_vars PROVE [LzNext]_lzVars
  OBVIOUS
<1>1. CASE Decode
  BY <1>1 DEF Decode, LzNext
<1>2. CASE Decoded
  BY <1>2 DEF Decoded, LzNext
<1>3. CASE AskFormats \/ FetchFormats \/ StartRun \/ Transfer
  BY <1>3 DEF AskFormats, FetchFormats, StartRun, Transfer
<1>4. CASE UserAborts \/ WalkDir \/ WalkOther \/ SkipRom \/ AskForRom \/ Leave \/ EndScan
  BY <1>4 DEF UserAborts, WalkDir, WalkOther, SkipRom, AskForRom, Leave, EndScan, Stay
<1>5. CASE FirstAnswer \/ Hash \/ SecondAnswer
  BY <1>5 DEF FirstAnswer, Hash, SecondAnswer, Stay
<1>6. CASE UNCHANGED vars
  BY <1>6 DEF vars
<1> QED
  BY <1>1, <1>2, <1>3, <1>4, <1>5, <1>6 DEF ScanNext

LEMMA Counters ==
  ASSUME IInv
  PROVE  /\ DOMAIN NoCounts = {"found", "written", "skipped", "missed", "failed"}
         /\ DOMAIN counters = DOMAIN NoCounts
         /\ counters.found \in Nat /\ counters.written \in Nat /\ counters.skipped \in Nat
         /\ counters.missed \in Nat /\ counters.failed \in Nat
<1>1. DOMAIN NoCounts = {"found", "written", "skipped", "missed", "failed"}
  BY DEF NoCounts
<1>2. counters \in [DOMAIN NoCounts -> Nat]
  BY DEF IInv, TypeOK
<1> QED
  BY <1>1, <1>2

\* The history and the counters after a result.
LEMMA RememberOK ==
  ASSUME IInv, NEW rom \in Rom, NEW mark \in Marks, NEW known \in BOOLEAN, Remember(rom, mark, known)
  PROVE  results' \in Seq(Result) /\ Len(results') <= MaxResults /\ complete' \in BOOLEAN
<1>1. results \in Seq(Result) /\ Len(results) <= MaxResults /\ complete \in BOOLEAN
  BY DEF IInv, TypeOK, Result
<1>2. CASE complete' = FALSE /\ UNCHANGED results
  BY <1>1, <1>2
<1>3. ASSUME Len(results) < MaxResults, UNCHANGED complete,
             results' = Append(results, [rom |-> rom, mark |-> mark, crc |-> IF known THEN "rom" ELSE "none"])
      PROVE  results' \in Seq(Result) /\ Len(results') <= MaxResults /\ complete' \in BOOLEAN
  <2> DEFINE result == [rom |-> rom, mark |-> mark, crc |-> IF known THEN "rom" ELSE "none"]
  <2>1. result \in Result
    BY DEF Result
  <2>2. Len(results) \in Nat
    BY <1>1
  <2> HIDE DEF result
  <2>3. results' = Append(results, result)
    BY <1>3 DEF result
  <2>4. results' \in Seq(Result) /\ Len(results') = Len(results) + 1
    BY <1>1, <2>1, <2>3, AppendProperties
  <2> QED
    BY <1>1, <1>3, <2>2, <2>4, LimitsAssumption
<1> QED
  BY <1>2, <1>3 DEF Remember

LEMMA TallyOK ==
  ASSUME IInv, scan.at \in Working, NEW answer, Tally(answer)
  PROVE  /\ scan' = [scan EXCEPT !.at = "walk", !.rom = NoRom, !.known = FALSE]
         /\ counters' \in [DOMAIN NoCounts -> Nat]
         /\ results' \in Seq(Result) /\ Len(results') <= MaxResults /\ complete' \in BOOLEAN
<1>1. scan' = [scan EXCEPT !.at = "walk", !.rom = NoRom, !.known = FALSE]
  BY DEF Tally
<1>2. counters' \in [DOMAIN NoCounts -> Nat]
  <2>1. counters \in [DOMAIN NoCounts -> Nat]
    BY DEF IInv, TypeOK
  <2> DEFINE w == IF answer = "200" THEN counters.written + 1 ELSE counters.written
             m == IF answer = "404" THEN counters.missed + 1 ELSE counters.missed
             f == IF answer \notin {"200", "404"} THEN counters.failed + 1 ELSE counters.failed
  <2>2. counters' = [counters EXCEPT !.written = w, !.missed = m, !.failed = f]
    BY DEF Tally
  <2>3. w \in Nat /\ m \in Nat /\ f \in Nat
    BY Counters
  <2> HIDE DEF w, m, f
  <2> QED
    BY <2>1, <2>2, <2>3
<1>3. scan.rom \in Rom /\ scan.known \in BOOLEAN
  BY DEF IInv, TypeOK, CallOK, StateOK
<1>4. PICK mark \in Marks : Remember(scan.rom, mark, scan.known)
  BY DEF Tally, Marks
<1>5. results' \in Seq(Result) /\ Len(results') <= MaxResults /\ complete' \in BOOLEAN
  BY <1>3, <1>4, RememberOK
<1> QED
  BY <1>1, <1>2, <1>5

\* A stack the walk may leave behind.
StackOK(stack) ==
    /\ stack \in Seq(Frames)
    /\ Len(stack) <= MaxDepth + 1
    /\ \A i \in DOMAIN stack : stack[i].next \in 1 .. Len(Listing[stack[i].dir]) + 1

LEMMA StackIsOK == IInv => StackOK(scan.stack)
  BY DEF IInv, TypeOK, StateOK, StackOK

LEMMA AdvancedIsOK ==
  ASSUME IInv, scan.stack # <<>>, More
  PROVE  StackOK(Advanced)
  BY AdvancedOK DEF StackOK, IInv, TypeOK

LEMMA FrontIsOK ==
  ASSUME IInv, scan.stack # <<>>
  PROVE  StackOK(Front(scan.stack))
<1>1. Len(scan.stack) \in Nat /\ Len(scan.stack) <= MaxDepth + 1 /\ MaxDepth \in Nat
  BY StackTop, LimitsAssumption DEF IInv, TypeOK
<1>2. ASSUME NEW i \in DOMAIN Front(scan.stack)
      PROVE  Front(scan.stack)[i].next \in 1 .. Len(Listing[Front(scan.stack)[i].dir]) + 1
  <2>1. i \in 1 .. Len(scan.stack) - 1 /\ i \in DOMAIN scan.stack
    BY FrontOK, <1>1 DEF IInv, StateOK
  <2> QED
    BY <2>1, FrontOK DEF IInv, TypeOK
<1> QED
  BY <1>1, <1>2, FrontOK DEF StackOK

LEMMA PushedIsOK ==
  ASSUME IInv, scan.stack # <<>>, More, NEW dir \in Dir, ~TooDeep(Depth + 1)
  PROVE  StackOK(Append(Advanced, Frame(dir)))
<1>1. Len(scan.stack) \in Nat /\ Len(scan.stack) <= MaxDepth /\ MaxDepth \in Nat
  BY StackTop, LimitsAssumption DEF TooDeep, Depth
<1>2. Frame(dir) \in Frames /\ Frame(dir).next = 1 /\ Frame(dir).dir = dir
  BY DEF Frame, Frames
<1>3. Len(Listing[dir]) \in Nat
  BY CardAssumption
<1> DEFINE stack == Append(Advanced, Frame(dir))
<1>4. stack \in Seq(Frames) /\ Len(stack) = Len(Advanced) + 1
  BY <1>2, AdvancedOK, AppendProperties
<1>5. ASSUME NEW i \in DOMAIN stack
      PROVE  stack[i].next \in 1 .. Len(Listing[stack[i].dir]) + 1
  <2>1. i \in 1 .. Len(Advanced) + 1
    BY <1>4
  <2>2. CASE i = Len(Advanced) + 1
    <3>1. stack[i] = Frame(dir)
      BY <2>2, <1>2, AdvancedOK, AppendProperties
    <3> QED
      BY <3>1, <1>2, <1>3
  <2>3. CASE i # Len(Advanced) + 1
    <3>1. i \in 1 .. Len(Advanced) /\ i \in DOMAIN Advanced
      BY <2>1, <2>3, AdvancedOK, <1>1
    <3>2. stack[i] = Advanced[i]
      BY <3>1, <1>2, AdvancedOK, AppendProperties
    <3> QED
      BY <3>1, <3>2, AdvancedOK
  <2> QED
    BY <2>2, <2>3
<1> QED
  BY <1>1, <1>4, <1>5, AdvancedOK DEF StackOK

\* A step of the walk that asks nothing and has no result.
LEMMA WalkStep ==
  ASSUME IInv, LzInv', scan.at = "walk", NEW at \in {"walk", "ended"}, NEW stack, StackOK(stack),
         NEW aborted \in BOOLEAN, scan' = [scan EXCEPT !.at = at, !.stack = stack, !.aborted = aborted],
         UNCHANGED <<counters, results, complete, seen, card, call, config, lists>>,
         shut' \subseteq Dir
  PROVE  IInv'
<1>1. StateOK'
  BY DEF IInv, StateOK, StackOK, Stages
<1>2. /\ scan'.at = at /\ scan'.rom = scan.rom /\ scan'.known = scan.known
      /\ scan'.aborted = aborted /\ scan'.stack = stack
  BY DEF IInv, StateOK
<1>3. CallOK'
  BY <1>2 DEF IInv, CallOK, Working, Asking
<1>4. TypeOK'
  BY <1>2 DEF IInv, TypeOK, LzInv, StackOK
<1> QED
  BY <1>1, <1>3, <1>4 DEF IInv

\* A ROM is done: its result is in, or a CRC was cancelled.
LEMMA RomDone ==
  ASSUME IInv, LzInv', scan.at \in Working, call.answer # "pending", NEW aborted \in BOOLEAN, NEW known \in BOOLEAN,
         scan' = [scan EXCEPT !.at = "walk", !.rom = NoRom, !.known = known, !.aborted = aborted],
         counters' \in [DOMAIN NoCounts -> Nat], complete' \in BOOLEAN,
         results' \in Seq(Result), Len(results') <= MaxResults,
         UNCHANGED <<seen, shut, card, call, config, lists>>
  PROVE  IInv'
<1>1. StateOK'
  BY DEF IInv, StateOK, Stages
<1>2. /\ scan'.at = "walk" /\ scan'.rom = NoRom /\ scan'.known = known
      /\ scan'.aborted = aborted /\ scan'.stack = scan.stack
  BY DEF IInv, StateOK
<1>3. CallOK'
  BY <1>2 DEF IInv, CallOK, Working, Asking
<1>4. TypeOK'
  BY <1>2 DEF IInv, TypeOK, LzInv, Result
<1> QED
  BY <1>1, <1>3, <1>4 DEF IInv

LEMMA TallyStep ==
  ASSUME IInv, LzInv', scan.at \in Working, call.answer # "pending", NEW answer, Tally(answer),
         UNCHANGED <<seen, shut, card, call, config, lists>>
  PROVE  IInv'
<1>1. scan' = [scan EXCEPT !.at = "walk", !.rom = NoRom, !.known = FALSE, !.aborted = scan.aborted]
  BY TallyOK DEF IInv, StateOK
<1>2. scan.aborted \in BOOLEAN
  BY DEF IInv, TypeOK, StateOK
<1> QED
  BY <1>1, <1>2, TallyOK, RomDone

LEMMA CancelStep ==
  ASSUME IInv, LzInv', scan.at \in {"hash", "decode"}, CancelRun, UNCHANGED <<seen, shut, config, lists>>
  PROVE  IInv'
<1>1. scan' = [scan EXCEPT !.at = "walk", !.rom = NoRom, !.known = scan.known, !.aborted = TRUE]
  BY DEF CancelRun, IInv, StateOK
<1>2. scan.known \in BOOLEAN /\ call.answer # "pending" /\ scan.at \in Working
  BY DEF IInv, StateOK, CallOK, Working, Asking
<1>3. /\ counters' \in [DOMAIN NoCounts -> Nat] /\ complete' \in BOOLEAN
      /\ results' \in Seq(Result) /\ Len(results') <= MaxResults
      /\ UNCHANGED <<card, call>>
  BY DEF CancelRun, IInv, TypeOK, Result
<1> QED
  BY <1>1, <1>2, <1>3, RomDone

\* The second request.
LEMMA AskAgainStep ==
  ASSUME IInv, LzInv', scan.at \in {"hash", "decode"}, AskAgain, UNCHANGED <<seen, shut, config, lists>>
  PROVE  IInv'
<1>1. scan' = [scan EXCEPT !.at = "retrying", !.known = TRUE] /\ UNCHANGED <<counters, results, complete, card>>
  BY DEF AskAgain, Http!TransferBegin
<1>2. scan.rom \in Rom /\ CoverOf(scan.rom) \in Cover
  BY RomCovers DEF IInv, CallOK, StateOK, Working
<1>3. call' = [about |-> CoverOf(scan.rom), dropped |-> FALSE, answer |-> "pending"]
  BY DEF AskAgain, Http!TransferBegin
<1>4. StateOK'
  <2>1. call' \in [about : Http!Thing, dropped : BOOLEAN, answer : {"none", "pending"} \cup Http!Answers]
    BY <1>2, <1>3 DEF Http!Thing
  <2> QED
    BY <1>1, <2>1 DEF IInv, StateOK, Stages
<1>5. scan'.at = "retrying" /\ scan'.rom = scan.rom /\ scan'.known = TRUE
      /\ scan'.aborted = scan.aborted /\ scan'.stack = scan.stack
  BY <1>1 DEF IInv, StateOK
<1>6. CallOK'
  BY <1>1, <1>3, <1>5, <1>2, CardAssumption DEF IInv, CallOK, Working, Asking, CoverOf
<1>7. TypeOK'
  BY <1>1, <1>5 DEF IInv, TypeOK, LzInv
<1> QED
  BY <1>4, <1>6, <1>7 DEF IInv

\* The layer at work.
LEMMA TransferStep ==
  ASSUME IInv, LzInv', Transfer
  PROVE  IInv'
<1>1. UNCHANGED <<scanVars, config, lists, lzVars>> /\ call.answer = "pending" /\ scan.at \in Asking \cup {"formats"}
  BY DEF Transfer, Http!TransferDrop, Http!TransferLand, Http!TransferFill, Http!TransferRefused, Http!TransferLost,
         Http!Waiting, Asking
<1>2. call'.about = call.about /\ call'.answer # "none"
  BY DEF Transfer, Http!TransferDrop, Http!TransferLand, Http!TransferFill, Http!TransferRefused, Http!TransferLost,
         Http!Waiting, Http!Answer
<1>3. call' \in [about : Http!Thing, dropped : BOOLEAN, answer : {"none", "pending"} \cup Http!Answers]
  <2>1. call.about \in Http!Thing
    BY DEF IInv, StateOK
  <2>2. \E dropped \in BOOLEAN, answer \in {"pending"} \cup Http!Answers :
            call' = [about |-> call.about, dropped |-> dropped, answer |-> answer]
    BY <1>1 DEF Transfer, Http!TransferDrop, Http!TransferLand, Http!TransferFill, Http!TransferRefused,
           Http!TransferLost, Http!Answer, Http!Answers
  <2> QED
    BY <2>1, <2>2
<1>4. card' \in [Cover -> Http!Contents]
  BY DEF IInv, StateOK, Transfer, Http!TransferDrop, Http!TransferLand, Http!TransferFill, Http!TransferRefused,
         Http!TransferLost, Http!Contents
<1>5. StateOK'
  BY <1>1, <1>3, <1>4 DEF IInv, StateOK, scanVars
<1>6. CallOK'
  BY <1>1, <1>2 DEF IInv, CallOK, scanVars, CoverOf, Asking, Working
<1>7. TypeOK'
  BY <1>1 DEF IInv, TypeOK, LzInv, scanVars
<1> QED
  BY <1>5, <1>6, <1>7 DEF IInv

LEMMA StepOK == IInv /\ [ScanNext]_vars => IInv'
<1> SUFFICES ASSUME IInv, [ScanNext]_vars PROVE IInv'
  OBVIOUS
<1>0. LzInv'
  BY DecoderStep, LzPreserved DEF IInv
<1>1. CASE AskFormats
  <2>1. /\ call' = [about |-> Formats, dropped |-> FALSE, answer |-> "pending"]
        /\ scan' = [scan EXCEPT !.at = "formats"]
        /\ UNCHANGED <<card, config, lists, counters, results, complete, seen, shut>>
    BY <1>1 DEF AskFormats, Http!TransferBegin
  <2>2. call' \in [about : Http!Thing, dropped : BOOLEAN, answer : {"none", "pending"} \cup Http!Answers]
    BY <2>1 DEF Http!Thing
  <2>3. StateOK'
    BY <2>1, <2>2 DEF IInv, StateOK, Stages
  <2>4. /\ scan.at = "off" /\ scan'.at = "formats" /\ scan'.rom = scan.rom /\ scan'.known = scan.known
        /\ scan'.aborted = scan.aborted /\ scan'.stack = scan.stack
    BY <1>1, <2>1 DEF IInv, StateOK, AskFormats
  <2>5. CallOK'
    BY <2>1, <2>4 DEF IInv, CallOK, Working, Asking
  <2>6. TypeOK'
    BY <1>0, <2>1, <2>4 DEF IInv, TypeOK, LzInv
  <2> QED
    BY <1>0, <2>3, <2>5, <2>6 DEF IInv
<1>2. CASE FetchFormats
  <2>1. /\ scan' = [scan EXCEPT !.at = "ready"] /\ call.answer # "pending"
        /\ UNCHANGED <<card, call, config, counters, results, complete, seen, shut>>
    BY <1>2 DEF FetchFormats, Http!Waiting
  <2>2. lists' \subseteq {"rom", "root", "dirs"}
    BY <1>2, LimitsAssumption DEF FetchFormats, IInv, TypeOK
  <2>3. StateOK'
    BY <2>1 DEF IInv, StateOK, Stages
  <2>4. /\ scan.at = "formats" /\ scan'.at = "ready" /\ scan'.rom = scan.rom /\ scan'.known = scan.known
        /\ scan'.aborted = scan.aborted /\ scan'.stack = scan.stack
    BY <1>2, <2>1 DEF IInv, StateOK, FetchFormats
  <2>5. CallOK'
    BY <2>1, <2>4 DEF IInv, CallOK, Working, Asking
  <2>6. TypeOK'
    BY <1>0, <2>1, <2>2, <2>4 DEF IInv, TypeOK, LzInv
  <2> QED
    BY <1>0, <2>3, <2>5, <2>6 DEF IInv
<1>3. CASE StartRun
  <2>1. PICK stack \in {<<>>, <<Frame(Root)>>} :
           /\ scan' = [at |-> "walk", stack |-> stack, rom |-> NoRom, known |-> FALSE, aborted |-> FALSE]
           /\ UNCHANGED <<card, call, lists>>
           /\ config' \in Options /\ counters' = NoCounts /\ results' = <<>> /\ complete' = TRUE
           /\ seen' = {} /\ shut' \subseteq Dir
    <3>1. shut' \subseteq Dir
      BY <1>3, CardAssumption DEF StartRun
    <3> QED
      BY <1>3, <3>1 DEF StartRun, CountsAtStart, IdleScan
  <2>2. StackOK(stack)
    <3>1. Frame(Root) \in Frames /\ Frame(Root).next = 1 /\ Frame(Root).dir = Root
      BY CardAssumption DEF Frame, Frames
    <3>2. Len(Listing[Root]) \in Nat /\ MaxDepth \in Nat
      BY CardAssumption, LimitsAssumption
    <3>3. StackOK(<<Frame(Root)>>)
      BY <3>1, <3>2 DEF StackOK
    <3>4. StackOK(<<>>)
      BY <3>2 DEF StackOK
    <3> QED
      BY <3>3, <3>4
  <2>3. /\ scan'.at = "walk" /\ scan'.rom = NoRom /\ scan'.known = FALSE /\ scan'.aborted = FALSE
        /\ scan'.stack = stack
        /\ scan' \in [at : Stages, stack : Seq(Frames), rom : Rom \cup {NoRom}, known : BOOLEAN, aborted : BOOLEAN]
    BY <2>1, <2>2 DEF IdleScan, Stages, StackOK
  <2>4. StateOK'
    BY <2>1, <2>3 DEF IInv, StateOK
  <2>5. call.answer # "pending"
    BY <1>3 DEF StartRun, IInv, CallOK, Asking
  <2>6. CallOK'
    BY <2>1, <2>3, <2>5 DEF CallOK, Working, Asking
  <2>7. counters' \in [DOMAIN NoCounts -> Nat] /\ results' \in Seq(Result) /\ Len(results') <= MaxResults
    BY <2>1, LimitsAssumption DEF NoCounts
  <2>8. TypeOK'
    BY <1>0, <2>1, <2>2, <2>3, <2>7 DEF IInv, TypeOK, LzInv, StackOK, Result
  <2> QED
    BY <1>0, <2>4, <2>6, <2>8 DEF IInv
<1>4. CASE UserAborts
  <2>1. scan' = [scan EXCEPT !.at = "walk", !.stack = scan.stack, !.aborted = TRUE]
    BY <1>4 DEF UserAborts, IInv, StateOK
  <2> QED
    BY <1>0, <1>4, <2>1, WalkStep, StackIsOK DEF UserAborts, Stay, IInv, TypeOK
<1>5. CASE WalkDir \/ WalkOther
  <2>1. scan.at = "walk" /\ scan.stack # <<>> /\ More /\ ~scan.aborted /\ scan.aborted \in BOOLEAN
    BY <1>5 DEF WalkDir, WalkOther, Walking, IInv, StateOK
  <2>2. UNCHANGED <<counters, results, complete, seen, card, call, config, lists>> /\ shut' \subseteq Dir
    BY <1>5 DEF WalkDir, WalkOther, Stay, IInv, TypeOK
  <2>3. PICK stack : StackOK(stack) /\ scan' = [scan EXCEPT !.stack = stack]
    BY <1>5, <2>1, AdvancedIsOK, PushedIsOK DEF WalkDir, WalkOther
  <2>4. scan' = [scan EXCEPT !.at = "walk", !.stack = stack, !.aborted = scan.aborted]
    BY <2>1, <2>3 DEF IInv, StateOK
  <2> QED
    BY <1>0, <2>1, <2>2, <2>3, <2>4, WalkStep
<1>6. CASE SkipRom
  <2>1. /\ scan.at = "walk" /\ scan.stack # <<>> /\ More /\ Entry \in Rom
        /\ Remember(Entry, "have", FALSE) /\ seen' = seen \cup {Entry}
        /\ counters' = [counters EXCEPT !.found = @ + 1, !.skipped = @ + 1]
        /\ scan' = [scan EXCEPT !.stack = Advanced]
        /\ UNCHANGED <<shut, card, call, config, lists>>
    BY <1>6 DEF SkipRom, Walking, Stay, IsRom, Rom
  <2>2. StackOK(Advanced)
    BY <2>1, AdvancedIsOK
  <2>3. StateOK'
    BY <2>1, <2>2 DEF IInv, StateOK, StackOK
  <2>4. /\ scan'.at = scan.at /\ scan'.rom = scan.rom /\ scan'.known = scan.known
        /\ scan'.aborted = scan.aborted /\ scan'.stack = Advanced
    BY <2>1 DEF IInv, StateOK
  <2>5. CallOK'
    BY <2>1, <2>4 DEF IInv, CallOK, Working, Asking
  <2>6. counters' \in [DOMAIN NoCounts -> Nat]
    <3>1. counters \in [DOMAIN NoCounts -> Nat]
      BY DEF IInv, TypeOK
    <3>2. counters.found + 1 \in Nat /\ counters.skipped + 1 \in Nat
      BY Counters
    <3> QED
      BY <2>1, <3>1, <3>2
  <2>7. results' \in Seq(Result) /\ Len(results') <= MaxResults /\ complete' \in BOOLEAN
    BY <2>1, RememberOK DEF Marks
  <2>8. TypeOK'
    BY <1>0, <2>1, <2>2, <2>4, <2>6, <2>7 DEF IInv, TypeOK, LzInv, StackOK, Result
  <2> QED
    BY <1>0, <2>3, <2>5, <2>8 DEF IInv
<1>7. CASE AskForRom
  <2>1. /\ scan.at = "walk" /\ scan.stack # <<>> /\ More /\ Entry \in Rom
        /\ seen' = seen \cup {Entry}
        /\ counters' = [counters EXCEPT !.found = @ + 1]
        /\ call' = [about |-> CoverOf(Entry), dropped |-> FALSE, answer |-> "pending"]
        /\ scan' = [scan EXCEPT !.stack = Advanced, !.at = "asking", !.rom = Entry]
        /\ UNCHANGED <<results, complete, shut, card, config, lists>>
    BY <1>7 DEF AskForRom, Walking, IsRom, Rom, Http!TransferBegin
  <2>2. StackOK(Advanced)
    BY <2>1, AdvancedIsOK
  <2>3. call' \in [about : Http!Thing, dropped : BOOLEAN, answer : {"none", "pending"} \cup Http!Answers]
    BY <2>1, RomCovers DEF Http!Thing
  <2>4. /\ scan'.at = "asking" /\ scan'.rom = Entry /\ scan'.known = scan.known
        /\ scan'.aborted = scan.aborted /\ scan'.stack = Advanced
    BY <2>1 DEF IInv, StateOK
  <2>5. StateOK'
    BY <2>1, <2>2, <2>3 DEF IInv, StateOK, StackOK, Stages
  <2>6. CallOK'
    <3>1. Entry # NoRom
      BY <2>1, CardAssumption
    <3> QED
      BY <2>1, <2>4, <3>1 DEF CallOK, Working, Asking, CoverOf
  <2>7. counters' \in [DOMAIN NoCounts -> Nat]
    <3>1. counters \in [DOMAIN NoCounts -> Nat]
      BY DEF IInv, TypeOK
    <3> QED
      BY <2>1, <3>1, Counters
  <2>8. TypeOK'
    BY <1>0, <2>1, <2>2, <2>4, <2>7 DEF IInv, TypeOK, LzInv, StackOK
  <2> QED
    BY <1>0, <2>5, <2>6, <2>8 DEF IInv
<1>8. CASE Leave
  <2>1. /\ scan.at = "walk" /\ scan.stack # <<>> /\ scan.aborted \in BOOLEAN
        /\ scan' = [scan EXCEPT !.at = "walk", !.stack = Front(scan.stack), !.aborted = scan.aborted]
    BY <1>8 DEF Leave, IInv, StateOK
  <2> QED
    BY <1>0, <1>8, <2>1, WalkStep, FrontIsOK DEF Leave, Stay, IInv, TypeOK
<1>9. CASE EndScan
  <2>1. /\ scan.at = "walk" /\ scan.aborted \in BOOLEAN
        /\ scan' = [scan EXCEPT !.at = "ended", !.stack = scan.stack, !.aborted = scan.aborted]
    BY <1>9 DEF EndScan, IInv, StateOK
  <2> QED
    BY <1>0, <1>9, <2>1, WalkStep, StackIsOK DEF EndScan, Stay, IInv, TypeOK
<1>10. CASE FirstAnswer
  <2>1. scan.at \in Working /\ call.answer # "pending" /\ UNCHANGED <<seen, shut, card, call, config, lists>>
    BY <1>10 DEF FirstAnswer, Http!Waiting, Stay, Working
  <2>2. CASE Tally(call.answer)
    BY <1>0, <2>1, <2>2, TallyStep
  <2>3. ASSUME NEW at \in {"decode", "hash"}, scan' = [scan EXCEPT !.at = at],
               UNCHANGED <<counters, results, complete>>
        PROVE  IInv'
    <3>1. /\ scan'.at = at /\ scan'.rom = scan.rom /\ scan'.known = scan.known
          /\ scan'.aborted = scan.aborted /\ scan'.stack = scan.stack
      BY <2>3 DEF IInv, StateOK
    <3>2. StateOK'
      BY <2>1, <2>3 DEF IInv, StateOK, Stages
    <3>3. CallOK'
      BY <2>1, <3>1 DEF IInv, CallOK, Working, Asking
    <3>4. TypeOK'
      BY <1>0, <2>1, <2>3, <3>1 DEF IInv, TypeOK, LzInv
    <3> QED
      BY <1>0, <3>2, <3>3, <3>4 DEF IInv
  <2> QED
    BY <1>10, <2>2, <2>3 DEF FirstAnswer
<1>11. CASE Hash
  <2>1. scan.at = "hash" /\ call.answer # "pending" /\ UNCHANGED <<seen, shut, config, lists>>
    BY <1>11 DEF Hash, IInv, CallOK, Asking
  <2>2. CASE AskAgain
    BY <1>0, <2>1, <2>2, AskAgainStep
  <2>3. CASE CancelRun
    BY <1>0, <2>1, <2>3, CancelStep
  <2>4. CASE HashFails
    BY <1>0, <2>1, <2>4, TallyStep DEF HashFails, Working
  <2> QED
    BY <1>11, <2>2, <2>3, <2>4 DEF Hash
<1>12. CASE Decode
  <2>1. UNCHANGED <<scanVars, card, call, config, lists>>
    BY <1>12 DEF Decode
  <2>2. StateOK' /\ CallOK'
    BY <2>1 DEF IInv, StateOK, CallOK, scanVars, CoverOf
  <2>3. TypeOK'
    BY <1>0, <2>1 DEF IInv, TypeOK, LzInv, scanVars
  <2> QED
    BY <1>0, <2>2, <2>3 DEF IInv
<1>13. CASE Decoded
  <2>1. scan.at = "decode" /\ call.answer # "pending" /\ UNCHANGED <<seen, shut, config, lists>>
    BY <1>13 DEF Decoded, IInv, CallOK, Asking
  <2>2. CASE AskAgain
    BY <1>0, <2>1, <2>2, AskAgainStep
  <2>3. CASE CancelRun
    BY <1>0, <2>1, <2>3, CancelStep
  <2>4. CASE HashFails
    BY <1>0, <2>1, <2>4, TallyStep DEF HashFails, Working
  <2> QED
    BY <1>13, <2>2, <2>3, <2>4 DEF Decoded
<1>14. CASE SecondAnswer
  BY <1>0, <1>14, TallyStep DEF SecondAnswer, Http!Waiting, Stay, Working
<1>15. CASE Transfer
  BY <1>0, <1>15, TransferStep
<1>16. CASE UNCHANGED vars
  <2>1. StateOK' /\ CallOK'
    BY <1>16 DEF IInv, StateOK, CallOK, vars, scanVars, CoverOf
  <2>2. TypeOK'
    BY <1>0, <1>16 DEF IInv, TypeOK, LzInv, vars, scanVars
  <2> QED
    BY <1>0, <2>1, <2>2 DEF IInv
<1> QED
  BY <1>1, <1>2, <1>3, <1>4, <1>5, <1>6, <1>7, <1>8, <1>9, <1>10, <1>11, <1>12, <1>13, <1>14, <1>15, <1>16 DEF ScanNext

LEMMA Invariance == Spec => []IInv
  BY InitOK, StepOK, PTL DEF Spec

\* The variables of a run keep their types, and the walk is never deeper than the
\* limit, on any card (scan_directory).
THEOREM TypeCorrect == Spec => []TypeOK
<1>1. IInv => TypeOK
  BY DEF IInv
<1> QED
  BY <1>1, Invariance, PTL

-----------------------------------------------------------------------------
(* The parts of a run.                                                      *)

\* Inside a run the decoder is the decoder of Lz77: what is proved of it holds of
\* every CRC of a run, whatever the walk and the requests do meanwhile (file_crc32).
THEOREM RunsDecoder == Spec => LzSpec
<1>1. ScanInit => LzInit
  BY DEF ScanInit
<1> QED
  BY <1>1, DecoderStep, PTL DEF Spec, LzSpec

\* The CRC a second request carries is that of the decoded ROM.
THEOREM RunDecodesPlain == Spec => [](RingHoldsTail /\ DecodesPlain)
  BY RunsDecoder, NoStaleByte, RingSuffices, PTL

\* A run uses the HTTP layer as the layer is meant to be used: one request at a time,
\* for a cover or the lists, and the card is the layer's alone (fetch_art).
THEOREM RunsTransfers == Spec => Http!TransferSpec
<1>1. ScanInit => Http!TransferInit
  BY DEF ScanInit
<1>2. IInv /\ [ScanNext]_vars => [Http!TransferNext]_(Http!transferVars)
  <2> SUFFICES ASSUME IInv, [ScanNext]_vars PROVE [Http!TransferNext]_(Http!transferVars)
    OBVIOUS
  <2>1. CASE AskFormats
    BY <2>1 DEF AskFormats, Http!TransferNext, Http!Thing
  <2>2. CASE AskForRom
    <3>1. Entry \in Rom /\ Http!TransferBegin(CoverOf(Entry))
      BY <2>2 DEF AskForRom, IsRom, Rom
    <3>2. CoverOf(Entry) \in Http!Thing
      BY <3>1, RomCovers DEF Http!Thing
    <3> QED
      BY <3>1, <3>2 DEF Http!TransferNext
  <2>3. ASSUME scan.at \in {"hash", "decode"}, AskAgain PROVE Http!TransferNext
    <3>1. scan.rom \in Rom /\ Http!TransferBegin(CoverOf(scan.rom))
      BY <2>3 DEF AskAgain, IInv, CallOK, StateOK, Working
    <3>2. CoverOf(scan.rom) \in Http!Thing
      BY <3>1, RomCovers DEF Http!Thing
    <3> QED
      BY <3>1, <3>2 DEF Http!TransferNext
  <2>4. CASE Hash \/ Decoded
    BY <2>3, <2>4 DEF Hash, Decoded, CancelRun, HashFails, Http!transferVars
  <2>5. CASE Transfer
    BY <2>5 DEF Transfer, Http!TransferNext
  <2>6. CASE FetchFormats \/ StartRun \/ Decode
    BY <2>6 DEF FetchFormats, StartRun, Decode, Http!transferVars
  <2>7. CASE UserAborts \/ WalkDir \/ WalkOther \/ SkipRom \/ Leave \/ EndScan
    BY <2>7 DEF UserAborts, WalkDir, WalkOther, SkipRom, Leave, EndScan, Stay, Http!transferVars
  <2>8. CASE FirstAnswer \/ SecondAnswer
    BY <2>8 DEF FirstAnswer, SecondAnswer, Stay, Http!transferVars
  <2>9. CASE UNCHANGED vars
    BY <2>9 DEF vars, Http!transferVars
  <2> QED
    BY <2>1, <2>2, <2>4, <2>5, <2>6, <2>7, <2>8, <2>9 DEF ScanNext
<1> QED
  BY <1>1, <1>2, Invariance, PTL DEF Spec, Http!TransferSpec

-----------------------------------------------------------------------------
(* The counts.                                                              *)

Told == counters.written + counters.skipped + counters.missed + counters.failed
MarkedIn(history, mark) == {i \in DOMAIN history : history[i].mark = mark}

\* ScanAddsUp, and that no more is remembered than was counted.
CountsOK ==
    /\ \/ counters.found = Told + (IF scan.rom # NoRom THEN 1 ELSE 0)
       \/ scan.rom = NoRom /\ scan.aborted /\ counters.found = Told + 1
    /\ Len(results) <= Told
    /\ complete <=> Len(results) = Told
    /\ Cardinality(MarkedIn(results, "got")) <= counters.written
    /\ Cardinality(MarkedIn(results, "have")) <= counters.skipped
    /\ Cardinality(MarkedIn(results, "miss")) <= counters.missed
    /\ Cardinality(MarkedIn(results, "fail")) <= counters.failed

LEMMA MarkedFinite ==
  ASSUME NEW seq \in Seq(Result), NEW mark
  PROVE  IsFiniteSet(MarkedIn(seq, mark)) /\ Cardinality(MarkedIn(seq, mark)) \in Nat
<1>1. Len(seq) \in Nat /\ MarkedIn(seq, mark) \subseteq 1 .. Len(seq)
  BY DEF MarkedIn
<1>2. IsFiniteSet(1 .. Len(seq))
  BY <1>1, FS_Interval
<1>3. IsFiniteSet(MarkedIn(seq, mark))
  BY <1>1, <1>2, FS_Subset
<1> QED
  BY <1>3, FS_CardinalityType

LEMMA MarkedNow ==
  ASSUME IInv, NEW mark
  PROVE  IsFiniteSet(MarkedIn(results, mark)) /\ Cardinality(MarkedIn(results, mark)) \in Nat
<1>1. results \in Seq(Result)
  BY DEF IInv, TypeOK, Result
<1> QED
  BY <1>1, MarkedFinite

\* A result more.
LEMMA MarkedAppend ==
  ASSUME IInv, NEW result \in Result, results' = Append(results, result), NEW mark
  PROVE  Cardinality(MarkedIn(results', mark)) <= Cardinality(MarkedIn(results, mark)) + (IF result.mark = mark THEN 1 ELSE 0)
<1> DEFINE n == Len(results)
<1>1. results \in Seq(Result) /\ n \in Nat
  BY DEF IInv, TypeOK, Result
<1>2. /\ DOMAIN results' = 1 .. n + 1 /\ results'[n + 1] = result
      /\ \A i \in 1 .. n : results'[i] = results[i]
  BY <1>1, AppendProperties
<1>3. DOMAIN results = 1 .. n
  BY <1>1
<1>4. n + 1 \notin MarkedIn(results, mark)
  BY <1>1, <1>3 DEF MarkedIn
<1>5. CASE result.mark = mark
  <2>1. MarkedIn(results', mark) = MarkedIn(results, mark) \cup {n + 1}
    BY <1>1, <1>2, <1>3, <1>5 DEF MarkedIn
  <2>2. Cardinality(MarkedIn(results, mark) \cup {n + 1}) = Cardinality(MarkedIn(results, mark)) + 1
    BY <1>4, MarkedNow, FS_AddElement
  <2> QED
    BY <2>1, <2>2, <1>5, MarkedNow
<1>6. CASE result.mark # mark
  <2>1. MarkedIn(results', mark) = MarkedIn(results, mark)
    BY <1>1, <1>2, <1>3, <1>6 DEF MarkedIn
  <2> QED
    BY <2>1, <1>6, MarkedNow
<1> QED
  BY <1>5, <1>6

\* What a result, remembered or not, leaves of the history.
LEMMA RememberCounts ==
  ASSUME IInv, CountsOK, NEW rom \in Rom, NEW mark \in Marks, NEW known \in BOOLEAN,
         Remember(rom, mark, known), Told' = Told + 1
  PROVE  /\ Len(results') <= Told'
         /\ complete' <=> Len(results') = Told'
         /\ \A m : Cardinality(MarkedIn(results', m)) \in Nat
         /\ \A m : Cardinality(MarkedIn(results', m))
                      <= Cardinality(MarkedIn(results, m)) + (IF mark = m THEN 1 ELSE 0)
<1> DEFINE Grows == \A m : Cardinality(MarkedIn(results', m))
                              <= Cardinality(MarkedIn(results, m)) + (IF mark = m THEN 1 ELSE 0)
<1>1. Len(results) \in Nat /\ Told \in Nat
  BY Counters DEF IInv, TypeOK, Told
<1>2. \A m : Cardinality(MarkedIn(results', m)) \in Nat
  <2>1. results' \in Seq(Result)
    BY RememberOK
  <2> QED
    BY <2>1, MarkedFinite
<1>3. CASE complete' = FALSE /\ UNCHANGED results
  <2>1. Grows
    BY <1>3, MarkedNow
  <2>2. Len(results') <= Told' /\ (complete' <=> Len(results') = Told')
    BY <1>1, <1>3 DEF CountsOK
  <2> QED
    BY <1>2, <2>1, <2>2
<1>4. CASE /\ Len(results) < MaxResults /\ UNCHANGED complete
           /\ results' = Append(results, [rom |-> rom, mark |-> mark, crc |-> IF known THEN "rom" ELSE "none"])
  <2> DEFINE result == [rom |-> rom, mark |-> mark, crc |-> IF known THEN "rom" ELSE "none"]
  <2>1. result \in Result /\ result.mark = mark
    BY DEF Result
  <2> HIDE DEF result
  <2>2. results' = Append(results, result)
    BY <1>4 DEF result
  <2>3. results \in Seq(Result)
    BY DEF IInv, TypeOK, Result
  <2>4. Len(results') = Len(results) + 1
    BY <2>1, <2>2, <2>3, AppendProperties
  <2>5. Grows
    BY <2>1, <2>2, MarkedAppend
  <2>6. Len(results') <= Told' /\ (complete' <=> Len(results') = Told')
    BY <1>1, <1>4, <2>4 DEF CountsOK
  <2> QED
    BY <1>2, <2>5, <2>6
<1> QED
  BY <1>3, <1>4 DEF Remember

LEMMA OneMore ==
  ASSUME NEW p, NEW old \in Nat, NEW new \in Nat, NEW count \in Nat, NEW counted,
         new <= old + (IF p THEN 1 ELSE 0), old <= count, counted = count + (IF p THEN 1 ELSE 0)
  PROVE  new <= counted
  OBVIOUS

\* A ROM's outcome is counted under the mark it is remembered by.
LEMMA TallyCounts ==
  ASSUME IInv, CountsOK, scan.at \in Working, NEW answer, Tally(answer)
  PROVE  CountsOK'
<1>1. /\ scan.rom \in Rom /\ scan.rom # NoRom /\ scan.known \in BOOLEAN
      /\ scan'.rom = NoRom /\ scan'.aborted = scan.aborted
  BY TallyOK DEF IInv, CallOK, StateOK
<1> DEFINE w == IF answer = "200" THEN counters.written + 1 ELSE counters.written
           m == IF answer = "404" THEN counters.missed + 1 ELSE counters.missed
           f == IF answer \notin {"200", "404"} THEN counters.failed + 1 ELSE counters.failed
           mark == IF answer = "200" THEN "got" ELSE IF answer = "404" THEN "miss" ELSE "fail"
<1>2. /\ counters'.found = counters.found /\ counters'.skipped = counters.skipped
      /\ counters'.written = w /\ counters'.missed = m /\ counters'.failed = f
  <2>1. counters' = [counters EXCEPT !.written = w, !.missed = m, !.failed = f]
    BY DEF Tally
  <2> HIDE DEF w, m, f
  <2> QED
    BY <2>1, Counters
<1>3. Told \in Nat /\ Told' = Told + 1
  BY <1>2, Counters DEF Told
<1>4. mark \in Marks /\ Remember(scan.rom, mark, scan.known)
  BY DEF Tally, Marks
<1> HIDE DEF mark
<1>5. /\ Len(results') <= Told'
      /\ complete' <=> Len(results') = Told'
      /\ \A k : Cardinality(MarkedIn(results', k)) \in Nat
      /\ \A k : Cardinality(MarkedIn(results', k))
                   <= Cardinality(MarkedIn(results, k)) + (IF mark = k THEN 1 ELSE 0)
  BY <1>1, <1>3, <1>4, RememberCounts
<1>6. counters'.found = Told' /\ ~(scan'.rom # NoRom)
  BY <1>1, <1>2, <1>3 DEF CountsOK
<1>7. /\ Cardinality(MarkedIn(results', "got")) <= counters'.written
      /\ Cardinality(MarkedIn(results', "have")) <= counters'.skipped
      /\ Cardinality(MarkedIn(results', "miss")) <= counters'.missed
      /\ Cardinality(MarkedIn(results', "fail")) <= counters'.failed
  <2>1. \A k : Cardinality(MarkedIn(results, k)) \in Nat
    BY MarkedNow
  <2>2. /\ Cardinality(MarkedIn(results, "got")) <= counters.written
        /\ Cardinality(MarkedIn(results, "have")) <= counters.skipped
        /\ Cardinality(MarkedIn(results, "miss")) <= counters.missed
        /\ Cardinality(MarkedIn(results, "fail")) <= counters.failed
    BY DEF CountsOK
  <2>3. /\ w = counters.written + (IF mark = "got" THEN 1 ELSE 0)
        /\ m = counters.missed + (IF mark = "miss" THEN 1 ELSE 0)
        /\ f = counters.failed + (IF mark = "fail" THEN 1 ELSE 0)
        /\ mark # "have"
    BY Counters DEF mark
  <2> HIDE DEF w, m, f
  <2>4. Cardinality(MarkedIn(results', "got")) <= w
    <3>1. /\ Cardinality(MarkedIn(results, "got")) \in Nat /\ Cardinality(MarkedIn(results', "got")) \in Nat
          /\ Cardinality(MarkedIn(results', "got"))
                <= Cardinality(MarkedIn(results, "got")) + (IF mark = "got" THEN 1 ELSE 0)
      BY <1>5, <2>1
    <3>2. counters.written \in Nat
      BY Counters
    <3> QED
      BY <2>2, <2>3, <3>1, <3>2, OneMore
  <2>5. Cardinality(MarkedIn(results', "have")) <= counters.skipped
    <3>1. counters.skipped = counters.skipped + (IF mark = "have" THEN 1 ELSE 0)
      BY <2>3, Counters
    <3>2. /\ Cardinality(MarkedIn(results, "have")) \in Nat /\ Cardinality(MarkedIn(results', "have")) \in Nat
          /\ Cardinality(MarkedIn(results', "have"))
                <= Cardinality(MarkedIn(results, "have")) + (IF mark = "have" THEN 1 ELSE 0)
      BY <1>5, <2>1
    <3>3. counters.skipped \in Nat
      BY Counters
    <3> QED
      BY <2>2, <3>1, <3>2, <3>3, OneMore
  <2>6. Cardinality(MarkedIn(results', "miss")) <= m
    <3>1. /\ Cardinality(MarkedIn(results, "miss")) \in Nat /\ Cardinality(MarkedIn(results', "miss")) \in Nat
          /\ Cardinality(MarkedIn(results', "miss"))
                <= Cardinality(MarkedIn(results, "miss")) + (IF mark = "miss" THEN 1 ELSE 0)
      BY <1>5, <2>1
    <3>2. counters.missed \in Nat
      BY Counters
    <3> QED
      BY <2>2, <2>3, <3>1, <3>2, OneMore
  <2>7. Cardinality(MarkedIn(results', "fail")) <= f
    <3>1. /\ Cardinality(MarkedIn(results, "fail")) \in Nat /\ Cardinality(MarkedIn(results', "fail")) \in Nat
          /\ Cardinality(MarkedIn(results', "fail"))
                <= Cardinality(MarkedIn(results, "fail")) + (IF mark = "fail" THEN 1 ELSE 0)
      BY <1>5, <2>1
    <3>2. counters.failed \in Nat
      BY Counters
    <3> QED
      BY <2>2, <2>3, <3>1, <3>2, OneMore
  <2> QED
    BY <1>2, <2>4, <2>5, <2>6, <2>7
<1>8. /\ counters'.found = Told' + (IF scan'.rom # NoRom THEN 1 ELSE 0)
      /\ Len(results') <= Told'
      /\ complete' <=> Len(results') = Told'
  BY <1>3, <1>5, <1>6
<1> QED
  BY <1>7, <1>8 DEF CountsOK

\* A step that counts and remembers nothing, and leaves no ROM.
LEMMA CountsStay ==
  ASSUME CountsOK, UNCHANGED <<counters, results, complete>>, scan'.rom = scan.rom,
         scan'.aborted = scan.aborted \/ scan'.aborted
  PROVE  CountsOK'
<1>1. Told' = Told
  BY DEF Told
<1>2. /\ \/ counters'.found = Told' + (IF scan'.rom # NoRom THEN 1 ELSE 0)
         \/ scan'.rom = NoRom /\ scan'.aborted /\ counters'.found = Told' + 1
      /\ Len(results') <= Told'
      /\ complete' <=> Len(results') = Told'
  BY <1>1 DEF CountsOK
<1>3. /\ Cardinality(MarkedIn(results', "got")) <= counters'.written
      /\ Cardinality(MarkedIn(results', "have")) <= counters'.skipped
      /\ Cardinality(MarkedIn(results', "miss")) <= counters'.missed
      /\ Cardinality(MarkedIn(results', "fail")) <= counters'.failed
  BY DEF CountsOK
<1> QED
  BY <1>2, <1>3 DEF CountsOK

\* A CRC that was cancelled leaves its ROM without an outcome.
LEMMA CancelCounts ==
  ASSUME IInv, CountsOK, scan.at \in {"hash", "decode"}, CancelRun
  PROVE  CountsOK'
<1>1. /\ scan'.rom = NoRom /\ scan'.aborted /\ scan.rom # NoRom
      /\ UNCHANGED <<counters, results, complete>>
  BY DEF CancelRun, IInv, StateOK, CallOK, Working
<1>2. Told' = Told
  BY <1>1 DEF Told
<1>3. /\ counters'.found = Told' + 1
      /\ Len(results') <= Told'
      /\ complete' <=> Len(results') = Told'
  BY <1>1, <1>2 DEF CountsOK
<1>4. /\ Cardinality(MarkedIn(results', "got")) <= counters'.written
      /\ Cardinality(MarkedIn(results', "have")) <= counters'.skipped
      /\ Cardinality(MarkedIn(results', "miss")) <= counters'.missed
      /\ Cardinality(MarkedIn(results', "fail")) <= counters'.failed
  BY <1>1 DEF CountsOK
<1> QED
  BY <1>1, <1>3, <1>4 DEF CountsOK

LEMMA MarkedEmpty == \A mark : Cardinality(MarkedIn(<<>>, mark)) = 0
<1> SUFFICES ASSUME NEW mark PROVE Cardinality(MarkedIn(<<>>, mark)) = 0
  OBVIOUS
<1>1. MarkedIn(<<>>, mark) = {}
  BY DEF MarkedIn
<1> QED
  BY <1>1, FS_EmptySet

LEMMA CountsInit == ScanInit => CountsOK
<1> SUFFICES ASSUME ScanInit PROVE CountsOK
  OBVIOUS
<1>1. counters = NoCounts /\ scan = IdleScan /\ results = <<>> /\ complete = TRUE
  BY DEF ScanInit
<1>2. /\ counters.found = 0 /\ counters.written = 0 /\ counters.skipped = 0
      /\ counters.missed = 0 /\ counters.failed = 0 /\ Told = 0
      /\ scan.rom = NoRom /\ Len(results) = 0
  BY <1>1 DEF NoCounts, IdleScan, Told
<1> QED
  BY <1>1, <1>2, MarkedEmpty DEF CountsOK

LEMMA CountsStart ==
  ASSUME StartRun
  PROVE  CountsOK'
<1>1. counters' = NoCounts /\ scan'.rom = NoRom /\ results' = <<>> /\ complete' = TRUE
  BY DEF StartRun, CountsAtStart, IdleScan
<1>2. /\ counters'.found = 0 /\ counters'.written = 0 /\ counters'.skipped = 0
      /\ counters'.missed = 0 /\ counters'.failed = 0 /\ Told' = 0 /\ Len(results') = 0
  BY <1>1 DEF NoCounts, Told
<1> QED
  BY <1>1, <1>2, MarkedEmpty DEF CountsOK

LEMMA SkipCounts ==
  ASSUME IInv, CountsOK, SkipRom
  PROVE  CountsOK'
<1>1. /\ Entry \in Rom /\ scan.rom = NoRom /\ ~scan.aborted
      /\ scan'.rom = scan.rom /\ scan'.aborted = scan.aborted
      /\ counters' = [counters EXCEPT !.found = @ + 1, !.skipped = @ + 1]
      /\ Remember(Entry, "have", FALSE)
  BY DEF SkipRom, Walking, IsRom, Rom, IInv, StateOK, CallOK, Working
<1>2. /\ counters'.found = counters.found + 1 /\ counters'.skipped = counters.skipped + 1
      /\ counters'.written = counters.written
      /\ counters'.missed = counters.missed /\ counters'.failed = counters.failed
  BY <1>1, Counters
<1>3. Told \in Nat /\ Told' = Told + 1 /\ counters.found = Told
  BY <1>1, <1>2, Counters DEF Told, CountsOK
<1>4. /\ Len(results') <= Told'
      /\ complete' <=> Len(results') = Told'
      /\ \A k : Cardinality(MarkedIn(results', k)) \in Nat
      /\ \A k : Cardinality(MarkedIn(results', k))
                   <= Cardinality(MarkedIn(results, k)) + (IF "have" = k THEN 1 ELSE 0)
  BY <1>1, <1>3, RememberCounts DEF Marks
<1>5. /\ counters'.found = Told' + (IF scan'.rom # NoRom THEN 1 ELSE 0)
      /\ Len(results') <= Told'
      /\ complete' <=> Len(results') = Told'
  BY <1>1, <1>2, <1>3, <1>4
<1>6. /\ Cardinality(MarkedIn(results, "got")) <= counters.written
      /\ Cardinality(MarkedIn(results, "have")) <= counters.skipped
      /\ Cardinality(MarkedIn(results, "miss")) <= counters.missed
      /\ Cardinality(MarkedIn(results, "fail")) <= counters.failed
  BY DEF CountsOK
<1>7. \A k : Cardinality(MarkedIn(results, k)) \in Nat
  BY MarkedNow
<1>8. Cardinality(MarkedIn(results', "have")) <= counters'.skipped
  <2>1. Cardinality(MarkedIn(results', "have")) <= Cardinality(MarkedIn(results, "have")) + 1
    BY <1>4
  <2> QED
    BY <2>1, <1>2, <1>4, <1>6, <1>7, Counters
<1>9. /\ Cardinality(MarkedIn(results', "got")) <= counters'.written
      /\ Cardinality(MarkedIn(results', "miss")) <= counters'.missed
      /\ Cardinality(MarkedIn(results', "fail")) <= counters'.failed
  <2>1. \A k : k # "have" => Cardinality(MarkedIn(results', k)) <= Cardinality(MarkedIn(results, k)) + 0
    BY <1>4
  <2>2. \A k : k # "have" => Cardinality(MarkedIn(results', k)) <= Cardinality(MarkedIn(results, k))
    BY <2>1, <1>7
  <2>3. \A a, b, c \in Nat : a <= b /\ b <= c => a <= c
    OBVIOUS
  <2>4. Cardinality(MarkedIn(results', "got")) <= counters.written
    BY <2>2, <2>3, <1>4, <1>6, <1>7, Counters
  <2>5. Cardinality(MarkedIn(results', "miss")) <= counters.missed
    BY <2>2, <2>3, <1>4, <1>6, <1>7, Counters
  <2>6. Cardinality(MarkedIn(results', "fail")) <= counters.failed
    BY <2>2, <2>3, <1>4, <1>6, <1>7, Counters
  <2> QED
    BY <2>4, <2>5, <2>6, <1>2
<1> QED
  BY <1>5, <1>8, <1>9 DEF CountsOK

LEMMA AskCounts ==
  ASSUME IInv, CountsOK, AskForRom
  PROVE  CountsOK'
<1>1. /\ Entry \in Rom /\ Entry # NoRom /\ scan.rom = NoRom /\ ~scan.aborted /\ scan'.rom = Entry
      /\ counters' = [counters EXCEPT !.found = @ + 1]
      /\ UNCHANGED <<results, complete>>
  BY CardAssumption DEF AskForRom, Walking, IsRom, Rom, IInv, StateOK, CallOK, Working
<1>2. /\ counters'.found = counters.found + 1 /\ counters'.skipped = counters.skipped
      /\ counters'.written = counters.written
      /\ counters'.missed = counters.missed /\ counters'.failed = counters.failed
  BY <1>1, Counters
<1>3. Told' = Told /\ counters.found = Told
  BY <1>1, <1>2, Counters DEF CountsOK, Told
<1>4. /\ counters'.found = Told' + (IF scan'.rom # NoRom THEN 1 ELSE 0)
      /\ Len(results') <= Told'
      /\ complete' <=> Len(results') = Told'
  BY <1>1, <1>2, <1>3 DEF CountsOK
<1>5. /\ Cardinality(MarkedIn(results', "got")) <= counters'.written
      /\ Cardinality(MarkedIn(results', "have")) <= counters'.skipped
      /\ Cardinality(MarkedIn(results', "miss")) <= counters'.missed
      /\ Cardinality(MarkedIn(results', "fail")) <= counters'.failed
  BY <1>1, <1>2 DEF CountsOK
<1> QED
  BY <1>4, <1>5 DEF CountsOK

LEMMA CountsStep == IInv /\ CountsOK /\ [ScanNext]_vars => CountsOK'
<1> SUFFICES ASSUME IInv, CountsOK, [ScanNext]_vars PROVE CountsOK'
  OBVIOUS
<1>1. CASE AskFormats \/ FetchFormats
  BY <1>1, CountsStay DEF AskFormats, FetchFormats, IInv, StateOK
<1>2. CASE StartRun
  BY <1>2, CountsStart
<1>3. CASE UserAborts \/ WalkDir \/ WalkOther \/ Leave \/ EndScan
  <2>1. UNCHANGED <<counters, results, complete>> /\ scan'.rom = scan.rom
    BY <1>3 DEF UserAborts, WalkDir, WalkOther, Leave, EndScan, IInv, StateOK
  <2>2. scan'.aborted = scan.aborted \/ scan'.aborted
    BY <1>3 DEF UserAborts, WalkDir, WalkOther, Leave, EndScan, IInv, StateOK
  <2> QED
    BY <2>1, <2>2, CountsStay
<1>4. CASE SkipRom
  BY <1>4, SkipCounts
<1>5. CASE AskForRom
  BY <1>5, AskCounts
<1>6. ASSUME scan.at \in {"hash", "decode"}, AskAgain \/ CancelRun \/ HashFails
      PROVE  CountsOK'
  <2>1. CASE AskAgain
    BY <2>1, CountsStay DEF AskAgain, IInv, StateOK
  <2> QED
    BY <1>6, <2>1, CancelCounts, TallyCounts DEF HashFails, Working
<1>7. CASE Hash
  BY <1>6, <1>7 DEF Hash
<1>8. CASE Decoded
  BY <1>6, <1>8 DEF Decoded
<1>9. CASE FirstAnswer
  <2>1. CASE Tally(call.answer)
    BY <1>9, <2>1, TallyCounts DEF FirstAnswer, Working
  <2>2. ASSUME NEW at, scan' = [scan EXCEPT !.at = at], UNCHANGED <<counters, results, complete>>
        PROVE  CountsOK'
    BY <2>2, CountsStay DEF IInv, StateOK
  <2> QED
    BY <1>9, <2>1, <2>2 DEF FirstAnswer
<1>10. CASE SecondAnswer
  BY <1>10, TallyCounts DEF SecondAnswer, Working
<1>11. CASE Decode \/ Transfer
  BY <1>11, CountsStay DEF Decode, Transfer, scanVars
<1>12. CASE UNCHANGED vars
  BY <1>12, CountsStay DEF vars, scanVars
<1> QED
  BY <1>1, <1>2, <1>3, <1>4, <1>5, <1>7, <1>8, <1>9, <1>10, <1>11, <1>12 DEF ScanNext

\* Every ROM come to is counted once, and the history is short of results only
\* where it says so (fetch_art): on any card, with a history of any length.
THEOREM CountsAddUp == Spec => []ScanAddsUp
<1>1. IInv /\ CountsOK => ScanAddsUp
  <2> SUFFICES ASSUME IInv, CountsOK PROVE ScanAddsUp
    OBVIOUS
  <2>1. counters.found \in Nat /\ Told \in Nat
    BY Counters DEF Told
  <2>2. counters.found - Told =
            IF scan.rom # NoRom THEN 1
            ELSE IF scan.aborted /\ counters.found # Told THEN 1 ELSE 0
    BY <2>1 DEF CountsOK
  <2> QED
    BY <2>2 DEF CountsOK, ScanAddsUp, MarkedIn, Told
<1> QED
  BY <1>1, CountsInit, CountsStep, Invariance, PTL DEF Spec

-----------------------------------------------------------------------------
(* The card.                                                                *)

\* The cover of the ROM in hand may not be what it was before it was asked for.
Disturbed ==
    /\ scan.at \in Asking
    /\ \/ call.answer \in {"200", "lost"}
       \/ call.answer = "pending" /\ call.dropped

\* That cover, as the answer tells; with "overwrite" off a cover that is there is
\* never asked for.
CoverOK ==
    LET there == card[CoverOf(scan.rom)] IN
    /\ scan.at \in Asking /\ call.answer = "200" => there \in Http!Landed
    /\ ~config.overwrite /\ scan.at \in Asking /\ call.answer # "200" => there = "none"
    /\ ~config.overwrite /\ scan.at \in {"hash", "decode"} => there = "none"

LEMMA CardIs == IInv => card \in [Cover -> Http!Contents] /\ Http!Landed \subseteq Http!Contents /\ "none" \notin Http!Landed
  BY DEF IInv, StateOK, Http!Contents, Http!Landed

\* The HTTP layer touches the cover of the ROM in hand and no other.
LEMMA CardStep ==
  ASSUME IInv, Transfer
  PROVE  /\ UNCHANGED <<scan, results, complete, config>>
         /\ scan.at \notin Asking => UNCHANGED card
         /\ scan.at \in Asking =>
                /\ CoverOf(scan.rom) \in Cover
                /\ \A c \in Cover : c # CoverOf(scan.rom) => card'[c] = card[c]
                /\ UNCHANGED card \/ Disturbed'
                /\ Disturbed => Disturbed'
                /\ \/ call'.answer = "200" /\ call.answer # "200" /\ card'[CoverOf(scan.rom)] \in Http!Landed
                   \/ call'.answer # "200" /\ call.answer # "200"
                       /\ card'[CoverOf(scan.rom)] \in {"none", card[CoverOf(scan.rom)]}
<1> USE CardIs
<1>1. UNCHANGED <<scan, results, complete, config>> /\ scan.at \in {"formats", "asking", "retrying"}
  BY DEF Transfer, scanVars
<1>2. CASE scan.at = "formats"
  <2>1. call.about = Formats /\ call.about \notin Cover
    BY <1>2, CoverAssumption DEF IInv, CallOK
  <2>2. UNCHANGED card
    BY <2>1 DEF Transfer, Http!TransferDrop, Http!TransferLand, Http!TransferFill, Http!TransferRefused, Http!TransferLost
  <2> QED
    BY <1>1, <1>2, <2>2 DEF Asking
<1>3. CASE scan.at \in Asking
  <2> DEFINE c0 == CoverOf(scan.rom)
  <2>1. call.about = c0 /\ c0 \in Cover /\ c0 # Formats /\ call.answer = "pending"
    <3>1. scan.rom \in Rom /\ call.about = c0
      BY <1>3 DEF IInv, CallOK, StateOK, Working, Asking
    <3>2. call.answer = "pending"
      BY DEF Transfer, Http!TransferDrop, Http!TransferLand, Http!TransferFill, Http!TransferRefused, Http!TransferLost, Http!Waiting
    <3> QED
      BY <3>1, <3>2, RomCovers
  <2>2. CASE Http!TransferDrop
    <3>1. card' = [card EXCEPT ![c0] = "none"] /\ call'.dropped /\ call'.answer = "pending"
      BY <2>1, <2>2 DEF Http!TransferDrop
    <3> HIDE DEF c0
    <3> QED
      BY <1>1, <1>3, <2>1, <3>1 DEF Disturbed, c0
  <2>3. CASE Http!TransferLand
    <3>1. PICK content \in Http!Landed : card' = [card EXCEPT ![c0] = content]
      BY <2>1, <2>3 DEF Http!TransferLand
    <3>2. call'.answer = "200"
      BY <2>3 DEF Http!TransferLand, Http!Answer
    <3> HIDE DEF c0
    <3> QED
      BY <1>1, <1>3, <2>1, <3>1, <3>2 DEF Disturbed, c0
  <2>4. CASE Http!TransferRefused
    <3>1. ~call.dropped /\ UNCHANGED card /\ call'.answer # "200"
      BY <2>4 DEF Http!TransferRefused, Http!Answer
    <3>2. ~Disturbed
      BY <2>1, <3>1 DEF Disturbed
    <3> QED
      BY <1>1, <1>3, <2>1, <3>1, <3>2
  <2>5. CASE Http!TransferLost
    <3>1. UNCHANGED card /\ call'.answer = "lost"
      BY <2>5 DEF Http!TransferLost, Http!Answer
    <3> QED
      BY <1>1, <1>3, <2>1, <3>1 DEF Disturbed
  <2>6. ~Http!TransferFill
    BY <2>1 DEF Http!TransferFill
  <2> QED
    BY <2>2, <2>3, <2>4, <2>5, <2>6 DEF Transfer
<1> QED
  BY <1>1, <1>2, <1>3 DEF Asking

LEMMA CoverInit == ScanInit => CoverOK
  BY DEF ScanInit, IdleScan, CoverOK, Asking

\* Where no ROM is in hand after a step, there is nothing to say of its cover.
LEMMA CoverStep == IInv /\ CoverOK /\ [ScanNext]_vars => CoverOK'
<1> SUFFICES ASSUME IInv, CoverOK, [ScanNext]_vars PROVE CoverOK'
  OBVIOUS
<1> DEFINE Idle == scan'.at \notin Working
<1>0. Idle => CoverOK'
  BY DEF CoverOK, Working, Asking
<1>1. CASE AskFormats \/ FetchFormats \/ StartRun
  <2>1. Idle
    BY <1>1 DEF AskFormats, FetchFormats, StartRun, IdleScan, Working, IInv, StateOK
  <2> QED
    BY <1>0, <2>1
<1>2. CASE UserAborts \/ WalkDir \/ WalkOther \/ SkipRom \/ Leave \/ EndScan
  <2>1. Idle
    BY <1>2 DEF UserAborts, WalkDir, WalkOther, SkipRom, Leave, EndScan, Walking, Working, IInv, StateOK
  <2> QED
    BY <1>0, <2>1
<1>3. ASSUME NEW answer, Tally(answer) PROVE CoverOK'
  <2>1. Idle
    BY <1>3 DEF Tally, Working, IInv, StateOK
  <2> QED
    BY <1>0, <2>1
<1>4. CASE AskForRom
  <2>1. /\ scan'.at = "asking" /\ scan'.rom = Entry /\ call'.answer = "pending"
        /\ UNCHANGED <<card, config>> /\ ~Have(Entry)
    BY <1>4 DEF AskForRom, Http!TransferBegin, IInv, StateOK
  <2>2. ~config.overwrite => card[CoverOf(Entry)] = "none"
    BY <2>1 DEF Have
  <2>3. CoverOf(scan.rom)' = CoverOf(Entry)
    BY <2>1 DEF CoverOf
  <2> QED
    BY <2>1, <2>2, <2>3 DEF CoverOK
<1>5. ASSUME scan.at \in {"hash", "decode"}, AskAgain, UNCHANGED config PROVE CoverOK'
  <2>1. /\ scan'.at = "retrying" /\ scan'.rom = scan.rom /\ call'.answer = "pending"
        /\ UNCHANGED <<card, config>>
    BY <1>5 DEF AskAgain, Http!TransferBegin, IInv, StateOK
  <2> QED
    BY <1>5, <2>1 DEF CoverOK, CoverOf
<1>6. CASE CancelRun
  <2>1. Idle
    BY <1>6 DEF CancelRun, Working, IInv, StateOK
  <2> QED
    BY <1>0, <2>1
<1>7. CASE Hash \/ Decoded
  BY <1>3, <1>5, <1>6, <1>7 DEF Hash, Decoded, HashFails
<1>8. CASE FirstAnswer
  <2>1. ASSUME NEW at \in {"hash", "decode"}, scan' = [scan EXCEPT !.at = at], call.answer = "404"
        PROVE  CoverOK'
    <3>1. scan'.at = at /\ scan'.rom = scan.rom /\ scan.at = "asking" /\ UNCHANGED <<card, call, config>>
      BY <1>8, <2>1 DEF FirstAnswer, Stay, IInv, StateOK
    <3> QED
      BY <2>1, <3>1 DEF CoverOK, CoverOf, Asking
  <2> QED
    BY <1>3, <1>8, <2>1 DEF FirstAnswer
<1>9. CASE SecondAnswer
  BY <1>3, <1>9 DEF SecondAnswer
<1>10. CASE Transfer
  <2>1. CASE scan.at \in Asking
    BY <1>10, <2>1, CardStep DEF CoverOK, CoverOf, Asking
  <2>2. CASE scan.at \notin Asking
    BY <1>0, <1>10, <2>2, CardStep DEF Working, Asking, Transfer
  <2> QED
    BY <2>1, <2>2
<1>11. CASE Decode \/ UNCHANGED vars
  BY <1>11 DEF Decode, scanVars, vars, CoverOK, CoverOf
<1> QED
  BY <1>1, <1>2, <1>4, <1>7, <1>8, <1>9, <1>10, <1>11 DEF ScanNext

LEMMA CoverInvariance == Spec => []CoverOK
  BY CoverInit, CoverStep, Invariance, PTL DEF Spec

\* The card changes in the HTTP layer's hands only.
LEMMA OnlyTransfer ==
  ASSUME [ScanNext]_vars, ~Transfer
  PROVE  UNCHANGED card
<1>1. CASE AskFormats \/ FetchFormats \/ StartRun
  BY <1>1 DEF AskFormats, FetchFormats, StartRun, Http!TransferBegin
<1>2. CASE UserAborts \/ WalkDir \/ WalkOther \/ SkipRom \/ Leave \/ EndScan
  BY <1>2 DEF UserAborts, WalkDir, WalkOther, SkipRom, Leave, EndScan, Stay
<1>3. CASE FirstAnswer \/ SecondAnswer \/ Decode \/ AskForRom
  BY <1>3 DEF FirstAnswer, SecondAnswer, Stay, Decode, AskForRom, Http!TransferBegin
<1>4. CASE Hash \/ Decoded
  BY <1>4 DEF Hash, Decoded, AskAgain, CancelRun, HashFails, Http!TransferBegin
<1> QED
  BY <1>1, <1>2, <1>3, <1>4 DEF ScanNext, vars

\* With "overwrite" off no run touches a cover that is on the card (fetch_art).
THEOREM CoversStay == Spec => OverwriteOffKeeps
<1>1. IInv /\ CoverOK /\ [ScanNext]_vars =>
        [~config.overwrite /\ Scanning
            => \A c \in Cover : card[c] # "none" => card'[c] = card[c]]_<<card, scan>>
  <2> SUFFICES ASSUME IInv, CoverOK, [ScanNext]_vars, ~config.overwrite, Scanning,
                      NEW c \in Cover, card[c] # "none"
               PROVE  card'[c] = card[c]
    OBVIOUS
  <2>1. CASE ~Transfer
    BY <2>1, OnlyTransfer
  <2>2. CASE Transfer
    <3>1. scan.at \in Asking /\ CoverOf(scan.rom) \in Cover /\ call.answer # "200"
      BY <2>2, CardStep DEF Transfer, Scanning, Asking
    <3>2. card[CoverOf(scan.rom)] = "none"
      BY <3>1 DEF CoverOK
    <3> QED
      BY <2>2, <3>1, <3>2, CardStep
  <2> QED
    BY <2>1, <2>2
<1> QED
  BY <1>1, Invariance, CoverInvariance, PTL DEF Spec, OverwriteOffKeeps

-----------------------------------------------------------------------------
(* The marks.                                                               *)

Latest(i) == \A j \in DOMAIN results : j > i => CoverOf(results[j].rom) # CoverOf(results[i].rom)

\* What a mark says of a cover with "overwrite" off, whatever came after.
TellsKept(mark, there) ==
    ~config.overwrite => /\ mark = "got" => there \in Http!Landed
                         /\ mark = "have" => there # "none"
\* What it says while nothing else happened to the cover.
TellsLast(mark, there) ==
    /\ mark = "got" => there \in Http!Landed
    /\ ~config.overwrite /\ mark \in {"miss", "fail"} => there = "none"

\* MarksTell, and that a cover which is being asked for again is what its last mark
\* says until the request disturbs it: a CRC that is cancelled leaves no mark.
MarksOK ==
    \A i \in DOMAIN results :
        LET cover == CoverOf(results[i].rom) IN
        /\ TellsKept(results[i].mark, card[cover])
        /\ complete /\ Latest(i) /\ ~(Disturbed /\ CoverOf(scan.rom) = cover)
              => TellsLast(results[i].mark, card[cover])

LEMMA MarkIs ==
  ASSUME IInv, NEW i \in DOMAIN results
  PROVE  results[i] \in Result /\ CoverOf(results[i].rom) \in Cover
<1>1. results \in Seq(Result)
  BY DEF IInv, TypeOK, Result
<1>2. results[i] \in Result
  BY <1>1
<1> QED
  BY <1>2, RomCovers DEF Result

\* A step that leaves the history and the card.
LEMMA MarksStay ==
  ASSUME MarksOK, UNCHANGED <<results, complete, card, config>>,
         Disturbed => Disturbed' /\ scan'.rom = scan.rom
  PROVE  MarksOK'
<1>1. ASSUME NEW i \in DOMAIN results'
      PROVE  /\ TellsKept(results[i].mark, card[CoverOf(results[i].rom)])'
             /\ (complete /\ Latest(i) /\ ~(Disturbed /\ CoverOf(scan.rom) = CoverOf(results[i].rom))
                   => TellsLast(results[i].mark, card[CoverOf(results[i].rom)]))'
  BY <1>1 DEF MarksOK, TellsKept, TellsLast, Latest, CoverOf
<1> QED
  BY <1>1 DEF MarksOK

\* A request at work on the card.
LEMMA MarksTransfer ==
  ASSUME IInv, CoverOK, MarksOK, Transfer
  PROVE  MarksOK'
<1>1. CASE scan.at \notin Asking
  BY <1>1, CardStep, MarksStay DEF Disturbed
<1>2. CASE scan.at \in Asking
  <2> DEFINE c0 == CoverOf(scan.rom)
  <2>1. /\ UNCHANGED <<scan, results, complete, config>> /\ c0 \in Cover
        /\ \A c \in Cover : c # c0 => card'[c] = card[c]
        /\ UNCHANGED card \/ Disturbed'
        /\ Disturbed => Disturbed'
    BY <1>2, CardStep
  <2>2. \A rom : CoverOf(rom)' = CoverOf(rom)
    BY <2>1 DEF CoverOf
  <2>3. ASSUME NEW i \in DOMAIN results
        PROVE  /\ TellsKept(results[i].mark, card'[CoverOf(results[i].rom)])
               /\ complete /\ Latest(i) /\ ~(Disturbed' /\ c0 = CoverOf(results[i].rom))
                     => TellsLast(results[i].mark, card'[CoverOf(results[i].rom)])
    <3> DEFINE cover == CoverOf(results[i].rom)
               mark == results[i].mark
    <3>1. /\ TellsKept(mark, card[cover])
          /\ complete /\ Latest(i) /\ ~(Disturbed /\ c0 = cover) => TellsLast(mark, card[cover])
          /\ cover \in Cover
      BY MarkIs DEF MarksOK
    <3> HIDE DEF cover, mark, c0
    <3>2. ASSUME cover # c0
          PROVE  /\ TellsKept(mark, card'[cover])
                 /\ complete /\ Latest(i) => TellsLast(mark, card'[cover])
      BY <2>1, <3>1, <3>2
    <3>3. ASSUME cover = c0
          PROVE  /\ TellsKept(mark, card'[cover])
                 /\ complete /\ Latest(i) /\ ~Disturbed' => TellsLast(mark, card'[cover])
      <4>1. ~config.overwrite => card[c0] = "none" /\ ~(mark = "got") /\ ~(mark = "have")
        <5>1. ~config.overwrite => card[c0] = "none"
          BY <1>2, CardStep DEF CoverOK, c0
        <5> QED
          BY <3>1, <3>3, <5>1, CardIs DEF TellsKept
      <4>2. TellsKept(mark, card'[cover])
        BY <4>1 DEF TellsKept
      <4>3. complete /\ Latest(i) /\ ~Disturbed' => TellsLast(mark, card'[cover])
        BY <2>1, <3>1
      <4> QED
        BY <3>3, <4>2, <4>3
    <3>4. /\ TellsKept(mark, card'[cover])
          /\ complete /\ Latest(i) /\ ~(Disturbed' /\ c0 = cover) => TellsLast(mark, card'[cover])
      BY <3>2, <3>3
    <3> QED
      BY <3>4 DEF cover, mark
  <2>4. ASSUME NEW i \in DOMAIN results
        PROVE  Latest(i)' = Latest(i)
    BY <2>1, <2>2 DEF Latest, CoverOf
  <2>5. config'.overwrite = config.overwrite /\ scan'.rom = scan.rom
    BY <2>1
  <2>6. ASSUME NEW i \in DOMAIN results'
        PROVE  /\ TellsKept(results[i].mark, card[CoverOf(results[i].rom)])'
               /\ (complete /\ Latest(i) /\ ~(Disturbed /\ CoverOf(scan.rom) = CoverOf(results[i].rom))
                     => TellsLast(results[i].mark, card[CoverOf(results[i].rom)]))'
    <3>1. i \in DOMAIN results /\ results'[i] = results[i]
      BY <2>1
    <3>2. CoverOf(results[i].rom)' = CoverOf(results[i].rom) /\ CoverOf(scan.rom)' = c0
      BY <2>1 DEF CoverOf
    <3> QED
      BY <2>1, <2>3, <2>4, <2>5, <3>1, <3>2 DEF TellsKept, TellsLast
  <2> QED
    BY <2>6 DEF MarksOK
<1> QED
  BY <1>1, <1>2

\* A result, remembered or not: of its cover, the last marks before it tell nothing
\* any more.
LEMMA MarksRemember ==
  ASSUME IInv, MarksOK, NEW rom \in Rom, NEW mark \in Marks, NEW known \in BOOLEAN,
         Remember(rom, mark, known), UNCHANGED <<card, config>>, scan'.at = "walk",
         Disturbed => scan.rom = rom,
         TellsKept(mark, card[CoverOf(rom)]), TellsLast(mark, card[CoverOf(rom)])
  PROVE  MarksOK'
<1>1. ~Disturbed'
  BY DEF Disturbed, Asking
<1>2. \A r : CoverPath[config'.launcher][r] = CoverOf(r)
  BY DEF CoverOf
<1>3. CASE complete' = FALSE /\ UNCHANGED results
  <2>1. \A i \in DOMAIN results' : TellsKept(results[i].mark, card[CoverOf(results[i].rom)])'
    BY <1>3 DEF MarksOK, TellsKept, CoverOf
  <2> QED
    BY <1>3, <2>1 DEF MarksOK
<1>4. CASE /\ UNCHANGED complete
           /\ results' = Append(results, [rom |-> rom, mark |-> mark, crc |-> IF known THEN "rom" ELSE "none"])
  <2> DEFINE result == [rom |-> rom, mark |-> mark, crc |-> IF known THEN "rom" ELSE "none"]
             n == Len(results)
  <2>1. result \in Result /\ result.mark = mark /\ result.rom = rom
    BY DEF Result
  <2> HIDE DEF result
  <2>2. results' = Append(results, result) /\ results \in Seq(Result) /\ n \in Nat
    BY <1>4 DEF result, IInv, TypeOK, Result
  <2>3. /\ DOMAIN results' = 1 .. n + 1 /\ results'[n + 1] = result
        /\ \A i \in 1 .. n : results'[i] = results[i]
        /\ DOMAIN results = 1 .. n
    BY <2>1, <2>2, AppendProperties
  <2> HIDE DEF n
  <2>4. ASSUME NEW i \in DOMAIN results'
        PROVE  /\ TellsKept(results[i].mark, card[CoverOf(results[i].rom)])'
               /\ (complete /\ Latest(i) => TellsLast(results[i].mark, card[CoverOf(results[i].rom)]))'
    <3>1. CASE i = n + 1
      <4>1. results'[i].mark = mark /\ CoverOf(results[i].rom)' = CoverOf(rom)
        BY <2>1, <2>3, <3>1 DEF CoverOf
      <4> QED
        BY <4>1 DEF TellsKept, TellsLast
    <3>2. CASE i # n + 1
      <4>1. i \in 1 .. n /\ i \in DOMAIN results /\ results'[i] = results[i] /\ n + 1 > i
        BY <2>2, <2>3, <3>2
      <4>2. CoverOf(results[i].rom)' = CoverOf(results[i].rom)
        BY <4>1 DEF CoverOf
      <4>3. TellsKept(results[i].mark, card[CoverOf(results[i].rom)])
        BY <4>1 DEF MarksOK
      <4>4. Latest(i)' => Latest(i) /\ CoverOf(rom) # CoverOf(results[i].rom)
        <5>1. SUFFICES ASSUME Latest(i)' PROVE Latest(i) /\ CoverOf(rom) # CoverOf(results[i].rom)
          OBVIOUS
        <5>2. \A j \in DOMAIN results' : j > i => CoverOf(results'[j].rom) # CoverOf(results'[i].rom)
          BY <5>1, <1>2 DEF Latest, CoverOf
        <5>3. n + 1 \in DOMAIN results' /\ results'[n + 1].rom = rom
          BY <2>1, <2>2, <2>3
        <5>4. CoverOf(rom) # CoverOf(results[i].rom)
          BY <4>1, <5>2, <5>3
        <5>5. \A j \in DOMAIN results : j \in DOMAIN results' /\ results'[j] = results[j]
          BY <2>2, <2>3
        <5>6. Latest(i)
          BY <4>1, <5>2, <5>5 DEF Latest
        <5> QED
          BY <5>4, <5>6
      <4>5. complete' /\ Latest(i)' => TellsLast(results[i].mark, card[CoverOf(results[i].rom)])
        BY <1>4, <4>1, <4>4 DEF MarksOK
      <4> QED
        BY <4>1, <4>2, <4>3, <4>5 DEF TellsKept, TellsLast
    <3> QED
      BY <3>1, <3>2
  <2> QED
    BY <2>4 DEF MarksOK
<1> QED
  BY <1>3, <1>4 DEF Remember

\* The answer decides the mark, and the mark tells.
LEMMA MarksTally ==
  ASSUME IInv, CoverOK, MarksOK, scan.at \in Working, NEW answer, Tally(answer),
         IF scan.at \in Asking THEN answer = call.answer ELSE answer = "lost",
         UNCHANGED <<card, config>>
  PROVE  MarksOK'
<1>1. scan.rom \in Rom /\ scan.known \in BOOLEAN /\ scan'.at = "walk"
  BY TallyOK DEF IInv, CallOK, StateOK
<1> DEFINE mark == IF answer = "200" THEN "got" ELSE IF answer = "404" THEN "miss" ELSE "fail"
           there == card[CoverOf(scan.rom)]
<1>2. mark \in Marks /\ Remember(scan.rom, mark, scan.known)
  BY DEF Tally, Marks
<1>3. /\ answer = "200" => there \in Http!Landed
      /\ answer # "200" /\ ~config.overwrite => there = "none"
  BY DEF CoverOK, Working, Asking
<1>4. TellsKept(mark, there) /\ TellsLast(mark, there)
  BY <1>3 DEF TellsKept, TellsLast
<1> HIDE DEF mark
<1> QED
  BY <1>1, <1>2, <1>4, MarksRemember

LEMMA MarksStep == IInv /\ CoverOK /\ MarksOK /\ [ScanNext]_vars => MarksOK'
<1> SUFFICES ASSUME IInv, CoverOK, MarksOK, [ScanNext]_vars PROVE MarksOK'
  OBVIOUS
<1>1. CASE AskFormats \/ FetchFormats
  <2>1. UNCHANGED <<results, complete, card, config>> /\ ~Disturbed
    BY <1>1 DEF AskFormats, FetchFormats, Http!TransferBegin, Disturbed, Asking
  <2> QED
    BY <2>1, MarksStay
<1>2. CASE StartRun
  BY <1>2 DEF StartRun, MarksOK
<1>3. CASE UserAborts \/ WalkDir \/ WalkOther \/ Leave \/ EndScan
  <2>1. UNCHANGED <<results, complete, card, config>> /\ scan.at = "walk"
    BY <1>3 DEF UserAborts, WalkDir, WalkOther, Leave, EndScan, Walking, Stay
  <2> QED
    BY <2>1, MarksStay DEF Disturbed, Asking
<1>4. CASE SkipRom
  <2>1. /\ Entry \in Rom /\ Have(Entry) /\ Remember(Entry, "have", FALSE)
        /\ scan.at = "walk" /\ scan'.at = "walk" /\ UNCHANGED <<card, config>>
    BY <1>4 DEF SkipRom, Walking, IsRom, Rom, Stay, IInv, StateOK
  <2>2. ~Disturbed
    BY <2>1 DEF Disturbed, Asking
  <2>3. TellsKept("have", card[CoverOf(Entry)]) /\ TellsLast("have", card[CoverOf(Entry)])
    BY <2>1 DEF TellsKept, TellsLast, Have
  <2> QED
    BY <2>1, <2>2, <2>3, MarksRemember DEF Marks
<1>5. CASE AskForRom
  <2>1. UNCHANGED <<results, complete, card, config>> /\ scan.at = "walk"
    BY <1>5 DEF AskForRom, Walking, Http!TransferBegin
  <2> QED
    BY <2>1, MarksStay DEF Disturbed, Asking
<1>6. ASSUME scan.at \in {"hash", "decode"}, AskAgain \/ CancelRun \/ HashFails, UNCHANGED config
      PROVE  MarksOK'
  <2>1. ~Disturbed /\ scan.at \in Working /\ scan.at \notin Asking
    BY <1>6 DEF Disturbed, Asking, Working
  <2>2. CASE AskAgain \/ CancelRun
    BY <1>6, <2>1, <2>2, MarksStay DEF AskAgain, CancelRun, Http!TransferBegin
  <2>3. CASE HashFails
    BY <1>6, <2>1, <2>3, MarksTally DEF HashFails
  <2> QED
    BY <1>6, <2>2, <2>3
<1>7. CASE Hash
  BY <1>6, <1>7 DEF Hash
<1>8. CASE Decoded
  BY <1>6, <1>8 DEF Decoded
<1>9. CASE FirstAnswer
  <2>1. scan.at \in Asking /\ scan.at \in Working /\ UNCHANGED <<card, config>>
    BY <1>9 DEF FirstAnswer, Stay, Asking, Working
  <2>2. CASE Tally(call.answer)
    BY <2>1, <2>2, MarksTally
  <2>3. CASE call.answer = "404" /\ UNCHANGED <<counters, results, complete>>
    BY <2>1, <2>3, MarksStay DEF Disturbed
  <2> QED
    BY <1>9, <2>2, <2>3 DEF FirstAnswer
<1>10. CASE SecondAnswer
  BY <1>10, MarksTally DEF SecondAnswer, Stay, Asking, Working
<1>11. CASE Transfer
  BY <1>11, MarksTransfer
<1>12. CASE Decode \/ UNCHANGED vars
  <2>1. UNCHANGED <<scan, call, results, complete, card, config>>
    BY <1>12 DEF Decode, scanVars, vars
  <2> QED
    BY <2>1, MarksStay DEF Disturbed
<1> QED
  BY <1>1, <1>2, <1>3, <1>4, <1>5, <1>7, <1>8, <1>9, <1>10, <1>11, <1>12 DEF ScanNext

\* What the list at the end of a run says of each cover is what is on the card
\* (fetch_art, remember_result): "got" and "have" for good with "overwrite" off, the
\* last mark of a cover while the history has them all.
THEOREM MarksAreTrue == Spec => []MarksTell
<1>1. ScanInit => MarksOK
  BY DEF ScanInit, MarksOK
<1>2. IInv /\ MarksOK => MarksTell
  <2> SUFFICES ASSUME IInv, MarksOK, NEW i \in DOMAIN results
               PROVE  /\ TellsKept(results[i].mark, card[CoverOf(results[i].rom)])
                      /\ complete /\ LastOfCover(i) => TellsLast(results[i].mark, card[CoverOf(results[i].rom)])
    BY DEF MarksTell, TellsKept, TellsLast
  <2>1. Disturbed => scan.rom # NoRom
    BY DEF Disturbed, Asking, Working, IInv, CallOK
  <2>2. LastOfCover(i) => Latest(i) /\ ~(Disturbed /\ CoverOf(scan.rom) = CoverOf(results[i].rom))
    BY <2>1 DEF LastOfCover, Latest
  <2> QED
    BY <2>2 DEF MarksOK
<1> QED
  BY <1>1, <1>2, MarksStep, Invariance, CoverInvariance, PTL DEF Spec

-----------------------------------------------------------------------------
(* The walk.  "opened" are the directories the walk has opened, each with its *)
(* depth, "passed" the entries it is past, each as a directory and a place in  *)
(* its listing.                                                             *)

Listed(passed, entry) == \E dir, j : <<dir, j>> \in passed /\ Listing[dir][j] = entry

\* A way down that has been walked, and one that will be: at some directory on it
\* the walk is not past the entry that leads on.
Walked(opened, depth, way) == \A i \in 0 .. depth : <<i, way[i]>> \in opened
Ahead(opened, passed, depth, way) ==
    \E i \in 0 .. depth - 1 : \E j \in DOMAIN Listing[way[i]] :
        <<i, way[i]>> \in opened /\ Listing[way[i]][j] = way[i + 1] /\ <<way[i], j>> \notin passed

OpenedOK(opened, passed) ==
    /\ opened \subseteq (0 .. MaxDepth) \X Dir
    /\ \A m, n, dir : <<m, dir>> \in opened /\ <<n, dir>> \in opened => m = n
    /\ \A n, dir : <<n, dir>> \in opened =>
            /\ \E way \in Ways(n) : way[n] = dir /\ Walked(opened, n, way)
            /\ dir = Root \/ Listed(passed, dir)
    /\ \A dir \in shut : dir = Root \/ Listed(passed, dir)
    /\ \A n \in 0 .. MaxDepth : \A way \in Ways(n) :
            <<n, way[n]>> \in opened \/ Ahead(opened, passed, n, way)

PassedOK(opened, passed) ==
    \A dir, j : <<dir, j>> \in passed =>
        /\ dir \in Dir /\ j \in DOMAIN Listing[dir] /\ \E n : <<n, dir>> \in opened
        /\ Listing[dir][j] \notin Dir /\ IsRom(Listing[dir][j]) => Listing[dir][j] \in seen

SeenOK(passed) ==
    /\ \A rom \in seen : rom \notin Dir /\ IsRom(rom) /\ Listed(passed, rom)
    /\ IsFiniteSet(seen) /\ counters.found = Cardinality(seen)

TreeOK(opened, passed) == OpenedOK(opened, passed) /\ PassedOK(opened, passed) /\ SeenOK(passed)

\* What the walk is past is what its stack says, and all of every directory it left.
StackIn(stack, opened, passed) ==
    /\ \A k \in DOMAIN stack :
            /\ <<k - 1, stack[k].dir>> \in opened
            /\ \A j \in DOMAIN Listing[stack[k].dir] : <<stack[k].dir, j>> \in passed <=> j < stack[k].next
    /\ \A n, dir : <<n, dir>> \in opened =>
            \/ \E k \in DOMAIN stack : stack[k].dir = dir
            \/ \A j \in DOMAIN Listing[dir] : <<dir, j>> \in passed

WalkOK ==
    /\ scan.at = "ended" => scan.stack = <<>>
    /\ scan.at \in Working \cup {"walk", "ended"} /\ ~scan.aborted
            => \E opened, passed : TreeOK(opened, passed) /\ StackIn(scan.stack, opened, passed)

\* An entry the walk is not past has not been met anywhere else.
LEMMA EntryIsFresh ==
  ASSUME NEW opened, NEW passed, TreeOK(opened, passed),
         NEW dir \in Dir, NEW j \in DOMAIN Listing[dir], <<dir, j>> \notin passed
  PROVE  /\ Listing[dir][j] # Root /\ ~Listed(passed, Listing[dir][j])
         /\ \A n : <<n, Listing[dir][j]>> \notin opened
         /\ Listing[dir][j] \notin shut /\ Listing[dir][j] \notin seen
         /\ \A place : <<Listing[dir][j], place>> \notin passed
<1>1. Listing[dir][j] # Root
  BY TreeAssumption
<1>2. ~Listed(passed, Listing[dir][j])
  <2> SUFFICES ASSUME NEW other, NEW i, <<other, i>> \in passed, Listing[other][i] = Listing[dir][j]
               PROVE  FALSE
    BY DEF Listed
  <2>1. other \in Dir /\ i \in DOMAIN Listing[other]
    BY DEF TreeOK, PassedOK
  <2>2. other = dir /\ i = j
    BY <2>1, TreeAssumption
  <2> QED
    BY <2>2
<1>3. \A n : <<n, Listing[dir][j]>> \notin opened
  BY <1>1, <1>2 DEF TreeOK, OpenedOK
<1>4. Listing[dir][j] \notin shut
  BY <1>1, <1>2 DEF TreeOK, OpenedOK
<1>5. Listing[dir][j] \notin seen
  BY <1>2 DEF TreeOK, SeenOK
<1>6. \A place : <<Listing[dir][j], place>> \notin passed
  BY <1>3 DEF TreeOK, PassedOK
<1> QED
  BY <1>1, <1>2, <1>3, <1>4, <1>5, <1>6

\* The walk goes past one entry: a directory is opened, stays shut or is left out, a
\* ROM is come to, and anything else is nothing.
LEMMA TreeStep ==
  ASSUME NEW opened, NEW passed, TreeOK(opened, passed), counters.found \in Nat,
         NEW n, NEW dir, <<n, dir>> \in opened, NEW j \in DOMAIN Listing[dir], <<dir, j>> \notin passed,
         NEW opening \in BOOLEAN, UNCHANGED lists,
         shut' = shut \/ shut' = shut \cup {Listing[dir][j]},
         opening => /\ Listing[dir][j] \in Dir /\ n + 1 \in 0 .. MaxDepth
                    /\ ~IsSkipDir(Listing[dir][j], n) /\ UNCHANGED shut,
         ~opening => \/ Listing[dir][j] \notin Dir \/ IsSkipDir(Listing[dir][j], n)
                     \/ n >= MaxDepth \/ Listing[dir][j] \in shut',
         IF Listing[dir][j] \notin Dir /\ IsRom(Listing[dir][j])
         THEN seen' = seen \cup {Listing[dir][j]} /\ counters'.found = counters.found + 1
         ELSE UNCHANGED seen /\ counters'.found = counters.found
  PROVE  TreeOK(IF opening THEN opened \cup {<<n + 1, Listing[dir][j]>>} ELSE opened, passed \cup {<<dir, j>>})'
<1> DEFINE entry == Listing[dir][j]
           opened2 == IF opening THEN opened \cup {<<n + 1, entry>>} ELSE opened
           passed2 == passed \cup {<<dir, j>>}
<1>1. n \in 0 .. MaxDepth /\ dir \in Dir /\ MaxDepth \in Nat
  BY LimitsAssumption DEF TreeOK, OpenedOK
<1>2. /\ entry # Root /\ ~Listed(passed, entry) /\ entry \notin shut /\ entry \notin seen
      /\ \A m : <<m, entry>> \notin opened
      /\ \A place : <<entry, place>> \notin passed
      /\ entry # dir
  <2>1. /\ entry # Root /\ ~Listed(passed, entry) /\ entry \notin shut /\ entry \notin seen
        /\ \A m : <<m, entry>> \notin opened
        /\ \A place : <<entry, place>> \notin passed
    BY <1>1, EntryIsFresh
  <2> QED
    BY <2>1
<1>3. \A e, m : IsRom(e)' = IsRom(e) /\ IsSkipDir(e, m)' = IsSkipDir(e, m)
  BY DEF IsRom, IsSkipDir
<1>4. \A e : Listed(passed2, e) <=> Listed(passed, e) \/ e = entry
  BY DEF Listed
<1>5. opened \subseteq opened2
  OBVIOUS
<1>6. \A m \in 0 .. MaxDepth : \A way : way \in Ways(m)' =>
         way \in Ways(m) /\ \A i \in 0 .. m : way[i] \in Dir /\ way[i] \notin shut'
  <2> SUFFICES ASSUME NEW m \in 0 .. MaxDepth, NEW way, way \in Ways(m)'
               PROVE  way \in Ways(m) /\ \A i \in 0 .. m : way[i] \in Dir /\ way[i] \notin shut'
    OBVIOUS
  <2>1. /\ way \in [0 .. m -> Dir] /\ way[0] = Root /\ Root \notin shut'
        /\ \A i \in 1 .. m : way[i] \in ToSet(Listing[way[i - 1]]) \ shut' /\ ~IsSkipDir(way[i], i - 1)
    BY <1>3 DEF Ways
  <2>2. shut \subseteq shut'
    OBVIOUS
  <2>3. way \in Ways(m)
    BY <2>1, <2>2 DEF Ways
  <2>4. ASSUME NEW i \in 0 .. m PROVE way[i] \in Dir /\ way[i] \notin shut'
    <3>1. i = 0 \/ i \in 1 .. m
      BY <1>1
    <3> QED
      BY <2>1, <3>1
  <2> QED
    BY <2>3, <2>4
\* A way that has been walked is still one: the entry is not on it.
<1>7. ASSUME NEW m \in 0 .. MaxDepth, NEW way \in Ways(m), Walked(opened, m, way)
      PROVE  way \in Ways(m)' /\ Walked(opened2, m, way)
  <2>1. \A i \in 0 .. m : way[i] # entry
    BY <1>2, <1>7 DEF Walked
  <2>2. /\ way \in [0 .. m -> Dir] /\ way[0] = Root /\ Root \notin shut
        /\ \A i \in 1 .. m : way[i] \in ToSet(Listing[way[i - 1]]) \ shut /\ ~IsSkipDir(way[i], i - 1)
    BY DEF Ways
  <2>3. \A i \in 1 .. m : i \in 0 .. m
    BY <1>1
  <2>4. Root \notin shut' /\ \A i \in 1 .. m : way[i] \notin shut'
    BY <1>2, <2>1, <2>2, <2>3
  <2>5. way \in Ways(m)'
    BY <1>3, <2>2, <2>4 DEF Ways
  <2>6. Walked(opened2, m, way)
    BY <1>5, <1>7 DEF Walked
  <2> QED
    BY <2>5, <2>6
<1> HIDE DEF entry, opened2, passed2
<1>8. SeenOK(passed2)'
  <2>1. \A rom \in seen' : rom \notin Dir /\ IsRom(rom)' /\ Listed(passed2, rom)
    BY <1>3, <1>4 DEF entry, TreeOK, SeenOK
  <2>2. IsFiniteSet(seen) /\ counters.found = Cardinality(seen)
    BY DEF TreeOK, SeenOK
  <2>3. IsFiniteSet(seen') /\ counters'.found = Cardinality(seen')
    <3>1. IsFiniteSet(seen \cup {entry}) /\ Cardinality(seen \cup {entry}) = Cardinality(seen) + 1
      BY <1>2, <2>2, FS_AddElement
    <3> QED
      BY <2>2, <3>1 DEF entry
  <2> QED
    BY <2>1, <2>3 DEF SeenOK, Listed
<1>9. PassedOK(opened2, passed2)'
  <2> SUFFICES ASSUME NEW d, NEW i, <<d, i>> \in passed2
               PROVE  /\ d \in Dir /\ i \in DOMAIN Listing[d] /\ \E m : <<m, d>> \in opened2
                      /\ Listing[d][i] \notin Dir /\ IsRom(Listing[d][i])' => Listing[d][i] \in seen'
    BY DEF PassedOK
  <2>1. CASE <<d, i>> \in passed
    <3>1. /\ d \in Dir /\ i \in DOMAIN Listing[d] /\ \E m : <<m, d>> \in opened
          /\ Listing[d][i] \notin Dir /\ IsRom(Listing[d][i]) => Listing[d][i] \in seen
      BY <2>1 DEF TreeOK, PassedOK
    <3>2. seen \subseteq seen' /\ IsRom(Listing[d][i])' = IsRom(Listing[d][i])
      BY <1>3
    <3> QED
      BY <1>5, <3>1, <3>2
  <2>2. CASE <<d, i>> = <<dir, j>>
    <3>1. d = dir /\ i = j /\ IsRom(Listing[d][i])' = IsRom(Listing[d][i])
      BY <1>3, <2>2
    <3> QED
      BY <1>1, <1>5, <3>1
  <2> QED
    BY <2>1, <2>2 DEF passed2
<1>10. OpenedOK(opened2, passed2)'
  <2>1. opened2 \subseteq (0 .. MaxDepth) \X Dir
    BY DEF TreeOK, OpenedOK, opened2, entry
  <2>2. ASSUME NEW l, NEW m, NEW d, <<l, d>> \in opened2, <<m, d>> \in opened2 PROVE l = m
    BY <1>2, <2>2 DEF TreeOK, OpenedOK, opened2
  <2>3. ASSUME NEW m, NEW d, <<m, d>> \in opened2
        PROVE  /\ \E way \in Ways(m)' : way[m] = d /\ Walked(opened2, m, way)
               /\ d = Root \/ Listed(passed2, d)
    <3>1. CASE <<m, d>> \in opened
      <4>1. m \in 0 .. MaxDepth /\ (d = Root \/ Listed(passed, d))
        BY <3>1 DEF TreeOK, OpenedOK
      <4>2. PICK way \in Ways(m) : way[m] = d /\ Walked(opened, m, way)
        BY <3>1 DEF TreeOK, OpenedOK
      <4>3. way \in Ways(m)' /\ Walked(opened2, m, way)
        BY <1>7, <4>1, <4>2
      <4> QED
        BY <1>4, <4>1, <4>2, <4>3
    <3>2. CASE opening /\ <<m, d>> = <<n + 1, entry>>
      <4>1. m = n + 1 /\ d = entry /\ entry \in Dir /\ n + 1 \in 0 .. MaxDepth /\ ~IsSkipDir(entry, n) /\ UNCHANGED shut
        BY <3>2 DEF entry
      <4>2. PICK way \in Ways(n) : way[n] = dir /\ Walked(opened, n, way)
        BY DEF TreeOK, OpenedOK
      <4>3. /\ way \in [0 .. n -> Dir] /\ way[0] = Root /\ Root \notin shut
            /\ \A i \in 1 .. n : way[i] \in ToSet(Listing[way[i - 1]]) \ shut /\ ~IsSkipDir(way[i], i - 1)
        BY <4>2 DEF Ways
      <4> DEFINE longer == [i \in 0 .. n + 1 |-> IF i = n + 1 THEN entry ELSE way[i]]
      <4>4. \A i \in 0 .. n : longer[i] = way[i]
        BY <1>1
      <4>5. longer \in [0 .. n + 1 -> Dir] /\ longer[0] = Root /\ longer[n + 1] = entry
        BY <1>1, <4>1, <4>3
      <4>6. entry \in ToSet(Listing[dir]) \ shut
        BY <1>2 DEF ToSet, entry
      <4> HIDE DEF longer
      <4>7. ASSUME NEW i \in 1 .. n + 1
            PROVE  longer[i] \in ToSet(Listing[longer[i - 1]]) \ shut /\ ~IsSkipDir(longer[i], i - 1)
        <5>1. CASE i = n + 1
          <6>1. n \in 0 .. n /\ i - 1 = n
            BY <1>1, <5>1
          <6> QED
            BY <4>1, <4>2, <4>4, <4>5, <4>6, <5>1, <6>1
        <5>2. CASE i # n + 1
          <6>1. i \in 1 .. n /\ i \in 0 .. n /\ i - 1 \in 0 .. n
            BY <1>1, <5>2
          <6> QED
            BY <4>3, <4>4, <6>1
        <5> QED
          BY <5>1, <5>2
      <4>8. longer \in Ways(n + 1)'
        BY <1>3, <4>1, <4>3, <4>5, <4>7 DEF Ways
      <4>9. ASSUME NEW i \in 0 .. n + 1 PROVE <<i, longer[i]>> \in opened2
        <5>1. CASE i = n + 1
          BY <3>2, <4>5, <5>1 DEF opened2
        <5>2. CASE i # n + 1
          <6>1. i \in 0 .. n
            BY <1>1, <5>2
          <6> QED
            BY <1>5, <4>2, <4>4, <6>1 DEF Walked
        <5> QED
          BY <5>1, <5>2
      <4> QED
        BY <1>4, <4>1, <4>5, <4>8, <4>9 DEF Walked
    <3> QED
      BY <2>3, <3>1, <3>2 DEF opened2
  <2>4. ASSUME NEW d \in shut' PROVE d = Root \/ Listed(passed2, d)
    BY <1>4 DEF TreeOK, OpenedOK, entry
  <2>5. ASSUME NEW m \in 0 .. MaxDepth, NEW way \in Ways(m)'
        PROVE  <<m, way[m]>> \in opened2 \/ Ahead(opened2, passed2, m, way)
    <3>1. way \in Ways(m) /\ \A i \in 0 .. m : way[i] \in Dir /\ way[i] \notin shut'
      BY <1>6, <2>5
    <3>2. CASE <<m, way[m]>> \in opened
      BY <1>5, <3>2
    <3>3. CASE Ahead(opened, passed, m, way)
      <4>1. PICK i \in 0 .. m - 1 : \E at \in DOMAIN Listing[way[i]] :
                <<i, way[i]>> \in opened /\ Listing[way[i]][at] = way[i + 1] /\ <<way[i], at>> \notin passed
        BY <3>3 DEF Ahead
      <4>2. PICK at \in DOMAIN Listing[way[i]] :
                <<i, way[i]>> \in opened /\ Listing[way[i]][at] = way[i + 1] /\ <<way[i], at>> \notin passed
        BY <4>1
      <4>3. CASE <<way[i], at>> # <<dir, j>>
        BY <1>5, <4>2, <4>3 DEF Ahead, passed2
      <4>4. CASE <<way[i], at>> = <<dir, j>>
        <5>1. way[i] = dir /\ at = j /\ way[i + 1] = entry
          BY <4>2, <4>4 DEF entry
        <5>2. i = n
          BY <4>2, <5>1 DEF TreeOK, OpenedOK
        <5>3. i \in Nat /\ i + 1 \in 1 .. m /\ i + 1 \in 0 .. m /\ (i + 1) - 1 = i /\ m <= MaxDepth /\ m \in Nat
          BY <1>1
        <5>4. entry \in Dir /\ entry \notin shut' /\ ~IsSkipDir(entry, n) /\ n < MaxDepth
          BY <1>1, <3>1, <5>1, <5>2, <5>3 DEF Ways
        <5>5. opening
          BY <1>1, <5>4 DEF entry
        <5>6. <<i + 1, way[i + 1]>> \in opened2
          BY <5>1, <5>2, <5>5 DEF opened2
        <5>7. CASE i + 1 = m
          BY <5>6, <5>7
        <5>8. CASE i + 1 # m
          <6>1. i + 1 \in 0 .. m - 1 /\ (i + 1) + 1 \in 1 .. m /\ ((i + 1) + 1) - 1 = i + 1
            BY <5>3, <5>8
          <6>2. way[(i + 1) + 1] \in ToSet(Listing[way[i + 1]])
            BY <3>1, <6>1 DEF Ways
          <6>3. PICK next \in DOMAIN Listing[way[i + 1]] : Listing[way[i + 1]][next] = way[(i + 1) + 1]
            BY <6>2 DEF ToSet
          <6>4. <<way[i + 1], next>> \notin passed2
            BY <1>2, <5>1 DEF passed2
          <6> QED
            BY <5>6, <6>1, <6>3, <6>4 DEF Ahead
        <5> QED
          BY <5>7, <5>8
      <4> QED
        BY <4>3, <4>4
    <3> QED
      BY <3>1, <3>2, <3>3 DEF TreeOK, OpenedOK
  <2> QED
    BY <2>1, <2>2, <2>3, <2>4, <2>5 DEF OpenedOK, Walked, Ahead, Listed
<1> QED
  BY <1>8, <1>9, <1>10 DEF TreeOK, opened2, passed2, entry

LEMMA TreeStay ==
  ASSUME NEW opened, NEW passed, TreeOK(opened, passed),
         UNCHANGED <<seen, shut, lists>>, counters'.found = counters.found
  PROVE  TreeOK(opened, passed)'
<1>1. \A e, m : IsRom(e)' = IsRom(e) /\ IsSkipDir(e, m)' = IsSkipDir(e, m)
  BY DEF IsRom, IsSkipDir
<1>2. \A m : Ways(m)' = Ways(m)
  BY <1>1 DEF Ways
<1>3. OpenedOK(opened, passed)'
  <2>1. OpenedOK(opened, passed)
    BY DEF TreeOK
  <2>2. \A n, dir : <<n, dir>> \in opened =>
            /\ \E way \in Ways(n)' : way[n] = dir /\ Walked(opened, n, way)
            /\ dir = Root \/ Listed(passed, dir)
    BY <1>2, <2>1 DEF OpenedOK
  <2>3. \A n \in 0 .. MaxDepth : \A way \in Ways(n)' :
            <<n, way[n]>> \in opened \/ Ahead(opened, passed, n, way)
    BY <1>2, <2>1 DEF OpenedOK
  <2>4. /\ opened \subseteq (0 .. MaxDepth) \X Dir
        /\ \A m, n, dir : <<m, dir>> \in opened /\ <<n, dir>> \in opened => m = n
        /\ \A dir \in shut' : dir = Root \/ Listed(passed, dir)
    BY <2>1 DEF OpenedOK
  <2> QED
    BY <2>2, <2>3, <2>4 DEF OpenedOK, Walked, Ahead, Listed
<1>4. PassedOK(opened, passed)'
  BY <1>1 DEF TreeOK, PassedOK
<1>5. SeenOK(passed)'
  BY <1>1 DEF TreeOK, SeenOK, Listed
<1> QED
  BY <1>3, <1>4, <1>5 DEF TreeOK

\* The directories of the stack are different ones, and the walk is not past its next
\* entry.
LEMMA StackHere ==
  ASSUME IInv, scan.stack # <<>>, NEW opened, NEW passed, TreeOK(opened, passed),
         StackIn(scan.stack, opened, passed)
  PROVE  /\ <<Depth, Last(scan.stack).dir>> \in opened
         /\ \A k, l \in DOMAIN scan.stack : scan.stack[k].dir = scan.stack[l].dir => k = l
         /\ More => /\ Last(scan.stack).next \in DOMAIN Listing[Last(scan.stack).dir]
                    /\ <<Last(scan.stack).dir, Last(scan.stack).next>> \notin passed
<1>1. scan.stack \in Seq(Frames)
  BY DEF IInv, StateOK
<1>2. Len(scan.stack) \in DOMAIN scan.stack /\ Last(scan.stack) = scan.stack[Len(scan.stack)]
  BY <1>1, StackTop
<1>3. ASSUME NEW k \in DOMAIN scan.stack, NEW l \in DOMAIN scan.stack, scan.stack[k].dir = scan.stack[l].dir
      PROVE  k = l
  <2>1. <<k - 1, scan.stack[k].dir>> \in opened /\ <<l - 1, scan.stack[k].dir>> \in opened
    BY <1>3 DEF StackIn
  <2>2. k - 1 = l - 1
    BY <2>1 DEF TreeOK, OpenedOK
  <2>3. k \in Nat /\ l \in Nat
    BY <1>1
  <2> QED
    BY <2>2, <2>3
<1>4. <<Depth, Last(scan.stack).dir>> \in opened
  BY <1>2 DEF StackIn, Depth
<1>5. ASSUME More
      PROVE  /\ Last(scan.stack).next \in DOMAIN Listing[Last(scan.stack).dir]
             /\ <<Last(scan.stack).dir, Last(scan.stack).next>> \notin passed
  <2>1. Listing[Last(scan.stack).dir] \in Seq(ToSet(Listing[Last(scan.stack).dir]))
    BY StackTop, CardAssumption
  <2>2. Last(scan.stack).next \in DOMAIN Listing[Last(scan.stack).dir]
    BY <1>5, <2>1, StackTop DEF More
  <2>3. ~(Last(scan.stack).next < Last(scan.stack).next)
    BY StackTop
  <2> QED
    BY <1>2, <2>2, <2>3 DEF StackIn
<1> QED
  BY <1>3, <1>4, <1>5

\* The walk goes on to the next entry of a directory.
LEMMA StackAdvanced ==
  ASSUME IInv, scan.stack # <<>>, More, NEW opened, NEW passed, TreeOK(opened, passed),
         StackIn(scan.stack, opened, passed)
  PROVE  StackIn(Advanced, opened, passed \cup {<<Last(scan.stack).dir, Last(scan.stack).next>>})
<1> DEFINE n == Len(scan.stack)
           dir == Last(scan.stack).dir
           j == Last(scan.stack).next
           passed2 == passed \cup {<<dir, j>>}
<1>1. /\ n \in Nat \ {0} /\ DOMAIN scan.stack = 1 .. n /\ DOMAIN Advanced = 1 .. n
      /\ scan.stack[n].dir = dir /\ scan.stack[n].next = j /\ j \in Nat
  <2>1. scan.stack \in Seq(Frames)
    BY DEF IInv, StateOK
  <2> QED
    BY <2>1, StackTop, AdvancedOK DEF Frames
<1>2. /\ Advanced[n].dir = dir /\ Advanced[n].next = j + 1
      /\ \A k \in 1 .. n - 1 : Advanced[k] = scan.stack[k]
  BY StackTop, AdvancedOK DEF Frames
<1>3. \A k \in 1 .. n - 1 : scan.stack[k].dir # dir
  <2>1. \A k \in 1 .. n - 1 : k \in 1 .. n /\ n \in 1 .. n /\ k # n
    BY <1>1
  <2> QED
    BY <1>1, <2>1, StackHere
<1>4. \A k \in 1 .. n : Advanced[k].dir = scan.stack[k].dir
  <2>1. \A k \in 1 .. n : k = n \/ k \in 1 .. n - 1
    BY <1>1
  <2> QED
    BY <1>1, <1>2, <2>1
<1> HIDE DEF n, dir, j
<1>5. ASSUME NEW k \in DOMAIN Advanced
      PROVE  /\ <<k - 1, Advanced[k].dir>> \in opened
             /\ \A i \in DOMAIN Listing[Advanced[k].dir] :
                    <<Advanced[k].dir, i>> \in passed2 <=> i < Advanced[k].next
  <2>1. k \in 1 .. n /\ <<k - 1, Advanced[k].dir>> \in opened
    BY <1>1, <1>4 DEF StackIn
  <2>2. \A i \in DOMAIN Listing[scan.stack[k].dir] : <<scan.stack[k].dir, i>> \in passed <=> i < scan.stack[k].next
    BY <1>1, <2>1 DEF StackIn
  <2>3. CASE k = n
    <3>1. ASSUME NEW i \in DOMAIN Listing[dir]
          PROVE  <<dir, i>> \in passed2 <=> i < j + 1
      <4>1. i \in Nat
        <5>1. dir \in Dir
          BY StackTop DEF dir
        <5>2. Listing[dir] \in Seq(ToSet(Listing[dir]))
          BY <5>1, CardAssumption
        <5> QED
          BY <5>2
      <4>2. <<dir, i>> \in passed <=> i < j
        BY <1>1, <2>2, <2>3
      <4>3. i < j + 1 <=> i < j \/ i = j
        BY <1>1, <4>1
      <4>4. <<dir, i>> \in passed2 <=> <<dir, i>> \in passed \/ i = j
        BY DEF dir, j
      <4> QED
        BY <4>2, <4>3, <4>4
    <3> QED
      BY <1>2, <2>1, <2>3, <3>1
  <2>4. CASE k # n
    <3>1. k \in 1 .. n - 1
      BY <1>1, <2>1, <2>4
    <3> QED
      BY <1>2, <1>3, <2>1, <2>2, <3>1
  <2> QED
    BY <2>3, <2>4
<1>6. ASSUME NEW m, NEW d, <<m, d>> \in opened
      PROVE  \/ \E k \in DOMAIN Advanced : Advanced[k].dir = d
             \/ \A i \in DOMAIN Listing[d] : <<d, i>> \in passed2
  BY <1>1, <1>4, <1>6 DEF StackIn
<1> QED
  BY <1>5, <1>6 DEF StackIn, dir, j

\* It goes into a directory nobody has been in.
LEMMA StackPushed ==
  ASSUME IInv, scan.stack # <<>>, More, NEW opened, NEW passed, NEW dir \in Dir,
         StackIn(Advanced, opened, passed), \A n : <<n, dir>> \notin opened, \A i : <<dir, i>> \notin passed
  PROVE  StackIn(Append(Advanced, Frame(dir)), opened \cup {<<Depth + 1, dir>>}, passed)
<1> DEFINE n == Len(scan.stack)
           stack == Append(Advanced, Frame(dir))
<1>1. n \in Nat \ {0} /\ DOMAIN Advanced = 1 .. n /\ Advanced \in Seq(Frames) /\ Len(Advanced) = n
  BY StackTop, AdvancedOK
<1>2. Frame(dir) \in Frames /\ Frame(dir).next = 1 /\ Frame(dir).dir = dir
  BY DEF Frame, Frames
<1>3. /\ DOMAIN stack = 1 .. n + 1 /\ stack[n + 1] = Frame(dir)
      /\ \A k \in 1 .. n : stack[k] = Advanced[k]
  BY <1>1, <1>2, AppendProperties
<1>4. Depth + 1 = n
  BY <1>1 DEF Depth
<1> HIDE DEF n, stack
<1>5. ASSUME NEW k \in DOMAIN stack
      PROVE  /\ <<k - 1, stack[k].dir>> \in opened \cup {<<Depth + 1, dir>>}
             /\ \A i \in DOMAIN Listing[stack[k].dir] : <<stack[k].dir, i>> \in passed <=> i < stack[k].next
  <2>1. CASE k = n + 1
    <3>1. stack[k].dir = dir /\ stack[k].next = 1 /\ k - 1 = n
      BY <1>1, <1>2, <1>3, <2>1
    <3>2. ASSUME NEW i \in DOMAIN Listing[dir] PROVE ~(i < 1)
      <4>1. Listing[dir] \in Seq(ToSet(Listing[dir]))
        BY CardAssumption
      <4>2. i \in 1 .. Len(Listing[dir])
        BY <4>1
      <4> QED
        BY <4>2
    <3> QED
      BY <1>4, <3>1, <3>2
  <2>2. CASE k # n + 1
    <3>1. k \in 1 .. n
      BY <1>1, <1>3, <2>2
    <3> QED
      BY <1>1, <1>3, <3>1 DEF StackIn
  <2> QED
    BY <2>1, <2>2
<1>6. ASSUME NEW m, NEW d, <<m, d>> \in opened \cup {<<Depth + 1, dir>>}
      PROVE  \/ \E k \in DOMAIN stack : stack[k].dir = d
             \/ \A i \in DOMAIN Listing[d] : <<d, i>> \in passed
  <2>1. CASE <<m, d>> \in opened
    <3>1. \A k \in 1 .. n : k \in 1 .. n + 1
      BY <1>1
    <3> QED
      BY <1>1, <1>3, <2>1, <3>1 DEF StackIn
  <2>2. CASE <<m, d>> = <<Depth + 1, dir>>
    <3>1. d = dir /\ n + 1 \in DOMAIN stack /\ stack[n + 1].dir = dir
      BY <1>1, <1>2, <1>3, <2>2
    <3> QED
      BY <3>1
  <2> QED
    BY <1>6, <2>1, <2>2
<1> QED
  BY <1>5, <1>6 DEF StackIn, stack

\* It leaves a directory that is done.
LEMMA StackLeft ==
  ASSUME IInv, scan.stack # <<>>, ~More, NEW opened, NEW passed, StackIn(scan.stack, opened, passed)
  PROVE  StackIn(Front(scan.stack), opened, passed)
<1> DEFINE n == Len(scan.stack)
           dir == Last(scan.stack).dir
<1>1. /\ n \in Nat \ {0} /\ DOMAIN scan.stack = 1 .. n /\ DOMAIN Front(scan.stack) = 1 .. n - 1
      /\ scan.stack[n].dir = dir /\ dir \in Dir
      /\ \A k \in 1 .. n - 1 : Front(scan.stack)[k] = scan.stack[k]
  <2>1. scan.stack \in Seq(Frames)
    BY DEF IInv, StateOK
  <2> QED
    BY <2>1, StackTop, FrontOK
<1>2. \A i \in DOMAIN Listing[dir] : <<dir, i>> \in passed
  <2> SUFFICES ASSUME NEW i \in DOMAIN Listing[dir] PROVE <<dir, i>> \in passed
    OBVIOUS
  <2>1. Listing[dir] \in Seq(ToSet(Listing[dir]))
    BY <1>1, CardAssumption
  <2>2. i \in 1 .. Len(Listing[dir]) /\ Len(Listing[dir]) \in Nat
    BY <2>1
  <2>3. i < scan.stack[n].next
    BY <2>2, StackTop DEF More
  <2>4. n \in DOMAIN scan.stack
    BY <1>1
  <2> QED
    BY <1>1, <2>3, <2>4 DEF StackIn
<1>3. ASSUME NEW k \in DOMAIN Front(scan.stack)
      PROVE  Front(scan.stack)[k] = scan.stack[k] /\ k \in DOMAIN scan.stack
  BY <1>1
<1>4. ASSUME NEW m, NEW d, <<m, d>> \in opened
      PROVE  \/ \E k \in DOMAIN Front(scan.stack) : Front(scan.stack)[k].dir = d
             \/ \A i \in DOMAIN Listing[d] : <<d, i>> \in passed
  <2>1. CASE d = dir
    BY <1>2, <2>1
  <2>2. ASSUME d # dir, NEW k \in DOMAIN scan.stack, scan.stack[k].dir = d
        PROVE  \E l \in DOMAIN Front(scan.stack) : Front(scan.stack)[l].dir = d
    <3>1. k # n /\ k \in 1 .. n - 1
      BY <1>1, <2>2
    <3> QED
      BY <1>1, <2>2, <3>1
  <2> QED
    BY <1>4, <2>1, <2>2 DEF StackIn
<1> QED
  BY <1>3, <1>4 DEF StackIn

\* A step of the walk past an entry.
LEMMA WalkOn ==
  ASSUME IInv, WalkOK, Walking, NEW opening \in BOOLEAN, UNCHANGED lists,
         scan'.at # "ended",
         scan'.stack = IF opening THEN Append(Advanced, Frame(Entry)) ELSE Advanced,
         shut' = shut \/ shut' = shut \cup {Entry},
         opening => Entry \in Dir /\ ~IsSkipDir(Entry, Depth) /\ ~TooDeep(Depth + 1) /\ UNCHANGED shut,
         ~opening => \/ Entry \notin Dir \/ IsSkipDir(Entry, Depth)
                     \/ TooDeep(Depth + 1) \/ Entry \in shut',
         IF Entry \notin Dir /\ IsRom(Entry)
         THEN seen' = seen \cup {Entry} /\ counters'.found = counters.found + 1
         ELSE UNCHANGED seen /\ counters'.found = counters.found
  PROVE  WalkOK'
<1>1. scan.stack # <<>> /\ More /\ scan.at = "walk" /\ ~scan.aborted
  BY DEF Walking
<1>2. PICK opened, passed : TreeOK(opened, passed) /\ StackIn(scan.stack, opened, passed)
  BY <1>1 DEF WalkOK
<1>3. PICK n, dir, j, entry :
         /\ n = Depth /\ dir = Last(scan.stack).dir /\ j = Last(scan.stack).next /\ entry = Entry
  OBVIOUS
<1>4. /\ <<n, dir>> \in opened /\ j \in DOMAIN Listing[dir] /\ <<dir, j>> \notin passed
      /\ entry = Listing[dir][j]
      /\ dir \in Dir /\ n \in Nat /\ MaxDepth \in Nat
  BY <1>1, <1>2, <1>3, StackHere, StackTop, LimitsAssumption DEF Entry, Depth
<1> DEFINE opened2 == IF opening THEN opened \cup {<<n + 1, entry>>} ELSE opened
           passed2 == passed \cup {<<dir, j>>}
<1>5. TreeOK(opened2, passed2)'
  <2>1. counters.found \in Nat
    BY Counters
  <2>2. /\ opening => Listing[dir][j] \in Dir /\ n + 1 \in 0 .. MaxDepth /\ ~IsSkipDir(Listing[dir][j], n) /\ UNCHANGED shut
        /\ ~opening => \/ Listing[dir][j] \notin Dir \/ IsSkipDir(Listing[dir][j], n)
                       \/ n >= MaxDepth \/ Listing[dir][j] \in shut'
    BY <1>3, <1>4 DEF TooDeep
  <2>3. shut' = shut \/ shut' = shut \cup {Listing[dir][j]}
    BY <1>3, <1>4
  <2>4. IF Listing[dir][j] \notin Dir /\ IsRom(Listing[dir][j])
        THEN seen' = seen \cup {Listing[dir][j]} /\ counters'.found = counters.found + 1
        ELSE UNCHANGED seen /\ counters'.found = counters.found
    BY <1>3, <1>4
  <2>5. TreeOK(IF opening THEN opened \cup {<<n + 1, Listing[dir][j]>>} ELSE opened, passed \cup {<<dir, j>>})'
    BY <1>2, <1>4, <2>1, <2>2, <2>3, <2>4, TreeStep
  <2> QED
    BY <1>4, <2>5
<1>6. StackIn(Advanced, opened, passed2)
  BY <1>1, <1>2, <1>3, StackAdvanced
<1>7. StackIn(scan'.stack, opened2, passed2)
  <2>1. CASE opening
    <3>1. entry \in Dir /\ (\A m : <<m, entry>> \notin opened) /\ (\A i : <<entry, i>> \notin passed)
      <4>1. (\A m : <<m, Listing[dir][j]>> \notin opened) /\ (\A i : <<Listing[dir][j], i>> \notin passed)
        BY <1>2, <1>4, EntryIsFresh
      <4> QED
        BY <1>3, <1>4, <2>1, <4>1
    <3>2. entry # dir
      BY <1>4, <3>1
    <3>3. \A i : <<entry, i>> \notin passed2
      BY <3>1, <3>2
    <3>4. opened2 = opened \cup {<<Depth + 1, entry>>} /\ scan'.stack = Append(Advanced, Frame(entry))
      BY <1>3, <2>1
    <3> HIDE DEF opened2, passed2
    <3>5. StackIn(Append(Advanced, Frame(entry)), opened \cup {<<Depth + 1, entry>>}, passed2)
      BY <1>1, <1>6, <3>1, <3>3, StackPushed
    <3> QED
      BY <3>4, <3>5
  <2>2. CASE ~opening
    BY <1>6, <2>2
  <2> QED
    BY <2>1, <2>2
<1> HIDE DEF opened2, passed2
<1>8. TreeOK(opened2, passed2)' /\ StackIn(scan.stack, opened2, passed2)'
  BY <1>5, <1>7 DEF StackIn, opened2, passed2
<1>9. (\E o, p : TreeOK(o, p) /\ StackIn(scan.stack, o, p))'
  BY <1>8 DEF opened2, passed2
<1> QED
  BY <1>9 DEF WalkOK

\* A step that leaves the walk where it is.
LEMMA WalkStays ==
  ASSUME WalkOK, scan'.stack = scan.stack, scan'.aborted = scan.aborted,
         UNCHANGED <<seen, shut, lists>>, counters'.found = counters.found,
         scan.at \in Working \cup {"walk", "ended"} \/ scan'.at \notin Working \cup {"walk", "ended"},
         scan'.at = "ended" => scan.stack = <<>>
  PROVE  WalkOK'
<1>1. CASE scan'.at \in Working \cup {"walk", "ended"} /\ ~scan'.aborted
  <2>1. PICK opened, passed : TreeOK(opened, passed) /\ StackIn(scan.stack, opened, passed)
    BY <1>1 DEF WalkOK
  <2>2. TreeOK(opened, passed)' /\ StackIn(scan.stack, opened, passed)'
    BY <2>1, TreeStay DEF StackIn
  <2>3. (\E o, p : TreeOK(o, p) /\ StackIn(scan.stack, o, p))'
    BY <2>2
  <2> QED
    BY <2>3 DEF WalkOK
<1>2. CASE ~(scan'.at \in Working \cup {"walk", "ended"} /\ ~scan'.aborted)
  BY <1>2 DEF WalkOK
<1> QED
  BY <1>1, <1>2

\* A run starts at the root, or nowhere if that does not open.
LEMMA WalkStarts ==
  ASSUME StartRun
  PROVE  WalkOK'
<1>1. PICK open \in BOOLEAN :
         /\ scan'.stack = (IF open THEN <<Frame(Root)>> ELSE <<>>)
         /\ shut' = (IF open THEN {} ELSE {Root})
  BY DEF StartRun, IdleScan
<1>2. seen' = {} /\ counters'.found = 0 /\ scan'.at = "walk"
  BY DEF StartRun, CountsAtStart, NoCounts, IdleScan
<1> DEFINE opened == IF open THEN {<<0, Root>>} ELSE {}
<1>3. MaxDepth \in Nat /\ Root \in Dir
  BY LimitsAssumption, CardAssumption
<1>4. SeenOK({})'
  BY <1>2, FS_EmptySet DEF SeenOK
<1>5. PassedOK(opened, {})'
  BY DEF PassedOK
<1>6. OpenedOK(opened, {})'
  <2>1. opened \subseteq (0 .. MaxDepth) \X Dir
    BY <1>3
  <2>2. \A m, n, dir : <<m, dir>> \in opened /\ <<n, dir>> \in opened => m = n
    OBVIOUS
  <2>3. ASSUME NEW n, NEW dir, <<n, dir>> \in opened
        PROVE  dir = Root /\ \E way \in Ways(n)' : way[n] = dir /\ Walked(opened, n, way)
    <3>1. n = 0 /\ dir = Root /\ open
      BY <2>3
    <3> DEFINE way == [i \in 0 .. 0 |-> Root]
    <3>2. way \in [0 .. 0 -> Dir] /\ way[0] = Root
      BY <1>3
    <3>3. 1 .. 0 = {} /\ 0 .. 0 = {0}
      OBVIOUS
    <3> HIDE DEF way
    <3>4. way \in Ways(0)'
      BY <1>1, <3>1, <3>2, <3>3 DEF Ways
    <3>5. Walked(opened, 0, way)
      BY <3>1, <3>2, <3>3 DEF Walked
    <3> QED
      BY <3>1, <3>2, <3>4, <3>5
  <2>4. \A dir \in shut' : dir = Root
    BY <1>1
  <2>5. ASSUME NEW n \in 0 .. MaxDepth, NEW way \in Ways(n)'
        PROVE  <<n, way[n]>> \in opened \/ Ahead(opened, {}, n, way)
    <3>1. /\ way[0] = Root /\ open
          /\ \A i \in 1 .. n : way[i] \in ToSet(Listing[way[i - 1]])
      BY <1>1, <2>5 DEF Ways
    <3>2. CASE n = 0
      BY <3>1, <3>2
    <3>3. CASE n # 0
      <4>1. 0 \in 0 .. n - 1 /\ 1 \in 1 .. n /\ 1 - 1 = 0 /\ 0 + 1 = 1
        BY <1>3, <3>3
      <4>2. PICK j \in DOMAIN Listing[way[0]] : Listing[way[0]][j] = way[0 + 1]
        BY <3>1, <4>1 DEF ToSet
      <4> QED
        BY <3>1, <4>1, <4>2 DEF Ahead
    <3> QED
      BY <3>2, <3>3
  <2> HIDE DEF opened
  <2>6. \A n, dir : <<n, dir>> \in opened =>
            /\ \E way \in Ways(n)' : way[n] = dir /\ Walked(opened, n, way)
            /\ dir = Root \/ Listed({}, dir)
    BY <2>3
  <2>7. \A dir \in shut' : dir = Root \/ Listed({}, dir)
    BY <2>4
  <2>8. \A n \in 0 .. MaxDepth : \A way \in Ways(n)' :
            <<n, way[n]>> \in opened \/ Ahead(opened, {}, n, way)
    BY <2>5
  <2> QED
    BY <2>1, <2>2, <2>6, <2>7, <2>8 DEF OpenedOK, Walked, Ahead, Listed, opened
<1>7. StackIn(scan'.stack, opened, {})
  <2>1. CASE open
    <3>1. scan'.stack = <<Frame(Root)>> /\ Frame(Root).dir = Root /\ Frame(Root).next = 1
      BY <1>1, <2>1 DEF Frame
    <3>2. DOMAIN scan'.stack = {1} /\ scan'.stack[1].dir = Root /\ scan'.stack[1].next = 1 /\ 1 - 1 = 0
      BY <3>1
    <3>3. \A i \in DOMAIN Listing[Root] : ~(i < 1)
      <4>1. Listing[Root] \in Seq(ToSet(Listing[Root]))
        BY <1>3, CardAssumption
      <4>2. \A i \in 1 .. Len(Listing[Root]) : ~(i < 1)
        BY <4>1
      <4> QED
        BY <4>1, <4>2
    <3>4. opened = {<<0, Root>>}
      BY <2>1
    <3> QED
      BY <3>2, <3>3, <3>4 DEF StackIn
  <2>2. CASE ~open
    BY <1>1, <2>2 DEF StackIn
  <2> QED
    BY <2>1, <2>2
<1> HIDE DEF opened
<1>8. TreeOK(opened, {})' /\ StackIn(scan.stack, opened, {})'
  BY <1>4, <1>5, <1>6, <1>7 DEF TreeOK, StackIn, opened
<1>9. (\E o, p : TreeOK(o, p) /\ StackIn(scan.stack, o, p))'
  BY <1>8 DEF opened
<1> QED
  BY <1>2, <1>9 DEF WalkOK

LEMMA WalkLeaves ==
  ASSUME IInv, WalkOK, Leave
  PROVE  WalkOK'
<1>1. /\ scan.at = "walk" /\ scan.stack # <<>> /\ scan'.at = "walk" /\ scan'.aborted = scan.aborted
      /\ scan'.stack = Front(scan.stack)
      /\ UNCHANGED <<seen, shut, lists, counters>>
  BY DEF Leave, Stay, IInv, StateOK
<1>2. CASE scan.aborted
  BY <1>1, <1>2 DEF WalkOK
<1>3. CASE ~scan.aborted
  <2>1. ~More
    BY <1>3 DEF Leave
  <2>2. PICK opened, passed : TreeOK(opened, passed) /\ StackIn(scan.stack, opened, passed)
    BY <1>1, <1>3 DEF WalkOK
  <2>3. StackIn(scan'.stack, opened, passed)
    BY <1>1, <2>1, <2>2, StackLeft
  <2>4. TreeOK(opened, passed)' /\ StackIn(scan.stack, opened, passed)'
    BY <1>1, <2>2, <2>3, TreeStay DEF StackIn
  <2>5. (\E o, p : TreeOK(o, p) /\ StackIn(scan.stack, o, p))'
    BY <2>4
  <2> QED
    BY <1>1, <2>5 DEF WalkOK
<1> QED
  BY <1>2, <1>3

LEMMA WalkOKStep == IInv /\ WalkOK /\ [ScanNext]_vars => WalkOK'
<1> SUFFICES ASSUME IInv, WalkOK, [ScanNext]_vars PROVE WalkOK'
  OBVIOUS
<1>1. CASE AskFormats \/ FetchFormats
  <2>1. scan'.at \in {"formats", "ready"}
    BY <1>1 DEF AskFormats, FetchFormats, IInv, StateOK
  <2> QED
    BY <2>1 DEF WalkOK, Working
<1>2. CASE StartRun
  BY <1>2, WalkStarts
<1>3. CASE UserAborts
  <2>1. scan'.at = "walk" /\ scan'.aborted
    BY <1>3 DEF UserAborts, IInv, StateOK
  <2> QED
    BY <2>1 DEF WalkOK
<1>4. CASE WalkDir
  <2>1. Walking /\ Entry \in Dir /\ UNCHANGED <<lists, seen, counters>>
    BY <1>4 DEF WalkDir, Stay
  <2>2. PICK opening \in BOOLEAN :
           /\ scan'.stack = IF opening THEN Append(Advanced, Frame(Entry)) ELSE Advanced
           /\ scan'.at = scan.at
           /\ shut' = shut \/ shut' = shut \cup {Entry}
           /\ opening => ~IsSkipDir(Entry, Depth) /\ ~TooDeep(Depth + 1) /\ UNCHANGED shut
           /\ ~opening => IsSkipDir(Entry, Depth) \/ TooDeep(Depth + 1) \/ Entry \in shut'
    <3>1. CASE IsSkipDir(Entry, Depth) \/ TooDeep(Depth + 1)
      <4>1. scan' = [scan EXCEPT !.stack = Advanced] /\ UNCHANGED shut
        BY <1>4, <3>1 DEF WalkDir
      <4>2. scan'.stack = Advanced /\ scan'.at = scan.at
        BY <4>1 DEF IInv, StateOK
      <4> QED
        BY <3>1, <4>1, <4>2
    <3>2. CASE /\ ~(IsSkipDir(Entry, Depth) \/ TooDeep(Depth + 1)) /\ UNCHANGED shut
               /\ scan' = [scan EXCEPT !.stack = Append(Advanced, Frame(Entry))]
      <4>1. scan'.stack = Append(Advanced, Frame(Entry)) /\ scan'.at = scan.at
        BY <3>2 DEF IInv, StateOK
      <4> QED
        BY <3>2, <4>1
    <3>3. CASE scan' = [scan EXCEPT !.stack = Advanced] /\ shut' = shut \cup {Entry}
      <4>1. scan'.stack = Advanced /\ scan'.at = scan.at
        BY <3>3 DEF IInv, StateOK
      <4> QED
        BY <3>3, <4>1
    <3> QED
      BY <1>4, <3>1, <3>2, <3>3 DEF WalkDir
  <2>3. scan'.at # "ended"
    BY <2>1, <2>2 DEF Walking
  <2> QED
    BY <2>1, <2>2, <2>3, WalkOn
<1>5. ASSUME Walking, Entry \notin Dir, UNCHANGED <<shut, lists>>, scan'.stack = Advanced, scan'.at # "ended",
             IF IsRom(Entry)
             THEN seen' = seen \cup {Entry} /\ counters'.found = counters.found + 1
             ELSE UNCHANGED seen /\ counters'.found = counters.found
      PROVE  WalkOK'
  <2>1. PICK opening \in BOOLEAN : ~opening
    OBVIOUS
  <2> QED
    BY <1>5, <2>1, WalkOn
<1>6. CASE WalkOther
  BY <1>5, <1>6 DEF WalkOther, Walking, Stay, IInv, StateOK
<1>7. CASE SkipRom
  <2>1. counters'.found = counters.found + 1
    BY <1>7, Counters DEF SkipRom
  <2> QED
    BY <1>5, <1>7, <2>1 DEF SkipRom, Walking, Stay, IInv, StateOK
<1>8. CASE AskForRom
  <2>1. counters'.found = counters.found + 1
    BY <1>8, Counters DEF AskForRom
  <2> QED
    BY <1>5, <1>8, <2>1 DEF AskForRom, Walking, IInv, StateOK
<1>9. CASE Leave
  BY <1>9, WalkLeaves
<1>10. CASE EndScan
  BY <1>10, WalkStays DEF EndScan, Stay, IInv, StateOK
<1>11. ASSUME scan.at \in Working, NEW answer, Tally(answer), UNCHANGED <<seen, shut, lists>>
       PROVE  WalkOK'
  <2>1. scan'.stack = scan.stack /\ scan'.aborted = scan.aborted /\ scan'.at = "walk"
    BY <1>11, TallyOK DEF IInv, StateOK
  <2>2. counters'.found = counters.found
    BY <1>11, Counters DEF Tally
  <2> QED
    BY <1>11, <2>1, <2>2, WalkStays
<1>12. ASSUME scan.at \in {"hash", "decode"}, AskAgain \/ CancelRun \/ HashFails, UNCHANGED <<seen, shut, lists>>
       PROVE  WalkOK'
  <2>1. CASE AskAgain
    <3>1. /\ scan'.stack = scan.stack /\ scan'.aborted = scan.aborted /\ scan'.at = "retrying"
          /\ UNCHANGED counters
      BY <2>1 DEF AskAgain, IInv, StateOK
    <3> QED
      BY <1>12, <3>1, WalkStays DEF Working
  <2>2. CASE CancelRun
    <3>1. scan'.aborted /\ scan'.at = "walk"
      BY <2>2 DEF CancelRun, IInv, StateOK
    <3> QED
      BY <3>1 DEF WalkOK
  <2>3. CASE HashFails
    BY <1>11, <1>12, <2>3 DEF HashFails, Working
  <2> QED
    BY <1>12, <2>1, <2>2, <2>3
<1>13. CASE Hash
  BY <1>12, <1>13 DEF Hash
<1>14. CASE Decoded
  BY <1>12, <1>14 DEF Decoded
<1>15. CASE FirstAnswer
  <2>1. scan.at \in Working /\ UNCHANGED <<seen, shut, lists>>
    BY <1>15 DEF FirstAnswer, Stay, Working
  <2>2. CASE Tally(call.answer)
    BY <1>11, <2>1, <2>2
  <2>3. ASSUME NEW at \in {"decode", "hash"}, scan' = [scan EXCEPT !.at = at], UNCHANGED counters
        PROVE  WalkOK'
    <3>1. scan'.stack = scan.stack /\ scan'.aborted = scan.aborted /\ scan'.at \in Working
      BY <2>3 DEF IInv, StateOK, Working
    <3>2. scan'.at # "ended"
      BY <3>1 DEF Working
    <3> QED
      BY <2>1, <2>3, <3>1, <3>2, WalkStays
  <2> QED
    BY <1>15, <2>2, <2>3 DEF FirstAnswer
<1>16. CASE SecondAnswer
  BY <1>11, <1>16 DEF SecondAnswer, Stay, Working
<1>17. CASE Decode \/ Transfer \/ UNCHANGED vars
  <2>1. UNCHANGED <<scan, counters, seen, shut, lists>>
    BY <1>17 DEF Decode, Transfer, scanVars, vars
  <2> QED
    <3>1. scan.at = "ended" => scan.stack = <<>>
      BY DEF WalkOK
    <3> QED
      BY <2>1, <3>1, WalkStays
<1> QED
  BY <1>1, <1>2, <1>3, <1>4, <1>6, <1>7, <1>8, <1>9, <1>10, <1>13, <1>14, <1>15, <1>16, <1>17 DEF ScanNext

\* A run that nobody stopped has come to every ROM there is a way down to, to no
\* other, and to each once (scan_directory), on any tree of directories.
THEOREM RunIsWhole == Spec => []ScanIsWhole
<1>1. ScanInit => WalkOK
  BY DEF ScanInit, IdleScan, WalkOK, Working
<1>2. IInv /\ WalkOK => ScanIsWhole
  <2> SUFFICES ASSUME IInv, WalkOK, scan.at = "ended", ~scan.aborted
               PROVE  /\ seen = UNION {RomsAt(depth) : depth \in 0 .. MaxDepth}
                      /\ counters.found = Cardinality(seen)
    BY DEF ScanIsWhole
  <2>1. PICK opened, passed : TreeOK(opened, passed) /\ StackIn(<<>>, opened, passed)
    BY DEF WalkOK
  <2>2. \A n, dir : <<n, dir>> \in opened => \A j \in DOMAIN Listing[dir] : <<dir, j>> \in passed
    <3>1. \A k : k \notin DOMAIN <<>>
      OBVIOUS
    <3> QED
      BY <2>1, <3>1 DEF StackIn
  <2>3. ASSUME NEW rom \in seen
        PROVE  \E depth \in 0 .. MaxDepth : rom \in RomsAt(depth)
    <3>1. rom \in Rom /\ rom \notin Dir /\ IsRom(rom)
      BY <2>1 DEF TreeOK, SeenOK, IInv, TypeOK
    <3>2. PICK dir, j : <<dir, j>> \in passed /\ Listing[dir][j] = rom
      BY <2>1 DEF TreeOK, SeenOK, Listed
    <3>3. PICK n : <<n, dir>> \in opened /\ j \in DOMAIN Listing[dir]
      BY <2>1, <3>2 DEF TreeOK, PassedOK
    <3>4. n \in 0 .. MaxDepth
      BY <2>1, <3>3 DEF TreeOK, OpenedOK
    <3>5. PICK way \in Ways(n) : way[n] = dir
      BY <2>1, <3>3 DEF TreeOK, OpenedOK
    <3>6. rom \in ToSet(Listing[way[n]])
      BY <3>2, <3>3, <3>5 DEF ToSet
    <3> QED
      BY <3>1, <3>4, <3>5, <3>6 DEF RomsAt
  <2>4. ASSUME NEW depth \in 0 .. MaxDepth, NEW rom \in RomsAt(depth)
        PROVE  rom \in seen
    <3>1. PICK way \in Ways(depth) : rom \notin Dir /\ IsRom(rom) /\ rom \in ToSet(Listing[way[depth]])
      BY DEF RomsAt
    <3>2. ~Ahead(opened, passed, depth, way)
      BY <2>2 DEF Ahead
    <3>3. <<depth, way[depth]>> \in opened
      BY <2>1, <3>1, <3>2 DEF TreeOK, OpenedOK
    <3>4. PICK j \in DOMAIN Listing[way[depth]] : Listing[way[depth]][j] = rom
      BY <3>1 DEF ToSet
    <3>5. <<way[depth], j>> \in passed
      BY <2>2, <3>3, <3>4
    <3> QED
      BY <2>1, <3>1, <3>4, <3>5 DEF TreeOK, PassedOK
  <2>5. counters.found = Cardinality(seen)
    BY <2>1 DEF TreeOK, SeenOK
  <2> QED
    BY <2>3, <2>4, <2>5
<1> QED
  BY <1>1, <1>2, WalkOKStep, Invariance, PTL DEF Spec
=============================================================================
