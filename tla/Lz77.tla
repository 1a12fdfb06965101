------------------------------- MODULE Lz77 -------------------------------
(***************************************************************************)
(* The streaming decoder of ".lz77.<ext>" files: the CRC of the decoded ROM *)
(* through a ring of Window bytes, never the ROM itself.  The ring and the  *)
(* reader's buffer are static, so a decode starts on whatever the last file *)
(* left.  The stream is any stream: each read may give any byte, or none.   *)
(*                                                                         *)
(* A CRC is modelled by the sequence of bytes folded into it.               *)
(***************************************************************************)
EXTENDS Naturals, Sequences

CONSTANTS
    Byte,
    Window,             \* 4096: the ring's size, and the longest distance two bytes encode
    MinRun, MaxRun,     \* 3 and 18: the shortest and the longest run four bits encode
    TokensPerFlags,     \* 8: the tokens one flag byte announces
    YieldEvery,         \* 128 K: bytes decoded between two looks at the B button
    MaxDeclared         \* bound of a model: the longest length a header declares

ASSUME LzAssumption ==
    /\ Window \in Nat \ {0} /\ TokensPerFlags \in Nat \ {0} /\ YieldEvery \in Nat \ {0}
    /\ MinRun \in Nat \ {0} /\ MaxRun \in Nat /\ MinRun <= MaxRun
    /\ MaxDeclared \in Nat

VARIABLES
    window,         \* the ring
    folded,         \* the bytes folded into the CRC, in order
    plain,          \* history: the ROM the stream stands for, by the format's definition
    lz              \* the decoder's locals

lzVars == <<window, folded, plain, lz>>

Slot == 0 .. Window - 1
Produced == Len(folded)

LzStages == {"idle", "flags", "token", "copy", "group", "done", "failed", "cancelled"}
LzLocals == [at : LzStages, declared : Nat, token : Nat, run : Nat, distance : Nat, yieldAt : Nat]
IdleLz == [at |-> "idle", declared |-> 0, token |-> 0, run |-> 0, distance |-> 0, yieldAt |-> 0]

-----------------------------------------------------------------------------
(* The ring.                                                               *)

IndexOf(i) == i % Window
SourceOf(distance) == IndexOf(Produced - distance)

\* Mutant of the next: the ring wraps one byte early.
EmitShort(b) ==
    /\ window' = [window EXCEPT ![Produced % (IF Window = 1 THEN 1 ELSE Window - 1)] = b]
    /\ folded' = Append(folded, b)
\* One output byte: into the ring, and into the CRC.
Emit(b) ==
    /\ window' = [window EXCEPT ![IndexOf(Produced)] = b]
    /\ folded' = Append(folded, b)

\* What a reference to the byte DISTANCE back means, with the whole output at hand.
Referred(distance) == plain[Len(plain) + 1 - distance]

-----------------------------------------------------------------------------
(* The stream.                                                             *)

\* The file does not open, or its header is no LZ77 header, or it declares
\* nothing; or it declares a length.
LzOpen ==
    /\ lz.at = "idle"
    /\ \/ lz' = [lz EXCEPT !.at = "failed"]
       \/ \E declared \in 1 .. MaxDeclared :
            lz' = [IdleLz EXCEPT !.at = "flags", !.declared = declared, !.yieldAt = YieldEvery]
    /\ folded' = <<>> /\ plain' = <<>>
    /\ UNCHANGED window

\* The end of the file, or a read error, wherever a byte is wanted.
LzTruncated ==
    /\ lz.at \in {"flags", "token"}
    /\ lz' = [lz EXCEPT !.at = "failed"]
    /\ UNCHANGED <<window, folded, plain>>

LzFlags ==
    /\ lz.at = "flags"
    /\ lz' = [lz EXCEPT !.at = "token", !.token = 0]
    /\ UNCHANGED <<window, folded, plain>>

\* The token just decoded was the flag byte's last, or ended the output.
AfterToken(produced) ==
    lz' = [lz EXCEPT !.token = @ + 1, !.run = 0, !.distance = 0,
        !.at = IF lz.token + 1 = TokensPerFlags \/ produced = lz.declared THEN "group" ELSE "token"]

LzLiteral ==
    /\ lz.at = "token"
    /\ \E b \in Byte : Emit(b) /\ plain' = Append(plain, b)
    /\ AfterToken(Produced + 1)

\* A distance past the start or a run past the declared end is a corrupt stream.
Sound(distance, run) == distance <= Produced /\ run <= lz.declared - Produced

LzReference ==
    /\ lz.at = "token"
    /\ \E distance \in 1 .. Window, run \in MinRun .. MaxRun :
        lz' = IF Sound(distance, run)
              THEN [lz EXCEPT !.at = "copy", !.run = run, !.distance = distance]
              ELSE [lz EXCEPT !.at = "failed"]
    /\ UNCHANGED <<window, folded, plain>>

\* Byte by byte, since a run may reach into what it has itself produced.
LzCopy ==
    /\ lz.at = "copy"
    /\ Emit(window[SourceOf(lz.distance)])
    /\ plain' = Append(plain, Referred(lz.distance))
    /\ IF lz.run = 1 THEN AfterToken(Produced + 1) ELSE lz' = [lz EXCEPT !.run = @ - 1]

\* After a flag byte's tokens, now and then, a look at the B button.
LzGroup ==
    /\ lz.at = "group"
    /\ LET next == IF Produced = lz.declared THEN "done" ELSE "flags" IN
       IF Produced >= lz.yieldAt
       THEN \E stage \in {next, "cancelled"} :
                lz' = [lz EXCEPT !.at = stage, !.yieldAt = @ + YieldEvery]
       ELSE lz' = [lz EXCEPT !.at = next]
    /\ UNCHANGED <<window, folded, plain>>

\* The caller has its answer; the ring keeps what it holds.
LzReturn ==
    /\ lz.at \in {"done", "failed", "cancelled"}
    /\ lz' = IdleLz /\ folded' = <<>> /\ plain' = <<>>
    /\ UNCHANGED window

LzInit ==
    /\ window \in [Slot -> Byte]
    /\ folded = <<>> /\ plain = <<>>
    /\ lz = IdleLz

LzStep == LzTruncated \/ LzFlags \/ LzLiteral \/ LzReference \/ LzCopy \/ LzGroup
LzNext == LzOpen \/ LzStep \/ LzReturn
LzSpec == LzInit /\ [][LzNext]_lzVars

-----------------------------------------------------------------------------
(* What the decoder promises.                                              *)

LzTypeOK ==
    /\ window \in [Slot -> Byte]
    /\ folded \in Seq(Byte) /\ plain \in Seq(Byte)
    /\ lz \in LzLocals

\* The ring's slots within reach of a reference hold this file's bytes, never
\* those of the file before it.
RingHoldsTail ==
    \A i \in 1 .. Len(plain) : Len(plain) - i < Window => window[IndexOf(i - 1)] = plain[i]

\* What is folded into the CRC is the ROM the stream stands for, whatever the
\* ring held before, however runs overlap themselves and wrap; and a decode that
\* succeeds has decoded the declared length exactly (lz77_decode).
DecodesPlain ==
    /\ folded = plain
    /\ lz.at = "done" => Len(folded) = lz.declared
=============================================================================
