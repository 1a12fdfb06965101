---------------------------- MODULE Lz77_proofs ----------------------------
(***************************************************************************)
(* The ring is as good as the whole output: proofs about Lz77 for every     *)
(* alphabet, ring size and run length.                                      *)
(***************************************************************************)
EXTENDS Lz77, Integers, TLAPS

-----------------------------------------------------------------------------
(* Arithmetic of the ring.                                                 *)

LEMMA DivMod ==
  ASSUME NEW a \in Nat, NEW w \in Nat \ {0}
  PROVE  /\ a % w \in 0 .. w - 1
         /\ a \div w \in Nat
         /\ a = (w * (a \div w)) + (a % w)
  BY SMT

LEMMA NoMultipleBelow ==
  ASSUME NEW k \in Int, NEW w \in Nat \ {0}, k >= 1
  PROVE  w * k >= w
  BY SMT

\* Two positions less than a ring's length apart are in different slots.
LEMMA SlotsApart ==
  ASSUME NEW a \in Nat, NEW b \in Nat, NEW w \in Nat \ {0}, a < b, b - a < w
  PROVE  a % w # b % w
<1> SUFFICES ASSUME a % w = b % w PROVE FALSE
  OBVIOUS
<1> DEFINE k == (b \div w) - (a \div w)
<1>1. k \in Int /\ b - a = w * k
  BY DivMod, SMT
<1>2. k >= 1
  BY <1>1, SMT
<1> QED
  BY <1>1, <1>2, NoMultipleBelow, SMT

-----------------------------------------------------------------------------
(* The invariant: the ring holds the tail, the two outputs agree, and what  *)
(* is being copied lies within both the output and the declared length.     *)

LzInv ==
    /\ LzTypeOK
    /\ RingHoldsTail
    /\ folded = plain
    /\ lz.at \in {"flags", "token"} => Len(plain) < lz.declared
    /\ lz.at = "copy" =>
        /\ lz.distance \in 1 .. Window /\ lz.distance <= Len(plain)
        /\ lz.run >= 1 /\ lz.run <= lz.declared - Len(plain)
    /\ lz.at = "group" => Len(plain) <= lz.declared
    /\ lz.at = "done" => Len(plain) = lz.declared

\* One byte more, into its slot: the ring still holds the tail.
LEMMA EmitKeepsTail ==
  ASSUME LzTypeOK, RingHoldsTail, folded = plain,
         NEW b \in Byte, Emit(b), plain' = Append(plain, b)
  PROVE  /\ window' \in [Slot -> Byte]
         /\ folded' \in Seq(Byte) /\ plain' \in Seq(Byte)
         /\ folded' = plain'
         /\ Len(plain') = Len(plain) + 1
         /\ RingHoldsTail'
<1> DEFINE n == Len(plain)
<1>1. n \in Nat /\ Len(folded) = n /\ Window \in Nat \ {0}
  BY LzAssumption DEF LzTypeOK
<1>2. IndexOf(n) \in Slot
  BY <1>1, DivMod DEF IndexOf, Slot
<1>3. /\ window' = [window EXCEPT ![IndexOf(n)] = b]
      /\ folded' = Append(folded, b)
  BY <1>1 DEF Emit, Produced
<1>4. window' \in [Slot -> Byte] /\ folded' \in Seq(Byte) /\ plain' \in Seq(Byte)
  BY <1>2, <1>3 DEF LzTypeOK
<1>5. folded' = plain' /\ Len(plain') = n + 1
  BY <1>3 DEF LzTypeOK
<1>6. ASSUME NEW i \in 1 .. n + 1, n + 1 - i < Window
      PROVE  window'[IndexOf(i - 1)] = plain'[i]
  <2>1. IndexOf(i - 1) \in Slot
    <3>1. i - 1 \in Nat
      BY <1>1
    <3>. QED
      BY <3>1, <1>1, DivMod DEF IndexOf, Slot
  <2>2. CASE i = n + 1
    <3>1. plain'[i] = b
      BY <2>2 DEF LzTypeOK
    <3>2. IndexOf(i - 1) = IndexOf(n)
      BY <2>2, <1>1
    <3>. QED
      BY <3>1, <3>2, <1>2, <1>3 DEF LzTypeOK
  <2>3. CASE i # n + 1
    <3>1. i \in 1 .. n /\ n - i < Window /\ i - 1 \in Nat /\ i - 1 < n /\ n - (i - 1) < Window
      <4>1. i \in 1 .. n
        BY <2>3, <1>1
      <4>. QED
        BY <4>1, <1>1, <1>6
    <3>2. IndexOf(i - 1) # IndexOf(n)
      BY <3>1, <1>1, SlotsApart DEF IndexOf
    <3>3. plain'[i] = plain[i]
      BY <3>1 DEF LzTypeOK
    <3>4. window[IndexOf(i - 1)] = plain[i]
      BY <3>1 DEF RingHoldsTail
    <3>. QED
      BY <3>2, <3>3, <3>4, <2>1, <1>3 DEF LzTypeOK
  <2>. QED
    BY <2>2, <2>3
<1>7. RingHoldsTail'
  BY <1>5, <1>6 DEF RingHoldsTail, IndexOf
<1>. QED
  BY <1>4, <1>5, <1>7

\* The slot a reference reads holds the byte it refers to.
LEMMA SourceIsReferred ==
  ASSUME LzInv, lz.at = "copy"
  PROVE  /\ window[SourceOf(lz.distance)] = Referred(lz.distance)
         /\ Referred(lz.distance) \in Byte
<1> DEFINE i == Len(plain) + 1 - lz.distance
<1>1. /\ Len(plain) \in Nat /\ Len(folded) = Len(plain) /\ Window \in Nat \ {0}
      /\ lz.distance \in 1 .. Window /\ lz.distance <= Len(plain)
  BY LzAssumption DEF LzInv, LzTypeOK, LzLocals
<1>2. i \in 1 .. Len(plain) /\ Len(plain) - i < Window /\ i - 1 = Len(plain) - lz.distance
  BY <1>1
<1>3. window[IndexOf(i - 1)] = plain[i]
  BY <1>2 DEF LzInv, RingHoldsTail
<1>4. plain[i] \in Byte
  BY <1>2 DEF LzInv, LzTypeOK
<1>. QED
  BY <1>1, <1>2, <1>3, <1>4 DEF SourceOf, Referred, Produced

LEMMA LzStart == LzInit => LzInv
<1> SUFFICES ASSUME LzInit PROVE LzInv
  OBVIOUS
<1>1. LzTypeOK
  BY DEF LzInit, LzTypeOK, LzLocals, IdleLz, LzStages
<1>2. Len(plain) = 0
  BY DEF LzInit
<1>. QED
  BY <1>1, <1>2 DEF LzInit, LzInv, RingHoldsTail, IdleLz

\* Where the output does not change, the ring keeps its tail.
LEMMA QuietStep ==
  ASSUME LzInv, UNCHANGED <<window, folded, plain>>
  PROVE  RingHoldsTail' /\ folded' = plain' /\ Len(plain') = Len(plain)
  BY DEF LzInv, RingHoldsTail, IndexOf

LEMMA LzEmpty == <<>> \in Seq(Byte) /\ Len(<<>>) = 0
  OBVIOUS

LEMMA LzPreserved == LzInv /\ [LzNext]_lzVars => LzInv'
<1> SUFFICES ASSUME LzInv, [LzNext]_lzVars PROVE LzInv'
  OBVIOUS
<1>0. \A stage \in {"idle", "flags", "token", "copy", "group", "done", "failed", "cancelled"} : stage \in LzStages
  BY DEF LzStages
<1>1. Len(plain) \in Nat /\ Len(folded) = Len(plain) /\ Window \in Nat \ {0} /\ lz.declared \in Nat
  BY LzAssumption, <1>0 DEF LzInv, LzTypeOK, LzLocals
<1>2. CASE LzOpen
  <2>1. folded' = <<>> /\ plain' = <<>> /\ Len(plain') = 0 /\ window' = window
    BY <1>2 DEF LzOpen
  <2>2. /\ lz' \in LzLocals
        /\ lz'.at = "failed" \/ (lz'.at = "flags" /\ lz'.declared >= 1)
    <3>1. CASE lz' = [lz EXCEPT !.at = "failed"]
      BY <3>1, <1>0 DEF LzInv, LzTypeOK, LzLocals
    <3>2. ASSUME NEW declared \in 1 .. MaxDeclared,
                 lz' = [IdleLz EXCEPT !.at = "flags", !.declared = declared, !.yieldAt = YieldEvery]
          PROVE  lz' \in LzLocals /\ lz'.at = "flags" /\ lz'.declared >= 1
      <4>1. declared \in Nat /\ declared >= 1 /\ YieldEvery \in Nat
        BY LzAssumption
      <4>. QED
        BY <3>2, <4>1, <1>0 DEF LzLocals, IdleLz
    <3>. QED
      BY <1>2, <3>1, <3>2 DEF LzOpen
  <2>3. RingHoldsTail'
    BY <2>1 DEF RingHoldsTail
  <2>. QED
    <3>1. LzTypeOK'
      BY <2>1, <2>2, LzEmpty DEF LzInv, LzTypeOK
    <3>2. folded' = plain'
      BY <2>1
    <3>3. lz'.declared \in Nat
      BY <2>2 DEF LzLocals
    <3>4. /\ lz'.at \in {"flags", "token"} => Len(plain') < lz'.declared
          /\ lz'.at # "copy" /\ lz'.at # "group" /\ lz'.at # "done"
      BY <2>1, <2>2, <3>3
    <3>. QED
      BY <3>1, <3>2, <3>4, <2>3 DEF LzInv
<1>3. CASE LzTruncated \/ LzFlags
  <2>1. UNCHANGED <<window, folded, plain>>
    BY <1>3 DEF LzTruncated, LzFlags
  <2>2. /\ lz' \in LzLocals
        /\ lz'.at = "failed" \/ (lz'.at = "token" /\ lz.at = "flags" /\ lz'.declared = lz.declared)
    <3>1. lz' = [lz EXCEPT !.at = "failed"] \/ (lz.at = "flags" /\ lz' = [lz EXCEPT !.at = "token", !.token = 0])
      BY <1>3 DEF LzTruncated, LzFlags
    <3>2. lz \in LzLocals
      BY DEF LzInv, LzTypeOK
    <3>3. CASE lz' = [lz EXCEPT !.at = "failed"]
      BY <3>2, <3>3, <1>0 DEF LzLocals
    <3>4. CASE lz.at = "flags" /\ lz' = [lz EXCEPT !.at = "token", !.token = 0]
      BY <3>2, <3>4, <1>0 DEF LzLocals
    <3>. QED
      BY <3>1, <3>3, <3>4
  <2>. QED
    BY <2>1, <2>2, <1>1, QuietStep DEF LzInv, LzTypeOK
<1>4. ASSUME AfterToken(Produced + 1), Len(plain') = Len(plain) + 1, Len(plain) < lz.declared
      PROVE  /\ lz' \in LzLocals
             /\ lz'.declared = lz.declared
             /\ \/ lz'.at = "group" /\ Len(plain') <= lz.declared
                \/ lz'.at = "token" /\ Len(plain') < lz.declared
  <2>1. lz \in LzLocals
    BY DEF LzInv, LzTypeOK
  <2>0. lz.token + 1 \in Nat
    BY <2>1 DEF LzLocals
  <2>2. PICK next \in Nat, stage \in {"group", "token"} :
            /\ lz' = [lz EXCEPT !.token = next, !.run = 0, !.distance = 0, !.at = stage]
            /\ stage = "token" => Produced + 1 # lz.declared
    BY <1>4, <2>0 DEF AfterToken
  <2>3. lz' \in LzLocals /\ lz'.declared = lz.declared /\ lz'.at = stage
    BY <2>1, <2>2, <1>0 DEF LzLocals
  <2>. QED
    BY <2>2, <2>3, <1>1, <1>4 DEF Produced
<1>5. CASE LzLiteral
  <2>1. PICK b \in Byte : Emit(b) /\ plain' = Append(plain, b)
    BY <1>5 DEF LzLiteral
  <2>2. /\ window' \in [Slot -> Byte] /\ folded' \in Seq(Byte) /\ plain' \in Seq(Byte)
        /\ folded' = plain' /\ Len(plain') = Len(plain) + 1 /\ RingHoldsTail'
    BY <2>1, EmitKeepsTail DEF LzInv
  <2>3. AfterToken(Produced + 1) /\ Len(plain) < lz.declared
    BY <1>5 DEF LzLiteral, LzInv
  <2>. QED
    BY <2>2, <2>3, <1>4 DEF LzInv, LzTypeOK
<1>6. CASE LzReference
  <2>1. PICK distance \in 1 .. Window, run \in MinRun .. MaxRun :
            lz' = IF Sound(distance, run)
                  THEN [lz EXCEPT !.at = "copy", !.run = run, !.distance = distance]
                  ELSE [lz EXCEPT !.at = "failed"]
    BY <1>6 DEF LzReference
  <2>2. UNCHANGED <<window, folded, plain>>
    BY <1>6 DEF LzReference
  <2>3. distance \in Nat /\ run \in Nat /\ run >= 1
    BY <1>1, LzAssumption
  <2>4. /\ lz' \in LzLocals
        /\ \/ lz'.at = "failed"
           \/ /\ lz'.at = "copy" /\ lz'.run = run /\ lz'.distance = distance /\ lz'.declared = lz.declared
              /\ distance <= Len(plain) /\ run <= lz.declared - Len(plain)
    BY <2>1, <2>3, <1>1, <1>0 DEF Sound, Produced, LzInv, LzTypeOK, LzLocals
  <2>5. RingHoldsTail' /\ folded' = plain' /\ Len(plain') = Len(plain)
    BY <2>2, QuietStep
  <2>. QED
    BY <2>2, <2>3, <2>4, <2>5 DEF LzInv, LzTypeOK
<1>7. CASE LzCopy
  <2>1. /\ lz.at = "copy"
        /\ Emit(window[SourceOf(lz.distance)]) /\ plain' = Append(plain, Referred(lz.distance))
    BY <1>7 DEF LzCopy
  <2>2. window[SourceOf(lz.distance)] = Referred(lz.distance) /\ Referred(lz.distance) \in Byte
    BY <2>1, SourceIsReferred
  <2>3. /\ window' \in [Slot -> Byte] /\ folded' \in Seq(Byte) /\ plain' \in Seq(Byte)
        /\ folded' = plain' /\ Len(plain') = Len(plain) + 1 /\ RingHoldsTail'
    BY <2>1, <2>2, EmitKeepsTail DEF LzInv
  <2>4. /\ lz.run \in Nat /\ lz.run >= 1 /\ lz.run <= lz.declared - Len(plain)
        /\ lz.distance \in 1 .. Window /\ lz.distance <= Len(plain)
    BY <2>1, <1>0 DEF LzInv, LzTypeOK, LzLocals
  <2>5. CASE lz.run = 1
    <3>1. AfterToken(Produced + 1) /\ Len(plain) < lz.declared
      BY <1>7, <2>4, <2>5, <1>1 DEF LzCopy
    <3>. QED
      BY <3>1, <2>3, <1>4 DEF LzInv, LzTypeOK
  <2>6. CASE lz.run # 1
    <3>1. lz' = [lz EXCEPT !.run = lz.run - 1]
      BY <1>7, <2>6 DEF LzCopy
    <3>2. /\ lz' \in LzLocals
          /\ lz'.at = "copy" /\ lz'.run = lz.run - 1 /\ lz'.distance = lz.distance
          /\ lz'.declared = lz.declared
      <4>1. PICK left \in Nat : left = lz.run - 1
        BY <2>4, <2>6
      <4>2. lz' = [lz EXCEPT !.run = left] /\ lz \in LzLocals
        BY <3>1, <4>1 DEF LzInv, LzTypeOK
      <4>3. lz' \in LzLocals /\ lz'.at = lz.at /\ lz'.run = left /\ lz'.distance = lz.distance /\ lz'.declared = lz.declared
        BY <4>2 DEF LzLocals
      <4>. QED
        BY <4>1, <4>3, <2>1
    <3>3. lz'.run >= 1 /\ lz'.run <= lz'.declared - Len(plain') /\ lz'.distance <= Len(plain')
      BY <3>2, <2>3, <2>4, <2>6, <1>1
    <3>. QED
      BY <3>2, <3>3, <2>3, <2>4 DEF LzInv, LzTypeOK
  <2>. QED
    BY <2>5, <2>6
<1>8. CASE LzGroup
  <2>1. UNCHANGED <<window, folded, plain>>
    BY <1>8 DEF LzGroup
  <2>2. /\ lz' \in LzLocals
        /\ lz'.declared = lz.declared
        /\ \/ lz'.at = "cancelled"
           \/ lz'.at = "done" /\ Produced = lz.declared
           \/ lz'.at = "flags" /\ Produced # lz.declared
    <3>1. lz \in LzLocals /\ YieldEvery \in Nat
      BY LzAssumption, <1>0 DEF LzInv, LzTypeOK, LzLocals
    <3>0. lz.yieldAt + YieldEvery \in Nat
      BY <3>1 DEF LzLocals
    <3>2. PICK stage \in {"cancelled", "done", "flags"}, next \in Nat :
              /\ lz' = [lz EXCEPT !.at = stage, !.yieldAt = next] \/ lz' = [lz EXCEPT !.at = stage]
              /\ stage = "done" => Produced = lz.declared
              /\ stage = "flags" => Produced # lz.declared
      BY <1>8, <3>0 DEF LzGroup
    <3>3. lz' \in LzLocals /\ lz'.declared = lz.declared /\ lz'.at = stage
      BY <3>1, <3>2, <1>0 DEF LzLocals
    <3>. QED
      BY <3>2, <3>3
  <2>3. Len(plain) <= lz.declared
    BY <1>8 DEF LzGroup, LzInv
  <2>. QED
    BY <2>1, <2>2, <2>3, <1>1, QuietStep DEF LzInv, LzTypeOK, Produced
<1>9. CASE LzReturn
  <2>1. folded' = <<>> /\ plain' = <<>> /\ Len(plain') = 0 /\ window' = window /\ lz' = IdleLz
    BY <1>9 DEF LzReturn
  <2>. QED
    BY <2>1, <1>0 DEF LzInv, LzTypeOK, LzLocals, RingHoldsTail, IdleLz
<1>10. CASE UNCHANGED lzVars
  BY <1>10, QuietStep DEF lzVars, LzInv, LzTypeOK
<1>. QED
  BY <1>2, <1>3, <1>5, <1>6, <1>7, <1>8, <1>9, <1>10 DEF LzNext, LzStep

LEMMA LzAlways == LzSpec => []LzInv
  BY LzStart, LzPreserved, PTL DEF LzSpec

\* The decoder's variables keep their types, for any alphabet and ring size.
THEOREM LzTypeCorrect == LzSpec => []LzTypeOK
<1>1. LzInv => LzTypeOK
  BY DEF LzInv
<1>. QED
  BY <1>1, LzAlways, PTL

\* No reference ever reads a byte the last file left: what is in reach of one is
\* this file's, for any ring size (lz77_decode).
THEOREM NoStaleByte == LzSpec => []RingHoldsTail
<1>1. LzInv => RingHoldsTail
  BY DEF LzInv
<1>. QED
  BY <1>1, LzAlways, PTL

\* A ring of the longest distance is as good as the whole output: the CRC is
\* that of the ROM the stream stands for, of exactly the declared length.
THEOREM RingSuffices == LzSpec => []DecodesPlain
<1>1. LzInv => DecodesPlain
  BY DEF LzInv, DecodesPlain
<1>. QED
  BY <1>1, LzAlways, PTL
=============================================================================
