-------------------------- MODULE ArtSources_proofs --------------------------
(***************************************************************************)
(* For any upstreams, walks, limits and finite set of fetches: slots come    *)
(* back, pauses are kept, and an outage is never taken for a miss.           *)
(***************************************************************************)
EXTENDS ArtSources, FiniteSetTheorems, TLAPS

Resting == {"idle", "ended"}
Holding == {"sent", "body"}

\* What a walk under way knows of the sources before its present one: it is down as
\* soon as one of them has not answered.
Told(f, locals) ==
    /\ locals.src \in DOMAIN Walk[f]
    /\ locals.heard \subseteq 1 .. locals.src
    /\ locals.down <=> ~(1 .. locals.src - 1 \subseteq locals.heard)
    /\ locals.result = "none"

\* What a walk's end says of all its sources.
Honest(f, locals) ==
    /\ locals.result = "miss" => locals.heard = DOMAIN Walk[f]
    /\ locals.result = "unavailable" => locals.heard # DOMAIN Walk[f]

Good(f, locals) ==
    /\ locals \in Locals
    /\ locals.attempt = MaxRetries + 1 => locals.followed
    /\ locals.at \notin Resting => Told(f, locals) /\ locals.url \in 1 .. Urls[Walk[f][locals.src]]
    /\ Honest(f, locals)

AllGood == fetch \in [Fetches -> Locals] /\ \A f \in Fetches : Good(f, fetch[f])

GateInv == gate \in [Source -> 0 .. Slots] /\ GateKept

\* A call that has looked since the last pause was asked for sleeps it out.
Patient(f) ==
    /\ fetch[f].at = "gate" => pause[SourceOf(f)] = 0
    /\ fetch[f].at = "sleep" /\ fetch[f].then = "gate" => pause[SourceOf(f)] <= fetch[f].left

PaceInv ==
    /\ pause \in [Source -> 0 .. MaxRetryAfter] /\ cooldown = pause
    /\ unaware \subseteq Fetches
    /\ \A f \in Fetches \ unaware : Patient(f)

IInv == AllGood /\ GateInv /\ PaceInv

Quiet(locals) == locals.at # "gate" /\ (locals.at = "sleep" => locals.then = "look")

-----------------------------------------------------------------------------
(* Locals.                                                                  *)

\* A walk's sources, and their URLs, can be counted.
LEMMA WalkFacts ==
  ASSUME NEW f \in Fetches, NEW i \in DOMAIN Walk[f]
  PROVE  /\ Walk[f][i] \in Source /\ Urls[Walk[f][i]] \in Nat \ {0}
         /\ DOMAIN Walk[f] = 1 .. Len(Walk[f]) /\ Len(Walk[f]) \in Nat
         /\ i \in Nat \ {0}
BY SourcesAssumption

\* What OnUrl sets and keeps.
LEMMA OnUrlFields ==
  ASSUME NEW l \in Locals, NEW u \in Nat
  PROVE  /\ OnUrl(l, u) \in Locals
         /\ OnUrl(l, u).at = "look" /\ OnUrl(l, u).src = l.src /\ OnUrl(l, u).url = u
         /\ OnUrl(l, u).attempt = 0 /\ OnUrl(l, u).down = l.down
         /\ OnUrl(l, u).heard = l.heard /\ OnUrl(l, u).result = l.result
<1>1. 0 \in 0 .. MaxRetries + 1
  BY SourcesAssumption
<1>2. OnUrl(l, u) \in Locals
  BY <1>1, Zenon DEF OnUrl, Locals, Stages
<1> QED
  BY <1>2 DEF OnUrl, Locals

\* Trying a URL of the present source.
LEMMA OnUrlGood ==
  ASSUME NEW f \in Fetches, NEW l \in Locals, Told(f, l), NEW u \in 1 .. Urls[Walk[f][l.src]]
  PROVE  Good(f, OnUrl(l, u)) /\ OnUrl(l, u).at = "look"
<1>1. u \in Nat
  BY WalkFacts DEF Told
<1>2. 0 # MaxRetries + 1
  BY SourcesAssumption
<1> QED
  BY <1>1, <1>2, OnUrlFields DEF Good, Told, Honest

\* What Ended sets and keeps.
LEMMA EndedFields ==
  ASSUME NEW l \in Locals, NEW r \in Results
  PROVE  /\ Ended(l, r) \in Locals
         /\ Ended(l, r).at = "ended" /\ Ended(l, r).attempt = 0
         /\ Ended(l, r).heard = l.heard /\ Ended(l, r).result = r
<1>1. 0 \in 0 .. MaxRetries + 1
  BY SourcesAssumption
<1>2. Ended(l, r) \in Locals
  <2>1. l.src \in Nat /\ l.heard \in SUBSET Nat /\ 1 \in Nat /\ 0 \in Nat
    BY DEF Locals
  <2> QED
    BY <1>1, <2>1, Zenon DEF Ended, Idle, Locals, Stages
<1> QED
  BY <1>2 DEF Ended, Idle

\* The end of a walk.
LEMMA EndedGood ==
  ASSUME NEW f \in Fetches, NEW l \in Locals, NEW r \in Results,
         r = "miss" => l.heard = DOMAIN Walk[f],
         r = "unavailable" => l.heard # DOMAIN Walk[f]
  PROVE  Good(f, Ended(l, r)) /\ Ended(l, r).at = "ended"
<1>1. 0 # MaxRetries + 1
  BY SourcesAssumption
<1> QED
  BY <1>1, EndedFields DEF Good, Honest, Resting

\* Going on to the next source, or ending: what is known of the present one is
\* added to what was known before.
LEMMA NextGood ==
  ASSUME NEW f \in Fetches, NEW l \in Locals,
         l.src \in DOMAIN Walk[f], l.heard \subseteq 1 .. l.src,
         l.down <=> ~(1 .. l.src \subseteq l.heard), l.result = "none"
  PROVE  Good(f, NextSource(f, l)) /\ NextSource(f, l).at \in {"look", "ended"}
<1> DEFINE n == [l EXCEPT !.src = @ + 1]
<1>1. /\ DOMAIN Walk[f] = 1 .. Len(Walk[f]) /\ Len(Walk[f]) \in Nat
      /\ l.src \in Nat \ {0}
  BY WalkFacts
<1>2. CASE l.src < Len(Walk[f])
  <2>1. /\ n \in Locals /\ n.src = l.src + 1 /\ n.heard = l.heard
        /\ n.down = l.down /\ n.result = l.result
    BY <1>1 DEF Locals
  <2>2. n.src \in DOMAIN Walk[f]
    BY <2>1, <1>1, <1>2
  <2>3. n.heard \subseteq 1 .. n.src
    BY <2>1, <1>1
  <2>4. 1 .. n.src - 1 = 1 .. l.src
    BY <2>1, <1>1
  <2>5. Told(f, n)
    BY <2>1, <2>2, <2>3, <2>4 DEF Told
  <2>6. 1 \in 1 .. Urls[Walk[f][n.src]]
    BY <2>2, WalkFacts
  <2>7. NextSource(f, l) = OnUrl(n, 1)
    BY <1>2 DEF NextSource
  <2> HIDE DEF n
  <2> QED
    BY <2>1, <2>5, <2>6, <2>7, OnUrlGood
<1>3. CASE ~(l.src < Len(Walk[f]))
  <2>1. 1 .. l.src = DOMAIN Walk[f]
    BY <1>1, <1>3
  <2>2. NextSource(f, l) = Ended(l, IF l.down THEN "unavailable" ELSE "miss")
    BY <1>3 DEF NextSource
  <2>3. l.down => l.heard # DOMAIN Walk[f]
    BY <2>1
  <2>4. ~l.down => l.heard = DOMAIN Walk[f]
    BY <2>1
  <2> QED
    BY <2>2, <2>3, <2>4, EndedGood DEF Results
<1> QED
  BY <1>2, <1>3

\* What Heard and NotHeard set and keep.
LEMMA HeardFields ==
  ASSUME NEW f \in Fetches, AllGood, Active(f)
  PROVE  /\ Heard(f) \in Locals /\ NotHeard(f) \in Locals
         /\ Heard(f).src = fetch[f].src /\ NotHeard(f).src = fetch[f].src
         /\ Heard(f).down = fetch[f].down /\ NotHeard(f).down = fetch[f].down
         /\ Heard(f).result = fetch[f].result /\ NotHeard(f).result = fetch[f].result
         /\ Heard(f).heard = fetch[f].heard \cup {fetch[f].src}
         /\ NotHeard(f).heard = fetch[f].heard \ {fetch[f].src}
BY DEF Heard, NotHeard, Locals, AllGood

\* Whether or not the present source has answered, what is known of those before
\* it stays.
LEMMA HeardTold ==
  ASSUME NEW f \in Fetches, AllGood, Active(f)
  PROVE  Told(f, Heard(f)) /\ Told(f, NotHeard(f))
<1>1. Told(f, fetch[f])
  BY DEF AllGood, Good, Active, Resting
<1>2. fetch[f].src \in Nat \ {0}
  BY <1>1, WalkFacts DEF Told
<1>3. fetch[f].src \in 1 .. fetch[f].src /\ fetch[f].src \notin 1 .. fetch[f].src - 1
  BY <1>2
<1> QED
  BY <1>1, <1>3, HeardFields DEF Told

\* A source has no art at this URL.
LEMMA NoArtGood ==
  ASSUME NEW f \in Fetches, AllGood, Active(f)
  PROVE  Good(f, NoArt(f, Heard(f))) /\ NoArt(f, Heard(f)).at \in {"look", "ended"}
<1>1. Heard(f) \in Locals /\ Told(f, Heard(f))
  BY HeardFields, HeardTold
<1>2. Heard(f).src = fetch[f].src
  BY HeardFields
<1>3. CASE MoreUrls(f)
  <2>1. fetch[f].url + 1 \in 1 .. Urls[Walk[f][Heard(f).src]]
    BY <1>1, <1>2, <1>3, WalkFacts DEF MoreUrls, SourceOf, AllGood, Good, Locals, Told
  <2>2. NoArt(f, Heard(f)) = OnUrl(Heard(f), fetch[f].url + 1)
    BY <1>3 DEF NoArt, Heard, AllGood, Locals
  <2> QED
    BY <1>1, <2>1, <2>2, OnUrlGood
<1>4. CASE ~MoreUrls(f)
  <2>1. NoArt(f, Heard(f)) = NextSource(f, Heard(f))
    BY <1>4 DEF NoArt
  <2>2. Told(f, fetch[f])
    BY DEF AllGood, Good, Active, Resting
  <2>3. fetch[f].src \in Nat \ {0}
    BY <2>2, WalkFacts DEF Told
  <2>4. 1 .. fetch[f].src = (1 .. fetch[f].src - 1) \cup {fetch[f].src}
    BY <2>3
  <2>5. Heard(f).down <=> ~(1 .. Heard(f).src \subseteq Heard(f).heard)
    <3>1. fetch[f].src \notin 1 .. fetch[f].src - 1
      BY <2>3
    <3> QED
      BY <2>2, <2>4, <3>1, HeardFields DEF Told
  <2> QED
    BY <1>1, <2>1, <2>5, NextGood DEF Told
<1> QED
  BY <1>3, <1>4

\* A source could not answer.
LEMMA ThrowsGood ==
  ASSUME NEW f \in Fetches, AllGood, Active(f)
  PROVE  Good(f, Throws(f, NotHeard(f))) /\ Throws(f, NotHeard(f)).at \in {"look", "ended"}
<1> DEFINE d == [NotHeard(f) EXCEPT !.down = TRUE]
<1>1. NotHeard(f) \in Locals /\ Told(f, NotHeard(f))
  BY HeardFields, HeardTold
<1>2. /\ d \in Locals /\ d.src = fetch[f].src /\ d.heard = fetch[f].heard \ {fetch[f].src}
      /\ d.down = TRUE /\ d.result = "none"
  BY <1>1, HeardFields DEF Locals, Told
<1>3. d.src \in DOMAIN Walk[f] /\ d.heard \subseteq 1 .. d.src
  BY <1>1, <1>2, HeardFields DEF Told
<1>4. d.src \in 1 .. d.src
  BY <1>3, WalkFacts
<1>5. d.down <=> ~(1 .. d.src \subseteq d.heard)
  BY <1>2, <1>4
<1>6. Throws(f, NotHeard(f)) = NextSource(f, d)
  BY DEF Throws
<1> HIDE DEF d
<1> QED
  BY <1>2, <1>3, <1>5, <1>6, NextGood

\* Or could not, and its mirror is asked.
LEMMA GivesUpGood ==
  ASSUME NEW f \in Fetches, AllGood, Active(f)
  PROVE  Good(f, GivesUp(f, NotHeard(f))) /\ GivesUp(f, NotHeard(f)).at \in {"look", "ended"}
<1>1. NotHeard(f) \in Locals /\ Told(f, NotHeard(f)) /\ NotHeard(f).src = fetch[f].src
  BY HeardFields, HeardTold
<1>2. CASE SourceOf(f) \in Mirrored /\ MoreUrls(f)
  <2>1. fetch[f].url + 1 \in 1 .. Urls[Walk[f][NotHeard(f).src]]
    BY <1>1, <1>2, WalkFacts DEF MoreUrls, SourceOf, AllGood, Good, Locals, Told
  <2>2. GivesUp(f, NotHeard(f)) = OnUrl(NotHeard(f), fetch[f].url + 1)
    BY <1>2 DEF GivesUp, NotHeard, AllGood, Locals
  <2> QED
    BY <1>1, <2>1, <2>2, OnUrlGood
<1>3. CASE ~(SourceOf(f) \in Mirrored /\ MoreUrls(f))
  BY <1>3, ThrowsGood DEF GivesUp
<1> QED
  BY <1>2, <1>3

\* The state of one call changes for the good.
LEMMA GoodStep ==
  ASSUME NEW f \in Fetches, NEW l, AllGood, Good(f, l), Goes(f, l)
  PROVE  AllGood'
<1>1. l \in Locals
  BY DEF Good
<1>2. fetch' \in [Fetches -> Locals]
  BY <1>1 DEF AllGood, Goes
<1>3. ASSUME NEW g \in Fetches PROVE Good(g, fetch'[g])
  BY DEF AllGood, Goes
<1> QED
  BY <1>2, <1>3 DEF AllGood

-----------------------------------------------------------------------------
(* Slots.                                                                   *)

\* The holders of a source's slots can be counted.
LEMMA HoldersFinite == \A s \in Source : IsFiniteSet(Holders(s)) /\ Cardinality(Holders(s)) \in Nat
<1> SUFFICES ASSUME NEW s \in Source
             PROVE  IsFiniteSet(Holders(s)) /\ Cardinality(Holders(s)) \in Nat
  OBVIOUS
<1>1. Holders(s) \in SUBSET Fetches
  BY DEF Holders
<1> QED
  BY <1>1, SourcesAssumption, FS_Subset, FS_CardinalityType

\* As many slots are free as are not held, so none beyond the source's own.
LEMMA GateBound ==
  ASSUME gate' \in [Source -> Nat],
         \A s \in Source : gate'[s] + Cardinality(Holders(s)') = Slots,
         \A s \in Source : Cardinality(Holders(s)') \in Nat
  PROVE  GateInv'
<1>1. ASSUME NEW s \in Source PROVE gate'[s] \in 0 .. Slots
  BY SourcesAssumption
<1>2. gate' \in [Source -> 0 .. Slots]
  BY <1>1
<1> QED
  BY <1>2 DEF GateInv, GateKept

\* A call that holds no slot, before or after.
LEMMA NeverHeld ==
  ASSUME NEW f \in Fetches, NEW l, AllGood, GateInv, Goes(f, l), UNCHANGED gate,
         ~Holds(f), l.at \notin Holding
  PROVE  GateInv'
<1>1. ASSUME NEW s \in Source PROVE Holders(s)' = Holders(s)
  BY DEF AllGood, Goes, Holders, Holds, SourceOf, Holding
<1> QED
  BY <1>1 DEF GateInv, GateKept

\* A call that keeps its slot.
LEMMA StillHeld ==
  ASSUME NEW f \in Fetches, NEW l, AllGood, GateInv, Goes(f, l), UNCHANGED gate,
         Holds(f), l.at \in Holding, l.src = fetch[f].src
  PROVE  GateInv'
<1>1. ASSUME NEW s \in Source PROVE Holders(s)' = Holders(s)
  BY DEF AllGood, Goes, Holders, Holds, SourceOf, Holding
<1> QED
  BY <1>1 DEF GateInv, GateKept

\* A call that takes a slot.
LEMMA SlotTaken ==
  ASSUME NEW f \in Fetches, NEW l, AllGood, GateInv, Goes(f, l),
         ~Holds(f), l.at \in Holding, l.src = fetch[f].src, fetch[f].src \in DOMAIN Walk[f],
         gate[SourceOf(f)] > 0, gate' = [gate EXCEPT ![SourceOf(f)] = @ - 1]
  PROVE  GateInv'
<1>1. PICK own \in Source : own = SourceOf(f)
  BY WalkFacts DEF SourceOf
<1>2. \A s \in Source : gate[s] \in 0 .. Slots
  BY DEF GateInv
<1>3. gate' \in [Source -> Nat]
  BY <1>1, <1>2, SourcesAssumption DEF GateInv
<1>4. Holders(own)' = Holders(own) \cup {f} /\ f \notin Holders(own)
  BY <1>1 DEF AllGood, Goes, Holders, Holds, SourceOf, Holding
<1>5. Cardinality(Holders(own)') = Cardinality(Holders(own)) + 1
  BY <1>1, <1>4, HoldersFinite, FS_AddElement
<1>6. ASSUME NEW s \in Source, s # own PROVE Holders(s)' = Holders(s)
  BY <1>1, <1>6 DEF AllGood, Goes, Holders, Holds, SourceOf, Holding
<1>7. ASSUME NEW s \in Source
      PROVE  gate'[s] + Cardinality(Holders(s)') = Slots /\ Cardinality(Holders(s)') \in Nat
  <2>1. gate[s] + Cardinality(Holders(s)) = Slots /\ Cardinality(Holders(s)) \in Nat
    BY HoldersFinite DEF GateInv, GateKept
  <2>2. CASE s = own
    <3>1. gate'[own] = gate[own] - 1
      BY <1>1 DEF GateInv
    <3>2. Holders(s) = Holders(own) /\ Holders(s)' = Holders(own)'
      BY <2>2 DEF Holders
    <3> QED
      BY <1>2, <1>5, <2>1, <2>2, <3>1, <3>2, SourcesAssumption
  <2>3. CASE s # own
    <3>1. gate'[s] = gate[s]
      BY <1>1, <2>3 DEF GateInv
    <3> QED
      BY <1>6, <2>1, <2>3, <3>1
  <2> QED
    BY <2>2, <2>3
<1> QED
  BY <1>3, <1>7, GateBound

\* A call that gives its slot back.
LEMMA SlotGiven ==
  ASSUME NEW f \in Fetches, NEW l, AllGood, GateInv, Goes(f, l), Release(f),
         Holds(f), l.at \notin Holding, fetch[f].src \in DOMAIN Walk[f]
  PROVE  GateInv'
<1>1. PICK own \in Source : own = SourceOf(f)
  BY WalkFacts DEF SourceOf
<1>2. \A s \in Source : gate[s] \in 0 .. Slots
  BY DEF GateInv
<1>3. gate' \in [Source -> Nat]
  BY <1>1, <1>2, SourcesAssumption DEF GateInv, Release
<1>4. Holders(own)' = Holders(own) \ {f} /\ f \in Holders(own)
  <2>1. ~Holds(f)'
    BY DEF AllGood, Goes, Holds, Holding
  <2>2. ASSUME NEW g \in Fetches, g # f PROVE Holds(g)' = Holds(g) /\ SourceOf(g)' = SourceOf(g)
    BY <2>2 DEF AllGood, Goes, Holds, SourceOf
  <2> QED
    BY <1>1, <2>1, <2>2 DEF Holders
<1>5. Cardinality(Holders(own)') = Cardinality(Holders(own)) - 1 /\ Cardinality(Holders(own)') \in Nat
  <2>1. IsFiniteSet(Holders(own))
    BY <1>1, HoldersFinite
  <2>2. IsFiniteSet(Holders(own) \ {f})
    BY <2>1, FS_RemoveElement
  <2> QED
    BY <1>4, <2>1, <2>2, FS_RemoveElement, FS_CardinalityType
<1>6. ASSUME NEW s \in Source, s # own PROVE Holders(s)' = Holders(s)
  BY <1>1, <1>6 DEF AllGood, Goes, Holders, Holds, SourceOf, Holding
<1>7. ASSUME NEW s \in Source
      PROVE  gate'[s] + Cardinality(Holders(s)') = Slots /\ Cardinality(Holders(s)') \in Nat
  <2>1. gate[s] + Cardinality(Holders(s)) = Slots /\ Cardinality(Holders(s)) \in Nat
    BY HoldersFinite DEF GateInv, GateKept
  <2>2. CASE s = own
    <3>1. gate'[own] = gate[own] + 1
      BY <1>1 DEF GateInv, Release
    <3>2. Holders(s) = Holders(own) /\ Holders(s)' = Holders(own)'
      BY <2>2 DEF Holders
    <3> QED
      BY <1>2, <1>5, <2>1, <2>2, <3>1, <3>2, SourcesAssumption
  <2>3. CASE s # own
    <3>1. gate'[s] = gate[s]
      BY <1>1, <2>3 DEF GateInv, Release
    <3> QED
      BY <1>6, <2>1, <2>3, <3>1
  <2> QED
    BY <2>2, <2>3
<1> QED
  BY <1>3, <1>7, GateBound

-----------------------------------------------------------------------------
(* Pauses.                                                                  *)

\* Nobody asks for a pause, and the call that moves does not queue for a slot.
LEMMA QuietStep ==
  ASSUME NEW f \in Fetches, NEW l, AllGood, PaceInv, Goes(f, l), Quiet(l), Waits
  PROVE  PaceInv'
<1>1. pause' = pause /\ cooldown' = cooldown /\ unaware' = unaware
  BY DEF Waits
<1>2. ASSUME NEW g \in Fetches \ unaware PROVE Patient(g)'
  <2>1. CASE g = f
    <3>1. fetch'[g] = l
      BY <2>1 DEF AllGood, Goes
    <3> QED
      BY <3>1 DEF Quiet, Patient
  <2>2. CASE g # f
    <3>1. fetch'[g] = fetch[g]
      BY <2>2 DEF AllGood, Goes
    <3> QED
      BY <1>1, <3>1 DEF PaceInv, Patient, SourceOf
  <2> QED
    BY <2>1, <2>2
<1> QED
  BY <1>1, <1>2 DEF PaceInv

-----------------------------------------------------------------------------
(* Steps.                                                                   *)

\* What the invariant says of one call under way.
LEMMA OneCall ==
  ASSUME IInv, NEW f \in Fetches
  PROVE  /\ fetch[f] \in Locals /\ Good(f, fetch[f])
         /\ fetch[f].at \notin Resting =>
              /\ Active(f) /\ Told(f, fetch[f]) /\ fetch[f].src \in DOMAIN Walk[f]
              /\ SourceOf(f) \in Source
<1>1. fetch[f] \in Locals /\ Good(f, fetch[f])
  BY DEF IInv, AllGood
<1>2. fetch[f].at \notin Resting => Active(f) /\ Told(f, fetch[f])
  BY <1>1 DEF Good, Active, Resting
<1> QED
  BY <1>1, <1>2, WalkFacts DEF Told, SourceOf

\* A call that is answered gives its slot back and is not at the gate.
LEMMA AnsweredStep ==
  ASSUME IInv, NEW f \in Fetches, NEW l, Holds(f), Release(f), Goes(f, l), Waits,
         Good(f, l), l.at \in {"look", "sleep", "ended"}, l.at = "sleep" => l.then = "look"
  PROVE  IInv'
<1>1. fetch[f].at \notin Resting
  BY DEF Holds, Resting
<1>2. AllGood'
  BY GoodStep DEF IInv
<1>3. GateInv'
  BY <1>1, OneCall, SlotGiven DEF IInv, Holding
<1>4. PaceInv'
  BY QuietStep DEF IInv, Quiet
<1> QED
  BY <1>2, <1>3, <1>4 DEF IInv

LEMMA StepBegin == ASSUME IInv, NEW f \in Fetches, Begin(f) PROVE IInv'
<1> DEFINE l == IF Walk[f] = <<>> THEN Ended(Idle, "miss") ELSE OnUrl(Idle, 1)
<1>1. Idle \in Locals
  <2>1. 0 \in 0 .. MaxRetries + 1 /\ 1 \in Nat /\ 0 \in Nat /\ {} \in SUBSET Nat
    BY SourcesAssumption
  <2> QED
    BY <2>1, Zenon DEF Idle, Locals, Stages, Results
<1>2. Good(f, l) /\ l.at \in {"look", "ended"}
  <2>1. CASE Walk[f] = <<>>
    <3>1. Idle.heard = DOMAIN Walk[f]
      BY <2>1 DEF Idle
    <3> QED
      BY <1>1, <2>1, <3>1, EndedGood DEF Results
  <2>2. CASE Walk[f] # <<>>
    <3>1. 1 \in DOMAIN Walk[f]
      BY <2>2, SourcesAssumption
    <3>2. Idle.src = 1 /\ Idle.heard = {} /\ Idle.down = FALSE /\ Idle.result = "none"
      BY DEF Idle
    <3>3. Told(f, Idle)
      BY <3>1, <3>2 DEF Told
    <3>4. 1 \in 1 .. Urls[Walk[f][Idle.src]]
      BY <3>1, <3>2, WalkFacts
    <3> QED
      BY <1>1, <2>2, <3>3, <3>4, OnUrlGood
  <2> QED
    BY <2>1, <2>2
<1>3. Goes(f, l) /\ ~Holds(f) /\ UNCHANGED gate /\ Waits
  BY DEF Begin, Holds, Waits
<1> HIDE DEF l
<1>4. AllGood'
  BY <1>2, <1>3, GoodStep DEF IInv
<1>5. GateInv'
  BY <1>2, <1>3, NeverHeld DEF IInv, Holding
<1>6. PaceInv'
  BY <1>2, <1>3, QuietStep DEF IInv, Quiet
<1> QED
  BY <1>4, <1>5, <1>6 DEF IInv

LEMMA StepEmbeds == ASSUME IInv, NEW f \in Fetches, Embeds(f) PROVE IInv'
<1> DEFINE l == Ended(fetch[f], "hit")
<1>1. Good(f, l) /\ l.at = "ended"
  BY OneCall, EndedGood DEF Results
<1>2. Goes(f, l) /\ ~Holds(f) /\ UNCHANGED gate /\ Waits
  BY DEF Embeds, Holds, Waits
<1> HIDE DEF l
<1>3. AllGood'
  BY <1>1, <1>2, GoodStep DEF IInv
<1>4. GateInv'
  BY <1>1, <1>2, NeverHeld DEF IInv, Holding
<1>5. PaceInv'
  BY <1>1, <1>2, QuietStep DEF IInv, Quiet
<1> QED
  BY <1>3, <1>4, <1>5 DEF IInv

\* A call of which only the stage, the sleep and where it leads change is as good as
\* it was.
LEMMA Moved ==
  ASSUME IInv, NEW f \in Fetches, fetch[f].at \notin Resting, NEW l \in Locals,
         l.src = fetch[f].src, l.url = fetch[f].url,
         l.attempt = fetch[f].attempt, l.followed = fetch[f].followed,
         l.down = fetch[f].down, l.heard = fetch[f].heard, l.result = fetch[f].result
  PROVE  Good(f, l)
BY OneCall DEF Good, Told, Honest

LEMMA StepLook == ASSUME IInv, NEW f \in Fetches, Look(f) PROVE IInv'
<1> DEFINE wait == cooldown[SourceOf(f)]
           l == IF wait > 0 THEN [fetch[f] EXCEPT !.at = "sleep", !.left = wait, !.then = "gate"]
                ELSE [fetch[f] EXCEPT !.at = "gate"]
<1>1. fetch[f].at = "look" /\ fetch[f].at \notin Resting /\ SourceOf(f) \in Source
  BY OneCall DEF Look, Resting
<1>2. wait = pause[SourceOf(f)] /\ wait \in 0 .. MaxRetryAfter
  BY <1>1 DEF IInv, PaceInv
<1>3. wait \in Nat /\ Least(wait, MaxRetryAfter) = wait
  BY <1>2, SourcesAssumption DEF Least
<1>4. Goes(f, l) /\ ~Holds(f) /\ UNCHANGED <<gate, cooldown, pause>> /\ unaware' = unaware \ {f}
  BY <1>3, <1>1 DEF Look, Sleeping, Holds
<1>5. fetch[f] \in Locals
  BY OneCall
<1>6. Good(f, l)
  <2>1. CASE wait > 0
    <3>1. l \in Locals
      BY <1>3, <1>5, <2>1, Zenon DEF Locals, Stages
    <3> QED
      BY <1>1, <1>5, <2>1, <3>1, Moved DEF Locals
  <2>2. CASE ~(wait > 0)
    <3>1. l \in Locals
      BY <1>5, <2>2, Zenon DEF Locals, Stages
    <3> QED
      BY <1>1, <1>5, <2>2, <3>1, Moved DEF Locals
  <2> QED
    BY <2>1, <2>2
<1>7. /\ l.src = fetch[f].src /\ l.at \in {"sleep", "gate"}
      /\ l.at = "gate" => wait = 0
      /\ l.at = "sleep" => l.left = wait
  BY <1>2, <1>5, SourcesAssumption DEF Locals
<1> HIDE DEF l
<1>8. AllGood'
  BY <1>4, <1>6, GoodStep DEF IInv
<1>9. GateInv'
  BY <1>4, <1>7, NeverHeld DEF IInv, Holding
<1>10. ASSUME NEW g \in Fetches \ unaware' PROVE Patient(g)'
  <2>1. CASE g = f
    <3>1. fetch'[g] = l /\ SourceOf(g)' = SourceOf(f)
      BY <1>4, <1>7, <2>1 DEF IInv, AllGood, Goes, SourceOf
    <3>2. pause' = pause /\ pause[SourceOf(f)] = wait /\ wait <= wait
      BY <1>2, <1>4, SourcesAssumption
    <3> HIDE DEF wait
    <3> QED
      BY <1>7, <3>1, <3>2 DEF Patient
  <2>2. CASE g # f
    <3>1. fetch'[g] = fetch[g] /\ g \notin unaware
      BY <1>4, <2>2 DEF IInv, AllGood, Goes
    <3> QED
      BY <1>4, <3>1 DEF IInv, PaceInv, Patient, SourceOf
  <2> QED
    BY <2>1, <2>2
<1>11. PaceInv'
  BY <1>4, <1>10 DEF IInv, PaceInv
<1> QED
  BY <1>8, <1>9, <1>11 DEF IInv

LEMMA StepWake == ASSUME IInv, NEW f \in Fetches, Wake(f) PROVE IInv'
<1> DEFINE l == [fetch[f] EXCEPT !.at = fetch[f].then, !.then = "look"]
<1>1. fetch[f].at = "sleep" /\ fetch[f].at \notin Resting /\ SourceOf(f) \in Source
  BY OneCall DEF Wake, Resting
<1>2. fetch[f] \in Locals /\ fetch[f].then \in {"look", "gate"} /\ fetch[f].left = 0
  BY OneCall DEF Locals, Wake
<1>3. Goes(f, l) /\ ~Holds(f) /\ UNCHANGED <<gate, cooldown, pause, unaware>>
  BY DEF Wake, Holds
<1>4. Good(f, l)
  <2>1. fetch[f].then \in Stages
    BY <1>2 DEF Stages
  <2>2. l \in Locals
    BY <1>2, <2>1, Zenon DEF Locals
  <2> QED
    BY <1>1, <1>2, <2>2, Moved DEF Locals
<1>5. l.src = fetch[f].src /\ l.at = fetch[f].then
  BY <1>2 DEF Locals
<1> HIDE DEF l
<1>6. AllGood'
  BY <1>3, <1>4, GoodStep DEF IInv
<1>7. GateInv'
  BY <1>2, <1>3, <1>5, NeverHeld DEF IInv, Holding
<1>8. ASSUME NEW g \in Fetches \ unaware' PROVE Patient(g)'
  <2>1. CASE g = f
    <3>1. fetch'[g] = l /\ SourceOf(g)' = SourceOf(f)
      BY <1>3, <1>5, <2>1 DEF IInv, AllGood, Goes, SourceOf
    <3>2. fetch[f].then = "gate" => pause[SourceOf(f)] = 0
      <4>1. pause[SourceOf(f)] \in 0 .. MaxRetryAfter
        BY <1>1 DEF IInv, PaceInv
      <4>2. Patient(f)
        BY <1>3, <2>1 DEF IInv, PaceInv
      <4> QED
        BY <1>1, <1>2, <4>1, <4>2, SourcesAssumption DEF Patient
    <3> QED
      BY <1>2, <1>3, <1>5, <3>1, <3>2 DEF Patient
  <2>2. CASE g # f
    <3>1. fetch'[g] = fetch[g]
      BY <1>3, <2>2 DEF IInv, AllGood, Goes
    <3> QED
      BY <1>3, <3>1 DEF IInv, PaceInv, Patient, SourceOf
  <2> QED
    BY <2>1, <2>2
<1>9. PaceInv'
  BY <1>3, <1>8 DEF IInv, PaceInv
<1> QED
  BY <1>6, <1>7, <1>9 DEF IInv

LEMMA StepEnter == ASSUME IInv, NEW f \in Fetches, Enter(f) PROVE IInv'
<1> DEFINE l == [fetch[f] EXCEPT !.at = "sent"]
<1>1. fetch[f].at = "gate" /\ fetch[f].at \notin Resting /\ ~Holds(f)
  BY DEF Enter, Resting, Holds
<1>2. /\ Goes(f, l) /\ Waits
      /\ gate[SourceOf(f)] > 0 /\ gate' = [gate EXCEPT ![SourceOf(f)] = @ - 1]
  BY DEF Enter, Waits
<1>3. fetch[f] \in Locals /\ fetch[f].src \in DOMAIN Walk[f]
  BY <1>1, OneCall
<1>4. l \in Locals
  BY <1>3, Zenon DEF Locals, Stages
<1>5. Good(f, l) /\ l.at = "sent" /\ l.src = fetch[f].src
  BY <1>1, <1>3, <1>4, Moved DEF Locals
<1> HIDE DEF l
<1>6. AllGood'
  BY <1>2, <1>5, GoodStep DEF IInv
<1>7. GateInv'
  BY <1>1, <1>2, <1>3, <1>5, SlotTaken DEF IInv, Holding
<1>8. PaceInv'
  BY <1>2, <1>5, QuietStep DEF IInv, Quiet
<1> QED
  BY <1>6, <1>7, <1>8 DEF IInv

LEMMA StepHeaders == ASSUME IInv, NEW f \in Fetches, Headers(f) PROVE IInv'
<1> DEFINE l == [fetch[f] EXCEPT !.at = "body"]
<1>1. fetch[f].at = "sent" /\ fetch[f].at \notin Resting /\ Holds(f)
  BY DEF Headers, Resting, Holds
<1>2. Goes(f, l) /\ Waits /\ UNCHANGED gate
  BY DEF Headers
<1>3. fetch[f] \in Locals
  BY OneCall
<1>4. l \in Locals
  BY <1>3, Zenon DEF Locals, Stages
<1>5. Good(f, l) /\ l.at = "body" /\ l.src = fetch[f].src
  BY <1>1, <1>3, <1>4, Moved DEF Locals
<1> HIDE DEF l
<1>6. AllGood'
  BY <1>2, <1>5, GoodStep DEF IInv
<1>7. GateInv'
  BY <1>1, <1>2, <1>5, StillHeld DEF IInv, Holding
<1>8. PaceInv'
  BY <1>2, <1>5, QuietStep DEF IInv, Quiet
<1> QED
  BY <1>6, <1>7, <1>8 DEF IInv

\* Whoever holds a slot is under way.
LEMMA HolderActive == ASSUME NEW f \in Fetches, Holds(f) PROVE Active(f)
BY DEF Holds, Active

LEMMA StepDecline == ASSUME IInv, NEW f \in Fetches, Decline(f) PROVE IInv'
<1>1. Holds(f) /\ Release(f) /\ Goes(f, NoArt(f, Heard(f))) /\ Waits
  BY DEF Decline, Holds
<1> QED
  BY <1>1, HolderActive, NoArtGood, AnsweredStep DEF IInv

LEMMA StepNoImage == ASSUME IInv, NEW f \in Fetches, NoImage(f) PROVE IInv'
<1>1. Holds(f) /\ Release(f) /\ Goes(f, NoArt(f, Heard(f))) /\ Waits
  BY DEF NoImage, Holds
<1> QED
  BY <1>1, HolderActive, NoArtGood, AnsweredStep DEF IInv

LEMMA StepBreak == ASSUME IInv, NEW f \in Fetches, Break(f) PROVE IInv'
<1>1. Holds(f) /\ Release(f) /\ Goes(f, Throws(f, NotHeard(f))) /\ Waits
  BY DEF Break, Holds
<1> QED
  BY <1>1, HolderActive, ThrowsGood, AnsweredStep DEF IInv

LEMMA StepImage == ASSUME IInv, NEW f \in Fetches, Image(f) PROVE IInv'
<1>1. Holds(f) /\ Release(f) /\ Goes(f, Ended(Heard(f), "hit")) /\ Waits
  BY DEF Image, Holds
<1>2. Heard(f) \in Locals
  BY <1>1, HolderActive, HeardFields DEF IInv
<1>3. Good(f, Ended(Heard(f), "hit")) /\ Ended(Heard(f), "hit").at = "ended"
  BY <1>2, EndedGood DEF Results
<1> QED
  BY <1>1, <1>3, AnsweredStep

\* An attempt that is to be made again, after a sleep: it is counted, and there
\* was one left.
LEMMA AgainGood ==
  ASSUME IInv, NEW f \in Fetches, Holds(f), ~Spent(f), NEW ticks \in Nat,
         NEW l \in {Heard(f), NotHeard(f)}
  PROVE  /\ Good(f, Again(l, ticks))
         /\ Again(l, ticks).at = "sleep" /\ Again(l, ticks).then = "look"
<1> DEFINE n == Again(l, ticks)
<1>1. fetch[f].at \notin Resting /\ Active(f)
  BY HolderActive DEF Active, Resting
<1>2. l \in Locals /\ Told(f, l) /\ l.src = fetch[f].src
  BY <1>1, HeardFields, HeardTold DEF IInv
<1>3. l.url = fetch[f].url /\ l.attempt = fetch[f].attempt
  BY OneCall DEF Heard, NotHeard, Locals
<1>4. /\ fetch[f].attempt \in 0 .. MaxRetries + 1
      /\ fetch[f].url \in 1 .. Urls[Walk[f][fetch[f].src]]
  BY <1>1, OneCall DEF Good, Locals
<1>5. l.attempt + 1 \in 0 .. MaxRetries + 1 /\ l.attempt + 1 # MaxRetries + 1
  BY <1>3, <1>4, SourcesAssumption DEF Spent
<1>6. n \in Locals
  BY <1>2, <1>5, Zenon DEF Again, Sleeping, Locals, Stages
<1>7. /\ n.at = "sleep" /\ n.then = "look" /\ n.src = l.src /\ n.url = l.url
      /\ n.attempt = l.attempt + 1 /\ n.down = l.down /\ n.heard = l.heard /\ n.result = l.result
  BY <1>2 DEF Again, Sleeping, Locals
<1>8. Told(f, n)
  BY <1>2, <1>7 DEF Told
<1>9. Honest(f, n)
  BY <1>8 DEF Told, Honest
<1> QED
  BY <1>2, <1>3, <1>4, <1>5, <1>6, <1>7, <1>8, <1>9 DEF Good

LEMMA StepFail == ASSUME IInv, NEW f \in Fetches, Fail(f) PROVE IInv'
<1>1. Holds(f) /\ Release(f) /\ Waits
  BY DEF Fail, Holds
<1>2. CASE Spent(f)
  <2>1. Goes(f, GivesUp(f, NotHeard(f)))
    BY <1>2 DEF Fail
  <2> QED
    BY <1>1, <2>1, HolderActive, GivesUpGood, AnsweredStep DEF IInv
<1>3. CASE ~Spent(f)
  <2>1. Goes(f, Again(NotHeard(f), RetryDelay)) /\ RetryDelay \in Nat
    BY <1>3, SourcesAssumption DEF Fail
  <2> QED
    BY <1>1, <1>3, <2>1, AgainGood, AnsweredStep
<1> QED
  BY <1>2, <1>3

LEMMA StepLink == ASSUME IInv, NEW f \in Fetches, Link(f) PROVE IInv'
<1>1. Holds(f) /\ Release(f) /\ Waits
  BY DEF Link, Holds
<1>2. CASE fetch[f].followed
  <2>1. Goes(f, NoArt(f, Heard(f)))
    BY <1>2 DEF Link
  <2> QED
    BY <1>1, <2>1, HolderActive, NoArtGood, AnsweredStep DEF IInv
<1>3. CASE ~fetch[f].followed
  <2> DEFINE l == [Heard(f) EXCEPT !.at = "look", !.followed = TRUE, !.attempt = @ + 1]
  <2>1. Goes(f, l)
    BY <1>3 DEF Link
  <2>2. fetch[f].at \notin Resting /\ Active(f)
    BY <1>1, HolderActive DEF Active, Resting
  <2>3. Heard(f) \in Locals /\ Told(f, Heard(f)) /\ Heard(f).src = fetch[f].src
    BY <2>2, HeardFields, HeardTold DEF IInv
  <2>4. Heard(f).url = fetch[f].url /\ Heard(f).attempt = fetch[f].attempt
    BY OneCall DEF Heard, Locals
  <2>5. /\ fetch[f].attempt \in 0 .. MaxRetries + 1 /\ fetch[f].attempt # MaxRetries + 1
        /\ fetch[f].url \in 1 .. Urls[Walk[f][fetch[f].src]]
    BY <1>3, <2>2, OneCall DEF Good, Locals
  <2>6. Heard(f).attempt + 1 \in 0 .. MaxRetries + 1
    BY <2>4, <2>5, SourcesAssumption, SMTT(30)
  <2>7. l \in Locals
    BY <2>3, <2>6, Zenon DEF Locals, Stages
  <2>8. /\ l.at = "look" /\ l.src = fetch[f].src /\ l.url = fetch[f].url /\ l.followed = TRUE
        /\ l.down = Heard(f).down /\ l.heard = Heard(f).heard /\ l.result = Heard(f).result
    BY <2>3, <2>4 DEF Locals
  <2> HIDE DEF l
  <2>9. Told(f, l)
    BY <2>3, <2>8 DEF Told
  <2>10. Good(f, l)
    BY <2>5, <2>7, <2>8, <2>9 DEF Good, Honest, Told
  <2> QED
    BY <1>1, <2>1, <2>8, <2>10, AnsweredStep
<1> QED
  BY <1>2, <1>3

LEMMA StepCancel == ASSUME IInv, NEW f \in Fetches, Cancel(f) PROVE IInv'
<1> DEFINE l == Ended(fetch[f], "cancelled")
<1>1. Good(f, l) /\ l.at = "ended"
  BY OneCall, EndedGood DEF Results
<1>2. Goes(f, l) /\ Waits /\ (IF Holds(f) THEN Release(f) ELSE UNCHANGED gate)
  BY DEF Cancel
<1> HIDE DEF l
<1>3. CASE Holds(f)
  BY <1>1, <1>2, <1>3, AnsweredStep
<1>4. CASE ~Holds(f)
  <2>1. AllGood'
    BY <1>1, <1>2, GoodStep DEF IInv
  <2>2. GateInv'
    BY <1>1, <1>2, <1>4, NeverHeld DEF IInv, Holding
  <2>3. PaceInv'
    BY <1>1, <1>2, QuietStep DEF IInv, Quiet
  <2> QED
    BY <2>1, <2>2, <2>3 DEF IInv
<1> QED
  BY <1>3, <1>4

\* Whoever had looked before this pause was asked for is unaware of it from now on,
\* and the asking call will look again.
LEMMA StepThrottle == ASSUME IInv, NEW f \in Fetches, Throttle(f) PROVE IInv'
<1> DEFINE own == SourceOf(f)
           later == unaware \cup {g \in Fetches \ {f} : PastLook(g) /\ SourceOf(g) = own}
<1>1. Holds(f) /\ Release(f) /\ unaware' = later
  BY DEF Throttle, Holds
<1>2. PICK ticks \in 0 .. MaxRetryAfter :
        /\ cooldown' = [cooldown EXCEPT ![own] = Armed(@, ticks)]
        /\ pause' = [pause EXCEPT ![own] = Longer(@, ticks)]
        /\ Goes(f, IF Spent(f) THEN NoArt(f, Heard(f)) ELSE Again(Heard(f), ticks))
  BY DEF Throttle
<1> DEFINE l == IF Spent(f) THEN NoArt(f, Heard(f)) ELSE Again(Heard(f), ticks)
<1>3. fetch[f].at \notin Resting /\ Active(f) /\ own \in Source
  BY <1>1, HolderActive, OneCall DEF Active, Resting
<1>4. /\ Good(f, l) /\ l.at \in {"look", "sleep", "ended"}
      /\ l.at = "sleep" => l.then = "look"
  <2>1. CASE Spent(f)
    BY <1>3, <2>1, NoArtGood DEF IInv
  <2>2. CASE ~Spent(f)
    <3>1. ticks \in Nat
      BY SourcesAssumption
    <3> QED
      BY <1>1, <2>2, <3>1, AgainGood
  <2> QED
    BY <2>1, <2>2
<1> HIDE DEF l
<1>5. Goes(f, l)
  BY <1>2 DEF l
<1>6. AllGood'
  BY <1>4, <1>5, GoodStep DEF IInv
<1>7. GateInv'
  BY <1>1, <1>3, <1>4, <1>5, OneCall, SlotGiven DEF IInv, Holding
<1>8. pause' \in [Source -> 0 .. MaxRetryAfter] /\ cooldown' = pause'
  <2>1. pause[own] \in 0 .. MaxRetryAfter /\ cooldown = pause
    BY <1>3 DEF IInv, PaceInv
  <2>2. Longer(pause[own], ticks) \in 0 .. MaxRetryAfter
    BY <2>1 DEF Longer
  <2> QED
    BY <1>2, <2>1, <2>2 DEF IInv, PaceInv, Armed
<1>9. ASSUME NEW g \in Fetches \ unaware' PROVE Patient(g)'
  <2>1. CASE g = f
    <3>1. fetch'[g] = l
      BY <1>5, <2>1 DEF IInv, AllGood, Goes
    <3> QED
      BY <1>4, <3>1 DEF Patient
  <2>2. CASE g # f
    <3>1. fetch'[g] = fetch[g] /\ SourceOf(g)' = SourceOf(g)
      BY <1>5, <2>2 DEF IInv, AllGood, Goes, SourceOf
    <3>2. g \notin unaware /\ (PastLook(g) => SourceOf(g) # own)
      BY <1>1, <2>2
    <3>3. CASE ~PastLook(g)
      BY <3>1, <3>3 DEF PastLook, Patient
    <3>4. CASE PastLook(g)
      <4>1. fetch[g].at \notin Resting
        BY <3>4 DEF PastLook, Resting
      <4>2. SourceOf(g) \in Source /\ SourceOf(g) # own
        BY <3>2, <3>4, <4>1, OneCall
      <4>3. pause'[SourceOf(g)] = pause[SourceOf(g)]
        BY <1>2, <4>2 DEF IInv, PaceInv
      <4>4. Patient(g)
        BY <3>2 DEF IInv, PaceInv
      <4> QED
        BY <3>1, <4>3, <4>4 DEF Patient
    <3> QED
      BY <3>3, <3>4
  <2> QED
    BY <2>1, <2>2
<1>10. PaceInv'
  <2>1. unaware' \subseteq Fetches
    BY <1>1 DEF IInv, PaceInv
  <2> QED
    BY <1>8, <1>9, <2>1 DEF PaceInv
<1> QED
  BY <1>6, <1>7, <1>10 DEF IInv

\* Time passes for sleepers and pauses alike.
LEMMA StepTick == ASSUME IInv, Tick PROVE IInv'
<1>1. /\ cooldown' = [s \in Source |-> Less(cooldown[s])] /\ pause' = [s \in Source |-> Less(pause[s])]
      /\ fetch' = [f \in Fetches |-> [fetch[f] EXCEPT !.left = Less(@)]]
      /\ gate' = gate /\ unaware' = unaware
  BY DEF Tick
<1>2. ASSUME NEW n \in Nat PROVE Less(n) \in Nat /\ Less(n) <= n
  BY DEF Less
<1>3. ASSUME NEW f \in Fetches
      PROVE  /\ fetch'[f] \in Locals /\ fetch'[f].left = Less(fetch[f].left)
             /\ fetch'[f].at = fetch[f].at /\ fetch'[f].then = fetch[f].then
             /\ fetch'[f].src = fetch[f].src /\ fetch'[f].url = fetch[f].url
             /\ fetch'[f].attempt = fetch[f].attempt /\ fetch'[f].followed = fetch[f].followed
             /\ fetch'[f].down = fetch[f].down /\ fetch'[f].heard = fetch[f].heard
             /\ fetch'[f].result = fetch[f].result
  <2>1. fetch[f] \in Locals /\ Less(fetch[f].left) \in Nat
    BY <1>2, OneCall DEF Locals
  <2>2. fetch'[f] = [fetch[f] EXCEPT !.left = Less(fetch[f].left)]
    BY <1>1
  <2>3. fetch'[f] \in Locals
    BY <2>1, <2>2, Zenon DEF Locals
  <2> QED
    BY <2>1, <2>2, <2>3 DEF Locals
<1>4. ASSUME NEW f \in Fetches PROVE Good(f, fetch'[f])
  BY <1>3, OneCall DEF Good, Told, Honest
<1>5. AllGood'
  <2>1. fetch' \in [Fetches -> Locals]
    BY <1>1, <1>3
  <2> QED
    BY <1>4, <2>1 DEF AllGood
<1>6. GateInv'
  <2>1. ASSUME NEW s \in Source PROVE Holders(s)' = Holders(s)
    BY <1>3 DEF Holders, Holds, SourceOf
  <2> QED
    BY <1>1, <2>1 DEF IInv, GateInv, GateKept
<1>7. pause' \in [Source -> 0 .. MaxRetryAfter] /\ cooldown' = pause'
  <2>1. ASSUME NEW s \in Source PROVE Less(pause[s]) \in 0 .. MaxRetryAfter
    <3>1. pause[s] \in 0 .. MaxRetryAfter
      BY DEF IInv, PaceInv
    <3> QED
      BY <3>1, SourcesAssumption DEF Less
  <2> QED
    BY <1>1, <2>1 DEF IInv, PaceInv
<1>8. ASSUME NEW f \in Fetches \ unaware' PROVE Patient(f)'
  <2>1. Patient(f) /\ SourceOf(f)' = SourceOf(f)
    BY <1>1, <1>3 DEF IInv, PaceInv, SourceOf
  <2>2. CASE PastLook(f)
    <3>1. fetch[f].at \notin Resting
      BY <2>2 DEF PastLook, Resting
    <3>2. SourceOf(f) \in Source /\ fetch[f].left \in Nat
      BY <3>1, OneCall DEF Locals
    <3>3. pause'[SourceOf(f)] = Less(pause[SourceOf(f)]) /\ pause[SourceOf(f)] \in 0 .. MaxRetryAfter
      BY <1>1, <3>2 DEF IInv, PaceInv
    <3>4. /\ pause[SourceOf(f)] = 0 => Less(pause[SourceOf(f)]) = 0
          /\ pause[SourceOf(f)] <= fetch[f].left => Less(pause[SourceOf(f)]) <= Less(fetch[f].left)
      BY <3>2, <3>3, SourcesAssumption DEF Less
    <3> QED
      BY <1>3, <2>1, <3>3, <3>4 DEF Patient
  <2>3. CASE ~PastLook(f)
    BY <1>3, <2>3 DEF PastLook, Patient
  <2> QED
    BY <2>2, <2>3
<1>9. PaceInv'
  BY <1>1, <1>7, <1>8 DEF IInv, PaceInv
<1> QED
  BY <1>5, <1>6, <1>9 DEF IInv

-----------------------------------------------------------------------------
(* The invariant, and what follows.                                         *)

LEMMA InitIInv == Init => IInv
<1> SUFFICES ASSUME Init PROVE IInv
  OBVIOUS
<1>1. Idle \in Locals
  <2>1. 0 \in 0 .. MaxRetries + 1 /\ 1 \in Nat /\ 0 \in Nat /\ {} \in SUBSET Nat
    BY SourcesAssumption
  <2> QED
    BY <2>1, Zenon DEF Idle, Locals, Stages, Results
<1>2. /\ Idle.at = "idle" /\ Idle.attempt = 0 /\ Idle.result = "none"
  BY DEF Idle
<1>3. 0 # MaxRetries + 1
  BY SourcesAssumption
<1>4. \A f \in Fetches : Good(f, Idle)
  BY <1>1, <1>2, <1>3 DEF Good, Honest, Resting
<1>5. AllGood
  BY <1>1, <1>4 DEF Init, AllGood
<1>6. GateInv
  <2>1. ASSUME NEW s \in Source PROVE Holders(s) = {}
    BY <1>2 DEF Init, Holders, Holds
  <2>2. Slots \in 0 .. Slots /\ Slots + 0 = Slots
    BY SourcesAssumption
  <2> QED
    BY <2>1, <2>2, FS_EmptySet DEF Init, GateInv, GateKept
<1>7. PaceInv
  <2>1. 0 \in 0 .. MaxRetryAfter
    BY SourcesAssumption
  <2>2. \A f \in Fetches : Patient(f)
    BY <1>2 DEF Init, Patient
  <2> QED
    BY <2>1, <2>2 DEF Init, PaceInv
<1> QED
  BY <1>5, <1>6, <1>7 DEF IInv

\* Every step keeps the invariant.
LEMMA NextIInv == IInv /\ [Next]_vars => IInv'
<1> SUFFICES ASSUME IInv, [Next]_vars PROVE IInv'
  OBVIOUS
<1>1. ASSUME NEW f \in Fetches, Own(f) PROVE IInv'
  BY <1>1, StepLook, StepEmbeds, StepWake, StepEnter DEF Own
<1>2. ASSUME NEW f \in Fetches, Reply(f) PROVE IInv'
  BY <1>2, StepDecline, StepThrottle, StepFail, StepHeaders DEF Reply
<1>3. ASSUME NEW f \in Fetches, Body(f) PROVE IInv'
  BY <1>3, StepImage, StepNoImage, StepLink, StepBreak DEF Body
<1>4. CASE UNCHANGED vars
  BY <1>4 DEF IInv, AllGood, GateInv, GateKept, PaceInv, Patient, Holders, Holds, SourceOf, vars
<1> QED
  BY <1>1, <1>2, <1>3, <1>4, StepBegin, StepCancel, StepTick DEF Next

LEMMA InvariantHolds == Spec => []IInv
BY InitIInv, NextIInv, PTL DEF Spec

\* For any upstreams and any number of fetches, a call's locals stay what the code
\* makes of them: no URL beyond a source's own, no source beyond the walk, and no
\* attempt too many (TryGetAsync).
THEOREM TypeCorrect == Spec => []TypeOK
<1>1. IInv => TypeOK
  <2> SUFFICES ASSUME IInv PROVE TypeOK
    OBVIOUS
  <2>1. ASSUME NEW f \in Fetches
        PROVE  /\ Active(f) => fetch[f].src \in DOMAIN Walk[f] /\ fetch[f].url \in 1 .. Urls[SourceOf(f)]
               /\ fetch[f].attempt = MaxRetries + 1 => fetch[f].followed
    BY OneCall DEF Active, Resting, Good, Told, SourceOf
  <2> QED
    BY <2>1 DEF IInv, AllGood, GateInv, PaceInv, TypeOK
<1> QED
  BY <1>1, InvariantHolds, PTL

\* For any number of slots and fetches, a slot is free or held by one request on
\* its way: none is lost to a failure, a pointer or a cancellation (the finally of
\* TryGetAsync).
THEOREM SlotsComeBack == Spec => []GateKept
<1>1. IInv => GateKept
  BY DEF IInv, GateInv
<1> QED
  BY <1>1, InvariantHolds, PTL

\* For any walk, a miss has been each source's own answer, and an outage some
\* source's silence (ArtFetcher, FetchStatus).
THEOREM OutagesAreTold == Spec => []OutageIsNoMiss
<1>1. IInv => OutageIsNoMiss
  BY OneCall DEF OutageIsNoMiss, Good, Honest
<1> QED
  BY <1>1, InvariantHolds, PTL

\* For any lengths of pauses, however they overlap, a request that has looked since
\* the last one was asked for goes out after it (BeginCooldown,
\* WaitOutCooldownAsync).
THEOREM PausesAreKept == Spec => PausesKept
<1> DEFINE Kept == \A f \in Fetches : fetch[f].at = "gate" /\ fetch'[f].at = "sent"
                       => pause[SourceOf(f)] = 0 \/ f \in unaware
<1>1. IInv => Kept
  BY DEF IInv, PaceInv, Patient
<1>2. IInv /\ [Next]_vars => [Kept]_vars
  BY <1>1
<1>3. PausesKept <=> [][Kept]_vars
  BY DEF PausesKept
<1> HIDE DEF Kept
<1> QED
  BY <1>2, <1>3, InvariantHolds, PTL DEF Spec
=============================================================================
