------------------------- MODULE SingleFlight_proofs -------------------------
(***************************************************************************)
(* One execution of a key at a time, and that SingleFlight implements       *)
(* Coalescing, for any keys, callers and supply of Lazy objects.            *)
(***************************************************************************)
EXTENDS SingleFlight, TLAPS

\* The caller that created a Lazy and has not arranged its removal yet.
Pending(c, f) == call[c].pc \in {"value", "attach"} /\ call[c].created /\ call[c].flight = f
Holds(f) == inFlight[flight[f].key] = f

\* A Lazy that has not ended is the one the dictionary holds for its key.
Installed == \A f \in Flights : flight[f].st \in {"lazy", "running"} => Holds(f)

\* Until it is removed, and its removal is arranged once, by its creator alone.
RemovedOnce ==
    /\ \A k \in Keys : inFlight[k] # None => flight[inFlight[k]].st # "unused"
    /\ \A f \in attached : flight[f].st # "unused" /\ Holds(f)
    /\ \A c \in Callers, f \in Flights : Pending(c, f) => f \notin attached /\ Holds(f)
    /\ \A c, d \in Callers, f \in Flights : Pending(c, f) /\ Pending(d, f) => c = d
    /\ \A c \in Callers : call[c].pc = "attach" => call[c].created

\* A caller uses a Lazy made for the key it asked for.
UsesItsKey ==
    \A c \in Callers : call[c].pc # "out" =>
      flight[call[c].flight].st # "unused" /\ flight[call[c].flight].key = call[c].key

IInv == TypeOK /\ Installed /\ RemovedOnce /\ UsesItsKey

\* The initial states satisfy the invariant.
LEMMA InitIInv == Init => IInv
<1> SUFFICES ASSUME Init PROVE IInv
  OBVIOUS
<1>1. TypeOK
  BY DEF Init, TypeOK, Unused, IdleCall
<1>2. Installed
  BY DEF Init, Installed, Unused
<1>3. RemovedOnce
  BY DEF Init, RemovedOnce, Pending, IdleCall
<1>4. UsesItsKey
  BY DEF Init, UsesItsKey, IdleCall
<1> QED
  BY <1>1, <1>2, <1>3, <1>4 DEF IInv

\* A call that finds nothing to share installs a Lazy nobody uses yet.
LEMMA CallCreates ==
  ASSUME IInv, NEW c \in Callers, NEW k \in Keys, NEW f \in Fresh,
         call[c].pc = "out", inFlight[k] = None,
         inFlight' = [inFlight EXCEPT ![k] = f],
         flight' = [flight EXCEPT ![f] = [st |-> "lazy", key |-> k]],
         call' = [call EXCEPT ![c] = [pc |-> "value", key |-> k, flight |-> f, created |-> TRUE]],
         attached' = attached
  PROVE  IInv'
<1>1. f \in Flights /\ flight[f].st = "unused"
  BY DEF Fresh
<1>2. /\ f \notin attached
      /\ \A j \in Keys : inFlight[j] # f
      /\ \A d \in Callers : call[d].pc # "out" => call[d].flight # f
  BY <1>1, NoneAssumption DEF IInv, RemovedOnce, UsesItsKey
<1>3. TypeOK'
  BY <1>1, <1>2, NoneAssumption DEF IInv, TypeOK, Stages, Places
<1>4. flight'[f] = [st |-> "lazy", key |-> k] /\ \A g \in Flights \ {f} : flight'[g] = flight[g]
  BY <1>1 DEF IInv, TypeOK
<1>5. inFlight'[k] = f /\ \A j \in Keys \ {k} : inFlight'[j] = inFlight[j]
  BY DEF IInv, TypeOK
<1>6. /\ call'[c] = [pc |-> "value", key |-> k, flight |-> f, created |-> TRUE]
      /\ \A d \in Callers \ {c} : call'[d] = call[d]
  BY DEF IInv, TypeOK
<1>7. \A g \in Flights \ {f} : flight[g].st # "unused" /\ Holds(g) => Holds(g)'
  <2> SUFFICES ASSUME NEW g \in Flights \ {f}, flight[g].st # "unused", Holds(g) PROVE Holds(g)'
    OBVIOUS
  <2>1. flight[g].key \in Keys
    BY DEF IInv, TypeOK, Unused
  <2>2. flight[g].key # k
    BY NoneAssumption DEF Holds
  <2> QED
    BY <1>4, <1>5, <2>1, <2>2 DEF Holds
<1>8. Installed'
  BY <1>1, <1>4, <1>5, <1>7 DEF IInv, Installed, Holds
<1>9. RemovedOnce'
  <2>1. \A j \in Keys : inFlight'[j] # None => flight'[inFlight'[j]].st # "unused"
    BY <1>1, <1>2, <1>4, <1>5 DEF IInv, TypeOK, RemovedOnce
  <2>2. \A g \in attached' : flight'[g].st # "unused" /\ Holds(g)'
    BY <1>2, <1>4, <1>7 DEF IInv, TypeOK, RemovedOnce
  <2>3. \A d \in Callers, g \in Flights : Pending(d, g)' => g \notin attached' /\ Holds(g)'
    <3> SUFFICES ASSUME NEW d \in Callers, NEW g \in Flights, Pending(d, g)'
                 PROVE  g \notin attached' /\ Holds(g)'
      OBVIOUS
    <3>1. CASE d = c
      BY <3>1, <1>2, <1>4, <1>5, <1>6 DEF Pending, Holds
    <3>2. CASE d # c
      <4>1. Pending(d, g) /\ call[d].flight = g /\ call[d].pc # "out"
        BY <3>2, <1>6 DEF Pending
      <4>2. g # f /\ flight[g].st # "unused" /\ Holds(g) /\ g \notin attached
        BY <4>1, <1>2 DEF IInv, RemovedOnce, UsesItsKey
      <4> QED
        BY <4>2, <1>7
    <3> QED
      BY <3>1, <3>2
  <2>4. \A d, e \in Callers, g \in Flights : Pending(d, g)' /\ Pending(e, g)' => d = e
    BY <1>2, <1>6 DEF IInv, RemovedOnce, Pending
  <2>5. \A d \in Callers : call'[d].pc = "attach" => call'[d].created
    BY <1>6 DEF IInv, RemovedOnce
  <2> QED
    BY <2>1, <2>2, <2>3, <2>4, <2>5 DEF RemovedOnce
<1>10. UsesItsKey'
  BY <1>1, <1>2, <1>4, <1>6 DEF IInv, TypeOK, UsesItsKey, IdleCall
<1> QED
  BY <1>3, <1>8, <1>9, <1>10 DEF IInv

\* A step that leaves the dictionary alone, starts or ends a Lazy at most, and
\* makes no caller its creator keeps who holds what.
LEMMA SameHolders ==
  ASSUME IInv, inFlight' = inFlight, TypeOK',
         \A f \in Flights : flight'[f].key = flight[f].key,
         \A f \in Flights : flight'[f].st = flight[f].st \/ (flight[f].st \in {"lazy", "running"}
                                                              /\ flight'[f].st \in {"running", "ended"})
  PROVE  /\ \A f \in Flights : Holds(f)' <=> Holds(f)
         /\ \A f \in Flights : flight'[f].st = "unused" <=> flight[f].st = "unused"
         /\ Installed'
<1>1. \A f \in Flights : Holds(f)' <=> Holds(f)
  BY DEF Holds
<1>2. \A f \in Flights : flight'[f].st = "unused" <=> flight[f].st = "unused"
  OBVIOUS
<1>3. Installed'
  BY <1>1 DEF IInv, Installed
<1> QED
  BY <1>1, <1>2, <1>3

\* Every step keeps the invariant.
LEMMA StepIInv == IInv /\ [Next]_vars => IInv'
<1> SUFFICES ASSUME IInv, [Next]_vars PROVE IInv'
  OBVIOUS
<1> USE DEF IInv
<1>1. ASSUME NEW c \in Callers, NEW k \in Keys, Call(c, k) PROVE IInv'
  <2>1. PICK f \in Fresh :
          IF inFlight[k] = None
          THEN /\ inFlight' = [inFlight EXCEPT ![k] = f]
               /\ flight' = [flight EXCEPT ![f] = [st |-> "lazy", key |-> k]]
               /\ call' = [call EXCEPT ![c] = [pc |-> "value", key |-> k, flight |-> f, created |-> TRUE]]
          ELSE /\ call' = [call EXCEPT ![c] = [pc |-> "value", key |-> k, flight |-> inFlight[k], created |-> FALSE]]
               /\ UNCHANGED <<inFlight, flight>>
    BY <1>1 DEF Call
  <2>2. CASE inFlight[k] = None
    BY <1>1, <2>1, <2>2, CallCreates DEF Call
  <2>3. CASE inFlight[k] # None
    <3>1. /\ inFlight' = inFlight /\ flight' = flight /\ attached' = attached
          /\ inFlight[k] \in Flights
          /\ call' = [call EXCEPT ![c] = [pc |-> "value", key |-> k, flight |-> inFlight[k], created |-> FALSE]]
      BY <1>1, <2>1, <2>3 DEF Call, TypeOK
    <3>2. TypeOK'
      BY <3>1 DEF TypeOK, Places
    <3>3. /\ call'[c] = [pc |-> "value", key |-> k, flight |-> inFlight[k], created |-> FALSE]
          /\ \A d \in Callers \ {c} : call'[d] = call[d]
      BY <3>1 DEF TypeOK
    <3>4. Installed'
      BY <3>1 DEF Installed, Holds
    <3>5. RemovedOnce'
      BY <3>1, <3>3 DEF RemovedOnce, Pending, Holds
    <3>6. UsesItsKey'
      BY <2>3, <3>1, <3>3 DEF TypeOK, UsesItsKey, RemovedOnce
    <3> QED
      BY <3>2, <3>4, <3>5, <3>6
  <2> QED
    BY <2>2, <2>3
<1>2. ASSUME NEW c \in Callers, Value(c) PROVE IInv'
  <2>1. /\ call[c].pc = "value" /\ call[c].flight \in Flights
        /\ flight' = [flight EXCEPT ![call[c].flight].st = IF @ = "lazy" THEN "running" ELSE @]
        /\ call' = [call EXCEPT ![c].pc = IF call[c].created THEN "attach" ELSE "wait"]
        /\ inFlight' = inFlight /\ attached' = attached
    BY <1>2 DEF Value, TypeOK, IdleCall
  <2>2. flight[call[c].flight].st # "unused"
    BY <2>1 DEF UsesItsKey
  <2>3. TypeOK'
    <3>1. flight' \in [Flights -> {Unused} \cup [st : Stages \ {"unused"}, key : Keys]]
      BY <2>1, <2>2 DEF TypeOK, Stages, Unused
    <3>2. call' \in [Callers -> {IdleCall} \cup [pc : Places, key : Keys, flight : Flights, created : BOOLEAN]]
      BY <2>1 DEF TypeOK, Places, IdleCall
    <3>3. \A k \in Keys : inFlight'[k] # None => flight'[inFlight'[k]].key = k
      BY <2>1 DEF TypeOK
    <3> QED
      BY <2>1, <3>1, <3>2, <3>3 DEF TypeOK
  <2>4. /\ \A f \in Flights : flight'[f].key = flight[f].key
        /\ \A f \in Flights : flight'[f].st = flight[f].st \/ (flight[f].st = "lazy" /\ flight'[f].st = "running")
    BY <2>1 DEF TypeOK
  <2>5. /\ \A f \in Flights : Holds(f)' <=> Holds(f)
        /\ \A f \in Flights : flight'[f].st = "unused" <=> flight[f].st = "unused"
        /\ Installed'
    BY <2>1, <2>3, <2>4, SameHolders
  <2>6. /\ call'[c] = [call[c] EXCEPT !.pc = IF call[c].created THEN "attach" ELSE "wait"]
        /\ \A d \in Callers \ {c} : call'[d] = call[d]
    BY <2>1 DEF TypeOK
  <2>7. /\ call'[c].created = call[c].created /\ call'[c].flight = call[c].flight /\ call'[c].key = call[c].key
        /\ call'[c].pc = IF call[c].created THEN "attach" ELSE "wait"
    BY <2>1, <2>6 DEF TypeOK, IdleCall
  <2>8. \A d \in Callers, f \in Flights : Pending(d, f)' => Pending(d, f)
    BY <2>1, <2>6, <2>7 DEF Pending
  <2>9. RemovedOnce'
    BY <2>1, <2>5, <2>6, <2>7, <2>8 DEF RemovedOnce, TypeOK
  <2>10. UsesItsKey'
    BY <2>1, <2>4, <2>5, <2>6, <2>7 DEF UsesItsKey, TypeOK, IdleCall
  <2> QED
    BY <2>3, <2>5, <2>9, <2>10
<1>3. ASSUME NEW c \in Callers, Attach(c) PROVE IInv'
  <2>1. /\ call[c].pc = "attach" /\ call[c].flight \in Flights
        /\ attached' = attached \cup {call[c].flight}
        /\ call' = [call EXCEPT ![c].pc = "wait"]
        /\ inFlight' = inFlight /\ flight' = flight
    BY <1>3 DEF Attach, TypeOK, IdleCall
  <2>2. TypeOK'
    BY <2>1 DEF TypeOK, Places, IdleCall
  <2>3. /\ call'[c] = [call[c] EXCEPT !.pc = "wait"] /\ \A d \in Callers \ {c} : call'[d] = call[d]
    BY <2>1 DEF TypeOK
  <2>4. call'[c].pc = "wait" /\ call'[c].flight = call[c].flight /\ call'[c].key = call[c].key
    BY <2>1, <2>3 DEF TypeOK, IdleCall
  <2>5. Installed'
    BY <2>1 DEF Installed, Holds
  <2>6. call[c].created
    BY <2>1 DEF RemovedOnce
  <2>7. Pending(c, call[c].flight)
    BY <2>1, <2>6 DEF Pending
  <2>8. \A d \in Callers, f \in Flights : Pending(d, f)' => d # c /\ Pending(d, f)
    BY <2>3, <2>4 DEF Pending
  <2>9. RemovedOnce'
    <3>1. \A k \in Keys : inFlight'[k] # None => flight'[inFlight'[k]].st # "unused"
      BY <2>1 DEF RemovedOnce
    <3>2. \A f \in attached' : flight'[f].st # "unused" /\ Holds(f)'
      BY <2>1, <2>7 DEF RemovedOnce, Holds, UsesItsKey
    <3>3. \A d \in Callers, f \in Flights : Pending(d, f)' => f \notin attached' /\ Holds(f)'
      BY <2>1, <2>7, <2>8 DEF RemovedOnce, Holds
    <3>4. \A d, e \in Callers, f \in Flights : Pending(d, f)' /\ Pending(e, f)' => d = e
      BY <2>8 DEF RemovedOnce
    <3>5. \A d \in Callers : call'[d].pc = "attach" => call'[d].created
      BY <2>3, <2>4 DEF RemovedOnce
    <3> QED
      BY <3>1, <3>2, <3>3, <3>4, <3>5 DEF RemovedOnce
  <2>10. UsesItsKey'
    BY <2>1, <2>3, <2>4 DEF UsesItsKey
  <2> QED
    BY <2>2, <2>5, <2>9, <2>10
<1>4. ASSUME NEW f \in Flights, Finish(f) PROVE IInv'
  <2>1. /\ flight[f].st = "running" /\ flight' = [flight EXCEPT ![f].st = "ended"]
        /\ inFlight' = inFlight /\ attached' = attached /\ call' = call
    BY <1>4 DEF Finish
  <2>2. TypeOK'
    BY <2>1 DEF TypeOK, Stages, Unused
  <2>3. /\ \A g \in Flights : flight'[g].key = flight[g].key
        /\ \A g \in Flights : flight'[g].st = flight[g].st \/ (flight[g].st = "running" /\ flight'[g].st = "ended")
    BY <2>1 DEF TypeOK
  <2>4. /\ \A g \in Flights : Holds(g)' <=> Holds(g)
        /\ \A g \in Flights : flight'[g].st = "unused" <=> flight[g].st = "unused"
        /\ Installed'
    BY <2>1, <2>2, <2>3, SameHolders
  <2>5. RemovedOnce'
    BY <2>1, <2>4 DEF RemovedOnce, Pending, TypeOK
  <2>6. UsesItsKey'
    BY <2>1, <2>3, <2>4 DEF UsesItsKey, TypeOK, IdleCall
  <2> QED
    BY <2>2, <2>4, <2>5, <2>6
<1>5. ASSUME NEW f \in Flights, Remove(f) PROVE IInv'
  <2>1. /\ f \in attached /\ flight[f].st = "ended"
        /\ inFlight' = [k \in Keys |-> IF k = flight[f].key /\ inFlight[k] = f THEN None ELSE inFlight[k]]
        /\ attached' = attached \ {f} /\ flight' = flight /\ call' = call
    BY <1>5 DEF Remove
  <2>2. TypeOK'
    BY <2>1, NoneAssumption DEF TypeOK
  <2>3. \A g \in Flights \ {f} : flight[g].st # "unused" /\ Holds(g) => Holds(g)'
    BY <2>1 DEF Holds, TypeOK, Unused
  <2>4. Installed'
    BY <2>1, <2>3 DEF Installed
  <2>5. RemovedOnce'
    <3>1. \A k \in Keys : inFlight'[k] # None => flight'[inFlight'[k]].st # "unused"
      BY <2>1 DEF RemovedOnce
    <3>2. \A g \in attached' : flight'[g].st # "unused" /\ Holds(g)'
      BY <2>1, <2>3 DEF RemovedOnce, TypeOK
    <3>3. ASSUME NEW d \in Callers, NEW g \in Flights, Pending(d, g)'
          PROVE  g \notin attached' /\ Holds(g)'
      <4>1. Pending(d, g) /\ call[d].flight = g /\ call[d].pc # "out"
        BY <2>1, <3>3 DEF Pending
      <4>2. g \notin attached /\ g # f /\ Holds(g) /\ flight[g].st # "unused"
        BY <2>1, <4>1 DEF RemovedOnce, UsesItsKey
      <4> QED
        BY <2>1, <2>3, <4>2
    <3>4. \A d, e \in Callers, g \in Flights : Pending(d, g)' /\ Pending(e, g)' => d = e
      BY <2>1 DEF RemovedOnce, Pending
    <3>5. \A d \in Callers : call'[d].pc = "attach" => call'[d].created
      BY <2>1 DEF RemovedOnce
    <3> QED
      BY <3>1, <3>2, <3>3, <3>4, <3>5 DEF RemovedOnce
  <2>6. UsesItsKey'
    BY <2>1 DEF UsesItsKey
  <2> QED
    BY <2>2, <2>4, <2>5, <2>6
<1>6. ASSUME NEW c \in Callers, Return(c) \/ Cancel(c) PROVE IInv'
  <2>1. /\ call' = [call EXCEPT ![c] = IdleCall]
        /\ inFlight' = inFlight /\ flight' = flight /\ attached' = attached
    BY <1>6 DEF Return, Cancel, Out
  <2>2. call'[c] = IdleCall /\ \A d \in Callers \ {c} : call'[d] = call[d]
    BY <2>1 DEF TypeOK
  <2>3. TypeOK'
    BY <2>1 DEF TypeOK
  <2>4. Installed'
    BY <2>1 DEF Installed, Holds
  <2>5. \A d \in Callers, f \in Flights : Pending(d, f)' => Pending(d, f)
    BY <2>2 DEF Pending, IdleCall
  <2>6. RemovedOnce'
    BY <2>1, <2>2, <2>5 DEF RemovedOnce, Holds, IdleCall
  <2>7. UsesItsKey'
    BY <2>1, <2>2 DEF UsesItsKey, IdleCall
  <2> QED
    BY <2>3, <2>4, <2>6, <2>7
<1>7. CASE UNCHANGED vars
  BY <1>7 DEF vars, TypeOK, Installed, RemovedOnce, UsesItsKey, Pending, Holds
<1> QED
  BY <1>1, <1>2, <1>3, <1>4, <1>5, <1>6, <1>7 DEF Next, Step

\* The invariant holds in every behaviour of RunAsync.
THEOREM Invariance == Spec => []IInv
  BY InitIInv, StepIInv, PTL DEF Spec

\* The dictionary never maps a key to another's Lazy, and every variable keeps
\* its type.
THEOREM TypeCorrect == Spec => []TypeOK
<1>1. IInv => TypeOK
  BY DEF IInv
<1>2. QED
  BY <1>1, Invariance, PTL

\* One key, one execution at a time: SingleFlight's own promise, whoever cancels
\* and however many calls come.
THEOREM OneAtATime == Spec => []OneExecution
<1>1. IInv => OneExecution
  BY DEF IInv, Installed, OneExecution, Holds
<1>2. QED
  BY <1>1, Invariance, PTL

-----------------------------------------------------------------------------
(* The refinement.                                                           *)

\* RunAsync starts where Coalescing starts.
LEMMA InitMaps == Init => C!Init
  BY DEF Init, C!Init, runs, asks, IdleCall, C!Idle

\* Steps that leave who has ended and who asks alone are invisible.
LEMMA Stutters ==
  ASSUME inFlight' = inFlight,
         \A k \in Keys : inFlight[k] # None => (Ended(inFlight[k])' <=> Ended(inFlight[k])),
         \A c \in Callers : /\ (call'[c].pc = "out") <=> (call[c].pc = "out")
                            /\ call'[c].key = call[c].key /\ call'[c].flight = call[c].flight,
         \A c \in Callers : call[c].pc # "out" => (Ended(call[c].flight)' <=> Ended(call[c].flight))
  PROVE  runs' = runs /\ asks' = asks
<1>1. runs' = runs
  BY DEF runs, Ended
<1>2. asks' = asks
  BY DEF asks, Ended
<1> QED
  BY <1>1, <1>2

\* Every step of RunAsync is one of Coalescing's, or none.
LEMMA StepMaps == IInv /\ [Next]_vars => [C!Next]_<<runs, asks>>
<1> SUFFICES ASSUME IInv, [Next]_vars PROVE C!Next \/ (runs' = runs /\ asks' = asks)
  OBVIOUS
<1> USE DEF IInv
<1>1. ASSUME NEW c \in Callers, NEW k \in Keys, Call(c, k) PROVE C!Ask(c, k)
  <2>1. asks[c].at = "out" /\ call[c].pc = "out"
    BY <1>1 DEF Call, asks
  <2>2. PICK f \in Fresh :
          IF inFlight[k] = None
          THEN /\ inFlight' = [inFlight EXCEPT ![k] = f]
               /\ flight' = [flight EXCEPT ![f] = [st |-> "lazy", key |-> k]]
               /\ call' = [call EXCEPT ![c] = [pc |-> "value", key |-> k, flight |-> f, created |-> TRUE]]
          ELSE /\ call' = [call EXCEPT ![c] = [pc |-> "value", key |-> k, flight |-> inFlight[k], created |-> FALSE]]
               /\ UNCHANGED <<inFlight, flight>>
    BY <1>1 DEF Call
  <2>3. f \in Flights /\ flight[f].st = "unused"
    BY DEF Fresh
  <2>4. CASE inFlight[k] = None
    <3>1. \A g \in Flights : g # f => (Ended(g)' <=> Ended(g))
      BY <2>2, <2>3, <2>4 DEF TypeOK, Ended
    <3>2. ~Ended(f) /\ ~Ended(f)'
      BY <2>2, <2>3, <2>4 DEF TypeOK, Ended
    <3>3. runs' = [runs EXCEPT ![k] = "running"]
      <4>1. runs'[k] = "running"
        BY <2>2, <2>3, <2>4, <3>2, NoneAssumption DEF runs, TypeOK
      <4>2. ASSUME NEW j \in Keys \ {k} PROVE runs'[j] = runs[j]
        <5>1. inFlight'[j] = inFlight[j] /\ inFlight[j] # f
          BY <2>2, <2>3, <2>4, NoneAssumption DEF TypeOK, RemovedOnce
        <5>2. inFlight[j] # None => (Ended(inFlight[j])' <=> Ended(inFlight[j]))
          BY <3>1, <5>1 DEF TypeOK, Ended
        <5> QED
          BY <5>1, <5>2 DEF runs, Ended
      <4> QED
        BY <4>1, <4>2 DEF runs
    <3>4. asks' = [asks EXCEPT ![c] = [at |-> "waiting", key |-> k]]
      <4>1. asks'[c] = [at |-> "waiting", key |-> k]
        BY <2>2, <2>4, <3>2 DEF asks, TypeOK, Ended
      <4>2. ASSUME NEW d \in Callers \ {c} PROVE asks'[d] = asks[d]
        <5>1. call'[d] = call[d] /\ (call[d].pc # "out" => call[d].flight \in Flights \ {f})
          BY <2>2, <2>3, <2>4 DEF TypeOK, UsesItsKey, IdleCall
        <5> QED
          BY <3>1, <5>1 DEF asks, Ended
      <4> QED
        BY <4>1, <4>2 DEF asks
    <3>5. runs[k] = "none"
      BY <2>4 DEF runs
    <3> QED
      BY <2>1, <3>3, <3>4, <3>5 DEF C!Ask
  <2>5. CASE inFlight[k] # None
    <3>1. runs' = runs
      BY <2>2, <2>5 DEF runs, Ended
    <3>2. asks' = [asks EXCEPT ![c] = [at |-> IF runs[k] = "ended" THEN "answered" ELSE "waiting", key |-> k]]
      <4>1. asks'[c] = [at |-> IF runs[k] = "ended" THEN "answered" ELSE "waiting", key |-> k]
        BY <2>2, <2>5 DEF asks, runs, TypeOK, Ended
      <4>2. \A d \in Callers \ {c} : asks'[d] = asks[d]
        BY <2>2, <2>5 DEF asks, TypeOK, Ended
      <4> QED
        BY <4>1, <4>2, ZenonT(40) DEF asks
    <3>3. runs[k] # "none" /\ runs = [j \in Keys |-> runs[j]]
      BY <2>5 DEF runs
    <3> QED
      BY <2>1, <3>1, <3>2, <3>3 DEF C!Ask
  <2> QED
    BY <2>4, <2>5
<1>2. ASSUME NEW c \in Callers, Value(c) PROVE runs' = runs /\ asks' = asks
  <2>1. /\ call[c].pc = "value" /\ call[c].flight \in Flights
        /\ flight' = [flight EXCEPT ![call[c].flight].st = IF @ = "lazy" THEN "running" ELSE @]
        /\ call' = [call EXCEPT ![c].pc = IF call[c].created THEN "attach" ELSE "wait"]
        /\ inFlight' = inFlight
    BY <1>2 DEF Value, TypeOK, IdleCall
  <2>2. \A f \in Flights : Ended(f)' <=> Ended(f)
    BY <2>1 DEF Ended, TypeOK
  <2>3. /\ call'[c] = [call[c] EXCEPT !.pc = IF call[c].created THEN "attach" ELSE "wait"]
        /\ \A d \in Callers \ {c} : call'[d] = call[d]
    BY <2>1 DEF TypeOK
  <2>4. \A d \in Callers : /\ (call'[d].pc = "out") <=> (call[d].pc = "out")
                           /\ call'[d].key = call[d].key /\ call'[d].flight = call[d].flight
    BY <2>1, <2>3 DEF TypeOK, IdleCall
  <2>5. \A k \in Keys : inFlight[k] # None => (Ended(inFlight[k])' <=> Ended(inFlight[k]))
    BY <2>1, <2>2 DEF TypeOK, Ended
  <2>6. \A d \in Callers : call[d].pc # "out" => (Ended(call[d].flight)' <=> Ended(call[d].flight))
    BY <2>2, <2>4 DEF TypeOK, IdleCall, Ended
  <2> QED
    BY <2>1, <2>4, <2>5, <2>6, Stutters
<1>3. ASSUME NEW c \in Callers, Attach(c) PROVE runs' = runs /\ asks' = asks
  <2>1. /\ call[c].pc = "attach" /\ call' = [call EXCEPT ![c].pc = "wait"]
        /\ inFlight' = inFlight /\ flight' = flight
    BY <1>3 DEF Attach
  <2>2. call'[c] = [call[c] EXCEPT !.pc = "wait"] /\ \A d \in Callers \ {c} : call'[d] = call[d]
    BY <2>1 DEF TypeOK
  <2>3. \A d \in Callers : /\ (call'[d].pc = "out") <=> (call[d].pc = "out")
                           /\ call'[d].key = call[d].key /\ call'[d].flight = call[d].flight
    BY <2>1, <2>2 DEF TypeOK, IdleCall
  <2> QED
    BY <2>1, <2>3 DEF runs, asks, Ended
<1>4. ASSUME NEW f \in Flights, Finish(f) PROVE C!End(flight[f].key)
  <2> DEFINE k == flight[f].key
  <2>1. /\ flight[f].st = "running" /\ flight' = [flight EXCEPT ![f].st = "ended"]
        /\ inFlight' = inFlight /\ call' = call
    BY <1>4 DEF Finish
  <2>2. k \in Keys /\ inFlight[k] = f
    BY <2>1 DEF Installed, Holds, TypeOK, Unused
  <2>3. Ended(f)' /\ ~Ended(f) /\ \A g \in Flights \ {f} : Ended(g)' <=> Ended(g)
    BY <2>1 DEF Ended, TypeOK
  <2>4. runs[k] = "running"
    BY <2>2, <2>3, NoneAssumption DEF runs
  <2>5. runs' = [runs EXCEPT ![k] = "ended"]
    <3>1. runs'[k] = "ended"
      BY <2>1, <2>2, <2>3, NoneAssumption DEF runs, Ended
    <3>2. ASSUME NEW j \in Keys \ {k} PROVE runs'[j] = runs[j]
      <4>1. inFlight[j] # f
        BY NoneAssumption DEF TypeOK
      <4>2. inFlight[j] # None => (Ended(inFlight[j])' <=> Ended(inFlight[j]))
        BY <2>1, <2>3, <4>1 DEF TypeOK, Ended
      <4> QED
        BY <2>1, <4>2 DEF runs, Ended
    <3> QED
      BY <3>1, <3>2 DEF runs
  <2>6. ASSUME NEW d \in Callers
        PROVE  asks'[d] = IF asks[d] = [at |-> "waiting", key |-> k] THEN [at |-> "answered", key |-> k] ELSE asks[d]
    <3>1. CASE call[d].pc = "out"
      BY <2>1, <3>1 DEF asks
    <3>2. CASE call[d].pc # "out" /\ call[d].flight = f
      BY <2>1, <2>3, <3>2 DEF asks, UsesItsKey, Ended
    <3>3. CASE call[d].pc # "out" /\ call[d].flight # f
      <4>1. call[d].flight \in Flights \ {f}
        BY <3>3 DEF TypeOK, IdleCall
      <4>2. asks'[d] = asks[d]
        BY <2>1, <2>3, <3>3, <4>1 DEF asks, Ended
      <4>3. ~Ended(call[d].flight) => call[d].key # k
        <5> SUFFICES ASSUME ~Ended(call[d].flight), call[d].key = k PROVE FALSE
          OBVIOUS
        <5>1. flight[call[d].flight].st \in {"lazy", "running"} /\ flight[call[d].flight].key = k
          BY <3>3, <4>1 DEF UsesItsKey, Ended, TypeOK, Stages, Unused
        <5> QED
          BY <2>2, <3>3, <4>1, <5>1 DEF Installed, Holds
      <4> QED
        BY <3>3, <4>2, <4>3 DEF asks
    <3> QED
      BY <3>1, <3>2, <3>3
  <2>7. asks' = [d \in Callers |-> IF asks[d] = [at |-> "waiting", key |-> k]
                                   THEN [at |-> "answered", key |-> k] ELSE asks[d]]
    BY <2>6 DEF asks
  <2> QED
    BY <2>4, <2>5, <2>7 DEF C!End
<1>5. ASSUME NEW f \in Flights, Remove(f) PROVE C!Forget(flight[f].key)
  <2> DEFINE k == flight[f].key
  <2>1. /\ f \in attached /\ flight[f].st = "ended"
        /\ inFlight' = [j \in Keys |-> IF j = k /\ inFlight[j] = f THEN None ELSE inFlight[j]]
        /\ flight' = flight /\ call' = call
    BY <1>5 DEF Remove
  <2>2. k \in Keys /\ inFlight[k] = f
    BY <2>1 DEF RemovedOnce, Holds, TypeOK, Unused
  <2>3. runs[k] = "ended"
    BY <2>1, <2>2, NoneAssumption DEF runs, Ended
  <2>4. runs' = [runs EXCEPT ![k] = "none"]
    BY <2>1, <2>2 DEF runs, Ended
  <2>5. asks' = asks
    BY <2>1 DEF asks, Ended
  <2> QED
    BY <2>3, <2>4, <2>5 DEF C!Forget
<1>6. ASSUME NEW c \in Callers, Return(c) \/ Cancel(c) PROVE C!Leave(c)
  <2>1. /\ call' = [call EXCEPT ![c] = IdleCall] /\ call[c].pc = "wait"
        /\ inFlight' = inFlight /\ flight' = flight
    BY <1>6 DEF Return, Cancel, Out
  <2>2. call'[c] = IdleCall /\ \A d \in Callers \ {c} : call'[d] = call[d]
    BY <2>1 DEF TypeOK
  <2>3. asks[c].at # "out"
    BY <2>1 DEF asks
  <2>4. asks' = [asks EXCEPT ![c] = C!Idle]
    <3>1. asks'[c] = C!Idle
      BY <2>2 DEF asks, C!Idle, IdleCall
    <3>2. \A d \in Callers \ {c} : asks'[d] = asks[d]
      BY <2>1, <2>2 DEF asks, Ended
    <3> QED
      BY <3>1, <3>2 DEF asks
  <2>5. runs' = runs
    BY <2>1 DEF runs, Ended
  <2> QED
    BY <2>3, <2>4, <2>5 DEF C!Leave
<1>7. ASSUME UNCHANGED vars PROVE runs' = runs /\ asks' = asks
  BY <1>7 DEF vars, runs, asks, Ended
<1>8. ASSUME NEW f \in Flights, flight[f].st # "unused" PROVE flight[f].key \in Keys
  BY <1>8 DEF TypeOK, Unused
<1>9. CASE \E c \in Callers, k \in Keys : Call(c, k)
  BY <1>1, <1>9 DEF C!Next
<1>10. CASE \E f \in Flights : Finish(f) \/ Remove(f)
  BY <1>4, <1>5, <1>8, <1>10 DEF C!Next, Finish, Remove
<1>11. CASE \E c \in Callers : Value(c) \/ Attach(c)
  BY <1>2, <1>3, <1>11
<1>12. CASE \E c \in Callers : Return(c) \/ Cancel(c)
  BY <1>6, <1>12 DEF C!Next
<1> QED
  BY <1>7, <1>9, <1>10, <1>11, <1>12 DEF Next, Step

\* SingleFlight implements Coalescing: the flights ArtPipeline is built on are
\* the ones its code provides.
THEOREM Implements == Spec => Coalesces
  BY InitMaps, StepMaps, Invariance, PTL DEF Spec, Coalesces, C!Spec
=============================================================================
