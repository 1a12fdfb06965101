---------------------------- MODULE SingleFlight ----------------------------
(***************************************************************************)
(* SingleFlight.RunAsync: a dictionary of lazy tasks.  Each call brings a    *)
(* Lazy of its own and uses whichever the dictionary keeps; reading its      *)
(* Value starts the factory once, whoever reads first; the caller that       *)
(* created it arranges for its removal when the task ends.  A caller waits   *)
(* on its own token, the factory runs on none.                               *)
(***************************************************************************)
CONSTANTS
    Keys, Callers,
    Flights,    \* the Lazy objects, one to a call at most
    None

ASSUME NoneAssumption == None \notin Flights \cup Keys

VARIABLES
    inFlight,   \* the dictionary
    flight,     \* each Lazy: whether it was installed, started, ended, and its key
    attached,   \* the Lazies whose removal is arranged
    call        \* each caller: where it is in RunAsync, the Lazy it uses, whether it created it

vars == <<inFlight, flight, attached, call>>

Stages == {"unused", "lazy", "running", "ended"}
Places == {"value", "attach", "wait"}
Unused == [st |-> "unused", key |-> None]
IdleCall == [pc |-> "out", key |-> None, flight |-> None, created |-> FALSE]

\* Mutant of the next: a Lazy is used again.
AnyFlight == Flights
Fresh == {f \in Flights : flight[f].st = "unused"}

\* GetOrAdd.
Call(c, k) ==
    /\ call[c].pc = "out"
    /\ \E f \in Fresh :
         IF inFlight[k] = None
         THEN /\ inFlight' = [inFlight EXCEPT ![k] = f]
              /\ flight' = [flight EXCEPT ![f] = [st |-> "lazy", key |-> k]]
              /\ call' = [call EXCEPT ![c] = [pc |-> "value", key |-> k, flight |-> f, created |-> TRUE]]
         ELSE /\ call' = [call EXCEPT ![c] = [pc |-> "value", key |-> k, flight |-> inFlight[k], created |-> FALSE]]
              /\ UNCHANGED <<inFlight, flight>>
    /\ UNCHANGED attached

\* lazy.Value: the first to read it starts the factory.
Value(c) ==
    /\ call[c].pc = "value"
    /\ flight' = [flight EXCEPT ![call[c].flight].st = IF @ = "lazy" THEN "running" ELSE @]
    /\ call' = [call EXCEPT ![c].pc = IF call[c].created THEN "attach" ELSE "wait"]
    /\ UNCHANGED <<inFlight, attached>>

\* Mutant of the next: a task that has ended already gets no continuation.
AttachUnlessEnded(c) ==
    /\ call[c].pc = "attach"
    /\ attached' = attached \cup {f \in {call[c].flight} : flight[f].st # "ended"}
    /\ call' = [call EXCEPT ![c].pc = "wait"]
    /\ UNCHANGED <<inFlight, flight>>
\* ContinueWith: at once if the task has ended by now, else when it does.
Attach(c) ==
    /\ call[c].pc = "attach"
    /\ attached' = attached \cup {call[c].flight}
    /\ call' = [call EXCEPT ![c].pc = "wait"]
    /\ UNCHANGED <<inFlight, flight>>

\* Mutant of the next: the factory runs on the token of the caller that created it.
FinishForCreator(f) ==
    /\ flight[f].st = "running"
    /\ \E c \in Callers : call[c].created /\ call[c].flight = f
    /\ flight' = [flight EXCEPT ![f].st = "ended"]
    /\ UNCHANGED <<inFlight, attached, call>>
\* The factory returns or throws.
Finish(f) ==
    /\ flight[f].st = "running"
    /\ flight' = [flight EXCEPT ![f].st = "ended"]
    /\ UNCHANGED <<inFlight, attached, call>>

\* TryRemove of this exact pair.
Remove(f) ==
    /\ f \in attached /\ flight[f].st = "ended"
    /\ inFlight' = [k \in Keys |-> IF k = flight[f].key /\ inFlight[k] = f THEN None ELSE inFlight[k]]
    /\ attached' = attached \ {f}
    /\ UNCHANGED <<flight, call>>

Out(c) == call' = [call EXCEPT ![c] = IdleCall]

Return(c) ==
    /\ call[c].pc = "wait" /\ flight[call[c].flight].st = "ended"
    /\ Out(c)
    /\ UNCHANGED <<inFlight, flight, attached>>

\* Mutant of the next: the entry goes with the wait of the caller that created it.
CancelAndRemove(c) ==
    /\ call[c].pc = "wait"
    /\ Out(c)
    /\ inFlight' = [k \in Keys |-> IF call[c].created /\ inFlight[k] = call[c].flight THEN None ELSE inFlight[k]]
    /\ UNCHANGED <<flight, attached>>
\* The caller's own token fires while it waits.
Cancel(c) ==
    /\ call[c].pc = "wait"
    /\ Out(c)
    /\ UNCHANGED <<inFlight, flight, attached>>

Init ==
    /\ inFlight = [k \in Keys |-> None]
    /\ attached = {}
    /\ flight = [f \in Flights |-> Unused]
    /\ call = [c \in Callers |-> IdleCall]

Step(c) == Value(c) \/ Attach(c) \/ Return(c)

Next ==
    \/ \E c \in Callers : Step(c) \/ Cancel(c) \/ \E k \in Keys : Call(c, k)
    \/ \E f \in Flights : Finish(f) \/ Remove(f)

Spec == Init /\ [][Next]_vars

\* Threads run on, and every factory ends (the fetch by its upstream's timeouts).
FairSpec ==
    /\ Spec
    /\ \A c \in Callers : WF_vars(Step(c))
    /\ \A f \in Flights : WF_vars(Finish(f)) /\ WF_vars(Remove(f))

-----------------------------------------------------------------------------
(* Properties.                                                               *)

\* The variables keep their types, and the dictionary maps a key to a Lazy made
\* for that key and no other.
TypeOK ==
    /\ inFlight \in [Keys -> Flights \cup {None}]
    /\ flight \in [Flights -> {Unused} \cup [st : Stages \ {"unused"}, key : Keys]]
    /\ attached \subseteq Flights
    /\ call \in [Callers -> {IdleCall} \cup [pc : Places, key : Keys, flight : Flights, created : BOOLEAN]]
    /\ \A k \in Keys : inFlight[k] # None => flight[inFlight[k]].key = k

\* Two executions of one key never run at once, whoever cancels when: the
\* stampede SingleFlight is there to prevent.
OneExecution ==
    \A f, g \in Flights :
      flight[f].st = "running" /\ flight[g].st = "running" /\ flight[f].key = flight[g].key => f = g

\* The flights of a key and its callers behave as Coalescing promises.
Ended(f) == flight[f].st = "ended"
runs == [k \in Keys |-> IF inFlight[k] = None THEN "none" ELSE IF Ended(inFlight[k]) THEN "ended" ELSE "running"]
asks == [c \in Callers |->
           [at |-> IF call[c].pc = "out" THEN "out" ELSE IF Ended(call[c].flight) THEN "answered" ELSE "waiting",
            key |-> call[c].key]]
C == INSTANCE Coalescing WITH run <- runs, ask <- asks
Coalesces == C!Spec

\* A call comes back, though the caller that started the work has hung up; and
\* what has ended is forgotten, so the next call starts afresh.
CallsReturn == \A c \in Callers : call[c].pc # "out" ~> call[c].pc = "out"
EndedIsForgotten == \A k \in Keys : (inFlight[k] # None /\ Ended(inFlight[k])) ~> inFlight[k] = None
=============================================================================
