----------------------------- MODULE Coalescing -----------------------------
(***************************************************************************)
(* What SingleFlight promises its callers: the work of a key runs at most   *)
(* once at a time, everyone who asks meanwhile is answered by that run, and  *)
(* who stops waiting stops nobody else's.  A run that has ended answers one  *)
(* who asks until it is forgotten.  ArtPipeline's flights are of this shape. *)
(***************************************************************************)
CONSTANTS Keys, Callers, None

VARIABLES
    run,    \* for each key: no run, one in progress, or one that ended
    ask     \* for each caller: what it asked for and how that stands

Idle == [at |-> "out", key |-> None]

\* Asking starts a run if there is none to share.
Ask(c, k) ==
    /\ ask[c].at = "out"
    /\ run' = [run EXCEPT ![k] = IF @ = "none" THEN "running" ELSE @]
    /\ ask' = [ask EXCEPT ![c] = [at |-> IF run[k] = "ended" THEN "answered" ELSE "waiting", key |-> k]]

End(k) ==
    /\ run[k] = "running"
    /\ run' = [run EXCEPT ![k] = "ended"]
    /\ ask' = [c \in Callers |-> IF ask[c] = [at |-> "waiting", key |-> k]
                                 THEN [at |-> "answered", key |-> k] ELSE ask[c]]

Forget(k) ==
    /\ run[k] = "ended"
    /\ run' = [run EXCEPT ![k] = "none"]
    /\ UNCHANGED ask

\* Back with the answer, or without it: the run goes on.
Leave(c) ==
    /\ ask[c].at # "out"
    /\ ask' = [ask EXCEPT ![c] = Idle]
    /\ UNCHANGED run

Init ==
    /\ run = [k \in Keys |-> "none"]
    /\ ask = [c \in Callers |-> Idle]

Next ==
    \/ \E c \in Callers : Leave(c) \/ \E k \in Keys : Ask(c, k)
    \/ \E k \in Keys : End(k) \/ Forget(k)

Spec == Init /\ [][Next]_<<run, ask>>
=============================================================================
