------------------------------ MODULE ArtSources ------------------------------
(***************************************************************************)
(* Asking the upstreams for art (ArtFetcher, HttpArtSource and the sources   *)
(* built on it): each fetch walks the sources that can handle its title, and *)
(* each source its URLs.  A source lets Slots requests out at a time, sits    *)
(* out the pauses it is asked for, and tells no art from no answer.          *)
(***************************************************************************)
EXTENDS Naturals, Sequences, FiniteSets

CONSTANTS
    Fetches,            \* calls of TryFetchAsync
    Source,             \* the upstreams
    Walk,               \* the sources that can handle each fetch, in their order
    Embedded,           \* the one that answers by itself: DsiWarePlaceholderArtSource
    Urls,               \* how many URLs each source tries in turn
    Mirrored,           \* those whose next URL is another host: LibRetroArtSource
    Linking,            \* those that may serve a pointer in place of a file
    Slots,              \* MaxConcurrency: 4
    MaxRetries,         \* 2
    MaxRetryAfter,      \* in ticks, 30 s; what is asked beyond it is cut down to it
    RetryDelay          \* TransportRetryDelay

ASSUME SourcesAssumption ==
    /\ IsFiniteSet(Fetches)
    /\ Walk \in [Fetches -> Seq(Source)]
    /\ Urls \in [Source -> Nat \ {0}]
    /\ Embedded \in Source /\ Mirrored \subseteq Source /\ Linking \subseteq Source
    /\ Slots \in Nat \ {0} /\ MaxRetries \in Nat /\ MaxRetryAfter \in Nat /\ RetryDelay \in Nat

VARIABLES
    gate,               \* _gate: the free slots of each source
    cooldown,           \* _cooldownUntilTicks, as the ticks that are left of it
    fetch,              \* each call's locals
    pause,              \* history: what is left of the longest pause each source has asked for
    unaware             \* history: who has looked at a cooldown before it was last asked for

vars == <<gate, cooldown, fetch, pause, unaware>>

Stages == {"idle", "look", "sleep", "gate", "sent", "body", "ended"}
Results == {"none", "hit", "miss", "unavailable", "cancelled"}

\* "then" is where a sleep leads; "down" is anyUnavailable; "heard" is history, the
\* sources that have answered what they were last asked.
Idle == [at |-> "idle", src |-> 1, url |-> 1, attempt |-> 0, followed |-> FALSE, left |-> 0, then |-> "look",
         down |-> FALSE, heard |-> {}, result |-> "none"]

SourceOf(f) == Walk[f][fetch[f].src]
Holds(f) == fetch[f].at \in {"sent", "body"}
Goes(f, locals) == fetch' = [fetch EXCEPT ![f] = locals]
Ended(locals, result) == [Idle EXCEPT !.at = "ended", !.src = locals.src, !.heard = locals.heard, !.result = result]

-----------------------------------------------------------------------------
(* The walk: ArtFetcher over sources, a source over its URLs.               *)

OnUrl(locals, url) == [locals EXCEPT !.at = "look", !.url = url, !.attempt = 0, !.followed = FALSE]

\* The next source, or the end: a miss only if each of them could answer.
NextSource(f, locals) ==
    IF locals.src < Len(Walk[f]) THEN OnUrl([locals EXCEPT !.src = @ + 1], 1)
    ELSE Ended(locals, IF locals.down THEN "unavailable" ELSE "miss")

MoreUrls(f) == fetch[f].url < Urls[SourceOf(f)]

NoArt(f, locals) == IF MoreUrls(f) THEN OnUrl(locals, locals.url + 1) ELSE NextSource(f, locals)

Throws(f, locals) == NextSource(f, [locals EXCEPT !.down = TRUE])

\* Mutant of the next: out of retries, an outage reads as a miss.
NoArtEither(f, locals) == NoArt(f, locals)
\* ArtSourceUnavailableException: the mirror is asked, or the source has failed.
GivesUp(f, locals) ==
    IF SourceOf(f) \in Mirrored /\ MoreUrls(f) THEN OnUrl(locals, locals.url + 1) ELSE Throws(f, locals)

-----------------------------------------------------------------------------
(* TryGetAsync: cooldown, gate, one request, and perhaps again.             *)

Heard(f) == [fetch[f] EXCEPT !.heard = @ \cup {fetch[f].src}]
NotHeard(f) == [fetch[f] EXCEPT !.heard = @ \ {fetch[f].src}]

Sleeping(locals, ticks, stage) == [locals EXCEPT !.at = "sleep", !.left = ticks, !.then = stage]

\* Mutant of the next: an attempt is not counted.
AgainUncounted(locals, ticks) == Sleeping(locals, ticks, "look")
Again(locals, ticks) == Sleeping([locals EXCEPT !.attempt = @ + 1], ticks, "look")

\* Mutant of the next: one attempt more.
SpentLate(f) == fetch[f].attempt > MaxRetries
Spent(f) == fetch[f].attempt >= MaxRetries

Least(a, b) == IF a < b THEN a ELSE b

Begin(f) ==
    /\ fetch[f].at = "idle"
    /\ Goes(f, IF Walk[f] = <<>> THEN Ended(Idle, "miss") ELSE OnUrl(Idle, 1))
    /\ UNCHANGED <<gate, cooldown, pause, unaware>>

\* The embedded cover needs no request.
Embeds(f) ==
    /\ fetch[f].at = "look" /\ SourceOf(f) = Embedded
    /\ Goes(f, Ended(fetch[f], "hit"))
    /\ UNCHANGED <<gate, cooldown, pause, unaware>>

\* WaitOutCooldownAsync, which looks once.
Look(f) ==
    /\ fetch[f].at = "look" /\ SourceOf(f) # Embedded
    /\ IF cooldown[SourceOf(f)] > 0
       THEN Goes(f, Sleeping(fetch[f], Least(cooldown[SourceOf(f)], MaxRetryAfter), "gate"))
       ELSE Goes(f, [fetch[f] EXCEPT !.at = "gate"])
    /\ unaware' = unaware \ {f}
    /\ UNCHANGED <<gate, cooldown, pause>>

Wake(f) ==
    /\ fetch[f].at = "sleep" /\ fetch[f].left = 0
    /\ Goes(f, [fetch[f] EXCEPT !.at = fetch[f].then, !.then = "look"])
    /\ UNCHANGED <<gate, cooldown, pause, unaware>>

Enter(f) ==
    /\ fetch[f].at = "gate" /\ gate[SourceOf(f)] > 0
    /\ gate' = [gate EXCEPT ![SourceOf(f)] = @ - 1]
    /\ Goes(f, [fetch[f] EXCEPT !.at = "sent"])
    /\ UNCHANGED <<cooldown, pause, unaware>>

\* The finally of the request: its slot is free again.
Release(f) == gate' = [gate EXCEPT ![SourceOf(f)] = @ + 1]
Waits == UNCHANGED <<cooldown, pause, unaware>>

\* Not found, gone, or a status nobody expects.
Decline(f) ==
    /\ fetch[f].at = "sent"
    /\ Release(f) /\ Goes(f, NoArt(f, Heard(f))) /\ Waits

Longer(a, b) == IF a < b THEN b ELSE a
\* Mutant of the next: the last pause asked for, though an earlier one runs on.
Rearmed(left, ticks) == ticks
\* BeginCooldown's loop: a cooldown is never cut short.
Armed(left, ticks) == Longer(left, ticks)

PastLook(f) == fetch[f].at = "gate" \/ (fetch[f].at = "sleep" /\ fetch[f].then = "gate")

\* Too many requests: the source cools down, for all who look from now on, and
\* this request sits out its Retry-After, or is out of retries, which is no art.
Throttle(f) ==
    /\ fetch[f].at = "sent"
    /\ \E ticks \in 0 .. MaxRetryAfter :
        /\ cooldown' = [cooldown EXCEPT ![SourceOf(f)] = Armed(@, ticks)]
        /\ pause' = [pause EXCEPT ![SourceOf(f)] = Longer(@, ticks)]
        /\ Goes(f, IF Spent(f) THEN NoArt(f, Heard(f)) ELSE Again(Heard(f), ticks))
    /\ unaware' = unaware \cup {g \in Fetches \ {f} : PastLook(g) /\ SourceOf(g) = SourceOf(f)}
    /\ Release(f)

\* No answer: a connection that fails, or no headers in time.
Fail(f) ==
    /\ fetch[f].at = "sent"
    /\ Goes(f, IF Spent(f) THEN GivesUp(f, NotHeard(f)) ELSE Again(NotHeard(f), RetryDelay))
    /\ Release(f) /\ Waits

\* A 200: the slot is kept while the body comes.
Headers(f) ==
    /\ fetch[f].at = "sent"
    /\ Goes(f, [fetch[f] EXCEPT !.at = "body"])
    /\ UNCHANGED gate /\ Waits

Image(f) ==
    /\ fetch[f].at = "body"
    /\ Release(f) /\ Goes(f, Ended(Heard(f), "hit")) /\ Waits

\* Too long, empty, or a page that is no image.
NoImage(f) ==
    /\ fetch[f].at = "body"
    /\ Release(f) /\ Goes(f, NoArt(f, Heard(f))) /\ Waits

\* A pointer is followed once, at the cost of an attempt.
Link(f) ==
    /\ fetch[f].at = "body" /\ SourceOf(f) \in Linking
    /\ Goes(f, IF fetch[f].followed THEN NoArt(f, Heard(f))
               ELSE [Heard(f) EXCEPT !.at = "look", !.followed = TRUE, !.attempt = @ + 1])
    /\ Release(f) /\ Waits

\* The body breaks off: an exception that is not retried, nor caught before ArtFetcher.
Break(f) ==
    /\ fetch[f].at = "body"
    /\ Release(f) /\ Goes(f, Throws(f, NotHeard(f))) /\ Waits

\* Mutant of the next: a request that is cancelled keeps its slot.
CancelLeaks(f) ==
    /\ fetch[f].at \notin {"idle", "ended"}
    /\ Goes(f, Ended(fetch[f], "cancelled"))
    /\ UNCHANGED gate /\ Waits
\* The caller's token, at any await.
Cancel(f) ==
    /\ fetch[f].at \notin {"idle", "ended"}
    /\ Goes(f, Ended(fetch[f], "cancelled"))
    /\ IF Holds(f) THEN Release(f) ELSE UNCHANGED gate
    /\ Waits

Less(ticks) == IF ticks = 0 THEN 0 ELSE ticks - 1

Tick ==
    /\ \/ \E s \in Source : cooldown[s] > 0
       \/ \E f \in Fetches : fetch[f].left > 0
    /\ cooldown' = [s \in Source |-> Less(cooldown[s])]
    /\ pause' = [s \in Source |-> Less(pause[s])]
    /\ fetch' = [f \in Fetches |-> [fetch[f] EXCEPT !.left = Less(@)]]
    /\ UNCHANGED <<gate, unaware>>

-----------------------------------------------------------------------------
Init ==
    /\ gate = [s \in Source |-> Slots]
    /\ cooldown = [s \in Source |-> 0] /\ pause = [s \in Source |-> 0]
    /\ fetch = [f \in Fetches |-> Idle]
    /\ unaware = {}

\* What a fetch does of itself, what becomes of a request, and of a body.
Own(f) == Look(f) \/ Embeds(f) \/ Wake(f) \/ Enter(f)
Reply(f) == Decline(f) \/ Throttle(f) \/ Fail(f) \/ Headers(f)
Body(f) == Image(f) \/ NoImage(f) \/ Link(f) \/ Break(f)

Next ==
    \/ \E f \in Fetches : Begin(f) \/ Own(f) \/ Reply(f) \/ Body(f) \/ Cancel(f)
    \/ Tick

\* Tasks run, time passes, and a request has its headers or its timeout
\* (RequestTimeout).  A body has no timeout: the headers are all it covers.
Fairness ==
    /\ \A f \in Fetches : WF_vars(Own(f)) /\ WF_vars(Reply(f))
    /\ WF_vars(Tick)

Spec == Init /\ [][Next]_vars
FairSpec == Spec /\ Fairness

-----------------------------------------------------------------------------
(* What the sources promise.                                                *)

Active(f) == fetch[f].at \notin {"idle", "ended"}

Locals == [at : Stages, src : Nat, url : Nat, attempt : 0 .. MaxRetries + 1, followed : BOOLEAN,
           left : Nat, then : {"look", "gate"}, down : BOOLEAN, heard : SUBSET Nat, result : Results]

\* One URL costs one attempt and MaxRetries more, and one beyond those only where
\* a pointer was followed.
TypeOK ==
    /\ gate \in [Source -> 0 .. Slots]
    /\ cooldown \in [Source -> 0 .. MaxRetryAfter] /\ pause \in [Source -> 0 .. MaxRetryAfter]
    /\ unaware \subseteq Fetches
    /\ fetch \in [Fetches -> Locals]
    /\ \A f \in Fetches :
        /\ Active(f) => fetch[f].src \in DOMAIN Walk[f] /\ fetch[f].url \in 1 .. Urls[SourceOf(f)]
        /\ fetch[f].attempt = MaxRetries + 1 => fetch[f].followed

\* Every slot is free or held by one request on its way: none is lost, however
\* requests fail, are cancelled or follow a pointer, and no sleeper holds one
\* (TryGetAsync's finally).
Holders(s) == {f \in Fetches : Holds(f) /\ SourceOf(f) = s}
GateKept == \A s \in Source : gate[s] + Cardinality(Holders(s)) = Slots

\* No request goes to a source during a pause it has asked for, but for those that
\* had looked at the cooldown before it asked (BeginCooldown, WaitOutCooldownAsync).
PausesKept ==
    [][\A f \in Fetches : fetch[f].at = "gate" /\ fetch'[f].at = "sent"
            => pause[SourceOf(f)] = 0 \/ f \in unaware]_vars

\* A miss is every source's own answer, and an outage is some source's silence
\* (FetchStatus): the one holds a title back for hours, the other for minutes.
OutageIsNoMiss ==
    \A f \in Fetches :
        /\ fetch[f].result = "miss" => fetch[f].heard = DOMAIN Walk[f]
        /\ fetch[f].result = "unavailable" => fetch[f].heard # DOMAIN Walk[f]

\* Each fetch ends, if no body stalls for good.
FetchesEnd ==
    (\A f \in Fetches : []<>(fetch[f].at # "body"))
        => \A f \in Fetches : Active(f) ~> fetch[f].at = "ended"

-----------------------------------------------------------------------------
(* What the code's comments say and it does not keep, see the README.       *)

\* A 429 also backs off the requests already queued behind the gate
\* (_cooldownUntilTicks' comment).
QueuedBackOff ==
    [][\A f \in Fetches : fetch[f].at = "gate" /\ fetch'[f].at = "sent" => pause[SourceOf(f)] = 0]_vars

\* A real cover, when one exists, always wins over the embedded one
\* (DsiWarePlaceholderArtSource.Order): that one is given only where each source
\* before it has answered.
EmbeddedIsLast ==
    \A f \in Fetches : fetch[f].result = "hit" /\ SourceOf(f) = Embedded
        => 1 .. fetch[f].src - 1 \subseteq fetch[f].heard
=============================================================================
