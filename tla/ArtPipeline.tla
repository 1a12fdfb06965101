---------------------------- MODULE ArtPipeline ----------------------------
(***************************************************************************)
(* One art request, from the title's record to the bytes: EnsureOriginal,   *)
(* the fetch it may share, the render it may share, and the one refetch     *)
(* when the original has gone from disk.  Requests, evictions, identify     *)
(* calls, index rebuilds and the clock interleave at every await.           *)
(*                                                                         *)
(* A record's save is one step here, and the disk cache is what is on disk: *)
(* ArtRecordStore's and CacheIndex's own steps are their modules' matter,   *)
(* but a write of either may throw, as CacheIndex shows it can.             *)
(***************************************************************************)
EXTENDS Naturals, FiniteSets

CONSTANTS
    Titles,         \* art keys (console and key)
    SerialTitles,   \* the titles whose key is a serial, not a name digest
    Names,          \* names a cover may be filed under upstream
    Filed,          \* per title, the names its cover is filed under
    Shas,           \* upstream bytes, by hash
    Covers,         \* per title, the hashes upstream may answer with
    Broken,         \* the hashes whose bytes do not decode
    Options,        \* render options
    Requests,       \* requests in progress at one time
    None,           \* no name, no hash, no record, no one
    NegativeCacheDuration, TransientFailureBackoff,
    MaxClock, MaxEvictions, MaxOutages, MaxRebuilds, MaxFaults, MaxArrivals   \* bounds of a model

ASSUME DataAssumption ==
    /\ SerialTitles \subseteq Titles /\ Broken \subseteq Shas
    /\ Filed \in [Titles -> SUBSET Names] /\ Covers \in [Titles -> SUBSET Shas]
    /\ Titles \cap Requests = {}
    /\ None \notin Names \cup Shas \cup Requests
    /\ NegativeCacheDuration \in Nat /\ TransientFailureBackoff \in Nat
    /\ MaxClock \in Nat \ {0}

\* What a request or a record knows of a title's names: the canonical one, or
\* not, and the one its cover is filed under.
Identity == [canon : BOOLEAN, art : Names \cup {None}]
Unknown == [canon |-> FALSE, art |-> None]

\* An ArtRecord; a title nobody has a row for has the empty one.
Record == [sha : Shas \cup {None}, missUntil : Nat, id : Identity]
EmptyRecord == [sha |-> None, missUntil |-> 0, id |-> Unknown]

Renders == Titles \X Shas \X Options

VARIABLES
    clock,
    record,         \* the ArtRecords table
    originals, renders,     \* what the two layers have on disk
    index,          \* the art name the generated index gives a title
    req,            \* each request's locals
    fetch,          \* the fetch flight of each title
    draw,           \* the render flight of each render path
    spent,
    asked,          \* history: the names upstream has been asked for, per title
    missed,         \* history: the last identity that missed, and until when that holds
    disturbed       \* history: the requests and the titles' fetches during which an original left
                    \* the disk, and the requests that share a fetch they did not start

envVars == <<clock, index, spent>>
diskVars == <<originals, renders>>
histVars == <<asked, missed, disturbed>>
vars == <<envVars, record, diskVars, req, fetch, draw, histVars>>

IdleRequest == [pc |-> "idle", title |-> None, opts |-> None, id |-> Unknown, pass |-> 0,
                rec |-> EmptyRecord, bytes |-> FALSE, gone |-> FALSE, why |-> "none"]
NoMiss == [id |-> Unknown, until |-> 0]
NoFetch == [st |-> "none", id |-> Unknown, known |-> Unknown, sha |-> None, backoff |-> 0, result |-> EmptyRecord]
NoDraw == [st |-> "none", creator |-> None, bytes |-> FALSE, gone |-> FALSE]

-----------------------------------------------------------------------------
MissLive(rec) == rec.missUntil > clock

KnowsMore(id, rec) ==
    \/ id.canon /\ ~rec.id.canon
    \/ id.art # None /\ id.art # rec.id.art

\* Whether a title's miss is to be believed without asking upstream again.
HeldBack(id, rec) == MissLive(rec) /\ ~KnowsMore(id, rec)

\* BuildIdentity: the caller's art name before the record's, and the index by
\* serial for what neither knows.
BuildIdentity(t, rec, id) ==
    LET canon == rec.id.canon \/ id.canon
        art == IF id.art # None THEN id.art ELSE rec.id.art
        bySerial == t \in SerialTitles /\ index[t] # None
    IN  [canon |-> canon \/ bySerial,
         art |-> IF art = None /\ bySerial THEN index[t] ELSE art]

\* A name-addressed cover is found under its name, a serial title's under its key.
Findable(t, id) == Covers[t] # {} /\ (t \in SerialTitles \/ id.art \in Filed[t])

-----------------------------------------------------------------------------
(* The request.                                                              *)

Goto(r, pc) == req' = [req EXCEPT ![r].pc = pc]
AnswerNull(r, why) == req' = [req EXCEPT ![r] =
    [IdleRequest EXCEPT !.pc = "null", !.why = why, !.title = req[r].title, !.id = req[r].id]]
AnswerArt(r) == req' = [req EXCEPT ![r] = [IdleRequest EXCEPT !.pc = "served"]]

\* By key alone, or with the identity the index gives the title now.
Arrive(r, t, o, known) ==
    /\ req[r].pc = "idle" /\ spent.arrivals < MaxArrivals
    /\ spent' = [spent EXCEPT !.arrivals = @ + 1]
    /\ req' = [req EXCEPT ![r] = [IdleRequest EXCEPT
                 !.pc = "look", !.title = t, !.opts = o, !.pass = 1,
                 !.id = IF known THEN [canon |-> TRUE, art |-> index[t]] ELSE Unknown]]
    /\ disturbed' = IF t \in disturbed THEN disturbed \cup {r} ELSE disturbed \ {r}
    /\ UNCHANGED <<clock, index, record, diskVars, fetch, draw, asked, missed>>

\* EnsureOriginalAsync up to the shared part.
LookUp(r) ==
    /\ req[r].pc = "look"
    /\ LET rec == record[req[r].title] IN
       IF rec.sha # None THEN req' = [req EXCEPT ![r].pc = "read", ![r].rec = rec]
       ELSE IF HeldBack(req[r].id, rec) THEN AnswerNull(r, "backoff")
       ELSE Goto(r, "join")
    /\ UNCHANGED <<envVars, record, diskVars, fetch, draw, histVars>>

\* A flight still registered is joined, its work done or not.
JoinFetch(r) ==
    /\ req[r].pc = "join"
    /\ LET t == req[r].title IN
       CASE fetch[t].st = "none" ->
              /\ fetch' = [fetch EXCEPT ![t] = [NoFetch EXCEPT !.st = "check", !.id = req[r].id]]
              /\ Goto(r, "fetching")
         [] fetch[t].st = "done" ->
              /\ req' = [req EXCEPT ![r].pc = "fetched", ![r].rec = fetch[t].result]
              /\ UNCHANGED fetch
         [] fetch[t].st = "faulted" -> Goto(r, "error") /\ UNCHANGED fetch
         [] OTHER -> Goto(r, "fetching") /\ UNCHANGED fetch
    /\ disturbed' = IF fetch[req[r].title].st = "none" THEN disturbed ELSE disturbed \cup {r}
    /\ UNCHANGED <<envVars, record, diskVars, draw, asked, missed>>

Fetched(r) ==
    /\ req[r].pc = "fetched"
    /\ IF req[r].rec.sha = None THEN AnswerNull(r, "upstream") ELSE Goto(r, "read")
    /\ UNCHANGED <<envVars, record, diskVars, fetch, draw, histVars>>

Path(r) == <<req[r].title, req[r].rec.sha, req[r].opts>>

ReadRender(r) ==
    /\ req[r].pc = "read"
    /\ IF Path(r) \in renders THEN AnswerArt(r) ELSE Goto(r, "joinDraw")
    /\ UNCHANGED <<envVars, record, diskVars, fetch, draw, histVars>>

\* originalMissing is a local of the caller that created the flight: whoever
\* joins it keeps a FALSE of their own.
GoneFor(r, d) == d.creator = r /\ d.gone

JoinDraw(r) ==
    /\ req[r].pc = "joinDraw"
    /\ LET p == Path(r) IN
       CASE draw[p].st = "none" ->
              /\ draw' = [draw EXCEPT ![p] = [NoDraw EXCEPT !.st = "check", !.creator = r]]
              /\ Goto(r, "drawing")
         [] draw[p].st = "done" ->
              /\ req' = [req EXCEPT ![r].pc = "drawn", ![r].bytes = draw[p].bytes, ![r].gone = FALSE]
              /\ UNCHANGED draw
         [] draw[p].st = "faulted" -> Goto(r, "error") /\ UNCHANGED draw
         [] OTHER -> Goto(r, "drawing") /\ UNCHANGED draw
    /\ UNCHANGED <<envVars, record, diskVars, fetch, histVars>>

Drawn(r) ==
    /\ req[r].pc = "drawn"
    /\ IF req[r].gone /\ req[r].pass = 1
       THEN req' = [req EXCEPT ![r].pc = "look", ![r].pass = 2, ![r].gone = FALSE]
       ELSE IF req[r].bytes THEN AnswerArt(r)
       ELSE AnswerNull(r, IF req[r].gone THEN "goneAgain"
                          ELSE IF req[r].rec.sha \in Broken THEN "undecodable" ELSE "joined")
    /\ UNCHANGED <<envVars, record, diskVars, fetch, draw, histVars>>

\* The response is sent, or the caller hangs up at some await: either way the
\* flights it started go on.
Leave(r) ==
    /\ req[r].pc # "idle"
    /\ req' = [req EXCEPT ![r] = IdleRequest]
    /\ draw' = [p \in Renders |-> IF draw[p].creator = r THEN [draw[p] EXCEPT !.creator = None] ELSE draw[p]]
    /\ disturbed' = disturbed \ {r}
    /\ UNCHANGED <<envVars, record, diskVars, fetch, asked, missed>>

-----------------------------------------------------------------------------
(* The fetch flight of a title.                                              *)

\* Mutant of the next: the result goes to one caller alone.
FirstAwaiting(t) ==
    LET all == {r \in Requests : req[r].pc = "fetching" /\ req[r].title = t}
    IN  IF all = {} THEN {} ELSE {CHOOSE r \in all : TRUE}
AwaitingFetch(t) == {r \in Requests : req[r].pc = "fetching" /\ req[r].title = t}

FetchDone(t, result) ==
    /\ fetch' = [fetch EXCEPT ![t] = [NoFetch EXCEPT !.st = "done", !.result = result]]
    /\ req' = [r \in Requests |-> IF r \in AwaitingFetch(t)
                                  THEN [req[r] EXCEPT !.pc = "fetched", !.rec = result] ELSE req[r]]

\* Mutant of the next: the flight trusts what its creator saw before it.
CheckNothing(t) ==
    /\ fetch[t].st = "check"
    /\ fetch' = [fetch EXCEPT ![t].st = "ask", ![t].known = BuildIdentity(t, record[t], fetch[t].id)]
    /\ UNCHANGED <<envVars, record, diskVars, req, draw, histVars>>

CheckRecord(t) ==
    /\ fetch[t].st = "check"
    /\ LET rec == record[t] IN
       IF rec.sha # None THEN FetchDone(t, rec)
       ELSE IF HeldBack(fetch[t].id, rec) THEN FetchDone(t, EmptyRecord)
       ELSE /\ fetch' = [fetch EXCEPT ![t].st = "ask", ![t].known = BuildIdentity(t, rec, fetch[t].id)]
            /\ UNCHANGED req
    /\ UNCHANGED <<envVars, record, diskVars, draw, histVars>>

\* TryFetchAsync: a hit, a miss, or an upstream that could not be reached.
AskUpstream(t) ==
    /\ fetch[t].st = "ask"
    /\ asked' = [asked EXCEPT ![t] = @ \cup {fetch[t].known.art}]
    /\ \/ /\ Findable(t, fetch[t].known)
          /\ \E s \in Covers[t] : fetch' = [fetch EXCEPT ![t].st = "store", ![t].sha = s]
          /\ UNCHANGED spent
       \/ /\ ~Findable(t, fetch[t].known)
          /\ fetch' = [fetch EXCEPT ![t].st = "miss", ![t].backoff = NegativeCacheDuration]
          /\ UNCHANGED spent
       \/ /\ spent.outages < MaxOutages
          /\ fetch' = [fetch EXCEPT ![t].st = "miss", ![t].backoff = TransientFailureBackoff]
          /\ spent' = [spent EXCEPT !.outages = @ + 1]
    /\ UNCHANGED <<clock, index, record, diskVars, req, draw, missed, disturbed>>

\* Mutant of the next: the art name is coalesced like the rest.
LearnedCoalesced(rec, known) ==
    [canon |-> rec.id.canon \/ known.canon, art |-> IF rec.id.art = None THEN known.art ELSE rec.id.art]
\* What the attempt knew is kept: the canonical name if there was none, the art
\* name whenever it had one.
Learned(rec, known) ==
    [canon |-> rec.id.canon \/ known.canon, art |-> IF known.art = None THEN rec.id.art ELSE known.art]

RecordMiss(t) ==
    /\ fetch[t].st = "miss"
    /\ LET until == clock + fetch[t].backoff IN
       /\ record' = [record EXCEPT ![t].missUntil = until, ![t].id = Learned(record[t], fetch[t].known)]
       /\ missed' = [missed EXCEPT ![t] = [id |-> fetch[t].known, until |-> until]]
    /\ FetchDone(t, EmptyRecord)
    /\ UNCHANGED <<envVars, diskVars, draw, asked, disturbed>>

\* The faulted task is removed like any other; whoever waits for it throws.
FetchFaults(t) ==
    /\ fetch[t].st \in {"store", "point", "miss"} /\ spent.faults < MaxFaults
    /\ spent' = [spent EXCEPT !.faults = @ + 1]
    /\ originals' \in {originals} \cup (IF fetch[t].st = "store" THEN {originals \cup {fetch[t].sha}} ELSE {})
    /\ fetch' = [fetch EXCEPT ![t] = [NoFetch EXCEPT !.st = "faulted"]]
    /\ req' = [r \in Requests |-> IF r \in AwaitingFetch(t) THEN [req[r] EXCEPT !.pc = "error"] ELSE req[r]]
    /\ UNCHANGED <<clock, index, record, renders, draw, histVars>>

StoreOriginal(t) ==
    /\ fetch[t].st = "store"
    /\ originals' = originals \cup {fetch[t].sha}
    /\ fetch' = [fetch EXCEPT ![t].st = "point"]
    /\ UNCHANGED <<envVars, record, renders, req, draw, histVars>>

RecordHit(t) ==
    /\ fetch[t].st = "point"
    /\ LET rec == [sha |-> fetch[t].sha, missUntil |-> 0, id |-> Learned(record[t], fetch[t].known)] IN
       /\ record' = [record EXCEPT ![t] = rec]
       /\ FetchDone(t, rec)
    /\ missed' = [missed EXCEPT ![t] = NoMiss]
    /\ UNCHANGED <<envVars, diskVars, draw, asked, disturbed>>

EndFetch(t) ==
    /\ fetch[t].st \in {"done", "faulted"}
    /\ fetch' = [fetch EXCEPT ![t] = NoFetch]
    /\ disturbed' = disturbed \ {t}
    /\ UNCHANGED <<envVars, record, diskVars, req, draw, asked, missed>>

-----------------------------------------------------------------------------
(* The render flight of a path.                                              *)

AwaitingDraw(p) == {r \in Requests : req[r].pc = "drawing" /\ Path(r) = p}

DrawDone(p, bytes, gone) ==
    LET d == [draw[p] EXCEPT !.st = "done", !.bytes = bytes, !.gone = gone] IN
    /\ draw' = [draw EXCEPT ![p] = d]
    /\ req' = [r \in Requests |-> IF r \in AwaitingDraw(p)
         THEN [req[r] EXCEPT !.pc = "drawn", !.bytes = bytes, !.gone = GoneFor(r, d)] ELSE req[r]]

CheckRender(p) ==
    /\ draw[p].st = "check"
    /\ IF p \in renders THEN DrawDone(p, TRUE, FALSE)
       ELSE draw' = [draw EXCEPT ![p].st = "original"] /\ UNCHANGED req
    /\ UNCHANGED <<envVars, record, diskVars, fetch, histVars>>

ReadOriginal(p) ==
    /\ draw[p].st = "original"
    /\ CASE p[2] \notin originals -> draw' = [draw EXCEPT ![p].st = "drop"] /\ UNCHANGED req
         [] p[2] \in originals \cap Broken -> DrawDone(p, FALSE, FALSE)
         [] OTHER -> draw' = [draw EXCEPT ![p].st = "write"] /\ UNCHANGED req
    /\ UNCHANGED <<envVars, record, diskVars, fetch, histVars>>

\* Mutant of the next: the pointer is left for the refetch to find again.
DroppedMissOnly(rec) == [rec EXCEPT !.missUntil = 0]
\* The record loses its pointer, whatever it points at by now, and its back-off.
Dropped(rec) == [rec EXCEPT !.sha = None, !.missUntil = 0]

DropPointer(p) ==
    /\ draw[p].st = "drop"
    /\ record' = [record EXCEPT ![p[1]] = Dropped(@)]
    /\ DrawDone(p, FALSE, TRUE)
    /\ missed' = [missed EXCEPT ![p[1]] = NoMiss]
    /\ UNCHANGED <<envVars, diskVars, fetch, asked, disturbed>>

WriteRender(p) ==
    /\ draw[p].st = "write"
    /\ renders' = renders \cup {p}
    /\ DrawDone(p, TRUE, FALSE)
    /\ UNCHANGED <<envVars, record, originals, fetch, histVars>>

DrawFaults(p) ==
    /\ draw[p].st \in {"drop", "write"} /\ spent.faults < MaxFaults
    /\ spent' = [spent EXCEPT !.faults = @ + 1]
    /\ renders' \in {renders} \cup (IF draw[p].st = "write" THEN {renders \cup {p}} ELSE {})
    /\ draw' = [draw EXCEPT ![p].st = "faulted"]
    /\ req' = [r \in Requests |-> IF r \in AwaitingDraw(p) THEN [req[r] EXCEPT !.pc = "error"] ELSE req[r]]
    /\ UNCHANGED <<clock, index, record, originals, fetch, histVars>>

EndDraw(p) ==
    /\ draw[p].st \in {"done", "faulted"}
    /\ draw' = [draw EXCEPT ![p] = NoDraw]
    /\ UNCHANGED <<envVars, record, diskVars, req, fetch, histVars>>

-----------------------------------------------------------------------------
(* Around the requests.                                                      *)

EvictOriginal(s) ==
    /\ s \in originals /\ spent.evictions < MaxEvictions
    /\ originals' = originals \ {s}
    /\ spent' = [spent EXCEPT !.evictions = @ + 1]
    /\ disturbed' = disturbed \cup {r \in Requests : req[r].pc # "idle"}
                                \cup {t \in Titles : fetch[t].st # "none"}
    /\ UNCHANGED <<clock, index, record, renders, req, fetch, draw, asked, missed>>

EvictRender(p) ==
    /\ p \in renders /\ spent.evictions < MaxEvictions
    /\ renders' = renders \ {p}
    /\ spent' = [spent EXCEPT !.evictions = @ + 1]
    /\ UNCHANGED <<clock, index, record, originals, req, fetch, draw, histVars>>

\* RememberIdentityAsync with what the index gives the title now: a new art name
\* is assigned and clears the back-off earned under the old one.
Remember(t) ==
    /\ IF index[t] \in {None, record[t].id.art}
       THEN record' = [record EXCEPT ![t].id.canon = TRUE] /\ UNCHANGED missed
       ELSE /\ record' = [record EXCEPT ![t].id = [canon |-> TRUE, art |-> index[t]], ![t].missUntil = 0]
            /\ missed' = [missed EXCEPT ![t] = NoMiss]
    /\ UNCHANGED <<envVars, diskVars, req, fetch, draw, asked, disturbed>>

Rebuild(t, n) ==
    /\ n # index[t] /\ spent.rebuilds < MaxRebuilds
    /\ index' = [index EXCEPT ![t] = n]
    /\ spent' = [spent EXCEPT !.rebuilds = @ + 1]
    /\ UNCHANGED <<clock, record, diskVars, req, fetch, draw, histVars>>

Tick ==
    /\ clock < MaxClock
    /\ clock' = clock + 1
    /\ UNCHANGED <<index, spent, record, diskVars, req, fetch, draw, histVars>>

\* The server starts with the pointers and the originals an earlier run left,
\* some of which were evicted since.
Init ==
    /\ clock = 1
    /\ \E sha \in [Titles -> Shas \cup {None}] :
         /\ \A t \in Titles : sha[t] \in Covers[t] \cup {None}
         /\ record = [t \in Titles |-> [EmptyRecord EXCEPT !.sha = sha[t]]]
    /\ originals \in SUBSET Shas /\ renders = {}
    /\ index \in [Titles -> Names \cup {None}]
    /\ req = [r \in Requests |-> IdleRequest]
    /\ fetch = [t \in Titles |-> NoFetch]
    /\ draw = [p \in Renders |-> NoDraw]
    /\ spent = [arrivals |-> 0, evictions |-> 0, outages |-> 0, rebuilds |-> 0, faults |-> 0]
    /\ asked = [t \in Titles |-> {}]
    /\ missed = [t \in Titles |-> NoMiss]
    /\ disturbed = {}

Serve(r) == LookUp(r) \/ JoinFetch(r) \/ Fetched(r) \/ ReadRender(r) \/ JoinDraw(r) \/ Drawn(r)
Fetch(t) == CheckRecord(t) \/ AskUpstream(t) \/ RecordMiss(t) \/ StoreOriginal(t) \/ RecordHit(t) \/ EndFetch(t)
            \/ FetchFaults(t)
Draw(p) == CheckRender(p) \/ ReadOriginal(p) \/ DropPointer(p) \/ WriteRender(p) \/ EndDraw(p)
           \/ DrawFaults(p)

Next ==
    \/ \E r \in Requests :
         \/ Serve(r) \/ Leave(r)
         \/ \E t \in Titles, o \in Options, known \in BOOLEAN : Arrive(r, t, o, known)
    \/ \E t \in Titles : Fetch(t) \/ Remember(t) \/ \E n \in Names : Rebuild(t, n)
    \/ \E p \in Renders : Draw(p) \/ EvictRender(p)
    \/ \E s \in Shas : EvictOriginal(s)
    \/ Tick

Spec == Init /\ [][Next]_vars

\* A thread pool runs what was started: each request goes on, each flight ends.
FairSpec ==
    /\ Spec
    /\ \A r \in Requests : WF_vars(Serve(r))
    /\ \A t \in Titles : WF_vars(Fetch(t))
    /\ \A p \in Renders : WF_vars(Draw(p))

-----------------------------------------------------------------------------
(* Properties.                                                               *)

RequestPcs == {"idle", "look", "join", "fetching", "fetched", "read", "joinDraw", "drawing", "drawn",
               "served", "null", "error"}

\* Every variable keeps its type, and whoever waits for a flight waits for one
\* that is running: no caller is left behind when the shared task ends.
TypeOK ==
    /\ clock \in 1..MaxClock
    /\ record \in [Titles -> Record]
    /\ originals \subseteq Shas /\ renders \subseteq Renders
    /\ index \in [Titles -> Names \cup {None}]
    /\ \A r \in Requests :
         /\ req[r].pc \in RequestPcs /\ req[r].pass \in 0..2 /\ req[r].rec \in Record
         /\ req[r].pc = "fetching" => fetch[req[r].title].st \in {"check", "ask", "miss", "store", "point"}
         /\ req[r].pc = "drawing" => draw[Path(r)].st \in {"check", "original", "drop", "write"}
    /\ \A t \in Titles : fetch[t].st \in {"none", "check", "ask", "miss", "store", "point", "done", "faulted"}
    /\ \A p \in Renders : draw[p].st \in {"none", "check", "original", "drop", "write", "done", "faulted"}

\* A title that has art is not fetched again: whatever the requests that looked
\* before the art came go on to do, the flight finds the record first
\* (EnsureOriginalAsync's second look).
FetchesOnlyMissing ==
    \A t \in Titles : fetch[t].st \in {"ask", "miss", "store", "point"} => record[t].sha = None

\* "A given record can bypass its backoff once per change, not once per
\* request": upstream is not asked twice running with the same identity while
\* the miss holds, unless in between identify taught the record a new name or a
\* request dropped the record's pointer.
BackoffHonoured ==
    [][\A t \in Titles :
         fetch[t].st = "ask" /\ fetch'[t].st # "ask"
         => missed[t].id # fetch[t].known \/ missed[t].until <= clock]_vars

\* A request whose original had gone refetches it and is answered from the new
\* one, whatever other requests draw, drop and fetch around it: it gives up over a
\* missing original only if yet another went while it (or a fetch under way when
\* it came) ran, or if it took the answer of a fetch begun before the pointer was
\* dropped, which may be the dropped pointer itself.
RefetchSticks ==
    \A r \in Requests : req[r].pc = "null" /\ req[r].why = "goneAgain" => r \in disturbed

\* Every request is answered, though flights fail and callers hang up.
EveryRequestAnswered ==
    \A r \in Requests : req[r].pc # "idle" ~> req[r].pc \in {"served", "null", "error", "idle"}

\* What the code's comments say and it does not keep.

\* A request that found its original gone is not answered with a miss: the
\* pointer is cleared and the art refetched inline (TryGetAsync's comment).
GoneIsRefetched ==
    \A r \in Requests : req[r].pc = "null" => req[r].why # "joined"

\* A request that brings the art's name is not refused by the back-off of a miss
\* that never asked under it (ResolvedKnowsMore's comment).
BlindMissNotBelieved ==
    \A r \in Requests : req[r].pc = "null" /\ req[r].why = "backoff" /\ req[r].id.art # None
                          => req[r].id.art \in asked[req[r].title]

\* Only a pointer to an original that is gone is dropped (RenderAsync's comment).
DropsOnlyDead ==
    [][\A t \in Titles : record[t].sha # None /\ record'[t].sha = None => record[t].sha \notin originals]_vars
=============================================================================
