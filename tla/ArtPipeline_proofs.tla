------------------------- MODULE ArtPipeline_proofs -------------------------
(***************************************************************************)
(* Proofs about ArtPipeline, for any titles, names, hashes and requests and *)
(* any bounds: nobody waits for a flight that is not running, a title that  *)
(* has art is not fetched again, the back-off is honoured, and one inline   *)
(* refetch is enough.                                                       *)
(***************************************************************************)
EXTENDS ArtPipeline, TLAPS

FetchRunning == {"check", "ask", "miss", "store", "point"}
DrawRunning == {"check", "original", "drop", "write"}
Whys == {"none", "backoff", "upstream", "goneAgain", "undecodable", "joined"}

RequestState == [pc : RequestPcs, title : Titles \cup {None}, opts : Options \cup {None}, id : Identity,
                 pass : {0, 1, 2}, rec : Record, bytes : BOOLEAN, gone : BOOLEAN, why : Whys]
FetchState == [st : FetchRunning \cup {"none", "done", "faulted"}, id : Identity, known : Identity,
               sha : Shas \cup {None}, backoff : Nat, result : Record]
DrawState == [st : DrawRunning \cup {"none", "done", "faulted"}, creator : Requests \cup {None},
              bytes : BOOLEAN, gone : BOOLEAN]

\* The inductive invariant, in parts.

WorldOK ==
    /\ clock \in 1..MaxClock
    /\ originals \subseteq Shas /\ renders \subseteq Renders
    /\ index \in [Titles -> Names \cup {None}]

RecordsOK == record \in [Titles -> Record]

\* A fetch that has upstream's bytes has their hash.
FetchOK(f) == f.st \in {"store", "point"} => f.sha \in Shas
FetchesOK == fetch \in [Titles -> FetchState] /\ \A t \in Titles : FetchOK(fetch[t])
DrawsOK == draw \in [Renders -> DrawState]

\* A request at work has a title and options; one past the lookup has a pointer,
\* which is what makes Path(r) the path of a render.
RequestOK(q) ==
    /\ q \in RequestState
    /\ q.pc \notin {"idle", "served", "null", "error"} => q.title \in Titles /\ q.opts \in Options
    /\ q.pc \in {"read", "joinDraw", "drawing", "drawn"} => q.rec.sha \in Shas
RequestsOK ==
    /\ DOMAIN req = Requests /\ req = [r \in Requests |-> req[r]]
    /\ \A r \in Requests : RequestOK(req[r])

\* Whoever waits, waits for a flight that is running.
FetchersWait == \A r \in Requests : req[r].pc = "fetching" => fetch[req[r].title].st \in FetchRunning
DrawersWait == \A r \in Requests : req[r].pc = "drawing" => draw[Path(r)].st \in DrawRunning

IInv ==
    /\ WorldOK /\ RecordsOK /\ FetchesOK /\ DrawsOK /\ RequestsOK
    /\ FetchersWait /\ DrawersWait
    /\ FetchesOnlyMissing

-----------------------------------------------------------------------------
(* Values.                                                                   *)

LEMMA Values ==
    /\ Unknown \in Identity /\ EmptyRecord \in Record /\ EmptyRecord.sha = None
    /\ RequestOK(IdleRequest) /\ IdleRequest.pc = "idle"
    /\ NoFetch \in FetchState /\ NoFetch.st = "none"
    /\ NoDraw \in DrawState /\ NoDraw.st = "none"
<1>1. Unknown \in Identity
  BY DEF Unknown, Identity
<1>2. EmptyRecord \in Record /\ EmptyRecord.sha = None
  BY <1>1 DEF EmptyRecord, Record
<1>3. RequestOK(IdleRequest) /\ IdleRequest.pc = "idle"
  BY <1>1, <1>2 DEF IdleRequest, RequestOK, RequestState, RequestPcs, Whys
<1>4. NoFetch \in FetchState /\ NoFetch.st = "none"
  BY <1>1, <1>2 DEF NoFetch, FetchState
<1>5. NoDraw \in DrawState /\ NoDraw.st = "none"
  BY DEF NoDraw, DrawState
<1>6. QED
  BY <1>1, <1>2, <1>3, <1>4, <1>5

\* What a request at work draws is a render.
LEMMA PathIsRender ==
  ASSUME RequestsOK, NEW r \in Requests, req[r].pc \in {"read", "joinDraw", "drawing", "drawn"}
  PROVE  Path(r) \in Renders
  BY DEF RequestsOK, RequestOK, Path, Renders

\* The identity a fetch asks with is one, and so is what a record learns of it.
LEMMA IdentityTypes ==
  ASSUME WorldOK, NEW t \in Titles, NEW rec \in Record, NEW id \in Identity
  PROVE  BuildIdentity(t, rec, id) \in Identity /\ Learned(rec, id) \in Identity
<1>1. rec.id \in Identity
  BY DEF Record
<1>2. Learned(rec, id) \in Identity
  BY <1>1 DEF Learned, Identity
<1>3. BuildIdentity(t, rec, id) \in Identity
  BY <1>1 DEF BuildIdentity, Identity, WorldOK
<1>4. QED
  BY <1>2, <1>3

-----------------------------------------------------------------------------
(* The three shapes a step has: one request goes on, a fetch goes on, a      *)
(* flight ends and takes those who wait for it along.                        *)

LEMMA RequestGoesOn ==
  ASSUME IInv, NEW r \in Requests, NEW q, RequestOK(q), q.pc \notin {"fetching", "drawing"},
         req' = [req EXCEPT ![r] = q],
         UNCHANGED <<clock, index, record, diskVars, fetch, draw>>
  PROVE  IInv'
<1>1. req'[r] = q /\ \A o \in Requests \ {r} : req'[o] = req[o]
  BY DEF IInv, RequestsOK
<1>2. RequestsOK'
  BY <1>1 DEF IInv, RequestsOK
<1>3. FetchersWait'
  BY <1>1 DEF IInv, FetchersWait
<1>4. DrawersWait'
  BY <1>1 DEF IInv, DrawersWait, Path
<1>5. QED
  BY <1>2, <1>3, <1>4 DEF IInv, WorldOK, RecordsOK, FetchesOK, DrawsOK, FetchesOnlyMissing, diskVars

LEMMA FetchGoesOn ==
  ASSUME IInv, NEW t \in Titles, NEW f \in FetchState, FetchOK(f), f.st \in FetchRunning,
         f.st = "check" \/ record[t].sha = None,
         fetch' = [fetch EXCEPT ![t] = f],
         WorldOK', UNCHANGED <<record, req, draw>>
  PROVE  IInv'
<1>1. FetchesOK' /\ \A u \in Titles : fetch'[u] = IF u = t THEN f ELSE fetch[u]
  BY DEF IInv, FetchesOK, FetchOK, FetchRunning
<1>2. FetchesOnlyMissing'
  BY <1>1 DEF IInv, FetchesOnlyMissing, FetchRunning
<1>3. FetchersWait'
  BY <1>1 DEF IInv, FetchersWait, RequestsOK, RequestOK
<1>4. DrawersWait'
  BY DEF IInv, DrawersWait, Path
<1>5. QED
  BY <1>1, <1>2, <1>3, <1>4 DEF IInv, RecordsOK, DrawsOK, RequestsOK

\* The requests of W, all that wait for the flight, go on; the others are as they were.
Woken(W) ==
    /\ req' = [r \in Requests |-> req'[r]]
    /\ \A r \in W : RequestOK(req'[r]) /\ req'[r].pc \notin {"fetching", "drawing"}
    /\ \A r \in Requests \ W : req'[r] = req[r]

LEMMA FetchEnds ==
  ASSUME IInv, NEW t \in Titles, NEW f \in FetchState, f.st \notin FetchRunning,
         fetch' = [fetch EXCEPT ![t] = f], Woken(AwaitingFetch(t)),
         WorldOK', RecordsOK', \A u \in Titles \ {t} : record'[u] = record[u], UNCHANGED draw
  PROVE  IInv'
<1>1. FetchesOK' /\ \A u \in Titles : fetch'[u] = IF u = t THEN f ELSE fetch[u]
  BY DEF IInv, FetchesOK, FetchOK, FetchRunning
<1>2. RequestsOK'
  BY DEF IInv, RequestsOK, Woken
<1>3. FetchesOnlyMissing'
  BY <1>1 DEF IInv, FetchesOnlyMissing, FetchRunning
<1>4. FetchersWait'
  <2> SUFFICES ASSUME NEW r \in Requests, req'[r].pc = "fetching"
               PROVE  fetch'[req'[r].title].st \in FetchRunning
    BY DEF FetchersWait
  <2>1. req'[r] = req[r] /\ r \notin AwaitingFetch(t)
    BY DEF Woken
  <2>2. req[r].title # t /\ req[r].title \in Titles
    BY <2>1 DEF AwaitingFetch, IInv, RequestsOK, RequestOK
  <2>3. QED
    BY <1>1, <2>1, <2>2 DEF IInv, FetchersWait
<1>5. DrawersWait'
  <2> SUFFICES ASSUME NEW r \in Requests, req'[r].pc = "drawing"
               PROVE  draw'[Path(r)'].st \in DrawRunning
    BY DEF DrawersWait
  <2>1. req'[r] = req[r]
    BY DEF Woken
  <2>2. QED
    BY <2>1 DEF IInv, DrawersWait, Path
<1>6. QED
  BY <1>1, <1>2, <1>3, <1>4, <1>5 DEF IInv, DrawsOK

LEMMA DrawGoesOn ==
  ASSUME IInv, NEW p \in Renders, NEW d \in DrawState, d.st \in DrawRunning,
         draw' = [draw EXCEPT ![p] = d], UNCHANGED <<record, req, fetch>>, WorldOK'
  PROVE  IInv'
<1>1. DrawsOK' /\ \A o \in Renders : draw'[o] = IF o = p THEN d ELSE draw[o]
  BY DEF IInv, DrawsOK
<1>2. DrawersWait'
  <2> SUFFICES ASSUME NEW r \in Requests, req[r].pc = "drawing"
               PROVE  draw'[Path(r)].st \in DrawRunning
    BY DEF DrawersWait, Path
  <2>1. Path(r) \in Renders
    BY PathIsRender DEF IInv
  <2>2. QED
    BY <1>1, <2>1 DEF IInv, DrawersWait
<1>3. QED
  BY <1>1, <1>2 DEF IInv, RecordsOK, FetchesOK, RequestsOK, FetchersWait, FetchesOnlyMissing

LEMMA DrawEnds ==
  ASSUME IInv, NEW p \in Renders, NEW d \in DrawState, d.st \notin DrawRunning,
         draw' = [draw EXCEPT ![p] = d], Woken(AwaitingDraw(p)),
         WorldOK', RecordsOK', UNCHANGED fetch,
         \A t \in Titles : record'[t].sha \in {record[t].sha, None}
  PROVE  IInv'
<1>1. DrawsOK' /\ \A o \in Renders : draw'[o] = IF o = p THEN d ELSE draw[o]
  BY DEF IInv, DrawsOK
<1>2. RequestsOK'
  BY DEF IInv, RequestsOK, Woken
<1>3. FetchesOnlyMissing'
  BY DEF IInv, FetchesOnlyMissing
<1>4. FetchersWait'
  <2> SUFFICES ASSUME NEW r \in Requests, req'[r].pc = "fetching"
               PROVE  fetch'[req'[r].title].st \in FetchRunning
    BY DEF FetchersWait
  <2>1. req'[r] = req[r]
    BY DEF Woken
  <2>2. QED
    BY <2>1 DEF IInv, FetchersWait
<1>5. DrawersWait'
  <2> SUFFICES ASSUME NEW r \in Requests, req'[r].pc = "drawing"
               PROVE  draw'[Path(r)'].st \in DrawRunning
    BY DEF DrawersWait
  <2>1. req'[r] = req[r] /\ r \notin AwaitingDraw(p)
    BY DEF Woken
  <2>2. Path(r) \in Renders /\ Path(r) # p /\ Path(r)' = Path(r)
    BY <2>1, PathIsRender DEF IInv, AwaitingDraw, Path
  <2>3. QED
    BY <1>1, <2>1, <2>2 DEF IInv, DrawersWait
<1>6. QED
  BY <1>1, <1>2, <1>3, <1>4, <1>5 DEF IInv, FetchesOK

\* A step that leaves requests and flights alone, and no title newly with art.
LEMMA WorldGoesOn ==
  ASSUME IInv, WorldOK', RecordsOK', UNCHANGED <<req, fetch, draw>>,
         \A t \in Titles : record'[t].sha = record[t].sha
  PROVE  IInv'
  BY DEF IInv, FetchesOK, DrawsOK, RequestsOK, FetchersWait, DrawersWait, Path, FetchesOnlyMissing

-----------------------------------------------------------------------------
(* The request's steps.                                                      *)

\* Answers are well-formed.
LEMMA Answers ==
  ASSUME IInv, NEW r \in Requests
  PROVE  /\ RequestOK([IdleRequest EXCEPT !.pc = "served"])
         /\ \A why \in Whys : RequestOK([IdleRequest EXCEPT !.pc = "null", !.why = why,
                                           !.title = req[r].title, !.id = req[r].id])
         /\ RequestOK([req[r] EXCEPT !.pc = "error"])
         /\ [req[r] EXCEPT !.pc = "error"].pc = "error"
<1>1. RequestOK(req[r])
  BY DEF IInv, RequestsOK
<1>2. IdleRequest \in RequestState
  BY Values DEF RequestOK
<1>3. RequestOK([IdleRequest EXCEPT !.pc = "served"])
  BY <1>2 DEF RequestOK, RequestState, RequestPcs
<1>4. RequestOK([req[r] EXCEPT !.pc = "error"]) /\ [req[r] EXCEPT !.pc = "error"].pc = "error"
  BY <1>1 DEF RequestOK, RequestState, RequestPcs
<1>5. ASSUME NEW why \in Whys
      PROVE  RequestOK([IdleRequest EXCEPT !.pc = "null", !.why = why, !.title = req[r].title, !.id = req[r].id])
  BY <1>1, <1>2 DEF RequestOK, RequestState, RequestPcs
<1>6. QED
  BY <1>3, <1>4, <1>5

LEMMA ServedInv ==
  ASSUME IInv, NEW r \in Requests, AnswerArt(r), UNCHANGED <<clock, index, record, diskVars, fetch, draw>>
  PROVE  IInv'
<1> DEFINE q == [IdleRequest EXCEPT !.pc = "served"]
<1>1. RequestOK(q) /\ q.pc = "served"
  BY Answers DEF IdleRequest
<1>2. QED
  BY <1>1, RequestGoesOn DEF AnswerArt

LEMMA NullInv ==
  ASSUME IInv, NEW r \in Requests, NEW why \in Whys, AnswerNull(r, why),
         UNCHANGED <<clock, index, record, diskVars, fetch, draw>>
  PROVE  IInv'
<1> DEFINE q == [IdleRequest EXCEPT !.pc = "null", !.why = why, !.title = req[r].title, !.id = req[r].id]
<1>1. RequestOK(q) /\ q.pc = "null"
  BY Answers DEF IdleRequest
<1>2. QED
  BY <1>1, RequestGoesOn DEF AnswerNull

\* A request at work that moves to a place where it waits for nobody.
LEMMA GotoInv ==
  ASSUME IInv, NEW r \in Requests, NEW pc \in RequestPcs, Goto(r, pc),
         pc \notin {"fetching", "drawing"},
         pc # "error" => req[r].pc \notin {"idle", "served", "null", "error"},
         pc \in {"read", "joinDraw", "drawn"} => req[r].rec.sha # None,
         UNCHANGED <<clock, index, record, diskVars, fetch, draw>>
  PROVE  IInv'
<1> DEFINE q == [req[r] EXCEPT !.pc = pc]
<1>1. req' = [req EXCEPT ![r] = q]
  BY DEF Goto
<1>2. RequestOK(req[r]) /\ req[r].rec.sha \in Shas \cup {None}
  BY DEF IInv, RequestsOK, RequestOK, RequestState, Record
<1>3. RequestOK(q) /\ q.pc = pc
  BY <1>2 DEF RequestOK, RequestState
<1>4. QED
  BY <1>1, <1>3, RequestGoesOn

LEMMA ArriveInv ==
  ASSUME IInv, NEW r \in Requests, NEW t \in Titles, NEW o \in Options, NEW known \in BOOLEAN,
         Arrive(r, t, o, known)
  PROVE  IInv'
<1> DEFINE id == IF known THEN [canon |-> TRUE, art |-> index[t]] ELSE Unknown
           q == [IdleRequest EXCEPT !.pc = "look", !.title = t, !.opts = o, !.pass = 1, !.id = id]
<1>1. id \in Identity
  BY Values DEF Identity, IInv, WorldOK
<1>2. RequestOK(q) /\ q.pc = "look"
  BY <1>1, Values DEF RequestOK, RequestState, RequestPcs
<1>3. QED
  BY <1>2, RequestGoesOn DEF Arrive

LEMMA LookUpInv ==
  ASSUME IInv, NEW r \in Requests, LookUp(r)
  PROVE  IInv'
<1> DEFINE rec == record[req[r].title]
           q == [req[r] EXCEPT !.pc = "read", !.rec = rec]
<1>1. UNCHANGED <<clock, index, record, diskVars, fetch, draw>> /\ req[r].pc = "look"
  BY DEF LookUp, envVars
<1>2. RequestOK(req[r]) /\ rec \in Record
  BY <1>1 DEF IInv, RequestsOK, RequestOK, RecordsOK
<1>3. CASE rec.sha # None
  <2>1. rec.sha \in Shas
    BY <1>2, <1>3 DEF Record
  <2>2. RequestOK(q) /\ q.pc = "read"
    BY <1>1, <1>2, <2>1 DEF RequestOK, RequestState, RequestPcs
  <2>3. req' = [req EXCEPT ![r] = q]
    BY <1>3 DEF LookUp
  <2>4. QED
    BY <1>1, <2>2, <2>3, RequestGoesOn
<1>4. CASE rec.sha = None /\ HeldBack(req[r].id, rec)
  BY <1>1, <1>4, NullInv DEF LookUp, Whys
<1>5. CASE rec.sha = None /\ ~HeldBack(req[r].id, rec)
  BY <1>1, <1>5, GotoInv DEF LookUp, RequestPcs
<1>6. QED
  BY <1>3, <1>4, <1>5

LEMMA FetchedInv ==
  ASSUME IInv, NEW r \in Requests, Fetched(r)
  PROVE  IInv'
<1>1. UNCHANGED <<clock, index, record, diskVars, fetch, draw>> /\ req[r].pc = "fetched"
  BY DEF Fetched, envVars
<1>2. CASE req[r].rec.sha = None
  BY <1>1, <1>2, NullInv DEF Fetched, Whys
<1>3. CASE req[r].rec.sha # None
  BY <1>1, <1>3, GotoInv DEF Fetched, RequestPcs
<1>4. QED
  BY <1>2, <1>3

LEMMA ReadRenderInv ==
  ASSUME IInv, NEW r \in Requests, ReadRender(r)
  PROVE  IInv'
<1>1. UNCHANGED <<clock, index, record, diskVars, fetch, draw>> /\ req[r].pc = "read" /\ req[r].rec.sha # None
  BY DataAssumption DEF ReadRender, envVars, IInv, RequestsOK, RequestOK
<1>2. CASE Path(r) \in renders
  BY <1>1, <1>2, ServedInv DEF ReadRender
<1>3. CASE Path(r) \notin renders
  BY <1>1, <1>3, GotoInv DEF ReadRender, RequestPcs
<1>4. QED
  BY <1>2, <1>3

LEMMA DrawnInv ==
  ASSUME IInv, NEW r \in Requests, Drawn(r)
  PROVE  IInv'
<1> DEFINE q == [req[r] EXCEPT !.pc = "look", !.pass = 2, !.gone = FALSE]
<1>1. UNCHANGED <<clock, index, record, diskVars, fetch, draw>> /\ req[r].pc = "drawn"
  BY DEF Drawn, envVars
<1>2. RequestOK(req[r])
  BY DEF IInv, RequestsOK
<1>3. CASE req[r].gone /\ req[r].pass = 1
  <2>1. RequestOK(q) /\ q.pc = "look"
    BY <1>1, <1>2 DEF RequestOK, RequestState, RequestPcs
  <2>2. req' = [req EXCEPT ![r] = q]
    BY <1>3 DEF Drawn
  <2>3. QED
    BY <1>1, <2>1, <2>2, RequestGoesOn
<1>4. CASE ~(req[r].gone /\ req[r].pass = 1) /\ req[r].bytes
  BY <1>1, <1>4, ServedInv DEF Drawn
<1>5. CASE ~(req[r].gone /\ req[r].pass = 1) /\ ~req[r].bytes
  <2> DEFINE why == IF req[r].gone THEN "goneAgain" ELSE IF req[r].rec.sha \in Broken THEN "undecodable" ELSE "joined"
  <2>1. AnswerNull(r, why) /\ why \in Whys
    BY <1>5 DEF Drawn, Whys
  <2>2. QED
    BY <1>1, <2>1, NullInv
<1>6. QED
  BY <1>3, <1>4, <1>5

LEMMA JoinFetchInv ==
  ASSUME IInv, NEW r \in Requests, JoinFetch(r)
  PROVE  IInv'
<1> DEFINE t == req[r].title
           waiting == [req[r] EXCEPT !.pc = "fetching"]
           answered == [req[r] EXCEPT !.pc = "fetched", !.rec = fetch[t].result]
           f == [NoFetch EXCEPT !.st = "check", !.id = req[r].id]
<1>1. RequestOK(req[r]) /\ t \in Titles /\ fetch[t] \in FetchState /\ req[r].pc = "join"
  BY DEF JoinFetch, IInv, RequestsOK, RequestOK, FetchesOK
<1>2. UNCHANGED <<clock, index, record, diskVars, draw>>
  BY DEF JoinFetch, envVars
<1>3. RequestOK(waiting) /\ waiting.pc = "fetching" /\ waiting.title = t
  BY <1>1 DEF RequestOK, RequestState, RequestPcs
<1>4. CASE fetch[t].st = "done"
  <2>1. RequestOK(answered) /\ answered.pc = "fetched"
    BY <1>1 DEF RequestOK, RequestState, RequestPcs, FetchState
  <2>2. req' = [req EXCEPT ![r] = answered] /\ UNCHANGED fetch
    BY <1>4 DEF JoinFetch
  <2>3. QED
    BY <1>2, <2>1, <2>2, RequestGoesOn
<1>5. CASE fetch[t].st = "faulted"
  BY <1>2, <1>5, GotoInv DEF JoinFetch, RequestPcs
<1>6. CASE fetch[t].st \notin {"done", "faulted"}
  <2>1. req' = [req EXCEPT ![r] = waiting]
    BY <1>6 DEF JoinFetch, Goto
  <2>2. /\ fetch'[t] \in FetchState /\ fetch'[t].st \in FetchRunning
        /\ \A u \in Titles \ {t} : fetch'[u] = fetch[u]
        /\ FetchesOK'
        /\ fetch'[t].st = "check" \/ fetch'[t] = fetch[t]
    <3>1. CASE fetch[t].st = "none"
      <4>1. f \in FetchState /\ f.st = "check"
        BY <1>1, Values DEF RequestOK, RequestState, FetchState, FetchRunning
      <4>2. fetch' = [fetch EXCEPT ![t] = f]
        BY <3>1 DEF JoinFetch
      <4>3. QED
        BY <1>1, <4>1, <4>2 DEF IInv, FetchesOK, FetchOK, FetchRunning
    <3>2. CASE fetch[t].st # "none"
      BY <1>1, <1>6, <3>2 DEF JoinFetch, FetchState, FetchRunning, IInv, FetchesOK
    <3>3. QED
      BY <3>1, <3>2
  <2>3. req'[r] = waiting /\ \A o \in Requests \ {r} : req'[o] = req[o]
    BY <2>1 DEF IInv, RequestsOK
  <2>4. RequestsOK'
    BY <1>3, <2>1, <2>3 DEF IInv, RequestsOK
  <2>5. FetchersWait'
    <3> SUFFICES ASSUME NEW o \in Requests, req'[o].pc = "fetching"
                 PROVE  fetch'[req'[o].title].st \in FetchRunning
      BY DEF FetchersWait
    <3>1. CASE o = r
      BY <1>3, <2>2, <2>3, <3>1
    <3>2. CASE o # r
      <4>1. req'[o] = req[o] /\ req[o].title \in Titles
        BY <2>3, <3>2 DEF IInv, RequestsOK, RequestOK
      <4>2. QED
        BY <2>2, <4>1 DEF IInv, FetchersWait
    <3>3. QED
      BY <3>1, <3>2
  <2>6. DrawersWait'
    BY <1>2, <1>3, <2>3 DEF IInv, DrawersWait, Path
  <2>7. FetchesOnlyMissing'
    BY <1>2, <2>2 DEF IInv, FetchesOnlyMissing
  <2>8. QED
    BY <1>2, <2>2, <2>4, <2>5, <2>6, <2>7 DEF IInv, WorldOK, RecordsOK, DrawsOK, diskVars
<1>7. QED
  BY <1>4, <1>5, <1>6

LEMMA JoinDrawInv ==
  ASSUME IInv, NEW r \in Requests, JoinDraw(r)
  PROVE  IInv'
<1> DEFINE p == Path(r)
           waiting == [req[r] EXCEPT !.pc = "drawing"]
           answered == [req[r] EXCEPT !.pc = "drawn", !.bytes = draw[p].bytes, !.gone = FALSE]
           d == [NoDraw EXCEPT !.st = "check", !.creator = r]
<1>1. RequestOK(req[r]) /\ p \in Renders /\ draw[p] \in DrawState /\ req[r].pc = "joinDraw"
  BY PathIsRender DEF JoinDraw, IInv, RequestsOK, DrawsOK
<1>2. UNCHANGED <<clock, index, record, diskVars, fetch>>
  BY DEF JoinDraw, envVars
<1>3. RequestOK(waiting) /\ waiting.pc = "drawing" /\ <<waiting.title, waiting.rec.sha, waiting.opts>> = p
  BY <1>1 DEF RequestOK, RequestState, RequestPcs, Path
<1>4. CASE draw[p].st = "done"
  <2>1. RequestOK(answered) /\ answered.pc = "drawn"
    BY <1>1 DEF RequestOK, RequestState, RequestPcs, DrawState
  <2>2. req' = [req EXCEPT ![r] = answered] /\ UNCHANGED draw
    BY <1>4 DEF JoinDraw
  <2>3. QED
    BY <1>2, <2>1, <2>2, RequestGoesOn
<1>5. CASE draw[p].st = "faulted"
  BY <1>2, <1>5, GotoInv DEF JoinDraw, RequestPcs
<1>6. CASE draw[p].st \notin {"done", "faulted"}
  <2>1. req' = [req EXCEPT ![r] = waiting]
    BY <1>6 DEF JoinDraw, Goto
  <2>2. /\ draw'[p].st \in DrawRunning /\ DrawsOK'
        /\ \A o \in Renders \ {p} : draw'[o] = draw[o]
    <3>1. CASE draw[p].st = "none"
      <4>1. d \in DrawState /\ d.st = "check"
        BY Values DEF DrawState, DrawRunning
      <4>2. draw' = [draw EXCEPT ![p] = d]
        BY <3>1 DEF JoinDraw
      <4>3. QED
        BY <1>1, <4>1, <4>2 DEF IInv, DrawsOK, DrawRunning
    <3>2. CASE draw[p].st # "none"
      BY <1>1, <1>6, <3>2 DEF JoinDraw, DrawState, DrawRunning, IInv, DrawsOK
    <3>3. QED
      BY <3>1, <3>2
  <2>3. req'[r] = waiting /\ \A o \in Requests \ {r} : req'[o] = req[o]
    BY <2>1 DEF IInv, RequestsOK
  <2>4. RequestsOK'
    BY <1>3, <2>1, <2>3 DEF IInv, RequestsOK
  <2>5. FetchersWait'
    BY <1>2, <1>3, <2>3 DEF IInv, FetchersWait
  <2>6. DrawersWait'
    <3> SUFFICES ASSUME NEW o \in Requests, req'[o].pc = "drawing"
                 PROVE  draw'[Path(o)'].st \in DrawRunning
      BY DEF DrawersWait
    <3>1. CASE o = r
      BY <1>3, <2>2, <2>3, <3>1 DEF Path
    <3>2. CASE o # r
      <4>1. req'[o] = req[o] /\ Path(o)' = Path(o) /\ Path(o) \in Renders
        BY <2>3, <3>2, PathIsRender DEF Path, IInv
      <4>2. QED
        BY <2>2, <4>1 DEF IInv, DrawersWait
    <3>3. QED
      BY <3>1, <3>2
  <2>7. QED
    BY <1>2, <2>2, <2>4, <2>5, <2>6 DEF IInv, WorldOK, RecordsOK, FetchesOK, FetchesOnlyMissing, diskVars
<1>7. QED
  BY <1>4, <1>5, <1>6

LEMMA LeaveInv ==
  ASSUME IInv, NEW r \in Requests, Leave(r)
  PROVE  IInv'
<1>1. UNCHANGED <<clock, index, record, diskVars, fetch>>
  BY DEF Leave, envVars
<1>2. req'[r] = IdleRequest /\ \A o \in Requests \ {r} : req'[o] = req[o]
  BY DEF Leave, IInv, RequestsOK
<1>3. RequestsOK'
  BY <1>2, Values DEF Leave, IInv, RequestsOK
<1>4. DrawsOK' /\ \A p \in Renders : draw'[p].st = draw[p].st
  BY DEF Leave, IInv, DrawsOK, DrawState
<1>5. FetchersWait'
  BY <1>1, <1>2, Values DEF IInv, FetchersWait
<1>6. DrawersWait'
  <2> SUFFICES ASSUME NEW o \in Requests, req'[o].pc = "drawing"
               PROVE  draw'[Path(o)'].st \in DrawRunning
    BY DEF DrawersWait
  <2>1. req'[o] = req[o] /\ Path(o)' = Path(o) /\ Path(o) \in Renders
    BY <1>2, Values, PathIsRender DEF Path, IInv
  <2>2. QED
    BY <1>4, <2>1 DEF IInv, DrawersWait
<1>7. QED
  BY <1>1, <1>3, <1>4, <1>5, <1>6 DEF IInv, WorldOK, RecordsOK, FetchesOK, FetchesOnlyMissing, diskVars

-----------------------------------------------------------------------------
(* The fetch flight's steps.                                                 *)

LEMMA FetchDoneInv ==
  ASSUME IInv, NEW t \in Titles, NEW result \in Record, FetchDone(t, result),
         WorldOK', RecordsOK', \A u \in Titles \ {t} : record'[u] = record[u], UNCHANGED draw
  PROVE  IInv'
<1> DEFINE f == [NoFetch EXCEPT !.st = "done", !.result = result]
<1>1. f \in FetchState /\ f.st \notin FetchRunning
  BY Values DEF FetchState, FetchRunning
<1>2. \A r \in AwaitingFetch(t) : RequestOK([req[r] EXCEPT !.pc = "fetched", !.rec = result])
  <2> SUFFICES ASSUME NEW r \in AwaitingFetch(t)
               PROVE  RequestOK([req[r] EXCEPT !.pc = "fetched", !.rec = result])
    OBVIOUS
  <2>1. RequestOK(req[r]) /\ req[r].pc = "fetching"
    BY DEF AwaitingFetch, IInv, RequestsOK
  <2>2. QED
    BY <2>1 DEF RequestOK, RequestState, RequestPcs
<1>3. \A r \in AwaitingFetch(t) : /\ r \in Requests
                                  /\ req'[r] = [req[r] EXCEPT !.pc = "fetched", !.rec = result]
                                  /\ RequestOK(req[r])
  BY DEF FetchDone, AwaitingFetch, IInv, RequestsOK
<1>4. \A r \in AwaitingFetch(t) : req'[r].pc = "fetched"
  BY <1>3 DEF RequestOK, RequestState
<1>5. Woken(AwaitingFetch(t))
  BY <1>2, <1>3, <1>4 DEF Woken, FetchDone
<1>6. QED
  BY <1>1, <1>5, FetchEnds DEF FetchDone

LEMMA CheckRecordInv ==
  ASSUME IInv, NEW t \in Titles, CheckRecord(t)
  PROVE  IInv'
<1> DEFINE rec == record[t]
           f == [fetch[t] EXCEPT !.st = "ask", !.known = BuildIdentity(t, rec, fetch[t].id)]
<1>1. UNCHANGED <<clock, index, record, diskVars, draw>> /\ WorldOK' /\ RecordsOK'
  BY DEF CheckRecord, envVars, diskVars, IInv, WorldOK, RecordsOK
<1>2. rec \in Record /\ fetch[t] \in FetchState
  BY DEF IInv, RecordsOK, FetchesOK
<1>3. CASE rec.sha # None
  BY <1>1, <1>2, <1>3, FetchDoneInv DEF CheckRecord
<1>4. CASE rec.sha = None /\ HeldBack(fetch[t].id, rec)
  BY <1>1, <1>4, Values, FetchDoneInv DEF CheckRecord
<1>5. CASE rec.sha = None /\ ~HeldBack(fetch[t].id, rec)
  <2>1. fetch[t].id \in Identity
    BY <1>2 DEF FetchState
  <2>2. BuildIdentity(t, rec, fetch[t].id) \in Identity
    BY <1>2, <2>1, IdentityTypes DEF IInv
  <2>3. f \in FetchState /\ FetchOK(f) /\ f.st \in FetchRunning
    BY <1>2, <2>2 DEF FetchState, FetchRunning, FetchOK
  <2>4. fetch' = [fetch EXCEPT ![t] = f] /\ UNCHANGED req
    BY <1>5 DEF CheckRecord
  <2>5. QED
    BY <1>1, <1>5, <2>3, <2>4, FetchGoesOn
<1>6. QED
  BY <1>3, <1>4, <1>5

LEMMA AskUpstreamInv ==
  ASSUME IInv, NEW t \in Titles, AskUpstream(t)
  PROVE  IInv'
<1> DEFINE found(s) == [fetch[t] EXCEPT !.st = "store", !.sha = s]
           miss(b) == [fetch[t] EXCEPT !.st = "miss", !.backoff = b]
<1>1. UNCHANGED <<record, req, draw>> /\ WorldOK' /\ record[t].sha = None
  BY DEF AskUpstream, diskVars, IInv, WorldOK, FetchesOnlyMissing
<1>2. fetch[t] \in FetchState
  BY DEF IInv, FetchesOK
<1>3. ASSUME NEW s \in Covers[t], fetch' = [fetch EXCEPT ![t].st = "store", ![t].sha = s]
      PROVE  IInv'
  <2>1. found(s) \in FetchState /\ FetchOK(found(s)) /\ found(s).st \in FetchRunning
    BY <1>2, DataAssumption DEF FetchState, FetchRunning, FetchOK
  <2>2. fetch' = [fetch EXCEPT ![t] = found(s)]
    BY <1>3
  <2>3. QED
    BY <1>1, <2>1, <2>2, FetchGoesOn
<1>4. ASSUME NEW b \in Nat, fetch' = [fetch EXCEPT ![t].st = "miss", ![t].backoff = b]
      PROVE  IInv'
  <2>1. miss(b) \in FetchState /\ FetchOK(miss(b)) /\ miss(b).st \in FetchRunning
    BY <1>2 DEF FetchState, FetchRunning, FetchOK
  <2>2. fetch' = [fetch EXCEPT ![t] = miss(b)]
    BY <1>4
  <2>3. QED
    BY <1>1, <2>1, <2>2, FetchGoesOn
<1>5. NegativeCacheDuration \in Nat /\ TransientFailureBackoff \in Nat
  BY DataAssumption
<1>6. \/ \E s \in Covers[t] : fetch' = [fetch EXCEPT ![t].st = "store", ![t].sha = s]
      \/ fetch' = [fetch EXCEPT ![t].st = "miss", ![t].backoff = NegativeCacheDuration]
      \/ fetch' = [fetch EXCEPT ![t].st = "miss", ![t].backoff = TransientFailureBackoff]
  BY DEF AskUpstream
<1>7. QED
  BY <1>3, <1>4, <1>5, <1>6

LEMMA RecordMissInv ==
  ASSUME IInv, NEW t \in Titles, RecordMiss(t)
  PROVE  IInv'
<1> DEFINE until == clock + fetch[t].backoff
           learned == Learned(record[t], fetch[t].known)
           rec == [record[t] EXCEPT !.missUntil = until, !.id = learned]
<1>1. record[t] \in Record /\ fetch[t].known \in Identity /\ fetch[t].backoff \in Nat /\ clock \in Nat
  BY DataAssumption DEF IInv, RecordsOK, FetchesOK, FetchState, WorldOK
<1>2. learned \in Identity /\ until \in Nat
  BY <1>1, IdentityTypes DEF IInv
<1>3. record' = [record EXCEPT ![t] = rec]
  BY DEF RecordMiss
<1>4. rec \in Record
  <2> HIDE DEF until, learned
  <2> QED
    BY <1>1, <1>2 DEF Record
<1>5. RecordsOK' /\ \A u \in Titles \ {t} : record'[u] = record[u]
  BY <1>3, <1>4 DEF IInv, RecordsOK
<1>6. WorldOK' /\ UNCHANGED draw /\ FetchDone(t, EmptyRecord)
  BY DEF RecordMiss, envVars, diskVars, IInv, WorldOK
<1>7. QED
  BY <1>5, <1>6, Values, FetchDoneInv

LEMMA RecordHitInv ==
  ASSUME IInv, NEW t \in Titles, RecordHit(t)
  PROVE  IInv'
<1> DEFINE rec == [sha |-> fetch[t].sha, missUntil |-> 0, id |-> Learned(record[t], fetch[t].known)]
<1>1. record[t] \in Record /\ fetch[t].known \in Identity /\ fetch[t].sha \in Shas \cup {None}
  BY DEF IInv, RecordsOK, FetchesOK, FetchState
<1>2. rec \in Record
  BY <1>1, IdentityTypes DEF Record, IInv
<1>3. record' = [record EXCEPT ![t] = rec] /\ FetchDone(t, rec)
  BY DEF RecordHit
<1>4. RecordsOK' /\ \A u \in Titles \ {t} : record'[u] = record[u]
  BY <1>2, <1>3 DEF IInv, RecordsOK
<1>5. WorldOK' /\ UNCHANGED draw
  BY DEF RecordHit, envVars, diskVars, IInv, WorldOK
<1>6. QED
  BY <1>2, <1>3, <1>4, <1>5, FetchDoneInv

LEMMA StoreOriginalInv ==
  ASSUME IInv, NEW t \in Titles, StoreOriginal(t)
  PROVE  IInv'
<1> DEFINE f == [fetch[t] EXCEPT !.st = "point"]
<1>1. fetch[t] \in FetchState /\ fetch[t].sha \in Shas /\ record[t].sha = None
  BY DEF StoreOriginal, IInv, FetchesOK, FetchOK, FetchesOnlyMissing
<1>2. f \in FetchState /\ FetchOK(f) /\ f.st \in FetchRunning
  BY <1>1 DEF FetchState, FetchRunning, FetchOK
<1>3. fetch' = [fetch EXCEPT ![t] = f] /\ UNCHANGED <<record, req, draw>> /\ WorldOK'
  BY <1>1 DEF StoreOriginal, envVars, IInv, WorldOK
<1>4. QED
  BY <1>1, <1>2, <1>3, FetchGoesOn

LEMMA FetchFaultsInv ==
  ASSUME IInv, NEW t \in Titles, FetchFaults(t)
  PROVE  IInv'
<1> DEFINE f == [NoFetch EXCEPT !.st = "faulted"]
<1>1. f \in FetchState /\ f.st \notin FetchRunning
  BY Values DEF FetchState, FetchRunning
<1>2. fetch[t] \in FetchState /\ (fetch[t].st = "store" => fetch[t].sha \in Shas)
  BY DEF IInv, FetchesOK, FetchOK
<1>3. originals' \subseteq Shas
  BY <1>2 DEF FetchFaults, IInv, WorldOK
<1>4. WorldOK'
  BY <1>3 DEF FetchFaults, IInv, WorldOK
<1>5. RecordsOK' /\ UNCHANGED <<record, draw>>
  BY DEF FetchFaults, IInv, RecordsOK
<1>6. \A r \in AwaitingFetch(t) : r \in Requests /\ req'[r] = [req[r] EXCEPT !.pc = "error"]
  BY DEF FetchFaults, AwaitingFetch
<1>7. \A r \in AwaitingFetch(t) : RequestOK(req'[r]) /\ req'[r].pc = "error"
  BY <1>6, Answers
<1>8. Woken(AwaitingFetch(t))
  BY <1>7 DEF Woken, FetchFaults
<1>9. fetch' = [fetch EXCEPT ![t] = f]
  BY DEF FetchFaults
<1>10. QED
  BY <1>1, <1>4, <1>5, <1>8, <1>9, FetchEnds

LEMMA EndFetchInv ==
  ASSUME IInv, NEW t \in Titles, EndFetch(t)
  PROVE  IInv'
<1>1. AwaitingFetch(t) = {}
  BY DEF AwaitingFetch, EndFetch, IInv, FetchersWait, FetchRunning
<1>2. Woken(AwaitingFetch(t))
  BY <1>1 DEF Woken, EndFetch, IInv, RequestsOK
<1>3. NoFetch \in FetchState /\ NoFetch.st \notin FetchRunning
  BY Values DEF FetchRunning
<1>4. WorldOK' /\ RecordsOK' /\ UNCHANGED <<record, draw>> /\ fetch' = [fetch EXCEPT ![t] = NoFetch]
  BY DEF EndFetch, envVars, diskVars, IInv, WorldOK, RecordsOK
<1>5. QED
  BY <1>2, <1>3, <1>4, FetchEnds

-----------------------------------------------------------------------------
(* The render flight's steps.                                                *)

LEMMA DrawDoneInv ==
  ASSUME IInv, NEW p \in Renders, NEW bytes \in BOOLEAN, NEW gone \in BOOLEAN, DrawDone(p, bytes, gone),
         WorldOK', RecordsOK', UNCHANGED fetch,
         \A t \in Titles : record'[t].sha \in {record[t].sha, None}
  PROVE  IInv'
<1> DEFINE d == [draw[p] EXCEPT !.st = "done", !.bytes = bytes, !.gone = gone]
<1>1. draw[p] \in DrawState
  BY DEF IInv, DrawsOK
<1>2. d \in DrawState /\ d.st \notin DrawRunning /\ d.gone = gone
  BY <1>1 DEF DrawState, DrawRunning
<1>3. ASSUME NEW r \in AwaitingDraw(p)
      PROVE  RequestOK(req'[r]) /\ req'[r].pc = "drawn"
  <2> DEFINE mine == GoneFor(r, d)
             q == [req[r] EXCEPT !.pc = "drawn", !.bytes = bytes, !.gone = mine]
  <2>1. r \in Requests /\ RequestOK(req[r]) /\ req[r].pc = "drawing"
    BY DEF AwaitingDraw, IInv, RequestsOK
  <2>2. mine \in BOOLEAN
    BY <1>2 DEF GoneFor
  <2>3. req'[r] = q
    BY <2>1 DEF DrawDone
  <2>4. RequestOK(q) /\ q.pc = "drawn"
    <3> HIDE DEF mine
    <3> QED
      BY <2>1, <2>2 DEF RequestOK, RequestState, RequestPcs
  <2>5. QED
    BY <2>3, <2>4
<1>4. Woken(AwaitingDraw(p))
  BY <1>3 DEF Woken, DrawDone
<1>5. draw' = [draw EXCEPT ![p] = d]
  BY DEF DrawDone
<1>6. QED
  BY <1>2, <1>4, <1>5, DrawEnds

LEMMA CheckRenderInv ==
  ASSUME IInv, NEW p \in Renders, CheckRender(p)
  PROVE  IInv'
<1> DEFINE d == [draw[p] EXCEPT !.st = "original"]
<1>1. WorldOK' /\ RecordsOK' /\ UNCHANGED <<record, fetch>>
  BY DEF CheckRender, envVars, diskVars, IInv, WorldOK, RecordsOK
<1>2. CASE p \in renders
  BY <1>1, <1>2, DrawDoneInv DEF CheckRender
<1>3. CASE p \notin renders
  <2>1. d \in DrawState /\ d.st \in DrawRunning
    BY DEF IInv, DrawsOK, DrawState, DrawRunning
  <2>2. draw' = [draw EXCEPT ![p] = d] /\ UNCHANGED req
    BY <1>3 DEF CheckRender
  <2>3. QED
    BY <1>1, <2>1, <2>2, DrawGoesOn
<1>4. QED
  BY <1>2, <1>3

LEMMA ReadOriginalInv ==
  ASSUME IInv, NEW p \in Renders, ReadOriginal(p)
  PROVE  IInv'
<1> DEFINE d(st) == [draw[p] EXCEPT !.st = st]
<1>1. WorldOK' /\ RecordsOK' /\ UNCHANGED <<record, fetch>>
  BY DEF ReadOriginal, envVars, diskVars, IInv, WorldOK, RecordsOK
<1>2. \A st \in DrawRunning : d(st) \in DrawState /\ d(st).st \in DrawRunning
  BY DEF IInv, DrawsOK, DrawState, DrawRunning
<1>3. CASE p[2] \notin originals
  <2>1. draw' = [draw EXCEPT ![p] = d("drop")] /\ UNCHANGED req
    BY <1>3 DEF ReadOriginal
  <2>2. d("drop") \in DrawState /\ d("drop").st \in DrawRunning
    BY <1>2 DEF DrawRunning
  <2>3. QED
    BY <1>1, <2>1, <2>2, DrawGoesOn
<1>4. CASE p[2] \in originals \cap Broken
  BY <1>1, <1>4, DrawDoneInv DEF ReadOriginal
<1>5. CASE p[2] \in originals \ Broken
  <2>1. draw' = [draw EXCEPT ![p] = d("write")] /\ UNCHANGED req
    BY <1>5 DEF ReadOriginal
  <2>2. d("write") \in DrawState /\ d("write").st \in DrawRunning
    BY <1>2 DEF DrawRunning
  <2>3. QED
    BY <1>1, <2>1, <2>2, DrawGoesOn
<1>6. QED
  BY <1>3, <1>4, <1>5

LEMMA DropPointerInv ==
  ASSUME IInv, NEW p \in Renders, DropPointer(p)
  PROVE  IInv'
<1>1. p[1] \in Titles
  BY DEF Renders
<1>2. Dropped(record[p[1]]) \in Record /\ Dropped(record[p[1]]).sha = None
  BY <1>1 DEF Dropped, Record, IInv, RecordsOK
<1>3. record' = [record EXCEPT ![p[1]] = Dropped(record[p[1]])]
  BY DEF DropPointer
<1>4. RecordsOK' /\ \A t \in Titles : record'[t].sha \in {record[t].sha, None}
  BY <1>1, <1>2, <1>3 DEF IInv, RecordsOK
<1>5. WorldOK' /\ UNCHANGED fetch /\ DrawDone(p, FALSE, TRUE)
  BY DEF DropPointer, envVars, diskVars, IInv, WorldOK
<1>6. QED
  BY <1>4, <1>5, DrawDoneInv

LEMMA WriteRenderInv ==
  ASSUME IInv, NEW p \in Renders, WriteRender(p)
  PROVE  IInv'
<1>1. WorldOK' /\ RecordsOK' /\ UNCHANGED <<record, fetch>> /\ DrawDone(p, TRUE, FALSE)
  BY DEF WriteRender, envVars, IInv, WorldOK, RecordsOK
<1>2. QED
  BY <1>1, DrawDoneInv

LEMMA DrawFaultsInv ==
  ASSUME IInv, NEW p \in Renders, DrawFaults(p)
  PROVE  IInv'
<1> DEFINE d == [draw[p] EXCEPT !.st = "faulted"]
<1>1. d \in DrawState /\ d.st \notin DrawRunning
  BY DEF IInv, DrawsOK, DrawState, DrawRunning
<1>2. renders' \subseteq Renders
  BY DEF DrawFaults, IInv, WorldOK
<1>3. WorldOK' /\ RecordsOK' /\ UNCHANGED <<record, fetch>> /\ draw' = [draw EXCEPT ![p] = d]
  BY <1>2 DEF DrawFaults, IInv, WorldOK, RecordsOK
<1>4. \A r \in AwaitingDraw(p) : r \in Requests /\ req'[r] = [req[r] EXCEPT !.pc = "error"]
  BY DEF DrawFaults, AwaitingDraw
<1>5. \A r \in AwaitingDraw(p) : RequestOK(req'[r]) /\ req'[r].pc = "error"
  BY <1>4, Answers
<1>6. Woken(AwaitingDraw(p))
  BY <1>5 DEF Woken, DrawFaults
<1>7. QED
  BY <1>1, <1>3, <1>6, DrawEnds

LEMMA EndDrawInv ==
  ASSUME IInv, NEW p \in Renders, EndDraw(p)
  PROVE  IInv'
<1>1. AwaitingDraw(p) = {}
  BY DEF AwaitingDraw, EndDraw, IInv, DrawersWait, DrawRunning
<1>2. Woken(AwaitingDraw(p))
  BY <1>1 DEF Woken, EndDraw, IInv, RequestsOK
<1>3. NoDraw \in DrawState /\ NoDraw.st \notin DrawRunning
  BY Values DEF DrawRunning
<1>4. WorldOK' /\ RecordsOK' /\ UNCHANGED <<record, fetch>> /\ draw' = [draw EXCEPT ![p] = NoDraw]
  BY DEF EndDraw, envVars, diskVars, IInv, WorldOK, RecordsOK
<1>5. QED
  BY <1>2, <1>3, <1>4, DrawEnds

-----------------------------------------------------------------------------
(* Around the requests.                                                      *)

LEMMA RememberInv ==
  ASSUME IInv, NEW t \in Titles, Remember(t)
  PROVE  IInv'
<1> DEFINE known == [record[t] EXCEPT !.id = [record[t].id EXCEPT !.canon = TRUE]]
           learned == [record[t] EXCEPT !.id = [canon |-> TRUE, art |-> index[t]], !.missUntil = 0]
<1>1. record[t] \in Record /\ record[t].id \in Identity /\ index[t] \in Names \cup {None}
  BY DEF IInv, RecordsOK, WorldOK, Record
<1>2. /\ known \in Record /\ known.sha = record[t].sha
      /\ learned \in Record /\ learned.sha = record[t].sha
  BY <1>1 DEF Record, Identity
<1>3. record' = [record EXCEPT ![t] = known] \/ record' = [record EXCEPT ![t] = learned]
  BY DEF Remember
<1>4. RecordsOK' /\ \A u \in Titles : record'[u].sha = record[u].sha
  BY <1>2, <1>3 DEF IInv, RecordsOK
<1>5. WorldOK' /\ UNCHANGED <<req, fetch, draw>>
  BY DEF Remember, envVars, diskVars, IInv, WorldOK
<1>6. QED
  BY <1>4, <1>5, WorldGoesOn

LEMMA AroundInv ==
  ASSUME IInv,
         \/ \E s \in Shas : EvictOriginal(s)
         \/ \E p \in Renders : EvictRender(p)
         \/ \E t \in Titles, n \in Names : Rebuild(t, n)
         \/ Tick
  PROVE  IInv'
<1>1. WorldOK'
  BY DataAssumption DEF IInv, WorldOK, EvictOriginal, EvictRender, Rebuild, Tick, diskVars
<1>2. RecordsOK' /\ UNCHANGED <<record, req, fetch, draw>>
  BY DEF IInv, RecordsOK, EvictOriginal, EvictRender, Rebuild, Tick
<1>3. QED
  BY <1>1, <1>2, WorldGoesOn

-----------------------------------------------------------------------------
(* The theorems.                                                             *)

LEMMA InvInit == Init => IInv
<1> SUFFICES ASSUME Init PROVE IInv
  OBVIOUS
<1>1. WorldOK
  BY DataAssumption DEF Init, WorldOK
<1>2. PICK sha \in [Titles -> Shas \cup {None}] : record = [t \in Titles |-> [EmptyRecord EXCEPT !.sha = sha[t]]]
  BY DEF Init
<1>3. RecordsOK
  BY <1>2, Values DEF RecordsOK, Record
<1>4. FetchesOK /\ FetchesOnlyMissing
  BY Values DEF Init, FetchesOK, FetchOK, FetchesOnlyMissing
<1>5. DrawsOK
  BY Values DEF Init, DrawsOK
<1>6. RequestsOK /\ FetchersWait /\ DrawersWait
  BY Values DEF Init, RequestsOK, FetchersWait, DrawersWait
<1>7. QED
  BY <1>1, <1>3, <1>4, <1>5, <1>6 DEF IInv

LEMMA InvStep == IInv /\ [Next]_vars => IInv'
<1> SUFFICES ASSUME IInv, [Next]_vars PROVE IInv'
  OBVIOUS
<1>1. ASSUME NEW r \in Requests, Serve(r) PROVE IInv'
  BY <1>1, LookUpInv, JoinFetchInv, FetchedInv, ReadRenderInv, JoinDrawInv, DrawnInv DEF Serve
<1>2. ASSUME NEW r \in Requests, Leave(r) PROVE IInv'
  BY <1>2, LeaveInv
<1>3. ASSUME NEW r \in Requests, NEW t \in Titles, NEW o \in Options, NEW known \in BOOLEAN, Arrive(r, t, o, known)
      PROVE  IInv'
  BY <1>3, ArriveInv
<1>4. ASSUME NEW t \in Titles, Fetch(t) PROVE IInv'
  BY <1>4, CheckRecordInv, AskUpstreamInv, RecordMissInv, StoreOriginalInv, RecordHitInv, EndFetchInv,
     FetchFaultsInv DEF Fetch
<1>5. ASSUME NEW t \in Titles, Remember(t) PROVE IInv'
  BY <1>5, RememberInv
<1>6. ASSUME NEW p \in Renders, Draw(p) PROVE IInv'
  BY <1>6, CheckRenderInv, ReadOriginalInv, DropPointerInv, WriteRenderInv, EndDrawInv, DrawFaultsInv DEF Draw
<1>7. CASE UNCHANGED vars
  <2>1. WorldOK' /\ RecordsOK' /\ UNCHANGED <<record, req, fetch, draw>>
    BY <1>7 DEF vars, envVars, diskVars, IInv, WorldOK, RecordsOK
  <2>2. QED
    BY <2>1, WorldGoesOn
<1>8. QED
  BY <1>1, <1>2, <1>3, <1>4, <1>5, <1>6, <1>7, AroundInv DEF Next

\* The invariant holds throughout.
LEMMA Invariant == Spec => []IInv
  BY InvInit, InvStep, PTL DEF Spec

\* Every variable keeps its type, and nobody waits for a flight that has ended:
\* whoever shares a fetch or a render is woken with it (SingleFlight as ArtPipeline
\* uses it).
THEOREM TypeCorrect == Spec => []TypeOK
<1>1. IInv => TypeOK
  BY DEF IInv, TypeOK, WorldOK, RecordsOK, FetchesOK, DrawsOK, RequestsOK, RequestOK, RequestState,
         FetchState, DrawState, FetchersWait, DrawersWait, FetchRunning, DrawRunning
<1>2. QED
  BY <1>1, Invariant, PTL

\* A title that has art is not fetched again (EnsureOriginalAsync's second look).
THEOREM OnlyMissingFetched == Spec => []FetchesOnlyMissing
<1>1. IInv => FetchesOnlyMissing
  BY DEF IInv
<1>2. QED
  BY <1>1, Invariant, PTL

-----------------------------------------------------------------------------
(* The back-off.                                                             *)

\* While a miss holds, the title's record carries it, and knows all that the
\* attempt that earned it knew.
MissKept ==
    \A t \in Titles : missed[t].until > clock =>
        /\ record[t].missUntil = missed[t].until
        /\ missed[t].id.canon => record[t].id.canon
        /\ missed[t].id.art # None => record[t].id.art = missed[t].id.art

\* What is about to be asked with is not what has just missed.
AsksAnew ==
    \A t \in Titles : fetch[t].st = "ask" => missed[t].id # fetch[t].known \/ missed[t].until <= clock

BackoffInv == missed \in [Titles -> [id : Identity, until : Nat]] /\ MissKept /\ AsksAnew

LEMMA NoMissHolds == NoMiss \in [id : Identity, until : Nat] /\ NoMiss.until = 0
  BY Values DEF NoMiss

\* A step that starts no question and leaves records and misses alone.
LEMMA NothingAsked ==
  ASSUME IInv, BackoffInv, UNCHANGED <<record, missed>>, clock' \in Nat, clock' >= clock,
         \A t \in Titles : fetch'[t].st = "ask" => fetch[t].st = "ask" /\ fetch'[t].known = fetch[t].known
  PROVE  BackoffInv'
<1>1. clock \in Nat /\ \A t \in Titles : missed[t].until \in Nat
  BY DataAssumption DEF IInv, WorldOK, BackoffInv
<1>2. MissKept'
  BY <1>1 DEF BackoffInv, MissKept
<1>3. AsksAnew'
  BY <1>1 DEF BackoffInv, AsksAnew
<1>4. QED
  BY <1>2, <1>3 DEF BackoffInv

\* A title's record and its miss are rewritten together.
LEMMA MissRewritten ==
  ASSUME IInv, BackoffInv, NEW t \in Titles, UNCHANGED clock,
         NEW m \in [id : Identity, until : Nat], missed' = [missed EXCEPT ![t] = m],
         \A u \in Titles \ {t} : record'[u] = record[u],
         m.until > clock => /\ record'[t].missUntil = m.until
                            /\ m.id.canon => record'[t].id.canon
                            /\ m.id.art # None => record'[t].id.art = m.id.art,
         \A u \in Titles : fetch'[u].st = "ask" => fetch[u].st = "ask" /\ fetch'[u].known = fetch[u].known,
         fetch'[t].st = "ask" => m.until <= clock
  PROVE  BackoffInv'
<1>1. missed' \in [Titles -> [id : Identity, until : Nat]] /\ missed'[t] = m
      /\ \A u \in Titles \ {t} : missed'[u] = missed[u]
  BY DEF BackoffInv
<1>2. MissKept'
  BY <1>1 DEF BackoffInv, MissKept
<1>3. AsksAnew'
  BY <1>1 DEF BackoffInv, AsksAnew
<1>4. QED
  BY <1>1, <1>2, <1>3 DEF BackoffInv

LEMMA CheckAsksAnew ==
  ASSUME IInv, BackoffInv, NEW t \in Titles, CheckRecord(t)
  PROVE  BackoffInv'
<1> DEFINE rec == record[t]
           id == fetch[t].id
           known == BuildIdentity(t, rec, id)
<1>1. /\ rec \in Record /\ id \in Identity /\ clock \in Nat /\ missed[t].until \in Nat
      /\ rec.id \in Identity /\ rec.missUntil \in Nat /\ missed[t].id \in Identity
  BY DataAssumption DEF IInv, RecordsOK, FetchesOK, FetchState, WorldOK, BackoffInv, Record
<1>2. UNCHANGED <<record, missed, clock>>
  BY DEF CheckRecord, envVars, histVars
<1>3. CASE \E result \in {rec, EmptyRecord} : FetchDone(t, result)
  <2>1. PICK result \in {rec, EmptyRecord} : fetch' = [fetch EXCEPT ![t] = [NoFetch EXCEPT !.st = "done", !.result = result]]
    BY <1>3 DEF FetchDone
  <2>2. [NoFetch EXCEPT !.st = "done", !.result = result].st = "done"
    BY DEF NoFetch
  <2>3. \A u \in Titles : fetch'[u].st = "ask" => fetch[u].st = "ask" /\ fetch'[u].known = fetch[u].known
    BY <2>1, <2>2 DEF IInv, FetchesOK
  <2>4. QED
    BY <1>1, <1>2, <2>3, NothingAsked
<1>4. CASE /\ ~HeldBack(id, rec)
           /\ fetch' = [fetch EXCEPT ![t].st = "ask", ![t].known = known]
  <2>1. fetch'[t].known = known /\ \A u \in Titles \ {t} : fetch'[u] = fetch[u]
    BY <1>4 DEF IInv, FetchesOK, FetchState
  <2>2. missed[t].id # known \/ missed[t].until <= clock
    <3>1. SUFFICES ASSUME missed[t].until > clock PROVE missed[t].id # known
      BY <1>1
    <3>2. /\ rec.missUntil = missed[t].until
          /\ missed[t].id.canon => rec.id.canon
          /\ missed[t].id.art # None => rec.id.art = missed[t].id.art
      BY <3>1 DEF BackoffInv, MissKept
    <3>3. KnowsMore(id, rec)
      BY <1>1, <1>4, <3>1, <3>2 DEF HeldBack, MissLive
    <3>4. CASE id.canon /\ ~rec.id.canon
      <4>1. known.canon
        BY <3>4 DEF BuildIdentity
      <4>2. QED
        BY <3>2, <3>4, <4>1
    <3>5. CASE id.art # None /\ id.art # rec.id.art
      <4>1. known.art = id.art
        BY <3>5 DEF BuildIdentity
      <4>2. QED
        BY <3>2, <3>5, <4>1
    <3>6. QED
      BY <3>3, <3>4, <3>5 DEF KnowsMore
  <2>3. AsksAnew'
    BY <1>2, <2>1, <2>2 DEF BackoffInv, AsksAnew
  <2>4. MissKept'
    BY <1>2 DEF BackoffInv, MissKept
  <2>5. QED
    BY <1>2, <2>3, <2>4 DEF BackoffInv
<1>5. QED
  BY <1>3, <1>4 DEF CheckRecord

LEMMA MissIsRecorded ==
  ASSUME IInv, BackoffInv, NEW t \in Titles, RecordMiss(t)
  PROVE  BackoffInv'
<1> DEFINE until == clock + fetch[t].backoff
           known == fetch[t].known
           learned == Learned(record[t], known)
           rec == [record[t] EXCEPT !.missUntil = until, !.id = learned]
           m == [id |-> known, until |-> until]
<1>1. record[t] \in Record /\ known \in Identity /\ until \in Nat
  BY DataAssumption DEF IInv, RecordsOK, FetchesOK, FetchState, WorldOK
<1>2. /\ record' = [record EXCEPT ![t] = rec] /\ missed' = [missed EXCEPT ![t] = m] /\ UNCHANGED clock
      /\ fetch' = [fetch EXCEPT ![t] = [NoFetch EXCEPT !.st = "done", !.result = EmptyRecord]]
  BY DEF RecordMiss, FetchDone, envVars
<1>3. /\ known.canon => learned.canon
      /\ known.art # None => learned.art = known.art
  BY DEF Learned
<1>4. rec.missUntil = until /\ rec.id = learned /\ m \in [id : Identity, until : Nat]
  <2> HIDE DEF until, learned
  <2> QED
    BY <1>1 DEF Record
<1>5. m.until = until /\ m.id = known
  OBVIOUS
<1>6. record'[t] = rec /\ \A u \in Titles \ {t} : record'[u] = record[u]
  BY <1>2 DEF IInv, RecordsOK
<1>7. [NoFetch EXCEPT !.st = "done", !.result = EmptyRecord].st = "done"
  BY DEF NoFetch
<1>8. fetch'[t].st = "done" /\ \A u \in Titles \ {t} : fetch'[u] = fetch[u]
  BY <1>2, <1>7 DEF IInv, FetchesOK
<1> HIDE DEF until, learned, rec, m, known
<1>9. QED
  BY <1>2, <1>3, <1>4, <1>5, <1>6, <1>8, MissRewritten, ZenonT(40)

\* A hit, a dropped pointer and a new name end the miss.
LEMMA MissIsCleared ==
  ASSUME IInv, BackoffInv,
         (\E t \in Titles : RecordHit(t) \/ Remember(t)) \/ \E p \in Renders : DropPointer(p)
  PROVE  BackoffInv'
<1>0. ~(NoMiss.until > clock) /\ NoMiss.until <= clock
  BY DataAssumption, NoMissHolds DEF IInv, WorldOK
<1>1. ASSUME NEW t \in Titles, RecordHit(t) PROVE BackoffInv'
  <2> DEFINE rec == [sha |-> fetch[t].sha, missUntil |-> 0, id |-> Learned(record[t], fetch[t].known)]
             f == [NoFetch EXCEPT !.st = "done", !.result = rec]
  <2>1. /\ record' = [record EXCEPT ![t] = rec] /\ fetch' = [fetch EXCEPT ![t] = f]
        /\ missed' = [missed EXCEPT ![t] = NoMiss] /\ UNCHANGED clock
    BY <1>1 DEF RecordHit, FetchDone, envVars
  <2>2. f.st = "done"
    BY DEF NoFetch
  <2> HIDE DEF rec, f
  <2>3. \A u \in Titles \ {t} : record'[u] = record[u]
    BY <2>1 DEF IInv, RecordsOK
  <2>4. fetch'[t].st = "done" /\ \A u \in Titles \ {t} : fetch'[u] = fetch[u]
    BY <2>1, <2>2 DEF IInv, FetchesOK
  <2>5. QED
    BY <1>0, <2>1, <2>3, <2>4, NoMissHolds, MissRewritten
<1>2. ASSUME NEW p \in Renders, DropPointer(p) PROVE BackoffInv'
  <2> DEFINE t == p[1]
  <2>1. /\ t \in Titles /\ record' = [record EXCEPT ![t] = Dropped(@)]
        /\ missed' = [missed EXCEPT ![t] = NoMiss] /\ UNCHANGED <<clock, fetch>>
    BY <1>2 DEF DropPointer, envVars, Renders
  <2> HIDE DEF t
  <2>2. \A u \in Titles \ {t} : record'[u] = record[u]
    BY <2>1 DEF IInv, RecordsOK
  <2>3. QED
    BY <1>0, <2>1, <2>2, NoMissHolds, MissRewritten
<1>3. ASSUME NEW t \in Titles, Remember(t) PROVE BackoffInv'
  <2>1. UNCHANGED <<clock, fetch>>
    BY <1>3 DEF Remember, envVars
  <2>2. CASE index[t] \in {None, record[t].id.art}
    <3> DEFINE rec == [record[t] EXCEPT !.id = [record[t].id EXCEPT !.canon = TRUE]]
    <3>1. record' = [record EXCEPT ![t] = rec] /\ UNCHANGED missed
      BY <1>3, <2>2 DEF Remember
    <3>2. record[t] \in Record /\ record[t].id \in Identity
      BY DEF IInv, RecordsOK, Record
    <3>3. rec.missUntil = record[t].missUntil /\ rec.id.canon /\ rec.id.art = record[t].id.art
      BY <3>2 DEF Record, Identity
    <3>4. record'[t] = rec /\ \A u \in Titles \ {t} : record'[u] = record[u]
      BY <3>1 DEF IInv, RecordsOK
    <3> HIDE DEF rec
    <3>5. MissKept'
      BY <2>1, <3>1, <3>3, <3>4 DEF BackoffInv, MissKept
    <3>6. QED
      BY <2>1, <3>1, <3>5 DEF BackoffInv, AsksAnew
  <2>3. CASE index[t] \notin {None, record[t].id.art}
    <3>1. /\ \E rec : record' = [record EXCEPT ![t] = rec]
          /\ missed' = [missed EXCEPT ![t] = NoMiss]
      BY <1>3, <2>3 DEF Remember
    <3>2. \A u \in Titles \ {t} : record'[u] = record[u]
      BY <3>1 DEF IInv, RecordsOK
    <3>3. QED
      BY <1>0, <2>1, <3>1, <3>2, NoMissHolds, MissRewritten
  <2>4. QED
    BY <2>2, <2>3
<1>4. QED
  BY <1>1, <1>2, <1>3

LEMMA BackoffStep == IInv /\ BackoffInv /\ [Next]_vars => BackoffInv'
<1> SUFFICES ASSUME IInv, BackoffInv, [Next]_vars PROVE BackoffInv'
  OBVIOUS
<1> DEFINE Quiet == UNCHANGED <<record, missed>> /\ clock' \in Nat /\ clock' >= clock
           AsksNothing == \A t \in Titles :
               fetch'[t].st = "ask" => fetch[t].st = "ask" /\ fetch'[t].known = fetch[t].known
<1>1. Quiet /\ AsksNothing => BackoffInv'
  BY NothingAsked
<1>2. clock \in Nat /\ (clock' = clock \/ clock' = clock + 1 => clock' \in Nat /\ clock' >= clock)
  BY DataAssumption DEF IInv, WorldOK
<1>3. ASSUME NEW r \in Requests, Serve(r) PROVE Quiet /\ AsksNothing
  <2>1. CASE JoinFetch(r)
    <3>1. UNCHANGED <<record, missed, clock>>
      BY <2>1 DEF JoinFetch, envVars
    <3>2. fetch' = [fetch EXCEPT ![req[r].title] = [NoFetch EXCEPT !.st = "check", !.id = req[r].id]] \/ UNCHANGED fetch
      BY <2>1 DEF JoinFetch
    <3>3. [NoFetch EXCEPT !.st = "check", !.id = req[r].id].st = "check"
      BY DEF NoFetch
    <3>4. ASSUME NEW t \in Titles PROVE fetch'[t] = fetch[t] \/ fetch'[t].st = "check"
      BY <3>2, <3>3 DEF IInv, FetchesOK
    <3>5. AsksNothing
      BY <3>4
    <3>6. QED
      BY <1>2, <3>1, <3>5
  <2>2. CASE LookUp(r) \/ Fetched(r) \/ ReadRender(r) \/ JoinDraw(r) \/ Drawn(r)
    <3>1. UNCHANGED <<record, missed, clock, fetch>>
      BY <2>2 DEF LookUp, Fetched, ReadRender, JoinDraw, Drawn, envVars, histVars
    <3>2. QED
      BY <1>2, <3>1
  <2>3. QED
    BY <1>3, <2>1, <2>2 DEF Serve
<1>4. ASSUME NEW r \in Requests,
             Leave(r) \/ \E t \in Titles, o \in Options, known \in BOOLEAN : Arrive(r, t, o, known)
      PROVE  Quiet /\ AsksNothing
  <2>1. UNCHANGED <<record, missed, clock, fetch>>
    BY <1>4 DEF Leave, Arrive, envVars
  <2>2. QED
    BY <1>2, <2>1
<1>5. ASSUME NEW t \in Titles, AskUpstream(t) \/ StoreOriginal(t) \/ EndFetch(t) \/ FetchFaults(t)
      PROVE  Quiet /\ AsksNothing
  <2>1. UNCHANGED <<record, missed, clock>>
    BY <1>5 DEF AskUpstream, StoreOriginal, EndFetch, FetchFaults, envVars, histVars
  <2>2. NoFetch.st = "none" /\ [NoFetch EXCEPT !.st = "faulted"].st = "faulted"
    BY DEF NoFetch
  <2>3. PICK f : fetch' = [fetch EXCEPT ![t] = f] /\ f.st # "ask"
    <3>1. fetch[t] \in FetchState
      BY DEF IInv, FetchesOK
    <3>2. \A s, b : /\ [fetch[t] EXCEPT !.st = "store", !.sha = s].st = "store"
                    /\ [fetch[t] EXCEPT !.st = "miss", !.backoff = b].st = "miss"
                    /\ [fetch[t] EXCEPT !.st = "point"].st = "point"
      BY <3>1 DEF FetchState
    <3>3. CASE AskUpstream(t)
      <4>1. CASE \E s \in Covers[t] : fetch' = [fetch EXCEPT ![t].st = "store", ![t].sha = s]
        <5>1. PICK s \in Covers[t] : fetch' = [fetch EXCEPT ![t] = [fetch[t] EXCEPT !.st = "store", !.sha = s]]
          BY <4>1
        <5>2. QED
          BY <3>2, <5>1
      <4>2. CASE \E b : fetch' = [fetch EXCEPT ![t].st = "miss", ![t].backoff = b]
        <5>1. PICK b : fetch' = [fetch EXCEPT ![t] = [fetch[t] EXCEPT !.st = "miss", !.backoff = b]]
          BY <4>2
        <5>2. QED
          BY <3>2, <5>1
      <4>3. QED
        BY <3>3, <4>1, <4>2 DEF AskUpstream
    <3>4. CASE StoreOriginal(t)
      BY <3>2, <3>4 DEF StoreOriginal
    <3>5. CASE EndFetch(t) \/ FetchFaults(t)
      BY <2>2, <3>5 DEF EndFetch, FetchFaults
    <3>6. QED
      BY <1>5, <3>3, <3>4, <3>5
  <2>4. fetch'[t].st # "ask" /\ \A u \in Titles \ {t} : fetch'[u] = fetch[u]
    BY <2>3 DEF IInv, FetchesOK
  <2>5. QED
    BY <1>2, <2>1, <2>4
<1>6. ASSUME NEW p \in Renders,
             CheckRender(p) \/ ReadOriginal(p) \/ WriteRender(p) \/ DrawFaults(p) \/ EndDraw(p) \/ EvictRender(p)
      PROVE  Quiet /\ AsksNothing
  <2>1. UNCHANGED <<record, missed, clock, fetch>>
    BY <1>6 DEF CheckRender, ReadOriginal, WriteRender, DrawFaults, EndDraw, EvictRender, envVars, histVars
  <2>2. QED
    BY <1>2, <2>1
<1>7. ASSUME \/ (\E s \in Shas : EvictOriginal(s)) \/ Tick \/ UNCHANGED vars
             \/ \E t \in Titles, n \in Names : Rebuild(t, n)
      PROVE  Quiet /\ AsksNothing
  <2>1. UNCHANGED <<record, missed, fetch>> /\ (clock' = clock \/ clock' = clock + 1)
    BY <1>7 DEF EvictOriginal, Tick, Rebuild, vars, envVars, histVars
  <2>2. QED
    BY <1>2, <2>1
<1>8. ASSUME NEW t \in Titles, CheckRecord(t) \/ RecordMiss(t) \/ RecordHit(t) \/ Remember(t) PROVE BackoffInv'
  BY <1>8, CheckAsksAnew, MissIsRecorded, MissIsCleared
<1>9. ASSUME NEW p \in Renders, DropPointer(p) PROVE BackoffInv'
  BY <1>9, MissIsCleared
<1> HIDE DEF Quiet, AsksNothing
<1>10. QED
  BY <1>1, <1>3, <1>4, <1>5, <1>6, <1>7, <1>8, <1>9 DEF Next, Fetch, Draw

\* Upstream is not asked twice running with what has just missed: a request may
\* bypass the back-off once per change of what is known, not once per request
\* (ResolvedKnowsMore).
THEOREM BackoffIsHonoured == Spec => BackoffHonoured
<1> DEFINE Asks == \A t \in Titles : fetch[t].st = "ask" /\ fetch'[t].st # "ask"
                      => missed[t].id # fetch[t].known \/ missed[t].until <= clock
<1>1. Init => BackoffInv
  BY DataAssumption, NoMissHolds, Values DEF Init, BackoffInv, MissKept, AsksAnew
<1>2. BackoffInv => Asks
  BY DEF BackoffInv, AsksAnew
<1>3. IInv /\ BackoffInv /\ [Next]_vars => (IInv /\ BackoffInv)' /\ [Asks]_vars
  BY <1>2, InvStep, BackoffStep
<1>4. QED
  BY <1>1, <1>3, InvInit, PTL DEF Spec, BackoffHonoured

-----------------------------------------------------------------------------
(* The refetch.                                                              *)

\* Has lost its original, or is back from having lost it.
Refetching(q) ==
    \/ q.pass = 2 /\ q.pc \notin {"idle", "served", "null", "error"}
    \/ q.pc = "drawn" /\ q.gone

\* A request that nothing disturbs and that refetches has a record that points to
\* an original on disk or to none, and so does what it carries itself; it does not
\* lose its original a second time.
RefetchOK(r) ==
    /\ req[r].pc \notin {"idle", "served", "null", "error"} => req[r].pass \in {1, 2}
    /\ req[r].pc \in {"idle", "served", "null"} => req[r].pass = 0
    /\ req[r].pc \notin {"idle", "served"} /\ req[r].title \in Titles \cap disturbed => r \in disturbed
    /\ r \notin disturbed =>
         /\ Refetching(req[r]) => record[req[r].title].sha \in originals \cup {None}
         /\ req[r].pass = 2 /\ req[r].pc \in {"fetched", "read", "joinDraw", "drawing"}
               => req[r].rec.sha \in originals \cup {None}
         /\ ~(req[r].pass = 2 /\ req[r].pc = "drawn" /\ req[r].gone)
         /\ ~(req[r].pc = "null" /\ req[r].why = "goneAgain")

\* What a fetch has stored stays while nothing disturbs it.
StoredStays == \A t \in Titles \ disturbed : fetch[t].st = "point" => fetch[t].sha \in originals

\* A running render's creator, if it has not left, waits for it, and finds its
\* original gone in its second pass only if it was disturbed.
CreatorWaits ==
    \A p \in Renders, c \in Requests : draw[p].st \in DrawRunning /\ draw[p].creator = c =>
        /\ req[c].pc = "drawing" /\ Path(c) = p
        /\ draw[p].st = "drop" => c \in disturbed \/ req[c].pass # 2

RefetchInv == (\A r \in Requests : RefetchOK(r)) /\ StoredStays /\ CreatorWaits

\* Requests and titles are told apart in disturbed.
LEMMA Apart == \A t \in Titles : t \notin Requests
  BY DataAssumption

\* A running render's creator is one of the requests that wait for it.
LEMMA Steady ==
  ASSUME RefetchInv, NEW W \in SUBSET Requests, \A r \in W : req[r].pc # "drawing",
         \A c \in Requests \ W : req'[c] = req[c], UNCHANGED draw,
         \A r \in Requests \ W : r \in disturbed => r \in disturbed'
  PROVE  CreatorWaits'
<1> SUFFICES ASSUME NEW p \in Renders, NEW c \in Requests, draw[p].st \in DrawRunning, draw[p].creator = c
             PROVE  /\ req'[c].pc = "drawing" /\ Path(c)' = p
                    /\ draw[p].st = "drop" => c \in disturbed' \/ req'[c].pass # 2
  BY DEF CreatorWaits
<1>1. req[c].pc = "drawing" /\ Path(c) = p /\ (draw[p].st = "drop" => c \in disturbed \/ req[c].pass # 2)
  BY DEF RefetchInv, CreatorWaits
<1>2. c \notin W /\ req'[c] = req[c]
  BY <1>1
<1>3. QED
  BY <1>1, <1>2 DEF Path

\* A request that does not move stays as it should be, if nothing it relies on goes.
LEMMA StaysOK ==
  ASSUME RefetchInv, NEW r \in Requests, req'[r] = req[r], originals \subseteq originals',
         r \in disturbed => r \in disturbed', Titles \cap disturbed' \subseteq disturbed,
         r \notin disturbed /\ Refetching(req[r]) =>
             record'[req[r].title].sha \in {record[req[r].title].sha, None} \cup originals'
  PROVE  RefetchOK(r)'
  BY DEF RefetchInv, RefetchOK, Refetching

\* One request moves, and waits for no render.
LEMMA RequestMoves ==
  ASSUME IInv, RefetchInv, NEW r \in Requests, NEW q, req' = [req EXCEPT ![r] = q], req[r].pc # "drawing",
         UNCHANGED <<record, originals, draw>>,
         \A t \in Titles : fetch'[t] = fetch[t] \/ fetch'[t].st # "point",
         \A x : x # r => (x \in disturbed' <=> x \in disturbed),
         RefetchOK(r)'
  PROVE  RefetchInv'
<1>1. \A o \in Requests \ {r} : req'[o] = req[o]
  BY DEF IInv, RequestsOK
<1>2. Titles \cap disturbed' = Titles \cap disturbed
  BY Apart
<1>3. ASSUME NEW o \in Requests \ {r} PROVE RefetchOK(o)'
  BY <1>1, <1>2, StaysOK
<1>4. StoredStays'
  BY <1>2 DEF RefetchInv, StoredStays
<1>5. CreatorWaits'
  <2>1. {r} \in SUBSET Requests /\ \A o \in {r} : req[o].pc # "drawing"
    OBVIOUS
  <2>2. \A o \in Requests \ {r} : req'[o] = req[o] /\ (o \in disturbed => o \in disturbed')
    BY <1>1
  <2>3. QED
    BY <2>1, <2>2, Steady
<1>6. QED
  BY <1>3, <1>4, <1>5 DEF RefetchInv

\* The same, when nothing but the request changes and it keeps its title.
LEMMA RequestAlone ==
  ASSUME IInv, RefetchInv, NEW r \in Requests, NEW q, req' = [req EXCEPT ![r] = q],
         req[r].pc \notin {"idle", "drawing"},
         UNCHANGED <<record, originals, fetch, draw, disturbed>>,
         RefetchOK(r)'
  PROVE  RefetchInv'
  BY RequestMoves

LEMMA Answered ==
  ASSUME IInv, RefetchInv, NEW r \in Requests, req[r].pc \notin {"idle", "served", "drawing"},
         UNCHANGED <<record, originals, fetch, draw, disturbed>>,
         \/ AnswerArt(r)
         \/ \E why : AnswerNull(r, why) /\ (why = "goneAgain" => r \in disturbed)
  PROVE  RefetchInv'
<1>1. CASE AnswerArt(r)
  <2> DEFINE q == [IdleRequest EXCEPT !.pc = "served"]
  <2>1. q.pc = "served" /\ q.pass = 0 /\ q.title = None
    BY DEF IdleRequest
  <2>2. req' = [req EXCEPT ![r] = q] /\ req'[r] = q
    BY <1>1 DEF AnswerArt, IInv, RequestsOK
  <2> HIDE DEF q
  <2>3. RefetchOK(r)'
    BY <2>1, <2>2 DEF RefetchOK, Refetching
  <2>4. QED
    BY <2>2, <2>3, RequestAlone
<1>2. ASSUME NEW why, AnswerNull(r, why), why = "goneAgain" => r \in disturbed PROVE RefetchInv'
  <2> DEFINE q == [IdleRequest EXCEPT !.pc = "null", !.why = why, !.title = req[r].title, !.id = req[r].id]
  <2>1. q.pc = "null" /\ q.pass = 0 /\ q.title = req[r].title /\ q.why = why
    BY DEF IdleRequest
  <2>2. req' = [req EXCEPT ![r] = q] /\ req'[r] = q
    BY <1>2 DEF AnswerNull, IInv, RequestsOK
  <2> HIDE DEF q
  <2>3. RefetchOK(r)'
    BY <1>2, <2>1, <2>2 DEF RefetchInv, RefetchOK, Refetching
  <2>4. QED
    BY <2>2, <2>3, RequestAlone
<1>3. QED
  BY <1>1, <1>2

\* A request moves on with what it has.
LEMMA GoesOn ==
  ASSUME IInv, RefetchInv, NEW r \in Requests, NEW pc \in RequestPcs, Goto(r, pc),
         req[r].pc \notin {"idle", "served", "null", "error", "drawing"},
         UNCHANGED <<record, originals, draw>>,
         \A t \in Titles : fetch'[t] = fetch[t] \/ fetch'[t].st # "point",
         disturbed' = disturbed \/ disturbed' = disturbed \cup {r},
         \/ pc \in {"join", "fetching", "error"}
         \/ pc = "joinDraw" /\ req[r].pc = "read"
         \/ pc = "read" /\ req[r].pc = "fetched"
  PROVE  RefetchInv'
<1> DEFINE q == [req[r] EXCEPT !.pc = pc]
<1>1. req' = [req EXCEPT ![r] = q] /\ req'[r] = q
  BY DEF Goto, IInv, RequestsOK
<1>2. q.pc = pc /\ q.pass = req[r].pass /\ q.title = req[r].title /\ q.rec = req[r].rec
  BY DEF IInv, RequestsOK, RequestOK, RequestState
<1> HIDE DEF q
<1>3. RefetchOK(r)'
  BY <1>1, <1>2, Apart DEF RefetchInv, RefetchOK, Refetching
<1>4. QED
  BY <1>1, <1>3, RequestMoves

LEMMA LookUpKeeps ==
  ASSUME IInv, RefetchInv, NEW r \in Requests, LookUp(r)
  PROVE  RefetchInv'
<1> DEFINE rec == record[req[r].title]
           q == [req[r] EXCEPT !.pc = "read", !.rec = rec]
<1>1. UNCHANGED <<record, originals, fetch, draw, disturbed>> /\ req[r].pc = "look"
  BY DEF LookUp, diskVars, histVars
<1>2. CASE rec.sha # None
  <2>1. req' = [req EXCEPT ![r] = q] /\ req'[r] = q
    BY <1>2 DEF LookUp, IInv, RequestsOK
  <2>2. q.pc = "read" /\ q.pass = req[r].pass /\ q.title = req[r].title /\ q.rec = rec
    BY DEF IInv, RequestsOK, RequestOK, RequestState
  <2> HIDE DEF q
  <2>3. RefetchOK(r)'
    BY <1>1, <2>1, <2>2 DEF RefetchInv, RefetchOK, Refetching
  <2>4. QED
    BY <1>1, <2>1, <2>3, RequestAlone
<1>3. CASE rec.sha = None /\ HeldBack(req[r].id, rec)
  BY <1>1, <1>3, Answered DEF LookUp
<1>4. CASE rec.sha = None /\ ~HeldBack(req[r].id, rec)
  <2>1. Goto(r, "join") /\ "join" \in RequestPcs
    BY <1>4 DEF LookUp, RequestPcs
  <2>2. \A t \in Titles : fetch'[t] = fetch[t]
    BY <1>1
  <2>3. QED
    BY <1>1, <2>1, <2>2, GoesOn
<1>5. QED
  BY <1>2, <1>3, <1>4

LEMMA JoinFetchKeeps ==
  ASSUME IInv, RefetchInv, NEW r \in Requests, JoinFetch(r)
  PROVE  RefetchInv'
<1> DEFINE t == req[r].title
           f == [NoFetch EXCEPT !.st = "check", !.id = req[r].id]
           q == [req[r] EXCEPT !.pc = "fetched", !.rec = fetch[t].result]
<1>1. /\ UNCHANGED <<record, originals, draw>> /\ req[r].pc = "join" /\ t \in Titles
      /\ disturbed' = IF fetch[t].st = "none" THEN disturbed ELSE disturbed \cup {r}
  BY DEF JoinFetch, diskVars, IInv, RequestsOK, RequestOK
<1>2. f.st = "check"
  BY DEF NoFetch
<1>3. fetch[t] \in FetchState
  BY <1>1 DEF IInv, FetchesOK
<1>4. CASE fetch[t].st = "done"
  <2>1. req' = [req EXCEPT ![r] = q] /\ req'[r] = q /\ UNCHANGED fetch /\ r \in disturbed'
    BY <1>1, <1>4 DEF JoinFetch, IInv, RequestsOK
  <2>2. q.pc = "fetched" /\ q.pass = req[r].pass
    BY DEF IInv, RequestsOK, RequestOK, RequestState
  <2> HIDE DEF q
  <2>3. RefetchOK(r)'
    BY <1>1, <2>1, <2>2 DEF RefetchInv, RefetchOK, Refetching
  <2>4. QED
    BY <1>1, <2>1, <2>3, RequestMoves
<1>5. CASE fetch[t].st # "done"
  <2>1. \/ Goto(r, "fetching") /\ fetch' = [fetch EXCEPT ![t] = f]
        \/ Goto(r, "fetching") /\ UNCHANGED fetch
        \/ Goto(r, "error") /\ UNCHANGED fetch
    BY <1>5 DEF JoinFetch
  <2> HIDE DEF f
  <2>2. \A u \in Titles : fetch'[u] = fetch[u] \/ fetch'[u].st # "point"
    BY <1>2, <2>1 DEF IInv, FetchesOK
  <2>3. PICK pc \in {"fetching", "error"} : Goto(r, pc)
    BY <2>1
  <2>4. pc \in RequestPcs /\ (disturbed' = disturbed \/ disturbed' = disturbed \cup {r})
    BY <1>1 DEF RequestPcs
  <2>5. UNCHANGED <<record, originals, draw>> /\ req[r].pc \notin {"idle", "served", "null", "error", "drawing"}
    BY <1>1
  <2> HIDE DEF t
  <2>6. QED
    BY <2>2, <2>3, <2>4, <2>5, GoesOn
<1>6. QED
  BY <1>4, <1>5

LEMMA FetchedKeeps ==
  ASSUME IInv, RefetchInv, NEW r \in Requests, Fetched(r) \/ ReadRender(r)
  PROVE  RefetchInv'
<1>1. UNCHANGED <<record, originals, fetch, draw, disturbed>> /\ req[r].pc \in {"fetched", "read"}
  BY DEF Fetched, ReadRender, diskVars, histVars
<1>2. CASE (\E why : AnswerNull(r, why) /\ why = "upstream") \/ AnswerArt(r)
  BY <1>1, <1>2, Answered
<1>3. CASE (Goto(r, "read") /\ req[r].pc = "fetched") \/ (Goto(r, "joinDraw") /\ req[r].pc = "read")
  <2>1. PICK pc \in {"read", "joinDraw"} : Goto(r, pc) /\ req[r].pc = IF pc = "read" THEN "fetched" ELSE "read"
    BY <1>3
  <2>2. pc \in RequestPcs /\ \A t \in Titles : fetch'[t] = fetch[t]
    BY <1>1 DEF RequestPcs
  <2>3. QED
    BY <1>1, <2>1, <2>2, GoesOn
<1>4. CASE Fetched(r)
  BY <1>2, <1>3, <1>4 DEF Fetched
<1>5. CASE ReadRender(r)
  BY <1>2, <1>3, <1>5 DEF ReadRender
<1>6. QED
  BY <1>4, <1>5

LEMMA DrawnKeeps ==
  ASSUME IInv, RefetchInv, NEW r \in Requests, Drawn(r)
  PROVE  RefetchInv'
<1> DEFINE q == [req[r] EXCEPT !.pc = "look", !.pass = 2, !.gone = FALSE]
<1>1. UNCHANGED <<record, originals, fetch, draw, disturbed>> /\ req[r].pc = "drawn"
  BY DEF Drawn, diskVars, histVars
<1>2. CASE req[r].gone /\ req[r].pass = 1
  <2>1. req' = [req EXCEPT ![r] = q] /\ req'[r] = q
    BY <1>2 DEF Drawn, IInv, RequestsOK
  <2>2. q.pc = "look" /\ q.pass = 2 /\ q.title = req[r].title
    BY DEF IInv, RequestsOK, RequestOK, RequestState
  <2> HIDE DEF q
  <2>3. RefetchOK(r)'
    BY <1>1, <1>2, <2>1, <2>2 DEF RefetchInv, RefetchOK, Refetching
  <2>4. QED
    BY <1>1, <2>1, <2>3, RequestAlone
<1>3. CASE ~(req[r].gone /\ req[r].pass = 1)
  <2>1. AnswerArt(r) \/ \E why : AnswerNull(r, why) /\ (why = "goneAgain" => req[r].gone)
    BY <1>3 DEF Drawn
  <2>2. req[r].gone => r \in disturbed
    BY <1>1, <1>3 DEF RefetchInv, RefetchOK
  <2>3. QED
    BY <1>1, <2>1, <2>2, Answered
<1>4. QED
  BY <1>2, <1>3

LEMMA JoinDrawKeeps ==
  ASSUME IInv, RefetchInv, NEW r \in Requests, JoinDraw(r)
  PROVE  RefetchInv'
<1> DEFINE p == Path(r)
           d == [NoDraw EXCEPT !.st = "check", !.creator = r]
           drawn == [req[r] EXCEPT !.pc = "drawn", !.bytes = draw[p].bytes, !.gone = FALSE]
           drawing == [req[r] EXCEPT !.pc = "drawing"]
<1>1. UNCHANGED <<record, originals, fetch, disturbed>> /\ req[r].pc = "joinDraw"
  BY DEF JoinDraw, diskVars, histVars
<1>2. p \in Renders
  BY <1>1, PathIsRender DEF IInv
<1>3. /\ drawn.pc = "drawn" /\ drawn.pass = req[r].pass /\ drawn.title = req[r].title /\ drawn.gone = FALSE
      /\ drawing.pc = "drawing" /\ drawing.pass = req[r].pass /\ drawing.title = req[r].title
      /\ drawing.rec = req[r].rec /\ drawing.opts = req[r].opts
  BY DEF IInv, RequestsOK, RequestOK, RequestState
<1>4. CASE draw[p].st = "done"
  <2>1. req' = [req EXCEPT ![r] = drawn] /\ req'[r] = drawn /\ UNCHANGED draw
    BY <1>4 DEF JoinDraw, IInv, RequestsOK
  <2> HIDE DEF drawn
  <2>2. RefetchOK(r)'
    BY <1>1, <1>3, <2>1 DEF RefetchInv, RefetchOK, Refetching
  <2>3. QED
    BY <1>1, <2>1, <2>2, RequestAlone
<1>5. CASE draw[p].st = "faulted"
  <2>1. Goto(r, "error") /\ UNCHANGED draw /\ "error" \in RequestPcs
    BY <1>5 DEF JoinDraw, RequestPcs
  <2>2. \A t \in Titles : fetch'[t] = fetch[t]
    BY <1>1
  <2>3. QED
    BY <1>1, <2>1, <2>2, GoesOn
<1>6. CASE draw[p].st \notin {"done", "faulted"}
  <2>1. Goto(r, "drawing") /\ ((draw' = [draw EXCEPT ![p] = d] /\ draw[p].st = "none") \/ UNCHANGED draw)
    BY <1>6 DEF JoinDraw
  <2>2. req' = [req EXCEPT ![r] = drawing] /\ req'[r] = drawing /\ \A o \in Requests \ {r} : req'[o] = req[o]
    BY <2>1 DEF Goto, IInv, RequestsOK
  <2> HIDE DEF drawing
  <2>3. RefetchOK(r)'
    BY <1>1, <1>3, <2>2 DEF RefetchInv, RefetchOK, Refetching
  <2>4. CASE UNCHANGED draw
    BY <1>1, <2>2, <2>3, <2>4, RequestAlone
  <2>5. CASE draw' = [draw EXCEPT ![p] = d] /\ draw[p].st = "none"
    <3>1. d.st = "check" /\ d.creator = r
      BY DEF NoDraw
    <3>2. draw'[p] = d /\ \A o \in Renders \ {p} : draw'[o] = draw[o]
      BY <1>2, <2>5 DEF IInv, DrawsOK
    <3>3. Path(r)' = p
      BY <1>3, <2>2 DEF Path
    <3> HIDE DEF d, p
    <3>4. CreatorWaits'
      <4> SUFFICES ASSUME NEW o \in Renders, NEW c \in Requests, draw'[o].st \in DrawRunning, draw'[o].creator = c
                   PROVE  /\ req'[c].pc = "drawing" /\ Path(c)' = o
                          /\ draw'[o].st = "drop" => c \in disturbed' \/ req'[c].pass # 2
        BY DEF CreatorWaits
      <4>1. CASE o = p
        BY <1>3, <2>2, <3>1, <3>2, <3>3, <4>1
      <4>2. CASE o # p
        <5>1. /\ draw'[o] = draw[o] /\ req[c].pc = "drawing" /\ Path(c) = o
              /\ draw[o].st = "drop" => c \in disturbed \/ req[c].pass # 2
          BY <3>2, <4>2 DEF RefetchInv, CreatorWaits
        <5>2. c # r
          BY <1>1, <5>1
        <5>3. req'[c] = req[c]
          BY <2>2, <5>2
        <5>4. QED
          BY <1>1, <5>1, <5>3 DEF Path
      <4>3. QED
        BY <4>1, <4>2
    <3>5. ASSUME NEW o \in Requests \ {r} PROVE RefetchOK(o)'
      BY <1>1, <2>2, StaysOK
    <3>6. StoredStays'
      BY <1>1 DEF RefetchInv, StoredStays
    <3>7. QED
      BY <2>3, <3>4, <3>5, <3>6 DEF RefetchInv
  <2>6. QED
    BY <2>1, <2>4, <2>5
<1>7. QED
  BY <1>4, <1>5, <1>6

LEMMA LeaveKeeps ==
  ASSUME IInv, RefetchInv, NEW r \in Requests, Leave(r)
  PROVE  RefetchInv'
<1>1. /\ req' = [req EXCEPT ![r] = IdleRequest] /\ disturbed' = disturbed \ {r}
      /\ UNCHANGED <<record, originals, fetch>>
  BY DEF Leave, diskVars
<1>2. req'[r] = IdleRequest /\ \A o \in Requests \ {r} : req'[o] = req[o]
  BY <1>1 DEF IInv, RequestsOK
<1>3. IdleRequest.pc = "idle" /\ IdleRequest.pass = 0
  BY DEF IdleRequest
<1>4. RefetchOK(r)'
  BY <1>2, <1>3 DEF RefetchOK, Refetching
<1>5. ASSUME NEW o \in Requests \ {r} PROVE RefetchOK(o)'
  BY <1>1, <1>2, StaysOK
<1>6. StoredStays'
  BY <1>1, Apart DEF RefetchInv, StoredStays
<1>7. CreatorWaits'
  <2> SUFFICES ASSUME NEW o \in Renders, NEW c \in Requests, draw'[o].st \in DrawRunning, draw'[o].creator = c
               PROVE  /\ req'[c].pc = "drawing" /\ Path(c)' = o
                      /\ draw'[o].st = "drop" => c \in disturbed' \/ req'[c].pass # 2
    BY DEF CreatorWaits
  <2>1. draw[o] \in DrawState
    BY DEF IInv, DrawsOK
  <2>2. draw'[o] = IF draw[o].creator = r THEN [draw[o] EXCEPT !.creator = None] ELSE draw[o]
    BY DEF Leave
  <2>3. [draw[o] EXCEPT !.creator = None].creator = None /\ None \notin Requests
    BY <2>1, DataAssumption DEF DrawState
  <2>4. draw[o].creator # r /\ draw'[o] = draw[o]
    BY <2>2, <2>3
  <2>5. /\ c # r /\ req[c].pc = "drawing" /\ Path(c) = o
        /\ draw[o].st = "drop" => c \in disturbed \/ req[c].pass # 2
    BY <2>4 DEF RefetchInv, CreatorWaits
  <2>6. QED
    BY <1>1, <1>2, <2>4, <2>5 DEF Path
<1>8. QED
  BY <1>4, <1>5, <1>6, <1>7 DEF RefetchInv

LEMMA ArriveKeeps ==
  ASSUME IInv, RefetchInv, NEW r \in Requests, NEW t \in Titles, NEW o \in Options, NEW known \in BOOLEAN,
         Arrive(r, t, o, known)
  PROVE  RefetchInv'
<1> DEFINE id == IF known THEN [canon |-> TRUE, art |-> index[t]] ELSE Unknown
           q == [IdleRequest EXCEPT !.pc = "look", !.title = t, !.opts = o, !.pass = 1, !.id = id]
<1>1. /\ req' = [req EXCEPT ![r] = q] /\ req[r].pc = "idle"
      /\ disturbed' = IF t \in disturbed THEN disturbed \cup {r} ELSE disturbed \ {r}
      /\ UNCHANGED <<record, originals, fetch, draw>>
  BY DEF Arrive, diskVars
<1>2. req'[r] = q
  BY <1>1 DEF IInv, RequestsOK
<1>3. q.pc = "look" /\ q.pass = 1 /\ q.title = t
  BY DEF IdleRequest
<1> HIDE DEF q
<1>4. RefetchOK(r)'
  BY <1>1, <1>2, <1>3, Apart DEF RefetchOK, Refetching
<1>5. \A x : x # r => (x \in disturbed' <=> x \in disturbed)
  BY <1>1
<1>6. QED
  BY <1>1, <1>4, <1>5, RequestMoves

\* The requests of W, which wait for no render, are woken; what the others rely on stays.
LEMMA WorkGoesOn ==
  ASSUME IInv, RefetchInv, NEW W \in SUBSET Requests,
         \A r \in W : req[r].pc # "drawing" /\ RefetchOK(r)',
         \A r \in Requests \ W : req'[r] = req[r],
         UNCHANGED draw, originals \subseteq originals', StoredStays',
         \A r \in Requests : r \in disturbed => r \in disturbed',
         Titles \cap disturbed' \subseteq disturbed,
         \A r \in Requests : r \notin disturbed /\ Refetching(req[r]) =>
             record'[req[r].title].sha \in {record[req[r].title].sha, None} \cup originals'
  PROVE  RefetchInv'
<1>1. ASSUME NEW r \in Requests \ W PROVE RefetchOK(r)'
  BY StaysOK
<1>2. CreatorWaits'
  BY Steady
<1>3. QED
  BY <1>1, <1>2 DEF RefetchInv

\* A step that moves no request and no render.
LEMMA NoneMoves ==
  ASSUME IInv, RefetchInv, UNCHANGED <<req, draw>>, originals \subseteq originals', StoredStays',
         \A r \in Requests : r \in disturbed => r \in disturbed',
         Titles \cap disturbed' \subseteq disturbed,
         \A t \in Titles : record'[t].sha = record[t].sha
  PROVE  RefetchInv'
<1>1. \A r \in Requests : Refetching(req[r]) => req[r].title \in Titles
  BY DEF Refetching, IInv, RequestsOK, RequestOK
<1>2. {} \in SUBSET Requests /\ \A r \in Requests \ {} : req'[r] = req[r]
  OBVIOUS
<1>3. \A r \in Requests : r \notin disturbed /\ Refetching(req[r]) =>
             record'[req[r].title].sha \in {record[req[r].title].sha, None} \cup originals'
  BY <1>1
<1>4. QED
  BY <1>2, <1>3, WorkGoesOn

\* A fetch hands its result to those who wait for it: an original on disk, or
\* none, for a request that refetches and that nothing disturbed.
LEMMA FetchDoneKeeps ==
  ASSUME IInv, RefetchInv, NEW t \in Titles, NEW result, FetchDone(t, result),
         UNCHANGED <<originals, draw, disturbed>>,
         \A u \in Titles \ {t} : record'[u] = record[u],
         \A r \in Requests : r \notin disturbed /\ req[r].title = t /\ Refetching(req[r]) =>
             {record'[t].sha, result.sha} \subseteq originals \cup {None}
  PROVE  RefetchInv'
<1> DEFINE W == AwaitingFetch(t)
           f == [NoFetch EXCEPT !.st = "done", !.result = result]
<1>1. W \in SUBSET Requests /\ \A r \in W : req[r].pc = "fetching" /\ req[r].title = t
  BY DEF AwaitingFetch
<1>2. \A r \in Requests : req'[r] = IF r \in W THEN [req[r] EXCEPT !.pc = "fetched", !.rec = result] ELSE req[r]
  BY DEF FetchDone
<1>3. f.st = "done" /\ fetch' = [fetch EXCEPT ![t] = f]
  BY DEF NoFetch, FetchDone
<1> HIDE DEF W, f
<1>4. ASSUME NEW r \in W PROVE req[r].pc # "drawing" /\ RefetchOK(r)'
  <2> DEFINE q == [req[r] EXCEPT !.pc = "fetched", !.rec = result]
  <2>1. r \in Requests /\ req'[r] = q
    BY <1>1, <1>2
  <2>2. q.pc = "fetched" /\ q.pass = req[r].pass /\ q.title = t /\ q.rec = result
    BY <1>1 DEF IInv, RequestsOK, RequestOK, RequestState
  <2> HIDE DEF q
  <2>3. RefetchOK(r)'
    BY <1>1, <2>1, <2>2 DEF RefetchInv, RefetchOK, Refetching
  <2>4. QED
    BY <1>1, <2>3
<1>5. StoredStays'
  BY <1>3 DEF RefetchInv, StoredStays, IInv, FetchesOK
<1>6. ASSUME NEW r \in Requests, r \notin disturbed, Refetching(req[r])
      PROVE  record'[req[r].title].sha \in {record[req[r].title].sha, None} \cup originals'
  <2>1. req[r].title \in Titles
    BY <1>6 DEF Refetching, IInv, RequestsOK, RequestOK
  <2>2. QED
    BY <1>6, <2>1
<1>7. QED
  BY <1>1, <1>2, <1>4, <1>5, <1>6, WorkGoesOn

LEMMA CheckRecordKeeps ==
  ASSUME IInv, RefetchInv, NEW t \in Titles, CheckRecord(t)
  PROVE  RefetchInv'
<1> DEFINE rec == record[t]
           f == [fetch[t] EXCEPT !.st = "ask", !.known = BuildIdentity(t, rec, fetch[t].id)]
<1>1. UNCHANGED <<record, originals, draw, disturbed>>
  BY DEF CheckRecord, diskVars, histVars
<1>2. \A r \in Requests : r \notin disturbed /\ req[r].title = t /\ Refetching(req[r]) =>
          rec.sha \in originals \cup {None}
  BY DEF RefetchInv, RefetchOK
<1>3. CASE rec.sha # None
  BY <1>1, <1>2, <1>3, FetchDoneKeeps DEF CheckRecord
<1>4. CASE rec.sha = None /\ HeldBack(fetch[t].id, rec)
  BY <1>1, <1>2, <1>4, Values, FetchDoneKeeps DEF CheckRecord
<1>5. CASE rec.sha = None /\ ~HeldBack(fetch[t].id, rec)
  <2>1. fetch' = [fetch EXCEPT ![t] = f] /\ UNCHANGED req
    BY <1>5 DEF CheckRecord
  <2>2. f.st = "ask"
    BY DEF IInv, FetchesOK, FetchState
  <2> HIDE DEF f
  <2>3. StoredStays'
    BY <1>1, <2>1, <2>2 DEF RefetchInv, StoredStays, IInv, FetchesOK
  <2>4. QED
    BY <1>1, <2>1, <2>3, NoneMoves
<1>6. QED
  BY <1>3, <1>4, <1>5

LEMMA AskUpstreamKeeps ==
  ASSUME IInv, RefetchInv, NEW t \in Titles, AskUpstream(t)
  PROVE  RefetchInv'
<1>1. UNCHANGED <<record, originals, req, draw, disturbed>>
  BY DEF AskUpstream, diskVars
<1>2. fetch[t] \in FetchState
  BY DEF IInv, FetchesOK
<1>3. PICK f : fetch' = [fetch EXCEPT ![t] = f] /\ f.st # "point"
  <2>1. \A s, b : /\ [fetch[t] EXCEPT !.st = "store", !.sha = s].st = "store"
                  /\ [fetch[t] EXCEPT !.st = "miss", !.backoff = b].st = "miss"
    BY <1>2 DEF FetchState
  <2>2. CASE \E s \in Covers[t] : fetch' = [fetch EXCEPT ![t].st = "store", ![t].sha = s]
    <3>1. PICK s \in Covers[t] : fetch' = [fetch EXCEPT ![t] = [fetch[t] EXCEPT !.st = "store", !.sha = s]]
      BY <2>2
    <3>2. QED
      BY <2>1, <3>1
  <2>3. CASE \E b : fetch' = [fetch EXCEPT ![t].st = "miss", ![t].backoff = b]
    <3>1. PICK b : fetch' = [fetch EXCEPT ![t] = [fetch[t] EXCEPT !.st = "miss", !.backoff = b]]
      BY <2>3
    <3>2. QED
      BY <2>1, <3>1
  <2>4. QED
    BY <2>2, <2>3 DEF AskUpstream
<1>4. StoredStays'
  BY <1>1, <1>3 DEF RefetchInv, StoredStays, IInv, FetchesOK
<1>5. QED
  BY <1>1, <1>4, NoneMoves

LEMMA StoreOriginalKeeps ==
  ASSUME IInv, RefetchInv, NEW t \in Titles, StoreOriginal(t)
  PROVE  RefetchInv'
<1> DEFINE f == [fetch[t] EXCEPT !.st = "point"]
<1>1. /\ UNCHANGED <<record, req, draw, disturbed>> /\ originals' = originals \cup {fetch[t].sha}
      /\ fetch' = [fetch EXCEPT ![t] = f]
  BY DEF StoreOriginal, histVars
<1>2. f.sha = fetch[t].sha
  BY DEF IInv, FetchesOK, FetchState
<1> HIDE DEF f
<1>3. StoredStays'
  BY <1>1, <1>2 DEF RefetchInv, StoredStays, IInv, FetchesOK
<1>4. QED
  BY <1>1, <1>3, NoneMoves

LEMMA RecordMissKeeps ==
  ASSUME IInv, RefetchInv, NEW t \in Titles, RecordMiss(t)
  PROVE  RefetchInv'
<1> DEFINE rec == [record[t] EXCEPT !.missUntil = clock + fetch[t].backoff, !.id = Learned(record[t], fetch[t].known)]
<1>1. /\ FetchDone(t, EmptyRecord) /\ record' = [record EXCEPT ![t] = rec]
      /\ UNCHANGED <<originals, draw, disturbed>>
  BY DEF RecordMiss, diskVars
<1>2. rec.sha = record[t].sha
  BY DEF IInv, RecordsOK, Record
<1> HIDE DEF rec
<1>3. record'[t] = rec /\ \A u \in Titles \ {t} : record'[u] = record[u]
  BY <1>1 DEF IInv, RecordsOK
<1>4. \A r \in Requests : r \notin disturbed /\ req[r].title = t /\ Refetching(req[r]) =>
          rec.sha \in originals \cup {None}
  BY <1>2 DEF RefetchInv, RefetchOK
<1>5. QED
  BY <1>1, <1>3, <1>4, Values, FetchDoneKeeps

\* What the fetch stored is still there for whom nothing disturbed.
LEMMA RecordHitKeeps ==
  ASSUME IInv, RefetchInv, NEW t \in Titles, RecordHit(t)
  PROVE  RefetchInv'
<1> DEFINE rec == [sha |-> fetch[t].sha, missUntil |-> 0, id |-> Learned(record[t], fetch[t].known)]
<1>1. /\ FetchDone(t, rec) /\ record' = [record EXCEPT ![t] = rec] /\ fetch[t].st = "point"
      /\ UNCHANGED <<originals, draw, disturbed>>
  BY DEF RecordHit, diskVars
<1>2. rec.sha = fetch[t].sha
  OBVIOUS
<1> HIDE DEF rec
<1>3. record'[t] = rec /\ \A u \in Titles \ {t} : record'[u] = record[u]
  BY <1>1 DEF IInv, RecordsOK
<1>4. ASSUME NEW r \in Requests, r \notin disturbed, req[r].title = t, Refetching(req[r])
      PROVE  rec.sha \in originals
  <2>1. t \notin disturbed
    BY <1>4 DEF RefetchInv, RefetchOK, Refetching
  <2>2. QED
    BY <1>1, <1>2, <2>1 DEF RefetchInv, StoredStays
<1>5. QED
  BY <1>1, <1>3, <1>4, FetchDoneKeeps

\* Whoever's flight threw has an error, and nothing to refetch.
LEMMA ErrorOK ==
  ASSUME IInv, RefetchInv, NEW r \in Requests, req[r].pc \in {"fetching", "drawing"},
         req'[r] = [req[r] EXCEPT !.pc = "error"], UNCHANGED disturbed
  PROVE  RefetchOK(r)'
<1> DEFINE q == [req[r] EXCEPT !.pc = "error"]
<1>1. req'[r] = q /\ q.pc = "error" /\ q.title = req[r].title
  BY DEF IInv, RequestsOK, RequestOK, RequestState
<1> HIDE DEF q
<1>2. QED
  BY <1>1 DEF RefetchInv, RefetchOK, Refetching

LEMMA FetchFaultsKeeps ==
  ASSUME IInv, RefetchInv, NEW t \in Titles, FetchFaults(t)
  PROVE  RefetchInv'
<1> DEFINE W == AwaitingFetch(t)
           f == [NoFetch EXCEPT !.st = "faulted"]
<1>1. /\ UNCHANGED <<record, draw, disturbed>> /\ originals \subseteq originals'
      /\ fetch' = [fetch EXCEPT ![t] = f]
      /\ \A r \in Requests : req'[r] = IF r \in W THEN [req[r] EXCEPT !.pc = "error"] ELSE req[r]
  BY DEF FetchFaults, histVars
<1>2. W \in SUBSET Requests /\ f.st = "faulted" /\ \A r \in W : req[r].pc = "fetching"
  BY DEF AwaitingFetch, NoFetch
<1> HIDE DEF W, f
<1>3. \A r \in W : req[r].pc # "drawing" /\ RefetchOK(r)'
  BY <1>1, <1>2, ErrorOK
<1>4. StoredStays'
  BY <1>1, <1>2 DEF RefetchInv, StoredStays, IInv, FetchesOK
<1>5. QED
  BY <1>1, <1>2, <1>3, <1>4, WorkGoesOn

\* The end of a fetch forgets that it was disturbed, not that a request was.
LEMMA EndFetchKeeps ==
  ASSUME IInv, RefetchInv, NEW t \in Titles, EndFetch(t)
  PROVE  RefetchInv'
<1>1. /\ UNCHANGED <<record, originals, req, draw>> /\ disturbed' = disturbed \ {t}
      /\ fetch' = [fetch EXCEPT ![t] = NoFetch] /\ NoFetch.st = "none"
  BY DEF EndFetch, diskVars, NoFetch
<1>2. StoredStays'
  BY <1>1 DEF RefetchInv, StoredStays, IInv, FetchesOK
<1>3. \A r \in Requests : r \in disturbed => r \in disturbed'
  BY <1>1, Apart
<1>4. QED
  BY <1>1, <1>2, <1>3, NoneMoves

\* A running render goes on; if it finds its original gone, its creator was
\* disturbed or is in its first pass.
LEMMA DrawMoves ==
  ASSUME IInv, RefetchInv, NEW p \in Renders, NEW st \in DrawRunning, draw[p].st \in DrawRunning,
         draw' = [draw EXCEPT ![p].st = st], UNCHANGED <<record, originals, req, fetch, disturbed>>,
         \A c \in Requests : draw[p].creator = c /\ st = "drop" => c \in disturbed \/ req[c].pass # 2
  PROVE  RefetchInv'
<1>1. \A r \in Requests : RefetchOK(r)'
  BY DEF RefetchInv, RefetchOK
<1>2. StoredStays'
  BY DEF RefetchInv, StoredStays
<1>3. CreatorWaits'
  <2>1. draw'[p].st = st /\ draw'[p].creator = draw[p].creator /\ \A o \in Renders \ {p} : draw'[o] = draw[o]
    BY DEF IInv, DrawsOK, DrawState
  <2>2. \A c \in Requests : Path(c)' = Path(c)
    BY DEF Path
  <2>3. QED
    BY <2>1, <2>2 DEF RefetchInv, CreatorWaits
<1>4. QED
  BY <1>1, <1>2, <1>3 DEF RefetchInv

\* A render ends, and the requests that wait for it are woken.
LEMMA DrawWakes ==
  ASSUME IInv, RefetchInv, NEW p \in Renders, NEW d, d.st \notin DrawRunning,
         draw' = [draw EXCEPT ![p] = d],
         \A r \in AwaitingDraw(p) : RefetchOK(r)',
         \A r \in Requests \ AwaitingDraw(p) : req'[r] = req[r],
         UNCHANGED <<originals, fetch, disturbed>>,
         \A t \in Titles : record'[t].sha \in {record[t].sha, None}
  PROVE  RefetchInv'
<1>1. ASSUME NEW r \in Requests \ AwaitingDraw(p) PROVE RefetchOK(r)'
  <2>1. Refetching(req[r]) => req[r].title \in Titles
    BY DEF Refetching, IInv, RequestsOK, RequestOK
  <2>2. QED
    BY <2>1, StaysOK
<1>2. StoredStays'
  BY DEF RefetchInv, StoredStays
<1>3. CreatorWaits'
  <2> SUFFICES ASSUME NEW o \in Renders, NEW c \in Requests, draw'[o].st \in DrawRunning, draw'[o].creator = c
               PROVE  /\ req'[c].pc = "drawing" /\ Path(c)' = o
                      /\ draw'[o].st = "drop" => c \in disturbed' \/ req'[c].pass # 2
    BY DEF CreatorWaits
  <2>1. o # p /\ draw'[o] = draw[o]
    BY DEF IInv, DrawsOK
  <2>2. /\ req[c].pc = "drawing" /\ Path(c) = o
        /\ draw[o].st = "drop" => c \in disturbed \/ req[c].pass # 2
    BY <2>1 DEF RefetchInv, CreatorWaits
  <2>3. req'[c] = req[c]
    BY <2>1, <2>2 DEF AwaitingDraw
  <2>4. QED
    BY <2>1, <2>2, <2>3 DEF Path
<1>4. QED
  BY <1>1, <1>2, <1>3 DEF RefetchInv, AwaitingDraw

\* A render that ends without its original has cleared the pointer, and tells its
\* creator alone.
LEMMA DrawDoneKeeps ==
  ASSUME IInv, RefetchInv, NEW p \in Renders, NEW bytes, NEW gone \in BOOLEAN, DrawDone(p, bytes, gone),
         draw[p].st \in DrawRunning, gone => draw[p].st = "drop" /\ record'[p[1]].sha = None,
         UNCHANGED <<originals, fetch, disturbed>>,
         \A t \in Titles : record'[t].sha \in {record[t].sha, None}
  PROVE  RefetchInv'
<1> DEFINE d == [draw[p] EXCEPT !.st = "done", !.bytes = bytes, !.gone = gone]
<1>1. draw' = [draw EXCEPT ![p] = d]
  BY DEF DrawDone
<1>2. d.st = "done" /\ d.creator = draw[p].creator /\ d.gone = gone
  BY DEF IInv, DrawsOK, DrawState
<1>3. \A r \in Requests : req'[r] = IF r \in AwaitingDraw(p)
          THEN [req[r] EXCEPT !.pc = "drawn", !.bytes = bytes, !.gone = GoneFor(r, d)] ELSE req[r]
  BY DEF DrawDone
<1> HIDE DEF d
<1>4. ASSUME NEW r \in AwaitingDraw(p) PROVE RefetchOK(r)'
  <2> DEFINE q == [req[r] EXCEPT !.pc = "drawn", !.bytes = bytes, !.gone = GoneFor(r, d)]
  <2>1. r \in Requests /\ req[r].pc = "drawing" /\ Path(r) = p /\ req'[r] = q
    BY <1>3 DEF AwaitingDraw
  <2>2. /\ q.pc = "drawn" /\ q.pass = req[r].pass /\ q.title = req[r].title
        /\ q.gone <=> (draw[p].creator = r /\ gone)
    BY <1>2, <2>1, ZenonT(40) DEF IInv, RequestsOK, RequestOK, RequestState, GoneFor
  <2> HIDE DEF q
  <2>3. req[r].title = p[1] /\ req[r].title \in Titles
    BY <2>1 DEF Path, IInv, RequestsOK, RequestOK
  <2>4. req[r].pass \in {1, 2} /\ (req[r].title \in disturbed => r \in disturbed)
    BY <2>1, <2>3 DEF RefetchInv, RefetchOK
  <2>5. q.gone /\ q.pass = 2 => r \in disturbed
    BY <2>1, <2>2 DEF RefetchInv, CreatorWaits
  <2>6. r \notin disturbed /\ Refetching(q) => record'[q.title].sha \in originals \cup {None}
    BY <2>1, <2>2, <2>3 DEF RefetchInv, RefetchOK, Refetching
  <2>7. QED
    BY <2>1, <2>2, <2>4, <2>5, <2>6 DEF RefetchOK
<1>5. QED
  BY <1>1, <1>2, <1>3, <1>4, DrawWakes DEF DrawRunning

LEMMA CheckRenderKeeps ==
  ASSUME IInv, RefetchInv, NEW p \in Renders, CheckRender(p)
  PROVE  RefetchInv'
<1>1. UNCHANGED <<record, originals, fetch, disturbed>> /\ draw[p].st = "check"
  BY DEF CheckRender, diskVars, histVars
<1>2. CASE p \in renders
  BY <1>1, <1>2, DrawDoneKeeps DEF CheckRender, DrawRunning
<1>3. CASE p \notin renders
  <2>1. draw' = [draw EXCEPT ![p].st = "original"] /\ UNCHANGED req
    BY <1>3 DEF CheckRender
  <2>2. QED
    BY <1>1, <2>1, DrawMoves DEF DrawRunning
<1>4. QED
  BY <1>2, <1>3

\* A creator in its second pass that nothing disturbed has an original on disk.
LEMMA ReadOriginalKeeps ==
  ASSUME IInv, RefetchInv, NEW p \in Renders, ReadOriginal(p)
  PROVE  RefetchInv'
<1>1. UNCHANGED <<record, originals, fetch, disturbed>> /\ draw[p].st = "original"
  BY DEF ReadOriginal, diskVars, histVars
<1>2. CASE p[2] \in originals \cap Broken
  <2>1. DrawDone(p, FALSE, FALSE)
    BY <1>2 DEF ReadOriginal
  <2>2. QED
    BY <1>1, <2>1, DrawDoneKeeps DEF DrawRunning
<1>3. CASE p[2] \notin originals \cap Broken
  <2>1. PICK st \in {"drop", "write"} : /\ draw' = [draw EXCEPT ![p].st = st] /\ UNCHANGED req
                                        /\ st = "drop" => p[2] \notin originals
    BY <1>3 DEF ReadOriginal
  <2>2. ASSUME NEW c \in Requests, draw[p].creator = c, st = "drop" PROVE c \in disturbed \/ req[c].pass # 2
    <3>1. req[c].pc = "drawing" /\ Path(c) = p
      BY <1>1, <2>2 DEF RefetchInv, CreatorWaits, DrawRunning
    <3>2. req[c].rec.sha = p[2] /\ req[c].rec.sha \in Shas
      BY <3>1 DEF Path, IInv, RequestsOK, RequestOK
    <3>3. req[c].rec.sha \notin originals \cup {None}
      BY <2>1, <2>2, <3>2, DataAssumption
    <3>4. QED
      BY <3>1, <3>3 DEF RefetchInv, RefetchOK
  <2>3. QED
    BY <1>1, <2>1, <2>2, DrawMoves DEF DrawRunning
<1>4. QED
  BY <1>2, <1>3

LEMMA DropPointerKeeps ==
  ASSUME IInv, RefetchInv, NEW p \in Renders, DropPointer(p)
  PROVE  RefetchInv'
<1>1. /\ UNCHANGED <<originals, fetch, disturbed>> /\ draw[p].st = "drop" /\ DrawDone(p, FALSE, TRUE)
      /\ record' = [record EXCEPT ![p[1]] = Dropped(record[p[1]])]
  BY DEF DropPointer, diskVars
<1>2. p[1] \in Titles
  BY DEF Renders
<1>3. Dropped(record[p[1]]).sha = None
  BY <1>2 DEF IInv, RecordsOK, Record, Dropped
<1>4. record'[p[1]].sha = None /\ \A t \in Titles : record'[t].sha \in {record[t].sha, None}
  BY <1>1, <1>2, <1>3 DEF IInv, RecordsOK
<1>5. QED
  BY <1>1, <1>4, DrawDoneKeeps DEF DrawRunning

LEMMA DrawEndsKeeps ==
  ASSUME IInv, RefetchInv, NEW p \in Renders, WriteRender(p) \/ DrawFaults(p) \/ EndDraw(p)
  PROVE  RefetchInv'
<1>1. UNCHANGED <<record, originals, fetch, disturbed>>
  BY DEF WriteRender, DrawFaults, EndDraw, diskVars, histVars
<1>2. CASE WriteRender(p)
  BY <1>1, <1>2, DrawDoneKeeps DEF WriteRender, DrawRunning
<1>3. CASE DrawFaults(p)
  <2> DEFINE d == [draw[p] EXCEPT !.st = "faulted"]
  <2>1. /\ draw' = [draw EXCEPT ![p] = d]
        /\ \A r \in Requests : req'[r] = IF r \in AwaitingDraw(p) THEN [req[r] EXCEPT !.pc = "error"] ELSE req[r]
    BY <1>3 DEF DrawFaults
  <2>2. d.st \notin DrawRunning
    BY DEF IInv, DrawsOK, DrawState, DrawRunning
  <2> HIDE DEF d
  <2>3. \A r \in AwaitingDraw(p) : RefetchOK(r)'
    BY <1>1, <2>1, ErrorOK DEF AwaitingDraw
  <2>4. QED
    BY <1>1, <2>1, <2>2, <2>3, DrawWakes
<1>4. CASE EndDraw(p)
  <2>1. draw' = [draw EXCEPT ![p] = NoDraw] /\ UNCHANGED req /\ NoDraw.st \notin DrawRunning
    BY <1>4 DEF EndDraw, NoDraw, DrawRunning
  <2>2. AwaitingDraw(p) = {}
    BY <1>4 DEF AwaitingDraw, EndDraw, IInv, DrawersWait, DrawRunning
  <2>3. QED
    BY <1>1, <2>1, <2>2, DrawWakes
<1>5. QED
  BY <1>2, <1>3, <1>4

\* An original that leaves the disk disturbs every request and every fetch at work.
LEMMA EvictOriginalKeeps ==
  ASSUME IInv, RefetchInv, NEW s \in Shas, EvictOriginal(s)
  PROVE  RefetchInv'
<1>1. /\ UNCHANGED <<record, req, fetch, draw>>
      /\ disturbed' = disturbed \cup {r \in Requests : req[r].pc # "idle"}
                                \cup {t \in Titles : fetch[t].st # "none"}
  BY DEF EvictOriginal
<1>2. ASSUME NEW r \in Requests PROVE RefetchOK(r)'
  <2>1. CASE req[r].pc = "idle"
    BY <1>1, <2>1 DEF RefetchInv, RefetchOK, Refetching
  <2>2. CASE req[r].pc # "idle"
    BY <1>1, <2>2 DEF RefetchInv, RefetchOK
  <2>3. QED
    BY <2>1, <2>2
<1>3. StoredStays'
  BY <1>1 DEF StoredStays
<1>4. CreatorWaits'
  <2>1. {} \in SUBSET Requests /\ \A c \in Requests \ {} : req'[c] = req[c] /\ (c \in disturbed => c \in disturbed')
    BY <1>1
  <2>2. QED
    BY <1>1, <2>1, Steady
<1>5. QED
  BY <1>2, <1>3, <1>4 DEF RefetchInv

\* The clock, the index, the renders' own eviction and identify touch no original.
LEMMA AroundKeeps ==
  ASSUME IInv, RefetchInv,
         \/ (\E p \in Renders : EvictRender(p)) \/ Tick \/ UNCHANGED vars
         \/ \E t \in Titles : Remember(t) \/ \E n \in Names : Rebuild(t, n)
  PROVE  RefetchInv'
<1>1. UNCHANGED <<originals, req, fetch, draw, disturbed>>
  BY DEF EvictRender, Tick, Remember, Rebuild, vars, diskVars, histVars
<1>2. \A t \in Titles : record'[t].sha = record[t].sha
  <2>1. ASSUME NEW t \in Titles, Remember(t) PROVE \A u \in Titles : record'[u].sha = record[u].sha
    <3>1. PICK rec : record' = [record EXCEPT ![t] = rec] /\ rec.sha = record[t].sha
      <4>1. record[t] \in Record
        BY DEF IInv, RecordsOK
      <4>2. \A id : /\ [record[t] EXCEPT !.id = id, !.missUntil = 0].sha = record[t].sha
                    /\ [record[t] EXCEPT !.id.canon = TRUE].sha = record[t].sha
        BY <4>1 DEF Record
      <4>3. \/ record' = [record EXCEPT ![t] = [record[t] EXCEPT !.id.canon = TRUE]]
            \/ \E id : record' = [record EXCEPT ![t] = [record[t] EXCEPT !.id = id, !.missUntil = 0]]
        BY <2>1 DEF Remember
      <4>4. QED
        BY <4>2, <4>3
    <3>2. QED
      BY <3>1 DEF IInv, RecordsOK
  <2>2. QED
    BY <2>1 DEF EvictRender, Tick, Rebuild, vars
<1>3. StoredStays'
  BY <1>1 DEF RefetchInv, StoredStays
<1>4. QED
  BY <1>1, <1>2, <1>3, NoneMoves

LEMMA RefetchInit == Init => RefetchInv
  BY DEF Init, RefetchInv, RefetchOK, Refetching, StoredStays, CreatorWaits, IdleRequest, NoFetch, NoDraw, DrawRunning

LEMMA RefetchStep == IInv /\ RefetchInv /\ [Next]_vars => RefetchInv'
<1> SUFFICES ASSUME IInv, RefetchInv, [Next]_vars PROVE RefetchInv'
  OBVIOUS
<1>1. ASSUME NEW r \in Requests, Serve(r) PROVE RefetchInv'
  BY <1>1, LookUpKeeps, JoinFetchKeeps, FetchedKeeps, JoinDrawKeeps, DrawnKeeps DEF Serve
<1>2. ASSUME NEW r \in Requests,
             Leave(r) \/ \E t \in Titles, o \in Options, known \in BOOLEAN : Arrive(r, t, o, known)
      PROVE  RefetchInv'
  BY <1>2, LeaveKeeps, ArriveKeeps
<1>3. ASSUME NEW t \in Titles, Fetch(t) PROVE RefetchInv'
  BY <1>3, CheckRecordKeeps, AskUpstreamKeeps, RecordMissKeeps, StoreOriginalKeeps, RecordHitKeeps,
     EndFetchKeeps, FetchFaultsKeeps DEF Fetch
<1>4. ASSUME NEW p \in Renders, Draw(p) PROVE RefetchInv'
  BY <1>4, CheckRenderKeeps, ReadOriginalKeeps, DropPointerKeeps, DrawEndsKeeps DEF Draw
<1>5. QED
  BY <1>1, <1>2, <1>3, <1>4, EvictOriginalKeeps, AroundKeeps DEF Next

\* One inline refetch is enough: a request gives up over a missing original only
\* if an original left the disk while it ran, or if it took the answer of a fetch
\* it had not started (TryGetAsync's second pass).
THEOREM RefetchIsFinal == Spec => []RefetchSticks
<1>1. RefetchInv => RefetchSticks
  BY DEF RefetchInv, RefetchOK, RefetchSticks
<1>2. QED
  BY <1>1, InvInit, InvStep, RefetchInit, RefetchStep, PTL DEF Spec
=============================================================================
