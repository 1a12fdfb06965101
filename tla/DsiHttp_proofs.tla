--------------------------- MODULE DsiHttp_proofs ---------------------------
(***************************************************************************)
(* Proofs about DsiHttp, for any number of covers, any responses a server   *)
(* may give, and any limit of stale connections.                            *)
(***************************************************************************)
EXTENDS DsiHttp, TLAPS

-----------------------------------------------------------------------------
(* The response, token by token.                                            *)

\* The i-th token of the response.
At(thing, s, i) ==
    IF i = 1 THEN Token("head", thing, s)
    ELSE IF i <= s.size + 1 THEN Token("byte", thing, NoShape)
    ELSE Token("last", thing, NoShape)
Total(s) == s.size + (IF s.chunked THEN 2 ELSE 1)

\* q is what comes after the first n tokens of the response, or the start of it.
Continues(q, thing, s, n) ==
    /\ n + Len(q) <= Total(s)
    /\ \A i \in 1 .. Len(q) : q[i] = At(thing, s, n + i)

LEMMA ShapeFacts ==
  ASSUME NEW s \in Shape
  PROVE  /\ s = [status |-> s.status, chunked |-> s.chunked, length |-> s.length,
                 size |-> s.size, reusable |-> s.reusable]
         /\ s.status \in {"200", "404", "other"}
         /\ s.chunked \in BOOLEAN /\ s.reusable \in BOOLEAN /\ s.size \in Nat /\ s.length \in Int
         /\ ~s.chunked /\ s.length >= 0 => s.length = s.size
         /\ ~s.chunked /\ s.length = NoLength => ~s.reusable
  BY ShapeAssumption

LEMMA HeadTail ==
  ASSUME NEW S, NEW q \in Seq(S), q # <<>>
  PROVE  /\ Head(q) \in S /\ Head(q) = q[1]
         /\ Tail(q) \in Seq(S) /\ Len(Tail(q)) = Len(q) - 1 /\ Len(q) \in Nat \ {0}
         /\ \A i \in 1 .. Len(q) - 1 : Tail(q)[i] = q[i + 1]
  BY SMT

LEMMA ConcatFacts ==
  ASSUME NEW S, NEW p \in Seq(S), NEW q \in Seq(S)
  PROVE  /\ p \o q \in Seq(S) /\ Len(p \o q) = Len(p) + Len(q)
         /\ \A i \in 1 .. Len(p) : (p \o q)[i] = p[i]
         /\ \A i \in 1 .. Len(q) : (p \o q)[Len(p) + i] = q[i]
         /\ p = <<>> => p \o q = q
         /\ q = <<>> => p \o q = p
  BY SMT

LEMMA Empty ==
  ASSUME NEW S
  PROVE  /\ <<>> \in Seq(S) /\ Len(<<>>) = 0
         /\ \A q \in Seq(S) : Len(q) = 0 <=> q = <<>>
  BY SMT

LEMMA NoRoom ==
  ASSUME NEW S, NEW q \in Seq(S), NEW n \in Nat, n + Len(q) <= n
  PROVE  q = <<>>
<1>1. Len(q) \in Nat
  OBVIOUS
<1> DEFINE m == Len(q)
<1>2. m \in Nat /\ n + m <= n
  BY <1>1
<1> HIDE DEF m
<1>3. m = 0
  BY <1>2
<1> QED
  BY <1>3, Empty DEF m

LEMMA BothEmpty ==
  ASSUME NEW S, NEW p \in Seq(S), NEW q \in Seq(S), p \o q = <<>>
  PROVE  p = <<>> /\ q = <<>>
<1>1. Len(p \o q) = Len(p) + Len(q)
  BY ConcatFacts
<1>2. Len(p) \in Nat /\ Len(q) \in Nat
  OBVIOUS
<1>3. Len(p \o q) = 0
  BY Empty
<1>4. Len(p) = 0 /\ Len(q) = 0
  BY <1>1, <1>2, <1>3
<1> QED
  BY <1>4, Empty

LEMMA ResponseFacts ==
  ASSUME NEW thing \in Thing, NEW s \in Shape
  PROVE  /\ Response(thing, s) \in Seq(Tokens)
         /\ Len(Response(thing, s)) = Total(s)
         /\ \A i \in 1 .. Total(s) : Response(thing, s)[i] = At(thing, s, i)
<1> DEFINE head == <<Token("head", thing, s)>>
           bytes == [i \in 1 .. s.size |-> Token("byte", thing, NoShape)]
           last == IF s.chunked THEN <<Token("last", thing, NoShape)>> ELSE <<>>
<1>1. s.size \in Nat /\ s.chunked \in BOOLEAN
  BY ShapeFacts
<1>2. /\ Token("head", thing, s) \in Tokens
      /\ Token("byte", thing, NoShape) \in Tokens
      /\ Token("last", thing, NoShape) \in Tokens
  BY DEF Tokens, Token
<1> HIDE DEF NoShape
<1>3. head \in Seq(Tokens) /\ Len(head) = 1 /\ head[1] = Token("head", thing, s)
  BY <1>2
<1>4. bytes \in Seq(Tokens) /\ Len(bytes) = s.size
      /\ \A i \in 1 .. s.size : bytes[i] = Token("byte", thing, NoShape)
  BY <1>1, <1>2
<1>5. last \in Seq(Tokens) /\ Len(last) = (IF s.chunked THEN 1 ELSE 0)
      /\ (s.chunked => last[1] = Token("last", thing, NoShape))
  BY <1>1, <1>2
<1> HIDE DEF head, bytes, last
<1>6. /\ head \o bytes \in Seq(Tokens) /\ Len(head \o bytes) = 1 + s.size
      /\ (head \o bytes)[1] = Token("head", thing, s)
      /\ \A i \in 2 .. s.size + 1 : (head \o bytes)[i] = Token("byte", thing, NoShape)
  <2>1. /\ head \o bytes \in Seq(Tokens) /\ Len(head \o bytes) = 1 + s.size
        /\ (head \o bytes)[1] = head[1]
        /\ \A i \in 1 .. s.size : (head \o bytes)[1 + i] = bytes[i]
    <3>1. /\ head \o bytes \in Seq(Tokens) /\ Len(head \o bytes) = Len(head) + Len(bytes)
          /\ \A i \in 1 .. Len(head) : (head \o bytes)[i] = head[i]
          /\ \A i \in 1 .. Len(bytes) : (head \o bytes)[Len(head) + i] = bytes[i]
      BY <1>3, <1>4, ConcatFacts
    <3> QED
      BY <1>3, <1>4, <3>1
  <2>2. ASSUME NEW i \in 2 .. s.size + 1
        PROVE  (head \o bytes)[i] = Token("byte", thing, NoShape)
    <3>1. i - 1 \in 1 .. s.size /\ 1 + (i - 1) = i
      BY <1>1
    <3> QED
      BY <2>1, <3>1, <1>4
  <2> QED
    BY <2>1, <2>2, <1>3
<1> DEFINE front == head \o bytes
<1>7. /\ front \in Seq(Tokens) /\ Len(front) = 1 + s.size
      /\ front[1] = Token("head", thing, s)
      /\ \A i \in 2 .. s.size + 1 : front[i] = Token("byte", thing, NoShape)
  BY <1>6
<1>8. Response(thing, s) = front \o last
  BY DEF Response, front, head, bytes, last
<1> HIDE DEF front
<1>9. /\ front \o last \in Seq(Tokens)
      /\ Len(front \o last) = Total(s)
      /\ \A i \in 1 .. 1 + s.size : (front \o last)[i] = front[i]
      /\ s.chunked => (front \o last)[s.size + 2] = Token("last", thing, NoShape)
  <2>1. /\ front \o last \in Seq(Tokens)
        /\ Len(front \o last) = 1 + s.size + Len(last)
        /\ \A i \in 1 .. 1 + s.size : (front \o last)[i] = front[i]
        /\ \A i \in 1 .. Len(last) : (front \o last)[1 + s.size + i] = last[i]
    <3>1. /\ front \o last \in Seq(Tokens)
          /\ Len(front \o last) = Len(front) + Len(last)
          /\ \A i \in 1 .. Len(front) : (front \o last)[i] = front[i]
          /\ \A i \in 1 .. Len(last) : (front \o last)[Len(front) + i] = last[i]
      <4>1. front \in Seq(Tokens) /\ last \in Seq(Tokens)
        BY <1>7, <1>5
      <4> QED
        BY <4>1, ConcatFacts
    <3>2. Len(front) = 1 + s.size
      BY <1>7
    <3> QED
      BY <3>1, <3>2, Zenon
  <2>2. s.chunked => 1 \in 1 .. Len(last) /\ 1 + s.size + 1 = s.size + 2
    BY <1>1, <1>5
  <2>3. Len(front \o last) = Total(s)
    BY <2>1, <1>1, <1>5 DEF Total
  <2>4. s.chunked => (front \o last)[s.size + 2] = last[1]
    BY <2>1, <2>2, <1>1
  <2> QED
    BY <2>1, <2>3, <2>4, <1>5
<1> DEFINE whole == front \o last
<1>10. /\ whole = front \o last
       /\ \A i \in 1 .. 1 + s.size : whole[i] = front[i]
       /\ s.chunked => whole[s.size + 2] = Token("last", thing, NoShape)
  BY <1>9
<1> HIDE DEF whole
<1>11. ASSUME NEW i \in 1 .. Total(s)
      PROVE  whole[i] = At(thing, s, i)
  <2>0. i \in Nat /\ 1 <= i /\ (s.chunked => i <= s.size + 2) /\ (~s.chunked => i <= s.size + 1)
    BY <1>1 DEF Total
  <2>1. CASE i = 1
    BY <2>1, <1>1, <1>7, <1>10 DEF At
  <2>2. CASE i # 1 /\ i <= s.size + 1
    <3>1. i \in 2 .. s.size + 1 /\ i \in 1 .. 1 + s.size
      BY <2>0, <2>2, <1>1
    <3> QED
      BY <3>1, <2>2, <1>7, <1>10 DEF At
  <2>3. CASE i > s.size + 1
    <3>1. s.chunked /\ i = s.size + 2
      BY <2>0, <2>3, <1>1
    <3> QED
      <4>1. i # 1 /\ ~(i <= s.size + 1)
        BY <3>1, <1>1
      <4>2. whole[i] = Token("last", thing, NoShape)
        <5>1. whole[s.size + 2] = Token("last", thing, NoShape)
          BY <3>1, <1>10, Zenon
        <5>2. i = s.size + 2
          BY <3>1, Zenon
        <5> QED
          BY <5>1, <5>2, Zenon
      <4> QED
        BY <4>1, <4>2 DEF At
  <2> QED
    BY <2>0, <2>1, <2>2, <2>3, <1>1
<1> QED
  BY <1>8, <1>9, <1>11, <1>10

-----------------------------------------------------------------------------
(* The invariant.  A request in its head stage owes its own answer and no    *)
(* other, or is being given it; in its body stage what is yet to be read is  *)
(* what that answer has left.  Framing then proves where it ends.            *)

\* From the head of a 200 to the landing of its body.
Waits == req.at # "idle" <=> req.answer = "pending"
Connected == req.at \notin {"idle", "attempt"} => sock
OneTry == req.attempt = 1 => ~req.reused /\ (req.at = "attempt" => ~sock)
Clean == req.at \in {"idle", "attempt", "send"} /\ sock => owed = <<>> /\ wire = <<>>

Untouched == req.at \in {"idle", "attempt", "send", "head"} => req.got = <<>>

Asked == req.at = "head" =>
    \/ owed = <<req.about>> /\ wire = <<>>
    \/ owed = <<>> /\ (wire = <<>> \/ \E s \in Shape : Continues(wire, req.about, s, 0))

Reading == req.at \in {"refuse", "open", "body"} =>
    /\ owed = <<>>
    /\ req.shape \in Shape /\ LengthOf(req.shape) # Malformed
    /\ (req.at = "refuse" <=> req.shape.status # "200")
    /\ req.at \in {"refuse", "open"} => req.got = <<>>
    /\ \A i \in 1 .. Len(req.got) : req.got[i] = req.about
    /\ Len(req.got) <= req.shape.size
    /\ Continues(Unread, req.about, req.shape, 1 + Len(req.got))

Judging == req.at \in {"judge", "close", "remove", "rename"} =>
    /\ owed = <<>> /\ wire = <<>>
    /\ req.shape \in Shape
    /\ \A i \in 1 .. Len(req.got) : req.got[i] = req.about
    /\ req.shape.chunked \/ LengthOf(req.shape) # NoLength => Len(req.got) = req.shape.size

Filing == req.at \in {"close", "remove", "rename"} => IntoFile

LinkTypes ==
    /\ sock \in BOOLEAN
    /\ peer \in {"none", "up", "closed", "dead"} /\ (sock <=> peer # "none")
    /\ owed \in Seq(Thing) /\ wire \in Seq(Tokens)
    /\ streak \in 0 .. StreakLimit
    /\ req \in Requests

LinkInv ==
    /\ LinkTypes
    /\ NoReuseOnceStale
    /\ Waits /\ Connected /\ OneTry /\ Clean /\ Untouched
    /\ Asked /\ Reading /\ Judging /\ Filing

-----------------------------------------------------------------------------
(* The ways a request ends, or begins anew.                                 *)

LEMMA StageTypes ==
  /\ \A stage \in {"idle", "attempt", "send", "head", "refuse", "open", "body", "judge", "close",
                   "remove", "rename"} : stage \in Stages
  /\ \A a \in {"none", "pending", "200", "404", "other", "lost"} : a \in Answers
  BY DEF Stages, Answers

LEMMA FreshReq ==
  ASSUME NEW stage \in Stages, NEW thing \in Thing, NEW n \in {0, 1}, NEW a \in Answers
  PROVE  /\ Fresh(stage, thing, n, a) \in Requests
         /\ Fresh(stage, thing, n, a).at = stage /\ Fresh(stage, thing, n, a).about = thing
         /\ Fresh(stage, thing, n, a).attempt = n /\ ~Fresh(stage, thing, n, a).reused
         /\ Fresh(stage, thing, n, a).answer = a /\ Fresh(stage, thing, n, a).got = <<>>
<1> DEFINE shapes == Shape \cup {NoShape}
           bodies == Seq(Tokens)
           gots == Seq(Thing)
<1>1. NoShape \in shapes /\ <<>> \in bodies /\ <<>> \in gots
  BY Empty
<1>2. Requests = [at : Stages, about : Thing, attempt : {0, 1}, reused : BOOLEAN, shape : shapes,
                  pending : bodies, got : gots, answer : Answers]
  BY DEF Requests
<1>3. Fresh(stage, thing, n, a)
        = [at |-> stage, about |-> thing, attempt |-> n, reused |-> FALSE, shape |-> NoShape,
           pending |-> <<>>, got |-> <<>>, answer |-> a]
  BY DEF Fresh
<1> HIDE DEF shapes, bodies, gots, NoShape
<1> QED
  BY <1>1, <1>2, <1>3

LEMMA ReqFields ==
  ASSUME req \in Requests
  PROVE  /\ req.at \in Stages /\ req.about \in Thing /\ req.attempt \in {0, 1} /\ req.reused \in BOOLEAN
         /\ req.shape \in Shape \cup {NoShape} /\ req.pending \in Seq(Tokens) /\ req.got \in Seq(Thing)
         /\ req.answer \in Answers
  BY DEF Requests

\* Off the connection, at rest.
LEMMA AtRest ==
  ASSUME LinkInv, Disconnect, streak' \in 0 .. StreakLimit, req' \in Requests,
         req'.at = "idle", req'.answer # "pending", ~req'.reused, req'.attempt = 0, req'.got = <<>>
  PROVE  LinkInv'
<1>1. sock' = FALSE /\ peer' = "none" /\ owed' = <<>> /\ wire' = <<>>
  BY DEF Disconnect
<1>2. LinkTypes'
  BY <1>1, Empty DEF LinkTypes
<1> QED
  BY <1>1, <1>2 DEF LinkInv, NoReuseOnceStale, Waits, Connected, OneTry, Clean, Untouched, Asked, Reading, Judging, Filing

LEMMA EndLost == LinkInv /\ Lost => LinkInv'
<1> SUFFICES ASSUME LinkInv, Lost PROVE LinkInv'
  OBVIOUS
<1>1. req' = Fresh("idle", req.about, 0, "lost")
  BY DEF Lost, Answered
<1>2. req.about \in Thing
  BY ReqFields DEF LinkInv, LinkTypes
<1>3. /\ req' \in Requests /\ req'.at = "idle" /\ req'.answer = "lost"
      /\ ~req'.reused /\ req'.attempt = 0 /\ req'.got = <<>>
  <2>1. /\ Fresh("idle", req.about, 0, "lost") \in Requests
        /\ Fresh("idle", req.about, 0, "lost").at = "idle"
        /\ Fresh("idle", req.about, 0, "lost").answer = "lost"
        /\ ~Fresh("idle", req.about, 0, "lost").reused /\ Fresh("idle", req.about, 0, "lost").attempt = 0
        /\ Fresh("idle", req.about, 0, "lost").got = <<>>
    BY <1>2, FreshReq, StageTypes
  <2> QED
    BY <1>1, <2>1
<1>4. streak' \in 0 .. StreakLimit
  BY DEF Lost, LinkInv, LinkTypes
<1> QED
  BY <1>3, <1>4, AtRest DEF Lost

\* A reused connection is the first try's, and there was room for one more
\* stale one.
LEMMA EndRetry == LinkInv /\ Retry => LinkInv'
<1> SUFFICES ASSUME LinkInv, Retry PROVE LinkInv'
  OBVIOUS
<1>1. CASE ~req.reused
  BY <1>1, EndLost DEF Retry
<1>2. CASE req.reused
  <2>1. req.attempt = 0 /\ req.attempt + 1 = 1
    BY <1>2, ReqFields DEF LinkInv, LinkTypes, OneTry
  <2>2. Disconnect /\ streak' = streak + 1
        /\ req' = Fresh("attempt", req.about, 1, "pending")
    BY <1>2, <2>1 DEF Retry
  <2>3. req.about \in Thing
    BY ReqFields DEF LinkInv, LinkTypes
  <2>4. /\ req' \in Requests /\ req'.at = "attempt" /\ req'.answer = "pending" /\ ~req'.reused
        /\ req'.attempt = 1 /\ req'.got = <<>>
    <3>1. /\ Fresh("attempt", req.about, 1, "pending") \in Requests
          /\ Fresh("attempt", req.about, 1, "pending").at = "attempt"
          /\ Fresh("attempt", req.about, 1, "pending").answer = "pending"
          /\ ~Fresh("attempt", req.about, 1, "pending").reused /\ Fresh("attempt", req.about, 1, "pending").attempt = 1
          /\ Fresh("attempt", req.about, 1, "pending").got = <<>>
      BY <2>3, FreshReq, StageTypes
    <3> QED
      BY <2>2, <3>1
  <2>5. streak' \in 0 .. StreakLimit
    BY <1>2, <2>2, ShapeAssumption DEF LinkInv, LinkTypes, NoReuseOnceStale
  <2>6. sock' = FALSE /\ peer' = "none" /\ owed' = <<>> /\ wire' = <<>>
    BY <2>2 DEF Disconnect
  <2>7. LinkTypes'
    BY <2>4, <2>5, <2>6, Empty DEF LinkTypes
  <2> QED
    BY <2>4, <2>6, <2>7
    DEF LinkInv, NoReuseOnceStale, Waits, Connected, OneTry, Clean, Untouched, Asked, Reading, Judging, Filing
<1> QED
  BY <1>1, <1>2

LEMMA EndServed ==
  ASSUME LinkInv, req.at # "idle", NEW answer \in {"200", "404", "other"}, NEW keep,
         keep => sock /\ owed = <<>> /\ wire = <<>>,
         Served(answer, keep)
  PROVE  LinkInv'
<1>1. req' = Fresh("idle", req.about, 0, answer)
  BY DEF Served, Answered
<1>2. req.about \in Thing
  BY ReqFields DEF LinkInv, LinkTypes
<1>3. /\ req' \in Requests /\ req'.at = "idle" /\ req'.answer = answer /\ ~req'.reused
      /\ req'.attempt = 0 /\ req'.got = <<>>
  <2>1. /\ Fresh("idle", req.about, 0, answer) \in Requests
        /\ Fresh("idle", req.about, 0, answer).at = "idle"
        /\ Fresh("idle", req.about, 0, answer).answer = answer
        /\ ~Fresh("idle", req.about, 0, answer).reused /\ Fresh("idle", req.about, 0, answer).attempt = 0
        /\ Fresh("idle", req.about, 0, answer).got = <<>>
    BY <1>2, FreshReq, StageTypes
  <2> QED
    BY <1>1, <2>1
<1>4. streak' = Streak /\ Streak \in 0 .. StreakLimit
  BY ShapeAssumption DEF Served, Streak, LinkInv, LinkTypes
<1>5. CASE keep /\ Streak < StreakLimit
  <2>1. sock' = sock /\ peer' = peer /\ owed' = owed /\ wire' = wire
    BY <1>5 DEF Served, link
  <2>2. LinkTypes'
    BY <1>3, <1>4, <2>1 DEF LinkInv, LinkTypes
  <2>3. streak' # StreakLimit
    BY <1>4, <1>5, ShapeAssumption
  <2> QED
    BY <1>3, <1>5, <2>1, <2>2, <2>3
    DEF LinkInv, NoReuseOnceStale, Waits, Connected, OneTry, Clean, Untouched, Asked, Reading, Judging, Filing
<1>6. CASE ~(keep /\ Streak < StreakLimit)
  <2>1. Disconnect
    BY <1>6 DEF Served
  <2> QED
    BY <2>1, <1>3, <1>4, AtRest
<1> QED
  BY <1>5, <1>6

-----------------------------------------------------------------------------
(* Updates of a request keep its type.                                      *)

LEMMA Staged ==
  ASSUME req \in Requests, NEW stage \in Stages
  PROVE  LET r == [req EXCEPT !.at = stage] IN
         /\ r \in Requests
         /\ r.at = stage /\ r.about = req.about /\ r.attempt = req.attempt /\ r.answer = req.answer
         /\ (r.reused <=> req.reused) /\ r.shape = req.shape /\ r.pending = req.pending /\ r.got = req.got
<1> DEFINE shapes == Shape \cup {NoShape}
           bodies == Seq(Tokens)
           gots == Seq(Thing)
<1>1. Requests = [at : Stages, about : Thing, attempt : {0, 1}, reused : BOOLEAN, shape : shapes,
                  pending : bodies, got : gots, answer : Answers]
  BY DEF Requests
<1> HIDE DEF shapes, bodies, gots
<1> QED
  BY <1>1

LEMMA StagedReused ==
  ASSUME req \in Requests, NEW stage \in Stages
  PROVE  LET r == [req EXCEPT !.at = stage, !.reused = TRUE] IN
         /\ r \in Requests
         /\ r.at = stage /\ r.about = req.about /\ r.attempt = req.attempt /\ r.answer = req.answer
         /\ r.reused /\ r.got = req.got
<1> DEFINE shapes == Shape \cup {NoShape}
           bodies == Seq(Tokens)
           gots == Seq(Thing)
<1>1. Requests = [at : Stages, about : Thing, attempt : {0, 1}, reused : BOOLEAN, shape : shapes,
                  pending : bodies, got : gots, answer : Answers]
  BY DEF Requests
<1> HIDE DEF shapes, bodies, gots
<1> QED
  BY <1>1

-----------------------------------------------------------------------------
(* What comes after the head of an answer, and what its reading leaves.      *)

LEMMA Shorter ==
  ASSUME NEW thing, NEW s \in Shape, NEW n \in Nat, NEW q \in Seq(Tokens), q # <<>>, Continues(q, thing, s, n)
  PROVE  /\ Continues(Tail(q), thing, s, n + 1)
         /\ Head(q) = At(thing, s, n + 1)
         /\ n + 1 <= Total(s)
<1>1. Tail(q) \in Seq(Tokens) /\ Len(Tail(q)) = Len(q) - 1 /\ Len(q) \in Nat \ {0} /\ Head(q) = q[1]
      /\ \A i \in 1 .. Len(q) - 1 : Tail(q)[i] = q[i + 1]
  BY HeadTail
<1>2. Total(s) \in Nat
  BY ShapeFacts DEF Total
<1>3. n + Len(q) <= Total(s) /\ \A i \in 1 .. Len(q) : q[i] = At(thing, s, n + i)
  BY DEF Continues
<1>4. ASSUME NEW i \in 1 .. Len(Tail(q)) PROVE Tail(q)[i] = At(thing, s, n + 1 + i)
  <2>1. i \in 1 .. Len(q) - 1 /\ i + 1 \in 1 .. Len(q) /\ n + (i + 1) = n + 1 + i
    BY <1>1
  <2> QED
    BY <2>1, <1>1, <1>3
<1>5. (n + 1) + Len(Tail(q)) <= Total(s)
  BY <1>1, <1>2, <1>3
<1>6. 1 \in 1 .. Len(q)
  BY <1>1
<1> QED
  BY <1>1, <1>2, <1>3, <1>4, <1>5, <1>6 DEF Continues

\* The i-th token: what it is about, and which part of the answer it is.
LEMMA Parts ==
  ASSUME NEW thing \in Thing, NEW s \in Shape, NEW i \in Nat \ {0}
  PROVE  /\ At(thing, s, i).about = thing
         /\ i = 1 <=> At(thing, s, i).part = "head"
         /\ i = 1 => At(thing, s, i).shape = s
         /\ (i # 1 /\ i <= s.size + 1) <=> At(thing, s, i).part = "byte"
<1>1. s.size \in Nat
  BY ShapeFacts
<1> HIDE DEF NoShape
<1>2. CASE i = 1
  BY <1>2, <1>1 DEF At, Token
<1>3. CASE i # 1 /\ i <= s.size + 1
  BY <1>3, <1>1 DEF At, Token
<1>4. CASE i # 1 /\ ~(i <= s.size + 1)
  BY <1>4, <1>1 DEF At, Token
<1> QED
  BY <1>2, <1>3, <1>4

-----------------------------------------------------------------------------
(* The environment, one action at a time.                                   *)

LEMMA StepServer == LinkInv /\ ServerAnswers => LinkInv'
<1> SUFFICES ASSUME LinkInv, ServerAnswers PROVE LinkInv'
  OBVIOUS
<1>1. /\ peer = "up" /\ owed # <<>> /\ owed' = Tail(owed)
      /\ sock' = sock /\ streak' = streak /\ req' = req
  BY DEF ServerAnswers
<1>2. sock /\ req \in Requests /\ owed \in Seq(Thing)
  BY <1>1 DEF LinkInv, LinkTypes
<1>3. req.at \in Stages /\ req.about \in Thing
  BY <1>2, ReqFields
<1>4. req.at = "head" /\ owed = <<req.about>> /\ wire = <<>>
  BY <1>1, <1>2, <1>3 DEF LinkInv, Clean, Asked, Reading, Judging, Stages
<1>5. owed' = <<>>
  BY <1>1, <1>3, <1>4
<1>6. Head(owed) = req.about
  BY <1>3, <1>4
<1>7. PICK s \in Shape : LET response == Response(req.about, s) IN
        \/ wire' = <<>> \o response /\ peer' = IF s.reusable THEN "up" ELSE "closed"
        \/ \E sent \in 0 .. Len(response) - 1, last \in {"closed", "dead"} :
             wire' = <<>> \o SubSeq(response, 1, sent) /\ peer' = last
  BY <1>4, <1>6 DEF ServerAnswers
<1> DEFINE response == Response(req.about, s)
<1>8. /\ response \in Seq(Tokens) /\ Len(response) = Total(s) /\ Total(s) \in Nat
      /\ \A i \in 1 .. Total(s) : response[i] = At(req.about, s, i)
  BY <1>3, ResponseFacts, ShapeFacts DEF Total
<1> HIDE DEF response
<1>9. peer' \in {"up", "closed", "dead"}
  BY <1>7 DEF response
<1>10. PICK sent \in 0 .. Total(s) : wire' = SubSeq(response, 1, sent)
  <2>1. CASE wire' = <<>> \o response
    <3>1. wire' = response
      BY <2>1, <1>8, Empty, ConcatFacts
    <3>2. wire' = SubSeq(response, 1, Total(s))
      BY <3>1, <1>8
    <3> QED
      BY <3>2, <1>8
  <2>2. CASE \E sent \in 0 .. Len(response) - 1 : wire' = <<>> \o SubSeq(response, 1, sent)
    <3>1. PICK sent \in 0 .. Len(response) - 1 : wire' = <<>> \o SubSeq(response, 1, sent)
      BY <2>2
    <3>2. SubSeq(response, 1, sent) \in Seq(Tokens) /\ sent \in 0 .. Total(s)
      BY <1>8
    <3>3. wire' = SubSeq(response, 1, sent)
      BY <3>1, <3>2, Empty, ConcatFacts
    <3> QED
      BY <3>2, <3>3
  <2> QED
    BY <1>7, <2>1, <2>2 DEF response
<1>11. /\ wire' \in Seq(Tokens) /\ Len(wire') = sent
       /\ \A i \in 1 .. sent : wire'[i] = response[i]
  BY <1>8, <1>10
<1>12. Continues(wire', req.about, s, 0)
  <2>1. ASSUME NEW i \in 1 .. Len(wire') PROVE wire'[i] = At(req.about, s, 0 + i)
    <3>1. i \in 1 .. sent /\ i \in 1 .. Total(s) /\ 0 + i = i
      BY <1>8, <1>11
    <3> QED
      BY <3>1, <1>8, <1>11
  <2>2. 0 + Len(wire') <= Total(s)
    BY <1>8, <1>11
  <2> QED
    BY <2>1, <2>2 DEF Continues
<1>13. LinkTypes'
  BY <1>1, <1>2, <1>5, <1>9, <1>11, Empty DEF LinkInv, LinkTypes
<1>14. Asked'
  BY <1>1, <1>5, <1>12 DEF Asked
<1> QED
  BY <1>1, <1>4, <1>13, <1>14
  DEF LinkInv, NoReuseOnceStale, Waits, Connected, OneTry, Clean, Untouched, Reading, Judging, Filing, IntoFile

LEMMA StepPeer == LinkInv /\ PeerLeaves => LinkInv'
<1> SUFFICES ASSUME LinkInv, PeerLeaves PROVE LinkInv'
  OBVIOUS
<1>1. /\ peer = "up" /\ peer' \in {"closed", "dead"}
      /\ sock' = sock /\ owed' = owed /\ wire' = wire /\ streak' = streak /\ req' = req
  BY DEF PeerLeaves
<1>2. LinkTypes'
  BY <1>1 DEF LinkInv, LinkTypes
<1> QED
  BY <1>1, <1>2
  DEF LinkInv, NoReuseOnceStale, Waits, Connected, OneTry, Clean, Untouched, Asked, Reading, Judging, Filing, IntoFile,
      Unread

LEMMA StepCut == LinkInv /\ PowerCut => LinkInv'
<1> SUFFICES ASSUME LinkInv, PowerCut PROVE LinkInv'
  OBVIOUS
<1>1. req' = Fresh("idle", Formats, 0, "none") /\ Disconnect /\ streak' = 0
  BY DEF PowerCut, IdleReq
<1>2. Formats \in Thing
  BY DEF Thing
<1>3. /\ req' \in Requests /\ req'.at = "idle" /\ req'.answer = "none"
      /\ ~req'.reused /\ req'.attempt = 0 /\ req'.got = <<>>
  <2>1. LET f == Fresh("idle", Formats, 0, "none") IN
          f \in Requests /\ f.at = "idle" /\ f.answer = "none" /\ ~f.reused /\ f.attempt = 0 /\ f.got = <<>>
    BY <1>2, FreshReq, StageTypes
  <2> QED
    BY <1>1, <2>1
<1>4. streak' \in 0 .. StreakLimit
  BY <1>1, ShapeAssumption
<1> QED
  BY <1>1, <1>3, <1>4, AtRest

-----------------------------------------------------------------------------
(* A request, up to the head of its answer.                                 *)

LEMMA StepBegin ==
  ASSUME LinkInv, NEW thing \in Thing, Begin(thing)
  PROVE  LinkInv'
<1>1. /\ req.answer # "pending" /\ req' = Fresh("attempt", thing, 0, "pending")
      /\ sock' = sock /\ peer' = peer /\ owed' = owed /\ wire' = wire /\ streak' = streak
  BY DEF Begin, link
<1>2. req.at = "idle"
  BY <1>1 DEF LinkInv, Waits
<1>3. /\ req' \in Requests /\ req'.at = "attempt" /\ req'.answer = "pending"
      /\ ~req'.reused /\ req'.attempt = 0 /\ req'.got = <<>>
  <2>1. LET f == Fresh("attempt", thing, 0, "pending") IN
          f \in Requests /\ f.at = "attempt" /\ f.answer = "pending" /\ ~f.reused /\ f.attempt = 0 /\ f.got = <<>>
    BY FreshReq, StageTypes
  <2> QED
    BY <1>1, <2>1
<1>4. LinkTypes'
  BY <1>1, <1>3 DEF LinkInv, LinkTypes
<1> QED
  BY <1>1, <1>2, <1>3, <1>4
  DEF LinkInv, NoReuseOnceStale, Waits, Connected, OneTry, Clean, Untouched, Asked, Reading, Judging, Filing

LEMMA StepLetGo == LinkInv /\ LetGo => LinkInv'
<1> SUFFICES ASSUME LinkInv, LetGo PROVE LinkInv'
  OBVIOUS
<1>1. /\ req.at = "attempt" /\ req' = req /\ streak' = streak
      /\ sock' = FALSE /\ peer' = "none" /\ owed' = <<>> /\ wire' = <<>>
  BY DEF LetGo, Disconnect
<1>2. LinkTypes'
  BY <1>1, Empty DEF LinkInv, LinkTypes
<1> QED
  BY <1>1, <1>2
  DEF LinkInv, NoReuseOnceStale, Waits, Connected, OneTry, Clean, Untouched, Asked, Reading, Judging, Filing

LEMMA StepReuse == LinkInv /\ Reuse => LinkInv'
<1> SUFFICES ASSUME LinkInv, Reuse PROVE LinkInv'
  OBVIOUS
<1>1. /\ req.at = "attempt" /\ sock /\ req' = [req EXCEPT !.at = "send", !.reused = TRUE]
      /\ sock' = sock /\ peer' = peer /\ owed' = owed /\ wire' = wire /\ streak' = streak
  BY DEF Reuse, link
<1>2. req \in Requests
  BY DEF LinkInv, LinkTypes
<1>3. /\ req' \in Requests /\ req'.at = "send" /\ req'.answer = req.answer /\ req'.reused
      /\ req'.attempt = req.attempt /\ req'.got = req.got
  BY <1>1, <1>2, StagedReused, StageTypes
<1>4. LinkTypes'
  BY <1>1, <1>3 DEF LinkInv, LinkTypes
<1>5. streak # StreakLimit /\ req.attempt # 1
  BY <1>1 DEF LinkInv, NoReuseOnceStale, OneTry
<1> QED
  BY <1>1, <1>3, <1>4, <1>5
  DEF LinkInv, NoReuseOnceStale, Waits, Connected, OneTry, Clean, Untouched, Asked, Reading, Judging, Filing

LEMMA StepConnect == LinkInv /\ Connect => LinkInv'
<1> SUFFICES ASSUME LinkInv, Connect PROVE LinkInv'
  OBVIOUS
<1>1. /\ req.at = "attempt" /\ ~sock /\ req' = [req EXCEPT !.at = "send"]
      /\ sock' = TRUE /\ peer' = "up" /\ owed' = <<>> /\ wire' = <<>> /\ streak' = streak
  BY DEF Connect
<1>2. req \in Requests
  BY DEF LinkInv, LinkTypes
<1>3. /\ req' \in Requests /\ req'.at = "send" /\ req'.answer = req.answer /\ (req'.reused <=> req.reused)
      /\ req'.attempt = req.attempt /\ req'.got = req.got
  BY <1>1, <1>2, Staged, StageTypes
<1>4. LinkTypes'
  BY <1>1, <1>3, Empty DEF LinkInv, LinkTypes
<1> QED
  BY <1>1, <1>3, <1>4
  DEF LinkInv, NoReuseOnceStale, Waits, Connected, OneTry, Clean, Untouched, Asked, Reading, Judging, Filing

LEMMA StepSend == LinkInv /\ Send => LinkInv'
<1> SUFFICES ASSUME LinkInv, Send PROVE LinkInv'
  OBVIOUS
<1>1. /\ req.at = "send" /\ req' = [req EXCEPT !.at = "head"]
      /\ owed' = IF peer = "up" THEN Append(owed, req.about) ELSE owed
      /\ sock' = sock /\ peer' = peer /\ wire' = wire /\ streak' = streak
  BY DEF Send
<1>2. req \in Requests /\ req.about \in Thing /\ sock
  BY <1>1, ReqFields DEF LinkInv, LinkTypes, Connected
<1>3. /\ req' \in Requests /\ req'.at = "head" /\ req'.answer = req.answer /\ (req'.reused <=> req.reused)
      /\ req'.attempt = req.attempt /\ req'.about = req.about /\ req'.got = req.got
  BY <1>1, <1>2, Staged, StageTypes
<1>4. owed = <<>> /\ wire = <<>>
  BY <1>1, <1>2 DEF LinkInv, Clean
<1>5. (owed' = <<req.about>> \/ owed' = <<>>) /\ owed' \in Seq(Thing)
  BY <1>1, <1>2, <1>4, Empty
<1>6. LinkTypes'
  BY <1>1, <1>3, <1>5 DEF LinkInv, LinkTypes
<1> QED
  BY <1>1, <1>2, <1>3, <1>4, <1>5, <1>6
  DEF LinkInv, NoReuseOnceStale, Waits, Connected, OneTry, Clean, Untouched, Asked, Reading, Judging, Filing

\* The head is consumed; what came with it and what is still on the wire are the
\* rest of one answer.
LEMMA StepReadHead == LinkInv /\ ReadHead => LinkInv'
<1> SUFFICES ASSUME LinkInv, ReadHead PROVE LinkInv'
  OBVIOUS
<1>1. /\ req.at = "head" /\ wire # <<>> /\ Head(wire).part = "head"
      /\ LengthOf(Head(wire).shape) # Malformed
      /\ sock' = sock /\ peer' = peer /\ owed' = owed /\ streak' = streak
  BY DEF ReadHead
<1>2. req \in Requests /\ req.about \in Thing /\ sock /\ wire \in Seq(Tokens)
  BY <1>1, ReqFields DEF LinkInv, LinkTypes, Connected
<1>3. PICK s \in Shape : owed = <<>> /\ Continues(wire, req.about, s, 0)
  BY <1>1, <1>2 DEF LinkInv, Asked
<1>4. /\ Head(wire) = At(req.about, s, 1) /\ Head(wire).shape = s
      /\ Continues(Tail(wire), req.about, s, 1)
  <2>1. /\ Continues(Tail(wire), req.about, s, 0 + 1) /\ Head(wire) = At(req.about, s, 0 + 1)
    BY <1>1, <1>2, <1>3, Shorter
  <2>2. 0 + 1 = 1 /\ 1 \in Nat \ {0}
    OBVIOUS
  <2> QED
    BY <2>1, <2>2, <1>2, Parts
<1>5. PICK more \in 0 .. Len(wire) - 1 :
        /\ wire' = SubSeq(wire, more + 2, Len(wire))
        /\ req' = [req EXCEPT !.shape = s, !.pending = SubSeq(wire, 2, more + 1),
                              !.at = IF s.status = "200" THEN "open" ELSE "refuse"]
  BY <1>4 DEF ReadHead
<1> DEFINE stage == IF s.status = "200" THEN "open" ELSE "refuse"
           pending == SubSeq(wire, 2, more + 1)
<1>6. Len(wire) \in Nat \ {0}
  BY <1>1, <1>2, HeadTail
<1>7. /\ pending \in Seq(Tokens) /\ Len(pending) = more
      /\ \A i \in 1 .. more : pending[i] = wire[1 + i]
      /\ wire' \in Seq(Tokens) /\ Len(wire') = Len(wire) - more - 1
      /\ \A i \in 1 .. Len(wire) - more - 1 : wire'[i] = wire[more + 1 + i]
  BY <1>2, <1>5, <1>6, SMTT(30)
<1>8. stage \in Stages /\ stage \in {"open", "refuse"} /\ (stage = "refuse" <=> s.status # "200")
  BY StageTypes
<1> HIDE DEF stage, pending
<1>9. /\ req' \in Requests
      /\ req'.at = stage /\ req'.about = req.about /\ req'.attempt = req.attempt /\ req'.answer = req.answer
      /\ (req'.reused <=> req.reused) /\ req'.shape = s /\ req'.pending = pending /\ req'.got = req.got
  <2>1. req' = [req EXCEPT !.shape = s, !.pending = pending, !.at = stage]
    BY <1>5 DEF stage, pending
  <2>2. LET r == [req EXCEPT !.shape = s, !.pending = pending, !.at = stage] IN
        /\ r \in Requests
        /\ r.at = stage /\ r.about = req.about /\ r.attempt = req.attempt /\ r.answer = req.answer
        /\ (r.reused <=> req.reused) /\ r.shape = s /\ r.pending = pending /\ r.got = req.got
    <3>1. req \in Requests /\ stage \in Stages /\ s \in Shape /\ pending \in Seq(Tokens)
      BY <1>2, <1>7, <1>8
    <3> DEFINE shapes == Shape \cup {NoShape}
               bodies == Seq(Tokens)
               gots == Seq(Thing)
    <3>2. Requests = [at : Stages, about : Thing, attempt : {0, 1}, reused : BOOLEAN, shape : shapes,
                      pending : bodies, got : gots, answer : Answers]
      BY DEF Requests
    <3>3. pending \in bodies /\ s \in shapes
      BY <3>1
    <3> HIDE DEF shapes, bodies, gots
    <3> QED
      BY <3>1, <3>2, <3>3
  <2> QED
    BY <2>1, <2>2
<1>10. req.got = <<>>
  BY <1>1 DEF LinkInv, Untouched
<1>11. Continues(pending \o wire', req.about, s, 1)
  <2>1. /\ pending \o wire' \in Seq(Tokens) /\ Len(pending \o wire') = Len(wire) - 1
        /\ \A i \in 1 .. Len(pending) : (pending \o wire')[i] = pending[i]
        /\ \A i \in 1 .. Len(wire') : (pending \o wire')[Len(pending) + i] = wire'[i]
    <3>1. Len(pending \o wire') = Len(pending) + Len(wire')
      BY <1>7, ConcatFacts
    <3>2. Len(pending) + Len(wire') = Len(wire) - 1
      BY <1>6, <1>7
    <3> QED
      BY <3>1, <3>2, <1>7, ConcatFacts
  <2> DEFINE rest == pending \o wire'
  <2>2. /\ Len(rest) = Len(wire) - 1
        /\ \A i \in 1 .. more : rest[i] = pending[i]
        /\ \A i \in 1 .. Len(wire) - more - 1 : rest[more + i] = wire'[i]
    BY <2>1, <1>7
  <2> HIDE DEF rest
  <2>3. ASSUME NEW i \in 1 .. Len(rest) PROVE rest[i] = wire[1 + i]
    <3>1. CASE i <= more
      BY <3>1, <2>2, <1>7
    <3>2. CASE i > more
      <4>1. i - more \in 1 .. Len(wire) - more - 1 /\ more + (i - more) = i /\ more + 1 + (i - more) = 1 + i
        BY <3>2, <2>2, <1>6
      <4>2. rest[i] = wire'[i - more]
        BY <4>1, <2>2
      <4>3. wire'[i - more] = wire[1 + i]
        BY <4>1, <1>7
      <4> QED
        BY <4>2, <4>3
    <3> QED
      BY <3>1, <3>2
  <2>4. 0 + Len(wire) <= Total(s) /\ \A i \in 1 .. Len(wire) : wire[i] = At(req.about, s, 0 + i)
    BY <1>3 DEF Continues
  <2>5. ASSUME NEW i \in 1 .. Len(rest) PROVE rest[i] = At(req.about, s, 1 + i)
    <3>1. 1 + i \in 1 .. Len(wire) /\ 0 + (1 + i) = 1 + i
      BY <2>2, <1>6
    <3> QED
      BY <3>1, <2>3, <2>4
  <2>6. 1 + Len(rest) <= Total(s)
    BY <2>2, <2>4, <1>6, ShapeFacts DEF Total
  <2> QED
    BY <2>5, <2>6 DEF Continues, rest
<1>12. /\ Len(req'.got) = 0 /\ 1 + Len(req'.got) = 1 /\ Len(req'.got) <= s.size
       /\ \A i \in 1 .. Len(req'.got) : req'.got[i] = req'.about
  BY <1>9, <1>10, ShapeFacts
<1>13. LinkTypes'
  BY <1>1, <1>7, <1>9 DEF LinkInv, LinkTypes
<1>14. Reading'
  BY <1>1, <1>3, <1>4, <1>8, <1>9, <1>10, <1>11, <1>12 DEF Reading, Unread, LengthOf
<1> QED
  BY <1>1, <1>2, <1>8, <1>9, <1>13, <1>14
  DEF LinkInv, NoReuseOnceStale, Waits, Connected, OneTry, Clean, Untouched, Asked, Judging, Filing

-----------------------------------------------------------------------------
(* The body.                                                                *)

\* A refused answer is all there only if nothing is left on the wire.
LEMMA StepRefuse == LinkInv /\ Refuse => LinkInv'
<1> SUFFICES ASSUME LinkInv, Refuse PROVE LinkInv'
  OBVIOUS
<1> DEFINE keep == Keep(req.shape) /\ ~req.shape.chunked /\ Len(req.pending) = LengthOf(req.shape)
<1>1. req.at = "refuse" /\ Served(req.shape.status, keep)
  BY DEF Refuse
<1>2. /\ req \in Requests /\ sock /\ owed = <<>> /\ wire \in Seq(Tokens) /\ req.pending \in Seq(Tokens)
      /\ req.shape \in Shape /\ req.shape.status # "200" /\ req.got = <<>>
      /\ Continues(Unread, req.about, req.shape, 1 + Len(req.got))
  BY <1>1, ReqFields DEF LinkInv, LinkTypes, Connected, Reading
<1>3. req.shape.status \in {"200", "404", "other"}
  BY <1>2, ShapeFacts
<1>4. ASSUME keep PROVE wire = <<>>
  <2>1. /\ ~req.shape.chunked /\ Len(req.pending) = req.shape.length
        /\ req.shape.length >= 0 /\ req.shape.size \in Nat
    BY <1>2, <1>4, ShapeFacts DEF Keep, LengthOf
  <2>2. Len(req.pending) = req.shape.size /\ Total(req.shape) = req.shape.size + 1
    BY <1>2, <2>1, ShapeFacts DEF Total
  <2>3. Len(Unread) = Len(req.pending) + Len(wire)
    BY <1>2, ConcatFacts DEF Unread
  <2>4. 1 + Len(Unread) <= Total(req.shape)
    BY <1>2 DEF Continues
  <2>5. Len(wire) = 0
    BY <2>1, <2>2, <2>3, <2>4, <1>2
  <2> QED
    BY <2>5, <1>2, Empty
<1> HIDE DEF keep
<1> QED
  BY <1>1, <1>2, <1>3, <1>4, EndServed

LEMMA StepSinkOpen == LinkInv /\ SinkOpen => LinkInv'
<1> SUFFICES ASSUME LinkInv, SinkOpen PROVE LinkInv'
  OBVIOUS
<1>1. /\ req.at = "open" /\ req' = [req EXCEPT !.at = "body"]
      /\ sock' = sock /\ peer' = peer /\ owed' = owed /\ wire' = wire /\ streak' = streak
  BY DEF SinkOpen, link
<1>2. req \in Requests
  BY DEF LinkInv, LinkTypes
<1>3. /\ req' \in Requests
      /\ req'.at = "body" /\ req'.about = req.about /\ req'.attempt = req.attempt /\ req'.answer = req.answer
      /\ (req'.reused <=> req.reused) /\ req'.shape = req.shape /\ req'.pending = req.pending
      /\ req'.got = req.got
  BY <1>1, <1>2, Staged, StageTypes
<1>4. LinkTypes'
  BY <1>1, <1>3 DEF LinkInv, LinkTypes
<1>5. Reading'
  BY <1>1, <1>3 DEF LinkInv, Reading, Unread
<1> QED
  BY <1>1, <1>3, <1>4, <1>5
  DEF LinkInv, NoReuseOnceStale, Waits, Connected, OneTry, Clean, Untouched, Asked, Judging, Filing

\* Taking the next token.
LEMMA Taken ==
  ASSUME LinkInv, req.at = "body", Unread # <<>>, Take
  PROVE  /\ wire' \in Seq(Tokens) /\ Rest \in Seq(Tokens)
         /\ Rest \o wire' = Tail(Unread)
         /\ Unread \in Seq(Tokens)
<1>1. req.pending \in Seq(Tokens) /\ wire \in Seq(Tokens)
  BY ReqFields DEF LinkInv, LinkTypes
<1>2. Unread = req.pending \o wire /\ Unread \in Seq(Tokens)
  BY <1>1, ConcatFacts DEF Unread
<1>3. CASE req.pending # <<>>
  <2>1. wire' = wire /\ Rest = Tail(req.pending)
    BY <1>3 DEF Take, Rest
  <2>2. Tail(req.pending) \o wire = Tail(req.pending \o wire)
    BY <1>1, <1>3
  <2> QED
    BY <1>1, <1>2, <1>3, <2>1, <2>2, HeadTail
<1>4. CASE req.pending = <<>>
  <2>1. wire' = Tail(wire) /\ Rest = <<>>
    BY <1>4 DEF Take, Rest
  <2>2. Unread = wire
    BY <1>1, <1>2, <1>4, ConcatFacts
  <2>3. Tail(wire) \in Seq(Tokens)
    BY <1>1, <2>2, HeadTail
  <2>4. <<>> \in Seq(Tokens) /\ <<>> \o Tail(wire) = Tail(wire)
    BY <2>3, Empty, ConcatFacts
  <2> QED
    BY <1>2, <2>1, <2>2, <2>3, <2>4
<1> QED
  BY <1>3, <1>4

\* A body shorter than its framing says has more to come, and what comes is its
\* own.
LEMMA StepReadByte == LinkInv /\ ReadByte => LinkInv'
<1> SUFFICES ASSUME LinkInv, ReadByte PROVE LinkInv'
  OBVIOUS
<1>1. /\ req.at = "body" /\ Unread # <<>> /\ Take
      /\ Chunked(req.shape) => Head(Unread).part = "byte"
      /\ req' = [req EXCEPT !.got = Append(req.got, Head(Unread).about), !.pending = Rest]
      /\ sock' = sock /\ peer' = peer /\ owed' = owed /\ streak' = streak
  BY DEF ReadByte, Wanting
<1>2. /\ req \in Requests /\ req.about \in Thing /\ req.got \in Seq(Thing)
      /\ req.shape \in Shape /\ owed = <<>> /\ LengthOf(req.shape) # Malformed
      /\ req.shape.status = "200"
      /\ \A i \in 1 .. Len(req.got) : req.got[i] = req.about
      /\ Len(req.got) <= req.shape.size
      /\ Continues(Unread, req.about, req.shape, 1 + Len(req.got))
  BY <1>1, ReqFields DEF LinkInv, LinkTypes, Reading
<1>3. /\ wire' \in Seq(Tokens) /\ Rest \in Seq(Tokens) /\ Rest \o wire' = Tail(Unread)
      /\ Unread \in Seq(Tokens)
  BY <1>1, Taken
<1> DEFINE n == 1 + Len(req.got)
           got == Append(req.got, Head(Unread).about)
<1>4. n \in Nat /\ n + 1 \in Nat \ {0} /\ n + 1 # 1
  BY <1>2
<1>5. /\ Continues(Tail(Unread), req.about, req.shape, n + 1)
      /\ Head(Unread) = At(req.about, req.shape, n + 1) /\ n + 1 <= Total(req.shape)
  BY <1>1, <1>2, <1>3, <1>4, Shorter
<1>6. Head(Unread).about = req.about
      /\ ((n + 1 # 1 /\ n + 1 <= req.shape.size + 1) <=> Head(Unread).part = "byte")
  BY <1>2, <1>4, <1>5, Parts
<1>7. n + 1 <= req.shape.size + 1
  <2>1. CASE req.shape.chunked
    BY <2>1, <1>1, <1>4, <1>6 DEF Chunked
  <2>2. CASE ~req.shape.chunked
    BY <2>2, <1>2, <1>5, ShapeFacts DEF Total
  <2> QED
    BY <2>1, <2>2
<1>8. /\ got \in Seq(Thing) /\ Len(got) = n /\ 1 + Len(got) = n + 1
      /\ \A i \in 1 .. Len(got) : got[i] = req.about
  BY <1>2, <1>6
<1>9. Len(got) <= req.shape.size
  BY <1>2, <1>4, <1>7, <1>8, ShapeFacts
<1> HIDE DEF n, got
<1>10. /\ req' \in Requests
       /\ req'.at = "body" /\ req'.about = req.about /\ req'.attempt = req.attempt /\ req'.answer = req.answer
       /\ (req'.reused <=> req.reused) /\ req'.shape = req.shape /\ req'.pending = Rest /\ req'.got = got
  <2>1. req' = [req EXCEPT !.got = got, !.pending = Rest] /\ got \in Seq(Thing) /\ Rest \in Seq(Tokens)
    BY <1>1, <1>3, <1>8 DEF got
  <2> QED
    <3> DEFINE shapes == Shape \cup {NoShape}
               bodies == Seq(Tokens)
               gots == Seq(Thing)
    <3>1. Requests = [at : Stages, about : Thing, attempt : {0, 1}, reused : BOOLEAN, shape : shapes,
                      pending : bodies, got : gots, answer : Answers]
      BY DEF Requests
    <3>2. got \in gots /\ Rest \in bodies
      BY <2>1
    <3> HIDE DEF shapes, bodies, gots
    <3> QED
      BY <1>1, <1>2, <2>1, <3>1, <3>2
<1>11. LinkTypes'
  BY <1>1, <1>3, <1>10 DEF LinkInv, LinkTypes
<1>12. Unread' = Tail(Unread)
  BY <1>3, <1>10 DEF Unread
<1>13. Reading'
  <2>1. /\ owed' = <<>> /\ req'.shape \in Shape /\ LengthOf(req'.shape) # Malformed
        /\ ~(req'.at = "refuse") /\ ~(req'.at = "open") /\ req'.shape.status = "200"
    BY <1>1, <1>2, <1>10
  <2>2. /\ \A i \in 1 .. Len(req'.got) : req'.got[i] = req'.about
        /\ Len(req'.got) <= req'.shape.size
    BY <1>8, <1>9, <1>10
  <2>3. Continues(Unread', req'.about, req'.shape, 1 + Len(req'.got))
    BY <1>5, <1>8, <1>10, <1>12
  <2> QED
    BY <2>1, <2>2, <2>3 DEF Reading
<1> QED
  BY <1>1, <1>10, <1>11, <1>13
  DEF LinkInv, NoReuseOnceStale, Waits, Connected, OneTry, Clean, Untouched, Asked, Judging, Filing

\* After the terminal chunk nothing is left, and the body is all there.
LEMMA StepReadLast == LinkInv /\ ReadLast => LinkInv'
<1> SUFFICES ASSUME LinkInv, ReadLast PROVE LinkInv'
  OBVIOUS
<1>1. /\ req.at = "body" /\ Unread # <<>> /\ Take /\ req.shape.chunked
      /\ Head(Unread).part = "last"
      /\ req' = [req EXCEPT !.at = "judge", !.pending = Rest]
      /\ sock' = sock /\ peer' = peer /\ owed' = owed /\ streak' = streak
  BY DEF ReadLast, Wanting, Chunked
<1>2. /\ req \in Requests /\ req.about \in Thing /\ req.got \in Seq(Thing)
      /\ req.shape \in Shape /\ owed = <<>>
      /\ \A i \in 1 .. Len(req.got) : req.got[i] = req.about
      /\ Len(req.got) <= req.shape.size
      /\ Continues(Unread, req.about, req.shape, 1 + Len(req.got))
  BY <1>1, ReqFields DEF LinkInv, LinkTypes, Reading
<1>3. /\ wire' \in Seq(Tokens) /\ Rest \in Seq(Tokens) /\ Rest \o wire' = Tail(Unread)
      /\ Unread \in Seq(Tokens)
  BY <1>1, Taken
<1> DEFINE n == 1 + Len(req.got)
<1>4. n \in Nat /\ n + 1 \in Nat \ {0} /\ n + 1 # 1
  BY <1>2
<1>5. /\ Continues(Tail(Unread), req.about, req.shape, n + 1)
      /\ Head(Unread) = At(req.about, req.shape, n + 1) /\ n + 1 <= Total(req.shape)
  BY <1>1, <1>2, <1>3, <1>4, Shorter
<1>6. (n + 1 # 1 /\ n + 1 <= req.shape.size + 1) <=> Head(Unread).part = "byte"
  BY <1>2, <1>4, <1>5, Parts
<1>7. Total(req.shape) = req.shape.size + 2 /\ req.shape.size \in Nat
  BY <1>1, <1>2, ShapeFacts DEF Total
<1>8. n + 1 = req.shape.size + 2
  <2>1. ~(n + 1 <= req.shape.size + 1)
    BY <1>1, <1>4, <1>6
  <2> QED
    BY <2>1, <1>4, <1>5, <1>7
<1>9. Len(req.got) = req.shape.size
  BY <1>2, <1>7, <1>8
<1> HIDE DEF n
<1>10. Rest \o wire' = <<>>
  <2>1. Tail(Unread) \in Seq(Tokens)
    BY <1>1, <1>3, HeadTail
  <2>2. (n + 1) + Len(Tail(Unread)) <= Total(req.shape)
    BY <1>5 DEF Continues
  <2>3. (n + 1) + Len(Tail(Unread)) <= n + 1
    BY <2>2, <1>7, <1>8, Zenon
  <2> QED
    BY <2>1, <2>3, <1>3, <1>4, NoRoom
<1>11. wire' = <<>>
  BY <1>3, <1>10, BothEmpty
<1>12. /\ req' \in Requests
       /\ req'.at = "judge" /\ req'.about = req.about /\ req'.attempt = req.attempt
       /\ req'.answer = req.answer
       /\ (req'.reused <=> req.reused) /\ req'.shape = req.shape /\ req'.got = req.got
  <2>1. req' = [req EXCEPT !.at = "judge", !.pending = Rest] /\ Rest \in Seq(Tokens) /\ "judge" \in Stages
    BY <1>1, <1>3, StageTypes
  <2> QED
    <3> DEFINE shapes == Shape \cup {NoShape}
               bodies == Seq(Tokens)
               gots == Seq(Thing)
    <3>1. Requests = [at : Stages, about : Thing, attempt : {0, 1}, reused : BOOLEAN, shape : shapes,
                      pending : bodies, got : gots, answer : Answers]
      BY DEF Requests
    <3>2. Rest \in bodies
      BY <2>1
    <3> HIDE DEF shapes, bodies, gots
    <3> QED
      BY <1>2, <2>1, <3>1, <3>2
<1>13. LinkTypes'
  BY <1>1, <1>3, <1>12 DEF LinkInv, LinkTypes
<1>14. Judging'
  BY <1>1, <1>2, <1>9, <1>11, <1>12 DEF Judging
<1> QED
  BY <1>1, <1>12, <1>13, <1>14
  DEF LinkInv, NoReuseOnceStale, Waits, Connected, OneTry, Clean, Untouched, Asked, Reading, Filing

\* A body of the declared length has taken all there was; and one that ends with
\* the connection leaves nothing behind.
LEMMA StepBodyEnds == LinkInv /\ BodyEnds => LinkInv'
<1> SUFFICES ASSUME LinkInv, BodyEnds PROVE LinkInv'
  OBVIOUS
<1>1. /\ req.at = "body" /\ req' = [req EXCEPT !.at = "judge"]
      /\ sock' = sock /\ peer' = peer /\ owed' = owed /\ wire' = wire /\ streak' = streak
      /\ \/ Enough
         \/ LengthOf(req.shape) = NoLength /\ ~Chunked(req.shape) /\ Unread = <<>>
  BY DEF BodyEnds, link
<1>2. /\ req \in Requests /\ req.pending \in Seq(Tokens) /\ wire \in Seq(Tokens)
      /\ req.got \in Seq(Thing) /\ req.shape \in Shape /\ owed = <<>>
      /\ \A i \in 1 .. Len(req.got) : req.got[i] = req.about
      /\ Len(req.got) <= req.shape.size
      /\ Continues(Unread, req.about, req.shape, 1 + Len(req.got))
  BY <1>1, ReqFields DEF LinkInv, LinkTypes, Reading
<1>3. Len(req.got) \in Nat /\ req.shape.size \in Nat
  BY <1>2, ShapeFacts
<1>4. /\ Unread = <<>>
      /\ req.shape.chunked \/ LengthOf(req.shape) # NoLength => Len(req.got) = req.shape.size
  <2>1. CASE Enough
    <3>1. /\ ~req.shape.chunked /\ req.shape.length = req.shape.size
          /\ Len(req.got) >= req.shape.size
      BY <2>1, <1>2, <1>3, ShapeFacts DEF Enough, LengthOf, NoLength
    <3>2. Len(req.got) = req.shape.size /\ Total(req.shape) = 1 + Len(req.got) /\ 1 + Len(req.got) \in Nat
      BY <3>1, <1>2, <1>3, SMTT(30) DEF Total
    <3>3. (1 + Len(req.got)) + Len(Unread) <= 1 + Len(req.got)
      BY <3>2, <1>2 DEF Continues
    <3>4. Unread \in Seq(Tokens)
      BY <1>2, ConcatFacts DEF Unread
    <3> QED
      BY <3>2, <3>3, <3>4, NoRoom
  <2>2. CASE LengthOf(req.shape) = NoLength /\ ~Chunked(req.shape) /\ Unread = <<>>
    BY <2>2 DEF Chunked
  <2> QED
    BY <1>1, <2>1, <2>2
<1>5. wire = <<>>
  BY <1>2, <1>4, BothEmpty DEF Unread
<1>6. /\ req' \in Requests
      /\ req'.at = "judge" /\ req'.about = req.about /\ req'.attempt = req.attempt
      /\ req'.answer = req.answer
      /\ (req'.reused <=> req.reused) /\ req'.shape = req.shape /\ req'.got = req.got
  BY <1>1, <1>2, Staged, StageTypes
<1>7. LinkTypes'
  BY <1>1, <1>6 DEF LinkInv, LinkTypes
<1>8. Judging'
  BY <1>1, <1>2, <1>4, <1>5, <1>6 DEF Judging
<1> QED
  BY <1>1, <1>6, <1>7, <1>8
  DEF LinkInv, NoReuseOnceStale, Waits, Connected, OneTry, Clean, Untouched, Asked, Reading, Filing

\* From one step of the filing to the next.
LEMMA NextStage ==
  ASSUME LinkInv, NEW stage \in {"close", "remove", "rename"}, IntoFile,
         req.at \in {"judge", "close", "remove", "rename"}, req' = [req EXCEPT !.at = stage],
         UNCHANGED <<link, streak>>
  PROVE  LinkInv'
<1>1. sock' = sock /\ peer' = peer /\ owed' = owed /\ wire' = wire /\ streak' = streak
  BY DEF link
<1>2. /\ req' \in Requests
      /\ req'.at = stage /\ req'.about = req.about /\ req'.attempt = req.attempt
      /\ req'.answer = req.answer
      /\ (req'.reused <=> req.reused) /\ req'.shape = req.shape /\ req'.got = req.got
  <2>1. req \in Requests /\ stage \in Stages
    BY StageTypes DEF LinkInv, LinkTypes
  <2> QED
    BY <2>1, Staged
<1>3. LinkTypes'
  BY <1>1, <1>2 DEF LinkInv, LinkTypes
<1>4. Judging' /\ Filing'
  BY <1>1, <1>2 DEF LinkInv, Judging, Filing, IntoFile
<1> QED
  BY <1>1, <1>2, <1>3, <1>4
  DEF LinkInv, NoReuseOnceStale, Waits, Connected, OneTry, Clean, Untouched, Asked, Reading

LEMMA StepJudgeWhole == LinkInv /\ JudgeWhole => LinkInv'
<1> SUFFICES ASSUME LinkInv, JudgeWhole PROVE LinkInv'
  OBVIOUS
<1>1. req.at = "judge"
  BY DEF JudgeWhole
<1>2. CASE IntoFile
  BY <1>1, <1>2, NextStage DEF JudgeWhole
<1>3. CASE ~IntoFile
  <2>1. Served("200", Keep(req.shape))
    BY <1>3 DEF JudgeWhole
  <2>2. sock /\ owed = <<>> /\ wire = <<>>
    BY <1>1 DEF LinkInv, Connected, Judging
  <2> QED
    BY <1>1, <2>1, <2>2, EndServed
<1> QED
  BY <1>2, <1>3

LEMMA StepCloseFile == LinkInv /\ CloseFile => LinkInv'
  BY NextStage DEF CloseFile, LinkInv, Filing

LEMMA StepRemoveOld == LinkInv /\ RemoveOld => LinkInv'
<1> SUFFICES ASSUME LinkInv, RemoveOld PROVE LinkInv'
  OBVIOUS
<1>1. req.at = "remove" /\ req' = [req EXCEPT !.at = "rename"] /\ UNCHANGED <<link, streak>> /\ IntoFile
  BY DEF RemoveOld, LinkInv, Filing
<1> QED
  BY <1>1, NextStage

LEMMA StepRename == LinkInv /\ Rename => LinkInv'
<1> SUFFICES ASSUME LinkInv, Rename PROVE LinkInv'
  OBVIOUS
<1>1. req.at = "rename" /\ Served("200", Keep(req.shape))
  BY DEF Rename
<1>2. sock /\ owed = <<>> /\ wire = <<>>
  BY <1>1 DEF LinkInv, Connected, Judging
<1> QED
  BY <1>1, <1>2, EndServed

-----------------------------------------------------------------------------
(* The invariant holds.                                                     *)

LEMMA LinkStart == Init => LinkInv
<1> SUFFICES ASSUME Init PROVE LinkInv
  OBVIOUS
<1>1. /\ sock = FALSE /\ peer = "none" /\ owed = <<>> /\ wire = <<>> /\ streak = 0
      /\ req = Fresh("idle", Formats, 0, "none")
  BY DEF Init, IdleReq
<1>2. /\ req \in Requests /\ req.at = "idle" /\ req.attempt = 0 /\ ~req.reused
      /\ req.answer = "none" /\ req.got = <<>>
  <2>1. Formats \in Thing
    BY DEF Thing
  <2>2. /\ Fresh("idle", Formats, 0, "none") \in Requests
        /\ Fresh("idle", Formats, 0, "none").at = "idle" /\ Fresh("idle", Formats, 0, "none").attempt = 0
        /\ ~Fresh("idle", Formats, 0, "none").reused
        /\ Fresh("idle", Formats, 0, "none").answer = "none"
        /\ Fresh("idle", Formats, 0, "none").got = <<>>
    BY <2>1, FreshReq, StageTypes
  <2> QED
    BY <1>1, <2>2
<1>3. 0 \in 0 .. StreakLimit
  BY ShapeAssumption
<1>4. owed \in Seq(Thing) /\ wire \in Seq(Tokens)
  BY <1>1, Empty
<1>5. LinkTypes
  BY <1>1, <1>2, <1>3, <1>4 DEF LinkTypes
<1> QED
  BY <1>1, <1>2, <1>5, ShapeAssumption
  DEF LinkInv, NoReuseOnceStale, Waits, Connected, OneTry, Clean, Untouched, Asked, Reading, Judging, Filing

LEMMA LinkClient == LinkInv /\ ClientStep => LinkInv'
<1> SUFFICES ASSUME LinkInv, ClientStep PROVE LinkInv'
  OBVIOUS
<1>1. CASE LetGo \/ Reuse \/ Connect
  BY <1>1, StepLetGo, StepReuse, StepConnect
<1>2. CASE ConnectFails
  BY <1>2, EndLost DEF ConnectFails
<1>3. CASE Send \/ ReadHead \/ Refuse
  BY <1>3, StepSend, StepReadHead, StepRefuse
<1>4. CASE SendFails \/ HeadFails
  BY <1>4, EndRetry DEF SendFails, HeadFails
<1>5. CASE SinkOpen \/ ReadByte \/ ReadLast \/ BodyEnds
  BY <1>5, StepSinkOpen, StepReadByte, StepReadLast, StepBodyEnds
<1>6. CASE SinkOpenFails \/ SinkWriteFails \/ FinishFails
  BY <1>6, EndLost DEF SinkOpenFails, SinkWriteFails, FinishFails
<1>7. CASE BodyFails \/ JudgeEmpty
  BY <1>7, EndRetry DEF BodyFails, JudgeEmpty
<1>8. CASE JudgeWhole \/ CloseFile \/ RemoveOld \/ Rename
  BY <1>8, StepJudgeWhole, StepCloseFile, StepRemoveOld, StepRename
<1> QED
  BY <1>1, <1>2, <1>3, <1>4, <1>5, <1>6, <1>7, <1>8 DEF ClientStep

LEMMA LinkStep == LinkInv /\ [Next]_vars => LinkInv'
<1> SUFFICES ASSUME LinkInv, [Next]_vars PROVE LinkInv'
  OBVIOUS
<1>1. CASE \E thing \in Thing : Begin(thing)
  BY <1>1, StepBegin
<1>2. CASE ClientStep
  BY <1>2, LinkClient
<1>3. CASE ServerAnswers
  BY <1>3, StepServer
<1>4. CASE PeerLeaves
  BY <1>4, StepPeer
<1>5. CASE PowerCut
  BY <1>5, StepCut
<1>6. CASE UNCHANGED vars
  <2>1. sock' = sock /\ peer' = peer /\ owed' = owed /\ wire' = wire /\ streak' = streak /\ req' = req
    BY <1>6 DEF vars, link
  <2> QED
    BY <2>1
    DEF LinkInv, LinkTypes, NoReuseOnceStale, Waits, Connected, OneTry, Clean, Untouched, Asked, Reading,
        Judging, Filing, IntoFile, Unread
<1> QED
  BY <1>1, <1>2, <1>3, <1>4, <1>5, <1>6 DEF Next


-----------------------------------------------------------------------------
(* The disk.  The one temporary file open is that of the cover being        *)
(* fetched, from the opening of the sink to its end.                        *)

Writing == {"body", "judge", "close", "remove", "rename"}
NoneOpen == \A c \in Cover : temp[c] # "open"
OwnTemp == \A c \in Cover : temp[c] = "open" => req.at \in Writing /\ c = req.about

DiskInv ==
    /\ card \in [Cover -> {"none", "old", "whole", "half", "cut", "foreign"}]
    /\ temp \in [Cover -> {"none", "open", "left"}]
    /\ OwnTemp

\* Outside a cover's body no temporary file is open.
LEMMA Closed ==
  ASSUME DiskInv, req.at \notin Writing \/ ~IntoFile
  PROVE  NoneOpen
  BY DEF DiskInv, OwnTemp, NoneOpen, IntoFile

LEMMA Aborted ==
  ASSUME DiskInv, SinkAbort, UNCHANGED card
  PROVE  DiskInv'
<1>1. CASE IntoFile
  <2>1. temp' = [temp EXCEPT ![req.about] = "none"] /\ req.about \in Cover
    BY <1>1 DEF SinkAbort, IntoFile
  <2>2. temp' \in [Cover -> {"none", "open", "left"}]
    BY <2>1 DEF DiskInv
  <2>3. NoneOpen'
    BY <2>1 DEF DiskInv, OwnTemp, NoneOpen
  <2> QED
    BY <2>2, <2>3 DEF DiskInv, OwnTemp, NoneOpen
<1>2. CASE ~IntoFile
  <2>1. temp' = temp /\ NoneOpen
    BY <1>2, Closed DEF SinkAbort
  <2> QED
    BY <2>1 DEF DiskInv, OwnTemp, NoneOpen
<1> QED
  BY <1>1, <1>2

\* A step that leaves the disk alone, with no file open, or with the request
\* still writing.
LEMMA Alone ==
  ASSUME DiskInv, UNCHANGED disk,
         NoneOpen \/ (req'.at \in Writing /\ req'.about = req.about)
  PROVE  DiskInv'
  BY DEF DiskInv, OwnTemp, NoneOpen, disk

LEMMA DiskStart == Init => DiskInv
  BY DEF Init, DiskInv, OwnTemp

LEMMA DiskClient == LinkInv /\ DiskInv /\ ClientStep => DiskInv'
<1> SUFFICES ASSUME LinkInv, DiskInv, ClientStep PROVE DiskInv'
  OBVIOUS
<1>0. req \in Requests
  BY DEF LinkInv, LinkTypes
<1>1. CASE LetGo \/ Reuse \/ Connect \/ ConnectFails
  <2>1. req.at = "attempt" /\ UNCHANGED disk
    BY <1>1 DEF LetGo, Reuse, Connect, ConnectFails, disk
  <2> QED
    BY <2>1, Closed, Alone DEF Writing
<1>2. CASE Send \/ SendFails \/ ReadHead \/ HeadFails \/ Refuse
  <2>1. req.at \in {"send", "head", "refuse"} /\ UNCHANGED disk
    BY <1>2 DEF Send, SendFails, ReadHead, HeadFails, Refuse, disk
  <2> QED
    BY <2>1, Closed, Alone DEF Writing
<1>3. CASE SinkOpen
  <2>1. /\ req.at = "open" /\ req' = [req EXCEPT !.at = "body"] /\ card' = card
        /\ temp' = IF IntoFile THEN [temp EXCEPT ![req.about] = "open"] ELSE temp
    BY <1>3 DEF SinkOpen
  <2>2. req'.at \in Writing /\ req'.about = req.about
    BY <1>0, <2>1, Staged, StageTypes DEF Writing
  <2>3. NoneOpen
    BY <2>1, Closed DEF Writing
  <2> QED
    BY <2>1, <2>2, <2>3 DEF DiskInv, OwnTemp, NoneOpen, IntoFile
<1>4. CASE SinkOpenFails
  <2>1. req.at = "open" /\ UNCHANGED disk
    BY <1>4 DEF SinkOpenFails
  <2> QED
    BY <2>1, Closed, Alone DEF Writing
<1>5. CASE ReadByte
  <2> DEFINE got == Append(req.got, Head(Unread).about)
  <2>1. req.at = "body" /\ UNCHANGED disk /\ req' = [req EXCEPT !.got = got, !.pending = Rest]
    BY <1>5 DEF ReadByte, Wanting
  <2> HIDE DEF got
  <2>2. req'.at = req.at /\ req'.about = req.about
    <3> DEFINE shapes == Shape \cup {NoShape}
               bodies == Seq(Tokens)
               gots == Seq(Thing)
    <3>1. Requests = [at : Stages, about : Thing, attempt : {0, 1}, reused : BOOLEAN, shape : shapes,
                      pending : bodies, got : gots, answer : Answers]
      BY DEF Requests
    <3> HIDE DEF shapes, bodies, gots
    <3> QED
      BY <1>0, <2>1, <3>1
  <2> QED
    BY <2>1, <2>2, Alone DEF Writing
<1>6. CASE ReadLast
  <2>1. req.at = "body" /\ UNCHANGED disk /\ req' = [req EXCEPT !.at = "judge", !.pending = Rest]
    BY <1>6 DEF ReadLast, Wanting
  <2>2. req'.at = "judge" /\ req'.about = req.about
    <3> DEFINE shapes == Shape \cup {NoShape}
               bodies == Seq(Tokens)
               gots == Seq(Thing)
    <3>1. Requests = [at : Stages, about : Thing, attempt : {0, 1}, reused : BOOLEAN, shape : shapes,
                      pending : bodies, got : gots, answer : Answers]
      BY DEF Requests
    <3> HIDE DEF shapes, bodies, gots
    <3> QED
      BY <1>0, <2>1, <3>1
  <2> QED
    BY <2>1, <2>2, Alone DEF Writing
<1>7. CASE BodyEnds
  <2>1. UNCHANGED disk /\ req' = [req EXCEPT !.at = "judge"]
    BY <1>7 DEF BodyEnds
  <2> QED
    BY <1>0, <2>1, Staged, StageTypes, Alone DEF Writing
<1>8. CASE SinkWriteFails \/ BodyFails \/ JudgeEmpty \/ FinishFails
  <2>1. SinkAbort /\ UNCHANGED card
    BY <1>8 DEF SinkWriteFails, BodyFails, JudgeEmpty, FinishFails
  <2> QED
    BY <2>1, Aborted
<1>9. CASE JudgeWhole
  <2>1. UNCHANGED disk
    BY <1>9 DEF JudgeWhole
  <2>2. CASE IntoFile
    <3>1. req' = [req EXCEPT !.at = "close"]
      BY <1>9, <2>2 DEF JudgeWhole
    <3> QED
      BY <1>0, <2>1, <3>1, Staged, StageTypes, Alone DEF Writing
  <2>3. CASE ~IntoFile
    BY <2>1, <2>3, Closed, Alone
  <2> QED
    BY <2>2, <2>3
<1>10. CASE CloseFile
  <2>1. UNCHANGED disk /\ req' = [req EXCEPT !.at = "remove"]
    BY <1>10 DEF CloseFile
  <2> QED
    BY <1>0, <2>1, Staged, StageTypes, Alone DEF Writing
<1>11. CASE RemoveOld
  <2>1. /\ req' = [req EXCEPT !.at = "rename"] /\ temp' = temp
        /\ card' = [card EXCEPT ![req.about] = "none"] /\ req.at = "remove"
    BY <1>11 DEF RemoveOld
  <2>2. req'.at \in Writing /\ req'.about = req.about
    BY <1>0, <2>1, Staged, StageTypes DEF Writing
  <2> QED
    BY <2>1, <2>2 DEF DiskInv, OwnTemp
<1>12. CASE Rename
  <2>1. /\ req.at = "rename" /\ card' = [card EXCEPT ![req.about] = Content]
        /\ temp' = [temp EXCEPT ![req.about] = "none"]
    BY <1>12 DEF Rename
  <2>2. Content \in {"foreign", "whole", "half", "cut"}
    BY DEF Content
  <2>3. card' \in [Cover -> {"none", "old", "whole", "half", "cut", "foreign"}]
    BY <2>1, <2>2 DEF DiskInv
  <2>4. temp' \in [Cover -> {"none", "open", "left"}] /\ NoneOpen'
    BY <2>1 DEF DiskInv, OwnTemp, NoneOpen
  <2> QED
    BY <2>3, <2>4 DEF DiskInv, OwnTemp, NoneOpen
<1> QED
  BY <1>1, <1>2, <1>3, <1>4, <1>5, <1>6, <1>7, <1>8, <1>9, <1>10, <1>11, <1>12 DEF ClientStep

LEMMA DiskStep == LinkInv /\ DiskInv /\ [Next]_vars => DiskInv'
<1> SUFFICES ASSUME LinkInv, DiskInv, [Next]_vars PROVE DiskInv'
  OBVIOUS
<1>1. CASE \E thing \in Thing : Begin(thing)
  <2>1. req.at = "idle" /\ UNCHANGED disk
    BY <1>1 DEF Begin, LinkInv, Waits
  <2> QED
    BY <2>1, Closed, Alone DEF Writing
<1>2. CASE ClientStep
  BY <1>2, DiskClient
<1>3. CASE ServerAnswers \/ PeerLeaves \/ UNCHANGED vars
  <2>1. req' = req /\ card' = card /\ temp' = temp
    BY <1>3 DEF ServerAnswers, PeerLeaves, disk, vars
  <2> QED
    BY <2>1 DEF DiskInv, OwnTemp
<1>4. CASE PowerCut
  <2>1. temp' = [c \in Cover |-> IF temp[c] = "none" THEN "none" ELSE "left"] /\ card' = card
    BY <1>4 DEF PowerCut
  <2> QED
    BY <2>1 DEF DiskInv, OwnTemp
<1> QED
  BY <1>1, <1>2, <1>3, <1>4 DEF Next

-----------------------------------------------------------------------------
(* The theorems.                                                            *)

LinkDiskInv == LinkInv /\ DiskInv

\* The inductive invariant, of the connection and of the card, holds throughout
\* (http_get, do_request and the sink).
THEOREM LayerHolds == Spec => []LinkDiskInv
<1>1. Init => LinkDiskInv
  BY LinkStart, DiskStart DEF LinkDiskInv
<1>2. LinkDiskInv /\ [Next]_vars => LinkDiskInv'
  BY LinkStep, DiskStep DEF LinkDiskInv
<1> QED
  BY <1>1, <1>2, PTL DEF Spec

\* Every variable of the layer keeps its type (do_request, http_get).
THEOREM TypeCorrect == Spec => []TypeOK
<1>1. LinkDiskInv => TypeOK
  BY DEF LinkDiskInv, LinkInv, LinkTypes, DiskInv, TypeOK
<1> QED
  BY <1>1, LayerHolds, PTL

\* A kept connection holds nothing between two requests, whatever responses the
\* server may give and however they were cut: framing proves where each one ends.
THEOREM ConnectionsAreClean == Spec => []KeptIsClean
<1>1. LinkDiskInv => KeptIsClean
  BY DEF LinkDiskInv, LinkInv, Clean, KeptIsClean
<1> QED
  BY <1>1, LayerHolds, PTL

\* After as many stale connections in a row as the limit, none is reused.
THEOREM StaleStopsReuse == Spec => []NoReuseOnceStale
<1>1. LinkDiskInv => NoReuseOnceStale
  BY DEF LinkDiskInv, LinkInv
<1> QED
  BY <1>1, LayerHolds, PTL

\* No request leaves its temporary file open behind it.
THEOREM LeavesNoLitter == Spec => []NoLitter
<1>1. LinkDiskInv => NoLitter
  BY DEF LinkDiskInv, DiskInv, OwnTemp, Writing, NoLitter
<1> QED
  BY <1>1, LayerHolds, PTL

-----------------------------------------------------------------------------
(* The layer implements ArtTransfer.                                        *)

call == [about |-> req.about, dropped |-> req.at = "rename", answer |-> req.answer]

\* What a step that the callers do not see leaves as it was.
SameCall == req'.about = req.about /\ req'.answer = req.answer

LEMMA Unseen ==
  ASSUME SameCall, req.at # "rename", req'.at # "rename", UNCHANGED card
  PROVE  UNCHANGED Transfer!transferVars
<1>1. (req'.at = "rename") = (req.at = "rename")
  OBVIOUS
<1>2. call' = call
  BY <1>1 DEF SameCall, call
<1> QED
  BY <1>2 DEF Transfer!transferVars, call

\* The answer, at the end of a request.
LEMMA CallAnswered ==
  ASSUME NEW answer, Answered(answer)
  PROVE  Transfer!Answer(answer)
<1>1. /\ req'.about = req.about /\ req'.answer = answer /\ req'.at = "idle"
  BY DEF Answered, Fresh
<1>2. (req'.at = "rename") = FALSE
  BY <1>1
<1>3. call' = [about |-> req.about, dropped |-> FALSE, answer |-> answer] /\ call.about = req.about
  BY <1>1, <1>2 DEF call
<1> QED
  BY <1>3 DEF Transfer!Answer, call

LEMMA MapsLost ==
  ASSUME req.answer = "pending", Lost, UNCHANGED card
  PROVE  Transfer!TransferLost
  BY CallAnswered DEF Lost, Transfer!TransferLost, Transfer!Waiting

LEMMA MapsRetry ==
  ASSUME req.answer = "pending", req.at # "rename", Retry, UNCHANGED card
  PROVE  Transfer!TransferLost \/ UNCHANGED Transfer!transferVars
<1>1. CASE req.reused
  <2>1. req'.about = req.about /\ req'.answer = "pending" /\ req'.at = "attempt"
    BY <1>1 DEF Retry, Fresh
  <2> QED
    BY <2>1, Unseen DEF SameCall
<1>2. CASE ~req.reused
  BY <1>2, MapsLost DEF Retry
<1> QED
  BY <1>1, <1>2

\* What lands is the cover asked for, whole unless nothing framed it.
LEMMA Lands ==
  ASSUME LinkInv, req.at = "rename"
  PROVE  Content \in {"whole", "half"}
<1>1. /\ req.got \in Seq(Thing)
      /\ \A i \in 1 .. Len(req.got) : req.got[i] = req.about
      /\ req.shape.chunked \/ LengthOf(req.shape) # NoLength => Len(req.got) = req.shape.size
  BY ReqFields DEF LinkInv, LinkTypes, Judging
<1>2. DOMAIN req.got = 1 .. Len(req.got)
  BY <1>1
<1> QED
  BY <1>1, <1>2 DEF Content

LEMMA MapsClient ==
  LinkInv /\ ClientStep => Transfer!TransferNext \/ UNCHANGED Transfer!transferVars
<1> SUFFICES ASSUME LinkInv, ClientStep
             PROVE  Transfer!TransferNext \/ UNCHANGED Transfer!transferVars
  OBVIOUS
<1>0. req \in Requests /\ (req.at # "idle" <=> req.answer = "pending") /\ req.about \in Thing
  BY ReqFields DEF LinkInv, LinkTypes, Waits
<1>1. CASE LetGo
  <2>1. req' = req /\ req.at = "attempt" /\ card' = card
    BY <1>1 DEF LetGo, disk
  <2> QED
    BY <2>1, Unseen DEF SameCall
<1>2. CASE Reuse
  <2>1. req.at = "attempt" /\ card' = card /\ req' = [req EXCEPT !.at = "send", !.reused = TRUE]
    BY <1>2 DEF Reuse, disk
  <2>2. SameCall /\ req'.at = "send"
    <3> USE DEF SameCall
    <3> DEFINE shapes == Shape \cup {NoShape}
               bodies == Seq(Tokens)
               gots == Seq(Thing)
    <3>1. Requests = [at : Stages, about : Thing, attempt : {0, 1}, reused : BOOLEAN, shape : shapes,
                      pending : bodies, got : gots, answer : Answers]
      BY DEF Requests
    <3> HIDE DEF shapes, bodies, gots
    <3> QED
      BY <1>0, <2>1, <3>1
  <2> QED
    BY <2>1, <2>2, Unseen
<1>3. CASE Connect \/ Send \/ SinkOpen \/ BodyEnds \/ CloseFile
  <2>1. \E stage \in {"send", "head", "body", "judge", "remove"} : req' = [req EXCEPT !.at = stage]
    BY <1>3 DEF Connect, Send, SinkOpen, BodyEnds, CloseFile
  <2>2. req.at # "rename" /\ card' = card
    BY <1>3 DEF Connect, Send, SinkOpen, BodyEnds, CloseFile, disk
  <2>3. SameCall /\ req'.at # "rename"
    BY <1>0, <2>1, Staged, StageTypes DEF SameCall
  <2> QED
    BY <2>2, <2>3, Unseen
<1>4. CASE ConnectFails \/ SinkOpenFails \/ SinkWriteFails \/ FinishFails
  <2>1. Lost /\ card' = card /\ req.at # "idle"
    BY <1>4 DEF ConnectFails, SinkOpenFails, SinkWriteFails, FinishFails, Wanting, disk
  <2> QED
    BY <1>0, <2>1, MapsLost DEF Transfer!TransferNext
<1>5. CASE SendFails \/ HeadFails \/ BodyFails \/ JudgeEmpty
  <2>1. Retry /\ card' = card /\ req.at # "idle" /\ req.at # "rename"
    BY <1>5 DEF SendFails, HeadFails, BodyFails, JudgeEmpty, Wanting, disk
  <2> QED
    BY <1>0, <2>1, MapsRetry DEF Transfer!TransferNext
<1>6. CASE ReadHead
  <2> DEFINE stage == IF Head(wire).shape.status = "200" THEN "open" ELSE "refuse"
             head == Head(wire).shape
  <2>1. /\ req.at = "head" /\ card' = card
        /\ \E more \in 0 .. Len(wire) - 1 :
             req' = [req EXCEPT !.shape = head, !.pending = SubSeq(wire, 2, more + 1), !.at = stage]
    BY <1>6 DEF ReadHead, disk
  <2>2. stage \in {"open", "refuse"}
    OBVIOUS
  <2> HIDE DEF stage, head
  <2>3. SameCall /\ req'.at # "rename"
    <3> DEFINE shapes == Shape \cup {NoShape}
               bodies == Seq(Tokens)
               gots == Seq(Thing)
    <3>1. Requests = [at : Stages, about : Thing, attempt : {0, 1}, reused : BOOLEAN, shape : shapes,
                      pending : bodies, got : gots, answer : Answers]
      BY DEF Requests
    <3> HIDE DEF shapes, bodies, gots
    <3>2. PICK more \in 0 .. Len(wire) - 1 :
            req' = [req EXCEPT !.shape = head, !.pending = SubSeq(wire, 2, more + 1), !.at = stage]
      BY <2>1
    <3> DEFINE came == SubSeq(wire, 2, more + 1)
    <3>3. req' = [req EXCEPT !.shape = head, !.pending = came, !.at = stage]
      BY <3>2
    <3> HIDE DEF came
    <3> QED
      BY <1>0, <2>2, <3>1, <3>3 DEF SameCall
  <2> QED
    BY <2>1, <2>3, Unseen
<1>7. CASE Refuse
  <2>1. req.at = "refuse" /\ card' = card /\ Answered(req.shape.status)
    BY <1>7 DEF Refuse, Served, disk
  <2>2. req.shape.status \in {"404", "other"}
    BY <2>1, ShapeFacts DEF LinkInv, Reading
  <2> QED
    BY <1>0, <2>1, <2>2, CallAnswered DEF Transfer!TransferRefused, Transfer!Waiting, Transfer!TransferNext
<1>8. CASE ReadByte
  <2> DEFINE got == Append(req.got, Head(Unread).about)
  <2>1. req.at = "body" /\ card' = card /\ req' = [req EXCEPT !.got = got, !.pending = Rest]
    BY <1>8 DEF ReadByte, Wanting, disk
  <2> HIDE DEF got
  <2>2. SameCall /\ req'.at = req.at
    <3> USE DEF SameCall
    <3> DEFINE shapes == Shape \cup {NoShape}
               bodies == Seq(Tokens)
               gots == Seq(Thing)
    <3>1. Requests = [at : Stages, about : Thing, attempt : {0, 1}, reused : BOOLEAN, shape : shapes,
                      pending : bodies, got : gots, answer : Answers]
      BY DEF Requests
    <3> HIDE DEF shapes, bodies, gots
    <3> QED
      BY <1>0, <2>1, <3>1
  <2> QED
    BY <2>1, <2>2, Unseen
<1>9. CASE ReadLast
  <2>1. req.at = "body" /\ card' = card /\ req' = [req EXCEPT !.at = "judge", !.pending = Rest]
    BY <1>9 DEF ReadLast, Wanting, disk
  <2>2. SameCall /\ req'.at = "judge"
    <3> USE DEF SameCall
    <3> DEFINE shapes == Shape \cup {NoShape}
               bodies == Seq(Tokens)
               gots == Seq(Thing)
    <3>1. Requests = [at : Stages, about : Thing, attempt : {0, 1}, reused : BOOLEAN, shape : shapes,
                      pending : bodies, got : gots, answer : Answers]
      BY DEF Requests
    <3> HIDE DEF shapes, bodies, gots
    <3> QED
      BY <1>0, <2>1, <3>1
  <2> QED
    BY <2>1, <2>2, Unseen
<1>10. CASE JudgeWhole
  <2>1. req.at = "judge" /\ card' = card
    BY <1>10 DEF JudgeWhole, disk
  <2>2. CASE IntoFile
    <3>1. req' = [req EXCEPT !.at = "close"]
      BY <1>10, <2>2 DEF JudgeWhole
    <3>2. SameCall /\ req'.at = "close"
      BY <1>0, <3>1, Staged, StageTypes DEF SameCall
    <3> QED
      BY <2>1, <3>2, Unseen
  <2>3. CASE ~IntoFile
    <3>1. req.about = Formats /\ Answered("200")
      BY <1>0, <1>10, <2>3 DEF JudgeWhole, Served, IntoFile, Thing
    <3> QED
      BY <1>0, <2>1, <3>1, CallAnswered DEF Transfer!TransferFill, Transfer!Waiting, Transfer!TransferNext
  <2> QED
    BY <2>2, <2>3
<1>11. CASE RemoveOld
  <2>1. /\ req.at = "remove" /\ req' = [req EXCEPT !.at = "rename"] /\ req.about \in Cover
        /\ card' = [card EXCEPT ![req.about] = "none"]
    BY <1>11 DEF RemoveOld, LinkInv, Filing, IntoFile
  <2>2. req'.about = req.about /\ req'.answer = req.answer /\ req'.at = "rename"
    BY <1>0, <2>1, Staged, StageTypes
  <2>3. (req'.at = "rename") = TRUE /\ (req.at = "rename") = FALSE
    BY <2>1, <2>2
  <2>4. /\ call' = [about |-> req.about, dropped |-> TRUE, answer |-> req.answer]
        /\ call.about = req.about /\ call.answer = req.answer
    BY <2>2, <2>3 DEF call
  <2> QED
    BY <1>0, <2>1, <2>3, <2>4 DEF call, Transfer!TransferDrop, Transfer!Waiting, Transfer!TransferNext
<1>12. CASE Rename
  <2>1. /\ req.at = "rename" /\ card' = [card EXCEPT ![req.about] = Content] /\ Answered("200")
        /\ req.about \in Cover
    BY <1>12 DEF Rename, Served, LinkInv, Filing, IntoFile
  <2>2. Content \in {"whole", "half"}
    BY <2>1, Lands
  <2>3. Transfer!Answer("200")
    BY <2>1, CallAnswered
  <2> QED
    BY <1>0, <2>1, <2>2, <2>3 DEF Transfer!TransferLand, Transfer!Landed, Transfer!Waiting, Transfer!TransferNext
<1> QED
  BY <1>1, <1>2, <1>3, <1>4, <1>5, <1>6, <1>7, <1>8, <1>9, <1>10, <1>11, <1>12 DEF ClientStep

LEMMA MapsStep ==
  LinkInv /\ [Next]_vars => [Transfer!TransferNext]_Transfer!transferVars
<1> SUFFICES ASSUME LinkInv, [Next]_vars
             PROVE  Transfer!TransferNext \/ UNCHANGED Transfer!transferVars
  OBVIOUS
<1>1. ASSUME NEW thing \in Thing, Begin(thing)
      PROVE  Transfer!TransferNext
  <2>1. req.answer # "pending" /\ card' = card /\ req' = Fresh("attempt", thing, 0, "pending")
    BY <1>1 DEF Begin, disk
  <2>2. req'.about = thing /\ req'.answer = "pending" /\ (req'.at = "rename") = FALSE
    BY <2>1 DEF Fresh
  <2>3. call' = [about |-> thing, dropped |-> FALSE, answer |-> "pending"]
    BY <2>2 DEF call
  <2>4. Transfer!TransferBegin(thing)
    BY <2>1, <2>3 DEF call, Transfer!TransferBegin, Transfer!Waiting
  <2> QED
    BY <2>4 DEF Transfer!TransferNext, Transfer!Thing, Thing
<1>2. CASE ClientStep
  BY <1>2, MapsClient
<1>3. CASE ServerAnswers \/ PeerLeaves \/ UNCHANGED vars
  <2>1. req' = req /\ card' = card
    BY <1>3 DEF ServerAnswers, PeerLeaves, disk, vars
  <2> QED
    BY <2>1 DEF Transfer!transferVars
<1>4. CASE PowerCut
  <2>1. req' = Fresh("idle", Formats, 0, "none") /\ card' = card
    BY <1>4 DEF PowerCut, IdleReq
  <2>2. req'.about = Formats /\ req'.answer = "none" /\ (req'.at = "rename") = FALSE
    BY <2>1 DEF Fresh
  <2>3. call' = [about |-> Formats, dropped |-> FALSE, answer |-> "none"]
    BY <2>2 DEF call
  <2> QED
    BY <2>1, <2>3 DEF call, Transfer!TransferCut, Transfer!IdleCall, Transfer!TransferNext
<1> QED
  BY <1>1, <1>2, <1>3, <1>4 DEF Next

\* The layer implements ArtTransfer, whatever the responses: a cover lands whole or
\* not at all, a failure answers so, and the card is otherwise untouched.
THEOREM LayerImplementsTransfer == Spec => ImplementsTransfer
<1>1. Init => Transfer!TransferInit
  <2> SUFFICES ASSUME Init PROVE Transfer!TransferInit
    OBVIOUS
  <2>1. req = Fresh("idle", Formats, 0, "none") /\ card \in [Cover -> {"none", "old"}]
    BY DEF Init, IdleReq
  <2>2. req.about = Formats /\ req.answer = "none" /\ (req.at = "rename") = FALSE
    BY <2>1 DEF Fresh
  <2> QED
    BY <2>1, <2>2 DEF Transfer!TransferInit, Transfer!IdleCall
<1>2. LinkDiskInv /\ [Next]_vars => [Transfer!TransferNext]_Transfer!transferVars
  BY MapsStep DEF LinkDiskInv
<1> QED
  BY <1>1, <1>2, LayerHolds, PTL DEF Spec, ImplementsTransfer, Transfer!TransferSpec
=============================================================================
