------------------------------- MODULE DsiHttp -------------------------------
(***************************************************************************)
(* The console's HTTP layer (networking.c): requests ride a kept connection, *)
(* a reused one that fails earns one retry on a fresh one, a body goes to    *)
(* the card through a temporary file.  The server and what lies between are  *)
(* the environment: answers of any shape, cut short anywhere, late, or none. *)
(***************************************************************************)
EXTENDS Naturals, Integers, Sequences

CONSTANTS
    Cover, Formats,     \* as in ArtTransfer
    Shape,              \* the responses a server may give, see ShapeAssumption
    StreakLimit,        \* STALE_STREAK_LIMIT: 3
    BufferSize          \* the caller's buffer for Formats, its NUL included

NoLength == -1          \* no Content-Length
Malformed == -2         \* CL_MALFORMED

\* A server frames what it sends: a length that is none but of a chunked body is
\* the body's, and a body without framing ends with the connection.
ASSUME ShapeAssumption ==
    /\ Formats \notin Cover
    /\ StreakLimit \in Nat /\ BufferSize \in Nat
    /\ \A s \in Shape :
        /\ s = [status |-> s.status, chunked |-> s.chunked, length |-> s.length,
                size |-> s.size, reusable |-> s.reusable]
        /\ s.status \in {"200", "404", "other"} /\ s.chunked \in BOOLEAN /\ s.reusable \in BOOLEAN
        /\ s.size \in Nat /\ s.length \in Int
        /\ ~s.chunked /\ s.length >= 0 => s.length = s.size
        /\ ~s.chunked /\ s.length = NoLength => ~s.reusable

VARIABLES
    sock,           \* whether s_sock is open
    streak,         \* s_stale_streak
    req,            \* http_get's and do_request's locals
    peer,           \* the other end of s_sock: "up", "closed" (it sent a FIN) or "dead"
    owed,           \* the requests on their way to the server, or not yet answered
    wire,           \* what the server sent and the console has not read
    card,           \* the covers on the card, see ArtTransfer
    temp            \* each cover's .tmp: "none", "open", or "left" by a power cut

link == <<sock, peer, owed, wire>>
disk == <<card, temp>>
vars == <<link, streak, req, disk>>

Thing == Cover \cup {Formats}
NoShape == [status |-> "200", chunked |-> FALSE, length |-> 0, size |-> 0, reusable |-> FALSE]
Stages == {"idle", "attempt", "send", "head", "refuse", "open", "body", "judge", "close", "remove", "rename"}
Answers == {"none", "pending", "200", "404", "other", "lost"}
\* http_get's locals as they begin; do_request's are not set yet.
Fresh(stage, thing, attempt, answer) ==
    [at |-> stage, about |-> thing, attempt |-> attempt, reused |-> FALSE, shape |-> NoShape,
     pending |-> <<>>, got |-> <<>>, answer |-> answer]
IdleReq == Fresh("idle", Formats, 0, "none")

-----------------------------------------------------------------------------
(* The server.                                                             *)

Token(part, thing, shape) == [part |-> part, about |-> thing, shape |-> shape]

Response(thing, s) ==
    <<Token("head", thing, s)>>
    \o [i \in 1 .. s.size |-> Token("byte", thing, NoShape)]
    \o (IF s.chunked THEN <<Token("last", thing, NoShape)>> ELSE <<>>)

\* An answer, whole, after which the server may end the connection; or the
\* first part of one, and then no more, with a FIN or without.
ServerAnswers ==
    /\ peer = "up" /\ owed # <<>>
    /\ \E s \in Shape : LET response == Response(Head(owed), s) IN
        \/ /\ wire' = wire \o response
           /\ peer' = IF s.reusable THEN "up" ELSE "closed"
        \/ \E sent \in 0 .. Len(response) - 1, last \in {"closed", "dead"} :
            /\ wire' = wire \o SubSeq(response, 1, sent)
            /\ peer' = last
    /\ owed' = Tail(owed)
    /\ UNCHANGED <<sock, streak, req, disk>>

\* The server ends a kept connection, or a router forgets it.
PeerLeaves ==
    /\ peer = "up"
    /\ peer' \in {"closed", "dead"}
    /\ UNCHANGED <<sock, owed, wire, streak, req, disk>>

-----------------------------------------------------------------------------
(* The connection and the answer.                                          *)

Disconnect == sock' = FALSE /\ peer' = "none" /\ owed' = <<>> /\ wire' = <<>>

Answered(answer) == req' = Fresh("idle", req.about, 0, answer)

\* A verdict no retry can change: a local failure, or a fresh connection's.
Lost == Disconnect /\ Answered("lost") /\ UNCHANGED streak

\* Mutant of the next: a fresh connection's failure is retried too.
RetryAlways ==
    /\ Disconnect
    /\ streak' = IF req.reused THEN streak + 1 ELSE streak
    /\ req' = Fresh("attempt", req.about, 1, "pending")
\* Mutant of the next: the failed connection is kept for the retry.
RetryHere ==
    IF req.reused
    THEN /\ UNCHANGED link
         /\ streak' = streak + 1
         /\ req' = Fresh("attempt", req.about, req.attempt + 1, "pending")
    ELSE Lost
\* RC_RETRY: once more, if the connection was not a fresh one.
Retry ==
    IF req.reused
    THEN /\ Disconnect
         /\ streak' = streak + 1
         /\ req' = Fresh("attempt", req.about, req.attempt + 1, "pending")
    ELSE Lost

Streak == IF req.reused THEN 0 ELSE streak

\* Mutant of the next: one kept connection too many.
ServedLate(answer, keep) ==
    /\ streak' = Streak
    /\ IF keep /\ Streak <= StreakLimit THEN UNCHANGED link ELSE Disconnect
    /\ Answered(answer)
\* The server has answered: the connection stays only if its end is provable, and
\* if kept ones have not been dying in a row.
Served(answer, keep) ==
    /\ streak' = Streak
    /\ IF keep /\ Streak < StreakLimit THEN UNCHANGED link ELSE Disconnect
    /\ Answered(answer)

\* Mutant of the next: a stale Content-Length frames a chunked body.
LengthAsDeclared(s) == s.length
LengthOf(s) == IF s.chunked THEN NoLength ELSE s.length
Chunked(s) == s.chunked
Keep(s) == s.reusable /\ (LengthOf(s) >= 0 \/ s.chunked)

-----------------------------------------------------------------------------
(* The sink: a file on the card, or the caller's buffer.                    *)

IntoFile == req.about \in Cover
Fits == IntoFile \/ Len(req.got) + 1 < BufferSize

\* Mutant of the next: the temporary file stays.
SinkLeft == UNCHANGED temp
SinkAbort == temp' = IF IntoFile THEN [temp EXCEPT ![req.about] = "none"] ELSE temp

\* What the bytes written amount to.
Content ==
    IF \E i \in DOMAIN req.got : req.got[i] # req.about THEN "foreign"
    ELSE IF Len(req.got) = req.shape.size THEN "whole"
    ELSE IF LengthOf(req.shape) = NoLength /\ ~req.shape.chunked THEN "half" ELSE "cut"

-----------------------------------------------------------------------------
(* http_get.                                                               *)

Begin(thing) ==
    /\ req.answer # "pending"
    /\ req' = Fresh("attempt", thing, 0, "pending")
    /\ UNCHANGED <<link, streak, disk>>

\* A connection that has sat idle for too long is not tried.
LetGo ==
    /\ req.at = "attempt" /\ sock
    /\ Disconnect
    /\ UNCHANGED <<streak, req, disk>>

Reuse ==
    /\ req.at = "attempt" /\ sock
    /\ req' = [req EXCEPT !.at = "send", !.reused = TRUE]
    /\ UNCHANGED <<link, streak, disk>>

Connect ==
    /\ req.at = "attempt" /\ ~sock
    /\ sock' = TRUE /\ peer' = "up" /\ owed' = <<>> /\ wire' = <<>>
    /\ req' = [req EXCEPT !.at = "send"]
    /\ UNCHANGED <<streak, disk>>

\* No address, no connection in time, or no TLS over it.
ConnectFails ==
    /\ req.at = "attempt" /\ ~sock
    /\ Lost
    /\ UNCHANGED disk

-----------------------------------------------------------------------------
(* do_request: the request and the head of the answer.                      *)

Send ==
    /\ req.at = "send"
    /\ owed' = IF peer = "up" THEN Append(owed, req.about) ELSE owed
    /\ req' = [req EXCEPT !.at = "head"]
    /\ UNCHANGED <<sock, peer, wire, streak, disk>>

SendFails ==
    /\ req.at = "send"
    /\ Retry
    /\ UNCHANGED disk

\* The head, and with it as much of the body as came in the same segments.
ReadHead ==
    /\ req.at = "head" /\ wire # <<>>
    /\ Head(wire).part = "head" /\ LengthOf(Head(wire).shape) # Malformed
    /\ \E more \in 0 .. Len(wire) - 1 :
        /\ wire' = SubSeq(wire, more + 2, Len(wire))
        /\ req' = [req EXCEPT !.shape = Head(wire).shape, !.pending = SubSeq(wire, 2, more + 1),
                              !.at = IF Head(wire).shape.status = "200" THEN "open" ELSE "refuse"]
    /\ UNCHANGED <<sock, peer, owed, streak, disk>>

\* No head, or a head that cannot be framed.
HeadFails ==
    /\ req.at = "head"
    /\ wire # <<>> => Head(wire).part # "head" \/ LengthOf(Head(wire).shape) = Malformed
    /\ Retry
    /\ UNCHANGED disk

\* Mutant of the next: an error page is left on the connection.
RefuseAndKeep ==
    /\ req.at = "refuse"
    /\ Served(req.shape.status, Keep(req.shape) /\ ~req.shape.chunked)
    /\ UNCHANGED disk
\* Anything but 200: reusable only if the whole body came with the head.
Refuse ==
    /\ req.at = "refuse"
    /\ Served(req.shape.status,
              Keep(req.shape) /\ ~req.shape.chunked /\ Len(req.pending) = LengthOf(req.shape))
    /\ UNCHANGED disk

SinkOpen ==
    /\ req.at = "open"
    /\ req' = [req EXCEPT !.at = "body"]
    /\ temp' = IF IntoFile THEN [temp EXCEPT ![req.about] = "open"] ELSE temp
    /\ UNCHANGED <<link, streak, card>>

SinkOpenFails ==
    /\ req.at = "open" /\ IntoFile
    /\ Lost
    /\ UNCHANGED disk

-----------------------------------------------------------------------------
(* do_request: the body.                                                    *)

Unread == req.pending \o wire
Enough == LengthOf(req.shape) >= 0 /\ Len(req.got) >= LengthOf(req.shape)
Wanting == req.at = "body" /\ ~Enough

\* The next token of the body leaves what came with the head, or the wire.
Take ==
    IF req.pending # <<>> THEN UNCHANGED wire ELSE wire' = Tail(wire)
Rest == IF req.pending # <<>> THEN Tail(req.pending) ELSE <<>>

\* A byte, written.  Outside chunked framing anything on the wire is one.
ReadByte ==
    /\ Wanting /\ Unread # <<>> /\ Fits
    /\ Chunked(req.shape) => Head(Unread).part = "byte"
    /\ Take
    /\ req' = [req EXCEPT !.got = Append(@, Head(Unread).about), !.pending = Rest]
    /\ UNCHANGED <<sock, peer, owed, streak, disk>>

\* A full card, or a body that would fill the buffer.
SinkWriteFails ==
    /\ Wanting /\ Unread # <<>> /\ (IntoFile \/ ~Fits)
    /\ Chunked(req.shape) => Head(Unread).part = "byte"
    /\ Lost /\ SinkAbort
    /\ UNCHANGED card

\* The terminal chunk, the declared length, or the close that ends a body
\* without framing.
ReadLast ==
    /\ Wanting /\ Unread # <<>> /\ Chunked(req.shape)
    /\ Head(Unread).part = "last"
    /\ Take
    /\ req' = [req EXCEPT !.at = "judge", !.pending = Rest]
    /\ UNCHANGED <<sock, peer, owed, streak, disk>>

BodyEnds ==
    /\ req.at = "body"
    /\ \/ Enough
       \/ LengthOf(req.shape) = NoLength /\ ~Chunked(req.shape) /\ Unread = <<>> /\ peer = "closed"
    /\ req' = [req EXCEPT !.at = "judge"]
    /\ UNCHANGED <<link, streak, disk>>

\* Nothing comes any more, or what comes is no chunk.
BodyFails ==
    /\ Wanting
    /\ Unread # <<>> => Chunked(req.shape) /\ Head(Unread).part = "head"
    /\ Retry /\ SinkAbort
    /\ UNCHANGED card

EmptyIsComplete == ~IntoFile /\ (LengthOf(req.shape) = 0 \/ Chunked(req.shape))

\* An empty cover is a failure; an empty answer into the buffer is one unless its
\* framing proves it.
JudgeEmpty ==
    /\ req.at = "judge" /\ req.got = <<>> /\ ~EmptyIsComplete
    /\ Retry /\ SinkAbort
    /\ UNCHANGED card

JudgeWhole ==
    /\ req.at = "judge" /\ (req.got # <<>> \/ EmptyIsComplete)
    /\ IF IntoFile
       THEN req' = [req EXCEPT !.at = "close"] /\ UNCHANGED <<link, streak>>
       ELSE Served("200", Keep(req.shape))
    /\ UNCHANGED disk

-----------------------------------------------------------------------------
(* sink_finish: close, remove the old cover, name the new one.              *)

CloseFile ==
    /\ req.at = "close"
    /\ req' = [req EXCEPT !.at = "remove"]
    /\ UNCHANGED <<link, streak, disk>>

RemoveOld ==
    /\ req.at = "remove"
    /\ card' = [card EXCEPT ![req.about] = "none"]
    /\ req' = [req EXCEPT !.at = "rename"]
    /\ UNCHANGED <<link, streak, temp>>

Rename ==
    /\ req.at = "rename"
    /\ card' = [card EXCEPT ![req.about] = Content]
    /\ temp' = [temp EXCEPT ![req.about] = "none"]
    /\ Served("200", Keep(req.shape))

\* The flush or the rename fails: card trouble, and final.  A rename also fails
\* over an old cover that could not be removed.
FinishFails ==
    /\ req.at \in {"close", "remove", "rename"}
    /\ Lost /\ SinkAbort
    /\ UNCHANGED card

\* The power goes.  What is in a .tmp stays there until the cover is asked for
\* again.
PowerCut ==
    /\ req' = IdleReq
    /\ Disconnect
    /\ streak' = 0
    /\ temp' = [c \in Cover |-> IF temp[c] = "none" THEN "none" ELSE "left"]
    /\ UNCHANGED card

-----------------------------------------------------------------------------
Init ==
    /\ sock = FALSE /\ peer = "none" /\ owed = <<>> /\ wire = <<>>
    /\ streak = 0 /\ req = IdleReq
    /\ card \in [Cover -> {"none", "old"}]
    /\ temp = [c \in Cover |-> "none"]

\* What http_get does once called, in the order it does it.
ClientStep ==
    \/ LetGo \/ Reuse \/ Connect \/ ConnectFails
    \/ Send \/ SendFails \/ ReadHead \/ HeadFails \/ Refuse
    \/ SinkOpen \/ SinkOpenFails
    \/ ReadByte \/ SinkWriteFails \/ ReadLast \/ BodyEnds \/ BodyFails
    \/ JudgeEmpty \/ JudgeWhole
    \/ CloseFile \/ RemoveOld \/ Rename \/ FinishFails

Next ==
    \/ \E thing \in Thing : Begin(thing)
    \/ ClientStep
    \/ ServerAnswers \/ PeerLeaves
    \/ PowerCut

\* Every wait has a ceiling (CONNECT_TIMEOUT_SECS, IO_TIMEOUT_SECS), so the client
\* always moves.
Fairness == WF_vars(ClientStep)
Spec == Init /\ [][Next]_vars
FairSpec == Spec /\ Fairness

-----------------------------------------------------------------------------
(* What the layer promises.                                                 *)

Tokens == [part : {"head", "byte", "last"}, about : Thing, shape : Shape \cup {NoShape}]
Requests == [at : Stages, about : Thing, attempt : {0, 1}, reused : BOOLEAN,
             shape : Shape \cup {NoShape}, pending : Seq(Tokens), got : Seq(Thing), answer : Answers]

TypeOK ==
    /\ sock \in BOOLEAN
    /\ peer \in {"none", "up", "closed", "dead"} /\ (sock <=> peer # "none")
    /\ owed \in Seq(Thing) /\ wire \in Seq(Tokens)
    /\ streak \in 0 .. StreakLimit
    /\ req \in Requests
    /\ card \in [Cover -> {"none", "old", "whole", "half", "cut", "foreign"}]
    /\ temp \in [Cover -> {"none", "open", "left"}]

\* Between two requests a kept connection owes no answer and holds no byte of
\* one: whatever the last response was, and however it came, the next one read
\* from it is the next one asked for (do_request).
KeptIsClean == req.at \in {"idle", "attempt"} /\ sock => owed = <<>> /\ wire = <<>>

\* Once kept connections have died StreakLimit times in a row none is kept again:
\* each request buys a fresh one, for the rest of the run (http_get).
NoReuseOnceStale == streak = StreakLimit => ~req.reused /\ (req.at \in {"idle", "attempt"} => ~sock)

\* Whatever fails, a request leaves no temporary file: only a power cut does
\* (sink_abort, sink_finish).
NoLitter == req.at \notin {"body", "judge", "close", "remove", "rename"} => \A c \in Cover : temp[c] # "open"

\* A cover lands on the card whole and is the one asked for, 200 is answered if and
\* only if it has landed, and no other answer touches the card, but that the old
\* cover goes a step before the new one comes: the layer implements ArtTransfer.
Transfer == INSTANCE ArtTransfer WITH
    call <- [about |-> req.about, dropped |-> req.at = "rename", answer |-> req.answer]
ImplementsTransfer == Transfer!TransferSpec

\* A request ends, whatever the network and the card do (the timeouts, and one
\* retry at most).
RequestEnds == []<>(req.answer # "pending")

\* Fails, see README: a transfer cut short leaves no half cover behind.
NoHalfCover == \A c \in Cover : card[c] # "half"
=============================================================================
