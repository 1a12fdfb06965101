---------------------------- MODULE ArtTransfer ----------------------------
(***************************************************************************)
(* What the console's HTTP layer does for its callers: one request at a     *)
(* time, for a cover that lands on the card or for the format lists that    *)
(* land in a buffer, and one answer to it.  No connection, no retry.        *)
(*                                                                         *)
(* The card keeps the old cover until a new one is whole.  A request that   *)
(* ends without one leaves the card as it was, but for the moment between   *)
(* the removal of the old cover and the naming of the new one.              *)
(***************************************************************************)
CONSTANTS
    Cover,          \* paths on the card
    Formats         \* the request that lands in a buffer

VARIABLES
    card,           \* the file at each path, by what it is to its cover
    call            \* the request under way, or the last one and its answer

transferVars == <<card, call>>

Thing == Cover \cup {Formats}

\* "whole": the server's body, all of it.  "half": the part of it that had come
\* when a body without framing ended; nobody can tell that it is not whole.
Landed == {"whole", "half"}
Contents == {"none", "old"} \cup Landed
Answers == {"200", "404", "other", "lost"}

IdleCall == [about |-> Formats, dropped |-> FALSE, answer |-> "none"]
Waiting == call.answer = "pending"
Answer(a) == call' = [about |-> call.about, dropped |-> FALSE, answer |-> a]

TransferInit ==
    /\ card \in [Cover -> {"none", "old"}]
    /\ call = IdleCall

TransferBegin(thing) ==
    /\ ~Waiting
    /\ call' = [about |-> thing, dropped |-> FALSE, answer |-> "pending"]
    /\ UNCHANGED card

\* The old cover goes, once the new one is whole beside it.
TransferDrop ==
    /\ Waiting /\ call.about \in Cover /\ ~call.dropped
    /\ card' = [card EXCEPT ![call.about] = "none"]
    /\ call' = [about |-> call.about, dropped |-> TRUE, answer |-> call.answer]

TransferLand ==
    /\ Waiting /\ call.about \in Cover /\ call.dropped
    /\ \E content \in Landed : card' = [card EXCEPT ![call.about] = content]
    /\ Answer("200")

TransferFill ==
    /\ Waiting /\ call.about = Formats
    /\ Answer("200")
    /\ UNCHANGED card

TransferRefused ==
    /\ Waiting /\ ~call.dropped
    /\ \E answer \in {"404", "other"} : Answer(answer)
    /\ UNCHANGED card

TransferLost ==
    /\ Waiting
    /\ Answer("lost")
    /\ UNCHANGED card

\* The power goes: the card is all that is left.
TransferCut ==
    /\ call' = IdleCall
    /\ UNCHANGED card

TransferNext ==
    \/ \E thing \in Thing : TransferBegin(thing)
    \/ TransferDrop \/ TransferLand \/ TransferFill
    \/ TransferRefused \/ TransferLost \/ TransferCut

TransferSpec == TransferInit /\ [][TransferNext]_transferVars
=============================================================================
