--------------------------------- MODULE Fq ---------------------------------
(***************************************************************************)
(* fq_t (fq.cpp): fair queueing of inbound messages from the pipes of a    *)
(* PULL, DEALER, SUB or ROUTER socket.                                     *)
(*                                                                         *)
(* A pipe is what fq_t sees of pipe_t: whole messages that wait in it, of  *)
(* which only the number of parts matters; the end of them when the peer   *)
(* has closed; and whether the pipe may still be read.                     *)
(***************************************************************************)
EXTENDS PipeArray

CONSTANTS
    InPipes,        \* the pipes that may be attached
    MaxInParts,     \* bound: parts of a message
    MaxWaiting,     \* bound: messages waiting in a pipe
    MidMessage      \* TRUE: zmq_disconnect() also in the middle of a message

VARIABLES
    fqPipes, fqActive, fqCurrent, fqMore,   \* the members of fq_t
    inState,    \* of each pipe: "new", "open", "closing" or "done"
    inActive,   \* pipe_t::_in_active
    inbox,      \* of each pipe: parts left of each message, oldest first
    ended,      \* the delimiter is behind the messages
    served,     \* the pipe the last part was read from
    left        \* parts left of the message being received

fqMembers == <<fqPipes, fqActive, fqCurrent, fqMore>>
fqVars == <<fqPipes, fqActive, fqCurrent, fqMore, inState, inActive, inbox, ended, served, left>>

FqInit ==
    /\ fqPipes = <<>> /\ fqActive = 0 /\ fqCurrent = 0 /\ fqMore = FALSE
    /\ inState = [p \in InPipes |-> "new"]
    /\ inActive = [p \in InPipes |-> TRUE]
    /\ inbox = [p \in InPipes |-> <<>>] /\ ended = [p \in InPipes |-> FALSE]
    /\ served = "none" /\ left = 0

-----------------------------------------------------------------------------
(* What the pipes report *)

fq_attach(p) ==
    /\ inState[p] = "new"
    /\ inState' = [inState EXCEPT ![p] = "open"]
    /\ fqPipes' = Swap(Append(fqPipes, p), fqActive, Len(fqPipes))
    /\ fqActive' = fqActive + 1
    /\ UNCHANGED <<fqCurrent, fqMore, inActive, inbox, ended, served, left>>

\* activated(), called when a pipe that was found empty has something again.
fq_activated(p) ==
    /\ inActive' = [inActive EXCEPT ![p] = TRUE]
    /\ fqPipes' = Swap(fqPipes, Index(fqPipes, p), fqActive)
    /\ fqActive' = fqActive + 1

\* The peer writes a message, or closes and writes the delimiter.
Arrive(p, parts) ==
    /\ inState[p] = "open" /\ ~ended[p] /\ Len(inbox[p]) < MaxWaiting
    /\ \/ parts > 0 /\ inbox' = [inbox EXCEPT ![p] = Append(@, parts)] /\ UNCHANGED ended
       \/ parts = 0 /\ ended' = [ended EXCEPT ![p] = TRUE] /\ UNCHANGED inbox
    /\ IF inActive[p] THEN UNCHANGED <<inActive, fqPipes, fqActive>> ELSE fq_activated(p)
    /\ UNCHANGED <<fqCurrent, fqMore, inState, served, left>>

\* zmq_disconnect() or zmq_unbind(): socket_base_t::term_endpoint() calls
\* pipe_t::terminate(false), and from then on the pipe is not read any more.
Disconnect(p) ==
    /\ inState[p] = "open" /\ (fqMore => MidMessage)
    /\ inState' = [inState EXCEPT ![p] = "closing"]
    /\ UNCHANGED <<fqMembers, inActive, inbox, ended, served, left>>

\* pipe_terminated(): the last active pipe takes the place of the lost one.
fq_pipe_terminated(p) ==
    LET index == Index(fqPipes, p)
        gone == index < fqActive
        act == IF gone THEN fqActive - 1 ELSE fqActive
    IN  /\ inState[p] = "closing"
        /\ inState' = [inState EXCEPT ![p] = "done"]
        /\ fqActive' = act
        /\ fqCurrent' = IF gone /\ fqCurrent = act THEN 0 ELSE fqCurrent
        /\ fqPipes' = Erase(IF gone THEN Swap(fqPipes, index, act) ELSE fqPipes, p)
        /\ UNCHANGED <<fqMore, inActive, inbox, ended, served, left>>

-----------------------------------------------------------------------------
(* Receiving *)

\* pipe_t::read() and check_read() succeed.
Readable(p) == inState[p] = "open" /\ inActive[p] /\ inbox[p] # <<>>

FqLists == [pipes |-> fqPipes, active |-> fqActive, current |-> fqCurrent]

\* The pipes a loop has moved away: an empty one sleeps, one whose delimiter
\* was met acknowledges the termination.
Emptied(a) == {p \in InPipes : Has(fqPipes, p) /\ Index(fqPipes, p) < fqActive
                                             /\ Index(a.pipes, p) >= a.active}
Settled(a) ==
    /\ fqPipes' = a.pipes /\ fqActive' = a.active
    /\ inState' = [p \in InPipes |-> IF p \in Emptied(a) /\ ended[p] /\ inState[p] = "open"
                                     THEN "closing" ELSE inState[p]]
    /\ inActive' = [p \in InPipes |-> inActive[p] /\ ~(p \in Emptied(a) /\ inState'[p] = "open")]

\* A plausible slip in RecvPart.
RecvStays(a) ==
    LET p == At(a.pipes, a.current)
        parts == Head(inbox[p]) - 1
    IN  /\ Settled(a)
        /\ served' = p /\ left' = parts
        /\ inbox' = [inbox EXCEPT ![p] = (IF parts > 0 THEN <<parts>> ELSE <<>>) \o Tail(@)]
        /\ fqMore' = (parts > 0)
        /\ fqCurrent' = a.current

\* recvpipe() gets a part; after the last one the next pipe has its turn.
RecvPart(a) ==
    LET p == At(a.pipes, a.current)
        parts == Head(inbox[p]) - 1
    IN  /\ Settled(a)
        /\ served' = p /\ left' = parts
        /\ inbox' = [inbox EXCEPT ![p] = (IF parts > 0 THEN <<parts>> ELSE <<>>) \o Tail(@)]
        /\ fqMore' = (parts > 0)
        /\ fqCurrent' = IF parts > 0 THEN a.current ELSE (a.current + 1) % a.active

recvpipe ==
    \E a \in {Settle(FqLists, {p \in InPipes : Readable(p)})} :
        /\ a.active > 0
        /\ RecvPart(a)
        /\ UNCHANGED ended

\* recvpipe() without a message (EAGAIN), and has_in().
Look ==
    /\ ~fqMore
    /\ \E a \in {Settle(FqLists, {p \in InPipes : Readable(p)})} : Settled(a) /\ fqCurrent' = a.current
    /\ UNCHANGED <<fqMore, inbox, ended, served, left>>

-----------------------------------------------------------------------------
FqNext ==
    \/ \E p \in InPipes : fq_attach(p) \/ Disconnect(p) \/ fq_pipe_terminated(p)
    \/ \E p \in InPipes, parts \in 0 .. MaxInParts : Arrive(p, parts)
    \/ recvpipe \/ Look

FqSpec == FqInit /\ [][FqNext]_fqVars

-----------------------------------------------------------------------------
(* Properties *)

\* recvpipe()'s comment: "If we've already received the first part of the
\* message we should get the remaining parts without blocking", and its
\* zmq_assert (!_more).  Whatever arrives or closes in between, the next part
\* comes from the pipe that the first part came from.
MessageContinues ==
    fqMore => /\ fqActive > 0
              /\ At(fqPipes, fqCurrent) = served
              /\ Readable(served) /\ Head(inbox[served]) = left

\* The active pipes are the first ones of the list, and a pipe with a message
\* to read is one of them: has_in() and recvpipe() overlook nobody.
ReadableIsActive ==
    /\ fqActive <= Len(fqPipes)
    /\ fqActive > 0 => fqCurrent < fqActive
    /\ \A p \in InPipes : Readable(p) => Has(fqPipes, p) /\ Index(fqPipes, p) < fqActive

\* Fair queueing: a pipe that has a message is served, however many messages
\* keep arriving on the others and however often has_in() moves the pipes.
NobodyStarves ==
    \A p \in InPipes : []<>(inState[p] = "open" /\ inbox[p] # <<>> => served = p)
=============================================================================
