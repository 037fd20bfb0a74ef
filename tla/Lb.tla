--------------------------------- MODULE Lb ---------------------------------
(***************************************************************************)
(* lb_t (lb.cpp): load balancing of outbound messages over the pipes of a  *)
(* PUSH, DEALER or REQ socket, together with the part of                   *)
(* socket_base_t::send() that deals with its results.                      *)
(*                                                                         *)
(* A pipe is what lb_t sees of pipe_t: it takes a part, refuses it because *)
(* it is full, or refuses it because it is closing.  Its state changes     *)
(* between any two calls, when the socket processes its commands.          *)
(***************************************************************************)
EXTENDS Integers, PipeArray

CONSTANTS
    Pipes,          \* the pipes that may be attached
    MaxMsgs,        \* bound: messages the application sends
    MaxParts,       \* bound: parts of a message
    NonBlocking     \* TRUE: ZMQ_DONTWAIT, the application retries on EAGAIN

VARIABLES
    pipes, active, current, more, dropping,     \* the members of lb_t
    state,      \* of each pipe: "new", "open", "closing" or "done"
    full,       \* the pipe is at its high watermark
    outActive,  \* pipe_t::_out_active
    unfinished, \* of each pipe: parts written behind the last complete message
    sent,       \* of each pipe: the messages it has taken
    msg, part   \* the application sends part `part` of message `msg` next

lbVars == <<pipes, active, current, more, dropping>>
pipeVars == <<state, full, outActive, unfinished, sent>>
appVars == <<msg, part>>
vars == <<pipes, active, current, more, dropping, state, full, outActive,
          unfinished, sent, msg, part>>

Init ==
    /\ pipes = <<>> /\ active = 0 /\ current = 0
    /\ more = FALSE /\ dropping = FALSE
    /\ state = [p \in Pipes |-> "new"]
    /\ full = [p \in Pipes |-> FALSE] /\ outActive = [p \in Pipes |-> TRUE]
    /\ unfinished = [p \in Pipes |-> <<>>] /\ sent = [p \in Pipes |-> <<>>]
    /\ msg = 1 /\ part = 1

-----------------------------------------------------------------------------
(* What the pipes report *)

\* attach(): the pipe is appended and activated.
attach(p) ==
    /\ state[p] = "new"
    /\ state' = [state EXCEPT ![p] = "open"]
    /\ pipes' = Swap(Append(pipes, p), Len(pipes), active)
    /\ active' = active + 1
    /\ UNCHANGED <<current, more, dropping, full, outActive, unfinished, sent, appVars>>

\* The peer has read messages: pipe_t::process_activate_write(), which calls
\* write_activated() and so activated() when the pipe had refused a message.
activated(p) ==
    /\ full[p] /\ state[p] = "open"
    /\ full' = [full EXCEPT ![p] = FALSE]
    /\ outActive' = [outActive EXCEPT ![p] = TRUE]
    /\ IF outActive[p]
       THEN UNCHANGED <<pipes, active>>
       ELSE /\ pipes' = Swap(pipes, Index(pipes, p), active)
            /\ active' = active + 1
    /\ UNCHANGED <<current, more, dropping, state, unfinished, sent, appVars>>

\* The pipe starts to terminate, from either end; nothing tells lb_t.
Closing(p) ==
    /\ state[p] = "open"
    /\ state' = [state EXCEPT ![p] = "closing"]
    /\ UNCHANGED <<lbVars, full, outActive, unfinished, sent, appVars>>

\* A plausible slip in pipe_terminated.
pipe_terminated_keeps_more(p) ==
    LET index == Index(pipes, p)
        gone == index < active
        act == IF gone THEN active - 1 ELSE active
    IN  /\ state[p] = "closing"
        /\ state' = [state EXCEPT ![p] = "done"]
        /\ active' = act
        /\ current' = IF gone /\ current = act THEN 0 ELSE current
        /\ pipes' = Erase(IF gone THEN Swap(pipes, index, act) ELSE pipes, p)
        /\ UNCHANGED <<more, dropping, full, outActive, unfinished, sent, appVars>>

\* pipe_terminated(): when the pipe held the first parts of the message being
\* sent, the rest of that message is dropped.
pipe_terminated(p) ==
    LET index == Index(pipes, p)
        gone == index < active
        act == IF gone THEN active - 1 ELSE active
    IN  /\ state[p] = "closing"
        /\ state' = [state EXCEPT ![p] = "done"]
        /\ dropping' = (dropping \/ (index = current /\ more))
        /\ active' = act
        /\ current' = IF gone /\ current = act THEN 0 ELSE current
        /\ pipes' = Erase(IF gone THEN Swap(pipes, index, act) ELSE pipes, p)
        /\ UNCHANGED <<more, full, outActive, unfinished, sent, appVars>>

-----------------------------------------------------------------------------
(* Sending *)

\* pipe_t::write() and check_write() succeed.
Writable(p) == state[p] = "open" /\ outActive[p] /\ ~full[p]

Takers == {p \in Pipes : Writable(p)}

Lists == [pipes |-> pipes, active |-> active, current |-> current]
Become(a) == pipes' = a.pipes /\ active' = a.active

\* The pipes a loop has moved away and that were full: check_write() has told
\* them to report when they are not any more.
Refused(a) ==
    outActive' = [p \in Pipes |->
        outActive[p] /\ ~(full[p] /\ state[p] = "open" /\ Has(pipes, p)
                          /\ Index(pipes, p) < active /\ Index(a.pipes, p) >= a.active)]

\* The application goes on with the next part or the next message.
Advance(m) == IF m THEN msg' = msg /\ part' = part + 1 ELSE msg' = msg + 1 /\ part' = 1

MaySend(m) == msg <= MaxMsgs /\ (m => part < MaxParts)

\* The rest of a message that could not be delivered.
SendDropped(m) ==
    /\ MaySend(m) /\ dropping
    /\ more' = m /\ dropping' = m
    /\ Advance(m)
    /\ UNCHANGED <<pipes, active, current, pipeVars>>

\* A part goes into the current pipe; the last one completes the message.
SendOk(m) ==
    LET a == Settle(Lists, Takers)
        p == At(a.pipes, a.current)
        parts == Append(unfinished[p], [msg |-> msg, part |-> part])
    IN  /\ MaySend(m) /\ ~dropping
        /\ a.active > 0
        /\ more => a = Lists
        /\ Become(a) /\ Refused(a)
        /\ more' = m
        /\ current' = IF m THEN a.current ELSE (a.current + 1) % a.active
        /\ unfinished' = [unfinished EXCEPT ![p] = IF m THEN parts ELSE <<>>]
        /\ sent' = IF m THEN sent ELSE [sent EXCEPT ![p] = Append(@, parts)]
        /\ Advance(m)
        /\ UNCHANGED <<dropping, state, full>>

\* A later part is refused: rollback, -2.  socket_base_t::send() swallows the
\* part in blocking mode and otherwise leaves it with the application.
SendBroken(m) ==
    LET p == At(pipes, current)
    IN  /\ MaySend(m) /\ ~dropping /\ more
        /\ active > 0 /\ ~Writable(p)
        /\ unfinished' = [unfinished EXCEPT ![p] = <<>>]
        /\ outActive' = [outActive EXCEPT ![p] = @ /\ ~(full[p] /\ state[p] = "open")]
        /\ dropping' = m /\ more' = FALSE
        /\ IF NonBlocking THEN UNCHANGED appVars ELSE Advance(m)
        /\ UNCHANGED <<pipes, active, current, state, full, sent>>

\* No pipe takes the message: EAGAIN, or wait for commands and try again.
SendFails ==
    LET a == Settle(Lists, Takers)
    IN  /\ msg <= MaxMsgs /\ ~dropping
        /\ more => active = 0
        /\ a.active = 0
        /\ Become(a) /\ Refused(a) /\ current' = a.current
        /\ UNCHANGED <<more, dropping, state, full, unfinished, sent, appVars>>

\* has_out(), asked by zmq_poll() and zmq_getsockopt().
has_out ==
    LET a == Settle(Lists, Takers)
    IN  /\ ~more
        /\ Become(a) /\ Refused(a) /\ current' = a.current
        /\ UNCHANGED <<more, dropping, state, full, unfinished, sent, appVars>>

\* A pipe reaches its high watermark when it has taken a message.
Fill(p) ==
    /\ state[p] = "open" /\ ~full[p] /\ unfinished[p] = <<>> /\ sent[p] # <<>>
    /\ full' = [full EXCEPT ![p] = TRUE]
    /\ UNCHANGED <<lbVars, state, outActive, unfinished, sent, appVars>>

-----------------------------------------------------------------------------
Next ==
    \/ \E p \in Pipes :
          attach(p) \/ activated(p) \/ Closing(p) \/ pipe_terminated(p) \/ Fill(p)
    \/ \E m \in BOOLEAN : SendDropped(m) \/ SendOk(m) \/ SendBroken(m)
    \/ SendFails \/ has_out

Spec == Init /\ [][Next]_vars

-----------------------------------------------------------------------------
(* Properties *)

\* Whatever closes, fills up or is attached between the parts, a pipe only
\* ever takes whole messages: what it passes on as one message is all the parts
\* of one message of the application.
WholeMessages ==
    \A p \in Pipes : \A i \in 1 .. Len(sent[p]) :
        LET m == sent[p][i]
        IN  \A k \in 1 .. Len(m) : m[k] = [msg |-> m[1].msg, part |-> k]

\* A pipe that would take a message is among the active ones, so EAGAIN is only
\* returned when really nobody can take the message: no activation is lost.
WritableIsActive ==
    \A p \in Pipes : Writable(p) => Has(pipes, p) /\ Index(pipes, p) < active
=============================================================================
