-------------------------------- MODULE Pipe --------------------------------
(***************************************************************************)
(* A pair of pipe_t objects (pipe.cpp) and the two ypipes between them:    *)
(* flow control by high and low watermark, multipart messages, the         *)
(* credentials a session writes among them, the termination handshake with *)
(* its delimiter, and the hiccup by which a session replaces its inbound   *)
(* ypipe when it reconnects.                                               *)
(*                                                                         *)
(* Each end lives in a thread of its own.  Commands reach an end through   *)
(* its thread's mailbox, in the order in which the peer sent them          *)
(* (Mailbox); a ypipe is the flushed queue of Fifo plus the items its      *)
(* writer has not flushed yet.                                             *)
(***************************************************************************)
EXTENDS Integers, Sequences, FiniteSets

CONSTANTS
    MaxMsgs,        \* bound: messages and credentials the user of each end starts, [Ends -> Nat]
    MaxTerms,       \* bound: terminate() calls of each end, [Ends -> Nat]
    MaxHiccups,     \* bound: hiccup() calls of each end, [Ends -> Nat]
    MaxHwmChanges,  \* bound: changes of the watermarks, [Ends -> Nat]
    Hwm,            \* initial outbound high watermark, [Ends -> Nat], 0 = none
    NewHwms,        \* the values ZMQ_SNDHWM and ZMQ_RCVHWM are set to later
    Boost           \* set_hwms_boost, [Ends -> [in, out]], -1 = not set

\* A is the end of a socket, B the end of a session or of an inproc peer.
Ends == {"A", "B"}
Peer(p) == IF p = "A" THEN "B" ELSE "A"

VARIABLES
    st,         \* _state, or "gone" once the pipe_t is deleted
    delay,      \* _delay
    inActive,   \* _in_active
    outActive,  \* _out_active
    hwm, lwm,   \* _hwm, _lwm
    nread,      \* _msgs_read
    nwritten,   \* _msgs_written
    peerRead,   \* _peers_msgs_read
    skipped,    \* history: credentials that read() has dropped
    skipping,   \* read() has dropped a credential and not returned yet
    in,         \* _in_pipe: index of a ypipe
    out,        \* _out_pipe: index of a ypipe or NULL
    yp,         \* the ypipes created so far
    freed,      \* indices of the ypipes deleted
    cmds,       \* commands on their way to each end, oldest first
    mid,        \* the user has written the first part of a message only
    started,    \* messages the user has started to write, credentials included
    got,        \* history: parts the user has read, oldest first
    calls       \* terminate(), hiccup() and set_hwms() calls made so far

ctrlVars == <<st, delay, inActive, outActive, hwm, lwm>>
countVars == <<nread, nwritten, peerRead, skipped>>
memVars == <<in, out, yp, freed>>
userVars == <<mid, started, got, calls>>
vars == <<st, delay, inActive, outActive, hwm, lwm, nread, nwritten, peerRead, skipped, skipping,
          in, out, yp, freed, cmds, mid, started, got, calls>>

NULL == 0
States == {"active", "delimiter_received", "waiting_for_delimiter",
           "term_ack_sent", "term_req_sent1", "term_req_sent2"}

-----------------------------------------------------------------------------
(* ypipes *)

Delimiter == [n |-> 0, kind |-> "delimiter"]
Part == [n : Nat, kind : {"single", "head", "tail", "credential", "delimiter"}]

\* msg_t::more
More(m) == m.kind = "head"

NewYpipe == [q |-> <<>>, u |-> <<>>, asleep |-> FALSE]

\* The unflushed items up to _f, and those behind it: the parts of a message
\* whose last part is not there yet.
Unfinished(u) == IF u # <<>> /\ More(u[Len(u)]) THEN SubSeq(u, Len(u), Len(u)) ELSE <<>>
Complete(u) == SubSeq(u, 1, Len(u) - Len(Unfinished(u)))

Flushed(y) ==
    [q |-> y.q \o Complete(y.u),
     u |-> Unfinished(y.u),
     asleep |-> y.asleep /\ Complete(y.u) = <<>>]

\* flush() returns false: the writer has to wake the reader.
FlushWakes(y) == y.asleep /\ Complete(y.u) # <<>>

RolledBack(y) == [y EXCEPT !.u = Complete(@)]

Written(y, m) == [y EXCEPT !.u = Append(@, m)]

-----------------------------------------------------------------------------
(* Watermarks *)

\* A plausible slip in compute_lwm.
compute_lwm_above(h) == h + 1
compute_lwm(h) == (h + 1) \div 2

\* set_hwms(): the boost is added, and no limit on one side is no limit.
Boosted(h, boost) == IF h <= 0 \/ boost = 0 THEN 0 ELSE h + (IF boost > 0 THEN boost ELSE 0)

\* A plausible slip in Full.
FullOffByOne(p) == hwm[p] > 0 /\ nwritten[p] - peerRead[p] > hwm[p]

\* check_hwm(), in the unsigned arithmetic of uint64_t.
Full(p) ==
    LET d == nwritten[p] - peerRead[p]
    IN  hwm[p] > 0 /\ (d < 0 \/ d >= hwm[p])

-----------------------------------------------------------------------------
Cmd(c) == [c |-> c]

SendTo(p, s) == cmds' = [cmds EXCEPT ![p] = @ \o s]

WakeUp(y) == IF FlushWakes(y) THEN <<Cmd("activate_read")>> ELSE <<>>

\* pipepair(); PUSH, PUB and the like call set_nodelay() when they attach.
Init ==
    /\ st = [p \in Ends |-> "active"]
    /\ delay \in [Ends -> BOOLEAN]
    /\ inActive = [p \in Ends |-> TRUE] /\ outActive = [p \in Ends |-> TRUE]
    /\ hwm = Hwm /\ lwm = [p \in Ends |-> compute_lwm(Hwm[Peer(p)])]
    /\ nread = [p \in Ends |-> 0] /\ nwritten = [p \in Ends |-> 0]
    /\ peerRead = [p \in Ends |-> 0]
    /\ skipped = [p \in Ends |-> 0] /\ skipping = [p \in Ends |-> FALSE]
    /\ in = [p \in Ends |-> IF p = "A" THEN 1 ELSE 2]
    /\ out = [p \in Ends |-> IF p = "A" THEN 2 ELSE 1]
    /\ yp = <<NewYpipe, NewYpipe>> /\ freed = {}
    /\ cmds = [p \in Ends |-> <<>>]
    /\ mid = [p \in Ends |-> FALSE] /\ started = [p \in Ends |-> 0]
    /\ got = [p \in Ends |-> <<>>]
    /\ calls = [p \in Ends |-> [term |-> 0, hiccup |-> 0, hwm |-> 0]]

-----------------------------------------------------------------------------
(* Writing *)

CheckWrite(p) == outActive[p] /\ st[p] = "active"

\* write(): the user writes a whole message, or its two parts one by one.  The
\* engine of a session writes the user id of its peer as a message of its own
\* (write_credential()), which is counted like any other.
Write(p, kind) ==
    /\ CheckWrite(p) /\ ~Full(p)
    /\ IF mid[p] THEN kind = "tail"
                 ELSE kind \in {"single", "head", "credential"} /\ started[p] < MaxMsgs[p]
    /\ kind = "credential" => p = "B"
    /\ started' = [started EXCEPT ![p] = IF mid[p] THEN @ ELSE @ + 1]
    /\ yp' = [yp EXCEPT ![out[p]] = Written(@, [n |-> started'[p], kind |-> kind])]
    /\ nwritten' = [nwritten EXCEPT ![p] = IF kind = "head" THEN @ ELSE @ + 1]
    /\ mid' = [mid EXCEPT ![p] = kind = "head"]
    /\ UNCHANGED <<ctrlVars, nread, peerRead, skipped, in, out, freed, cmds, got, calls>>

\* check_write() meets the high watermark.
WriteFull(p) ==
    /\ CheckWrite(p) /\ Full(p) /\ ~mid[p]
    /\ outActive' = [outActive EXCEPT ![p] = FALSE]
    /\ UNCHANGED <<st, delay, inActive, hwm, lwm, countVars, memVars, cmds, userVars>>

\* A plausible slip in WriteAbort.
WriteAbortKeepsParts(p) ==
    /\ mid[p] /\ st[p] # "gone"
    /\ ~CheckWrite(p) \/ Full(p)
    /\ outActive' = [outActive EXCEPT ![p] = FALSE]
    /\ mid' = [mid EXCEPT ![p] = FALSE]
    /\ UNCHANGED <<st, delay, inActive, hwm, lwm, countVars, memVars, cmds, started, got, calls>>

\* The rest of a message is refused: the user rolls back what it has written.
WriteAbort(p) ==
    /\ mid[p] /\ st[p] # "gone"
    /\ ~CheckWrite(p) \/ Full(p)
    /\ outActive' = [outActive EXCEPT ![p] = FALSE]
    /\ mid' = [mid EXCEPT ![p] = FALSE]
    /\ yp' = IF out[p] = NULL THEN yp ELSE [yp EXCEPT ![out[p]] = RolledBack(@)]
    /\ UNCHANGED <<st, delay, inActive, hwm, lwm, countVars, in, out, freed, cmds,
                   started, got, calls>>

\* flush(), called by the user after a complete message.
Flush(p) ==
    /\ st[p] \notin {"gone", "term_ack_sent"}
    /\ out[p] # NULL /\ Complete(yp[out[p]].u) # <<>>
    /\ yp' = [yp EXCEPT ![out[p]] = Flushed(@)]
    /\ SendTo(Peer(p), WakeUp(yp[out[p]]))
    /\ UNCHANGED <<ctrlVars, countVars, in, out, freed, userVars>>

-----------------------------------------------------------------------------
(* Reading *)

\* The states in which messages are still read, and the reader woken.
Readable(p) == st[p] \in {"active", "waiting_for_delimiter"}

MayRead(p) == inActive[p] /\ Readable(p)
Inbound(p) == yp[in[p]].q

\* read() or check_read() on an empty ypipe.
ReadNothing(p) ==
    /\ MayRead(p) /\ Inbound(p) = <<>>
    /\ inActive' = [inActive EXCEPT ![p] = FALSE]
    /\ yp' = [yp EXCEPT ![in[p]].asleep = TRUE]
    /\ UNCHANGED <<st, delay, outActive, hwm, lwm, countVars, in, out, freed, cmds, userVars>>

\* The loop of read() drops a credential: it is not counted as read, and the
\* peer is not told.
SkipCredential(p) ==
    /\ MayRead(p) /\ Inbound(p) # <<>> /\ Head(Inbound(p)).kind = "credential"
    /\ yp' = [yp EXCEPT ![in[p]].q = Tail(@)]
    /\ skipped' = [skipped EXCEPT ![p] = @ + 1]
    /\ UNCHANGED <<ctrlVars, nread, nwritten, peerRead, in, out, freed, cmds, userVars>>

\* read(): the peer learns the new count at every multiple of the low
\* watermark, the parts of a message that follow it included.
ReadPart(p) ==
    /\ MayRead(p) /\ Inbound(p) # <<>>
    /\ Head(Inbound(p)) # Delimiter /\ Head(Inbound(p)).kind # "credential"
    /\ got' = [got EXCEPT ![p] = Append(@, Head(Inbound(p)))]
    /\ yp' = [yp EXCEPT ![in[p]].q = Tail(@)]
    /\ nread' = [nread EXCEPT ![p] = IF More(Head(Inbound(p))) THEN @ ELSE @ + 1]
    /\ SendTo(Peer(p), IF lwm[p] > 0 /\ nread'[p] % lwm[p] = 0
                       THEN <<[c |-> "activate_write", v |-> nread'[p]]>> ELSE <<>>)
    /\ UNCHANGED <<ctrlVars, nwritten, peerRead, skipped, in, out, freed, mid, started, calls>>

\* _out_pipe = NULL, wherever the last acknowledgement of this end is sent.
DropOut(p) == out' = [out EXCEPT ![p] = NULL]

\* read() or check_read() meeting the delimiter: process_delimiter().
ReadDelimiter(p) ==
    /\ MayRead(p) /\ Inbound(p) # <<>> /\ Head(Inbound(p)) = Delimiter
    /\ yp' = [yp EXCEPT ![in[p]].q = Tail(@)]
    /\ \/ /\ st[p] = "active"
          /\ st' = [st EXCEPT ![p] = "delimiter_received"]
          /\ UNCHANGED <<out, cmds>>
       \/ /\ st[p] = "waiting_for_delimiter"
          /\ st' = [st EXCEPT ![p] = "term_ack_sent"]
          /\ DropOut(p)
          /\ SendTo(Peer(p), <<Cmd("pipe_term_ack")>>)
    /\ UNCHANGED <<delay, inActive, outActive, hwm, lwm, countVars, in, freed, userVars>>

-----------------------------------------------------------------------------
(* Calls that start something: terminate(), hiccup(), set_hwms() *)

Called(p, what) == calls' = [calls EXCEPT ![p][what] = @ + 1]

\* terminate() while the pipe is on its way out already.
TerminateAgain(p, d) ==
    /\ calls[p].term < MaxTerms[p] /\ Called(p, "term")
    /\ st[p] \in {"term_req_sent1", "term_req_sent2", "term_ack_sent"}
    /\ delay' = [delay EXCEPT ![p] = d]
    /\ UNCHANGED <<st, inActive, outActive, hwm, lwm, countVars, memVars, cmds,
                   mid, started, got>>

\* terminate(false) while waiting for the delimiter: as if it had been read.
TerminateNow(p) ==
    /\ calls[p].term < MaxTerms[p] /\ Called(p, "term")
    /\ st[p] = "waiting_for_delimiter"
    /\ delay' = [delay EXCEPT ![p] = FALSE]
    /\ outActive' = [outActive EXCEPT ![p] = FALSE]
    /\ yp' = [yp EXCEPT ![out[p]] = RolledBack(@)]
    /\ DropOut(p)
    /\ SendTo(Peer(p), <<Cmd("pipe_term_ack")>>)
    /\ st' = [st EXCEPT ![p] = "term_ack_sent"]
    /\ UNCHANGED <<inActive, hwm, lwm, countVars, in, freed, mid, started, got>>

\* The states in which terminate() sends pipe_term.
Asks(p) == st[p] \in {"active", "delimiter_received"}

\* terminate() otherwise: ask the peer unless it has asked us, drop the
\* unfinished message, write the delimiter whatever the watermark, flush.
Terminate(p, d) ==
    LET y == Written(RolledBack(yp[out[p]]), Delimiter)
    IN  /\ calls[p].term < MaxTerms[p] /\ Called(p, "term")
        /\ Asks(p) \/ (st[p] = "waiting_for_delimiter" /\ d)
        /\ delay' = [delay EXCEPT ![p] = d]
        /\ outActive' = [outActive EXCEPT ![p] = FALSE]
        /\ st' = [st EXCEPT ![p] = IF Asks(p) THEN "term_req_sent1" ELSE @]
        /\ yp' = [yp EXCEPT ![out[p]] = Flushed(y)]
        /\ SendTo(Peer(p), (IF Asks(p) THEN <<Cmd("pipe_term")>> ELSE <<>>) \o WakeUp(y))
        /\ UNCHANGED <<inActive, hwm, lwm, countVars, in, out, freed, mid, started, got>>

\* The reader has got the first part of a message and not its last.
MidRead(p) == got[p] # <<>> /\ More(got[p][Len(got[p])])

\* hiccup(); session_base_t::clean_pipes() has finished the messages under
\* way in both directions.  When the pipe is not active it does nothing.
Hiccup(p) ==
    /\ calls[p].hiccup < MaxHiccups[p] /\ Called(p, "hiccup")
    /\ st[p] = "active" /\ ~MidRead(p) /\ ~mid[p]
    /\ yp' = Append(yp, NewYpipe)
    /\ in' = [in EXCEPT ![p] = Len(yp) + 1]
    /\ inActive' = [inActive EXCEPT ![p] = TRUE]
    /\ SendTo(Peer(p), <<[c |-> "hiccup", pipe |-> Len(yp) + 1]>>)
    /\ UNCHANGED <<st, delay, outActive, hwm, lwm, countVars, out, freed, mid, started, got>>

\* socket_base_t::update_pipe_options(): set_hwms() here, send_hwms_to_peer().
SetHwms(p, inh, outh) ==
    /\ calls[p].hwm < MaxHwmChanges[p] /\ Called(p, "hwm")
    /\ st[p] # "gone"
    /\ lwm' = [lwm EXCEPT ![p] = compute_lwm(Boosted(inh, Boost[p].in))]
    /\ hwm' = [hwm EXCEPT ![p] = Boosted(outh, Boost[p].out)]
    /\ SendTo(Peer(p), <<[c |-> "pipe_hwm", in |-> outh, out |-> inh]>>)
    /\ UNCHANGED <<st, delay, inActive, outActive, countVars, memVars, mid, started, got>>
-----------------------------------------------------------------------------
(* Commands from the peer *)

\* An end that is gone processes nothing: NoCommandForTheGone is the claim
\* that nothing is ever sent to it.
Receive(p, c) ==
    /\ st[p] # "gone" /\ cmds[p] # <<>> /\ Head(cmds[p]).c = c

\* The command is taken from the queue, and s sent to the peer.
Reply(p, s) == cmds' = [cmds EXCEPT ![p] = Tail(@), ![Peer(p)] = @ \o s]

process_activate_read(p) ==
    /\ Receive(p, "activate_read") /\ Reply(p, <<>>)
    /\ inActive' = [inActive EXCEPT ![p] = @ \/ Readable(p)]
    /\ UNCHANGED <<st, delay, outActive, hwm, lwm, countVars, memVars, userVars>>

process_activate_write(p) ==
    /\ Receive(p, "activate_write") /\ Reply(p, <<>>)
    /\ peerRead' = [peerRead EXCEPT ![p] = Head(cmds[p]).v]
    /\ outActive' = [outActive EXCEPT ![p] = @ \/ st[p] = "active"]
    /\ UNCHANGED <<st, delay, inActive, hwm, lwm, nread, nwritten, skipped, memVars, userVars>>

\* Messages among parts s: those the writer has counted.
Messages(s) == Cardinality({i \in 1..Len(s) : ~More(s[i])})

Plugged(p, dropped, outAct) ==
    /\ Receive(p, "hiccup") /\ Reply(p, <<>>)
    /\ nwritten' = [nwritten EXCEPT ![p] = @ - dropped]
    /\ yp' = [yp EXCEPT ![out[p]] = NewYpipe]
    /\ freed' = freed \union {out[p]}
    /\ out' = [out EXCEPT ![p] = Head(cmds[p]).pipe]
    /\ outActive' = [outActive EXCEPT ![p] = outAct]
    /\ UNCHANGED <<st, delay, inActive, hwm, lwm, nread, peerRead, skipped, in, userVars>>

\* The complete messages left in the old ypipe are dropped and taken off the
\* count, the delimiter with them; an incomplete one goes with the ypipe.
process_hiccup(p) ==
    Plugged(p, Messages(yp[out[p]].q \o Complete(yp[out[p]].u)), TRUE)

\* process_pipe_term(): the delimiter is waited for, or pending messages dropped.
Waits(p) == delay[p]

process_pipe_term(p) ==
    /\ Receive(p, "pipe_term")
    /\ \/ /\ st[p] = "active" /\ Waits(p)
          /\ st' = [st EXCEPT ![p] = "waiting_for_delimiter"]
          /\ Reply(p, <<>>)
          /\ UNCHANGED out
       \/ /\ (st[p] = "active" /\ ~Waits(p)) \/ st[p] = "delimiter_received"
          /\ st' = [st EXCEPT ![p] = "term_ack_sent"]
          /\ DropOut(p)
          /\ Reply(p, <<Cmd("pipe_term_ack")>>)
       \/ /\ st[p] = "term_req_sent1"
          /\ st' = [st EXCEPT ![p] = "term_req_sent2"]
          /\ DropOut(p)
          /\ Reply(p, <<Cmd("pipe_term_ack")>>)
    /\ UNCHANGED <<delay, inActive, outActive, hwm, lwm, countVars, in, yp, freed, userVars>>

\* A plausible slip in Acks.
AlwaysAcks(p) == TRUE

\* Both ends asked and this one's acknowledgement is still to be sent.
Acks(p) == st[p] = "term_req_sent1"

\* The ypipe an end deletes when it goes: the one it reads from.
Deletes(p) == {in[p]}

\* The inbound ypipe and the pipe_t itself are deleted.
process_pipe_term_ack(p) ==
    /\ Receive(p, "pipe_term_ack")
    /\ st[p] \in {"term_req_sent1", "term_req_sent2", "term_ack_sent"}
    /\ Reply(p, IF Acks(p) THEN <<Cmd("pipe_term_ack")>> ELSE <<>>)
    /\ out' = [out EXCEPT ![p] = IF Acks(p) THEN NULL ELSE @]
    /\ yp' = [yp EXCEPT ![in[p]] = NewYpipe]
    /\ freed' = freed \union Deletes(p)
    /\ st' = [st EXCEPT ![p] = "gone"]
    /\ UNCHANGED <<delay, inActive, outActive, hwm, lwm, countVars, in, userVars>>

process_pipe_hwm(p) ==
    /\ Receive(p, "pipe_hwm") /\ Reply(p, <<>>)
    /\ lwm' = [lwm EXCEPT ![p] = compute_lwm(Boosted(Head(cmds[p]).in, Boost[p].in))]
    /\ hwm' = [hwm EXCEPT ![p] = Boosted(Head(cmds[p]).out, Boost[p].out)]
    /\ UNCHANGED <<st, delay, inActive, outActive, countVars, memVars, userVars>>

-----------------------------------------------------------------------------
ProcessCommand(p) ==
    \/ process_activate_read(p) \/ process_activate_write(p) \/ process_hiccup(p)
    \/ process_pipe_term(p) \/ process_pipe_term_ack(p) \/ process_pipe_hwm(p)

\* One turn of the loop of read(): after a credential there is another.
Read(p) ==
    \/ SkipCredential(p) /\ skipping' = [skipping EXCEPT ![p] = TRUE]
    \/ (ReadNothing(p) \/ ReadPart(p) \/ ReadDelimiter(p)) /\ skipping' = [skipping EXCEPT ![p] = FALSE]

\* The thread of an end is not inside read().
Outside(p) == ~skipping[p] /\ UNCHANGED skipping

Act(p) ==
    \/ \E kind \in {"single", "head", "tail", "credential"} : Write(p, kind)
    \/ WriteFull(p) \/ WriteAbort(p) \/ Flush(p)
    \/ \E d \in BOOLEAN : Terminate(p, d) \/ TerminateAgain(p, d)
    \/ TerminateNow(p)
    \/ Hiccup(p)
    \/ \E i, o \in NewHwms : SetHwms(p, i, o)
    \/ ProcessCommand(p)

Next == \E p \in Ends : Read(p) \/ (Outside(p) /\ Act(p))

Spec == Init /\ [][Next]_vars

\* Threads process the commands they are sent, users take the messages they
\* are told of, and who has written messages flushes them.
Fairness ==
    \A p \in Ends : /\ WF_vars(Read(p))
                    /\ WF_vars(Outside(p) /\ ProcessCommand(p)) /\ WF_vars(Outside(p) /\ Flush(p))

FairSpec == Spec /\ Fairness

-----------------------------------------------------------------------------
(* Properties *)

Command ==
    [c : {"activate_read", "pipe_term", "pipe_term_ack"}]
    \union [c : {"activate_write"}, v : Nat]
    \union [c : {"hiccup"}, pipe : Nat \ {NULL}]
    \union [c : {"pipe_hwm"}, in : Nat, out : Nat]

TypeOK ==
    /\ st \in [Ends -> States \union {"gone"}]
    /\ delay \in [Ends -> BOOLEAN]
    /\ inActive \in [Ends -> BOOLEAN] /\ outActive \in [Ends -> BOOLEAN]
    /\ hwm \in [Ends -> Nat] /\ lwm \in [Ends -> Nat]
    /\ nread \in [Ends -> Nat] /\ nwritten \in [Ends -> Int] /\ peerRead \in [Ends -> Nat]
    /\ skipped \in [Ends -> Nat] /\ skipping \in [Ends -> BOOLEAN]
    /\ yp \in Seq([q : Seq(Part), u : Seq(Part), asleep : BOOLEAN])
    /\ in \in [Ends -> 1..Len(yp)] /\ out \in [Ends -> 0..Len(yp)]
    /\ freed \subseteq 1..Len(yp)
    /\ cmds \in [Ends -> Seq(Command)]
    /\ mid \in [Ends -> BOOLEAN] /\ started \in [Ends -> Nat]
    /\ got \in [Ends -> Seq(Part)]
    /\ calls \in [Ends -> [term : Nat, hiccup : Nat, hwm : Nat]]

Gone(p) == st[p] = "gone"

\* Nobody has made such a call so far.
Never(what) == \A p \in Ends : calls[p][what] = 0

\* No command is on its way to a pipe_t that has been deleted: send_* puts the
\* bare pointer of the peer into the command, and process_pipe_term_ack
\* deletes the object with whatever else is still coming.
NoCommandForTheGone == \A p \in Ends : Gone(p) => cmds[p] = <<>>

\* The assertions of process_pipe_term, process_pipe_term_ack and
\* process_hiccup hold: a command never finds the pipe in a state it was not
\* written for.
CommandsFitState ==
    \A p \in Ends : ~Gone(p) /\ cmds[p] # <<>> =>
        LET c == Head(cmds[p]).c IN
        /\ c = "pipe_term" => st[p] \in {"active", "delimiter_received", "term_req_sent1"}
        /\ c = "pipe_term_ack" => st[p] \in {"term_req_sent1", "term_req_sent2", "term_ack_sent"}
        /\ c = "hiccup" => out[p] # NULL

\* No end holds a pointer to a ypipe that the other end, or it itself, has
\* deleted, and the one process_hiccup drains has no other reader.
NoFreedYpipe ==
    \A p \in Ends : ~Gone(p) =>
        /\ in[p] \notin freed /\ out[p] \notin freed
        /\ \A i \in 1..Len(cmds[p]) : cmds[p][i].c = "hiccup" =>
              /\ cmds[p][i].pipe \notin freed
              /\ in[Peer(p)] # out[p]

\* When both ends are gone every ypipe that was created has been deleted.
NoYpipeLeaked == (\A p \in Ends : Gone(p)) => freed = 1..Len(yp)

\* What read() has taken out of the ypipes, with the credentials it dropped.
Passed(p) == nread[p] + skipped[p]

\* Complete messages on their way from p: in the ypipe p writes to.
InFlight(p) ==
    LET y == yp[out[p]]
        parts == y.q \o y.u
    IN  Cardinality({i \in 1..Len(parts) : ~More(parts[i]) /\ parts[i] # Delimiter})

\* The two ends' counts differ by exactly the messages between them and the
\* credentials that read() has dropped, which only the writer counts; a hiccup
\* that drops messages included: check_hwm() compares counters that live in two
\* threads, and process_hiccup() corrects one of them.
CountersAgree ==
    \A p \in Ends : st[p] = "active" =>
        /\ nwritten[p] = Passed(Peer(p)) + InFlight(p)
        /\ peerRead[p] <= nread[Peer(p)]

\* As long as nobody changes the watermarks, an end never has more messages
\* under way than its high watermark allows.
HwmRespected ==
    Never("hwm") => \A p \in Ends : st[p] = "active" /\ hwm[p] > 0 => InFlight(p) <= hwm[p]

\* What a user reads was written once and in that order, hiccups or not.
OrderedDelivery ==
    \A p \in Ends : \A i, j \in 1..Len(got[p]) : i < j =>
        \/ got[p][i].n < got[p][j].n
        \/ /\ got[p][i].n = got[p][j].n
           /\ got[p][i].kind = "head" /\ got[p][j].kind = "tail"

\* A user reads either all the parts of a message, one after the other, or
\* none of them, unless the pipe is replaced in between (process_hiccup).
AtomicDelivery ==
    Never("hiccup") => \A p \in Ends : \A i \in 1..Len(got[p]) :
        /\ got[p][i].kind = "tail" =>
              i > 1 /\ got[p][i - 1] = [n |-> got[p][i].n, kind |-> "head"]
        /\ got[p][i].kind = "head" /\ i < Len(got[p]) =>
              got[p][i + 1] = [n |-> got[p][i].n, kind |-> "tail"]
        /\ got[p][i].kind = "head" /\ i = Len(got[p]) /\ MayRead(p) =>
              Inbound(p) # <<>> /\ Head(Inbound(p)).kind = "tail"

\* Pending messages are processed before the shutdown: an end that was not
\* told to drop them, and did not call terminate() itself, acknowledges the
\* termination only after it has read every message written to it.
PendingDelivered ==
    \A p \in Ends :
        st[p] \in {"term_ack_sent", "gone"} /\ calls[p].term = 0 /\ delay[p] /\ calls[p].hiccup = 0
            => Passed(p) = nwritten[Peer(p)]

\* terminate() ends with both pipe_t objects deleted and both users told, in
\* whatever order the two ends call it.
TerminationCompletes ==
    []<>((\E p \in Ends : calls[p].term > 0) => \A p \in Ends : Gone(p))

\* The same for a pipe that is not replaced by hiccup().
PlainTerminationCompletes ==
    []<>((\E p \in Ends : calls[p].term > 0) /\ Never("hiccup") => \A p \in Ends : Gone(p))

\* Every credential takes a place below p's high watermark for good: enough are
\* left for the reader to get to the next multiple of its low watermark.
RoomLeft(p) == hwm[p] = 0 \/ skipped[Peer(p)] <= hwm[p] \div 2

\* A writer that met the high watermark is released once the reader catches
\* up, unless the pipe is closed, the watermarks are changed or the credentials
\* that read() dropped without counting them leave too little room.
WriterReleased ==
    \A p \in Ends : []<>(st[p] = "active" /\ Never("hwm") /\ RoomLeft(p) => outActive[p] /\ ~Full(p))

\* A message that was written is read, unless somebody closes the pipe: no
\* activate_read is lost between a reader going to sleep and a flush.
WrittenIsRead ==
    \A p \in Ends :
        []<>((\A e \in Ends : st[e] = "active") => nwritten[p] <= Passed(Peer(p)))
-----------------------------------------------------------------------------
(* The same, put together by what they are about.                          *)

\* The handshake of the two ends: its assertions hold, no command comes to a
\* deleted pipe, and every ypipe is deleted once, when nobody has it any more.
HandshakeRight == TypeOK /\ CommandsFitState /\ NoCommandForTheGone /\ NoFreedYpipe /\ NoYpipeLeaked

\* The counters of the two ends agree and keep to the watermarks.
FlowRight == CountersAgree /\ HwmRespected

\* Messages are delivered in order, whole, and, if the pipe is to, before it ends.
DeliveryRight == OrderedDelivery /\ AtomicDelivery /\ PendingDelivered

\* A pipe that is closed goes, a writer that waits is released and a message
\* that was written is read.
PipeGoesOn == PlainTerminationCompletes /\ WriterReleased /\ WrittenIsRead
=============================================================================
