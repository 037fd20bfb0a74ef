--------------------------------- MODULE Ctx ---------------------------------
(***************************************************************************)
(* ctx_t and reaper_t (ctx.cpp, reaper.cpp): sockets that come and go, the *)
(* registry of inproc endpoints with the connections that wait for one,    *)
(* zmq_ctx_shutdown() and zmq_ctx_term().                                  *)
(*                                                                         *)
(* Of a socket's ownership tree only its root's count of numbered commands *)
(* is kept (module Own has the rest): a socket in the reaper's hands is    *)
(* deleted some time after all of them have been processed. Of the inproc  *)
(* names one is enough, as names do not interact.                          *)
(***************************************************************************)
EXTENDS Integers, Sequences, SequencesExt, FiniteSetsExt

CONSTANTS
    App, Helper,    \* sockets of the application, and those zmq_ctx_term() makes
    MaxSockets,     \* ZMQ_MAX_SOCKETS
    MaxSignals,     \* bound: signals that interrupt zmq_ctx_term()
    MaxOwed,        \* bound: numbered commands owed to a socket
    Concurrent,     \* TRUE: sockets are in use while zmq_ctx_term() is called
    None

VARIABLES
    starting, terminating, sockets,     \* of ctx_t
    bound, pending,     \* who bound the name, and how many connections of each wait
    sock,       \* of each socket: "none", "open", "closed", "reaping" or "gone"
    owes,       \* numbered commands that the socket has not processed
    inbox,      \* those of them that are in its mailbox
    stop,       \* the stop command: "no", "sent" or "seen" (_ctx_terminated)
    call,       \* the API call each socket is in
    rmail, reaped, rstop, rdone,    \* the reaper: mailbox, _sockets, _terminating, end
    term,       \* zmq_ctx_term(): "no", "waiting", "done" or "aborted"
    dones,      \* done commands that wait in the context's mailbox
    signals

ctxVars == <<starting, terminating, sockets>>
nameVars == <<bound, pending>>
sockVars == <<owes, inbox, stop>>
reaperVars == <<reaped, rstop, rdone, dones>>
vars == <<ctxVars, nameVars, sock, sockVars, call, rmail, reaperVars, term, signals>>

Socket == App \cup Helper
Idle == [at |-> "idle", peer |-> None]
NoneWait == [s \in Socket |-> 0]
PendingConnections == MapThenSumSet(LAMBDA s : pending[s], Socket)

Init ==
    /\ starting = TRUE /\ terminating = FALSE /\ sockets = {}
    /\ bound = None /\ pending = NoneWait
    /\ sock = [s \in Socket |-> "none"]
    /\ owes = [s \in Socket |-> 0] /\ inbox = [s \in Socket |-> 0]
    /\ stop = [s \in Socket |-> "no"] /\ call = [s \in Socket |-> Idle]
    /\ rmail = <<>> /\ reaped = 0 /\ rstop = FALSE /\ rdone = FALSE
    /\ term = "no" /\ dones = 0 /\ signals = 0

-----------------------------------------------------------------------------
(* The application's sockets *)

\* zmq_socket(). The first call starts the threads; it fails with ETERM or
\* EMFILE.
create_socket(s) ==
    /\ sock[s] = "none" /\ term \in {"no", "waiting"}
    /\ ~terminating /\ Cardinality(sockets) < MaxSockets
    /\ starting' = FALSE
    /\ sockets' = sockets \cup {s}
    /\ sock' = [sock EXCEPT ![s] = "open"]
    /\ UNCHANGED <<terminating, nameVars, sockVars, call, rmail, reaperVars, term, signals>>

\* process_commands(), which empties the mailbox.
ProcessCommands(s) ==
    /\ owes' = [owes EXCEPT ![s] = @ - inbox[s]]
    /\ inbox' = [inbox EXCEPT ![s] = 0]
    /\ stop' = [stop EXCEPT ![s] = IF @ = "sent" THEN "seen" ELSE @]

InUse(s) == sock[s] = "open" /\ (Concurrent \/ term = "no")

\* zmq_bind() and zmq_connect() begin with the commands, and end there when
\* the context has been terminated.
ApiBegin(s, what) ==
    /\ InUse(s) /\ call[s] = Idle /\ stop[s] # "seen"
    /\ \A x \in Socket : owes[x] < MaxOwed
    /\ ProcessCommands(s)
    /\ call' = IF stop[s] = "no" THEN [call EXCEPT ![s] = [at |-> what, peer |-> None]] ELSE call
    /\ UNCHANGED <<ctxVars, nameVars, sock, rmail, reaperVars, term, signals>>

Call(s, at, peer) == call' = [call EXCEPT ![s] = [at |-> at, peer |-> peer]]

\* register_endpoint().
BindRegister(s) ==
    /\ call[s].at = "bind"
    /\ IF bound = None THEN bound' = s /\ Call(s, "bound", None)
                       ELSE UNCHANGED bound /\ Call(s, "idle", None)
    /\ UNCHANGED <<ctxVars, pending, sock, sockVars, rmail, reaperVars, term, signals>>

\* connect_pending(): each waiting connection is bound on the spot, and its
\* socket sent inproc_connected.
BindPending(s) ==
    /\ call[s].at = "bound"
    /\ inbox' = [p \in Socket |-> inbox[p] + pending[p]]
    /\ pending' = NoneWait
    /\ Call(s, "idle", None)
    /\ UNCHANGED <<ctxVars, bound, sock, owes, stop, rmail, reaperVars, term, signals>>

\* find_endpoint() takes a number of the peer's while it is still registered.
find_endpoint(s) ==
    /\ call[s].at = "connect"
    /\ IF bound = None
       THEN Call(s, "missing", None) /\ UNCHANGED owes
       ELSE Call(s, "found", bound) /\ owes' = [owes EXCEPT ![bound] = @ + 1]
    /\ UNCHANGED <<ctxVars, nameVars, sock, inbox, stop, rmail, reaperVars, term, signals>>

\* send_bind() to the peer that was found.
ConnectBind(s) ==
    /\ call[s].at = "found"
    /\ inbox' = [inbox EXCEPT ![call[s].peer] = @ + 1]
    /\ Call(s, "idle", None)
    /\ UNCHANGED <<ctxVars, nameVars, sock, owes, stop, rmail, reaperVars, term, signals>>

\* pend_connection(), unless the name has been bound since.
pend_connection(s) ==
    /\ call[s].at = "missing"
    /\ IF bound = None
       THEN /\ owes' = [owes EXCEPT ![s] = @ + 1]
            /\ pending' = [pending EXCEPT ![s] = @ + 1]
            /\ UNCHANGED inbox
       ELSE /\ owes' = [owes EXCEPT ![bound] = @ + 1]
            /\ inbox' = [inbox EXCEPT ![bound] = @ + 1]
            /\ UNCHANGED pending
    /\ Call(s, "idle", None)
    /\ UNCHANGED <<ctxVars, bound, sock, stop, rmail, reaperVars, term, signals>>

zmq_close(s) ==
    /\ sock[s] = "open" /\ call[s] = Idle
    /\ sock' = [sock EXCEPT ![s] = "closed"]
    /\ rmail' = Append(rmail, [type |-> "reap", of |-> s])
    /\ UNCHANGED <<ctxVars, nameVars, sockVars, call, reaperVars, term, signals>>

-----------------------------------------------------------------------------
(* The reaper *)

ReaperStop == [type |-> "stop", of |-> None]

Receives(type, s) == ~rdone /\ rmail # <<>> /\ Head(rmail) = [type |-> type, of |-> s]

\* check_destroy() of a socket: destroy_socket() tells the reaper to stop when
\* this was the last one, and then the reaper is told of this one.
Destroy(s, mail) ==
    /\ sock' = [sock EXCEPT ![s] = "gone"]
    /\ sockets' = sockets \ {s}
    /\ rmail' = mail \o (IF terminating /\ sockets = {s} THEN <<ReaperStop>> ELSE <<>>)
                     \o <<[type |-> "reaped", of |-> s]>>

\* process_reap(): start_reaping() unregisters the endpoints and terminates the
\* socket, which may be over at once.
process_reap(s) ==
    /\ Receives("reap", s)
    /\ reaped' = reaped + 1
    /\ bound' = IF bound = s THEN None ELSE bound
    /\ \/ owes[s] = 0 /\ Destroy(s, Tail(rmail))
       \/ sock' = [sock EXCEPT ![s] = "reaping"] /\ rmail' = Tail(rmail) /\ UNCHANGED sockets
    /\ UNCHANGED <<starting, terminating, pending, sockVars, call, rstop, rdone, dones, term, signals>>

\* in_event() of a socket that is being reaped. Its tree may be gone now.
ReapEvent(s) ==
    /\ sock[s] = "reaping" /\ (inbox[s] > 0 \/ stop[s] = "sent")
    /\ ProcessCommands(s)
    /\ UNCHANGED <<ctxVars, nameVars, sock, call, rmail, reaperVars, term, signals>>

ReapDone(s) ==
    /\ sock[s] = "reaping" /\ owes[s] = inbox[s]
    /\ ProcessCommands(s)
    /\ Destroy(s, rmail)
    /\ UNCHANGED <<starting, terminating, nameVars, call, reaperVars, term, signals>>

\* The end of the reaper's thread.
Finish(over) == rdone' = over /\ dones' = dones + (IF over THEN 1 ELSE 0)

\* A plausible slip in process_stop.
process_stop_at_once ==
    /\ Receives("stop", None)
    /\ rstop' = TRUE
    /\ Finish(TRUE)
    /\ rmail' = Tail(rmail)
    /\ UNCHANGED <<ctxVars, nameVars, sock, sockVars, call, reaped, term, signals>>

process_stop ==
    /\ Receives("stop", None)
    /\ rstop' = TRUE
    /\ Finish(reaped = 0)
    /\ rmail' = Tail(rmail)
    /\ UNCHANGED <<ctxVars, nameVars, sock, sockVars, call, reaped, term, signals>>

process_reaped ==
    /\ \E s \in Socket : Receives("reaped", s)
    /\ reaped' = reaped - 1
    /\ Finish(reaped = 1 /\ rstop)
    /\ rmail' = Tail(rmail)
    /\ UNCHANGED <<ctxVars, nameVars, sock, sockVars, call, rstop, term, signals>>

-----------------------------------------------------------------------------
(* The context *)

\* The stop commands of a first attempt, to the sockets S that there are.
StopAll(S, mail) ==
    /\ stop' = [s \in Socket |-> IF ~terminating /\ s \in S THEN "sent" ELSE stop[s]]
    /\ rmail' = mail \o IF ~terminating /\ S = {} THEN <<ReaperStop>> ELSE <<>>
    /\ terminating' = TRUE

\* zmq_ctx_shutdown().
shutdown ==
    /\ term = "no" /\ ~starting /\ ~terminating
    /\ StopAll(sockets, rmail)
    /\ UNCHANGED <<starting, sockets, nameVars, sock, owes, inbox, call, reaperVars, term, signals>>

MayTerm == term = "no" /\ (Concurrent \/ \A s \in App : call[s] = Idle)

TermUnused ==
    /\ MayTerm /\ starting
    /\ term' = "done"
    /\ UNCHANGED <<ctxVars, nameVars, sock, sockVars, call, rmail, reaperVars, signals>>

\* zmq_ctx_term() asserts that there is a free slot for each waiting connection.
TermAborts ==
    /\ MayTerm /\ ~starting
    /\ Cardinality(sockets) + PendingConnections > MaxSockets
    /\ term' = "aborted"
    /\ UNCHANGED <<ctxVars, nameVars, sock, sockVars, call, rmail, reaperVars, signals>>

\* A plausible slip in Joined.
Joined_none == NoneWait

\* The connections that the bind() of zmq_ctx_term() completes.
Joined == IF bound = None THEN pending ELSE NoneWait

\* zmq_ctx_term(): a socket is made, bound and closed for every connection that
\* waits (the first of them connects all; a name taken meanwhile is left to who
\* took it), the sockets are stopped unless this is a second attempt, and the
\* call waits for the reaper.
TermBegin(H) ==
    /\ MayTerm /\ ~starting
    /\ Cardinality(sockets) + PendingConnections <= MaxSockets
    /\ H \subseteq {h \in Helper : sock[h] = "none"} /\ Cardinality(H) = PendingConnections
    /\ bound' = IF Joined # NoneWait THEN CHOOSE h \in H : TRUE ELSE bound
    /\ pending' = [s \in Socket |-> pending[s] - Joined[s]]
    /\ inbox' = [s \in Socket |-> inbox[s] + Joined[s]]
    /\ sock' = [s \in Socket |-> IF s \in H THEN "closed" ELSE sock[s]]
    /\ sockets' = sockets \cup H
    /\ StopAll(sockets \cup H, rmail \o SetToSeq({[type |-> "reap", of |-> h] : h \in H}))
    /\ term' = "waiting"
    /\ UNCHANGED <<starting, owes, call, reaperVars, signals>>

TermDone ==
    /\ term = "waiting" /\ dones > 0
    /\ term' = "done" /\ dones' = dones - 1
    /\ UNCHANGED <<ctxVars, nameVars, sock, sockVars, call, rmail, reaped, rstop, rdone, signals>>

\* A signal ends the wait with EINTR, and the application calls again.
TermSignal ==
    /\ term = "waiting" /\ signals < MaxSignals
    /\ term' = "no" /\ signals' = signals + 1
    /\ UNCHANGED <<ctxVars, nameVars, sock, sockVars, call, rmail, reaperVars>>

Ended == term \in {"done", "aborted"} /\ UNCHANGED vars

Finishing(s) == BindRegister(s) \/ BindPending(s) \/ find_endpoint(s) \/ ConnectBind(s) \/ pend_connection(s)
Reaping == process_stop \/ process_reaped \/ \E s \in Socket : process_reap(s) \/ ReapEvent(s)

Next ==
    \/ \E s \in App : create_socket(s)
    \/ \E s \in App : ApiBegin(s, "bind")
    \/ \E s \in App : ApiBegin(s, "connect")
    \/ \E s \in App : Finishing(s)
    \/ \E s \in App : zmq_close(s)
    \/ Reaping
    \/ \E s \in Socket : ReapDone(s)
    \/ shutdown
    \/ TermUnused
    \/ TermAborts
    \/ \E H \in SUBSET Helper : TermBegin(H)
    \/ TermDone
    \/ TermSignal
    \/ Ended

\* Calls return; an application that terminates its context closes its sockets
\* (zmq_ctx_term.txt); the reaper's thread runs; and the tree of a socket is
\* taken down in the end (module Own, CloseCompletes).
Fairness ==
    /\ \A s \in App : WF_vars(Finishing(s)) /\ WF_vars(zmq_close(s))
    /\ WF_vars(Reaping)
    /\ \A s \in Socket : WF_vars(ReapDone(s))
    /\ WF_vars(TermDone)

Spec == Init /\ [][Next]_vars /\ Fairness

-----------------------------------------------------------------------------
(* Properties *)

\* A socket that has been deleted is known to nobody any more: no numbered
\* command is owed to it, it is not registered, no connection of it waits and no
\* running zmq_connect() is about to send it a bind command (find_endpoint,
\* ctx.cpp:611).
DeadIsForgotten ==
    \A s \in Socket : sock[s] = "gone" =>
        /\ s \notin sockets /\ pending[s] = 0 /\ bound # s
        /\ owes[s] = 0 /\ inbox[s] = 0
        /\ \A x \in App : call[x].peer # s

\* The reaper's thread ends once, after everything it was given, and only then
\* does zmq_ctx_term() free the context: no socket is left, nothing is in the
\* reaper's mailbox and no call is under way.
ReaperGoesLast ==
    /\ rdone => /\ sockets = {} /\ rmail = <<>> /\ reaped = 0
                /\ \A s \in Socket : sock[s] \in {"none", "gone"}
    /\ dones <= 1
    /\ term = "done" => (rdone /\ dones = 0) \/ starting

\* Both: sockets and the reaper end in order.
EndInOrder == DeadIsForgotten /\ ReaperGoesLast

\* zmq_ctx_term() returns once the application has closed its sockets, even
\* if connections wait for a name that nobody binds ("otherwise we will hang",
\* ctx.cpp:99), and even if it was interrupted and called again.
TermReturns == []<>(term # "waiting")

\* zmq_ctx_term() ends with a result, not with an assertion (ctx.cpp:105).  True
\* only while there are free slots for the connections that wait (README).
TermNeverAborts == term # "aborted"
=============================================================================
