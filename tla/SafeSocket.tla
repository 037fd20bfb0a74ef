----------------------------- MODULE SafeSocket -----------------------------
(***************************************************************************)
(* A thread-safe socket (CLIENT, SERVER, RADIO, DISH, GATHER, SCATTER): a  *)
(* mailbox_safe_t whose mutex is the socket's, threads that block in recv  *)
(* on its condition variable, and threads that wait for it in a            *)
(* socket_poller_t through a signaler.  The socket has one inbound pipe,   *)
(* whose writer (an I/O thread) posts activate_read only when the reader   *)
(* went to sleep.  Every call of the socket holds the mutex except while   *)
(* it waits on the condition variable: what a step below does between      *)
(* taking the mutex and giving it up is one action.                        *)
(***************************************************************************)
EXTENDS Integers, FiniteSets

CONSTANTS Receivers,  \* threads that call zmq_recv again and again
          Pollers,    \* threads that wait in zmq_poller_wait and then receive
          MaxMsgs     \* bound: messages written to the pipe

VARIABLES users,      \* the threads that use the socket in this run
          msgs, written,
          in_active,  \* the socket's view of its pipe
          pipe_sleeps, \* the pipe's reader found it empty
          posting,    \* activate_read commands the writer is about to post
          box,        \* commands in the mailbox
          box_sleeps, \* the mailbox's reader found it empty
          pc, signals

vars == <<users, msgs, written, in_active, pipe_sleeps, posting, box, box_sleeps, pc, signals>>

Threads == Receivers \cup Pollers
(***************************************************************************)
(* pc: idle; enter (wants the mutex to start a call); wait and nap (on the *)
(* condition variable without and with a timeout of 0); woken and late     *)
(* (the wait succeeded or timed out and the thread wants the mutex back);  *)
(* poll (blocked on the signaler's descriptor); take (about to receive     *)
(* what the poller reported).                                              *)
(***************************************************************************)
Init ==
    /\ users \in (SUBSET Threads) \ {{}}
    /\ msgs = 0 /\ written = 0 /\ posting = 0 /\ box = 0
    /\ in_active = TRUE /\ pipe_sleeps = FALSE /\ box_sleeps = TRUE
    /\ pc = [t \in Threads |-> "idle"]
    /\ signals = [t \in Pollers |-> 0]

\* pipe_t::write and flush in the I/O thread
Write ==
    /\ written < MaxMsgs
    /\ written' = written + 1 /\ msgs' = msgs + 1
    /\ posting' = IF pipe_sleeps THEN posting + 1 ELSE posting
    /\ pipe_sleeps' = FALSE
    /\ UNCHANGED <<users, in_active, box, box_sleeps, pc, signals>>

\* condition_variable_t::broadcast and signaler_t::send
broadcast(p) == [t \in Threads |-> IF p[t] \in {"wait", "nap"} THEN "woken" ELSE p[t]]
signaler_send(s) == [t \in Pollers |-> IF t \in users THEN s[t] + 1 ELSE s[t]]
\* signaler_t::recv: the counter is read, and all but one are put back
signaler_recv(s, t) == [s EXCEPT ![t] = @ - 1]

\* mailbox_safe_t::send: wakes up everybody when the reader went to sleep
Send ==
    /\ posting > 0
    /\ posting' = posting - 1 /\ box' = box + 1
    /\ box_sleeps' = FALSE
    /\ pc' = IF box_sleeps THEN broadcast(pc) ELSE pc
    /\ signals' = IF box_sleeps THEN signaler_send(signals) ELSE signals
    /\ UNCHANGED <<users, msgs, written, in_active, pipe_sleeps>>

\* xrecv and xhas_in on the pipe: reading an empty pipe puts its reader to sleep
Sees(active, n) == active /\ n > 0
xrecv(active) ==
    IF Sees(active, msgs)
    THEN /\ msgs' = msgs - 1 /\ in_active' = active /\ UNCHANGED pipe_sleeps
    ELSE /\ UNCHANGED msgs /\ in_active' = FALSE
         /\ pipe_sleeps' = (pipe_sleeps \/ active)
xhas_in(active) ==
    /\ UNCHANGED msgs
    /\ in_active' = Sees(active, msgs)
    /\ pipe_sleeps' = (pipe_sleeps \/ (active /\ msgs = 0))

Goes(t, to) == pc' = [pc EXCEPT ![t] = to]

\* A plausible slip: the emptied mailbox is not marked as passive.
process_commands_awake(t, block) ==
    /\ box' = 0 /\ box_sleeps' = FALSE
    /\ Goes(t, IF box = 0 /\ block THEN "wait" ELSE "nap")

\* mailbox_safe_t::recv as process_commands calls it: all commands are taken,
\* each activates the pipe; then the reader sleeps, and the call waits on the
\* condition variable, for ever only if there was no command at all.
process_commands(t, block) ==
    /\ box' = 0 /\ box_sleeps' = TRUE
    /\ Goes(t, IF box = 0 /\ block THEN "wait" ELSE "nap")

Start(t) ==
    /\ t \in users /\ pc[t] = "idle"
    /\ Goes(t, "enter")
    /\ UNCHANGED <<users, msgs, written, in_active, pipe_sleeps, posting, box, box_sleeps, signals>>

\* socket_base_t::recv up to the first wait.  Now and then (inbound_poll_rate)
\* the commands have just been processed and the first pass does not block.
Recv(t) == \E block \in BOOLEAN :
    /\ t \in Receivers /\ pc[t] = "enter"
    /\ IF Sees(in_active, msgs)
       THEN xrecv(in_active) /\ Goes(t, "idle") /\ UNCHANGED <<box, box_sleeps>>
       ELSE /\ UNCHANGED msgs
            /\ in_active' = (box > 0)
            /\ pipe_sleeps' = (pipe_sleeps \/ in_active)
            /\ process_commands(t, block)
    /\ UNCHANGED <<users, written, posting, signals>>

\* A nap times out; the wait without a timeout may end spuriously.
Wakes(t) ==
    /\ pc[t] \in {"nap", "wait"}
    /\ Goes(t, IF pc[t] = "nap" THEN "late" ELSE "woken")
    /\ UNCHANGED <<users, msgs, written, in_active, pipe_sleeps, posting, box, box_sleeps, signals>>

\* The thread has the mutex again.  When the wait timed out mailbox_safe_t::recv
\* gives up at once; when it was woken it reads once more.  Either way
\* process_commands ends with no command left to it, and recv tries again.
RecvAgain(t) ==
    /\ t \in Receivers /\ pc[t] \in {"woken", "late"}
    /\ IF box > 0 /\ pc[t] = "woken"
       THEN in_active' = TRUE /\ process_commands(t, FALSE) /\ UNCHANGED <<msgs, pipe_sleeps>>
       ELSE /\ IF pc[t] = "late" THEN UNCHANGED <<box, box_sleeps>>
               ELSE UNCHANGED box /\ box_sleeps' = TRUE
            /\ xrecv(in_active)
            /\ Goes(t, IF Sees(in_active, msgs) THEN "idle" ELSE "enter")
    /\ UNCHANGED <<users, written, posting, signals>>

-----------------------------------------------------------------------------
\* socket_poller_t::wait: the first pass does not block, later ones wait for
\* the signaler; a signal is taken and the socket is asked for its events.
PollWakes(t) ==
    /\ t \in Pollers /\ pc[t] = "poll" /\ signals[t] > 0
    /\ signals' = signaler_recv(signals, t)
    /\ Goes(t, "enter")
    /\ UNCHANGED <<users, msgs, written, in_active, pipe_sleeps, posting, box, box_sleeps>>

\* getsockopt (ZMQ_EVENTS): the commands are processed, which ends in a nap
CheckEvents(t) ==
    /\ t \in Pollers /\ pc[t] = "enter"
    /\ in_active' = (in_active \/ box > 0)
    /\ process_commands(t, FALSE)
    /\ UNCHANGED <<users, msgs, written, pipe_sleeps, posting, signals>>

\* The socket has input: zmq_poller_wait returns, and a receive that does not
\* block takes the message (unless another thread did); if not, wait again.
CheckedEvents(t) ==
    /\ t \in Pollers /\ pc[t] \in {"woken", "late"}
    /\ IF box > 0 /\ pc[t] = "woken"
       THEN /\ in_active' = TRUE /\ process_commands(t, FALSE)
            /\ UNCHANGED <<msgs, pipe_sleeps>>
       ELSE /\ IF pc[t] = "late" THEN UNCHANGED <<box, box_sleeps>>
               ELSE UNCHANGED box /\ box_sleeps' = TRUE
            /\ xhas_in(in_active)
            /\ Goes(t, IF Sees(in_active, msgs) THEN "take" ELSE "poll")
    /\ UNCHANGED <<users, written, posting, signals>>

Take(t) ==
    /\ t \in Pollers /\ pc[t] = "take"
    /\ xrecv(in_active)
    /\ Goes(t, "idle")
    /\ UNCHANGED <<users, written, posting, box, box_sleeps, signals>>

Step(t) == \/ Start(t) \/ Recv(t) \/ RecvAgain(t)
           \/ PollWakes(t) \/ CheckEvents(t) \/ CheckedEvents(t) \/ Take(t)
           \/ (pc[t] = "nap" /\ Wakes(t))
Next == Write \/ Send \/ \E t \in Threads : Step(t) \/ Wakes(t)

\* The I/O thread posts its command, and no thread stops for ever in the
\* middle of a call.
Fairness == WF_vars(Send) /\ \A t \in Threads : WF_vars(Step(t))
Spec == Init /\ [][Next]_vars /\ Fairness

-----------------------------------------------------------------------------
\* No wake-up is lost: when every thread that uses the socket is blocked, in
\* recv or in zmq_poller_wait, with nothing on the way to it, there is nothing
\* to receive.  It rests on the sleep flags of two queues, the pipe and the
\* mailbox, and on a broadcast that several threads compete for.
Blocked(t) == pc[t] = "wait" \/ (pc[t] = "poll" /\ signals[t] = 0)
NoLostWakeup == (\A t \in users : Blocked(t)) /\ posting = 0 => msgs = 0 /\ box = 0

\* Every message written to a thread-safe socket is received by one of the
\* threads that use it.
EveryMessageTaken == []<>(msgs = 0)
=============================================================================
