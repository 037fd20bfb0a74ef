------------------------------- MODULE Mailbox -------------------------------
(***************************************************************************)
(* mailbox_t (mailbox.cpp): the queue of commands of one thread.  Any      *)
(* number of threads send under a mutex, one thread receives, and a        *)
(* signaler_t wakes the receiver.  The ypipe_t inside is taken as what     *)
(* YPipe is proved to implement (Fifo): flushing is one step, it reports   *)
(* whether the reader slept.  The receiver finally destroys the mailbox,   *)
(* as socket_base_t and ctx_t do once they have got the last command.      *)
(***************************************************************************)
EXTENDS Naturals, Sequences

CONSTANTS
    Senders,    \* the sending threads
    MaxSends    \* bound: commands each of them sends

ASSUME MailboxAssumption == MaxSends \in Nat /\ "none" \notin Senders

NoOne == "none"

VARIABLES
    queue,      \* _cpipe: flushed commands, oldest first
    asleep,     \* _cpipe: its reader was told there is nothing to read
    lock,       \* _sync: the sender that holds it, or NoOne
    spc,        \* where each sender is inside send()
    sent,       \* commands each sender has written
    signals,    \* signals in the signaler (bytes in the socket, or the eventfd)
    active,     \* _active
    rpc,        \* where the receiver is inside recv() or the destructor
    received    \* history: commands received, oldest first

cpipeVars == <<queue, asleep>>
sendVars == <<lock, spc, sent>>
recvVars == <<active, rpc, received>>
vars == <<queue, asleep, lock, spc, sent, signals, active, rpc, received>>

\* mailbox_t(): the failing check_read() leaves the pipe asleep.
Init ==
    /\ queue = <<>> /\ asleep = TRUE
    /\ lock = NoOne
    /\ spc = [s \in Senders |-> "idle"]
    /\ sent = [s \in Senders |-> 0]
    /\ signals = 0
    /\ active = FALSE /\ rpc = "idle"
    /\ received = <<>>

-----------------------------------------------------------------------------
(* send(), by any thread *)

SendLock(s) ==
    /\ spc[s] = "idle" /\ sent[s] < MaxSends
    /\ lock = NoOne
    /\ lock' = s
    /\ spc' = [spc EXCEPT ![s] = "locked"]
    /\ UNCHANGED <<cpipeVars, sent, signals, recvVars>>

\* A plausible slip in SendWrite.
SendWriteForgetsWake(s) ==
    /\ spc[s] = "locked"
    /\ sent' = [sent EXCEPT ![s] = @ + 1]
    /\ queue' = Append(queue, [from |-> s, n |-> sent[s] + 1])
    /\ asleep' = FALSE
    /\ spc' = [spc EXCEPT ![s] = "written"]
    /\ UNCHANGED <<lock, signals, recvVars>>

\* _cpipe.write() and _cpipe.flush(); the latter says whether to signal.
SendWrite(s) ==
    /\ spc[s] = "locked"
    /\ sent' = [sent EXCEPT ![s] = @ + 1]
    /\ queue' = Append(queue, [from |-> s, n |-> sent[s] + 1])
    /\ asleep' = FALSE
    /\ spc' = [spc EXCEPT ![s] = IF asleep THEN "written_asleep" ELSE "written"]
    /\ UNCHANGED <<lock, signals, recvVars>>

SendUnlock(s) ==
    /\ spc[s] \in {"written", "written_asleep"}
    /\ lock' = NoOne
    /\ spc' = [spc EXCEPT ![s] = IF @ = "written" THEN "idle" ELSE "signal"]
    /\ UNCHANGED <<cpipeVars, sent, signals, recvVars>>

\* _signaler.send(), outside the lock.
SendSignal(s) ==
    /\ spc[s] = "signal"
    /\ signals' = signals + 1
    /\ spc' = [spc EXCEPT ![s] = "idle"]
    /\ UNCHANGED <<cpipeVars, lock, sent, recvVars>>

-----------------------------------------------------------------------------
(* recv(), by the one receiving thread *)

\* In the active state the command is read straight away.
RecvActive ==
    /\ rpc = "idle" /\ active /\ queue # <<>>
    /\ received' = Append(received, Head(queue))
    /\ queue' = Tail(queue)
    /\ UNCHANGED <<asleep, sendVars, signals, active, rpc>>

\* A plausible slip in RecvPassive.
RecvPassiveStaysAwake ==
    /\ rpc = "idle"
    /\ active => queue = <<>>
    /\ active' = FALSE
    /\ rpc' = "wait"
    /\ UNCHANGED <<cpipeVars, sendVars, signals, received>>

\* The read failed, or the mailbox was passive already: wait for a signal.
RecvPassive ==
    /\ rpc = "idle"
    /\ active => queue = <<>>
    /\ active' = FALSE
    /\ asleep' = (asleep \/ active)
    /\ rpc' = "wait"
    /\ UNCHANGED <<queue, sendVars, signals, received>>

\* _signaler.wait() times out or is interrupted.
RecvGivesUp ==
    /\ rpc = "wait"
    /\ rpc' = "idle"
    /\ UNCHANGED <<cpipeVars, sendVars, signals, active, received>>

\* The signal is there: recv_failable() takes it, the mailbox turns active.
RecvSignal ==
    /\ rpc = "wait" /\ signals > 0
    /\ signals' = signals - 1
    /\ active' = TRUE
    /\ rpc' = "read"
    /\ UNCHANGED <<cpipeVars, sendVars, received>>

\* The read that zmq_assert (ok) follows.
RecvRead ==
    /\ rpc = "read" /\ queue # <<>>
    /\ received' = Append(received, Head(queue))
    /\ queue' = Tail(queue)
    /\ rpc' = "idle"
    /\ UNCHANGED <<asleep, sendVars, signals, active>>

-----------------------------------------------------------------------------
(* ~mailbox_t(), once the receiver has got the last command *)

AllReceived ==
    /\ Len(received) > 0 /\ queue = <<>>
    /\ \A s \in Senders : sent[s] = MaxSends

\* A plausible slip in Destroy.
DestroyWithoutLock ==
    /\ rpc = "idle" /\ AllReceived
    /\ rpc' = "destroyed"
    /\ UNCHANGED <<cpipeVars, sendVars, signals, active, received>>

\* The destructor takes and releases the lock, then the memory is gone.
Destroy ==
    /\ rpc = "idle" /\ AllReceived
    /\ lock = NoOne
    /\ rpc' = "destroyed"
    /\ UNCHANGED <<cpipeVars, sendVars, signals, active, received>>

-----------------------------------------------------------------------------
Send(s) == SendLock(s) \/ SendWrite(s) \/ SendUnlock(s) \/ SendSignal(s)

Recv == RecvActive \/ RecvPassive \/ RecvGivesUp \/ RecvSignal \/ RecvRead

Next == (\E s \in Senders : Send(s)) \/ Recv \/ Destroy

\* A thread inside send() gets on with it; the receiver's thread keeps calling
\* recv(), and poll() is not interrupted each and every time a signal is there.
Fairness ==
    /\ \A s \in Senders : WF_vars(SendWrite(s) \/ SendUnlock(s) \/ SendSignal(s))
    /\ WF_vars(RecvActive \/ RecvPassive)
    /\ WF_vars(RecvRead)
    /\ SF_vars(RecvSignal)

Spec == Init /\ [][Next]_vars

FairSpec == Spec /\ Fairness

-----------------------------------------------------------------------------
(* Properties *)

Command == [from : Senders, n : Nat]

\* Type invariant.
TypeOK ==
    /\ queue \in Seq(Command) /\ received \in Seq(Command)
    /\ asleep \in BOOLEAN /\ active \in BOOLEAN
    /\ lock \in Senders \cup {NoOne}
    /\ spc \in [Senders -> {"idle", "locked", "written", "written_asleep", "signal"}]
    /\ sent \in [Senders -> Nat]
    /\ signals \in Nat
    /\ rpc \in {"idle", "wait", "read", "destroyed"}

\* Senders that flushed into a sleeping pipe and have not signalled yet.
Owing == {s \in Senders : spc[s] \in {"written_asleep", "signal"}}

\* zmq_assert (ok) in recv(): a receiver that took a signal finds a command.
SignalMeansCommand == rpc = "read" => queue # <<>>

\* There is never more than one signal, counting the one a sender that has
\* left the lock still has to send: recv_failable() never meets dummy > 1.
OneSignal ==
    /\ signals <= 1
    /\ \A s, t \in Owing : s = t
    /\ signals = 1 => Owing = {}

\* A receiver that goes to sleep on the file descriptor has not missed
\* anything: while commands wait in a passive mailbox, the signal is there or
\* a sender is about to send it.
NoCommandStranded ==
    (rpc \in {"idle", "wait"} /\ ~active /\ queue # <<>>) => (signals = 1 \/ Owing # {})

\* Commands of one sender arrive complete and in the order in which it sent
\* them, whatever the interleaving of senders (pipe_t relies on it: hiccup
\* before pipe_term, pipe_term before pipe_term_ack).
PerSenderOrder ==
    LET all == received \o queue
    IN  /\ \A s \in Senders : {all[i].n : i \in {j \in 1..Len(all) : all[j].from = s}} = 1 .. sent[s]
        /\ \A i, j \in 1..Len(all) : i < j /\ all[i].from = all[j].from => all[i].n < all[j].n

\* ~mailbox_t's comment: "Work around problem that other threads might still be
\* in our send() method, by waiting on the mutex before disappearing."  Nobody
\* is inside send(), not even on the way to the signaler, once it is gone.
DestroyedUnused == rpc = "destroyed" => \A s \in Senders : spc[s] = "idle"

\* The inductive strengthening: a sleeping pipe is empty and nobody signals
\* for it; a pipe woken by a sender but not yet by the receiver is not empty and
\* has exactly one signal sent or owed; an active mailbox has none.
IInv ==
    /\ TypeOK
    /\ \A s \in Senders :
          lock = s <=> spc[s] \in {"locked", "written", "written_asleep"}
    /\ OneSignal
    /\ rpc = "wait" => ~active
    /\ rpc = "read" => active /\ queue # <<>>
    /\ asleep => queue = <<>> /\ ~active
    /\ asleep \/ active => signals = 0 /\ Owing = {}
    /\ ~asleep /\ ~active => queue # <<>> /\ (signals = 1 \/ Owing # {})
    /\ rpc = "destroyed" => \A s \in Senders : spc[s] = "idle" /\ sent[s] = MaxSends

\* Commands stay in order and nobody uses a mailbox that is being destroyed.
MailboxSafe == PerSenderOrder /\ DestroyedUnused

\* Every command sent is received, and the mailbox can be destroyed.
EveryCommandReceived ==
    \A s \in Senders, k \in 1 .. MaxSends :
        []<>(sent[s] >= k => \E i \in DOMAIN received : received[i] = [from |-> s, n |-> k])
=============================================================================
