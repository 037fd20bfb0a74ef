--------------------------- MODULE MailboxProofs ---------------------------
(***************************************************************************)
(* Proofs about mailbox_t for any number of sending threads and of         *)
(* commands: the wake-up accounting between send(), recv() and the         *)
(* destructor.                                                             *)
(***************************************************************************)
EXTENDS Mailbox, SequenceTheorems, TLAPS

\* mailbox_t() establishes the inductive invariant.
LEMMA InitIInv == Init => IInv
  <1> SUFFICES ASSUME Init PROVE IInv
    OBVIOUS
  <1>1. TypeOK
    <2>1. asleep \in BOOLEAN /\ active \in BOOLEAN
      BY DEF Init
    <2>2. queue \in Seq(Command) /\ received \in Seq(Command)
      BY EmptySeq DEF Init
    <2> QED BY <2>1, <2>2 DEF Init, TypeOK
  <1>2. Owing = {}
    BY DEF Init, Owing
  <1> QED BY <1>1, <1>2, MailboxAssumption DEF Init, IInv, OneSignal, NoOne

\* send() up to and including the release of the lock.
LEMMA SendLockIInv == ASSUME IInv, NEW s \in Senders, SendLock(s) PROVE IInv'
  <1> USE MailboxAssumption DEF IInv, TypeOK, NoOne
  <1>1. TypeOK'
    BY DEF SendLock, cpipeVars, recvVars
  <1>2. Owing' = Owing
    BY DEF SendLock, Owing
  <1>3. \A t \in Senders : lock' = t <=> spc'[t] \in {"locked", "written", "written_asleep"}
    BY DEF SendLock
  <1> QED
    BY <1>1, <1>2, <1>3 DEF SendLock, cpipeVars, recvVars, OneSignal

LEMMA SendWriteIInv == ASSUME IInv, NEW s \in Senders, SendWrite(s) PROVE IInv'
  <1> USE MailboxAssumption DEF IInv, TypeOK, NoOne
  <1>1. [from |-> s, n |-> sent[s] + 1] \in Command
    BY DEF Command
  <1>2. queue' \in Seq(Command) /\ queue' # <<>>
    <2>1. queue' = Append(queue, [from |-> s, n |-> sent[s] + 1]) /\ queue \in Seq(Command)
      BY DEF SendWrite
    <2> QED BY ONLY <1>1, <2>1, AppendProperties
  <1>3. TypeOK'
    <2>1. asleep' \in BOOLEAN /\ UNCHANGED <<active, received, rpc, lock, signals>>
      BY DEF SendWrite, recvVars
    <2>2. spc' \in [Senders -> {"idle", "locked", "written", "written_asleep", "signal"}]
      BY DEF SendWrite
    <2>3. sent' \in [Senders -> Nat]
      BY DEF SendWrite
    <2> QED BY <1>2, <2>1, <2>2, <2>3
  <1>4. \A t \in Senders : lock' = t <=> spc'[t] \in {"locked", "written", "written_asleep"}
    BY DEF SendWrite
  <1>5. Owing' = IF asleep THEN Owing \cup {s} ELSE Owing
    <2>1. \A t \in Senders : t # s => spc'[t] = spc[t]
      BY DEF SendWrite
    <2>2. spc[s] = "locked" /\ spc'[s] = IF asleep THEN "written_asleep" ELSE "written"
      BY DEF SendWrite
    <2> QED BY <2>1, <2>2 DEF Owing
  <1>6. OneSignal' /\ (queue' # <<>>) /\ (~active => signals = 1 \/ Owing' # {}) /\ (active => Owing' = {})
    BY <1>2, <1>5 DEF SendWrite, OneSignal
  <1>7. rpc # "destroyed" /\ ~asleep' /\ UNCHANGED <<active, rpc, signals>>
    BY DEF SendWrite, recvVars
  <1> QED
    BY <1>3, <1>4, <1>6, <1>7

LEMMA SendUnlockIInv == ASSUME IInv, NEW s \in Senders, SendUnlock(s) PROVE IInv'
  <1> USE MailboxAssumption DEF IInv, TypeOK, NoOne
  <1>1. TypeOK'
    BY DEF SendUnlock, cpipeVars, recvVars
  <1>2. Owing' = Owing
    BY DEF SendUnlock, Owing
  <1>3. \A t \in Senders : lock' = t <=> spc'[t] \in {"locked", "written", "written_asleep"}
    BY DEF SendUnlock
  <1> QED
    BY <1>1, <1>2, <1>3 DEF SendUnlock, cpipeVars, recvVars, OneSignal

\* send() outside the lock: the signal.
LEMMA SendSignalIInv == ASSUME IInv, NEW s \in Senders, SendSignal(s) PROVE IInv'
  <1> USE MailboxAssumption DEF IInv, TypeOK, NoOne
  <1>1. TypeOK'
    BY DEF SendSignal, cpipeVars, recvVars
  <1>2. s \in Owing /\ Owing' = Owing \ {s}
    BY DEF SendSignal, Owing
  <1>3. signals = 0 /\ Owing' = {} /\ signals' = 1
    BY <1>2 DEF SendSignal, OneSignal
  <1>4. \A t \in Senders : lock' = t <=> spc'[t] \in {"locked", "written", "written_asleep"}
    BY DEF SendSignal
  <1> QED
    BY <1>1, <1>2, <1>3, <1>4 DEF SendSignal, cpipeVars, recvVars, OneSignal

\* recv() and the destructor.
LEMMA RecvIInv == ASSUME IInv, Recv \/ Destroy PROVE IInv'
  <1> USE MailboxAssumption DEF IInv, TypeOK, NoOne
  <1>1. UNCHANGED <<lock, spc, sent>>
    BY DEF Recv, RecvActive, RecvPassive, RecvGivesUp, RecvSignal, RecvRead, Destroy, sendVars
  <1>2. Owing' = Owing
    BY <1>1 DEF Owing
  <1>3. queue # <<>> => Head(queue) \in Command /\ Tail(queue) \in Seq(Command)
    BY HeadTailProperties
  <1>4. CASE RecvActive
    <2>1. TypeOK'
      BY <1>1, <1>3, <1>4, AppendProperties DEF RecvActive
    <2> QED BY <1>1, <1>2, <1>4, <2>1 DEF RecvActive, OneSignal
  <1>5. CASE RecvPassive
    BY <1>1, <1>2, <1>5 DEF RecvPassive, OneSignal
  <1>6. CASE RecvGivesUp
    BY <1>1, <1>2, <1>6 DEF RecvGivesUp, OneSignal, cpipeVars
  <1>7. CASE RecvSignal
    BY <1>1, <1>2, <1>7 DEF RecvSignal, OneSignal, cpipeVars
  <1>8. CASE RecvRead
    <2>1. TypeOK'
      BY <1>1, <1>3, <1>8, AppendProperties DEF RecvRead
    <2> QED BY <1>1, <1>2, <1>8, <2>1 DEF RecvRead, OneSignal
  <1>9. CASE Destroy
    <2>1. Owing = {}
      BY <1>9 DEF Destroy, AllReceived
    <2>2. \A s \in Senders : spc[s] = "idle" /\ sent[s] = MaxSends
      BY <1>9, <2>1 DEF Destroy, AllReceived, Owing
    <2> QED BY <1>1, <1>2, <1>9, <2>2 DEF Destroy, cpipeVars, OneSignal
  <1> QED BY <1>4, <1>5, <1>6, <1>7, <1>8, <1>9 DEF Recv

\* IInv is inductive.
LEMMA NextIInv == IInv /\ [Next]_vars => IInv'
  <1> SUFFICES ASSUME IInv, [Next]_vars PROVE IInv'
    OBVIOUS
  <1>1. CASE UNCHANGED vars
    BY <1>1 DEF vars, IInv, TypeOK, OneSignal, Owing
  <1>2. ASSUME NEW s \in Senders, Send(s) PROVE IInv'
    BY <1>2, SendLockIInv, SendWriteIInv, SendUnlockIInv, SendSignalIInv DEF Send
  <1>3. CASE Recv \/ Destroy
    BY <1>3, RecvIInv
  <1> QED BY <1>1, <1>2, <1>3 DEF Next

\* The inductive invariant holds in every reachable state.
THEOREM Invariance == Spec => []IInv
  BY InitIInv, NextIInv, PTL DEF Spec

\* The zmq_assert (ok) in recv() never fails, for any number of senders.
THEOREM AssertHolds == Spec => []SignalMeansCommand
  <1>1. IInv => SignalMeansCommand
    BY DEF IInv, SignalMeansCommand
  <1> QED BY <1>1, Invariance, PTL

\* At most one signal is sent or owed: recv_failable() reads dummy = 1.
THEOREM AtMostOneSignal == Spec => []OneSignal
  <1>1. IInv => OneSignal
    BY DEF IInv
  <1> QED BY <1>1, Invariance, PTL

\* A receiver about to sleep on the descriptor has missed no command.
THEOREM NotStranded == Spec => []NoCommandStranded
  <1>1. IInv => NoCommandStranded
    BY DEF IInv, NoCommandStranded, TypeOK
  <1> QED BY <1>1, Invariance, PTL

\* When ~mailbox_t() has passed the mutex, nobody is in send() any more.
THEOREM SafeDestruction == Spec => []DestroyedUnused
  <1>1. IInv => DestroyedUnused
    BY DEF IInv, DestroyedUnused
  <1> QED BY <1>1, Invariance, PTL

-----------------------------------------------------------------------------
(* The commands of one sender stay in order.                               *)

\* PerSenderOrder of any history of commands.
InOrder(all, count) ==
    /\ \A s \in Senders : {all[i].n : i \in {j \in 1..Len(all) : all[j].from = s}} = 1 .. count[s]
    /\ \A i, j \in 1..Len(all) : i < j /\ all[i].from = all[j].from => all[i].n < all[j].n

\* A command read from the queue keeps its place in the history.
LEMMA Moved ==
    ASSUME NEW S, NEW r \in Seq(S), NEW q \in Seq(S), q # <<>>
    PROVE  Append(r, Head(q)) \o Tail(q) = r \o q
<1> DEFINE h == Head(q)
           t == Tail(q)
           o == <<h>>
<1>1. h \in S /\ t \in Seq(S) BY HeadTailProperties
<1>2. o \in Seq(S) /\ Len(o) = 1 /\ o[1] = h BY <1>1
<1>3. Len(q) \in Nat /\ Len(q) > 0 /\ Len(t) = Len(q) - 1 /\ \A i \in 1..Len(t) : t[i] = q[i + 1]
  BY EmptySeq, LenProperties, HeadTailProperties
<1>4. h = q[1] BY HeadTailProperties
<1>5. o \o t = q
  <2> DEFINE c == o \o t
  <2> HIDE DEF o, t, h
  <2>0. c \in Seq(S) /\ Len(c) = Len(o) + Len(t) BY Zenon, <1>1, <1>2, ConcatProperties
  <2>1. c \in Seq(S) /\ Len(c) = Len(q)
    <3> HIDE DEF c
    <3> QED BY <1>2, <1>3, <2>0
  <2>2. \A i \in 1..(Len(o) + Len(t)) : c[i] = IF i <= Len(o) THEN o[i] ELSE t[i - Len(o)]
    BY Zenon, <1>1, <1>2, ConcatProperties
  <2> HIDE DEF c
  <2>3. ASSUME NEW i \in 1..Len(c) PROVE c[i] = q[i]
    <3>1. i \in 1..(Len(o) + Len(t)) BY <1>2, <1>3, <2>1
    <3>2. CASE i = 1 BY <1>2, <1>4, <2>2, <3>1, <3>2
    <3>3. CASE i # 1
      <4>1. i - 1 \in 1..Len(t) /\ ~(i <= Len(o)) BY <1>2, <1>3, <2>1, <3>3
      <4>2. c[i] = t[i - 1] BY <1>2, <2>2, <3>1, <4>1
      <4>3. t[i - 1] = q[(i - 1) + 1] BY <1>3, <4>1
      <4>4. (i - 1) + 1 = i BY <1>3, <2>1
      <4> QED BY <4>2, <4>3, <4>4
    <3> QED BY <3>2, <3>3
  <2>4. c = q BY <2>1, <2>3, SeqEqual
  <2> QED BY <2>4 DEF c
<1> HIDE DEF o, t, h
<1>6. Append(r, h) = r \o o BY <1>1, AppendIsConcat DEF o
<1>7. (r \o o) \o t = r \o (o \o t)
  <2>1. o \in Seq(S) /\ t \in Seq(S) BY <1>1, <1>2
  <2> QED BY <2>1, ConcatAssociative
<1> QED BY <1>5, <1>6, <1>7 DEF h, t

\* A command written goes to the end of the history.
LEMMA Extended ==
    ASSUME NEW S, NEW r \in Seq(S), NEW q \in Seq(S), NEW c \in S
    PROVE  r \o Append(q, c) = Append(r \o q, c)
<1>1. <<c>> \in Seq(S) OBVIOUS
<1>2. Append(q, c) = q \o <<c>> BY AppendIsConcat
<1>3. r \o q \in Seq(S) BY ConcatProperties
<1>4. Append(r \o q, c) = (r \o q) \o <<c>> BY <1>3, AppendIsConcat
<1>5. (r \o q) \o <<c>> = r \o (q \o <<c>>) BY <1>1, ConcatAssociative
<1> QED BY <1>2, <1>4, <1>5

\* A sender's next command keeps the history in order.
LEMMA OneMore ==
    ASSUME NEW all \in Seq(Command), NEW count \in [Senders -> Nat], InOrder(all, count),
           NEW s \in Senders
    PROVE  InOrder(Append(all, [from |-> s, n |-> count[s] + 1]), [count EXCEPT ![s] = @ + 1])
<1> DEFINE c == [from |-> s, n |-> count[s] + 1]
           new == Append(all, c)
           more == [count EXCEPT ![s] = @ + 1]
           Mine(h, t) == {h[i].n : i \in {j \in 1..Len(h) : h[j].from = t}}
<1>1. c \in Command /\ c.from = s /\ c.n = count[s] + 1 BY DEF Command
<1>2. more[s] = count[s] + 1 /\ \A t \in Senders : t # s => more[t] = count[t] OBVIOUS
<1>3. Len(all) \in Nat /\ \A i \in 1..Len(all) : all[i] \in Command BY LenProperties, ElementOfSeq
<1> HIDE DEF c, more
<1>4. Len(new) = Len(all) + 1 /\ new[Len(all) + 1] = c /\ \A i \in 1..Len(all) : new[i] = all[i]
  BY <1>1, AppendProperties
<1> HIDE DEF new
<1>5. \A t \in Senders : Mine(all, t) = 1 .. count[t] BY DEF InOrder
<1>6. \A i, j \in 1..Len(all) : i < j /\ all[i].from = all[j].from => all[i].n < all[j].n
  BY DEF InOrder
<1>7. 1..Len(new) = 1..Len(all) \cup {Len(all) + 1} BY <1>3, <1>4
<1>8. ASSUME NEW t \in Senders PROVE Mine(new, t) = 1 .. more[t]
  <2>1. CASE t = s
    <3>1. Mine(new, t) = Mine(all, t) \cup {c.n} BY <1>1, <1>3, <1>4, <1>7, <2>1
    <3>2. 1 .. (count[s] + 1) = (1 .. count[s]) \cup {count[s] + 1} OBVIOUS
    <3> QED BY <1>1, <1>2, <1>5, <2>1, <3>1, <3>2
  <2>2. CASE t # s
    <3>1. Mine(new, t) = Mine(all, t) BY <1>1, <1>3, <1>4, <1>7, <2>2
    <3> QED BY <1>2, <1>5, <2>2, <3>1
  <2> QED BY <2>1, <2>2
<1>9. ASSUME NEW i \in 1..Len(new), NEW j \in 1..Len(new), i < j, new[i].from = new[j].from
      PROVE  new[i].n < new[j].n
  <2>1. CASE j = Len(all) + 1
    <3>1. i \in 1..Len(all) /\ new[i] = all[i] BY <1>3, <1>4, <1>9, <2>1
    <3>2. all[i].n \in Mine(all, s) BY <1>1, <1>4, <1>9, <2>1, <3>1
    <3>3. all[i].n \in 1 .. count[s] BY <1>5, <3>2
    <3> QED BY <1>1, <1>4, <2>1, <3>1, <3>3
  <2>2. CASE j # Len(all) + 1
    <3>1. i \in 1..Len(all) /\ j \in 1..Len(all) BY <1>3, <1>4, <1>9, <2>2
    <3> QED BY <1>4, <1>6, <1>9, <3>1
  <2> QED BY <2>1, <2>2
<1> QED BY <1>8, <1>9 DEF InOrder, new, more, c

\* The history is in order, whatever the senders and the receiver do.
THEOREM Order == Spec => []PerSenderOrder
<1> DEFINE all == received \o queue
<1>0. PerSenderOrder <=> InOrder(all, sent) BY DEF PerSenderOrder, InOrder
<1>1. Init => PerSenderOrder
  <2> SUFFICES ASSUME Init PROVE InOrder(all, sent) BY <1>0
  <2>1. received \in Seq(Command) /\ queue \in Seq(Command) /\ Len(received) = 0 /\ Len(queue) = 0
    BY EmptySeq DEF Init
  <2>2. Len(all) = 0 BY <2>1, ConcatProperties
  <2>3. \A s \in Senders : sent[s] = 0 BY DEF Init
  <2> HIDE DEF all
  <2> QED BY <2>2, <2>3 DEF InOrder
<1>2. IInv /\ PerSenderOrder /\ [Next]_vars => PerSenderOrder'
  <2> SUFFICES ASSUME IInv, InOrder(all, sent), [Next]_vars PROVE InOrder(all', sent')
    BY <1>0 DEF PerSenderOrder, InOrder
  <2>1. received \in Seq(Command) /\ queue \in Seq(Command) /\ sent \in [Senders -> Nat]
    BY DEF IInv, TypeOK
  <2>2. ASSUME NEW s \in Senders, SendWrite(s) PROVE InOrder(all', sent')
    <3> DEFINE c == [from |-> s, n |-> sent[s] + 1]
    <3>1. received' = received /\ queue' = Append(queue, c) /\ sent' = [sent EXCEPT ![s] = @ + 1]
      BY <2>2 DEF SendWrite, recvVars
    <3>2. c \in Command BY <2>1 DEF Command
    <3>3. all' = Append(all, c)
      <4> HIDE DEF c
      <4> QED BY <2>1, <3>1, <3>2, Extended
    <3>4. all \in Seq(Command) BY <2>1, ConcatProperties
    <3> HIDE DEF all
    <3> QED BY <2>1, <3>1, <3>3, <3>4, OneMore
  <2>3. CASE RecvActive \/ RecvRead
    <3>1. /\ queue # <<>> /\ received' = Append(received, Head(queue)) /\ queue' = Tail(queue)
          /\ sent' = sent
      BY <2>3 DEF RecvActive, RecvRead, sendVars
    <3> QED BY <2>1, <3>1, Moved
  <2>4. CASE UNCHANGED <<queue, received, sent>>
    BY <2>4
  <2> QED
    BY <2>2, <2>3, <2>4
    DEF Next, Send, Recv, SendLock, SendUnlock, SendSignal, RecvPassive, RecvGivesUp, RecvSignal,
        Destroy, vars, cpipeVars, sendVars, recvVars
<1> QED BY <1>1, <1>2, Invariance, PTL DEF Spec

\* What the other components take from a mailbox: each sender's commands
\* arrive complete and in its order, and ~mailbox_t() leaves nobody in send().
THEOREM Safe == Spec => []MailboxSafe
<1> QED BY Order, SafeDestruction, PTL DEF MailboxSafe
=============================================================================
