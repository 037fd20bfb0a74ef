-------------------------- MODULE SafeSocketProofs --------------------------
(***************************************************************************)
(* Proof that no wake-up of a thread-safe socket is lost, for any sets of  *)
(* receiving and polling threads (which may even overlap) and any number   *)
(* of messages.                                                            *)
(***************************************************************************)
EXTENDS SafeSocket, TLAPS

PcStates == {"idle", "enter", "wait", "nap", "woken", "late", "poll", "take"}

Counts == msgs \in Nat /\ written \in Nat /\ posting \in Nat /\ box \in Nat
Bits == in_active \in BOOLEAN /\ pipe_sleeps \in BOOLEAN /\ box_sleeps \in BOOLEAN

\* Only the users of the socket ever make a call, and only a poller polls.
Calls ==
    /\ users \subseteq Threads /\ users # {}
    /\ pc \in [Threads -> PcStates]
    /\ signals \in [Pollers -> Nat]
    /\ \A t \in Threads \ users : pc[t] = "idle"
    /\ \A t \in Threads : pc[t] = "poll" => t \in Pollers

TypeOK == Counts /\ Bits /\ Calls

\* The sleep flag of each queue stands for an empty queue, and a pipe that the
\* socket takes for empty is one whose next message will be announced, or has been.
Flags ==
    /\ pipe_sleeps => msgs = 0
    /\ box_sleeps => box = 0
    /\ in_active \/ pipe_sleeps \/ posting > 0 \/ box > 0

\* Since the mailbox was found empty the last time a command has come, whose
\* broadcast has reached everybody: nobody is on the condition variable, and a
\* poller has its signal or is about to look for commands.
Roused(t) ==
    /\ pc[t] \notin {"wait", "nap"}
    /\ t \in Pollers => signals[t] > 0 \/ pc[t] \in {"idle", "enter"}
Announced == ~box_sleeps => \A t \in users : Roused(t)

\* A pipe that may have messages is in the hands of a thread that is not
\* waiting: who goes to wait has found it empty.
InHand == in_active => \E t \in users : pc[t] \notin {"wait", "poll"}

IInv == TypeOK /\ Flags /\ Announced /\ InHand

-----------------------------------------------------------------------------
(* What a step of the thread t to the position `to` does to the invariants *)
(* that speak of all threads.                                              *)
LEMMA Moves ==
    ASSUME TypeOK, NEW t \in users, NEW to \in PcStates, Goes(t, to), UNCHANGED users
    PROVE  /\ t \in Threads
           /\ pc' \in [Threads -> PcStates] /\ pc'[t] = to
           /\ \A x \in Threads \ {t} : pc'[x] = pc[x]
           /\ \A x \in Threads \ users : pc'[x] = "idle"
           /\ (to = "poll" => t \in Pollers) => \A x \in Threads : pc'[x] = "poll" => x \in Pollers
  BY DEF TypeOK, Counts, Bits, Calls, Goes

(* A thread that goes on instead of waiting has the pipe in its hands.     *)
LEMMA StaysInHand ==
    ASSUME TypeOK, NEW t \in users, NEW to \in PcStates \ {"wait", "poll"},
           Goes(t, to), UNCHANGED users
    PROVE  InHand'
  <1>1. pc'[t] \notin {"wait", "poll"}
    BY Moves
  <1> QED
    BY <1>1 DEF InHand

(* A thread that goes on without emptying the mailbox, and that is still   *)
(* roused, leaves everybody roused.                                        *)
LEMMA StaysAnnounced ==
    ASSUME TypeOK, Announced, NEW t \in users, NEW to \in PcStates, Goes(t, to),
           UNCHANGED <<users, box_sleeps>>,
           \A x \in Pollers \ {t} : signals'[x] = signals[x],
           ~box_sleeps /\ Roused(t) => Roused(t)'
    PROVE  Announced'
  <1> SUFFICES ASSUME ~box_sleeps, NEW x \in users PROVE Roused(x)'
    BY DEF Announced
  <1>1. Roused(x)
    BY DEF Announced
  <1>2. CASE x = t
    BY <1>1, <1>2
  <1>3. CASE x # t
    <2>1. pc'[x] = pc[x]
      BY <1>3, Moves DEF TypeOK, Counts, Bits, Calls
    <2>2. x \in Pollers => signals'[x] = signals[x]
      BY <1>3
    <2> QED
      BY <1>1, <2>1, <2>2 DEF Roused
  <1> QED
    BY <1>2, <1>3

-----------------------------------------------------------------------------
(* Every step keeps the invariant, action by action.                       *)
LEMMA WriteKeeps == IInv /\ Write => IInv'
  <1> SUFFICES ASSUME IInv, Write PROVE IInv'
    OBVIOUS
  <1>1. TypeOK'
    <2>1. Counts'
      BY DEF IInv, TypeOK, Counts, Write
    <2>3. Bits'
      BY DEF IInv, TypeOK, Bits, Write
    <2>2. Calls'
      BY DEF IInv, TypeOK, Calls, Write
    <2> QED
      BY <2>1, <2>2, <2>3 DEF TypeOK
  <1>3. Flags'
    BY DEF IInv, TypeOK, Counts, Bits, Calls, Flags, Write
  <1>2. Announced' /\ InHand'
    BY DEF IInv, Announced, Roused, InHand, Write
  <1> QED
    BY <1>1, <1>2, <1>3 DEF IInv

LEMMA SendKeeps == IInv /\ Send => IInv'
  <1> SUFFICES ASSUME IInv, Send PROVE IInv'
    OBVIOUS
  <1>1. CASE box_sleeps
    <2>1. \A t \in Threads : pc'[t] = IF pc[t] \in {"wait", "nap"} THEN "woken" ELSE pc[t]
      BY <1>1 DEF Send, broadcast
    <2>2. \A t \in Pollers : signals'[t] = IF t \in users THEN signals[t] + 1 ELSE signals[t]
      BY <1>1 DEF Send, signaler_send
    <2>3. pc' \in [Threads -> PcStates] /\ signals' \in [Pollers -> Nat]
      BY <1>1 DEF Send, broadcast, signaler_send, IInv, TypeOK, Counts, Bits, Calls, PcStates
    <2>4. TypeOK'
      <3>1. Counts'
        BY DEF IInv, TypeOK, Counts, Send
      <3>3. Bits'
        BY DEF IInv, TypeOK, Bits, Send
      <3>2. Calls'
        BY <2>1, <2>3 DEF IInv, TypeOK, Calls, Send
      <3> QED
        BY <3>1, <3>2, <3>3 DEF TypeOK
    <2>5. Flags'
      BY DEF IInv, TypeOK, Counts, Bits, Calls, Flags, Send
    <2>6. ASSUME NEW t \in users PROVE Roused(t)'
      <3>1. t \in Threads /\ (t \in Pollers => signals[t] \in Nat)
        BY DEF IInv, TypeOK, Counts, Bits, Calls
      <3>2. pc'[t] \notin {"wait", "nap"}
        BY <2>1, <3>1
      <3>3. t \in Pollers => signals'[t] > 0
        BY <2>2, <3>1
      <3> QED
        BY <3>2, <3>3 DEF Roused
    <2>7. InHand'
      BY <2>1 DEF IInv, TypeOK, Counts, Bits, Calls, InHand, Send
    <2> QED
      BY <2>4, <2>5, <2>6, <2>7 DEF IInv, Announced, Send
  <1>2. CASE ~box_sleeps
    <2>1. TypeOK'
      <3>1. Counts'
        BY <1>2 DEF IInv, TypeOK, Counts, Send
      <3>3. Bits'
        BY <1>2 DEF IInv, TypeOK, Bits, Send
      <3>2. Calls'
        BY <1>2 DEF IInv, TypeOK, Calls, Send
      <3> QED
        BY <3>1, <3>2, <3>3 DEF TypeOK
    <2>3. Flags'
      BY <1>2 DEF IInv, TypeOK, Counts, Bits, Calls, Flags, Send
    <2>2. Announced' /\ InHand'
      BY <1>2 DEF IInv, Announced, Roused, InHand, Send
    <2> QED
      BY <2>1, <2>2, <2>3 DEF IInv
  <1> QED
    BY <1>1, <1>2 DEF IInv, TypeOK, Counts, Bits, Calls

LEMMA StartKeeps == ASSUME NEW t \in Threads PROVE IInv /\ Start(t) => IInv'
  <1> SUFFICES ASSUME IInv, Start(t) PROVE IInv'
    OBVIOUS
  <1>1. t \in users /\ "enter" \in PcStates \ {"wait", "poll"} /\ Goes(t, "enter") /\ TypeOK
    BY DEF Start, IInv, PcStates
  <1>2. pc'[t] = "enter"
    BY <1>1, Moves DEF Start
  <1>3. TypeOK' /\ Flags'
    BY <1>1, Moves DEF IInv, TypeOK, Counts, Bits, Calls, Flags, Start
  <1>4. InHand'
    BY <1>1, StaysInHand DEF Start
  <1>5. Announced'
    BY <1>1, <1>2, StaysAnnounced DEF IInv, Roused, Start
  <1> QED
    BY <1>3, <1>4, <1>5 DEF IInv

(* A thread is only active when it is one of the users.                    *)
LEMMA ActiveIsUser == ASSUME TypeOK, NEW t \in Threads, pc[t] # "idle" PROVE t \in users
  BY DEF TypeOK, Counts, Bits, Calls

LEMMA RecvKeeps == ASSUME NEW t \in Threads PROVE IInv /\ Recv(t) => IInv'
  <1> SUFFICES ASSUME IInv, Recv(t) PROVE IInv'
    OBVIOUS
  <1>1. t \in users /\ TypeOK /\ pc[t] = "enter" /\ t \in Receivers
    BY ActiveIsUser DEF Recv, IInv
  <1>2. CASE Sees(in_active, msgs)
    <2>1. "idle" \in PcStates \ {"wait", "poll"} /\ Goes(t, "idle")
      BY <1>2 DEF Recv, PcStates
    <2>2. /\ msgs' = msgs - 1 /\ in_active' = in_active
          /\ UNCHANGED <<users, written, pipe_sleeps, posting, box, box_sleeps, signals>>
      BY <1>2 DEF Recv, xrecv
    <2>3. msgs > 0
      BY <1>2 DEF Sees
    <2>4. pc'[t] = "idle"
      BY <1>1, <2>1, <2>2, Moves
    <2>5. TypeOK' /\ Flags'
      BY <1>1, <2>1, <2>2, <2>3, Moves DEF IInv, TypeOK, Counts, Bits, Calls, Flags
    <2>6. InHand'
      BY <1>1, <2>1, <2>2, StaysInHand
    <2>7. Announced'
      BY <1>1, <2>1, <2>2, <2>4, StaysAnnounced DEF IInv, Roused
    <2> QED
      BY <2>5, <2>6, <2>7 DEF IInv
  <1>3. CASE ~Sees(in_active, msgs)
    <2>1. PICK block \in BOOLEAN : process_commands(t, block)
      BY <1>3 DEF Recv
    <2>2. /\ UNCHANGED <<users, written, msgs, posting, signals>>
          /\ in_active' = (box > 0)
          /\ pipe_sleeps' = (pipe_sleeps \/ in_active)
          /\ box' = 0 /\ box_sleeps' = TRUE
      BY <1>3, <2>1 DEF Recv, process_commands
    <2> DEFINE to == IF box = 0 /\ block THEN "wait" ELSE "nap"
    <2>3. to \in PcStates /\ Goes(t, to) /\ to # "poll"
      BY <2>1 DEF process_commands, PcStates
    <2>4. in_active => msgs = 0
      BY <1>1, <1>3 DEF Sees, TypeOK, Counts, Bits, Calls
    <2>5. TypeOK'
      <3> HIDE DEF to
      <3> QED
        BY <1>1, <2>2, <2>3, Moves DEF TypeOK, Counts, Bits, Calls
    <2>6. Flags'
      BY <1>1, <2>2, <2>4 DEF IInv, TypeOK, Counts, Bits, Calls, Flags
    <2>7. Announced'
      BY <2>2 DEF Announced
    <2>8. InHand'
      <3>1. CASE box > 0
        <4>1. to = "nap" /\ "nap" \in PcStates \ {"wait", "poll"}
          BY <3>1 DEF PcStates
        <4> QED
          BY <1>1, <2>2, <2>3, <4>1, StaysInHand
      <3>2. CASE ~(box > 0)
        BY <2>2, <3>2 DEF InHand
      <3> QED
        BY <3>1, <3>2
    <2> QED
      BY <2>5, <2>6, <2>7, <2>8 DEF IInv
  <1> QED
    BY <1>2, <1>3

(* A thread whose nap or wait ends is no longer on the condition variable. *)
LEMMA WakesKeeps == ASSUME NEW t \in Threads PROVE IInv /\ Wakes(t) => IInv'
  <1> SUFFICES ASSUME IInv, Wakes(t) PROVE IInv'
    OBVIOUS
  <1> DEFINE to == IF pc[t] = "nap" THEN "late" ELSE "woken"
  <1>1. t \in users /\ TypeOK /\ pc[t] \in {"nap", "wait"}
    BY ActiveIsUser DEF Wakes, IInv
  <1>2. to \in PcStates \ {"wait", "poll"} /\ Goes(t, to) /\ UNCHANGED users
    BY DEF Wakes, PcStates
  <1> HIDE DEF to
  <1>3. TypeOK' /\ Flags'
    BY <1>1, <1>2, Moves DEF IInv, TypeOK, Counts, Bits, Calls, Flags, Wakes
  <1>4. InHand'
    BY <1>1, <1>2, StaysInHand
  <1>5. Announced'
    <2>1. ~Roused(t)
      BY <1>1 DEF Roused
    <2> QED
      BY <1>1, <1>2, <2>1, StaysAnnounced DEF IInv, Wakes
  <1> QED
    BY <1>3, <1>4, <1>5 DEF IInv

(* xrecv() and xhas_in(): a message is taken from a pipe that has one; a   *)
(* pipe found empty is left asleep and passive.                            *)
LEMMA PipeUsed ==
    ASSUME TypeOK, Flags, xrecv(in_active) \/ xhas_in(in_active), UNCHANGED posting,
           box' = box
    PROVE  /\ msgs' \in Nat /\ in_active' \in BOOLEAN /\ pipe_sleeps' \in BOOLEAN
           /\ pipe_sleeps' => msgs' = 0
           /\ in_active' \/ pipe_sleeps' \/ posting' > 0 \/ box' > 0
           /\ ~Sees(in_active, msgs) => ~in_active'
  <1>1. msgs \in Nat /\ in_active \in BOOLEAN /\ pipe_sleeps \in BOOLEAN
    BY DEF TypeOK, Counts, Bits
  <1>2. CASE Sees(in_active, msgs)
    <2>1. in_active = TRUE /\ msgs > 0 /\ pipe_sleeps = FALSE
      BY <1>1, <1>2 DEF Sees, Flags
    <2>2. in_active' = TRUE
      BY <1>2, <2>1 DEF xrecv, xhas_in, Sees
    <2>3. pipe_sleeps' = FALSE
      <3>1. msgs # 0
        BY <1>1, <2>1
      <3> QED
        BY <1>2, <2>1, <3>1 DEF xrecv, xhas_in
    <2>4. msgs' \in Nat
      <3>1. msgs' = msgs \/ msgs' = msgs - 1
        BY <1>2 DEF xrecv, xhas_in
      <3> QED
        BY <1>1, <2>1, <3>1
    <2> QED
      BY <1>2, <2>2, <2>3, <2>4
  <1>3. CASE ~Sees(in_active, msgs)
    <2>1. in_active => msgs = 0
      BY <1>1, <1>3 DEF Sees
    <2>2. msgs' = msgs /\ in_active' = FALSE
      BY <1>3 DEF xrecv, xhas_in
    <2>3. pipe_sleeps' = (pipe_sleeps \/ in_active)
      BY <1>1, <1>3, <2>1 DEF xrecv, xhas_in
    <2> QED
      BY <1>1, <2>1, <2>2, <2>3 DEF Flags
  <1> QED
    BY <1>2, <1>3

(* process_commands() in the middle of a call: every command is taken and  *)
(* has made the pipe active.                                               *)
LEMMA CommandsTaken ==
    ASSUME IInv, NEW t \in users, process_commands(t, FALSE),
           in_active' = (in_active \/ box > 0),
           UNCHANGED <<users, msgs, written, pipe_sleeps, posting, signals>>
    PROVE  IInv'
  <1>1. "nap" \in PcStates \ {"wait", "poll"} /\ Goes(t, "nap") /\ TypeOK
    BY DEF process_commands, PcStates, IInv
  <1>2. box' = 0 /\ box_sleeps' = TRUE
    BY DEF process_commands
  <1>3. TypeOK'
    <2>1. Counts'
      BY <1>2 DEF IInv, TypeOK, Counts
    <2>2. Bits'
      BY <1>2 DEF IInv, TypeOK, Bits
    <2>3. Calls'
      BY <1>1, Moves DEF TypeOK, Calls
    <2> QED
      BY <2>1, <2>2, <2>3 DEF TypeOK
  <1>4. Flags'
    BY <1>2 DEF IInv, TypeOK, Counts, Bits, Flags
  <1>5. Announced'
    BY <1>2 DEF Announced
  <1>6. InHand'
    BY <1>1, StaysInHand
  <1> QED
    BY <1>3, <1>4, <1>5, <1>6 DEF IInv

(* The end of a call that was woken or timed out, and has no command left: *)
(* recv() or zmq_poller_wait() return, or start over.                      *)
LEMMA Resumed ==
    ASSUME IInv, NEW t \in users, pc[t] \in {"woken", "late"}, ~(box > 0 /\ pc[t] = "woken"),
           IF pc[t] = "late" THEN UNCHANGED <<box, box_sleeps>>
                             ELSE UNCHANGED box /\ box_sleeps' = TRUE,
           xrecv(in_active) \/ xhas_in(in_active),
           NEW to \in PcStates, Goes(t, to), to \notin {"wait", "nap"},
           to = "poll" => t \in Pollers /\ ~Sees(in_active, msgs),
           UNCHANGED <<users, written, posting, signals>>
    PROVE  IInv'
  <1>1. TypeOK /\ Flags /\ box' = box
    BY DEF IInv
  <1>2. /\ msgs' \in Nat /\ in_active' \in BOOLEAN /\ pipe_sleeps' \in BOOLEAN
        /\ pipe_sleeps' => msgs' = 0
        /\ in_active' \/ pipe_sleeps' \/ posting' > 0 \/ box' > 0
        /\ ~Sees(in_active, msgs) => ~in_active'
    BY <1>1, PipeUsed
  <1>3. TypeOK'
    <2>1. Counts'
      BY <1>1, <1>2 DEF TypeOK, Counts
    <2>2. Bits'
      BY <1>1, <1>2 DEF TypeOK, Bits
    <2>3. Calls'
      BY <1>1, Moves DEF TypeOK, Calls
    <2> QED
      BY <2>1, <2>2, <2>3 DEF TypeOK
  <1>4. Flags'
    <2>1. CASE pc[t] = "late"
      BY <1>1, <1>2, <2>1 DEF Flags
    <2>2. CASE pc[t] = "woken"
      <3>1. box = 0
        BY <1>1, <2>2 DEF TypeOK, Counts
      <3> QED
        BY <1>1, <1>2, <3>1 DEF Flags
    <2> QED
      BY <2>1, <2>2
  <1>5. Announced'
    <2>1. CASE pc[t] = "late"
      <3>1. Roused(t) => Roused(t)'
        <4>1. pc'[t] = to
          BY <1>1, Moves
        <4> QED
          BY <2>1, <4>1 DEF Roused
      <3> QED
        BY <1>1, <2>1, <3>1, StaysAnnounced DEF IInv
    <2>2. CASE pc[t] = "woken"
      BY <2>2 DEF Announced
    <2> QED
      BY <2>1, <2>2
  <1>6. InHand'
    <2>1. CASE to = "poll"
      BY <1>2, <2>1 DEF InHand
    <2>2. CASE to # "poll"
      BY <1>1, <2>2, StaysInHand
    <2> QED
      BY <2>1, <2>2
  <1> QED
    BY <1>3, <1>4, <1>5, <1>6 DEF IInv

LEMMA RecvAgainKeeps == ASSUME NEW t \in Threads PROVE IInv /\ RecvAgain(t) => IInv'
  <1> SUFFICES ASSUME IInv, RecvAgain(t) PROVE IInv'
    OBVIOUS
  <1>1. t \in users
    BY ActiveIsUser DEF RecvAgain, IInv
  <1>2. CASE box > 0 /\ pc[t] = "woken"
    <2>1. in_active' = (in_active \/ box > 0)
      BY <1>2 DEF RecvAgain
    <2> QED
      BY <1>1, <1>2, <2>1, CommandsTaken DEF RecvAgain
  <1>3. CASE ~(box > 0 /\ pc[t] = "woken")
    <2> DEFINE to == IF Sees(in_active, msgs) THEN "idle" ELSE "enter"
    <2>1. to \in PcStates /\ Goes(t, to) /\ to \notin {"wait", "nap", "poll"}
      BY <1>3 DEF RecvAgain, PcStates
    <2> HIDE DEF to
    <2> QED
      BY <1>1, <1>3, <2>1, Resumed DEF RecvAgain
  <1> QED
    BY <1>2, <1>3

LEMMA CheckedEventsKeeps == ASSUME NEW t \in Threads PROVE IInv /\ CheckedEvents(t) => IInv'
  <1> SUFFICES ASSUME IInv, CheckedEvents(t) PROVE IInv'
    OBVIOUS
  <1>1. t \in users
    BY ActiveIsUser DEF CheckedEvents, IInv
  <1>2. CASE box > 0 /\ pc[t] = "woken"
    <2>1. in_active' = (in_active \/ box > 0)
      BY <1>2 DEF CheckedEvents
    <2> QED
      BY <1>1, <1>2, <2>1, CommandsTaken DEF CheckedEvents
  <1>3. CASE ~(box > 0 /\ pc[t] = "woken")
    <2> DEFINE to == IF Sees(in_active, msgs) THEN "take" ELSE "poll"
    <2>1. /\ to \in PcStates /\ Goes(t, to) /\ to \notin {"wait", "nap"}
          /\ to = "poll" => ~Sees(in_active, msgs)
      BY <1>3 DEF CheckedEvents, PcStates
    <2> HIDE DEF to
    <2> QED
      BY <1>1, <1>3, <2>1, Resumed DEF CheckedEvents
  <1> QED
    BY <1>2, <1>3

LEMMA CheckEventsKeeps == ASSUME NEW t \in Threads PROVE IInv /\ CheckEvents(t) => IInv'
  <1> SUFFICES ASSUME IInv, CheckEvents(t) PROVE IInv'
    OBVIOUS
  <1>1. t \in users
    BY ActiveIsUser DEF CheckEvents, IInv
  <1> QED
    BY <1>1, CommandsTaken DEF CheckEvents

LEMMA PollWakesKeeps == ASSUME NEW t \in Threads PROVE IInv /\ PollWakes(t) => IInv'
  <1> SUFFICES ASSUME IInv, PollWakes(t) PROVE IInv'
    OBVIOUS
  <1>1. t \in users /\ TypeOK /\ t \in Pollers
    BY ActiveIsUser DEF PollWakes, IInv
  <1>2. "enter" \in PcStates \ {"wait", "poll"} /\ Goes(t, "enter") /\ UNCHANGED users
    BY DEF PollWakes, PcStates
  <1>3. signals' \in [Pollers -> Nat] /\ \A x \in Pollers \ {t} : signals'[x] = signals[x]
    BY <1>1 DEF PollWakes, signaler_recv, TypeOK, Calls
  <1>4. TypeOK'
    <2>1. Counts' /\ Bits'
      BY <1>1 DEF PollWakes, TypeOK, Counts, Bits
    <2>2. Calls'
      BY <1>1, <1>2, <1>3, Moves DEF TypeOK, Calls
    <2> QED
      BY <2>1, <2>2 DEF TypeOK
  <1>5. Flags'
    BY DEF PollWakes, IInv, Flags
  <1>6. InHand'
    BY <1>1, <1>2, StaysInHand
  <1>7. Announced'
    <2>1. Roused(t)'
      BY <1>1, <1>2, Moves DEF Roused
    <2> QED
      BY <1>1, <1>2, <1>3, <2>1, StaysAnnounced DEF IInv, PollWakes
  <1> QED
    BY <1>4, <1>5, <1>6, <1>7 DEF IInv

LEMMA TakeKeeps == ASSUME NEW t \in Threads PROVE IInv /\ Take(t) => IInv'
  <1> SUFFICES ASSUME IInv, Take(t) PROVE IInv'
    OBVIOUS
  <1>1. t \in users /\ TypeOK /\ Flags
    BY ActiveIsUser DEF Take, IInv
  <1>2. "idle" \in PcStates \ {"wait", "poll"} /\ Goes(t, "idle") /\ UNCHANGED users
    BY DEF Take, PcStates
  <1>3. /\ msgs' \in Nat /\ in_active' \in BOOLEAN /\ pipe_sleeps' \in BOOLEAN
        /\ pipe_sleeps' => msgs' = 0
        /\ in_active' \/ pipe_sleeps' \/ posting' > 0 \/ box' > 0
    BY <1>1, PipeUsed DEF Take
  <1>4. TypeOK'
    <2>1. Counts'
      BY <1>1, <1>3 DEF Take, TypeOK, Counts
    <2>2. Bits'
      BY <1>1, <1>3 DEF Take, TypeOK, Bits
    <2>3. Calls'
      BY <1>1, <1>2, Moves DEF Take, TypeOK, Calls
    <2> QED
      BY <2>1, <2>2, <2>3 DEF TypeOK
  <1>5. Flags'
    BY <1>1, <1>3 DEF Take, Flags
  <1>6. InHand'
    BY <1>1, <1>2, StaysInHand
  <1>7. Announced'
    <2>1. Roused(t) => Roused(t)'
      BY <1>1, <1>2, Moves DEF Roused, Take
    <2> QED
      BY <1>1, <1>2, <2>1, StaysAnnounced DEF IInv, Take
  <1> QED
    BY <1>4, <1>5, <1>6, <1>7 DEF IInv

-----------------------------------------------------------------------------
(* The flags of the two queues, the broadcast and the active pipe are      *)
(* right at all times.                                                     *)
THEOREM Invariance == Spec => []IInv
  <1>1. Init => IInv
    <2> SUFFICES ASSUME Init PROVE IInv
      OBVIOUS
    <2>1. TypeOK
      <3>1. Counts /\ Bits
        BY DEF Init, Counts, Bits
      <3>2. Calls
        BY DEF Init, Calls, PcStates
      <3> QED
        BY <3>1, <3>2 DEF TypeOK
    <2>2. Flags /\ Announced
      BY DEF Init, Flags, Announced
    <2>3. InHand
      BY <2>1 DEF Init, InHand, TypeOK, Calls
    <2> QED
      BY <2>1, <2>2, <2>3 DEF IInv
  <1>2. IInv /\ [Next]_vars => IInv'
    <2> SUFFICES ASSUME IInv, [Next]_vars PROVE IInv'
      OBVIOUS
    <2>1. ASSUME NEW t \in Threads, Step(t) \/ Wakes(t) PROVE IInv'
      BY <2>1, StartKeeps, RecvKeeps, RecvAgainKeeps, PollWakesKeeps, CheckEventsKeeps,
         CheckedEventsKeeps, TakeKeeps, WakesKeeps DEF Step
    <2>2. CASE UNCHANGED vars
      <3>1. TypeOK'
        BY <2>2 DEF vars, IInv, TypeOK, Counts, Bits, Calls
      <3>2. Flags' /\ Announced' /\ InHand'
        BY <2>2 DEF vars, IInv, Flags, Announced, Roused, InHand
      <3> QED
        BY <3>1, <3>2 DEF IInv
    <2> QED
      BY <2>1, <2>2, WriteKeeps, SendKeeps DEF Next
  <1> QED
    BY <1>1, <1>2, PTL DEF Spec

(* mailbox_safe_t and socket_poller_t: when every thread that uses a       *)
(* thread-safe socket is blocked, in recv() or in zmq_poller_wait(), and   *)
(* nothing is on its way, there is no message and no command to wait for.  *)
(* The run checks it as part of WaitersRight.                              *)
THEOREM NoWakeupIsLost == Spec => []NoLostWakeup
  <1>1. IInv => NoLostWakeup
    <2> SUFFICES ASSUME IInv, \A t \in users : Blocked(t), posting = 0
                 PROVE  msgs = 0 /\ box = 0
      BY DEF NoLostWakeup
    <2>1. PICK u \in users : TRUE
      BY DEF IInv, TypeOK, Calls
    <2>2. ~Roused(u)
      <3>1. CASE pc[u] = "wait"
        BY <3>1 DEF Roused
      <3>2. CASE pc[u] = "poll" /\ signals[u] = 0
        <4>1. u \in Pollers
          BY <3>2 DEF IInv, TypeOK, Calls
        <4>2. ~(signals[u] > 0)
          BY <3>2
        <4> QED
          BY <3>2, <4>1, <4>2 DEF Roused
      <3> QED
        BY <3>1, <3>2 DEF Blocked
    <2>3. box_sleeps
      BY <2>2 DEF IInv, Announced
    <2>4. ~in_active
      BY DEF Blocked, IInv, InHand
    <2> QED
      BY <2>3, <2>4 DEF IInv, Flags, TypeOK, Counts
  <1> QED
    BY <1>1, Invariance, PTL
=============================================================================
