------------------------------- MODULE Poller -------------------------------
(***************************************************************************)
(* The event loop of an I/O thread: poller_base_t (timers and load) and    *)
(* its six implementations, epoll_t, poll_t, select_t, kqueue_t, devpoll_t *)
(* and pollset_t (each chosen at build time).  A poller is used by one     *)
(* thread only, so what can go wrong is reentrancy: a callback that the    *)
(* loop makes adds and removes descriptors, changes what they are polled   *)
(* for, and adds and cancels timers while the loop walks over its list of  *)
(* reported events or over its map of timers.                              *)
(*                                                                         *)
(* A registration is a number, given by add_fd and never used again; a     *)
(* descriptor number is reused as soon as it is free, as the kernel does.  *)
(* `want` is what the objects asked for; the rest is the poller's own      *)
(* data.  A timer is known by an id, standing for the pair (sink, id).     *)
(***************************************************************************)
EXTENDS Integers, FiniteSets, SequencesExt

CONSTANTS Kinds,      \* the implementations to check
          Fds,        \* descriptor numbers, 1..n
          MaxReg,     \* bound: registrations made in a run
          TimerIds,   \* the timers of the objects of this thread
          Timeouts,   \* the timeouts they ask for
          MaxNow,     \* bound: how far the clock goes
          MaxOps,     \* bound: calls made by the callbacks of a run
          Rearmed     \* may one timer's callback cancel a timer that fired and
                      \* was added again in the same pass?

VARIABLES p,          \* the poller
          want,       \* [Fds -> [reg, ev]]: the registrations, reg = 0: none
          armed,      \* timers added and neither fired nor cancelled
          now, ops,
          odd         \* what happened that no object asked for

vars == <<p, want, armed, now, ops, odd>>

retired_fd == 0
Events == {"in", "out"}

(***************************************************************************)
(* The members of the poller: pe is the heap of poll_entry_t (epoll,       *)
(* kqueue, pollset), list the pollset of poll_t and the fd_entries of      *)
(* select_t, fd_table the tables indexed by descriptor, kernel the set the *)
(* operating system keeps.                                                 *)
(***************************************************************************)
poller_t(kind) ==
    [kind |-> kind,
     pe |-> [r \in 1..MaxReg |-> [fd |-> retired_fd, ev |-> {}, freed |-> FALSE]],
     retired |-> {},
     list |-> <<>>, has_retired |-> FALSE, max_fd |-> retired_fd,
     fd_table |-> [f \in Fds |-> [index |-> retired_fd, reg |-> 0, ev |-> {},
                                  valid |-> FALSE, accepted |-> FALSE]],
     pending |-> {},
     kernel |-> [f \in Fds |-> [reg |-> 0, ev |-> {}]],
     load |-> 0, stopping |-> FALSE, regs |-> 0,
     timers |-> <<>>, it |-> 0, current |-> 0, res |-> 0, deadline |-> 0,
     pc |-> "loop", back |-> "loop", batch |-> <<>>, stage |-> 1]

Load(q, n) == [q EXCEPT !.load = @ + n]
Kernel(q, fd, r, ev) == [q EXCEPT !.kernel[fd] = [reg |-> r, ev |-> ev]]
Unwatched(q, fd) == Kernel(q, fd, 0, {})

\* epoll_t: one heap entry for a registration, which the kernel hands back
epoll_add_fd(q, fd, r) ==
    Load(Kernel([q EXCEPT !.pe[r].fd = fd], fd, r, {}), 1)
epoll_rm_fd(q, r) ==
    Load(Unwatched([q EXCEPT !.pe[r].fd = retired_fd, !.retired = @ \cup {r}],
                   q.pe[r].fd), -1)
epoll_poll(q, r, ev) ==
    Kernel([q EXCEPT !.pe[r].ev = ev], q.pe[r].fd, r, ev)

\* kqueue_t: as epoll_t, but the kernel knows the filters that are set only
kqueue_add_fd(q, fd, r) == Load([q EXCEPT !.pe[r].fd = fd], 1)
kqueue_rm_fd(q, r) ==
    Load(Unwatched([q EXCEPT !.pe[r] = [@ EXCEPT !.fd = retired_fd],
                             !.retired = @ \cup {r}], q.pe[r].fd), -1)
kqueue_poll(q, r, ev) ==
    Kernel([q EXCEPT !.pe[r].ev = ev], q.pe[r].fd, IF ev = {} THEN 0 ELSE r, ev)

\* pollset_t: the kernel hands back the descriptor, fd_table gives the entry.
\* A reset deletes the descriptor and puts back what is left of its events.
pollset_add_fd(q, fd, r) ==
    Load(Kernel([q EXCEPT !.pe[r].fd = fd, !.fd_table[fd].reg = r], fd, r, {}), 1)
pollset_rm_fd(q, r) ==
    LET fd == q.pe[r].fd IN
    Load(Unwatched([q EXCEPT !.fd_table[fd].reg = 0, !.pe[r].fd = retired_fd,
                             !.retired = @ \cup {r}], fd), -1)
pollset_poll(q, r, ev) ==
    Kernel([q EXCEPT !.pe[r].ev = ev], q.pe[r].fd,
           IF ev = {} /\ q.pe[r].ev # {} THEN 0 ELSE r, ev)

\* devpoll_t: a table by descriptor; a new one is not accepted before the
\* next turn of the loop
devpoll_add_fd(q, fd, r) ==
    Load(Kernel([q EXCEPT !.fd_table[fd] = [@ EXCEPT !.reg = r, !.ev = {},
                                              !.valid = TRUE, !.accepted = FALSE],
                          !.pending = @ \cup {fd}], fd, r, {}), 1)
devpoll_rm_fd(q, fd) ==
    Load(Unwatched([q EXCEPT !.fd_table[fd].valid = FALSE], fd), -1)
devpoll_poll(q, fd, ev) ==
    Kernel([q EXCEPT !.fd_table[fd].ev = ev], fd, q.fd_table[fd].reg, ev)

\* poll_t: the pollset is an array, fd_table gives the index in it
poll_add_fd(q, fd, r) ==
    Load([q EXCEPT !.list = Append(@, [fd |-> fd, reg |-> r, ev |-> {}, revents |-> {}]),
                   !.fd_table[fd] = [@ EXCEPT !.index = Len(q.list) + 1, !.reg = r]], 1)
poll_rm_fd(q, fd) ==
    Load([q EXCEPT !.list[q.fd_table[fd].index].fd = retired_fd,
                   !.fd_table[fd].index = retired_fd, !.has_retired = TRUE], -1)
poll_poll(q, fd, ev) == [q EXCEPT !.list[q.fd_table[fd].index].ev = ev]

\* select_t: an array of entries and three sets of descriptors (the kernel's
\* field stands for them: a member of it is in the error set)
select_entry(q, fd) == CHOOSE i \in 1..Len(q.list) : q.list[i].fd = fd
select_add_fd(q, fd, r) ==
    Load(Kernel([q EXCEPT !.list = Append(@, [fd |-> fd, reg |-> r, ev |-> {},
                                              revents |-> {}]),
                          !.max_fd = IF fd > @ THEN fd ELSE @], fd, r, {}), 1)
select_max_fd(list) == Max({retired_fd} \cup {list[i].fd : i \in 1..Len(list)})
select_rm_fd(q, fd) ==
    LET list == [q.list EXCEPT ![select_entry(q, fd)].fd = retired_fd] IN
    Load(Unwatched([q EXCEPT !.list = list, !.has_retired = TRUE,
                             !.max_fd = IF fd = @ THEN select_max_fd(list) ELSE @],
                   fd), -1)
select_poll(q, fd, ev) == Kernel(q, fd, q.kernel[fd].reg, ev)

add_fd(q, fd, r) ==
    CASE q.kind = "epoll"   -> epoll_add_fd(q, fd, r)
      [] q.kind = "kqueue"  -> kqueue_add_fd(q, fd, r)
      [] q.kind = "pollset" -> pollset_add_fd(q, fd, r)
      [] q.kind = "devpoll" -> devpoll_add_fd(q, fd, r)
      [] q.kind = "poll"    -> poll_add_fd(q, fd, r)
      [] q.kind = "select"  -> select_add_fd(q, fd, r)

\* A handle is the entry or the descriptor, according to the implementation.
rm_fd(q, fd, r) ==
    CASE q.kind = "epoll"   -> epoll_rm_fd(q, r)
      [] q.kind = "kqueue"  -> kqueue_rm_fd(q, r)
      [] q.kind = "pollset" -> pollset_rm_fd(q, r)
      [] q.kind = "devpoll" -> devpoll_rm_fd(q, fd)
      [] q.kind = "poll"    -> poll_rm_fd(q, fd)
      [] q.kind = "select"  -> select_rm_fd(q, fd)

\* set_pollin, reset_pollin, set_pollout and reset_pollout: the events the
\* descriptor is polled for become ev
set_poll(q, fd, r, ev) ==
    CASE q.kind = "epoll"   -> epoll_poll(q, r, ev)
      [] q.kind = "kqueue"  -> kqueue_poll(q, r, ev)
      [] q.kind = "pollset" -> pollset_poll(q, r, ev)
      [] q.kind = "devpoll" -> devpoll_poll(q, fd, ev)
      [] q.kind = "poll"    -> poll_poll(q, fd, ev)
      [] q.kind = "select"  -> select_poll(q, fd, ev)

-----------------------------------------------------------------------------
(***************************************************************************)
(* Timers: a multimap from expiration to timer; a new one goes behind      *)
(* those that expire at the same time.                                     *)
(***************************************************************************)
add_timer(q, timeout, id) ==
    LET at == now + timeout
        k == Cardinality({i \in 1..Len(q.timers) : q.timers[i].at <= at})
    IN  [q EXCEPT !.timers = InsertAt(@, k + 1, [at |-> at, id |-> id])]

\* The entry that cancel_timer erases: the first one of this sink and id.
Found(q, id) == CHOOSE i \in 1..Len(q.timers) :
                    /\ q.timers[i].id = id
                    /\ \A j \in 1..(i - 1) : q.timers[j].id # id

\* In a pass of execute_timers `it` is the entry that is being looked at, and
\* entry 1 is `begin` until the pass erases what it has fired.
InPass(q) == q.it > 0
cancel_timer(q, id) ==
    LET i == Found(q, id) IN
    [q EXCEPT !.timers = RemoveAt(@, i),
              !.it = IF InPass(q) /\ i < @ THEN @ - 1 ELSE @]

\* Erasing an entry the pass holds an iterator to is undefined behaviour.
Dangling(q, id) == InPass(q) /\ (Found(q, id) = q.it \/ Found(q, id) = 1)

-----------------------------------------------------------------------------
(***************************************************************************)
(* The loop.  cleanup_retired belongs to poll_t and select_t; the others   *)
(* destroy their retired entries when the reported events are worked off.  *)
(***************************************************************************)
poll_cleanup_retired(q) ==
    IF ~q.has_retired THEN q ELSE
    LET list == SelectSeq(q.list, LAMBDA e : e.fd # retired_fd)
        index(f) == IF \E i \in 1..Len(list) : list[i].fd = f
                    THEN CHOOSE i \in 1..Len(list) : list[i].fd = f
                    ELSE q.fd_table[f].index
    IN  [q EXCEPT !.list = list, !.has_retired = FALSE,
                  !.fd_table = [f \in Fds |-> [@[f] EXCEPT !.index = index(f)]]]

select_cleanup_retired(q) ==
    IF ~q.has_retired THEN q ELSE
    [q EXCEPT !.list = SelectSeq(@, LAMBDA e : e.fd # retired_fd), !.has_retired = FALSE]

destroy_retired(q) ==
    [q EXCEPT !.pe = [r \in 1..MaxReg |->
                         IF r \in q.retired THEN [@[r] EXCEPT !.freed = TRUE] ELSE @[r]],
              !.retired = {}]

cleanup_retired(q) ==
    CASE q.kind = "poll"   -> poll_cleanup_retired(q)
      [] q.kind = "select" -> select_cleanup_retired(q)
      [] OTHER -> q

\* What the operating system watches: interest and, for an error, presence.
Watched(q) ==
    CASE q.kind = "poll" -> {q.list[i].fd : i \in 1..Len(q.list)} \ {retired_fd}
      [] q.kind = "select" -> {f \in Fds : q.kernel[f].reg # 0 /\ f <= q.max_fd}
      [] OTHER -> {f \in Fds : q.kernel[f].reg # 0}
Interest(q, f) ==
    IF q.kind = "poll"
    THEN (CHOOSE e \in ToSet(q.list) : e.fd = f).ev
    ELSE q.kernel[f].ev

\* An event as the kernel hands it over: the descriptor, the registration it
\* was made under (the pointer that epoll and kqueue return), what is ready.
Report(q, f, ev) == [fd |-> f, reg |-> want[f].reg, ev |-> ev]

\* kqueue reports one filter at a time, the others all that is ready.
Reports(q, f) ==
    {Report(q, f, ev) : ev \in
        {e \in SUBSET (Interest(q, f) \cup {"err"}) :
            /\ e # {}
            /\ q.kind = "kqueue" => e \cap Events # {} /\ Cardinality(e \cap Events) = 1}}

\* What the kernel may hand over: one or two events (two are enough for the
\* first to remove the second), in the order of the array for poll and select,
\* in any order for the others.
Place(q, f) == CHOOSE i \in 1..Len(q.list) : q.list[i].fd = f
Batches(q) ==
    LET one == UNION {Reports(q, f) : f \in Watched(q)} IN
    {<<a>> : a \in one} \cup
    {s \in one \X one :
        CASE q.kind = "kqueue" -> s[1].ev \cap s[2].ev \cap Events = {} \/ s[1].fd # s[2].fd
          [] q.kind \in {"poll", "select"} -> Place(q, s[1].fd) < Place(q, s[2].fd)
          [] OTHER -> s[1].fd # s[2].fd}

\* A plausible slip: entries retired during the pass are not skipped.
epoll_sink_any(q, e) == e.reg

(***************************************************************************)
(* Whom a reported event is delivered to, 0 when it is skipped.  epoll and *)
(* kqueue look at the entry, which may be retired by now; pollset and      *)
(* devpoll look the descriptor up; poll and select find the entry in the   *)
(* array, where a retired one has no descriptor.                           *)
(***************************************************************************)
epoll_sink(q, e) == IF q.pe[e.reg].fd = retired_fd THEN 0 ELSE e.reg
kqueue_sink(q, e) == IF q.pe[e.reg].fd = retired_fd THEN 0 ELSE e.reg
pollset_sink(q, e) == q.fd_table[e.fd].reg
devpoll_sink(q, e) ==
    IF q.fd_table[e.fd].valid /\ q.fd_table[e.fd].accepted
    THEN q.fd_table[e.fd].reg ELSE 0
poll_sink(q, e) ==
    IF \E i \in 1..Len(q.list) : q.list[i].fd = e.fd /\ q.list[i].reg = e.reg
    THEN q.fd_table[e.fd].reg ELSE 0
select_sink(q, e) ==
    IF \E i \in 1..Len(q.list) : q.list[i].fd = e.fd /\ q.list[i].reg = e.reg
    THEN e.reg ELSE 0

sink(q, e) ==
    CASE q.kind = "epoll"   -> epoll_sink(q, e)
      [] q.kind = "kqueue"  -> kqueue_sink(q, e)
      [] q.kind = "pollset" -> pollset_sink(q, e)
      [] q.kind = "devpoll" -> devpoll_sink(q, e)
      [] q.kind = "poll"    -> poll_sink(q, e)
      [] q.kind = "select"  -> select_sink(q, e)

\* The order of the three tests: an error first, but last in select_t.
Stages(q) == IF q.kind = "select" THEN <<"in", "out", "err">> ELSE <<"err", "out", "in">>

-----------------------------------------------------------------------------
Register(q, fd) == add_fd([q EXCEPT !.regs = @ + 1], fd, q.regs + 1)

\* io_thread_t's constructor: the mailbox is polled for input before start
Init ==
    /\ \E kind \in Kinds : p = set_poll(Register(poller_t(kind), 1), 1, 1, {"in"})
    /\ want = [f \in Fds |-> IF f = 1 THEN [reg |-> 1, ev |-> {"in"}]
                                      ELSE [reg |-> 0, ev |-> {}]]
    /\ armed = {} /\ now = 0 /\ ops = 0 /\ odd = {}

\* The top of the loop, up to the first timer that is due.
execute_timers(q) ==
    IF q.timers = <<>> THEN [q EXCEPT !.res = 0, !.pc = "check"]
    ELSE [q EXCEPT !.current = now, !.it = 1, !.pc = "timers"]

devpoll_accept(q) ==
    [q EXCEPT !.fd_table = [f \in Fds |-> [@[f] EXCEPT !.accepted = @ \/ f \in q.pending]],
              !.pending = {}]

Turn ==
    /\ p.pc = "loop"
    /\ p' = IF p.stopping THEN [p EXCEPT !.pc = "done"]
            ELSE execute_timers(IF p.kind = "devpoll" THEN devpoll_accept(p) ELSE p)
    /\ UNCHANGED <<want, armed, now, ops, odd>>

Due(q) == q.it <= Len(q.timers) /\ q.timers[q.it].at <= q.current
FireTimer ==
    /\ p.pc = "timers" /\ Due(p)
    /\ p' = [p EXCEPT !.pc = "callback", !.back = "timers"]
    /\ LET id == p.timers[p.it].id IN
       /\ odd' = IF id \in armed THEN odd ELSE odd \cup {"timer"}
       /\ armed' = armed \ {id}
    /\ UNCHANGED <<want, now, ops>>

\* A plausible slip: the poller waits for ever although timers are left.
EndPass_forever ==
    /\ p.pc = "timers" /\ ~Due(p)
    /\ p' = [p EXCEPT !.res = 0, !.timers = SubSeq(@, p.it, Len(@)), !.it = 0, !.current = 0, !.pc = "check"]
    /\ UNCHANGED <<want, armed, now, ops, odd>>

EndPass ==
    /\ p.pc = "timers" /\ ~Due(p)
    /\ p' = [p EXCEPT !.res = IF p.it > Len(p.timers) THEN 0
                              ELSE p.timers[p.it].at - p.current,
                      !.timers = SubSeq(@, p.it, Len(@)), !.it = 0,
                      !.current = 0, !.pc = "check"]
    /\ UNCHANGED <<want, armed, now, ops, odd>>

\* Stop when nothing is registered, turn again when only timers are, or wait.
Empty(q) == CASE q.kind \in {"epoll", "kqueue"} -> q.load = 0
              [] q.kind \in {"poll", "select"} -> q.list = <<>>
              [] OTHER -> FALSE
Again(q) == [q EXCEPT !.pc = "loop", !.stage = 1, !.res = 0, !.deadline = 0]
loop_check(q) ==
    CASE ~Empty(q) -> [q EXCEPT !.pc = "wait", !.deadline = Min({now + q.res, MaxNow})]
      [] Empty(q) /\ q.res = 0 -> [q EXCEPT !.pc = "done"]
      [] OTHER -> Again(q)
Check ==
    /\ p.pc = "check"
    /\ p' = loop_check(cleanup_retired(p))
    /\ UNCHANGED <<want, armed, now, ops, odd>>

\* The end of a turn of the loop.
loop_end(q) ==
    CASE q.kind \in {"epoll", "kqueue", "pollset"} -> Again(destroy_retired(q))
      [] q.kind = "select" -> Again(select_cleanup_retired(q))
      [] OTHER -> Again(q)

WaitEvents ==
    /\ p.pc = "wait"
    /\ \E b \in Batches(p) : p' = [p EXCEPT !.batch = b, !.pc = "dispatch", !.res = 0, !.deadline = 0]
    /\ UNCHANGED <<want, armed, now, ops, odd>>
WaitTimeout ==
    /\ p.pc = "wait" /\ p.res > 0 /\ now >= p.deadline
    /\ p' = loop_end(p)
    /\ UNCHANGED <<want, armed, now, ops, odd>>
WaitInterrupted ==
    /\ p.pc = "wait"
    /\ p' = Again(p)
    /\ UNCHANGED <<want, armed, now, ops, odd>>

Asked(q) == {k \in q.stage..3 : Stages(q)[k] \in Head(q.batch).ev}
Skips(q) == sink(q, Head(q.batch)) = 0 \/ Asked(q) = {}
Reads(q) == q.kind \in {"epoll", "kqueue"} /\ q.pe[Head(q.batch).reg].freed

\* in_event or out_event of the object a reported event belongs to
Deliver ==
    /\ p.pc = "dispatch" /\ p.batch # <<>> /\ ~Skips(p)
    /\ LET e == Head(p.batch) r == sink(p, e) IN
       odd' = odd \cup (IF Reads(p) THEN {"freed"} ELSE {})
                  \cup (IF \E f \in Fds : want[f].reg = r THEN {} ELSE {"dead"})
                  \cup (IF r = e.reg THEN {} ELSE {"stale"})
    /\ p' = [p EXCEPT !.stage = Min(Asked(p)) + 1, !.pc = "callback", !.back = "dispatch"]
    /\ UNCHANGED <<want, armed, now, ops>>

Skip ==
    /\ p.pc = "dispatch" /\ p.batch # <<>> /\ Skips(p)
    /\ odd' = odd \cup (IF Reads(p) THEN {"freed"} ELSE {})
    /\ p' = [p EXCEPT !.batch = Tail(@), !.stage = 1]
    /\ UNCHANGED <<want, armed, now, ops>>

EndBatch ==
    /\ p.pc = "dispatch" /\ p.batch = <<>>
    /\ p' = loop_end(p)
    /\ UNCHANGED <<want, armed, now, ops, odd>>

-----------------------------------------------------------------------------
(***************************************************************************)
(* What a callback does: any of the poller's calls, for any object of the  *)
(* thread (commands reach them all through the mailbox), then it returns.  *)
(***************************************************************************)
Calling == p.pc = "callback" /\ ~p.stopping /\ ops < MaxOps /\ ops' = ops + 1

AddFd == \E fd \in Fds :
    /\ Calling /\ want[fd].reg = 0 /\ p.regs < MaxReg
    /\ p' = Register(p, fd)
    /\ want' = [want EXCEPT ![fd] = [reg |-> p.regs + 1, ev |-> {}]]
    /\ UNCHANGED <<armed, now, odd>>

RmFd == \E fd \in Fds :
    /\ Calling /\ want[fd].reg # 0
    /\ p' = rm_fd(p, fd, want[fd].reg)
    /\ want' = [want EXCEPT ![fd] = [reg |-> 0, ev |-> {}]]
    /\ UNCHANGED <<armed, now, odd>>

SetPoll == \E fd \in Fds, e \in Events :
    /\ Calling /\ want[fd].reg # 0
    /\ LET ev == IF e \in want[fd].ev THEN want[fd].ev \ {e} ELSE want[fd].ev \cup {e} IN
       /\ p' = set_poll(p, fd, want[fd].reg, ev)
       /\ want' = [want EXCEPT ![fd].ev = ev]
    /\ UNCHANGED <<armed, now, odd>>

AddTimer == \E id \in TimerIds \ armed, t \in Timeouts :
    /\ Calling /\ now + t <= MaxNow
    /\ p' = add_timer(p, t, id)
    /\ armed' = armed \cup {id}
    /\ UNCHANGED <<want, now, odd>>

CancelTimer == \E id \in armed :
    /\ Calling
    /\ \/ ~\E i \in 1..p.it : p.timers[i].id = id
       \/ Rearmed /\ InPass(p) /\ p.timers[p.it].id # id
    /\ p' = cancel_timer(p, id)
    /\ armed' = armed \ {id}
    /\ odd' = IF Dangling(p, id) THEN odd \cup {"iterator"} ELSE odd
    /\ UNCHANGED <<want, now>>

Stop ==
    /\ p.pc = "callback" /\ p.kind \in {"devpoll", "pollset"} /\ ~p.stopping
    /\ armed = {} /\ \A f \in Fds : want[f].reg = 0
    /\ p' = [p EXCEPT !.stopping = TRUE]
    /\ UNCHANGED <<want, armed, now, ops, odd>>

Return ==
    /\ p.pc = "callback"
    /\ p' = [p EXCEPT !.pc = p.back, !.back = "loop", !.it = IF p.back = "timers" THEN @ + 1 ELSE @]
    /\ UNCHANGED <<want, armed, now, ops, odd>>

\* The clock is only read when there are timers.
Tick ==
    /\ now < MaxNow /\ p.timers # <<>>
    /\ now' = now + 1
    /\ UNCHANGED <<p, want, armed, ops, odd>>

Loop == \/ Turn \/ FireTimer \/ EndPass \/ Check \/ WaitTimeout
        \/ Deliver \/ Skip \/ EndBatch \/ Return
Next == \/ Loop \/ WaitEvents \/ WaitInterrupted
        \/ AddFd \/ RmFd \/ SetPoll \/ AddTimer \/ CancelTimer \/ Stop
        \/ Tick

\* The thread runs, a callback returns, and time goes by.
Fairness == WF_vars(Loop) /\ WF_vars(Tick)
Spec == Init /\ [][Next]_vars /\ Fairness

-----------------------------------------------------------------------------
\* The loop makes no call that nobody asked for: an event goes to the object
\* it was reported for, which is still registered, no destroyed entry is read
\* (the retired lists, the accepted flag), and a timer that fires is one that
\* was added and not cancelled.  pollset_t looks a reported descriptor up by
\* number, so one that is removed and reused within a batch gets the event of
\* its predecessor: for it only that is left out.
CallsWanted == odd \subseteq (IF p.kind = "pollset" THEN {"stale"} ELSE {})

\* A timer that was cancelled does not fire, and execute_timers does not go on
\* with an iterator to an entry that cancel_timer erased (poller_base.cpp).
CancelledIsQuiet == odd \cap {"timer", "iterator"} = {}

\* The poller's tables stay true to what the objects asked for: a descriptor is
\* watched for the events that were set (in poll_t through an index that
\* cleanup_retired moves, in select_t below max_fd), the load is the number of
\* registrations, and the loop is left only when nothing is registered.
RegistrationsKept ==
    /\ \A f \in Fds : want[f].ev # {} => f \in Watched(p) /\ Interest(p, f) = want[f].ev
    /\ p.kind = "poll" => \A f \in Fds : want[f].reg # 0 =>
                              p.list[p.fd_table[f].index].fd = f
    /\ p.load = Cardinality({f \in Fds : want[f].reg # 0})
    /\ p.pc = "done" => p.load = 0 /\ armed = {} /\ p.timers = <<>>

\* Both: the loop's calls and the tables behind them.
PollerRight == CallsWanted /\ RegistrationsKept

\* A timer that is added fires, unless it is cancelled: the loop never waits
\* without a timeout while a timer is left (execute_timers' result).
EveryTimerFires == \A id \in TimerIds : []<>(id \notin armed)
=============================================================================
