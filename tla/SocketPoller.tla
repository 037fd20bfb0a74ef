---------------------------- MODULE SocketPoller ----------------------------
(***************************************************************************)
(* socket_poller_t and zmq_poll: an application thread waits for sockets   *)
(* and raw descriptors.  The poller keeps a list of items and, rebuilt on  *)
(* demand, the set it hands to poll () or select (), in which a socket     *)
(* stands with its mailbox descriptor and all thread-safe sockets together *)
(* with one signaler; a raw descriptor's item remembers its place.  The    *)
(* objects are numbers: the descriptor they are polled by, or the name of  *)
(* a thread-safe socket.                                                   *)
(***************************************************************************)
EXTENDS Integers, FiniteSets, SequencesExt

CONSTANTS Sockets, SafeSockets, RawFds, \* disjoint sets of numbers
          SignalerFd,                   \* the signaler's descriptor: another number
          Bases,                        \* "poll", "select": how the library is built
          Muted,                        \* may a raw descriptor be added for no event?
          MaxItems                      \* bound: items registered at a time

VARIABLES s,      \* the poller
          odd     \* answers that do not fit the question

vars == <<s, odd>>

Objects == Sockets \cup SafeSockets \cup RawFds
Events == {"in", "out"}
is_thread_safe(o) == o \in SafeSockets

\* The members of socket_poller_t; signalled is the set of sockets that hold
\* its signaler.
socket_poller_t(base) ==
    [base |-> base, items |-> <<>>, need_rebuild |-> FALSE, use_signaler |-> FALSE,
     pollfds |-> <<>>, max_fd |-> 0, signalled |-> {}]

item_t(o, ev) == [obj |-> o, events |-> ev, index |-> 0]
Has(p, o) == \E i \in DOMAIN p.items : p.items[i].obj = o
Where(p, o) == CHOOSE i \in DOMAIN p.items : p.items[i].obj = o

\* The set is not looked at again before it is rebuilt.
outdated(p) == [p EXCEPT !.need_rebuild = TRUE, !.use_signaler = FALSE,
                         !.pollfds = <<>>, !.max_fd = 0]

add(p, o, ev) ==
    IF Has(p, o) THEN p
    ELSE [outdated(p) EXCEPT !.items = Append(@, item_t(o, ev)),
                             !.signalled = IF is_thread_safe(o) THEN @ \cup {o} ELSE @]
add_fd(p, o, ev) ==
    IF Has(p, o) THEN p ELSE [outdated(p) EXCEPT !.items = Append(@, item_t(o, ev))]

\* A plausible slip: the poll set is not built again.
modify_kept(p, o, ev) == IF ~Has(p, o) THEN p ELSE [p EXCEPT !.items[Where(p, o)].events = ev]

modify(p, o, ev) ==
    IF ~Has(p, o) THEN p ELSE [outdated(p) EXCEPT !.items[Where(p, o)].events = ev]
modify_fd(p, o, ev) == modify(p, o, ev)

remove_fd(p, o) == IF ~Has(p, o) THEN p ELSE [outdated(p) EXCEPT !.items = RemoveAt(@, Where(p, o))]
remove(p, o) == [remove_fd(p, o) EXCEPT !.signalled = @ \ {o}]

\* zmq_poller_add() and zmq_poller_add_fd(), and so on.
zmq_poller_add(p, o, ev) == IF o \in RawFds THEN add_fd(p, o, ev) ELSE add(p, o, ev)
zmq_poller_modify(p, o, ev) == IF o \in RawFds THEN modify_fd(p, o, ev) ELSE modify(p, o, ev)
zmq_poller_remove(p, o) == IF o \in RawFds THEN remove_fd(p, o) ELSE remove(p, o)

\* The items that have a place of their own in the set, in their order.
Own(p) == SelectSeq(p.items, LAMBDA i : i.events # {} /\ ~is_thread_safe(i.obj))
Signaled(p) == \E i \in DOMAIN p.items :
                   p.items[i].events # {} /\ is_thread_safe(p.items[i].obj)

rebuild_poll(p) ==
    LET first == IF Signaled(p) THEN <<SignalerFd>> ELSE <<>>
        own == Own(p)
        place(o) == Len(first) + (CHOOSE i \in DOMAIN own : own[i].obj = o)
    IN  [p EXCEPT !.need_rebuild = FALSE, !.use_signaler = Signaled(p),
                  !.pollfds = first \o [i \in DOMAIN own |-> own[i].obj],
                  !.items = [i \in DOMAIN p.items |->
                      IF p.items[i].events # {} /\ p.items[i].obj \in RawFds
                      THEN [p.items[i] EXCEPT !.index = place(p.items[i].obj)]
                      ELSE p.items[i]]]

rebuild_select(p) ==
    LET own == Own(p) IN
    [p EXCEPT !.need_rebuild = FALSE, !.use_signaler = Signaled(p),
              !.pollfds = (IF Signaled(p) THEN <<SignalerFd>> ELSE <<>>)
                          \o [i \in DOMAIN own |-> own[i].obj],
              !.max_fd = Max({0} \cup {own[i].obj : i \in DOMAIN own})]

rebuild(p) == IF p.base = "poll" THEN rebuild_poll(p) ELSE rebuild_select(p)

\* What poll () or select () says of a raw descriptor that is asked for ev: an
\* error is always reported by poll (), here never asked for from select ().
Revents(p, ev, ready) ==
    (ready \cap ev) \cup (IF p.base = "poll" THEN ready \cap {"err"} ELSE {})

\* check_events: what is found for item i.  poll () is asked through the place
\* the item remembers; an item that never had one reads outside of the array.
Asked(p, o) == (CHOOSE i \in ToSet(p.items) : i.obj = o).events
Slot(p, k, ready) ==
    LET o == p.pollfds[k] IN
    CASE o = SignalerFd -> {}
      [] o \in RawFds -> Revents(p, Asked(p, o), ready[o])
      [] OTHER -> ready[o] \cap {"in"}
Found(p, it, ready) ==
    CASE it.obj \notin RawFds -> it.events \cap ready[it.obj]
      [] it.obj \in RawFds /\ p.base = "select" -> Revents(p, it.events, ready[it.obj])
      [] it.obj \in RawFds /\ p.base = "poll" ->
            IF it.index \in DOMAIN p.pollfds THEN Slot(p, it.index, ready) ELSE {"unknown"}

check_events(p, n, ready) ==
    LET all == SelectSeq([i \in DOMAIN p.items |->
                             [obj |-> p.items[i].obj, events |-> Found(p, p.items[i], ready)]],
                         LAMBDA e : e.events # {})
    IN  SubSeq(all, 1, Min({n, Len(all)}))

\* wait: the poller after it, and its answer (none: EAGAIN)
refreshed(p) == IF p.need_rebuild THEN rebuild(p) ELSE p
wait(p, n, ready) ==
    IF refreshed(p).pollfds = <<>> THEN <<>> ELSE check_events(refreshed(p), n, ready)

-----------------------------------------------------------------------------
(***************************************************************************)
(* zmq_poll asks for a list of items, in which an object may be repeated:  *)
(* on poll () or select () directly or, if a socket is thread-safe, on a   *)
(* poller of its own, with repeated items registered once for the events   *)
(* of all and the answers handed back to each.                             *)
(***************************************************************************)
Repeats(its) == \E i, j \in DOMAIN its : i # j /\ its[i].obj = its[j].obj
Together(its, i) == UNION {its[j].events : j \in {k \in 1..i : its[k].obj = its[i].obj}}
AllTogether(its, i) == UNION {its[j].events : j \in {k \in DOMAIN its : its[k].obj = its[i].obj}}

\* poll () has an entry for each item, select () one bit for a descriptor and
\* an event, whichever item has asked for it.
zmq_poll_poll(its, ready) ==
    [i \in DOMAIN its |->
        IF its[i].obj \in RawFds THEN Revents([base |-> "poll"], its[i].events, ready[its[i].obj])
        ELSE its[i].events \cap ready[its[i].obj]]

zmq_poll_select(its, ready) ==
    [i \in DOMAIN its |->
        IF its[i].obj \in RawFds THEN Revents([base |-> "select"], AllTogether(its, i), ready[its[i].obj])
        ELSE its[i].events \cap ready[its[i].obj]]

register(p, its) ==
    FoldLeft(LAMBDA q, i : IF Has(q, its[i].obj) THEN zmq_poller_modify(q, its[i].obj, Together(its, i))
                           ELSE zmq_poller_add(q, its[i].obj, its[i].events),
             p, [i \in DOMAIN its |-> i])

\* Without repeats items and answers are in the same order, and an item only
\* looks at the first answer that is not taken yet.
Taken(its, ans, i) ==
    FoldLeft(LAMBDA j, k : IF j <= Len(ans) /\ ans[j].obj = its[k].obj THEN j + 1 ELSE j,
             1, [k \in 1..(i - 1) |-> k])
answer(its, ans, i) ==
    LET at == IF Repeats(its)
              THEN {j \in DOMAIN ans : ans[j].obj = its[i].obj}
              ELSE {j \in DOMAIN ans : j = Taken(its, ans, i) /\ ans[j].obj = its[i].obj}
    IN  IF at = {} THEN {} ELSE ans[Min(at)].events \cap its[i].events

zmq_poller_poll(base, its, ready) ==
    LET ans == wait(register(socket_poller_t(base), its), Len(its), ready)
    IN  [i \in DOMAIN its |-> answer(its, ans, i)]

zmq_poll(base, its, ready) ==
    IF \E i \in DOMAIN its : is_thread_safe(its[i].obj)
    THEN zmq_poller_poll(base, its, ready)
    ELSE IF base = "poll" THEN zmq_poll_poll(its, ready) ELSE zmq_poll_select(its, ready)

-----------------------------------------------------------------------------
Init == (\E base \in Bases : s = socket_poller_t(base)) /\ odd = {}

\* Items for no event are legal (zmq_poller.txt).
Asks(o) == {ev \in SUBSET Events : ev # {} \/ Muted \/ o \notin RawFds}

AddItem == \E o \in Objects : \E ev \in Asks(o) :
    /\ Len(s.items) < MaxItems
    /\ s' = zmq_poller_add(s, o, ev) /\ UNCHANGED odd
ModifyItem == \E o \in Objects : \E ev \in Asks(o) :
    /\ s' = zmq_poller_modify(s, o, ev) /\ UNCHANGED odd
RemoveItem == \E o \in Objects : s' = zmq_poller_remove(s, o) /\ UNCHANGED odd

\* One pass of wait, over any state of the objects that are asked for.
Ready(objs) == {r \in [objs -> SUBSET (Events \cup {"err"})] :
                   \A o \in objs : "err" \in r[o] => o \in RawFds /\ r[o] = {"err"}}
Right(p, n, ready, ans) ==
    /\ \A j \in DOMAIN ans :
        ans[j].events \subseteq ready[ans[j].obj] \cap (Asked(p, ans[j].obj) \cup {"err"})
    /\ Len(ans) < n => \A i \in DOMAIN p.items :
        p.items[i].events \cap ready[p.items[i].obj] # {} =>
            \E j \in DOMAIN ans : ans[j].obj = p.items[i].obj
Wait == \E ready \in Ready({i.obj : i \in ToSet(s.items)}), n \in {1, MaxItems} :
    /\ s.items # <<>>
    /\ s' = refreshed(s)
    /\ odd' = IF Right(s, n, ready, wait(s, n, ready)) THEN odd ELSE odd \cup {"wait"}

\* zmq_poll leaves nothing behind.  Every item gets the events it asks for that
\* are there, and no others, unless select () is asked for a descriptor twice.
Items == UNION {[1..k -> [obj : Objects, events : SUBSET Events]] : k \in 1..2}
Poll == \E its \in Items : \E ready \in Ready({i.obj : i \in ToSet(its)}) :
    /\ s.items = <<>>
    /\ \A i \in DOMAIN its : its[i].events \in Asks(its[i].obj)
    /\ odd' = IF \A i \in DOMAIN its :
                    LET ans == zmq_poll(s.base, its, ready)[i] \cap Events
                        own == its[i].events \cap ready[its[i].obj]
                    IN  IF s.base = "select" THEN own = ans \cap its[i].events /\ ans \subseteq AllTogether(its, i)
                        ELSE ans = own
              THEN odd ELSE odd \cup {"poll"}
    /\ UNCHANGED s

Next == AddItem \/ ModifyItem \/ RemoveItem \/ Wait \/ Poll
Spec == Init /\ [][Next]_vars

-----------------------------------------------------------------------------
\* zmq_poller_wait and zmq_poll report what was asked for and is there: an item
\* is reported with events it asked for and that its own object has, and
\* nothing that is ready is left out while there is room for an answer.  The
\* items' places in the set move with every rebuild.
PollReports == odd = {}

\* select () looks at the descriptors up to max_fd only (on POSIX systems:
\* Windows ignores its first argument).
Watched(p, fd) == fd \in ToSet(p.pollfds) /\ (p.base = "select" => fd <= p.max_fd)
Asking(p) == {i \in ToSet(p.items) : i.events # {}}

\* Once rebuilt the set holds a descriptor for everything that is asked for,
\* where poll () or select () looks at it, and exactly the thread-safe sockets
\* of the list hold the signaler.  rebuild does not count the signaler into
\* max_fd: with select () thread-safe sockets are watched if, and only if,
\* another descriptor that is asked for is above the signaler's.
EverythingWatched ==
    /\ ~s.need_rebuild => \A i \in Asking(s) :
        IF is_thread_safe(i.obj)
        THEN Watched(s, SignalerFd) <=>
                 (s.base = "select" => \E k \in Asking(s) : ~is_thread_safe(k.obj) /\ k.obj > SignalerFd)
        ELSE Watched(s, i.obj)
    /\ s.signalled = {i.obj : i \in ToSet(s.items)} \cap SafeSockets

\* Both: what is asked for is watched and reported.
SocketPollerRight == PollReports /\ EverythingWatched
=============================================================================
