------------------------------- MODULE YPipe -------------------------------
(***************************************************************************)
(* ypipe_t (ypipe.hpp), the lock-free single-writer single-reader queue    *)
(* under every mailbox and every message pipe.                             *)
(*                                                                         *)
(* A slot of the queue is a position; the slot at position p holds         *)
(* items[p + 1], back() is the terminator slot at position Len(items).     *)
(* The pointers _w, _f, _r and _c are positions or NULL.  Only _c is       *)
(* shared, so every access to _c is a step of its own; what a thread does  *)
(* to its own pointers between two accesses is merged into one of them.    *)
(***************************************************************************)
EXTENDS Integers, Sequences

CONSTANTS
    Values,         \* what can be written
    Incomplete,     \* the values written as incomplete: parts of a message
                    \* that more parts follow
    MaxItems,       \* bound: slots filled at any time
    PollingReader   \* TRUE: the reader retries without being woken
                    \* (mailbox_safe_t::recv, draining a dying pipe);
                    \* FALSE: it waits for the writer's wake-up
                    \* (mailbox_t::recv, pipe_t with _in_active)

ASSUME YPipeAssumption ==
    /\ MaxItems \in Nat
    /\ Incomplete \subseteq Values
    /\ PollingReader \in BOOLEAN

NULL == -1

VARIABLES
    items,      \* every slot pushed and not unpushed, popped ones included
    front,      \* position of _queue.front()
    w,          \* _w: first un-flushed slot
    f,          \* _f: first slot that must not be flushed yet
    r,          \* _r: first un-prefetched slot
    c,          \* _c: past the last flushed slot, NULL when the reader sleeps
    wpc,        \* writer: "ready", or "set" between a failed CAS and _c.set
    rpc,        \* reader: "awake", "have" (check_read said yes), "asleep"
    owed,       \* flush() calls that returned false and whose caller has not
                \* yet woken the reader
    signals,    \* wake-ups sent and not yet consumed
    received    \* history: the values read so far

writerVars == <<items, w, f, wpc>>
readerVars == <<front, r, rpc, received>>
vars == <<items, front, w, f, r, c, wpc, rpc, owed, signals, received>>

back == Len(items)

\* ypipe_t(): one terminator slot, all the pointers at it.
Init ==
    /\ items = <<>> /\ front = 0
    /\ w = 0 /\ f = 0 /\ r = 0 /\ c = 0
    /\ wpc = "ready" /\ rpc = "awake"
    /\ owed = 0 /\ signals = 0
    /\ received = <<>>

-----------------------------------------------------------------------------
(* The writer *)

\* write(): fill the terminator slot and push a new one; a complete item moves
\* the "flush up to here" pointer past everything written.
Write(v) ==
    /\ wpc = "ready" /\ back < MaxItems
    /\ items' = Append(items, v)
    /\ f' = IF v \in Incomplete THEN f ELSE back + 1
    /\ UNCHANGED <<readerVars, w, c, wpc, owed, signals>>

\* unwrite(): takes back the last slot of an incomplete item.
Unwrite ==
    /\ wpc = "ready" /\ f # back
    /\ items' = SubSeq(items, 1, back - 1)
    /\ UNCHANGED <<readerVars, w, f, c, wpc, owed, signals>>

\* A plausible slip in FlushCas.
FlushAsIfAwake ==
    /\ wpc = "ready" /\ w # f
    /\ c' = f /\ w' = f
    /\ UNCHANGED <<readerVars, items, f, wpc, owed, signals>>

\* flush() up to the CAS on _c; when there is nothing to flush it returns.
FlushCas ==
    /\ wpc = "ready" /\ w # f
    /\ \/ /\ c = w
          /\ c' = f /\ w' = f
          /\ UNCHANGED wpc
       \/ /\ c # w
          /\ wpc' = "set"
          /\ UNCHANGED <<c, w>>
    /\ UNCHANGED <<readerVars, items, f, owed, signals>>

\* A plausible slip in FlushSet.
FlushSetOldW ==
    /\ wpc = "set"
    /\ c' = w /\ w' = f
    /\ wpc' = "ready"
    /\ owed' = owed + 1
    /\ UNCHANGED <<readerVars, items, f, signals>>

\* flush() after the failed CAS: plain store to _c, return false.
FlushSet ==
    /\ wpc = "set"
    /\ c' = f /\ w' = f
    /\ wpc' = "ready"
    /\ owed' = owed + 1
    /\ UNCHANGED <<readerVars, items, f, signals>>

\* The caller of a flush() that returned false wakes the reader.  mailbox_t
\* does it after it has released its lock, so the pipe may be used in between.
Wake ==
    /\ owed > 0
    /\ owed' = owed - 1
    /\ signals' = signals + 1
    /\ UNCHANGED <<writerVars, readerVars, c>>

-----------------------------------------------------------------------------
(* The reader *)

MayCheck == rpc = "awake" \/ (PollingReader /\ rpc = "asleep")

\* check_read() answered by the slots prefetched earlier.
CheckPrefetched ==
    /\ MayCheck
    /\ front # r /\ r # NULL
    /\ rpc' = "have"
    /\ UNCHANGED <<writerVars, front, r, received, c, owed, signals>>

\* A plausible slip in CheckCas.
CheckCasBlind ==
    /\ MayCheck
    /\ ~ (front # r /\ r # NULL)
    /\ r' = c
    /\ c' = NULL
    /\ rpc' = IF c \in {front, NULL} THEN "asleep" ELSE "have"
    /\ UNCHANGED <<writerVars, front, received, owed, signals>>

\* check_read() that has to prefetch: CAS _c from front to NULL.
CheckCas ==
    /\ MayCheck
    /\ ~ (front # r /\ r # NULL)
    /\ r' = c
    /\ c' = IF c = front THEN NULL ELSE c
    /\ rpc' = IF c \in {front, NULL} THEN "asleep" ELSE "have"
    /\ UNCHANGED <<writerVars, front, received, owed, signals>>

\* read() once check_read() has said yes: copy the front slot and pop it.
Read ==
    /\ rpc = "have"
    /\ received' = Append(received, items[front + 1])
    /\ front' = front + 1
    /\ rpc' = "awake"
    /\ UNCHANGED <<writerVars, r, c, owed, signals>>

\* The wake-up reaches the reader; a polling reader takes it at any time.
Woken ==
    /\ signals > 0
    /\ rpc = "asleep" \/ (PollingReader /\ rpc = "awake")
    /\ signals' = signals - 1
    /\ rpc' = "awake"
    /\ UNCHANGED <<writerVars, front, r, received, c, owed>>

-----------------------------------------------------------------------------
Writer ==
    \/ \E v \in Values : Write(v)
    \/ Unwrite
    \/ FlushCas
    \/ FlushSet

Reader == CheckPrefetched \/ CheckCas \/ Read \/ Woken

Next == Writer \/ Wake \/ Reader

\* A thread inside flush(), or holding a wake-up it owes, is eventually
\* scheduled; the reader runs whenever it has something to do.
Fairness ==
    /\ WF_vars(FlushSet)
    /\ WF_vars(Wake)
    /\ WF_vars(CheckPrefetched \/ CheckCas \/ Read)
    /\ WF_vars(Woken)

Spec == Init /\ [][Next]_vars

FairSpec == Spec /\ Fairness

-----------------------------------------------------------------------------
(* Properties *)

\* Type invariant.
TypeOK ==
    /\ items \in Seq(Values) /\ received \in Seq(Values)
    /\ front \in Nat /\ w \in Nat /\ f \in Nat
    /\ r \in Nat \cup {NULL} /\ c \in Nat \cup {NULL}
    /\ wpc \in {"ready", "set"} /\ rpc \in {"awake", "have", "asleep"}
    /\ owed \in Nat /\ signals \in Nat

\* The reader has got exactly the slots before front, in the order in which
\* they were written, and all of them were flushed: write(), unwrite() and
\* flush() racing with read() lose, repeat, reorder or take back nothing the
\* reader can see (ypipe_t::read against ypipe_t::unwrite).
DeliveredInOrder ==
    /\ front <= w
    /\ w <= Len(items)
    /\ received = SubSeq(items, 1, front)

\* "Incomplete items are never flushed down the stream": what the reader can
\* see ends with the last part of a message, although write(), unwrite() and
\* flush() move two pointers over the parts one by one.
WholeItemsFlushed == w \in 1 .. Len(items) => items[w] \notin Incomplete

\* A slot the reader is about to copy is a flushed one, so the writer, which
\* only touches slots from _f on, is never in it: the unsynchronised accesses
\* to the queue's memory in write()/unwrite() and read() never meet.
NoSharedSlot ==
    rpc = "have" => front < r /\ r <= w /\ w <= f /\ f <= back

\* flush()'s comment: "Compare-and-swap was unseccessful because 'c' is NULL",
\* which is what makes its plain store to _c safe - and it stays true until
\* the store, although the reader may run check_read() in between.
PlainStoreIsSafe == wpc = "set" => c = NULL

\* A reader that waits for its wake-up is owed or sent one at most once, and
\* only while it sleeps or is about to: signaler_t and activate_read never see
\* two outstanding wake-ups for the same pipe.
AtMostOneWake ==
    ~PollingReader => owed + signals = IF rpc = "asleep" /\ c # NULL THEN 1 ELSE 0

\* A reader that was woken finds an item: the zmq_assert (ok) that follows the
\* read in mailbox_t::recv holds.
WokenFindsItem ==
    (~PollingReader /\ signals > 0) => c \notin {NULL, front}

\* No lost wake-up: whatever has been flushed is read in the end.
FlushedIsRead == \A n \in 1 .. MaxItems : []<>(w >= n => front >= n)

\* The inductive strengthening behind the invariants above: the pointers are
\* ordered front <= _r <= _w <= _f <= back, and _w and _f stand behind complete
\* items; _c is _w or NULL, and NULL only
\* while everything flushed has been read; a reader that waits for wake-ups is
\* asleep whenever _c is NULL and is owed exactly one once _c is not.
IInv ==
    /\ TypeOK
    /\ front <= w /\ w <= f /\ f <= back
    /\ r # NULL => front <= r /\ r <= w
    /\ \A p \in {w, f} \ {0} : items[p] \notin Incomplete
    /\ c \in {w, NULL}
    /\ c = NULL => front = w
    /\ wpc = "set" => c = NULL /\ w < f
    /\ rpc = "have" => r # NULL /\ front < r
    /\ Len(received) = front
    /\ \A i \in 1 .. front : received[i] = items[i]
    /\ ~PollingReader =>
          /\ c = NULL => rpc = "asleep"
          /\ rpc = "asleep" /\ c # NULL => front < w
          /\ AtMostOneWake

\* ypipe_t implements the queue of Fifo: the successful CAS and the plain
\* store are the points where a flush takes effect, the CAS to NULL is the
\* point where the reader falls asleep.
Abstract == INSTANCE Fifo WITH
    queue <- SubSeq(items, front + 1, w),
    asleep <- c = NULL,
    delivered <- received

ImplementsFifo == Abstract!Spec
=============================================================================
