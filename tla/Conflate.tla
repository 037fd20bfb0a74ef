------------------------------ MODULE Conflate ------------------------------
(***************************************************************************)
(* ypipe_conflate_t (ypipe_conflate.hpp) and its dbuffer_t (dbuffer.hpp):  *)
(* the queue of a socket with ZMQ_CONFLATE.  The writer moves a message    *)
(* into the back buffer and swaps the buffers if it gets the lock at once; *)
(* the reader takes the lock for each of its operations.  Messages are     *)
(* numbered in the order in which they are written.                        *)
(***************************************************************************)
EXTENDS Naturals, Sequences

CONSTANT MaxWrites      \* bound: messages written

VARIABLES
    back, front,    \* the two buffers: a message, or 0 for an empty one
    has_msg,        \* _has_msg
    holder,         \* who holds _sync: "none", "writer" or "reader"
    wpc,            \* writer: "idle", "lock" (message moved), "swap", "flush"
    rpc,            \* reader: "idle" (passive), "active", "check", "found", "read"
    signals,        \* activate_read commands on the way
    written, shown, \* history: last message written, last one swapped in
    got             \* history: messages read

vars == <<back, front, has_msg, holder, wpc, rpc, signals, written, shown, got>>

Init ==
    /\ back = 0 /\ front = 0
    /\ has_msg = FALSE
    /\ holder = "none"
    /\ wpc = "idle" /\ rpc = "active"
    /\ signals = 0
    /\ written = 0 /\ shown = 0 /\ got = <<>>

(* dbuffer_t::write: what the back buffer held is closed by the move.      *)
Write ==
    /\ wpc = "idle" /\ written < MaxWrites
    /\ written' = written + 1
    /\ back' = written + 1
    /\ wpc' = "lock"
    /\ UNCHANGED <<front, has_msg, holder, rpc, signals, shown, got>>

(* try_lock: a writer that does not get the lock gives up.                 *)
TryLock ==
    /\ wpc = "lock"
    /\ IF holder = "none" THEN holder' = "writer" /\ wpc' = "swap"
                          ELSE wpc' = "flush" /\ UNCHANGED holder
    /\ UNCHANGED <<back, front, has_msg, rpc, signals, written, shown, got>>

Swap ==
    /\ wpc = "swap"
    /\ back' = front /\ front' = back
    /\ shown' = back
    /\ has_msg' = TRUE
    /\ holder' = "none"
    /\ wpc' = "flush"
    /\ UNCHANGED <<rpc, signals, written, got>>

(* flush() always says that the reader sleeps: pipe_t::flush wakes it.     *)
Flush ==
    /\ wpc = "flush"
    /\ signals' = signals + 1
    /\ wpc' = "idle"
    /\ UNCHANGED <<back, front, has_msg, holder, rpc, written, shown, got>>

(* check_read(): under the lock; a reader that finds nothing is passive    *)
(* until it is woken (pipe_t::_in_active).                                 *)
CheckLock ==
    /\ rpc = "active" /\ holder = "none"
    /\ holder' = "reader"
    /\ rpc' = "check"
    /\ UNCHANGED <<back, front, has_msg, wpc, signals, written, shown, got>>

CheckRead ==
    /\ rpc = "check"
    /\ holder' = "none"
    /\ rpc' = IF has_msg THEN "found" ELSE "idle"
    /\ UNCHANGED <<back, front, has_msg, wpc, signals, written, shown, got>>

ReadLock ==
    /\ rpc = "found" /\ holder = "none"
    /\ holder' = "reader"
    /\ rpc' = "read"
    /\ UNCHANGED <<back, front, has_msg, wpc, signals, written, shown, got>>

\* A plausible slip in Read.
ReadKeepsFront ==
    /\ rpc = "read"
    /\ got' = Append(got, front)
    /\ has_msg' = has_msg
    /\ holder' = "none"
    /\ rpc' = "active"
    /\ UNCHANGED <<back, front, wpc, signals, written, shown>>

(* read(): the front buffer is left empty.                                 *)
Read ==
    /\ rpc = "read"
    /\ got' = Append(got, front)
    /\ front' = 0
    /\ has_msg' = FALSE
    /\ holder' = "none"
    /\ rpc' = "active"
    /\ UNCHANGED <<back, wpc, signals, written, shown>>

(* The reader handles commands between its calls, never within one.        *)
Woken ==
    /\ signals > 0 /\ rpc \notin {"check", "read"}
    /\ signals' = signals - 1
    /\ rpc' = IF rpc = "idle" THEN "active" ELSE rpc
    /\ UNCHANGED <<back, front, has_msg, holder, wpc, written, shown, got>>

Next == Write \/ TryLock \/ Swap \/ Flush \/ CheckLock \/ CheckRead \/ ReadLock \/ Read \/ Woken

Spec == Init /\ [][Next]_vars

(* A reader gets messages in the order in which they were written, no      *)
(* message twice and no empty one although the buffers are swapped while   *)
(* it reads; what it finds is the newest message that was swapped in; and  *)
(* a message that is there does not wait for a reader that nobody wakes.   *)
ConflatedInOrder ==
    /\ \A i \in DOMAIN got : got[i] > IF i = 1 THEN 0 ELSE got[i - 1]
    /\ has_msg => front = shown
    /\ has_msg /\ rpc = "idle" => signals > 0 \/ wpc = "flush"

(* doc/zmq_setsockopt.txt on ZMQ_CONFLATE: "a socket shall keep only one   *)
(* message in its inbound/outbound queue, this message being the last      *)
(* message received/the last message to be sent".  When both sides are at  *)
(* rest the last message written was read or can be read.                  *)
LastIsKept ==
    wpc = "idle" /\ rpc = "idle" /\ signals = 0 /\ written > 0 =>
        (has_msg /\ front = written) \/ (got # <<>> /\ got[Len(got)] = written)
=============================================================================
