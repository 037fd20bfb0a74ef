-------------------------------- MODULE Fifo --------------------------------
(***************************************************************************)
(* What a ypipe_t promises its two users (ypipe.hpp): a queue of flushed   *)
(* items that one thread extends and another one consumes in order, and a  *)
(* flag saying whether the reader has been told that there is nothing to   *)
(* read.  The writer that flushes into a sleeping pipe clears the flag and *)
(* learns about it: flush() returns false to exactly that writer.          *)
(***************************************************************************)
EXTENDS Naturals, Sequences

CONSTANT Values

VARIABLES
    queue,      \* flushed items nobody has read yet, oldest first
    asleep,     \* the reader was told the queue is empty
    delivered   \* everything the reader has got, oldest first

vars == <<queue, asleep, delivered>>

Init ==
    /\ queue = <<>>
    /\ asleep = FALSE
    /\ delivered = <<>>

\* flush(): a batch of complete items becomes visible at once, and whoever
\* made it visible knows whether the reader slept.
Flush ==
    /\ \E k \in 1 .. Len(queue') : SubSeq(queue', 1, Len(queue') - k) = queue
    /\ asleep' = FALSE
    /\ UNCHANGED delivered

\* read(): the oldest flushed item.
Read ==
    /\ queue # <<>>
    /\ delivered' = Append(delivered, Head(queue))
    /\ queue' = Tail(queue)
    /\ UNCHANGED asleep

\* check_read() returning false: only an empty queue puts the reader to sleep.
Sleep ==
    /\ queue = <<>>
    /\ asleep' = TRUE
    /\ UNCHANGED <<queue, delivered>>

Next == Flush \/ Read \/ Sleep

Spec == Init /\ [][Next]_vars
=============================================================================
