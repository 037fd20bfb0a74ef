----------------------------- MODULE PipeArray -----------------------------
(***************************************************************************)
(* array_t (array.hpp), the list of pipes behind lb_t, fq_t and dist_t, as *)
(* a sequence.  Positions are those of the code and start at zero.         *)
(***************************************************************************)
EXTENDS Naturals, Sequences

At(a, i) == a[i + 1]

\* array_t::index()
Index(a, p) == (CHOOSE i \in 1 .. Len(a) : a[i] = p) - 1

Has(a, p) == \E i \in 1 .. Len(a) : a[i] = p

\* array_t::swap()
Swap(a, i, j) == [a EXCEPT ![i + 1] = a[j + 1], ![j + 1] = a[i + 1]]

\* array_t::erase(): the last item takes the place of the erased one.
Erase(a, p) ==
    LET last == Len(a) - 1
    IN  SubSeq(Swap(a, Index(a, p), last), 1, last)

\* The loops of lb_t and fq_t: while the pipe at `current` refuses, it changes
\* places with the last of the first `active` ones and is not active any more;
\* a loop that runs out of the list starts over at its beginning.  So the pipe
\* at `current` is visited first, then those behind it from the last one on,
\* then the first one, and then the others from the last one on.
Visits(active, current) ==
    [i \in 1 .. active |-> IF i = 1 THEN current
                           ELSE IF i <= active - current THEN active - i + 1
                           ELSE IF i = active - current + 1 THEN 0
                           ELSE active - i + 1]

Visited(l, i) == At(l.pipes, Visits(l.active, l.current)[i])

\* The first visit that finds one of the `takers`, or one more than there are.
Stop(l, takers) ==
    CHOOSE k \in 1 .. l.active + 1 :
        /\ k <= l.active => Visited(l, k) \in takers
        /\ \A i \in 1 .. k - 1 : Visited(l, i) \notin takers

\* After k visits those that refused are behind the active ones, in that order,
\* and the one that did not takes the place the loop has stopped at.
Stopped(l, k) ==
    LET active == l.active - (k - 1)
        current == IF k <= l.active - l.current THEN l.current ELSE 0
    IN  [pipes |-> [j \in 1 .. Len(l.pipes) |->
                        IF j > l.active \/ (j <= active /\ j # current + 1) THEN l.pipes[j]
                        ELSE Visited(l, IF j > active THEN l.active - j + 1 ELSE k)],
         active |-> active,
         current |-> current]

Settle(l, takers) == Stopped(l, Stop(l, takers))
=============================================================================
