-------------------------------- MODULE Dist --------------------------------
(***************************************************************************)
(* dist_t (dist.cpp): the list of outbound pipes of a PUB, XPUB or XSUB    *)
(* socket, as operators on a record of its members.  The list is           *)
(*                                                                         *)
(*    matching | active | eligible | passive                               *)
(*                                                                         *)
(* each boundary being a count: the pipes the message goes to; those it    *)
(* may go to; those that would take a message but must wait for the next   *)
(* one to begin; and those that have refused one.                          *)
(***************************************************************************)
EXTENDS PipeArray, SequencesExt

NewDist == [pipes |-> <<>>, matching |-> 0, active |-> 0, eligible |-> 0, more |-> FALSE]

\* The pipes before a boundary.
First(d, n) == {d.pipes[i] : i \in 1 .. n}

\* dist_t::attach(): a pipe that comes in the middle of a message waits.
dist_attach(d, p) ==
    LET q == Append(d.pipes, p)
        place == IF d.more THEN d.eligible ELSE d.active
    IN  [d EXCEPT !.pipes = Swap(q, place, Len(q) - 1),
                  !.active = IF d.more THEN @ ELSE @ + 1,
                  !.eligible = @ + 1]

\* dist_t::match()
dist_match(d, p) ==
    LET i == Index(d.pipes, p)
    IN  IF i < d.matching \/ i >= d.eligible THEN d
        ELSE [d EXCEPT !.pipes = Swap(@, i, d.matching), !.matching = @ + 1]

\* dist_t::reverse_match(): the eligible pipes that did not match move to the
\* front, one by one.
dist_reverse_match(d) ==
    LET rest == [k \in 1 .. (d.eligible - d.matching) |-> d.matching + k - 1]
    IN  FoldLeft(LAMBDA e, i : [e EXCEPT !.pipes = Swap(@, i, e.matching), !.matching = @ + 1],
                 [d EXCEPT !.matching = 0], rest)

dist_unmatch(d) == [d EXCEPT !.matching = 0]

\* Move pipe p behind a boundary if it is before it.
Leave(a, n, p) == IF Index(a, p) < n THEN Swap(a, Index(a, p), n - 1) ELSE a
Fewer(a, n, p) == IF Index(a, p) < n THEN n - 1 ELSE n

\* dist_t::pipe_terminated()
dist_pipe_terminated(d, p) ==
    LET a == Leave(d.pipes, d.matching, p)
        b == Leave(a, d.active, p)
        c == Leave(b, d.eligible, p)
    IN  [d EXCEPT !.pipes = Erase(c, p),
                  !.matching = Fewer(d.pipes, @, p),
                  !.active = Fewer(a, @, p),
                  !.eligible = Fewer(b, @, p)]

\* dist_t::activated(): a passive pipe has room again.
dist_activated(d, p) ==
    LET e == IF d.eligible < Len(d.pipes)
             THEN [d EXCEPT !.pipes = Swap(@, Index(d.pipes, p), d.eligible), !.eligible = @ + 1]
             ELSE d
    IN  IF ~e.more /\ e.active < Len(e.pipes)
        THEN [e EXCEPT !.pipes = Swap(@, e.eligible - 1, e.active), !.active = @ + 1]
        ELSE e

\* dist_t::write() on a pipe that refuses: it becomes passive.
dist_refused(d, p) ==
    LET a == Swap(d.pipes, Index(d.pipes, p), d.matching - 1)
        b == Swap(a, Index(a, p), d.active - 1)
    IN  [d EXCEPT !.pipes = Swap(b, d.active - 1, d.eligible - 1),
                  !.matching = @ - 1, !.active = @ - 1, !.eligible = @ - 1]

\* dist_t::distribute(): every matching pipe is tried once, and `takers` are
\* those that take the message.  A refusal puts another pipe at the same place,
\* so the loop stays there.  What matches at the end are the pipes that took it.
dist_distribute(d, takers) ==
    LET try[n \in 0 .. d.matching] ==
            IF n = 0 THEN [dist |-> d, i |-> 0]
            ELSE LET s == try[n - 1]
                     p == At(s.dist.pipes, s.i)
                 IN  IF p \in takers THEN [s EXCEPT !.i = @ + 1]
                     ELSE [s EXCEPT !.dist = dist_refused(@, p)]
    IN  try[d.matching].dist

\* dist_t::send_to_matching(): the last part makes the eligible pipes active.
dist_send_to_matching(d, takers, m) ==
    LET e == dist_distribute(d, takers)
    IN  [e EXCEPT !.active = IF m THEN @ ELSE e.eligible, !.more = m]

\* dist_t::send_to_all()
dist_send_to_all(d, takers, m) ==
    dist_send_to_matching([d EXCEPT !.matching = d.active], takers, m)

\* The order of the boundaries; between two messages nobody waits.
DistOrdered(d) ==
    /\ d.matching <= d.active /\ d.active <= d.eligible /\ d.eligible <= Len(d.pipes)
    /\ ~d.more => d.active = d.eligible
=============================================================================
