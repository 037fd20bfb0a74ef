------------------------------ MODULE YQueue ------------------------------
(***************************************************************************)
(* ypipe_t on its real queue, yqueue_t (yqueue.hpp).                       *)
(*                                                                         *)
(* YPipe speaks of positions that only grow.  The code compares addresses: *)
(* slots of chunks of N values, which are recycled - the chunk the reader  *)
(* has emptied becomes the spare chunk that the writer takes before it     *)
(* allocates one.  This module has the chunks, their links, the spare      *)
(* chunk and the pointers of ypipe_t as addresses, and shows that they     *)
(* implement YPipe although an address comes back again and again.  The    *)
(* spare chunk and _c are what the two threads share.                      *)
(***************************************************************************)
EXTENDS Integers, Sequences, FiniteSets

CONSTANTS
    N,             \* values per chunk
    Chunks,        \* addresses of chunks
    Values, Incomplete,
    MaxItems,      \* bound: values written and not taken back, in all
    PollingReader  \* as in YPipe

Null == 0

VARIABLES
    mem,       \* chunk -> [values, prev, next]; the chunks not in its domain
               \* are free memory
    begin,     \* _begin_chunk, _begin_pos: the reader's
    end,       \* _end_chunk, _end_pos: the writer's
    back,      \* _back_chunk, _back_pos: the writer's
    spare,     \* _spare_chunk
    left,      \* the chunk the reader has just left, in pop()
    w, f, r, c,        \* the pointers of ypipe_t: addresses of slots or NULL
    wpc, rpc, owed, signals,       \* as in YPipe
    items, received    \* history: what was written, what was read

queueVars == <<mem, begin, end, back, spare, left>>
vars == <<mem, begin, end, back, spare, left, w, f, r, c, wpc, rpc, owed, signals,
          items, received>>

Slot(chunk, pos) == [chunk |-> chunk, pos |-> pos]
NULL == Slot(Null, 0)

Linked(prev) == [values |-> [i \in 0 .. N - 1 |-> Null], prev |-> prev, next |-> Null]
Put(m, k, ch) == [x \in DOMAIN m \cup {k} |-> IF x = k THEN ch ELSE m[x]]
free(m, k) == [x \in DOMAIN m \ {k} |-> m[x]]

(* allocate_chunk: memory that is not in use.                              *)
allocate_chunk == Chunks \ (DOMAIN mem \cup {spare, left})

(* yqueue_t() and ypipe_t(): one chunk, one element, the pointers at it.   *)
Init ==
    /\ \E k \in Chunks :
         /\ mem = Put(<<>>, k, Linked(Null))
         /\ begin = Slot(k, 0) /\ back = Slot(k, 0) /\ end = Slot(k, 1)
         /\ w = Slot(k, 0) /\ f = Slot(k, 0) /\ r = Slot(k, 0) /\ c = Slot(k, 0)
    /\ spare = Null /\ left = Null
    /\ wpc = "ready" /\ rpc = "awake" /\ owed = 0 /\ signals = 0
    /\ items = <<>> /\ received = <<>>

-----------------------------------------------------------------------------
(* The writer *)

(* push(): the back element is where the end was, the end moves on.  The   *)
(* spare chunk keeps its old next pointer until the end moves past it.     *)
push(m) ==
    /\ back' = end
    /\ IF end.pos + 1 # N
       THEN /\ end' = Slot(end.chunk, end.pos + 1)
            /\ mem' = m
            /\ UNCHANGED spare
       ELSE \E k \in IF spare # Null THEN {spare} ELSE allocate_chunk :
            /\ mem' = [Put(m, k, IF k = spare THEN [m[k] EXCEPT !.prev = end.chunk]
                                             ELSE Linked(end.chunk))
                         EXCEPT ![end.chunk].next = k]
            /\ end' = Slot(k, 0)
            /\ spare' = Null

Write(v) ==
    /\ wpc = "ready" /\ Len(items) < MaxItems
    /\ push([mem EXCEPT ![back.chunk].values[back.pos] = v])
    /\ f' = IF v \in Incomplete THEN f ELSE back'
    /\ items' = Append(items, v)
    /\ UNCHANGED <<begin, left, w, r, c, wpc, rpc, owed, signals, received>>

\* A plausible slip: the back position stays in its chunk.
unpush_within ==
    /\ back' = IF back.pos # 0 THEN Slot(back.chunk, back.pos - 1) ELSE Slot(back.chunk, N - 1)
    /\ IF end.pos # 0
       THEN end' = Slot(end.chunk, end.pos - 1) /\ UNCHANGED mem
       ELSE LET p == mem[end.chunk].prev
            IN /\ end' = Slot(p, N - 1)
               /\ mem' = [free(mem, mem[p].next) EXCEPT ![p].next = Null]

(* unpush(): back and end move back; an end chunk that was left is freed.  *)
unpush ==
    /\ back' = IF back.pos # 0 THEN Slot(back.chunk, back.pos - 1)
                               ELSE Slot(mem[back.chunk].prev, N - 1)
    /\ IF end.pos # 0
       THEN end' = Slot(end.chunk, end.pos - 1) /\ UNCHANGED mem
       ELSE LET p == mem[end.chunk].prev
            IN /\ end' = Slot(p, N - 1)
               /\ mem' = [free(mem, mem[p].next) EXCEPT ![p].next = Null]

Unwrite ==
    /\ wpc = "ready" /\ f # back
    /\ unpush
    /\ items' = SubSeq(items, 1, Len(items) - 1)
    /\ UNCHANGED <<begin, spare, left, w, f, r, c, wpc, rpc, owed, signals, received>>

FlushCas ==
    /\ wpc = "ready" /\ w # f
    /\ IF c = w THEN c' = f /\ w' = f /\ UNCHANGED wpc
                ELSE wpc' = "set" /\ UNCHANGED <<c, w>>
    /\ UNCHANGED <<queueVars, f, r, rpc, owed, signals, items, received>>

FlushSet ==
    /\ wpc = "set"
    /\ c' = f /\ w' = f
    /\ wpc' = "ready"
    /\ owed' = owed + 1
    /\ UNCHANGED <<queueVars, f, r, rpc, signals, items, received>>

Wake ==
    /\ owed > 0
    /\ owed' = owed - 1
    /\ signals' = signals + 1
    /\ UNCHANGED <<queueVars, w, f, r, c, wpc, rpc, items, received>>

-----------------------------------------------------------------------------
(* The reader *)

MayCheck == left = Null /\ (rpc = "awake" \/ (PollingReader /\ rpc = "asleep"))

CheckPrefetched ==
    /\ MayCheck
    /\ begin # r /\ r # NULL
    /\ rpc' = "have"
    /\ UNCHANGED <<queueVars, w, f, r, c, wpc, owed, signals, items, received>>

CheckCas ==
    /\ MayCheck
    /\ ~ (begin # r /\ r # NULL)
    /\ r' = c
    /\ c' = IF c = begin THEN NULL ELSE c
    /\ rpc' = IF c \in {begin, NULL} THEN "asleep" ELSE "have"
    /\ UNCHANGED <<queueVars, w, f, wpc, owed, signals, items, received>>

(* read(): copy the front and pop(); a chunk that is used up is left.      *)
Read ==
    /\ rpc = "have"
    /\ received' = Append(received, mem[begin.chunk].values[begin.pos])
    /\ rpc' = "awake"
    /\ IF begin.pos + 1 # N
       THEN begin' = Slot(begin.chunk, begin.pos + 1) /\ UNCHANGED <<mem, left>>
       ELSE LET k == mem[begin.chunk].next
            IN /\ begin' = Slot(k, 0)
               /\ mem' = [mem EXCEPT ![k].prev = Null]
               /\ left' = begin.chunk
    /\ UNCHANGED <<end, back, spare, w, f, r, c, wpc, owed, signals, items>>

\* A plausible slip: the chunk that was spare is not freed.
PopXchg_leaks ==
    /\ left # Null
    /\ spare' = left
    /\ left' = Null
    /\ UNCHANGED <<mem, begin, end, back, w, f, r, c, wpc, rpc, owed, signals, items, received>>

(* The end of pop(): the chunk becomes the spare one, the old one is freed. *)
PopXchg ==
    /\ left # Null
    /\ spare' = left
    /\ mem' = free(mem, spare)
    /\ left' = Null
    /\ UNCHANGED <<begin, end, back, w, f, r, c, wpc, rpc, owed, signals, items, received>>

Woken ==
    /\ signals > 0 /\ left = Null
    /\ rpc = "asleep" \/ (PollingReader /\ rpc = "awake")
    /\ signals' = signals - 1
    /\ rpc' = "awake"
    /\ UNCHANGED <<queueVars, w, f, r, c, wpc, owed, items, received>>

-----------------------------------------------------------------------------
Next ==
    \/ \E v \in Values : Write(v)
    \/ Unwrite \/ FlushCas \/ FlushSet \/ Wake
    \/ CheckPrefetched \/ CheckCas \/ Read \/ PopXchg \/ Woken

Spec == Init /\ [][Next]_vars

-----------------------------------------------------------------------------
(* Properties *)

(* The chunks from the reader's to the writer's, in the order of the links *)
(* (at most n of them).                                                    *)
RECURSIVE ChainFrom(_, _)
ChainFrom(k, n) ==
    IF k \notin DOMAIN mem \/ n = 0 THEN <<>>
    ELSE IF k = end.chunk THEN <<k>>
    ELSE <<k>> \o ChainFrom(mem[k].next, n - 1)

Chain == ChainFrom(begin.chunk, Cardinality(Chunks) + 1)

(* The chunks between the reader and the writer form one chain, linked in  *)
(* both directions where unpush may follow; together with the spare chunk  *)
(* and the one the reader is leaving they are all that is allocated.  So   *)
(* no thread uses a chunk the other has freed, none is freed twice or      *)
(* lost, and the spare is never one in use (yqueue.hpp, push, unpush, pop).*)
ChunksAccounted ==
    LET ch == Chain
    IN /\ Len(ch) <= Cardinality(Chunks)
       /\ ch[Len(ch)] = end.chunk
       /\ \A i \in 2 .. Len(ch) : mem[ch[i]].prev = ch[i - 1]
       /\ DOMAIN mem = {ch[i] : i \in DOMAIN ch} \cup ({spare, left} \ {Null})
       /\ {spare, left} \cap {ch[i] : i \in DOMAIN ch} = {}
       /\ spare = Null \/ spare # left
       /\ back.chunk \in {ch[i] : i \in DOMAIN ch}

(* The position that a slot stands for: how far it is from the front.      *)
Pos(s) ==
    IF s = NULL THEN -1
    ELSE LET i == CHOOSE j \in 1 .. Len(Chain) : Chain[j] = s.chunk
         IN Len(received) + N * (i - 1) + s.pos - begin.pos

(* The addresses behave as the positions of YPipe, for which the order of  *)
(* the pointers, the delivery and the wake-ups are proved: recycling       *)
(* chunks never makes two different positions compare equal.               *)
Positions == INSTANCE YPipe WITH
    front <- Len(received),
    w <- Pos(w), f <- Pos(f), r <- Pos(r), c <- Pos(c)

ImplementsYPipe == Positions!Spec
=============================================================================
