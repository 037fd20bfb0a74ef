---------------------------- MODULE YPipeProofs ----------------------------
(***************************************************************************)
(* Proofs about ypipe_t for every set of values, every number of slots and *)
(* both kinds of reader: the inductive invariant IInv, the safety          *)
(* invariants that follow from it, and the refinement of Fifo.             *)
(***************************************************************************)
EXTENDS YPipe, SequenceTheorems, TLAPS

\* A prefix of a sequence, element by element.
LEMMA PrefixProperties ==
  ASSUME NEW S, NEW s \in Seq(S), NEW n \in 0 .. Len(s)
  PROVE  /\ SubSeq(s, 1, n) \in Seq(S)
         /\ Len(SubSeq(s, 1, n)) = n
         /\ \A i \in 1 .. n : SubSeq(s, 1, n)[i] = s[i]
  OBVIOUS

\* The constructor ypipe_t() establishes the inductive invariant.
LEMMA InitIInv == Init => IInv
  BY YPipeAssumption DEF Init, IInv, TypeOK, AtMostOneWake, NULL, back

\* Filling one more slot: write().
LEMMA WriteIInv ==
  ASSUME IInv, NEW v \in Values, Write(v)
  PROVE  IInv'
  <1> USE DEF IInv, TypeOK, NULL
  <1>1. /\ items' \in Seq(Values)
        /\ Len(items') = Len(items) + 1
        /\ \A i \in 1 .. Len(items) : items'[i] = items[i]
        /\ items'[Len(items) + 1] = v
    BY AppendProperties DEF Write
  <1>2. AtMostOneWake => AtMostOneWake'
    BY DEF Write, AtMostOneWake, readerVars
  <1> QED
    BY <1>1, <1>2 DEF Write, back, readerVars

\* Taking back a slot of an incomplete item: unwrite().
LEMMA UnwriteIInv == ASSUME IInv, Unwrite PROVE IInv'
  <1> USE DEF IInv, TypeOK, NULL
  <1>1. Len(items) > 0 /\ f <= Len(items) - 1
    BY DEF Unwrite, back
  <1>2. /\ items' \in Seq(Values)
        /\ Len(items') = Len(items) - 1
        /\ \A i \in 1 .. Len(items) - 1 : items'[i] = items[i]
    <2>1. items' = SubSeq(items, 1, Len(items) - 1)
      BY DEF Unwrite, back
    <2>2. items \in Seq(Values) /\ Len(items) - 1 \in 0 .. Len(items)
      BY <1>1
    <2> QED BY ONLY <2>1, <2>2, PrefixProperties
  <1>3. AtMostOneWake => AtMostOneWake'
    BY DEF Unwrite, AtMostOneWake, readerVars
  <1> QED
    BY <1>1, <1>2, <1>3 DEF Unwrite, back, readerVars

\* The two halves of flush().
LEMMA FlushIInv == ASSUME IInv, FlushCas \/ FlushSet PROVE IInv'
  <1> USE DEF IInv, TypeOK, NULL, AtMostOneWake, readerVars, back
  <1>1. CASE FlushCas
    BY <1>1 DEF FlushCas
  <1>2. CASE FlushSet
    BY <1>2 DEF FlushSet
  <1> QED BY <1>1, <1>2

\* The wake-up, sent and received.
LEMMA WakeIInv == ASSUME IInv, Wake \/ Woken PROVE IInv'
  <1> USE YPipeAssumption DEF IInv, TypeOK, NULL, AtMostOneWake, readerVars, writerVars, back
  <1>1. CASE Wake
    BY <1>1 DEF Wake
  <1>2. CASE Woken
    BY <1>2 DEF Woken
  <1> QED BY <1>1, <1>2

\* check_read(), with and without a prefetch.
LEMMA CheckIInv == ASSUME IInv, CheckPrefetched \/ CheckCas PROVE IInv'
  <1> USE YPipeAssumption DEF IInv, TypeOK, NULL, AtMostOneWake, writerVars, back, MayCheck
  <1>1. CASE CheckPrefetched
    BY <1>1 DEF CheckPrefetched
  <1>2. CASE CheckCas
    BY <1>2 DEF CheckCas
  <1> QED BY <1>1, <1>2

\* read() of a slot that check_read() has promised.
LEMMA ReadIInv == ASSUME IInv, Read PROVE IInv'
  <1> USE DEF IInv, TypeOK, NULL
  <1>1. front + 1 \in 1 .. Len(items)
    BY DEF Read, back
  <1>2. items[front + 1] \in Values
    BY <1>1, ElementOfSeq
  <1>3. /\ received' \in Seq(Values)
        /\ Len(received') = Len(received) + 1
        /\ \A i \in 1 .. Len(received) : received'[i] = received[i]
        /\ received'[Len(received) + 1] = items[front + 1]
    BY <1>2, AppendProperties DEF Read
  <1>4. \A i \in 1 .. front' : received'[i] = items'[i]
    BY <1>3 DEF Read, writerVars
  <1> QED
    BY <1>1, <1>3, <1>4 DEF Read, back, writerVars, AtMostOneWake

\* IInv is inductive.
LEMMA NextIInv == IInv /\ [Next]_vars => IInv'
  <1> SUFFICES ASSUME IInv, [Next]_vars PROVE IInv'
    OBVIOUS
  <1>1. CASE UNCHANGED vars
    BY <1>1 DEF vars, IInv, TypeOK, AtMostOneWake, back
  <1>2. CASE Writer
    BY <1>2, WriteIInv, UnwriteIInv, FlushIInv DEF Writer
  <1>3. CASE Wake
    BY <1>3, WakeIInv
  <1>4. CASE Reader
    BY <1>4, CheckIInv, ReadIInv, WakeIInv DEF Reader
  <1> QED BY <1>1, <1>2, <1>3, <1>4 DEF Next

\* The inductive invariant holds in every reachable state.
THEOREM Invariance == Spec => []IInv
  BY InitIInv, NextIInv, PTL DEF Spec

\* write(), flush(), check_read() and read() keep every variable in its type.
THEOREM TypeCorrect == Spec => []TypeOK
  <1>1. IInv => TypeOK
    BY DEF IInv
  <1> QED BY <1>1, Invariance, PTL

\* However the writer and the reader interleave, the reader gets exactly the
\* flushed items, in order.
THEOREM InOrder == Spec => []DeliveredInOrder
  <1>1. IInv => DeliveredInOrder
    <2> SUFFICES ASSUME IInv PROVE received = SubSeq(items, 1, front)
      BY DEF IInv, DeliveredInOrder, TypeOK, back
    <2> USE DEF IInv, TypeOK
    <2>1. front \in 0 .. Len(items)
      BY DEF back
    <2>2. /\ SubSeq(items, 1, front) \in Seq(Values)
          /\ Len(SubSeq(items, 1, front)) = front
          /\ \A i \in 1 .. front : SubSeq(items, 1, front)[i] = items[i]
      BY <2>1, PrefixProperties
    <2> QED BY <2>2, SeqEqual
  <1> QED BY <1>1, Invariance, PTL

\* No part of a message is visible to the reader before its last part is.
THEOREM WholeItems == Spec => []WholeItemsFlushed
  <1>1. IInv => WholeItemsFlushed
    BY DEF IInv, WholeItemsFlushed, TypeOK
  <1> QED BY <1>1, Invariance, PTL

\* write()/unwrite() and read() never touch the same slot.
THEOREM SlotsDisjoint == Spec => []NoSharedSlot
  <1>1. IInv => NoSharedSlot
    BY DEF IInv, NoSharedSlot, TypeOK
  <1> QED BY <1>1, Invariance, PTL

\* flush()'s plain store to _c is never concurrent with a CAS that succeeds.
THEOREM StoreSafe == Spec => []PlainStoreIsSafe
  <1>1. IInv => PlainStoreIsSafe
    BY DEF IInv, PlainStoreIsSafe
  <1> QED BY <1>1, Invariance, PTL

\* A reader that waits for wake-ups never has two of them outstanding.
THEOREM OneWake == Spec => []AtMostOneWake
  <1>1. IInv => AtMostOneWake
    BY DEF IInv, AtMostOneWake
  <1> QED BY <1>1, Invariance, PTL

\* The zmq_assert (ok) after the wake-up in mailbox_t::recv holds.
THEOREM WokenReads == Spec => []WokenFindsItem
  <1>1. IInv => WokenFindsItem
    BY YPipeAssumption DEF IInv, WokenFindsItem, AtMostOneWake, TypeOK, NULL
  <1> QED BY <1>1, Invariance, PTL

-----------------------------------------------------------------------------
(* Refinement of Fifo *)

\* Two sequences that agree on a window have the same window.
LEMMA SameWindow ==
  ASSUME NEW S, NEW s \in Seq(S), NEW t \in Seq(S), NEW m \in Nat \ {0}, NEW n \in Nat,
         n <= Len(s), n <= Len(t), \A i \in m .. n : s[i] = t[i]
  PROVE  SubSeq(s, m, n) = SubSeq(t, m, n)
  <1>1. /\ SubSeq(s, m, n) \in Seq(S) /\ SubSeq(t, m, n) \in Seq(S)
        /\ Len(SubSeq(s, m, n)) = Len(SubSeq(t, m, n))
        /\ \A i \in 1 .. Len(SubSeq(s, m, n)) : SubSeq(s, m, n)[i] = SubSeq(t, m, n)[i]
    OBVIOUS
  <1> QED BY <1>1, SeqEqual

\* The window shrinks at its end by dropping a suffix.
LEMMA WindowPrefix ==
  ASSUME NEW S, NEW s \in Seq(S), NEW m \in Nat \ {0}, NEW n \in Nat, NEW e \in Nat,
         m <= n + 1, n < e, e <= Len(s)
  PROVE  /\ Len(SubSeq(s, m, e)) = e - m + 1
         /\ SubSeq(SubSeq(s, m, e), 1, n - m + 1) = SubSeq(s, m, n)
  <1> DEFINE q == SubSeq(s, m, e)
  <1>1. q \in Seq(S) /\ Len(q) = e - m + 1 /\ \A i \in 1 .. Len(q) : q[i] = s[m + i - 1]
    OBVIOUS
  <1> HIDE DEF q
  <1>2. /\ SubSeq(q, 1, n - m + 1) \in Seq(S) /\ SubSeq(s, m, n) \in Seq(S)
        /\ Len(SubSeq(q, 1, n - m + 1)) = Len(SubSeq(s, m, n))
        /\ \A i \in 1 .. Len(SubSeq(s, m, n)) : SubSeq(q, 1, n - m + 1)[i] = SubSeq(s, m, n)[i]
    BY <1>1
  <1>3. SubSeq(q, 1, n - m + 1) = SubSeq(s, m, n)
    BY ONLY <1>2, SeqEqual
  <1> QED BY <1>1, <1>3 DEF q

\* Every step of ypipe_t is a step of Fifo, or changes nothing Fifo can see.
LEMMA StepSimulates ==
  ASSUME IInv, IInv', [Next]_vars
  PROVE  [Abstract!Next]_(Abstract!vars)
  <1> DEFINE q == SubSeq(items, front + 1, w)
  <1> USE DEF IInv, TypeOK, NULL
  <1>1. CASE UNCHANGED vars
    BY <1>1 DEF vars, Abstract!vars
  <1>2. ASSUME NEW v \in Values, Write(v)
        PROVE  UNCHANGED Abstract!vars
    <2>1. /\ items' \in Seq(Values) /\ w <= Len(items')
          /\ \A i \in front + 1 .. w : items'[i] = items[i]
      BY <1>2, AppendProperties DEF Write, back
    <2>2. SubSeq(items', front + 1, w) = q
      BY <2>1, SameWindow DEF back
    <2> QED BY <1>2, <2>2 DEF Write, readerVars, Abstract!vars
  <1>3. CASE Unwrite
    <2>1. /\ items' \in Seq(Values) /\ w <= Len(items')
          /\ \A i \in front + 1 .. w : items'[i] = items[i]
      <3>1. items' = SubSeq(items, 1, Len(items) - 1) /\ w <= Len(items) - 1 /\ Len(items) - 1 \in 0 .. Len(items)
        BY <1>3 DEF Unwrite, back
      <3>2. front + 1 \in 1 .. w + 1 /\ items \in Seq(Values) /\ w \in Nat
        OBVIOUS
      <3> QED BY ONLY <3>1, <3>2, PrefixProperties
    <2>2. SubSeq(items', front + 1, w) = q
      BY <2>1, SameWindow DEF back
    <2> QED BY <1>3, <2>2 DEF Unwrite, readerVars, Abstract!vars
  <1>4. ASSUME w < f, w' = f, c' = f, UNCHANGED <<items, front, received>>
        PROVE  Abstract!Flush
    <2> DEFINE m == front + 1
               e == SubSeq(items, m, f)
    <2>1. q' = e /\ q = SubSeq(items, m, w)
      BY <1>4
    <2>2. /\ m \in Nat \ {0} /\ w \in Nat /\ f \in Nat /\ items \in Seq(Values)
          /\ m <= w + 1 /\ w < f /\ f <= Len(items)
      BY <1>4 DEF back
    <2> HIDE DEF m
    <2>3. Len(e) = f - m + 1 /\ SubSeq(e, 1, w - m + 1) = SubSeq(items, m, w)
      BY ONLY <2>2, WindowPrefix
    <2>4. (c = NULL)' = FALSE /\ UNCHANGED received
      BY <1>4
    <2> HIDE DEF e
    <2>5. f - w \in 1 .. Len(e) /\ Len(e) - (f - w) = w - m + 1
      BY ONLY <2>2, <2>3
    <2>6. \E k \in 1 .. Len(q') : SubSeq(q', 1, Len(q') - k) = q
      BY ONLY <2>1, <2>3, <2>5
    <2> QED BY ONLY <2>4, <2>6 DEF Abstract!Flush
  <1>5. CASE FlushCas
    <2>1. CASE c = w
      BY <1>4, <1>5, <2>1 DEF FlushCas, readerVars, Abstract!Next
    <2>2. CASE c # w
      BY <1>5, <2>2 DEF FlushCas, readerVars, Abstract!vars
    <2> QED BY <2>1, <2>2
  <1>6. CASE FlushSet
    BY <1>4, <1>6 DEF FlushSet, readerVars, Abstract!Next
  <1>7. CASE Wake \/ Woken \/ CheckPrefetched
    BY <1>7 DEF Wake, Woken, CheckPrefetched, writerVars, readerVars, Abstract!vars
  <1>8. CASE CheckCas
    <2>1. CASE c = front
      <3>1. front = w /\ q = <<>>
        BY <2>1
      <3> QED BY <1>8, <2>1, <3>1 DEF CheckCas, writerVars, Abstract!Sleep, Abstract!Next
    <2>2. CASE c # front
      BY <1>8, <2>2 DEF CheckCas, writerVars, Abstract!vars
    <2> QED BY <2>1, <2>2
  <1>9. CASE Read
    <2>1. front + 1 \in 1 .. w /\ w <= Len(items)
      BY <1>9 DEF Read, back
    <2> DEFINE m == front + 1
    <2>2. w \in m .. Len(items) /\ m \in 1 .. Len(items) /\ items \in Seq(Values)
      BY <2>1
    <2> HIDE DEF m
    <2>3. /\ Head(SubSeq(items, m, w)) = items[m]
          /\ Tail(SubSeq(items, m, w)) = SubSeq(items, m + 1, w)
      BY ONLY <2>2
    <2>4. SubSeq(items, m, w) # <<>>
      <3> DEFINE x == SubSeq(items, m, w)
      <3>1. Len(x) > 0
        BY ONLY <2>2
      <3> HIDE DEF x
      <3>2. x # <<>>
        BY ONLY <3>1
      <3> QED BY ONLY <3>2 DEF x
    <2> USE DEF m
    <2> QED BY <1>9, <2>3, <2>4 DEF Read, writerVars, Abstract!Read, Abstract!Next
  <1> QED
    BY <1>1, <1>2, <1>3, <1>5, <1>6, <1>7, <1>8, <1>9 DEF Next, Writer, Reader

\* ypipe_t implements the queue specified by Fifo.
THEOREM Refinement == Spec => ImplementsFifo
  <1>1. Init => Abstract!Init
    BY DEF Init, Abstract!Init, NULL
  <1>2. IInv /\ IInv' /\ [Next]_vars => [Abstract!Next]_(Abstract!vars)
    BY StepSimulates
  <1> QED BY <1>1, <1>2, Invariance, PTL DEF Spec, Abstract!Spec, ImplementsFifo
=============================================================================
