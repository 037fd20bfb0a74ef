--------------------------- MODULE ConflateProofs ---------------------------
(***************************************************************************)
(* Proofs about the conflating pipe of module Conflate, for any number of  *)
(* messages and any interleaving of writer and reader.                     *)
(***************************************************************************)
EXTENDS Conflate, TLAPS

TypeOK ==
    /\ back \in Nat /\ front \in Nat /\ has_msg \in BOOLEAN
    /\ holder \in {"none", "writer", "reader"}
    /\ wpc \in {"idle", "lock", "swap", "flush"}
    /\ rpc \in {"idle", "active", "check", "found", "read"}
    /\ signals \in Nat /\ written \in Nat /\ shown \in Nat
    /\ got \in Seq(Nat)

\* The lock is held by whoever is between taking and releasing it.
Locked ==
    /\ wpc = "swap" <=> holder = "writer"
    /\ rpc \in {"check", "read"} <=> holder = "reader"

\* The message that was read last.
LastGot == IF got = <<>> THEN 0 ELSE got[Len(got)]

\* Where the messages are: what was read is older than what is shown, which is
\* older than what the writer has moved into the back buffer and not swapped
\* yet; only the reader takes the shown message away.
Places ==
    /\ LastGot <= shown /\ shown <= written
    /\ has_msg => front = shown /\ LastGot < shown
    /\ wpc \in {"lock", "swap"} => back = written /\ shown < written
    /\ rpc \in {"found", "read"} => has_msg

IInv == TypeOK /\ Locked /\ Places /\ ConflatedInOrder

-----------------------------------------------------------------------------
(* read() appends to what was read before a message that is newer.         *)
LEMMA Appended ==
    ASSUME NEW s \in Seq(Nat), NEW x \in Nat,
           \A i \in DOMAIN s : s[i] > IF i = 1 THEN 0 ELSE s[i - 1],
           x > IF s = <<>> THEN 0 ELSE s[Len(s)]
    PROVE  /\ Append(s, x) \in Seq(Nat) /\ Append(s, x) # <<>>
           /\ Append(s, x)[Len(Append(s, x))] = x
           /\ \A i \in DOMAIN Append(s, x) :
                 Append(s, x)[i] > IF i = 1 THEN 0 ELSE Append(s, x)[i - 1]
  <1>1. Len(s) \in Nat /\ Len(Append(s, x)) = Len(s) + 1 /\ Append(s, x) \in Seq(Nat)
    OBVIOUS
  <1>2. DOMAIN s = 1 .. Len(s) /\ DOMAIN Append(s, x) = 1 .. Len(s) + 1
    BY <1>1
  <1>3. \A i \in 1 .. Len(s) : Append(s, x)[i] = s[i]
    OBVIOUS
  <1>4. Append(s, x)[Len(s) + 1] = x
    OBVIOUS
  <1>5. ASSUME NEW i \in 1 .. Len(s) + 1
        PROVE  Append(s, x)[i] > IF i = 1 THEN 0 ELSE Append(s, x)[i - 1]
    <2>1. CASE i # Len(s) + 1
      <3>1. i \in 1 .. Len(s) /\ (i # 1 => i - 1 \in 1 .. Len(s))
        BY <1>1, <2>1
      <3> QED
        BY <1>2, <1>3, <3>1
    <2>2. CASE i = Len(s) + 1
      <3>1. s = <<>> <=> i = 1
        BY <1>1, <2>2
      <3>2. i # 1 => i - 1 \in 1 .. Len(s) /\ i - 1 = Len(s)
        BY <1>1, <2>2
      <3> QED
        BY <1>3, <1>4, <2>2, <3>1, <3>2
    <2> QED
      BY <2>1, <2>2
  <1> QED
    BY <1>1, <1>2, <1>4, <1>5

(* Every step of the two threads keeps the invariant.                      *)
LEMMA Inductive == IInv /\ [Next]_vars => IInv'
  <1> SUFFICES ASSUME IInv, [Next]_vars PROVE IInv'
    OBVIOUS
  <1> USE DEF IInv, TypeOK, Locked, Places, ConflatedInOrder, LastGot
  <1>1. CASE Write
    BY <1>1 DEF Write
  <1>2. CASE TryLock
    BY <1>2 DEF TryLock
  <1>3. CASE Swap
    BY <1>3 DEF Swap
  <1>4. CASE Flush
    BY <1>4 DEF Flush
  <1>5. CASE CheckLock
    BY <1>5 DEF CheckLock
  <1>6. CASE CheckRead
    BY <1>6 DEF CheckRead
  <1>7. CASE ReadLock
    BY <1>7 DEF ReadLock
  <1>8. CASE Read
    <2>1. has_msg /\ front \in Nat /\ front = shown /\ LastGot < front
      BY <1>8 DEF Read
    <2>2. /\ got' \in Seq(Nat) /\ got' # <<>> /\ got'[Len(got')] = front
          /\ \A i \in DOMAIN got' : got'[i] > IF i = 1 THEN 0 ELSE got'[i - 1]
      BY <1>8, <2>1, Appended DEF Read
    <2>3. LastGot' = front
      BY <2>2
    <2>4. TypeOK' /\ Locked' /\ ConflatedInOrder'
      BY <1>8, <2>2 DEF Read
    <2>5. Places'
      BY <1>8, <2>1, <2>3 DEF Read
    <2> QED
      BY <2>4, <2>5
  <1>9. CASE Woken
    BY <1>9 DEF Woken
  <1>10. CASE UNCHANGED vars
    BY <1>10 DEF vars
  <1> QED
    BY <1>1, <1>2, <1>3, <1>4, <1>5, <1>6, <1>7, <1>8, <1>9, <1>10 DEF Next

(* The invariant holds throughout.  ConflatedInOrder alone is not inductive: *)
(* that a swap shows a message newer than every one read needs to know what  *)
(* the back buffer holds while the writer waits for the lock, and that the   *)
(* reader finds a message behind its second lock needs that only the reader  *)
(* takes one away.                                                           *)
THEOREM Invariance == Spec => []IInv
  <1>1. Init => IInv
    <2> SUFFICES ASSUME Init PROVE IInv
      OBVIOUS
    <2>1. got = <<>> /\ got \in Seq(Nat) /\ DOMAIN got = {}
      BY DEF Init
    <2>2. ConflatedInOrder
      BY <2>1 DEF Init, ConflatedInOrder
    <2>3. LastGot = 0
      BY <2>1 DEF LastGot
    <2>4. TypeOK /\ Locked
      BY <2>1 DEF Init, TypeOK, Locked
    <2>5. Places
      BY <2>3 DEF Init, Places
    <2> QED
      BY <2>2, <2>4, <2>5 DEF IInv
  <1> QED
    BY <1>1, Inductive, PTL DEF Spec

(* ypipe_conflate_t: the reader gets messages in the order in which they     *)
(* were written, none twice and no empty one; what it finds is the newest    *)
(* message swapped in; and no message waits for a reader that nobody wakes.  *)
THEOREM InOrder == Spec => []ConflatedInOrder
  <1>1. IInv => ConflatedInOrder
    BY DEF IInv
  <1> QED
    BY <1>1, Invariance, PTL

(* dbuffer_t: writer and reader never change a buffer at the same time: each *)
(* does so only with the lock, but for the writer's move into the back       *)
(* buffer, which the reader never touches.                                   *)
Exclusive == ~(wpc = "swap" /\ rpc \in {"check", "read"})
THEOREM OneInside == Spec => []Exclusive
  <1>1. IInv => Exclusive
    BY DEF IInv, Locked, Exclusive
  <1> QED
    BY <1>1, Invariance, PTL
=============================================================================
