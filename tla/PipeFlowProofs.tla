--------------------------- MODULE PipeFlowProofs ---------------------------
(***************************************************************************)
(* What is between the two ends of a pipe: how much, and in which order.   *)
(* The first part is the inductive invariant of the message counts of the  *)
(* two ends, and that every operation keeps it, hiccups included; what it  *)
(* uses of the number of messages in a sequence is a hypothesis (Counting) *)
(* that PipeDeliveryProofs discharges.  The second part is what every      *)
(* operation of a ypipe does to the order of the parts in it (Delivered)   *)
(* and to the delimiter behind them (Final).                               *)
(***************************************************************************)
EXTENDS PipeProofs

-----------------------------------------------------------------------------
(* Counting the messages of a ypipe *)

\* Complete messages in a ypipe, flushed or not.
Load(y) == Messages(y.q \o y.u)

\* No delimiter has been written.
Open(y) ==
    /\ \A i \in 1..Len(y.q) : y.q[i] # Delimiter
    /\ \A i \in 1..Len(y.u) : y.u[i] # Delimiter

Empty(y) == y.q = <<>> /\ y.u = <<>>

Weight(m) == IF More(m) THEN 0 ELSE 1

\* What the proof needs of the number of messages in a sequence of parts.
Counting ==
    /\ Messages(<<>>) = 0
    /\ \A s \in Seq(Part) : Messages(s) \in Nat
    /\ \A s \in Seq(Part), m \in Part : Messages(Append(s, m)) = Messages(s) + Weight(m)
    /\ \A s \in Seq(Part) : s # <<>> => Messages(s) = Messages(Tail(s)) + Weight(Head(s))

LEMMA MessagesNat ==
    ASSUME Counting, NEW s \in Seq(Part)
    PROVE  Messages(s) \in Nat
BY Zenon DEF Counting

LEMMA MessagesAppend ==
    ASSUME Counting, NEW s \in Seq(Part), NEW m \in Part
    PROVE  Messages(Append(s, m)) = Messages(s) + Weight(m)
BY Zenon DEF Counting

LEMMA MessagesTail ==
    ASSUME Counting, NEW s \in Seq(Part), s # <<>>
    PROVE  Messages(s) = Messages(Tail(s)) + Weight(Head(s))
BY Zenon DEF Counting

\* What flush() makes visible and what it leaves behind is what was there, and
\* the first part of a message is not counted.
LEMMA Parted ==
    ASSUME Counting, NEW q \in Seq(Part), NEW u \in Seq(Part)
    PROVE  /\ Complete(u) \in Seq(Part) /\ Unfinished(u) \in Seq(Part)
           /\ (q \o Complete(u)) \o Unfinished(u) = q \o u
           /\ Messages(q \o Complete(u)) = Messages(q \o u)
           /\ \A i \in 1..Len(Complete(u)) : i \in 1..Len(u) /\ Complete(u)[i] = u[i]
           /\ \A i \in 1..Len(Unfinished(u)) : \E j \in 1..Len(u) : Unfinished(u)[i] = u[j]
<1>1. Len(u) \in Nat /\ Len(q) \in Nat BY Zenon, LenProperties
<1>2. CASE u # <<>> /\ More(u[Len(u)])
  <2> DEFINE n == Len(u)
             c == SubSeq(u, 1, n - 1)
             m == u[n]
  <2>1. n \in Nat /\ n > 0 /\ 1 \in 1..n + 1 /\ n \in 1..n /\ n - 1 \in Nat BY <1>1, <1>2, EmptySeq
  <2>2. m \in Part BY Zenon, <2>1, ElementOfSeq
  <2>3. /\ Unfinished(u) \in Seq(Part) /\ Len(Unfinished(u)) = 1 /\ Unfinished(u)[1] = m
    BY <1>2, <2>1, <2>2 DEF Unfinished
  <2>4. Unfinished(u) = <<m>> BY <2>2, <2>3
  <2>5. Complete(u) = c BY Zenon, <2>3 DEF Complete
  <2>6. c \in Seq(Part) /\ Len(c) = n - 1 /\ \A i \in 1..(n - 1) : c[i] = u[i]
    <3>1. \A i \in 1..(n - 1) : u[i] \in Part BY <2>1, ElementOfSeq
    <3>2. 1 \in Int /\ n - 1 \in Int BY <2>1
    <3>3. /\ c \in Seq(Part) /\ Len(c) = IF 1 <= n - 1 THEN (n - 1) - 1 + 1 ELSE 0
          /\ \A i \in 1..((n - 1) - 1 + 1) : c[i] = u[1 + i - 1]
      BY <3>1, <3>2, SubSeqProperties
    <3> HIDE DEF n, c
    <3>4. (n - 1) - 1 + 1 = n - 1 /\ \A i \in 1..(n - 1) : 1 + i - 1 = i BY <2>1
    <3>5. Len(c) = n - 1 BY <2>1, <3>3
    <3> QED BY Zenon, <3>3, <3>4, <3>5
  <2> HIDE DEF n, c, m
  <2>7. (q \o c) \o <<m>> = q \o u
    <3>1. u = c \o <<m>>
      <4>1. 1 \in 1..Len(u) /\ n \in 1..Len(u) BY <2>1 DEF n
      <4>2. SubSeq(u, 1, n) = SubSeq(u, 1, n - 1) \o <<u[n]>> BY Zenon, <4>1, SubSeqRecursiveSecond
      <4>3. SubSeq(u, 1, n) = u BY Zenon, SubSeqFull DEF n
      <4> QED BY Zenon, <4>2, <4>3 DEF c, m
    <3>2. <<m>> \in Seq(Part) BY <2>2
    <3> QED BY <2>6, <3>1, <3>2, ConcatAssociative
  <2>8. Messages(q \o c) = Messages(q \o u)
    <3>1. q \o c \in Seq(Part) BY Zenon, <2>6, ConcatProperties
    <3>2. (q \o c) \o <<m>> = Append(q \o c, m) BY Zenon, <3>1, <2>2, AppendIsConcat
    <3>3. Weight(m) = 0 BY Zenon, <1>2 DEF Weight, m, n
    <3>4. Messages(Append(q \o c, m)) = Messages(q \o c) + 0 BY Zenon, <2>2, <3>1, <3>3, MessagesAppend
    <3>5. Messages(q \o c) \in Nat BY Zenon, <3>1, MessagesNat
    <3>6. Messages(q \o c) + 0 = Messages(q \o c) BY <3>5
    <3> QED BY Zenon, <2>7, <3>2, <3>4, <3>6
  <2>9. \A i \in 1..Len(c) : i \in 1..Len(u) /\ c[i] = u[i] BY <2>1, <2>6 DEF n
  <2>10. \A i \in 1..Len(Unfinished(u)) : \E j \in 1..Len(u) : Unfinished(u)[i] = u[j]
    BY <2>1, <2>3 DEF n, m
  <2> QED BY Zenon, <2>3, <2>4, <2>5, <2>6, <2>7, <2>8, <2>9, <2>10
<1>3. CASE ~(u # <<>> /\ More(u[Len(u)]))
  <2>1. Unfinished(u) = <<>> BY Zenon, <1>3 DEF Unfinished
  <2>2. Complete(u) = SubSeq(u, 1, Len(u)) BY <1>1, <2>1 DEF Complete
  <2>3. Complete(u) = u BY Zenon, <1>1, <2>2, SubSeqFull
  <2>4. <<>> \in Seq(Part) /\ q \o u \in Seq(Part) /\ (q \o u) \o <<>> = q \o u BY ConcatEmptySeq, ConcatProperties
  <2> QED BY <2>1, <2>3, <2>4
<1> QED BY Zenon, <1>2, <1>3


\* What the operations on a ypipe do to the messages in it.
LEMMA Loads ==
    ASSUME Counting, NEW y \in Ypipe
    PROVE  /\ Load(y) \in Nat
           /\ Load(Flushed(y)) = Load(y) /\ (Open(y) => Open(Flushed(y)))
           /\ Load(RolledBack(y)) = Load(y) /\ (Open(y) => Open(RolledBack(y)))
           /\ Messages(y.q \o Complete(y.u)) = Load(y)
           /\ Load([y EXCEPT !.asleep = TRUE]) = Load(y) /\ (Open(y) => Open([y EXCEPT !.asleep = TRUE]))
<1> DEFINE q == y.q
           u == y.u
<1>1. q \in Seq(Part) /\ u \in Seq(Part) BY Zenon DEF Ypipe
<1>2. q \o u \in Seq(Part) BY Zenon, <1>1, ConcatProperties
<1>3. /\ Complete(u) \in Seq(Part) /\ Unfinished(u) \in Seq(Part)
      /\ (q \o Complete(u)) \o Unfinished(u) = q \o u
      /\ Messages(q \o Complete(u)) = Messages(q \o u)
      /\ \A i \in 1..Len(Complete(u)) : i \in 1..Len(u) /\ Complete(u)[i] = u[i]
      /\ \A i \in 1..Len(Unfinished(u)) : \E j \in 1..Len(u) : Unfinished(u)[i] = u[j]
  BY Zenon, <1>1, Parted
<1>4. Load(y) \in Nat BY Zenon, <1>2, MessagesNat DEF Load
<1>5. Flushed(y).q = q \o Complete(u) /\ Flushed(y).u = Unfinished(u) BY Zenon DEF Flushed
<1>6. RolledBack(y).q = q /\ RolledBack(y).u = Complete(u) BY Zenon DEF RolledBack, Ypipe
<1>7. [y EXCEPT !.asleep = TRUE].q = q /\ [y EXCEPT !.asleep = TRUE].u = u BY Zenon DEF Ypipe
<1>8. Load(Flushed(y)) = Load(y) BY Zenon, <1>3, <1>5 DEF Load
<1>9. Load(RolledBack(y)) = Load(y) BY Zenon, <1>3, <1>6 DEF Load
<1>10. Open(y) => Open(RolledBack(y)) BY Zenon, <1>3, <1>6 DEF Open
<1>11. ASSUME Open(y) PROVE Open(Flushed(y))
  <2> DEFINE c == Complete(u)
             s == q \o c
  <2>1. \A i \in 1..Len(Unfinished(u)) : Unfinished(u)[i] # Delimiter BY Zenon, <1>3, <1>11 DEF Open
  <2>2. \A i \in 1..Len(c) : c[i] # Delimiter BY Zenon, <1>3, <1>11 DEF Open
  <2>3. \A i \in 1..Len(q) : q[i] # Delimiter BY Zenon, <1>11 DEF Open
  <2>c. q \in Seq(Part) /\ c \in Seq(Part) BY Zenon, <1>1, <1>3
  <2>4. Len(q) \in Nat /\ Len(c) \in Nat BY Zenon, <2>c, LenProperties
  <2>5. /\ Len(s) = Len(q) + Len(c)
        /\ \A i \in 1..(Len(q) + Len(c)) : s[i] = IF i <= Len(q) THEN q[i] ELSE c[i - Len(q)]
    BY ZenonT(40), <2>c, ConcatProperties
  <2> HIDE DEF q, c, s
  <2>6. \A i \in 1..Len(s) : s[i] # Delimiter
    <3> TAKE i \in 1..Len(s)
    <3>1. i <= Len(q) => i \in 1..Len(q) BY <2>4, <2>5
    <3>2. ~(i <= Len(q)) => i - Len(q) \in 1..Len(c) BY <2>4, <2>5
    <3>3. i \in 1..(Len(q) + Len(c)) BY Zenon, <2>5
    <3> QED BY Zenon, <2>2, <2>3, <2>5, <3>1, <3>2, <3>3
  <2> QED BY Zenon, <1>5, <2>1, <2>6 DEF Open, s, c
<1>12. /\ Load([y EXCEPT !.asleep = TRUE]) = Load(y)
       /\ Open(y) => Open([y EXCEPT !.asleep = TRUE])
  BY Zenon, <1>7 DEF Load, Open
<1> QED BY Zenon, <1>3, <1>4, <1>8, <1>9, <1>10, <1>11, <1>12 DEF Load

\* A part is written.
LEMMA LoadWritten ==
    ASSUME Counting, NEW y \in Ypipe, NEW m \in Part
    PROVE  /\ Load(Written(y, m)) = Load(y) + Weight(m)
           /\ Open(y) /\ m # Delimiter => Open(Written(y, m))
<1> DEFINE q == y.q
           u == y.u
           v == Append(u, m)
<1>1. q \in Seq(Part) /\ u \in Seq(Part) BY Zenon DEF Ypipe
<1>2. Written(y, m).q = q /\ Written(y, m).u = v BY Zenon DEF Written, Ypipe
<1>3. q \o v = Append(q \o u, m)
  <2>1. <<m>> \in Seq(Part) /\ q \o u \in Seq(Part) BY <1>1, ConcatProperties
  <2>2. v = u \o <<m>> BY Zenon, <1>1, AppendIsConcat
  <2>3. Append(q \o u, m) = (q \o u) \o <<m>> BY Zenon, <2>1, AppendIsConcat
  <2> HIDE DEF q, u, v
  <2>4. (q \o u) \o <<m>> = q \o (u \o <<m>>) BY <1>1, <2>1, ConcatAssociative
  <2> QED BY Zenon, <2>2, <2>3, <2>4
<1>4. q \o u \in Seq(Part) BY Zenon, <1>1, ConcatProperties
<1>5. Load(Written(y, m)) = Load(y) + Weight(m)
  BY Zenon, <1>2, <1>3, <1>4, MessagesAppend DEF Load
<1>6. /\ Len(u) \in Nat /\ Len(v) = Len(u) + 1 /\ v[Len(u) + 1] = m
      /\ \A i \in 1..Len(u) : v[i] = u[i]
  BY <1>1, AppendProperties, LenProperties
<1> HIDE DEF v, q, u
<1>7. \A i \in 1..Len(v) : i \in 1..Len(u) \/ i = Len(u) + 1 BY <1>6
<1>8. Open(y) /\ m # Delimiter => Open(Written(y, m)) BY Zenon, <1>2, <1>6, <1>7 DEF Open, q, u
<1> QED BY Zenon, <1>5, <1>8

\* The first of two sequences gives the head.
LEMMA HeadTailConcat ==
    ASSUME NEW S, NEW s \in Seq(S), NEW t \in Seq(S), s # <<>>
    PROVE  Head(s \o t) = Head(s) /\ Tail(s \o t) = Tail(s) \o t /\ s \o t # <<>>
<1> DEFINE r == s \o t
           a == Tail(r)
           b == Tail(s) \o t
<1>1. Len(s) \in Nat /\ Len(s) > 0 /\ Len(t) \in Nat BY EmptySeq, LenProperties
<1>2. /\ r \in Seq(S) /\ Len(r) = Len(s) + Len(t)
      /\ \A i \in 1..(Len(s) + Len(t)) : r[i] = IF i <= Len(s) THEN s[i] ELSE t[i - Len(s)]
  BY Zenon, ConcatProperties
<1>3. r # <<>> BY ConcatEqualIffEmpty
<1>4. /\ Tail(s) \in Seq(S) /\ Len(Tail(s)) = Len(s) - 1 /\ Head(s) = s[1]
      /\ \A i \in 1..Len(Tail(s)) : Tail(s)[i] = s[i + 1]
  BY HeadTailProperties
<1> HIDE DEF r
<1>5. /\ a \in Seq(S) /\ Len(a) = Len(r) - 1 /\ Head(r) = r[1]
      /\ \A i \in 1..Len(a) : a[i] = r[i + 1]
  BY <1>2, <1>3, HeadTailProperties
<1>6. /\ b \in Seq(S) /\ Len(b) = Len(Tail(s)) + Len(t)
      /\ \A i \in 1..(Len(Tail(s)) + Len(t)) :
            b[i] = IF i <= Len(Tail(s)) THEN Tail(s)[i] ELSE t[i - Len(Tail(s))]
  BY Zenon, <1>4, ConcatProperties
<1> HIDE DEF a, b
<1>7. Len(a) = Len(b) BY <1>1, <1>2, <1>4, <1>5, <1>6
<1>8. \A i \in 1..Len(a) : a[i] = b[i]
  <2> TAKE i \in 1..Len(a)
  <2>1. i \in Nat /\ i >= 1 /\ i <= Len(s) + Len(t) - 1 BY <1>1, <1>2, <1>5
  <2>2. a[i] = IF i + 1 <= Len(s) THEN s[i + 1] ELSE t[(i + 1) - Len(s)] BY <1>1, <1>2, <1>5, <2>1
  <2>3. b[i] = IF i <= Len(s) - 1 THEN Tail(s)[i] ELSE t[i - (Len(s) - 1)] BY <1>1, <1>4, <1>6, <2>1
  <2>4. i <= Len(s) - 1 => Tail(s)[i] = s[i + 1] BY <1>1, <1>4, <2>1
  <2>5. (i + 1 <= Len(s) <=> i <= Len(s) - 1) /\ (i + 1) - Len(s) = i - (Len(s) - 1) BY <1>1, <2>1
  <2> QED BY Zenon, <2>2, <2>3, <2>4, <2>5
<1>9. a = b BY Zenon, <1>5, <1>6, <1>7, <1>8, SeqEqual
<1>10. Head(r) = s[1] BY <1>1, <1>2, <1>5
<1> QED BY Zenon, <1>3, <1>4, <1>9, <1>10 DEF r, a, b

\* A part is read.
LEMMA LoadRead ==
    ASSUME Counting, NEW y \in Ypipe, y.q # <<>>
    PROVE  LET z == [y EXCEPT !.q = Tail(@)] IN
           /\ Load(y) = Load(z) + Weight(Head(y.q)) /\ Load(z) \in Nat
           /\ Open(y) => Open(z)
<1> DEFINE q == y.q
           u == y.u
           z == [y EXCEPT !.q = Tail(@)]
<1>1. q \in Seq(Part) /\ u \in Seq(Part) /\ q # <<>> BY Zenon DEF Ypipe
<1>2. z.q = Tail(q) /\ z.u = u BY Zenon DEF Ypipe
<1>3. /\ Tail(q) \in Seq(Part) /\ Len(q) \in Nat /\ Len(q) > 0 /\ Len(Tail(q)) = Len(q) - 1
      /\ \A i \in 1..Len(Tail(q)) : Tail(q)[i] = q[i + 1]
  BY <1>1, HeadTailProperties, LenProperties, EmptySeq
<1>4. Head(q \o u) = Head(q) /\ Tail(q \o u) = Tail(q) \o u /\ q \o u # <<>>
  BY Zenon, <1>1, HeadTailConcat
<1>5. q \o u \in Seq(Part) /\ Tail(q) \o u \in Seq(Part) BY Zenon, <1>1, <1>3, ConcatProperties
<1>6. Messages(q \o u) = Messages(Tail(q) \o u) + Weight(Head(q)) BY Zenon, <1>4, <1>5, MessagesTail
<1>7. Messages(Tail(q) \o u) \in Nat BY Zenon, <1>5, MessagesNat
<1>8. Load(y) = Load(z) + Weight(Head(y.q)) /\ Load(z) \in Nat BY Zenon, <1>2, <1>6, <1>7 DEF Load
<1>9. Open(y) => Open(z)
  <2>1. \A i \in 1..Len(Tail(q)) : i + 1 \in 1..Len(q) BY <1>3
  <2> QED BY Zenon, <1>2, <1>3, <2>1 DEF Open
<1> QED BY Zenon, <1>8, <1>9

LEMMA LoadEmpty ==
    ASSUME Counting
    PROVE  /\ Empty(NewYpipe)
           /\ \A y : Empty(y) => Open(y) /\ Load(y) = 0
<1>1. Empty(NewYpipe) BY Zenon DEF Empty, NewYpipe
<1>2. ASSUME NEW y, Empty(y) PROVE Open(y) /\ Load(y) = 0
  <2>1. Len(<<>>) = 0 /\ <<>> \o <<>> = <<>> BY Zenon, EmptySeq, ConcatEmptySeq
  <2>3. Messages(<<>>) = 0 BY Zenon DEF Counting
  <2> QED BY <1>2, <2>1, <2>3 DEF Empty, Open, Load
<1> QED BY Zenon, <1>1, <1>2


-----------------------------------------------------------------------------
(* What the reader's counts tell the writer *)

\* The counts that activate_write commands bring rise, from the last one that
\* was taken to what the reader has read.
Credits(s, lo, hi) ==
    /\ lo <= hi
    /\ \A i \in 1..Len(s) : s[i].c = "activate_write" =>
          /\ lo <= s[i].v /\ s[i].v <= hi
          /\ \A j \in 1..Len(s) : i < j /\ s[j].c = "activate_write" => s[i].v <= s[j].v

Mute(s) == ~Has(s, "activate_write") /\ ~Has(s, "pipe_hwm")

LEMMA CreditsLonger ==
    ASSUME NEW s \in Seq(Command), NEW t \in Seq(Command),
           NEW lo \in Nat, NEW hi \in Nat, NEW k \in Nat, hi <= k, Credits(s, lo, hi),
           \A i \in 1..Len(t) : t[i].c = "activate_write" => t[i].v = k
    PROVE  Credits(s \o t, lo, k)
<1> DEFINE u == s \o t
<1>1. /\ Len(s) \in Nat /\ Len(t) \in Nat /\ u \in Seq(Command) /\ Len(u) = Len(s) + Len(t)
      /\ \A i \in 1..(Len(s) + Len(t)) : u[i] = IF i <= Len(s) THEN s[i] ELSE t[i - Len(s)]
  BY Zenon, ConcatProperties, LenProperties
<1> HIDE DEF u
<1>2. \A i \in 1..Len(u) :
        \/ i \in 1..Len(s) /\ u[i] = s[i]
        \/ i > Len(s) /\ i - Len(s) \in 1..Len(t) /\ u[i] = t[i - Len(s)]
  BY <1>1
<1>3. \A i \in 1..Len(s) : s[i] \in Command BY Zenon, ElementOfSeq
<1>4. \A i \in 1..Len(s) : s[i].c = "activate_write" => s[i].v \in Nat BY Zenon, <1>3, Fields
<1>5. \A i \in 1..Len(u) : u[i].c = "activate_write" => lo <= u[i].v /\ u[i].v <= k /\ u[i].v \in Nat
  <2> SUFFICES ASSUME NEW i \in 1..Len(u), u[i].c = "activate_write"
      PROVE  lo <= u[i].v /\ u[i].v <= k /\ u[i].v \in Nat
    BY Zenon
  <2>1. CASE i \in 1..Len(s) /\ u[i] = s[i]
    <3>1. lo <= s[i].v /\ s[i].v <= hi /\ s[i].v \in Nat BY Zenon, <1>4, <2>1 DEF Credits
    <3> QED BY <2>1, <3>1
  <2>2. CASE i - Len(s) \in 1..Len(t) /\ u[i] = t[i - Len(s)]
    <3>1. u[i].v = k BY Zenon, <2>2
    <3> QED BY <3>1 DEF Credits
  <2> QED BY Zenon, <1>2, <2>1, <2>2
<1>6. \A i, j \in 1..Len(u) :
        i < j /\ u[i].c = "activate_write" /\ u[j].c = "activate_write" => u[i].v <= u[j].v
  <2> SUFFICES ASSUME NEW i \in 1..Len(u), NEW j \in 1..Len(u), i < j,
                      u[i].c = "activate_write", u[j].c = "activate_write"
      PROVE  u[i].v <= u[j].v
    BY Zenon
  <2>1. CASE j \in 1..Len(s) /\ u[j] = s[j]
    <3>1. i \in 1..Len(s) /\ u[i] = s[i] BY <1>1, <1>2, <2>1
    <3> QED BY Zenon, <2>1, <3>1 DEF Credits
  <2>2. CASE j - Len(s) \in 1..Len(t) /\ u[j] = t[j - Len(s)]
    <3>1. u[j].v = k BY Zenon, <2>2
    <3> QED BY Zenon, <1>5, <3>1
  <2> QED BY Zenon, <1>2, <2>1, <2>2
<1>7. lo <= k BY DEF Credits
<1>8. Credits(u, lo, k) BY Zenon, <1>5, <1>6, <1>7 DEF Credits
<1> QED BY Zenon, <1>8 DEF u

LEMMA CreditsShorter ==
    ASSUME NEW s \in Seq(Command), s # <<>>, NEW lo \in Nat, NEW hi \in Nat, Credits(s, lo, hi)
    PROVE  /\ Credits(Tail(s), lo, hi)
           /\ Head(s).c = "activate_write" =>
                lo <= Head(s).v /\ Credits(Tail(s), Head(s).v, hi) /\ Head(s).v \in Nat
<1> DEFINE t == Tail(s)
<1>1. /\ t \in Seq(Command) /\ Len(s) \in Nat /\ Len(s) > 0 /\ Len(t) = Len(s) - 1
      /\ \A i \in 1..Len(t) : t[i] = s[i + 1]
      /\ Head(s) = s[1] /\ Head(s) \in Command
  BY HeadTailProperties, LenProperties, EmptySeq
<1> HIDE DEF t
<1>2. \A i \in 1..Len(t) : i + 1 \in 1..Len(s) /\ 1 < i + 1 BY <1>1
<1>3. 1 \in 1..Len(s) BY <1>1
<1>4. \A i, j \in 1..Len(t) : i < j => i + 1 < j + 1 BY <1>1
<1>5. Credits(t, lo, hi) BY Zenon, <1>1, <1>2, <1>4 DEF Credits
<1>6. ASSUME s[1].c = "activate_write" PROVE lo <= s[1].v /\ Credits(t, s[1].v, hi) /\ s[1].v \in Nat
  <2>1. s[1].v \in Nat /\ lo <= s[1].v /\ s[1].v <= hi BY Zenon, <1>1, <1>3, <1>6, Fields DEF Credits
  <2>2. \A i \in 1..Len(t) : t[i].c = "activate_write" => s[1].v <= t[i].v
    BY Zenon, <1>1, <1>2, <1>3, <1>6 DEF Credits
  <2> QED BY Zenon, <1>5, <2>1, <2>2 DEF Credits
<1> QED BY Zenon, <1>1, <1>5, <1>6 DEF t

LEMMA MuteOnes ==
    /\ Mute(<<>>)
    /\ \A x : x.c \notin {"activate_write", "pipe_hwm"} => Mute(<<x>>)
    /\ \A y : WakeUp(y) \in Seq(Command) /\ Mute(WakeUp(y))
<1>1. Mute(<<>>) BY Zenon, Short DEF Mute
<1>2. \A x : x.c \notin {"activate_write", "pipe_hwm"} => Mute(<<x>>) BY Zenon, Short DEF Mute
<1>3. Mute(<<Cmd("activate_read")>>) BY Zenon, <1>2, Commands
<1> QED BY Zenon, <1>1, <1>2, <1>3, PlainOnes DEF WakeUp

LEMMA MuteCommands ==
    ASSUME NEW c \in {"pipe_term", "pipe_term_ack"}
    PROVE  <<Cmd(c)>> \in Seq(Command) /\ Mute(<<Cmd(c)>>) /\ Pipes(<<Cmd(c)>>) = {}
<1> DEFINE x == Cmd(c)
<1>1. x \in Command /\ x.c = c BY Zenon, Commands
<1> HIDE DEF x
<1>2. x.c \notin {"activate_write", "pipe_hwm"} /\ x.c # "hiccup" BY Zenon, <1>1
<1>3. Mute(<<x>>) BY Zenon, <1>2, MuteOnes
<1>4. Pipes(<<x>>) = {} BY Zenon, <1>2, Short
<1>5. <<x>> \in Seq(Command) BY <1>1
<1> QED BY Zenon, <1>3, <1>4, <1>5 DEF x

-----------------------------------------------------------------------------
(* The inductive invariant *)

\* What an active end has written is what its peer has taken out, credentials
\* included, and what is in the ypipe between them.
Flow(p) ==
    st[p] = "active" =>
        Open(yp[out[p]]) /\ nwritten[p] = Passed(Peer(p)) + Load(yp[out[p]])

\* A ypipe that has not been plugged in yet is empty.
Fresh(p) == \A h \in Pipes(cmds[p]) : Empty(yp[h])

Credit(p) == Credits(cmds[p], peerRead[p], nread[Peer(p)])

\* Counted as check_hwm() does it.
Room(p) ==
    Never("hwm") /\ st[p] = "active" /\ hwm[p] > 0 => nwritten[p] - peerRead[p] <= hwm[p]

\* Only a call brings pipe_hwm.
Told(p) == Has(cmds[p], "pipe_hwm") => ~Never("hwm")

FInv ==
    /\ nwritten \in [Ends -> Int]
    /\ \A p \in Ends : Flow(p) /\ Fresh(p) /\ Credit(p) /\ Room(p) /\ Told(p)

\* What an end has taken out is a number, at least what it has counted.
LEMMA PassedNat ==
    ASSUME Typed
    PROVE  \A p \in Ends : Passed(p) \in Nat /\ nread[p] \in Nat /\ nread[p] <= Passed(p)
BY Types DEF Counts, Passed

-----------------------------------------------------------------------------
(* Steps of one end, seen by the other *)

\* Commands are sent that carry no count.
LEMMA MuteSent ==
    ASSUME Typed, \A x \in Ends : Credit(x), UNCHANGED <<nread, peerRead>>,
           NEW p \in Ends, NEW s \in Seq(Command), ~Has(s, "activate_write"), SendTo(Peer(p), s)
    PROVE  /\ \A x \in Ends : Credit(x)'
           /\ Mute(s) => \A x \in Ends : Has(cmds'[x], "pipe_hwm") => Has(cmds[x], "pipe_hwm")
<1> DEFINE q == Peer(p)
<1>1. q \in Ends /\ Peer(q) = p /\ \A x \in Ends : x = p \/ x = q BY Zenon, Two
<1>2. cmds'[p] = cmds[p] /\ cmds'[q] = cmds[q] \o s BY Zenon, Sent
<1>3. cmds[q] \in Seq(Command) BY Zenon, <1>1 DEF Typed
<1>n. peerRead[q] \in Nat /\ nread[p] \in Nat /\ nread[p] <= nread[p] BY <1>1, Types DEF Counts
<1>4. Credits(cmds[q], peerRead[q], nread[p]) BY Zenon, <1>1 DEF Credit
<1>5. \A i \in 1..Len(s) : s[i].c # "activate_write" BY Zenon DEF Has
<1>6. Credits(cmds[q] \o s, peerRead[q], nread[p]) BY Zenon, <1>3, <1>n, <1>4, <1>5, CreditsLonger
<1>7. \A d : Has(cmds[q] \o s, d) <=> Has(cmds[q], d) \/ Has(s, d) BY Zenon, <1>3, Longer
<1> HIDE DEF q
<1>8. Credit(p)' /\ Credit(q)' BY Zenon, <1>1, <1>2, <1>6 DEF Credit
<1> QED BY Zenon, <1>1, <1>2, <1>7, <1>8 DEF Mute

\* Commands are sent that bring no ypipe.
LEMMA PlainPipes ==
    ASSUME Typed, NEW p \in Ends, NEW s \in Seq(Command), Pipes(s) = {}, SendTo(Peer(p), s)
    PROVE  \A x \in Ends : Pipes(cmds'[x]) = Pipes(cmds[x])
<1> DEFINE q == Peer(p)
<1>1. q \in Ends /\ \A x \in Ends : x = p \/ x = q BY Zenon, Two
<1>2. cmds'[p] = cmds[p] /\ cmds'[q] = cmds[q] \o s BY Zenon, Sent
<1>3. cmds[q] \in Seq(Command) BY Zenon, <1>1 DEF Typed
<1>4. Pipes(cmds[q] \o s) = Pipes(cmds[q]) \union {}
  <2>1. Pipes(cmds[q] \o s) = Pipes(cmds[q]) \union Pipes(s) BY ZenonT(40), <1>3, Longer
  <2> QED BY ZenonT(40), <2>1
<1> HIDE DEF q
<1> QED BY Zenon, <1>1, <1>2, <1>4

\* A command is taken, with an answer of that kind.
LEMMA MuteTaken ==
    ASSUME Typed, Hand, \A x \in Ends : Credit(x), UNCHANGED <<nread, peerRead>>,
           NEW p \in Ends, NEW c, Receive(p, c),
           NEW s \in Seq(Command), Mute(s), Reply(p, s)
    PROVE  /\ \A x \in Ends : Credit(x)'
           /\ \A x \in Ends : Has(cmds'[x], "pipe_hwm") => Has(cmds[x], "pipe_hwm")
<1> DEFINE q == Peer(p)
<1>1. /\ q \in Ends /\ Peer(p) = q /\ Peer(q) = p /\ (\A x \in Ends : x = p \/ x = q) /\ cmds[p] # <<>>
      /\ cmds[p] \in Seq(Command) /\ cmds[q] \in Seq(Command)
      /\ \A d : Has(Tail(cmds[p]), d) => Has(cmds[p], d)
  BY Zenon, Taken
<1>2. cmds'[p] = Tail(cmds[p]) /\ cmds'[q] = cmds[q] \o s BY Zenon, <1>1, Replied
<1>n. /\ peerRead[q] \in Nat /\ nread[p] \in Nat /\ nread[p] <= nread[p]
      /\ peerRead[p] \in Nat /\ nread[q] \in Nat
  BY <1>1, Types DEF Counts
<1>4. Credits(cmds[q], peerRead[q], nread[p]) /\ Credits(cmds[p], peerRead[p], nread[q])
  BY Zenon, <1>1 DEF Credit
<1>5. \A i \in 1..Len(s) : s[i].c # "activate_write" BY Zenon DEF Mute, Has
<1>6. Credits(cmds[q] \o s, peerRead[q], nread[p]) BY Zenon, <1>1, <1>n, <1>4, <1>5, CreditsLonger
<1>7. \A d : Has(cmds[q] \o s, d) <=> Has(cmds[q], d) \/ Has(s, d) BY Zenon, <1>1, Longer
<1>8. Credits(Tail(cmds[p]), peerRead[p], nread[q]) BY Zenon, <1>1, <1>n, <1>4, CreditsShorter
<1> HIDE DEF q
<1>9. Credit(p)' /\ Credit(q)' BY Zenon, <1>1, <1>2, <1>6, <1>8 DEF Credit
<1> QED BY Zenon, <1>1, <1>2, <1>7, <1>9 DEF Mute

\* The counts do not change.
LEMMA Still ==
    ASSUME FInv, UNCHANGED <<nread, skipped, nwritten, peerRead>>,
           \A x \in Ends : st'[x] = "active" =>
                /\ st[x] = "active" /\ out'[x] = out[x]
                /\ Load(yp'[out[x]]) = Load(yp[out[x]])
                /\ Open(yp[out[x]]) => Open(yp'[out[x]]),
           \A x \in Ends : \A h \in Pipes(cmds'[x]) : Empty(yp'[h]),
           \A x \in Ends : Credit(x)',
           Never("hwm")' =>
                /\ Never("hwm") /\ hwm' = hwm
                /\ \A x \in Ends : Has(cmds'[x], "pipe_hwm") => Has(cmds[x], "pipe_hwm")
    PROVE  FInv'
<1>1. \A x \in Ends : Flow(x)' BY Zenon DEF FInv, Flow, Passed
<1>2. \A x \in Ends : Fresh(x)' BY Zenon DEF Fresh
<1>3. \A x \in Ends : Room(x)' BY Zenon DEF FInv, Room
<1>5. \A x \in Ends : Told(x)' BY Zenon DEF FInv, Told
<1> QED BY Zenon, <1>1, <1>2, <1>3, <1>5 DEF FInv

\* An end changes the ypipe it writes to.
LEMMA OutChanged ==
    ASSUME Typed, Hand, NEW p \in Ends, ~Acked(p), NEW e, yp' = [yp EXCEPT ![out[p]] = e]
    PROVE  /\ yp'[out[p]] = e
           /\ ~Acked(Peer(p)) => yp'[out[Peer(p)]] = yp[out[Peer(p)]]
           /\ \A x \in Ends : \A h \in Pipes(cmds[x]) : yp'[h] = yp[h]
<1> DEFINE q == Peer(p)
<1>1. q \in Ends /\ Peer(p) = q /\ Peer(q) = p /\ \A x \in Ends : x = p \/ x = q BY Zenon, Two
<1>2. Joint(p) /\ Joint(q) /\ Chain(q) /\ Apart(p) /\ Apart(q) BY Zenon, <1>1 DEF Hand
<1> HIDE DEF q
<1>3. out[p] # NULL /\ (~Acked(q) => out[q] # NULL) BY Zenon, <1>1, <1>2 DEF Joint
<1>4. DOMAIN yp = 1..Len(yp) BY Zenon, LenProperties DEF Typed
<1>5. out[p] \in DOMAIN yp /\ (~Acked(q) => out[q] \in DOMAIN yp)
  BY <1>1, <1>3, <1>4, Indices DEF NULL
<1>6. out[q] # out[p] \/ out[p] = NULL BY Zenon, <1>1, <1>2 DEF Apart
<1>7. \A h \in Pipes(cmds[p]) : out[p] < h BY Zenon, <1>1, <1>2 DEF Chain
<1>8. \A h \in Pipes(cmds[p]) : h # out[p] BY <1>7, Indices
<1>9. \A h \in Pipes(cmds[q]) : h # out[p] BY Zenon, <1>1, <1>2 DEF Apart
<1>10. \A x \in Ends : \A h \in Pipes(cmds[x]) : h # out[p] BY Zenon, <1>1, <1>8, <1>9
<1> QED BY <1>1, <1>3, <1>5, <1>6, <1>10

\* An end changes the ypipe it reads from: one that its peer writes to, or one
\* that the peer has not been told of and that is empty.
LEMMA InChanged ==
    ASSUME Typed, Hand, NEW p \in Ends, Fresh(Peer(p)), NEW e, yp' = [yp EXCEPT ![in[p]] = e]
    PROVE  /\ yp'[in[p]] = e
           /\ ~Acked(p) => yp'[out[p]] = yp[out[p]]
           /\ \A h \in Pipes(cmds[p]) : yp'[h] = yp[h]
           /\ \A h \in Pipes(cmds[Peer(p)]) : h # in[p] => yp'[h] = yp[h]
           /\ ~Acked(Peer(p)) =>
                \/ out[Peer(p)] = in[p] /\ Pipes(cmds[Peer(p)]) = {}
                \/ yp'[out[Peer(p)]] = yp[out[Peer(p)]] /\ Empty(yp[in[p]])
<1> DEFINE q == Peer(p)
<1>1. q \in Ends /\ Peer(p) = q /\ Peer(q) = p /\ \A x \in Ends : x = p \/ x = q BY Zenon, Two
<1>2. Joint(p) /\ Joint(q) /\ Chain(p) /\ Apart(p) /\ Apart(q) BY Zenon, <1>1 DEF Hand
<1> HIDE DEF q
<1>4. in[p] \in DOMAIN yp BY Indices, LenProperties DEF Typed
<1>5. out[p] # in[p] BY Zenon, <1>2 DEF Apart
<1>6. \A h \in Pipes(cmds[p]) : h # in[p] BY Zenon, <1>2 DEF Apart
<1>7. Pipes(cmds[q]) # {} => in[p] \in Pipes(cmds[q]) /\ out[q] < in[p] BY Zenon, <1>1, <1>2 DEF Chain
<1>8. Pipes(cmds[q]) # {} => out[q] # in[p] BY <1>1, <1>7, Indices
<1>9. Pipes(cmds[q]) # {} => Empty(yp[in[p]]) BY Zenon, <1>1, <1>7 DEF Fresh
<1>10. Pipes(cmds[q]) = {} /\ ~Acked(q) => out[q] = in[p] BY Zenon, <1>1, <1>2 DEF Chain
<1> QED BY <1>1, <1>4, <1>5, <1>6, <1>8, <1>9, <1>10


-----------------------------------------------------------------------------
(* The operations *)

\* A call of another kind does not change the number of set_hwms() calls.
LEMMA NeverBefore ==
    ASSUME Typed
    PROVE  /\ UNCHANGED calls => (Never("hwm")' => Never("hwm"))
           /\ \A p \in Ends, w \in {"term", "hiccup"} : Called(p, w) => (Never("hwm")' => Never("hwm"))
           /\ \A p \in Ends : Called(p, "hwm") => ~Never("hwm")'
<1>1. calls \in [Ends -> [term : Nat, hiccup : Nat, hwm : Nat]] BY Zenon DEF Typed
<1>2. UNCHANGED calls => (Never("hwm")' => Never("hwm")) BY Zenon DEF Never
<1>3. ASSUME NEW p \in Ends, NEW w \in {"term", "hiccup"}, Called(p, w), Never("hwm")'
      PROVE  Never("hwm")
  <2>1. \A x \in Ends : calls'[x].hwm = calls[x].hwm BY Zenon, <1>1, <1>3 DEF Called
  <2> QED BY Zenon, <1>3, <2>1 DEF Never
<1>4. ASSUME NEW p \in Ends, Called(p, "hwm") PROVE ~Never("hwm")'
  <2>1. calls'[p].hwm = calls[p].hwm + 1 /\ calls[p].hwm \in Nat BY Zenon, <1>1, <1>4 DEF Called
  <2>2. calls'[p].hwm # 0 BY <2>1
  <2> QED BY Zenon, <2>2 DEF Never
<1> QED BY Zenon, <1>2, <1>3, <1>4

\* A quiet step: neither commands nor counts.
LEMMA Silent ==
    ASSUME Typed, FInv, UNCHANGED <<nread, skipped, nwritten, peerRead, hwm, cmds>>,
           \A x \in Ends : st'[x] = "active" =>
                /\ st[x] = "active" /\ out'[x] = out[x]
                /\ Load(yp'[out[x]]) = Load(yp[out[x]])
                /\ Open(yp[out[x]]) => Open(yp'[out[x]]),
           \A x \in Ends : \A h \in Pipes(cmds[x]) : Empty(yp'[h]),
           Never("hwm")' => Never("hwm")
    PROVE  FInv'
<1>1. \A x \in Ends : Credit(x)' BY Zenon DEF FInv, Credit
<1> QED BY Zenon, <1>1, Still

LEMMA WriteFlow ==
    ASSUME Counting, Typed, Hand, FInv, NEW p \in Ends, NEW kind \in {"single", "head", "tail", "credential"}, Write(p, kind)
    PROVE  FInv'
<1> DEFINE q == Peer(p)
           m == [n |-> started'[p], kind |-> kind]
           w == Weight(m)
           o == out[p]
<1>1. q \in Ends /\ q # p /\ Peer(p) = q /\ Peer(q) = p /\ \A x \in Ends : x = p \/ x = q BY Zenon, Two
<1>2. ~Acked(p) /\ st[p] = "active" BY Zenon DEF Write, CheckWrite, Acked
<1>3. yp[o] \in Ypipe BY Zenon, <1>2, There
<1>4. m \in Part /\ m # Delimiter
  <2>1. started'[p] \in Nat
    <3>1. started \in [Ends -> Nat] BY Zenon DEF Typed
    <3>2. mid[p] \in BOOLEAN BY Zenon DEF Typed
    <3>3. started'[p] = started[p] \/ started'[p] = started[p] + 1 BY Zenon, <3>1, <3>2 DEF Write
    <3> QED BY <3>1, <3>3
  <2> QED BY Zenon, <2>1 DEF Part, Delimiter
<1>5. w = (IF kind = "head" THEN 0 ELSE 1) /\ w \in Nat BY Zenon DEF Weight, More
<1>6. yp' = [yp EXCEPT ![o] = Written(yp[o], m)] BY Zenon DEF Write
<1>7. /\ Load(Written(yp[o], m)) = Load(yp[o]) + w /\ Load(yp[o]) \in Nat
      /\ Open(yp[o]) => Open(Written(yp[o], m))
  BY Zenon, <1>3, <1>4, LoadWritten, Loads
<1>8. UNCHANGED <<st, hwm, nread, skipped, peerRead, out, cmds, calls>> BY Zenon DEF Write, ctrlVars
<1> HIDE DEF q, m, w, o
<1>9. /\ yp'[o] = Written(yp[o], m)
      /\ ~Acked(q) => yp'[out[q]] = yp[out[q]]
      /\ \A x \in Ends : \A h \in Pipes(cmds[x]) : yp'[h] = yp[h]
  BY Zenon, <1>1, <1>2, <1>6, OutChanged DEF o, q
<1>10. nwritten \in [Ends -> Int] /\ nwritten[p] \in Int BY Zenon DEF FInv
<1>11. nwritten' \in [Ends -> Int] /\ nwritten'[p] = nwritten[p] + w /\ nwritten'[q] = nwritten[q]
  <2>1. nwritten' = [nwritten EXCEPT ![p] = IF kind = "head" THEN @ ELSE @ + 1] BY Zenon DEF Write
  <2> QED BY <1>1, <1>5, <1>10, <2>1
<1>12. Flow(p)'
  <2>1. Open(yp[o]) /\ nwritten[p] = Passed(q) + Load(yp[o]) BY Zenon, <1>1, <1>2 DEF FInv, Flow, o
  <2>2. Open(yp'[o]) /\ Load(yp'[o]) = Load(yp[o]) + w BY Zenon, <1>7, <1>9, <2>1
  <2>3. Passed(q) \in Nat BY Zenon, <1>1, PassedNat
  <2>4. nwritten'[p] = Passed(q) + Load(yp'[o]) BY <1>5, <1>7, <1>11, <2>1, <2>2, <2>3
  <2> QED BY Zenon, <1>1, <1>8, <2>2, <2>4 DEF Flow, o, Passed
<1>13. Flow(q)'
  <2>1. st[q] = "active" => ~Acked(q) BY Zenon DEF Acked
  <2> QED BY Zenon, <1>1, <1>8, <1>9, <1>11, <2>1 DEF FInv, Flow, Passed
<1>14. Fresh(p)' /\ Fresh(q)' BY Zenon, <1>1, <1>8, <1>9 DEF FInv, Fresh
<1>15. Credit(p)' /\ Credit(q)' BY Zenon, <1>1, <1>8 DEF FInv, Credit
<1>16. Told(p)' /\ Told(q)' BY Zenon, <1>1, <1>8 DEF FInv, Told, Never
<1>17. Room(q)' BY Zenon, <1>1, <1>8, <1>11 DEF FInv, Room, Never
<1>18. Room(p)'
  <2>1. hwm[p] \in Nat /\ peerRead[p] \in Nat BY Zenon, Types DEF Counts
  <2>2. hwm[p] > 0 => nwritten[p] - peerRead[p] < hwm[p] BY <1>10, <2>1 DEF Write, Full
  <2>3. hwm[p] > 0 => nwritten'[p] - peerRead[p] <= hwm[p] BY <1>5, <1>10, <1>11, <2>1, <2>2
  <2> QED BY Zenon, <1>8, <2>3 DEF Room
<1> QED BY Zenon, <1>1, <1>11, <1>12, <1>13, <1>14, <1>15, <1>16, <1>17, <1>18 DEF FInv

LEMMA WriteFullFlow ==
    ASSUME Typed, Hand, FInv, NEW p \in Ends, WriteFull(p)
    PROVE  FInv'
<1>1. UNCHANGED <<st, hwm, nread, skipped, nwritten, peerRead, out, yp, cmds, calls>>
  BY Zenon DEF WriteFull, countVars, memVars, userVars
<1> QED BY Zenon, <1>1, Silent, NeverBefore DEF FInv, Fresh


LEMMA WriteAbortFlow ==
    ASSUME Counting, Typed, Hand, FInv, NEW p \in Ends, WriteAbort(p)
    PROVE  FInv'
<1> DEFINE q == Peer(p)
<1>1. UNCHANGED <<st, hwm, nread, skipped, nwritten, peerRead, out, cmds, calls>> BY Zenon DEF WriteAbort, countVars
<1>2. q \in Ends /\ \A x \in Ends : x = p \/ x = q BY Zenon, Two
<1>3. CASE out[p] = NULL
  <2>1. yp' = yp BY Zenon, <1>3 DEF WriteAbort
  <2> QED BY Zenon, <1>1, <2>1, Silent, NeverBefore DEF FInv, Fresh
<1>4. CASE out[p] # NULL
  <2>1. ~Acked(p) BY Zenon, <1>4 DEF Hand, Joint
  <2>2. yp[out[p]] \in Ypipe BY Zenon, <2>1, There
  <2>3. yp' = [yp EXCEPT ![out[p]] = RolledBack(yp[out[p]])] BY Zenon, <1>4 DEF WriteAbort
  <2>4. /\ yp'[out[p]] = RolledBack(yp[out[p]])
        /\ ~Acked(q) => yp'[out[q]] = yp[out[q]]
        /\ \A x \in Ends : \A h \in Pipes(cmds[x]) : yp'[h] = yp[h]
    BY Zenon, <2>1, <2>3, OutChanged
  <2>5. /\ Load(yp'[out[p]]) = Load(yp[out[p]])
        /\ Open(yp[out[p]]) => Open(yp'[out[p]])
    BY Zenon, <2>2, <2>4, Loads
  <2> HIDE DEF q
  <2>6. st[q] = "active" => ~Acked(q) BY Zenon DEF Acked
  <2>7. \A x \in Ends : st'[x] = "active" =>
                /\ st[x] = "active" /\ out'[x] = out[x]
                /\ Load(yp'[out[x]]) = Load(yp[out[x]])
                /\ Open(yp[out[x]]) => Open(yp'[out[x]])
    BY Zenon, <1>1, <1>2, <2>4, <2>5, <2>6
  <2>8. \A x \in Ends : \A h \in Pipes(cmds[x]) : Empty(yp'[h]) BY Zenon, <2>4 DEF FInv, Fresh
  <2> QED BY Zenon, <1>1, <2>7, <2>8, Silent, NeverBefore
<1> QED BY Zenon, <1>3, <1>4

LEMMA FlushFlow ==
    ASSUME Counting, Typed, Hand, FInv, NEW p \in Ends, Flush(p)
    PROVE  FInv'
<1> DEFINE q == Peer(p)
           s == WakeUp(yp[out[p]])
<1>1. UNCHANGED <<st, hwm, nread, skipped, nwritten, peerRead, out, calls>>
  BY Zenon DEF Flush, ctrlVars, countVars, userVars
<1>2. q \in Ends /\ \A x \in Ends : x = p \/ x = q BY Zenon, Two
<1>3. ~Acked(p) BY Zenon DEF Flush, Hand, Joint
<1>4. yp[out[p]] \in Ypipe BY Zenon, <1>3, There
<1>5. yp' = [yp EXCEPT ![out[p]] = Flushed(yp[out[p]])] /\ SendTo(q, s) BY Zenon DEF Flush
<1>6. /\ yp'[out[p]] = Flushed(yp[out[p]])
      /\ ~Acked(q) => yp'[out[q]] = yp[out[q]]
      /\ \A x \in Ends : \A h \in Pipes(cmds[x]) : yp'[h] = yp[h]
  BY Zenon, <1>3, <1>5, OutChanged
<1>7. /\ Load(yp'[out[p]]) = Load(yp[out[p]])
      /\ Open(yp[out[p]]) => Open(yp'[out[p]])
  BY Zenon, <1>4, <1>6, Loads
<1>8. s \in Seq(Command) /\ Mute(s) /\ Plain(s) BY Zenon, MuteOnes, PlainOnes
<1> HIDE DEF s
<1>9. /\ \A x \in Ends : Credit(x)'
      /\ \A x \in Ends : Has(cmds'[x], "pipe_hwm") => Has(cmds[x], "pipe_hwm")
  BY Zenon, <1>1, <1>5, <1>8, MuteSent DEF FInv, Mute
<1>10. \A x \in Ends : Pipes(cmds'[x]) = Pipes(cmds[x]) BY Zenon, <1>5, <1>8, PlainPipes DEF Plain
<1> HIDE DEF q
<1>11. st[q] = "active" => ~Acked(q) BY Zenon DEF Acked
<1>12. \A x \in Ends : st'[x] = "active" =>
              /\ st[x] = "active" /\ out'[x] = out[x]
              /\ Load(yp'[out[x]]) = Load(yp[out[x]])
              /\ Open(yp[out[x]]) => Open(yp'[out[x]])
  BY Zenon, <1>1, <1>2, <1>6, <1>7, <1>11
<1>13. \A x \in Ends : \A h \in Pipes(cmds'[x]) : Empty(yp'[h]) BY Zenon, <1>6, <1>10 DEF FInv, Fresh
<1> QED BY Zenon, <1>1, <1>9, <1>12, <1>13, Still, NeverBefore

LEMMA ReadNothingFlow ==
    ASSUME Counting, Typed, Hand, FInv, NEW p \in Ends, ReadNothing(p)
    PROVE  FInv'
<1> DEFINE q == Peer(p)
           y == yp[in[p]]
           z == [y EXCEPT !.asleep = TRUE]
<1>1. UNCHANGED <<st, hwm, nread, skipped, nwritten, peerRead, out, cmds, calls>>
  BY Zenon DEF ReadNothing, countVars, userVars
<1>2. q \in Ends /\ (\A x \in Ends : x = p \/ x = q) /\ Fresh(q) BY Zenon, Two DEF FInv
<1>3. y \in Ypipe BY Zenon, There
<1>4. yp' = [yp EXCEPT ![in[p]] = z] BY Zenon DEF ReadNothing
<1>5. Load(z) = Load(y) /\ (Open(y) => Open(z)) BY Zenon, <1>3, Loads
<1>6. Empty(y) => Empty(z) BY Zenon, <1>3 DEF Empty, Ypipe
<1> HIDE DEF z
<1>7. /\ yp'[in[p]] = z
      /\ ~Acked(p) => yp'[out[p]] = yp[out[p]]
      /\ \A h \in Pipes(cmds[p]) : yp'[h] = yp[h]
      /\ \A h \in Pipes(cmds[q]) : h # in[p] => yp'[h] = yp[h]
      /\ ~Acked(q) =>
            \/ out[q] = in[p] /\ Pipes(cmds[q]) = {}
            \/ yp'[out[q]] = yp[out[q]] /\ Empty(yp[in[p]])
  BY Zenon, <1>2, <1>4, InChanged
<1> HIDE DEF q
<1>8. \A x \in Ends : st[x] = "active" => ~Acked(x) BY Zenon DEF Acked
<1>9. \A x \in Ends : st'[x] = "active" =>
              /\ st[x] = "active" /\ out'[x] = out[x]
              /\ Load(yp'[out[x]]) = Load(yp[out[x]])
              /\ Open(yp[out[x]]) => Open(yp'[out[x]])
  BY Zenon, <1>1, <1>2, <1>5, <1>7, <1>8
<1>10. \A h \in Pipes(cmds[p]) : Empty(yp'[h]) BY Zenon, <1>7 DEF FInv, Fresh
<1>11. \A h \in Pipes(cmds[q]) : Empty(yp'[h]) BY Zenon, <1>2, <1>6, <1>7 DEF Fresh
<1> QED BY Zenon, <1>1, <1>2, <1>9, <1>10, <1>11, Silent, NeverBefore


\* A message is read: its part leaves the ypipe, and the count goes up with it.
LEMMA ReadPartFlow ==
    ASSUME Counting, Typed, Hand, FInv, NEW p \in Ends, ReadPart(p)
    PROVE  FInv'
<1> DEFINE q == Peer(p)
           y == yp[in[p]]
           z == [y EXCEPT !.q = Tail(@)]
           w == Weight(Head(y.q))
           k == nread'[p]
           s == IF lwm[p] > 0 /\ k % lwm[p] = 0 THEN <<[c |-> "activate_write", v |-> k]>> ELSE <<>>
<1>1. UNCHANGED <<st, hwm, nwritten, peerRead, skipped, out, calls>>
  BY Zenon DEF ReadPart, ctrlVars
<1>2. q \in Ends /\ p # q /\ Peer(q) = p /\ (\A x \in Ends : x = p \/ x = q) /\ Fresh(q) /\ Fresh(p)
  BY Zenon, Two DEF FInv
<1>3. y \in Ypipe /\ y.q # <<>> BY Zenon, There DEF ReadPart, Inbound
<1>4. yp' = [yp EXCEPT ![in[p]] = z] BY Zenon DEF ReadPart
<1>5. Load(y) = Load(z) + w /\ Load(z) \in Nat /\ (Open(y) => Open(z)) BY Zenon, <1>3, LoadRead
<1>n. nread \in [Ends -> Nat] /\ peerRead \in [Ends -> Nat] /\ nwritten \in [Ends -> Int]
  BY Zenon, Types DEF Counts, FInv
<1>w. w \in Nat BY Zenon DEF Weight
<1>6. nread' = [nread EXCEPT ![p] = nread[p] + w]
  <2>1. nread' = [nread EXCEPT ![p] = IF More(Head(y.q)) THEN nread[p] ELSE nread[p] + 1]
    BY Zenon DEF ReadPart, Inbound
  <2>2. nread[p] \in Nat BY Zenon, <1>n
  <2>3. nread[p] + w = IF More(Head(y.q)) THEN nread[p] ELSE nread[p] + 1 BY <2>2 DEF Weight
  <2> HIDE DEF w, y
  <2> QED BY Zenon, <2>1, <2>3
<1>7. k = nread[p] + w /\ k \in Nat /\ nread[p] \in Nat /\ nread[p] <= k /\ nread'[q] = nread[q]
  BY <1>2, <1>6, <1>n, <1>w
<1>p. Passed(p)' = Passed(p) + w /\ Passed(q)' = Passed(q) /\ Passed(p) \in Nat
  <2>1. skipped[p] \in Nat BY Zenon, Types DEF Counts
  <2>2. nread'[p] = nread[p] + w BY Zenon, <1>7
  <2> HIDE DEF w
  <2>3. nread'[p] + skipped[p] = (nread[p] + skipped[p]) + w BY <1>7, <1>w, <2>1, <2>2
  <2>4. Passed(p)' = Passed(p) + w BY Zenon, <1>1, <2>3 DEF Passed
  <2>5. Passed(q)' = Passed(q) BY Zenon, <1>1, <1>7 DEF Passed
  <2> QED BY Zenon, <2>4, <2>5, PassedNat
<1>8. SendTo(q, s) BY Zenon DEF ReadPart
<1>9. s \in Seq(Command) /\ Pipes(s) = {} /\ ~Has(s, "pipe_hwm")
  <2> DEFINE x == [c |-> "activate_write", v |-> k]
  <2>1. x \in Command /\ x.c = "activate_write" BY Zenon, <1>7, Commands
  <2>4. s = <<>> \/ s = <<x>> BY Zenon
  <2> HIDE DEF x, s
  <2>2. CASE s = <<>> BY <2>2, Short
  <2>3. CASE s = <<x>>
    <3>1. Pipes(<<x>>) = {} /\ ~Has(<<x>>, "pipe_hwm") BY Zenon, <2>1, Short
    <3> QED BY <2>1, <2>3, <3>1
  <2> QED BY Zenon, <2>2, <2>3, <2>4
<1>10. \A i \in 1..Len(s) : s[i].c = "activate_write" => s[i].v = k OBVIOUS
<1>11. Empty(y) = FALSE BY Zenon, <1>3 DEF Empty
<1> HIDE DEF s, z, w, k, y
<1>12. /\ yp'[in[p]] = z
       /\ ~Acked(p) => yp'[out[p]] = yp[out[p]]
       /\ \A h \in Pipes(cmds[p]) : yp'[h] = yp[h]
       /\ \A h \in Pipes(cmds[q]) : h # in[p] => yp'[h] = yp[h]
       /\ ~Acked(q) => out[q] = in[p] /\ Pipes(cmds[q]) = {}
  <2>1. /\ yp'[in[p]] = z
        /\ ~Acked(p) => yp'[out[p]] = yp[out[p]]
        /\ \A h \in Pipes(cmds[p]) : yp'[h] = yp[h]
        /\ \A h \in Pipes(cmds[q]) : h # in[p] => yp'[h] = yp[h]
        /\ ~Acked(q) =>
             \/ out[q] = in[p] /\ Pipes(cmds[q]) = {}
             \/ yp'[out[q]] = yp[out[q]] /\ Empty(yp[in[p]])
    BY Zenon, <1>2, <1>4, InChanged
  <2> QED BY Zenon, <1>11, <2>1 DEF y
<1>13. cmds'[p] = cmds[p] /\ cmds'[q] = cmds[q] \o s BY Zenon, <1>8, <1>9, Sent
<1>14. cmds[q] \in Seq(Command) BY Zenon, <1>2 DEF Typed
<1>15. /\ \A d : Has(cmds[q] \o s, d) <=> Has(cmds[q], d) \/ Has(s, d)
       /\ Pipes(cmds[q] \o s) = Pipes(cmds[q]) \union Pipes(s)
  <2> HIDE DEF q
  <2> QED BY Zenon, <1>9, <1>14, Longer
<1> HIDE DEF q
<1>16. Flow(p)'
  <2> SUFFICES ASSUME st'[p] = "active" PROVE Open(yp'[out'[p]]) /\ nwritten'[p] = Passed(q)' + Load(yp'[out'[p]])
    BY Zenon DEF Flow, Passed, q
  <2>1. st[p] = "active" /\ ~Acked(p) BY Zenon, <1>1 DEF Acked
  <2>2. Open(yp[out[p]]) /\ nwritten[p] = Passed(q) + Load(yp[out[p]]) BY Zenon, <2>1 DEF FInv, Flow, q
  <2> QED BY Zenon, <1>1, <1>p, <1>12, <2>1, <2>2
<1>17. Flow(q)'
  <2> SUFFICES ASSUME st'[q] = "active" PROVE Open(yp'[out'[q]]) /\ nwritten'[q] = Passed(p)' + Load(yp'[out'[q]])
    BY Zenon, <1>2 DEF Flow, Passed
  <2>1. st[q] = "active" /\ ~Acked(q) BY Zenon, <1>1 DEF Acked
  <2>2. Open(yp[out[q]]) /\ nwritten[q] = Passed(p) + Load(yp[out[q]]) BY Zenon, <1>2, <2>1 DEF FInv, Flow
  <2>3. out[q] = in[p] /\ yp'[out[q]] = z /\ yp[out[q]] = y BY Zenon, <1>12, <2>1 DEF y
  <2>4. nwritten[q] = Passed(p) + (Load(z) + w) BY Zenon, <1>5, <2>2, <2>3
  <2>5. nwritten[q] = (Passed(p) + w) + Load(z) BY <1>5, <1>p, <1>w, <2>4
  <2>6. nwritten'[q] = Passed(p)' + Load(z) BY Zenon, <1>1, <1>p, <2>5
  <2> QED BY Zenon, <1>1, <1>5, <2>2, <2>3, <2>6
<1>18. Fresh(p)' BY Zenon, <1>2, <1>12, <1>13 DEF Fresh
<1>19. Fresh(q)'
  <2>1. in[p] \notin Pipes(cmds[q]) BY Zenon, <1>2, <1>11 DEF Fresh, y
  <2> QED BY Zenon, <1>2, <1>9, <1>12, <1>13, <1>15, <2>1 DEF Fresh
<1>20. Credit(p)' BY Zenon, <1>1, <1>2, <1>7, <1>13 DEF FInv, Credit, q
<1>21. Credit(q)'
  <2>1. Credits(cmds[q], peerRead[q], nread[p]) /\ peerRead[q] \in Nat BY Zenon, <1>2, <1>n DEF FInv, Credit
  <2>2. Credits(cmds[q] \o s, peerRead[q], k) BY Zenon, <1>7, <1>9, <1>10, <1>14, <2>1, CreditsLonger
  <2> QED BY Zenon, <1>1, <1>2, <1>13, <2>2 DEF Credit, k
<1>22. \A x \in Ends : Room(x)' BY Zenon, <1>1 DEF FInv, Room, Never
<1>23. Told(p)' /\ Told(q)' BY Zenon, <1>1, <1>2, <1>9, <1>13, <1>15 DEF FInv, Told, Never
<1>24. nwritten' \in [Ends -> Int] BY Zenon, <1>1, <1>n
<1> QED BY Zenon, <1>2, <1>16, <1>17, <1>18, <1>19, <1>20, <1>21, <1>22, <1>23, <1>24 DEF FInv

\* A credential is dropped: it leaves the ypipe, and nobody is told.
LEMMA SkipCredentialFlow ==
    ASSUME Counting, Typed, Hand, FInv, NEW p \in Ends, SkipCredential(p)
    PROVE  FInv'
<1> DEFINE q == Peer(p)
           y == yp[in[p]]
           z == [y EXCEPT !.q = Tail(@)]
<1>1. UNCHANGED <<st, hwm, nread, nwritten, peerRead, out, calls, cmds>>
  BY Zenon DEF SkipCredential, ctrlVars, userVars
<1>2. q \in Ends /\ p # q /\ Peer(q) = p /\ (\A x \in Ends : x = p \/ x = q) /\ Fresh(q) /\ Fresh(p)
  BY Zenon, Two DEF FInv
<1>3. y \in Ypipe /\ y.q # <<>> /\ Head(y.q).kind = "credential" BY Zenon, There DEF SkipCredential, Inbound
<1>4. yp' = [yp EXCEPT ![in[p]] = z] BY Zenon DEF SkipCredential
<1>5. Load(y) = Load(z) + 1 /\ Load(z) \in Nat /\ (Open(y) => Open(z))
  <2>1. Weight(Head(y.q)) = 1 BY Zenon, <1>3 DEF Weight, More
  <2> QED BY Zenon, <1>3, <2>1, LoadRead
<1>6. Passed(p)' = Passed(p) + 1 /\ Passed(q)' = Passed(q) /\ Passed(p) \in Nat
  <2>1. skipped \in [Ends -> Nat] /\ nread[p] \in Nat BY Zenon, Types DEF Counts
  <2>2. skipped' = [skipped EXCEPT ![p] = skipped[p] + 1] BY Zenon DEF SkipCredential
  <2>3. skipped'[p] = skipped[p] + 1 /\ skipped'[q] = skipped[q] BY Zenon, <1>2, <2>1, <2>2
  <2>4. nread[p] + skipped'[p] = (nread[p] + skipped[p]) + 1 BY <2>1, <2>3
  <2>5. Passed(p)' = Passed(p) + 1 BY Zenon, <1>1, <2>4 DEF Passed
  <2>6. Passed(q)' = Passed(q) BY Zenon, <1>1, <2>3 DEF Passed
  <2> QED BY Zenon, <2>5, <2>6, PassedNat
<1>7. Empty(y) = FALSE BY Zenon, <1>3 DEF Empty
<1> HIDE DEF z, y
<1>8. /\ yp'[in[p]] = z
      /\ ~Acked(p) => yp'[out[p]] = yp[out[p]]
      /\ \A h \in Pipes(cmds[p]) : yp'[h] = yp[h]
      /\ \A h \in Pipes(cmds[q]) : h # in[p] => yp'[h] = yp[h]
      /\ ~Acked(q) => out[q] = in[p]
  <2>1. /\ yp'[in[p]] = z
        /\ ~Acked(p) => yp'[out[p]] = yp[out[p]]
        /\ \A h \in Pipes(cmds[p]) : yp'[h] = yp[h]
        /\ \A h \in Pipes(cmds[q]) : h # in[p] => yp'[h] = yp[h]
        /\ ~Acked(q) =>
             \/ out[q] = in[p] /\ Pipes(cmds[q]) = {}
             \/ yp'[out[q]] = yp[out[q]] /\ Empty(yp[in[p]])
    BY Zenon, <1>2, <1>4, InChanged
  <2> QED BY Zenon, <1>7, <2>1 DEF y
<1> HIDE DEF q
<1>9. Flow(p)'
  <2> SUFFICES ASSUME st'[p] = "active" PROVE Open(yp'[out'[p]]) /\ nwritten'[p] = Passed(q)' + Load(yp'[out'[p]])
    BY Zenon DEF Flow, Passed, q
  <2>1. st[p] = "active" /\ ~Acked(p) BY Zenon, <1>1 DEF Acked
  <2>2. Open(yp[out[p]]) /\ nwritten[p] = Passed(q) + Load(yp[out[p]]) BY Zenon, <2>1 DEF FInv, Flow, q
  <2> QED BY Zenon, <1>1, <1>6, <1>8, <2>1, <2>2
<1>10. Flow(q)'
  <2> SUFFICES ASSUME st'[q] = "active" PROVE Open(yp'[out'[q]]) /\ nwritten'[q] = Passed(p)' + Load(yp'[out'[q]])
    BY Zenon, <1>2 DEF Flow, Passed
  <2>1. st[q] = "active" /\ ~Acked(q) BY Zenon, <1>1 DEF Acked
  <2>2. Open(yp[out[q]]) /\ nwritten[q] = Passed(p) + Load(yp[out[q]]) BY Zenon, <1>2, <2>1 DEF FInv, Flow
  <2>3. out[q] = in[p] /\ yp'[out[q]] = z /\ yp[out[q]] = y BY Zenon, <1>8, <2>1 DEF y
  <2>4. nwritten[q] = Passed(p) + (Load(z) + 1) BY Zenon, <1>5, <2>2, <2>3
  <2>5. nwritten[q] = (Passed(p) + 1) + Load(z) BY <1>5, <1>6, <2>4
  <2>6. nwritten'[q] = Passed(p)' + Load(z) BY Zenon, <1>1, <1>6, <2>5
  <2> QED BY Zenon, <1>1, <1>5, <2>2, <2>3, <2>6
<1>11. Fresh(p)' BY Zenon, <1>1, <1>2, <1>8 DEF Fresh
<1>12. Fresh(q)'
  <2>1. in[p] \notin Pipes(cmds[q]) BY Zenon, <1>2, <1>7 DEF Fresh, y
  <2> QED BY Zenon, <1>1, <1>2, <1>8, <2>1 DEF Fresh
<1>13. \A x \in Ends : Credit(x)' /\ Room(x)' /\ Told(x)' BY Zenon, <1>1 DEF FInv, Credit, Room, Told, Never
<1>14. nwritten' \in [Ends -> Int] BY Zenon, <1>1 DEF FInv
<1> QED BY Zenon, <1>2, <1>9, <1>10, <1>11, <1>12, <1>13, <1>14 DEF FInv

\* The delimiter is met: nothing the writer counts any more.
LEMMA ReadDelimiterFlow ==
    ASSUME Typed, Hand, FInv, NEW p \in Ends, ReadDelimiter(p)
    PROVE  FInv'
<1> DEFINE q == Peer(p)
           y == yp[in[p]]
           z == [y EXCEPT !.q = Tail(@)]
           a == <<Cmd("pipe_term_ack")>>
<1>1. UNCHANGED <<hwm, nread, skipped, nwritten, peerRead, calls>>
  BY Zenon DEF ReadDelimiter, countVars, userVars
<1>2. q \in Ends /\ p # q /\ Peer(q) = p /\ (\A x \in Ends : x = p \/ x = q) /\ Fresh(q) /\ Fresh(p) /\ Flow(q)
  BY Zenon, Two DEF FInv
<1>3. y \in Ypipe /\ y.q # <<>> /\ Head(y.q) = Delimiter BY Zenon, There DEF ReadDelimiter, Inbound
<1>4. yp' = [yp EXCEPT ![in[p]] = z] BY Zenon DEF ReadDelimiter
<1>5. ~Empty(y) BY Zenon, <1>3 DEF Empty
<1>6. ~Open(y)
  <2>1. y.q \in Seq(Part) BY Zenon, <1>3 DEF Ypipe
  <2>2. 1 \in 1..Len(y.q) /\ y.q[1] = Delimiter BY <1>3, <2>1
  <2> QED BY Zenon, <2>2 DEF Open
<1>7. st'[p] # "active" /\ st'[q] = st[q]
  <2>1. st \in [Ends -> States \union {"gone"}] BY Zenon, Types DEF History
  <2> QED BY Zenon, <1>2, <2>1 DEF ReadDelimiter
<1>8. \/ cmds' = cmds
      \/ SendTo(q, a)
  BY Zenon DEF ReadDelimiter
<1>9. a \in Seq(Command) /\ Mute(a) /\ Pipes(a) = {} BY Zenon, MuteCommands
<1> HIDE DEF y, z, a
<1>10. /\ \A h \in Pipes(cmds[p]) : yp'[h] = yp[h]
       /\ \A h \in Pipes(cmds[q]) : h # in[p] => yp'[h] = yp[h]
       /\ ~Acked(q) => out[q] = in[p]
  <2>1. /\ \A h \in Pipes(cmds[p]) : yp'[h] = yp[h]
        /\ \A h \in Pipes(cmds[q]) : h # in[p] => yp'[h] = yp[h]
        /\ ~Acked(q) =>
             \/ out[q] = in[p] /\ Pipes(cmds[q]) = {}
             \/ yp'[out[q]] = yp[out[q]] /\ Empty(yp[in[p]])
    BY Zenon, <1>2, <1>4, InChanged
  <2> QED BY Zenon, <1>5, <2>1 DEF y
<1>11. st[q] # "active" BY Zenon, <1>2, <1>6, <1>10 DEF Acked, Flow, y
<1>12. \A x \in Ends : st'[x] # "active" BY Zenon, <1>2, <1>7, <1>11
<1>13. /\ \A x \in Ends : Credit(x)'
       /\ \A x \in Ends : Has(cmds'[x], "pipe_hwm") => Has(cmds[x], "pipe_hwm")
       /\ \A x \in Ends : Pipes(cmds'[x]) = Pipes(cmds[x])
  <2>1. CASE cmds' = cmds BY Zenon, <1>1, <2>1 DEF FInv, Credit
  <2>2. CASE SendTo(q, a) BY Zenon, <1>1, <1>9, <2>2, MuteSent, PlainPipes DEF FInv, Mute
  <2> QED BY Zenon, <1>8, <2>1, <2>2
<1>14. in[p] \notin Pipes(cmds[q]) BY Zenon, <1>2, <1>5 DEF Fresh, y
<1>15. \A x \in Ends : \A h \in Pipes(cmds'[x]) : Empty(yp'[h])
  BY Zenon, <1>2, <1>10, <1>13, <1>14 DEF Fresh
<1> QED BY Zenon, <1>1, <1>12, <1>13, <1>15, Still, NeverBefore

LEMMA TerminateAgainFlow ==
    ASSUME Typed, Hand, FInv, NEW p \in Ends, NEW d \in BOOLEAN, TerminateAgain(p, d)
    PROVE  FInv'
<1>1. UNCHANGED <<st, hwm, nread, skipped, nwritten, peerRead, out, yp, cmds>> /\ Called(p, "term")
  BY Zenon DEF TerminateAgain, countVars, memVars
<1> QED BY Zenon, <1>1, Silent, NeverBefore DEF FInv, Fresh

\* An end that stops writing changes the ypipe it wrote to, and sends commands
\* that carry neither a count nor a ypipe.
LEMMA Stops ==
    ASSUME Typed, Hand, FInv, NEW p \in Ends, ~Acked(p),
           UNCHANGED <<hwm, nread, skipped, nwritten, peerRead>>,
           NEW e, yp' = [yp EXCEPT ![out[p]] = e],
           st'[p] # "active", st'[Peer(p)] = st[Peer(p)], out'[Peer(p)] = out[Peer(p)],
           NEW s \in Seq(Command), Mute(s), Pipes(s) = {}, SendTo(Peer(p), s),
           Never("hwm")' => Never("hwm")
    PROVE  FInv'
<1> DEFINE q == Peer(p)
<1>1. q \in Ends /\ \A x \in Ends : x = p \/ x = q BY Zenon, Two
<1>2. /\ ~Acked(q) => yp'[out[q]] = yp[out[q]]
      /\ \A x \in Ends : \A h \in Pipes(cmds[x]) : yp'[h] = yp[h]
  BY Zenon, OutChanged
<1>3. /\ \A x \in Ends : Credit(x)'
      /\ \A x \in Ends : Has(cmds'[x], "pipe_hwm") => Has(cmds[x], "pipe_hwm")
  BY Zenon, MuteSent DEF FInv, Mute
<1>4. \A x \in Ends : Pipes(cmds'[x]) = Pipes(cmds[x]) BY Zenon, PlainPipes
<1> HIDE DEF q
<1>5. st[q] = "active" => ~Acked(q) BY Zenon DEF Acked
<1>6. \A x \in Ends : st'[x] = "active" =>
              /\ st[x] = "active" /\ out'[x] = out[x]
              /\ Load(yp'[out[x]]) = Load(yp[out[x]])
              /\ Open(yp[out[x]]) => Open(yp'[out[x]])
  BY Zenon, <1>1, <1>2, <1>5 DEF q
<1>7. \A x \in Ends : \A h \in Pipes(cmds'[x]) : Empty(yp'[h]) BY Zenon, <1>2, <1>4 DEF FInv, Fresh
<1> QED BY Zenon, <1>3, <1>6, <1>7, Still


LEMMA TerminateNowFlow ==
    ASSUME Typed, Hand, FInv, NEW p \in Ends, TerminateNow(p)
    PROVE  FInv'
<1> DEFINE q == Peer(p)
           a == <<Cmd("pipe_term_ack")>>
<1>1. UNCHANGED <<hwm, nread, skipped, nwritten, peerRead>> /\ Called(p, "term") BY Zenon DEF TerminateNow, countVars
<1>2. q \in Ends /\ p # q BY Zenon, Two
<1>3. yp' = [yp EXCEPT ![out[p]] = RolledBack(yp[out[p]])] /\ SendTo(q, a) BY Zenon DEF TerminateNow
<1>4. ~Acked(p) BY Zenon DEF TerminateNow, Acked
<1>5. st'[p] # "active" /\ st'[q] = st[q] /\ out'[q] = out[q]
  BY Zenon, <1>2, Types DEF History, Memory, TerminateNow, DropOut
<1>6. a \in Seq(Command) /\ Mute(a) /\ Pipes(a) = {} BY Zenon, MuteCommands
<1>7. Never("hwm")' => Never("hwm") BY Zenon, <1>1, NeverBefore
<1> HIDE DEF a
<1> QED BY Zenon, <1>1, <1>3, <1>4, <1>5, <1>6, <1>7, Stops

\* What terminate() sends: pipe_term if it has to ask, and a wake-up.
LEMMA TerminateSends ==
    ASSUME NEW b \in BOOLEAN, NEW y
    PROVE  LET s == (IF b THEN <<Cmd("pipe_term")>> ELSE <<>>) \o WakeUp(y) IN
           s \in Seq(Command) /\ Mute(s) /\ Pipes(s) = {}
<1> DEFINE t == IF b THEN <<Cmd("pipe_term")>> ELSE <<>>
           w == WakeUp(y)
<1>1. w \in Seq(Command) /\ Mute(w) /\ Pipes(w) = {} BY Zenon, MuteOnes, PlainOnes DEF Plain
<1>2. t \in Seq(Command) /\ Mute(t) /\ Pipes(t) = {}
  <2>1. CASE b BY Zenon, <2>1, MuteCommands
  <2>2. CASE ~b BY <2>2, MuteOnes, Short
  <2> QED BY Zenon, <2>1, <2>2
<1> HIDE DEF t, w
<1>3. /\ t \o w \in Seq(Command) /\ \A c : Has(t \o w, c) <=> Has(t, c) \/ Has(w, c)
      /\ Pipes(t \o w) = Pipes(t) \union Pipes(w)
  BY Zenon, <1>1, <1>2, Longer
<1>4. Mute(t \o w) /\ Pipes(t \o w) = {} BY Zenon, <1>1, <1>2, <1>3 DEF Mute
<1> QED BY Zenon, <1>3, <1>4 DEF t, w

LEMMA TerminateFlow ==
    ASSUME Typed, Hand, FInv, NEW p \in Ends, NEW d \in BOOLEAN, Terminate(p, d)
    PROVE  FInv'
<1> DEFINE q == Peer(p)
           y == Written(RolledBack(yp[out[p]]), Delimiter)
           s == (IF Asks(p) THEN <<Cmd("pipe_term")>> ELSE <<>>) \o WakeUp(y)
<1>1. UNCHANGED <<hwm, nread, skipped, nwritten, peerRead, out>> /\ Called(p, "term") BY Zenon DEF Terminate, countVars
<1>2. q \in Ends /\ p # q BY Zenon, Two
<1>3. yp' = [yp EXCEPT ![out[p]] = Flushed(y)] /\ SendTo(q, s) BY Zenon DEF Terminate
<1>4. ~Acked(p) BY Zenon DEF Terminate, Asks, Acked
<1>5. st'[p] # "active" /\ st'[q] = st[q]
  <2>1. st \in [Ends -> States \union {"gone"}] BY Zenon, Types DEF History
  <2>2. st' = [st EXCEPT ![p] = IF Asks(p) THEN "term_req_sent1" ELSE st[p]] BY Zenon DEF Terminate
  <2>3. Asks(p) \/ st[p] = "waiting_for_delimiter" BY Zenon DEF Terminate
  <2> QED BY Zenon, <1>2, <2>1, <2>2, <2>3
<1>6. Asks(p) \in BOOLEAN BY DEF Asks
<1>7. s \in Seq(Command) /\ Mute(s) /\ Pipes(s) = {} BY Zenon, <1>6, TerminateSends
<1>8. Never("hwm")' => Never("hwm") BY Zenon, <1>1, NeverBefore
<1> HIDE DEF s, y
<1> QED BY Zenon, <1>1, <1>3, <1>4, <1>5, <1>7, <1>8, Stops


\* A new ypipe is created, and the peer told of it.
LEMMA HiccupFlow ==
    ASSUME Counting, Typed, Hand, FInv, NEW p \in Ends, Hiccup(p)
    PROVE  FInv'
<1> PICK n : n = Len(yp) + 1 BY Zenon
<1> DEFINE q == Peer(p)
           c == [c |-> "hiccup", pipe |-> n]
           s == <<c>>
<1>1. UNCHANGED <<st, hwm, nread, skipped, nwritten, peerRead, out>> /\ Called(p, "hiccup") BY Zenon DEF Hiccup, countVars
<1>2. q \in Ends /\ (\A x \in Ends : x = p \/ x = q) BY Zenon, Two
<1>3. yp' = Append(yp, NewYpipe) /\ SendTo(q, s) BY Zenon DEF Hiccup
<1>4. yp \in Seq(Ypipe) /\ NewYpipe \in Ypipe BY Zenon, Types, FirstYpipe DEF Memory
<1>5. Len(yp) \in Nat /\ n \in Nat \ {NULL} BY <1>4 DEF NULL
<1>6. yp'[n] = NewYpipe /\ \A i \in 1..Len(yp) : yp'[i] = yp[i] BY <1>3, <1>4
<1>7. c \in Command /\ c.c = "hiccup" /\ c.pipe = n BY Zenon, <1>5, Commands
<1> HIDE DEF c
<1>8. s \in Seq(Command) /\ Mute(s) /\ Pipes(s) = {n}
  <2>1. Mute(<<c>>) BY Zenon, <1>7, MuteOnes
  <2>2. Pipes(<<c>>) = {n} BY Zenon, <1>7, Short
  <2> QED BY <1>7, <2>1, <2>2
<1> HIDE DEF s
<1>9. cmds'[p] = cmds[p] /\ cmds'[q] = cmds[q] \o s BY Zenon, <1>3, <1>8, Sent
<1>10. Pipes(cmds[q] \o s) = Pipes(cmds[q]) \union {n}
  <2>1. cmds[q] \in Seq(Command) BY Zenon, <1>2 DEF Typed
  <2> HIDE DEF q
  <2>2. Pipes(cmds[q] \o s) = Pipes(cmds[q]) \union Pipes(s) BY Zenon, <1>8, <2>1, Longer
  <2> QED BY Zenon, <1>8, <2>2
<1>11. /\ \A x \in Ends : Credit(x)'
       /\ \A x \in Ends : Has(cmds'[x], "pipe_hwm") => Has(cmds[x], "pipe_hwm")
  BY Zenon, <1>1, <1>3, <1>8, MuteSent DEF FInv, Mute
<1> HIDE DEF q
<1>12. \A x \in Ends : st[x] = "active" => out[x] \in 1..Len(yp)
  <2> TAKE x \in Ends
  <2> HAVE st[x] = "active"
  <2>1. out[x] # NULL BY Zenon, Two DEF Hand, Joint, Acked
  <2>2. out[x] \in Nat /\ out[x] <= Len(yp) BY Zenon, Indices
  <2> QED BY <1>5, <2>1, <2>2 DEF NULL
<1>13. \A x \in Ends : st'[x] = "active" =>
              /\ st[x] = "active" /\ out'[x] = out[x]
              /\ Load(yp'[out[x]]) = Load(yp[out[x]])
              /\ Open(yp[out[x]]) => Open(yp'[out[x]])
  BY Zenon, <1>1, <1>6, <1>12
<1>14. \A x \in Ends : \A h \in Pipes(cmds[x]) : Empty(yp'[h])
  <2> TAKE x \in Ends
  <2> TAKE h \in Pipes(cmds[x])
  <2>1. Empty(yp[h]) BY Zenon DEF FInv, Fresh
  <2>2. h \in Nat /\ 0 < h /\ h <= Len(yp) BY Zenon, Indices
  <2>3. h \in 1..Len(yp) BY <1>5, <2>2
  <2> QED BY Zenon, <1>6, <2>1, <2>3
<1>15. \A x \in Ends : \A h \in Pipes(cmds'[x]) : Empty(yp'[h])
  BY Zenon, <1>2, <1>6, <1>9, <1>10, <1>14, LoadEmpty
<1> QED BY Zenon, <1>1, <1>11, <1>13, <1>15, Still, NeverBefore

\* New watermarks: from here on nothing is said of them.
LEMMA SetHwmsFlow ==
    ASSUME Bounds, Typed, Hand, FInv, NEW p \in Ends, NEW i \in NewHwms, NEW o \in NewHwms, SetHwms(p, i, o)
    PROVE  FInv'
<1> DEFINE c == [c |-> "pipe_hwm", in |-> o, out |-> i]
           s == <<c>>
<1>1. UNCHANGED <<st, nread, skipped, nwritten, peerRead, out, yp>> /\ Called(p, "hwm") BY Zenon DEF SetHwms, countVars, memVars
<1>2. c \in Command /\ c.c = "pipe_hwm" BY Zenon, Commands DEF Bounds
<1>3. SendTo(Peer(p), s) BY Zenon DEF SetHwms
<1> HIDE DEF c
<1>4. s \in Seq(Command) /\ ~Has(s, "activate_write") /\ Pipes(s) = {}
  <2>1. ~Has(<<c>>, "activate_write") BY Zenon, <1>2, Short
  <2>2. Pipes(<<c>>) = {} BY Zenon, <1>2, Short
  <2> QED BY <1>2, <2>1, <2>2
<1> HIDE DEF s
<1>5. \A x \in Ends : Credit(x)' BY Zenon, <1>1, <1>3, <1>4, MuteSent DEF FInv
<1>6. \A x \in Ends : Pipes(cmds'[x]) = Pipes(cmds[x]) BY Zenon, <1>3, <1>4, PlainPipes
<1>7. \A x \in Ends : \A h \in Pipes(cmds'[x]) : Empty(yp'[h]) BY Zenon, <1>1, <1>6 DEF FInv, Fresh
<1>8. ~Never("hwm")' BY Zenon, <1>1, NeverBefore
<1> QED BY Zenon, <1>1, <1>5, <1>7, <1>8, Still

\* A command is taken, with an answer that brings no ypipe.
LEMMA FewerPipes ==
    ASSUME Typed, Hand, NEW p \in Ends, NEW c, Receive(p, c),
           NEW s \in Seq(Command), Pipes(s) = {}, Reply(p, s)
    PROVE  \A x \in Ends : Pipes(cmds'[x]) \subseteq Pipes(cmds[x])
<1> DEFINE q == Peer(p)
<1>1. q \in Ends /\ \A x \in Ends : x = p \/ x = q BY Zenon, Two
<1>2. cmds[p] # <<>> /\ cmds[q] \in Seq(Command) BY Zenon, Taken
<1>3. cmds'[p] = Tail(cmds[p]) /\ cmds'[q] = cmds[q] \o s BY Zenon, <1>2, Replied
<1>4. Pipes(cmds[p]) = Pipes(Tail(cmds[p])) \union (IF c = "hiccup" THEN {Head(cmds[p]).pipe} ELSE {})
  BY Zenon, Taken
<1>5. Pipes(cmds[q] \o s) = Pipes(cmds[q]) \union {} BY Zenon, <1>2, Longer
<1> HIDE DEF q
<1> QED BY Zenon, <1>1, <1>3, <1>4, <1>5

\* A command is processed that changes neither counts nor ypipes, and answered.
LEMMA Answers ==
    ASSUME Typed, Hand, FInv, NEW p \in Ends, NEW c, Receive(p, c),
           NEW s \in Seq(Command), Mute(s), Pipes(s) = {}, Reply(p, s),
           UNCHANGED <<nread, skipped, nwritten, peerRead, calls>>,
           Never("hwm") => hwm' = hwm,
           \A x \in Ends : st'[x] = "active" =>
                /\ st[x] = "active" /\ out'[x] = out[x]
                /\ yp'[out[x]] = yp[out[x]],
           \A x \in Ends : \A h \in Pipes(cmds[x]) : Empty(yp'[h])
    PROVE  FInv'
<1>1. /\ \A x \in Ends : Credit(x)'
      /\ \A x \in Ends : Has(cmds'[x], "pipe_hwm") => Has(cmds[x], "pipe_hwm")
  BY Zenon, MuteTaken DEF FInv
<1>2. \A x \in Ends : Pipes(cmds'[x]) \subseteq Pipes(cmds[x]) BY Zenon, FewerPipes
<1>3. \A x \in Ends : \A h \in Pipes(cmds'[x]) : Empty(yp'[h]) BY Zenon, <1>2
<1> QED BY Zenon, <1>1, <1>3, Still, NeverBefore

\* Commands with no answer.
LEMMA NoAnswer ==
    <<>> \in Seq(Command) /\ Mute(<<>>) /\ Pipes(<<>>) = {}
BY MuteOnes, Short

LEMMA ActivateReadFlow ==
    ASSUME Typed, Hand, FInv, NEW p \in Ends, process_activate_read(p)
    PROVE  FInv'
<1>1. UNCHANGED <<st, hwm, nread, skipped, nwritten, peerRead, out, yp, calls>>
  BY Zenon DEF process_activate_read, countVars, memVars, userVars
<1>2. Receive(p, "activate_read") /\ Reply(p, <<>>) BY Zenon DEF process_activate_read
<1>3. \A x \in Ends : \A h \in Pipes(cmds[x]) : Empty(yp'[h]) BY Zenon, <1>1 DEF FInv, Fresh
<1> QED BY Zenon, <1>1, <1>2, <1>3, NoAnswer, Answers

LEMMA PipeHwmFlow ==
    ASSUME Typed, Hand, FInv, NEW p \in Ends, process_pipe_hwm(p)
    PROVE  FInv'
<1>1. UNCHANGED <<st, nread, skipped, nwritten, peerRead, out, yp, calls>>
  BY Zenon DEF process_pipe_hwm, countVars, memVars, userVars
<1>2. Receive(p, "pipe_hwm") /\ Reply(p, <<>>) BY Zenon DEF process_pipe_hwm
<1>3. \A x \in Ends : \A h \in Pipes(cmds[x]) : Empty(yp'[h]) BY Zenon, <1>1 DEF FInv, Fresh
<1>4. ~Never("hwm")
  <2>1. Has(cmds[p], "pipe_hwm") BY Zenon, <1>2, Taken
  <2> QED BY Zenon, <2>1 DEF FInv, Told
<1> QED BY Zenon, <1>1, <1>2, <1>3, <1>4, NoAnswer, Answers

\* An end that is asked to go stops writing, and may acknowledge at once.
LEMMA PipeTermFlow ==
    ASSUME Typed, Hand, FInv, NEW p \in Ends, process_pipe_term(p)
    PROVE  FInv'
<1> DEFINE q == Peer(p)
           a == <<Cmd("pipe_term_ack")>>
<1>1. UNCHANGED <<hwm, nread, skipped, nwritten, peerRead, yp, calls>>
  BY Zenon DEF process_pipe_term, countVars, userVars
<1>2. Receive(p, "pipe_term") /\ (Reply(p, <<>>) \/ Reply(p, a)) BY Zenon DEF process_pipe_term
<1>3. \A x \in Ends : \A h \in Pipes(cmds[x]) : Empty(yp'[h]) BY Zenon, <1>1 DEF FInv, Fresh
<1>4. q \in Ends /\ p # q /\ \A x \in Ends : x = p \/ x = q BY Zenon, Two
<1>5. st'[p] # "active" /\ st'[q] = st[q] /\ out'[q] = out[q]
  BY Zenon, <1>4, Types DEF History, Memory, process_pipe_term, DropOut
<1>6. \A x \in Ends : st'[x] = "active" => st[x] = "active" /\ out'[x] = out[x] /\ yp'[out[x]] = yp[out[x]]
  BY Zenon, <1>1, <1>4, <1>5
<1>7. a \in Seq(Command) /\ Mute(a) /\ Pipes(a) = {} BY Zenon, MuteCommands
<1> HIDE DEF a, q
<1>8. CASE Reply(p, <<>>) BY Zenon, <1>1, <1>2, <1>3, <1>6, <1>8, NoAnswer, Answers
<1>9. CASE Reply(p, a) BY Zenon, <1>1, <1>2, <1>3, <1>6, <1>7, <1>9, Answers
<1> QED BY Zenon, <1>2, <1>8, <1>9

\* An end that goes deletes the ypipe it read from.
LEMMA PipeTermAckFlow ==
    ASSUME Counting, Typed, Hand, FInv, NEW p \in Ends, process_pipe_term_ack(p)
    PROVE  FInv'
<1> DEFINE q == Peer(p)
           a == <<Cmd("pipe_term_ack")>>
<1>1. UNCHANGED <<hwm, nread, skipped, nwritten, peerRead, calls>>
  BY Zenon DEF process_pipe_term_ack, countVars, userVars
<1>2. Receive(p, "pipe_term_ack") /\ (Reply(p, <<>>) \/ Reply(p, a)) BY Zenon DEF process_pipe_term_ack
<1>3. yp' = [yp EXCEPT ![in[p]] = NewYpipe] BY Zenon DEF process_pipe_term_ack
<1>4. q \in Ends /\ p # q /\ \A x \in Ends : x = p \/ x = q BY Zenon, Two
<1>5. st'[p] # "active" /\ st'[q] = st[q] /\ out'[q] = out[q]
  BY Zenon, <1>4, Types DEF History, Memory, process_pipe_term_ack
<1>6. \A x \in Ends : \A h \in Pipes(cmds[x]) : Empty(yp'[h])
  <2> TAKE x \in Ends
  <2> TAKE h \in Pipes(cmds[x])
  <2>1. Empty(yp[h]) BY Zenon DEF FInv, Fresh
  <2>2. DOMAIN yp = 1..Len(yp) BY Zenon, LenProperties DEF Typed
  <2>n. h \in Nat /\ 0 < h /\ h <= Len(yp) /\ Len(yp) \in Nat BY Zenon, Indices
  <2>i. h \in 1..Len(yp) BY <2>n
  <2>3. yp'[h] = yp[h] \/ yp'[h] = NewYpipe BY Zenon, <1>3, <2>2, <2>i
  <2> QED BY Zenon, <2>1, <2>3, LoadEmpty
<1>7. a \in Seq(Command) /\ Mute(a) /\ Pipes(a) = {} BY Zenon, MuteCommands
<1>8. Acked(q)
  <2>1. Has(cmds[p], "pipe_term_ack") BY Zenon, <1>2, Taken
  <2>2. Joint(q) /\ Peer(q) = p BY Zenon, <1>4, Two DEF Hand
  <2> QED BY Zenon, <2>1, <2>2 DEF Joint
<1>9. st[q] # "active" BY Zenon, <1>8 DEF Acked
<1>10. \A x \in Ends : st'[x] = "active" => st[x] = "active" /\ out'[x] = out[x] /\ yp'[out[x]] = yp[out[x]]
  BY Zenon, <1>4, <1>5, <1>9
<1> HIDE DEF a, q
<1>11. CASE Reply(p, <<>>) BY Zenon, <1>1, <1>2, <1>6, <1>10, <1>11, NoAnswer, Answers
<1>12. CASE Reply(p, a) BY Zenon, <1>1, <1>2, <1>6, <1>7, <1>10, <1>12, Answers
<1> QED BY Zenon, <1>2, <1>11, <1>12


\* The writer learns how much has been read.
LEMMA ActivateWriteFlow ==
    ASSUME Typed, Hand, FInv, NEW p \in Ends, process_activate_write(p)
    PROVE  FInv'
<1> DEFINE q == Peer(p)
           v == Head(cmds[p]).v
<1>1. q \in Ends /\ q # p /\ Peer(p) = q /\ Peer(q) = p /\ \A x \in Ends : x = p \/ x = q BY Zenon, Two
<1>2. UNCHANGED <<st, hwm, nread, skipped, nwritten, out, yp, calls>>
  BY Zenon DEF process_activate_write, memVars, userVars
<1>3. Receive(p, "activate_write") /\ Reply(p, <<>>) /\ peerRead' = [peerRead EXCEPT ![p] = v]
  BY Zenon DEF process_activate_write
<1>4. /\ cmds[p] # <<>> /\ cmds[p] \in Seq(Command) /\ cmds[q] \in Seq(Command)
      /\ Head(cmds[p]).c = "activate_write"
      /\ \A d : Has(Tail(cmds[p]), d) => Has(cmds[p], d)
  BY Zenon, <1>3, Taken
<1>5. cmds'[p] = Tail(cmds[p]) /\ cmds'[q] = cmds[q]
  <2>1. cmds'[p] = Tail(cmds[p]) /\ cmds'[q] = cmds[q] \o <<>> BY Zenon, <1>3, <1>4, NoAnswer, Replied
  <2>2. cmds[q] \o <<>> = cmds[q] BY Zenon, <1>4, ConcatEmptySeq
  <2> QED BY Zenon, <2>1, <2>2
<1>6. \A x \in Ends : Pipes(cmds'[x]) \subseteq Pipes(cmds[x]) BY Zenon, <1>3, NoAnswer, FewerPipes
<1>7. peerRead[p] \in Nat /\ nread[q] \in Nat /\ hwm[p] \in Nat BY Zenon, <1>1, Types DEF Counts
<1>8. Credits(cmds[p], peerRead[p], nread[q]) BY Zenon, <1>1 DEF FInv, Credit
<1>9. peerRead[p] <= v /\ Credits(Tail(cmds[p]), v, nread[q]) /\ v \in Nat
  BY Zenon, <1>4, <1>7, <1>8, CreditsShorter
<1> HIDE DEF q, v
<1>10. peerRead'[p] = v /\ peerRead'[q] = peerRead[q]
  <2>1. peerRead \in [Ends -> Nat] BY Zenon, Types DEF Counts
  <2> QED BY Zenon, <1>1, <1>3, <2>1
<1>11. Credit(p)' /\ Credit(q)'
  <2>1. Credit(q) BY Zenon, <1>1 DEF FInv
  <2> QED BY Zenon, <1>1, <1>2, <1>5, <1>9, <1>10, <2>1 DEF Credit
<1>12. Room(p)' /\ Room(q)'
  <2>1. nwritten[p] \in Int BY Zenon DEF FInv
  <2>2. Room(p) /\ Room(q) BY Zenon, <1>1 DEF FInv
  <2>3. hwm[p] > 0 /\ nwritten[p] - peerRead[p] <= hwm[p] => nwritten[p] - v <= hwm[p] BY <1>7, <1>9, <2>1
  <2> QED BY Zenon, <1>2, <1>10, <2>2, <2>3 DEF Room, Never
<1>13. \A x \in Ends : Flow(x)' BY Zenon, <1>2 DEF FInv, Flow, Passed
<1>14. \A x \in Ends : Fresh(x)' BY Zenon, <1>2, <1>6 DEF FInv, Fresh
<1>15. Told(p)' /\ Told(q)' BY Zenon, <1>1, <1>2, <1>4, <1>5 DEF FInv, Told, Never
<1> QED BY Zenon, <1>1, <1>2, <1>11, <1>12, <1>13, <1>14, <1>15 DEF FInv

\* The messages in the old ypipe are dropped, and taken off the count.
LEMMA HiccupTakenFlow ==
    ASSUME Counting, Typed, Hand, FInv, NEW p \in Ends, process_hiccup(p)
    PROVE  FInv'
<1> DEFINE q == Peer(p)
           y == yp[out[p]]
           k == Head(cmds[p]).pipe
           d == Messages(y.q \o Complete(y.u))
<1>1. q \in Ends /\ q # p /\ Peer(p) = q /\ Peer(q) = p /\ \A x \in Ends : x = p \/ x = q BY Zenon, Two
<1>2. UNCHANGED <<st, hwm, nread, skipped, peerRead, calls>> BY Zenon DEF process_hiccup, Plugged, userVars
<1>3. Receive(p, "hiccup") /\ Reply(p, <<>>) BY Zenon DEF process_hiccup, Plugged
<1>4. yp' = [yp EXCEPT ![out[p]] = NewYpipe] /\ out' = [out EXCEPT ![p] = k]
  BY Zenon DEF process_hiccup, Plugged
<1>5. nwritten' = [nwritten EXCEPT ![p] = @ - d] BY Zenon DEF process_hiccup, Plugged
<1>6. k \in Pipes(cmds[p])
  <2>1. Pipes(cmds[p]) = Pipes(Tail(cmds[p])) \union (IF "hiccup" = "hiccup" THEN {k} ELSE {})
    BY Zenon, <1>3, Taken
  <2> QED BY Zenon, <2>1
<1>7. ~Acked(p)
  <2>1. Joint(q) BY Zenon, <1>1 DEF Hand
  <2>2. Unasked(p) BY Zenon, <1>1, <1>6, <2>1 DEF Joint
  <2> QED BY Zenon, <2>2 DEF Unasked, Acked
<1>8. y \in Ypipe BY Zenon, <1>7, There
<1>9. d = Load(y) /\ Load(y) \in Nat BY Zenon, <1>8, Loads
<1> HIDE DEF q, y, k, d
<1>10. /\ ~Acked(q) => yp'[out[q]] = yp[out[q]]
       /\ \A x \in Ends : \A h \in Pipes(cmds[x]) : yp'[h] = yp[h]
  BY Zenon, <1>4, <1>7, OutChanged DEF q
<1>11. /\ \A x \in Ends : Credit(x)'
       /\ \A x \in Ends : Has(cmds'[x], "pipe_hwm") => Has(cmds[x], "pipe_hwm")
  BY Zenon, <1>2, <1>3, NoAnswer, MuteTaken DEF FInv
<1>12. \A x \in Ends : Pipes(cmds'[x]) \subseteq Pipes(cmds[x]) BY Zenon, <1>3, NoAnswer, FewerPipes
<1>13. out'[p] = k /\ out'[q] = out[q]
  <2>1. out \in [Ends -> 0..Len(yp)] BY Zenon DEF Typed
  <2> QED BY Zenon, <1>1, <1>4, <2>1
<1>14. nwritten \in [Ends -> Int] /\ nwritten[p] \in Int BY Zenon DEF FInv
<1>15. nwritten' \in [Ends -> Int] /\ nwritten'[p] = nwritten[p] - d /\ nwritten'[q] = nwritten[q]
  BY <1>1, <1>5, <1>9, <1>14
<1>16. Flow(p)'
  <2>1. Empty(yp'[k]) BY Zenon, <1>6, <1>10 DEF FInv, Fresh
  <2>2. Open(yp'[k]) /\ Load(yp'[k]) = 0 BY Zenon, <2>1, LoadEmpty
  <2>3. st[p] = "active" => nwritten[p] = Passed(q) + Load(y) BY Zenon, <1>1 DEF FInv, Flow, y
  <2>4. Passed(q) \in Nat BY Zenon, <1>1, PassedNat
  <2>5. st[p] = "active" => nwritten'[p] = Passed(q) + 0 BY <1>9, <1>14, <1>15, <2>3, <2>4
  <2> QED BY Zenon, <1>1, <1>2, <1>13, <2>2, <2>5 DEF Flow, Passed
<1>17. Flow(q)'
  <2>1. st[q] = "active" => ~Acked(q) BY Zenon DEF Acked
  <2> QED BY Zenon, <1>1, <1>2, <1>10, <1>13, <1>15, <2>1 DEF FInv, Flow, Passed
<1>18. \A x \in Ends : Fresh(x)' BY Zenon, <1>10, <1>12 DEF FInv, Fresh
<1>19. Room(p)' /\ Room(q)'
  <2>1. hwm[p] \in Nat /\ peerRead[p] \in Nat BY Zenon, Types DEF Counts
  <2>2. Room(p) /\ Room(q) BY Zenon, <1>1 DEF FInv
  <2>3. nwritten[p] - peerRead[p] <= hwm[p] => nwritten'[p] - peerRead[p] <= hwm[p] BY <1>9, <1>14, <1>15, <2>1
  <2> QED BY Zenon, <1>2, <1>15, <2>2, <2>3 DEF Room, Never
<1>20. \A x \in Ends : Told(x)' BY Zenon, <1>2, <1>11 DEF FInv, Told, Never
<1> QED BY Zenon, <1>1, <1>11, <1>15, <1>16, <1>17, <1>18, <1>19, <1>20 DEF FInv


-----------------------------------------------------------------------------
(* The theorems *)

LEMMA FlowBegins ==
    ASSUME Counting, Bounds, Init
    PROVE  FInv
<1>1. \A p \in Ends : cmds[p] = <<>> /\ nread[p] = 0 /\ skipped[p] = 0 /\ nwritten[p] = 0 /\ peerRead[p] = 0
  BY Zenon DEF Init
<1>2. nwritten \in [Ends -> Int] BY DEF Init
<1>3. \A p \in Ends : ~Has(cmds[p], "pipe_hwm") /\ Pipes(cmds[p]) = {} BY Zenon, <1>1, Short
<1>4. \A p \in Ends : Flow(p)
  <2> TAKE p \in Ends
  <2>1. yp[out[p]] = NewYpipe BY Zenon DEF Init, Ends
  <2>2. Open(yp[out[p]]) /\ Load(yp[out[p]]) = 0 BY Zenon, <2>1, LoadEmpty
  <2>3. nwritten[p] = 0 /\ nread[Peer(p)] = 0 /\ skipped[Peer(p)] = 0 BY Zenon, <1>1, Two
  <2> QED BY <2>2, <2>3 DEF Flow, Passed
<1>5. \A p \in Ends : Fresh(p) BY Zenon, <1>3 DEF Fresh
<1>6. \A p \in Ends : Credit(p)
  <2> TAKE p \in Ends
  <2>1. cmds[p] = <<>> /\ peerRead[p] = 0 /\ nread[Peer(p)] = 0 BY Zenon, <1>1, Two
  <2>2. Len(<<>>) = 0 BY Zenon, EmptySeq
  <2>3. Credits(<<>>, 0, 0) BY <2>2 DEF Credits
  <2> QED BY Zenon, <2>1, <2>3 DEF Credit
<1>7. \A p \in Ends : Room(p)
  <2> TAKE p \in Ends
  <2>1. hwm[p] \in Nat BY Zenon DEF Init, Bounds
  <2> QED BY <1>1, <2>1 DEF Room
<1>8. \A p \in Ends : Told(p) BY Zenon, <1>3 DEF Told
<1> QED BY Zenon, <1>2, <1>4, <1>5, <1>6, <1>7, <1>8 DEF FInv

LEMMA FlowContinues ==
    ASSUME Counting, Bounds, IInv, FInv, [Next]_vars
    PROVE  FInv'
<1> USE DEF IInv
<1>1. CASE UNCHANGED vars BY Zenon, <1>1, Silent DEF vars, FInv, Fresh, Never
<1>2. ASSUME NEW p \in Ends, NEW kind \in {"single", "head", "tail", "credential"}, Write(p, kind) PROVE FInv'
  BY Zenon, <1>2, WriteFlow
<1>3. ASSUME NEW p \in Ends, WriteFull(p) PROVE FInv' BY Zenon, <1>3, WriteFullFlow
<1>4. ASSUME NEW p \in Ends, WriteAbort(p) PROVE FInv' BY Zenon, <1>4, WriteAbortFlow
<1>5. ASSUME NEW p \in Ends, Flush(p) PROVE FInv' BY Zenon, <1>5, FlushFlow
<1>6. ASSUME NEW p \in Ends, Read(p) PROVE FInv'
  BY Zenon, <1>6, SkipCredentialFlow, ReadNothingFlow, ReadPartFlow, ReadDelimiterFlow DEF Read
<1>7. ASSUME NEW p \in Ends, NEW d \in BOOLEAN, Terminate(p, d) PROVE FInv' BY Zenon, <1>7, TerminateFlow
<1>8. ASSUME NEW p \in Ends, NEW d \in BOOLEAN, TerminateAgain(p, d) PROVE FInv'
  BY Zenon, <1>8, TerminateAgainFlow
<1>9. ASSUME NEW p \in Ends, TerminateNow(p) PROVE FInv' BY Zenon, <1>9, TerminateNowFlow
<1>10. ASSUME NEW p \in Ends, Hiccup(p) PROVE FInv' BY Zenon, <1>10, HiccupFlow
<1>11. ASSUME NEW p \in Ends, NEW i \in NewHwms, NEW o \in NewHwms, SetHwms(p, i, o) PROVE FInv'
  BY Zenon, <1>11, SetHwmsFlow
<1>12. ASSUME NEW p \in Ends, ProcessCommand(p) PROVE FInv'
  BY Zenon, <1>12, ActivateReadFlow, ActivateWriteFlow, HiccupTakenFlow, PipeTermFlow,
     PipeTermAckFlow, PipeHwmFlow DEF ProcessCommand
<1> HIDE DEF IInv, FInv
<1>13. ASSUME NEW p \in Ends, Act(p) PROVE FInv'
  BY Zenon, <1>13, <1>2, <1>3, <1>4, <1>5, <1>7, <1>8, <1>9, <1>10, <1>11, <1>12 DEF Act
<1> QED BY Zenon, <1>1, <1>6, <1>13 DEF Next

\* The inductive invariant says what the run checks of the counts.
LEMMA FlowEnough ==
    ASSUME Counting, Typed, Hand, FInv
    PROVE  FlowRight
<1>1. ASSUME NEW p \in Ends, st[p] = "active"
      PROVE  InFlight(p) = Load(yp[out[p]]) /\ Load(yp[out[p]]) \in Nat
  <2> DEFINE y == yp[out[p]]
             s == y.q \o y.u
  <2>1. ~Acked(p) BY Zenon, <1>1 DEF Acked
  <2>2. y \in Ypipe BY Zenon, <2>1, There
  <2>3. Open(y) BY Zenon, <1>1 DEF FInv, Flow
  <2>4. y.q \in Seq(Part) /\ y.u \in Seq(Part) BY Zenon, <2>2 DEF Ypipe
  <2> HIDE DEF y
  <2>5. /\ Len(y.q) \in Nat /\ Len(y.u) \in Nat /\ Len(s) = Len(y.q) + Len(y.u)
        /\ \A i \in 1..(Len(y.q) + Len(y.u)) : s[i] = IF i <= Len(y.q) THEN y.q[i] ELSE y.u[i - Len(y.q)]
    BY Zenon, <2>4, ConcatProperties, LenProperties
  <2>6. \A i \in 1..Len(s) : s[i] # Delimiter
    <3> DEFINE a == y.q
               b == y.u
    <3> SUFFICES ASSUME NEW i \in 1..Len(s) PROVE s[i] # Delimiter BY Zenon
    <3>1. (\A j \in 1..Len(a) : a[j] # Delimiter) /\ (\A j \in 1..Len(b) : b[j] # Delimiter)
      BY Zenon, <2>3 DEF Open
    <3>2. Len(a) \in Nat /\ Len(b) \in Nat /\ i \in 1..(Len(a) + Len(b)) BY Zenon, <2>5
    <3>3. s[i] = IF i <= Len(a) THEN a[i] ELSE b[i - Len(a)] BY Zenon, <2>5, <3>2
    <3> HIDE DEF s, a, b
    <3>4. CASE i <= Len(a) BY <3>1, <3>2, <3>3, <3>4
    <3>5. CASE ~(i <= Len(a))
      <4>1. i - Len(a) \in 1..Len(b) BY <3>2, <3>5
      <4> QED BY Zenon, <3>1, <3>3, <3>5, <4>1
    <3> QED BY Zenon, <3>4, <3>5
  <2>7. {i \in 1..Len(s) : ~More(s[i]) /\ s[i] # Delimiter} = {i \in 1..Len(s) : ~More(s[i])}
    BY Zenon, <2>6
  <2>8. InFlight(p) = Load(y) BY Zenon, <2>7 DEF InFlight, Load, Messages, y
  <2>9. Load(y) \in Nat BY Zenon, <2>2, Loads
  <2> QED BY Zenon, <2>8, <2>9 DEF y
<1>2. \A p \in Ends : peerRead[p] <= nread[Peer(p)] BY Zenon DEF FInv, Credit, Credits
<1>3. \A p \in Ends : peerRead[p] \in Nat /\ nread[Peer(p)] \in Nat /\ hwm[p] \in Nat BY Zenon, Two, Types DEF Counts
<1>4. CountersAgree BY Zenon, <1>1, <1>2 DEF CountersAgree, FInv, Flow
<1>5. HwmRespected
  <2> SUFFICES ASSUME Never("hwm"), NEW p \in Ends, st[p] = "active", hwm[p] > 0 PROVE InFlight(p) <= hwm[p]
    BY Zenon DEF HwmRespected
  <2>1. nwritten[p] - peerRead[p] <= hwm[p] BY Zenon DEF FInv, Room
  <2>2. nwritten[p] = Passed(Peer(p)) + Load(yp[out[p]]) BY Zenon DEF FInv, Flow
  <2>3. InFlight(p) = Load(yp[out[p]]) /\ Load(yp[out[p]]) \in Nat BY Zenon, <1>1
  <2>4. Passed(Peer(p)) \in Nat /\ nread[Peer(p)] <= Passed(Peer(p)) BY Zenon, Two, PassedNat
  <2> QED BY <1>2, <1>3, <2>1, <2>2, <2>3, <2>4
<1> QED BY Zenon, <1>4, <1>5 DEF FlowRight

-----------------------------------------------------------------------------
(* The parts on their way from a writer to a reader, as one sequence *)

\* b may come behind a.
Follows(a, b) ==
    \/ a = Delimiter \/ b = Delimiter \/ a.n < b.n
    \/ a.n = b.n /\ a.kind = "head" /\ b.kind = "tail"

\* Messages in the order of their numbers, the first part before the second.
Sorted(s) == \A i, j \in 1..Len(s) : i < j => Follows(s[i], s[j])

\* Nothing is newer than message n, of which, if it is half written (m), only
\* the first part is there.
Past(s, n, m) ==
    \A i \in 1..Len(s) :
        s[i] = Delimiter \/ s[i].n < n \/ (s[i].n = n /\ (m => s[i].kind = "head"))

\* The two parts of a message stand next to each other.
Paired(s) ==
    \A i \in 1..Len(s) :
        /\ s[i].kind = "tail" => i > 1 /\ s[i - 1].n = s[i].n /\ s[i - 1].kind = "head"
        /\ s[i].kind = "head" /\ i < Len(s) => s[i + 1].n = s[i].n /\ s[i + 1].kind = "tail"

\* The second part of a message is still to come.
EndsMid(s) == s # <<>> /\ More(s[Len(s)])

\* What a user may write next: message n is the last, half written if m.
NextPart(k, n, m) ==
    IF m THEN k.n = n /\ k.kind = "tail" ELSE k.n = n + 1 /\ k.kind \in {"single", "head", "credential"}

\* The next part is written.
LEMMA SortedAppend ==
    ASSUME NEW s \in Seq(Part), NEW n \in Nat, NEW m, NEW k \in Part,
           Sorted(s), Past(s, n, m), NextPart(k, n, m)
    PROVE  Sorted(Append(s, k)) /\ Past(Append(s, k), k.n, k.kind = "head")
<1> DEFINE t == Append(s, k)
<1>1. /\ Len(s) \in Nat /\ Len(t) = Len(s) + 1 /\ t[Len(s) + 1] = k
      /\ \A i \in 1..Len(s) : t[i] = s[i] /\ s[i] \in Part
  BY AppendProperties, LenProperties, ElementOfSeq
<1> HIDE DEF t
<1>2. \A i \in 1..Len(t) : i \in 1..Len(s) \/ i = Len(s) + 1 BY <1>1
<1>3. \A x \in Part : x.n \in Nat BY Zenon DEF Part
<1>4. \A i \in 1..Len(s) : Follows(s[i], k) /\ (s[i] = Delimiter \/ s[i].n < k.n \/ (s[i].n = k.n /\ k.kind # "head"))
  <2> TAKE i \in 1..Len(s)
  <2>1. s[i] = Delimiter \/ s[i].n < n \/ (s[i].n = n /\ (m => s[i].kind = "head")) BY Zenon DEF Past
  <2>2. s[i].n \in Nat BY Zenon, <1>1, <1>3
  <2> DEFINE x == s[i]
  <2> HIDE DEF x
  <2>3. CASE m BY <2>1, <2>2, <2>3 DEF Follows, NextPart, x
  <2>4. CASE ~m BY <2>1, <2>2, <2>4 DEF Follows, NextPart, x
  <2> QED BY Zenon, <2>3, <2>4
<1>5. Past(t, k.n, k.kind = "head") BY Zenon, <1>1, <1>2, <1>4 DEF Past
<1>6. \A i \in 1..Len(t), j \in 1..Len(t) : i < j => i \in 1..Len(s) BY <1>1
<1>7. Sorted(t) BY Zenon, <1>1, <1>2, <1>4, <1>6 DEF Sorted
<1> QED BY Zenon, <1>5, <1>7 DEF t

\* The writer is past more when it drops its half message or writes elsewhere.
LEMMA SortedMore ==
    ASSUME NEW s \in Seq(Part), NEW n \in Nat, NEW m, Past(s, n, m)
    PROVE  /\ Past(s, n, FALSE)
           /\ \A k \in Part : NextPart(k, n, m) => Past(s, k.n, k.kind = "head")
<1>1. Past(s, n, FALSE) BY Zenon DEF Past
<1>2. ASSUME NEW k \in Part, NextPart(k, n, m) PROVE Past(s, k.n, k.kind = "head")
  <2> SUFFICES ASSUME NEW i \in 1..Len(s)
      PROVE  s[i] = Delimiter \/ s[i].n < k.n \/ (s[i].n = k.n /\ (k.kind = "head" => s[i].kind = "head"))
    BY Zenon DEF Past
  <2>1. s[i] = Delimiter \/ s[i].n < n \/ (s[i].n = n /\ (m => s[i].kind = "head")) BY Zenon DEF Past
  <2>a. s[i] \in Part BY Zenon, ElementOfSeq
  <2>2. s[i].n \in Nat BY Zenon, <2>a DEF Part
  <2> DEFINE x == s[i]
  <2> HIDE DEF x
  <2> QED BY <1>2, <2>1, <2>2 DEF NextPart, x
<1> QED BY Zenon, <1>1, <1>2

\* What was true of all is true of the first of them.
LEMMA Prefixes ==
    ASSUME NEW s \in Seq(Part), NEW r \in Seq(Part)
    PROVE  /\ Sorted(s \o r) => Sorted(s)
           /\ \A n, m : Past(s \o r, n, m) => Past(s, n, m)
           /\ Paired(s \o r) => Paired(s) /\ (EndsMid(s) /\ r # <<>> => r[1].kind = "tail" /\ r[1].n = s[Len(s)].n)
<1> DEFINE t == s \o r
<1>1. /\ Len(s) \in Nat /\ Len(r) \in Nat /\ Len(t) = Len(s) + Len(r)
      /\ \A i \in 1..(Len(s) + Len(r)) : t[i] = IF i <= Len(s) THEN s[i] ELSE r[i - Len(s)]
  BY ConcatProperties, LenProperties
<1> HIDE DEF t
<1>2. \A i \in 1..Len(s) : i \in 1..Len(t) /\ t[i] = s[i] BY <1>1
<1>3. r # <<>> => Len(s) + 1 \in 1..Len(t) /\ t[Len(s) + 1] = r[1] /\ Len(s) < Len(t)
  <2> HAVE r # <<>>
  <2>1. Len(r) >= 1 BY <1>1, EmptySeq
  <2>2. Len(s) + 1 \in 1..(Len(s) + Len(r)) /\ ~(Len(s) + 1 <= Len(s)) /\ (Len(s) + 1) - Len(s) = 1 BY <1>1, <2>1
  <2>3. t[Len(s) + 1] = r[1] BY Zenon, <1>1, <2>2
  <2> QED BY <1>1, <2>1, <2>2, <2>3
<1>4. Sorted(t) => Sorted(s) BY Zenon, <1>2 DEF Sorted
<1>5. \A n, m : Past(t, n, m) => Past(s, n, m) BY Zenon, <1>2 DEF Past
<1>6. ASSUME Paired(t) PROVE Paired(s)
  <2>1. \A i \in 1..Len(s) : (i > 1 => i - 1 \in 1..Len(s)) /\ (i < Len(s) => i + 1 \in 1..Len(s) /\ i < Len(t)) BY <1>1
  <2> SUFFICES ASSUME NEW i \in 1..Len(s)
      PROVE  /\ s[i].kind = "tail" => i > 1 /\ s[i - 1].n = s[i].n /\ s[i - 1].kind = "head"
             /\ s[i].kind = "head" /\ i < Len(s) => s[i + 1].n = s[i].n /\ s[i + 1].kind = "tail"
    BY Zenon DEF Paired
  <2>2. /\ t[i].kind = "tail" => i > 1 /\ t[i - 1].n = t[i].n /\ t[i - 1].kind = "head"
        /\ t[i].kind = "head" /\ i < Len(t) => t[i + 1].n = t[i].n /\ t[i + 1].kind = "tail"
    BY Zenon, <1>2, <1>6 DEF Paired
  <2>3. t[i] = s[i] /\ (i > 1 => t[i - 1] = s[i - 1]) /\ (i < Len(s) => t[i + 1] = s[i + 1])
    BY Zenon, <1>2, <2>1
  <2> QED BY Zenon, <2>1, <2>2, <2>3
<1>7. ASSUME Paired(t), EndsMid(s), r # <<>> PROVE r[1].kind = "tail" /\ r[1].n = s[Len(s)].n
  <2>1. Len(s) \in 1..Len(s) BY <1>1, <1>7, EmptySeq DEF EndsMid
  <2>2. s[Len(s)].kind = "head" BY Zenon, <1>7 DEF EndsMid, More
  <2> QED BY ZenonT(40), <1>2, <1>3, <1>7, <2>1, <2>2 DEF Paired
<1> QED BY Zenon, <1>4, <1>5, <1>6, <1>7 DEF t

\* One more part, the second of a message exactly where one is due.
LEMMA PairedAppend ==
    ASSUME NEW s \in Seq(Part), NEW k \in Part, Paired(s),
           EndsMid(s) <=> k.kind = "tail", EndsMid(s) => s[Len(s)].n = k.n
    PROVE  Paired(Append(s, k))
<1> DEFINE t == Append(s, k)
<1>1. /\ Len(s) \in Nat /\ Len(t) = Len(s) + 1 /\ t[Len(s) + 1] = k
      /\ \A i \in 1..Len(s) : t[i] = s[i]
  BY AppendProperties, LenProperties
<1>e. s # <<>> <=> Len(s) > 0 BY EmptySeq, <1>1
<1> HIDE DEF t
<1> SUFFICES ASSUME NEW i \in 1..Len(t)
    PROVE  /\ t[i].kind = "tail" => i > 1 /\ t[i - 1].n = t[i].n /\ t[i - 1].kind = "head"
           /\ t[i].kind = "head" /\ i < Len(t) => t[i + 1].n = t[i].n /\ t[i + 1].kind = "tail"
  BY Zenon DEF Paired, t
<1>2. CASE i \in 1..Len(s) /\ i < Len(s)
  <2>1. t[i] = s[i] /\ t[i + 1] = s[i + 1] /\ (i > 1 => t[i - 1] = s[i - 1]) BY <1>1, <1>2
  <2> QED BY Zenon, <1>2, <2>1 DEF Paired
<1>3. CASE i \in 1..Len(s) /\ i = Len(s)
  <2>1. t[i] = s[i] /\ t[i + 1] = k /\ (i > 1 => t[i - 1] = s[i - 1]) BY <1>1, <1>3
  <2>2. s # <<>> BY <1>e, <1>3
  <2>3. s[i].kind = "tail" => i > 1 /\ s[i - 1].n = s[i].n /\ s[i - 1].kind = "head" BY Zenon, <1>3 DEF Paired
  <2>4. s[i].kind = "head" => k.kind = "tail" /\ s[i].n = k.n BY Zenon, <1>3, <2>2 DEF EndsMid, More
  <2> QED BY Zenon, <2>1, <2>3, <2>4
<1>4. CASE i = Len(s) + 1
  <2>1. t[i] = k /\ ~(i < Len(t)) BY <1>1, <1>4
  <2>2. ASSUME k.kind = "tail" PROVE i > 1 /\ t[i - 1].n = k.n /\ t[i - 1].kind = "head"
    <3>1. EndsMid(s) /\ Len(s) > 0 BY Zenon, <2>2, <1>e DEF EndsMid
    <3>2. i > 1 /\ t[i - 1] = s[Len(s)] BY <1>1, <1>4, <3>1
    <3> QED BY Zenon, <3>1, <3>2 DEF EndsMid, More
  <2> QED BY Zenon, <2>1, <2>2
<1> QED BY <1>1, <1>2, <1>3, <1>4

\* A delimiter or a credential: no part of a longer message.
Alone(k) == k.kind # "head" /\ k.kind # "tail"

\* One of these is taken out.
LEMMA Removed ==
    ASSUME NEW g \in Seq(Part), NEW a \in Seq(Part), a # <<>>, Alone(Head(a))
    PROVE  /\ Sorted(g \o a) => Sorted(g \o Tail(a))
           /\ \A n, m : Past(g \o a, n, m) => Past(g \o Tail(a), n, m)
           /\ Paired(g \o a) => Paired(g \o Tail(a)) /\ ~EndsMid(g)
<1> DEFINE s == g \o a
           r == Tail(a)
           t == g \o r
           l == Len(g)
           F(i) == IF i <= l THEN i ELSE i + 1
<1>1. /\ r \in Seq(Part) /\ Len(r) = Len(a) - 1 /\ \A i \in 1..Len(r) : r[i] = a[i + 1]
      /\ a[1] = Head(a) /\ Len(a) \in Nat /\ Len(a) > 0 /\ l \in Nat
  BY HeadTailProperties, LenProperties, EmptySeq
<1>2. /\ Len(s) = l + Len(a)
      /\ \A i \in 1..(l + Len(a)) : s[i] = IF i <= l THEN g[i] ELSE a[i - l]
  BY Zenon, ConcatProperties
<1> HIDE DEF r
<1>3. /\ Len(t) = l + Len(r)
      /\ \A i \in 1..(l + Len(r)) : t[i] = IF i <= l THEN g[i] ELSE r[i - l]
  BY Zenon, <1>1, ConcatProperties
<1> HIDE DEF s, t, l
<1>4. \A i \in 1..Len(t) : F(i) \in 1..Len(s) /\ t[i] = s[F(i)]
  <2> TAKE i \in 1..Len(t)
  <2>1. CASE i <= l BY <1>1, <1>2, <1>3, <2>1
  <2>2. CASE ~(i <= l)
    <3>1. i \in 1..(l + Len(r)) /\ i + 1 \in 1..(l + Len(a)) /\ ~(i + 1 <= l) BY <1>1, <1>3, <2>2
    <3>2. t[i] = r[i - l] /\ s[i + 1] = a[(i + 1) - l] BY Zenon, <1>2, <1>3, <2>2, <3>1
    <3>3. i - l \in 1..Len(r) /\ (i + 1) - l = (i - l) + 1 BY <1>1, <1>3, <2>2
    <3>4. r[i - l] = a[(i - l) + 1] BY Zenon, <1>1, <3>3
    <3> QED BY Zenon, <1>2, <2>2, <3>1, <3>2, <3>3, <3>4
  <2> QED BY Zenon, <2>1, <2>2
<1>5. \A i, j \in 1..Len(t) : i < j => F(i) < F(j) BY <1>1, <1>3
<1>6. Sorted(s) => Sorted(t)
  <2> HIDE DEF F
  <2> QED BY Zenon, <1>4, <1>5 DEF Sorted
<1>7. \A n, m : Past(s, n, m) => Past(t, n, m)
  <2> HIDE DEF F
  <2> QED BY Zenon, <1>4 DEF Past
<1>8. l + 1 \in 1..Len(s) /\ s[l + 1] = Head(a) BY <1>1, <1>2
<1>9. s[l + 1].kind # "head" /\ s[l + 1].kind # "tail" BY Zenon, <1>8 DEF Alone
<1>10. ASSUME Paired(s) PROVE Paired(t) /\ ~EndsMid(g)
  <2>1. l > 0 => s[l].kind # "head"
    <3> HAVE l > 0
    <3>1. l \in 1..Len(s) /\ l < Len(s) BY <1>1, <1>2
    <3> QED BY <1>8, <1>9, <1>10, <3>1 DEF Paired
  <2>2. l + 2 \in 1..Len(s) => s[l + 2].kind # "tail"
    <3> HAVE l + 2 \in 1..Len(s)
    <3>1. (l + 2) - 1 = l + 1 BY <1>1
    <3> QED BY Zenon, <1>8, <1>9, <1>10, <3>1 DEF Paired
  <2>3. ~EndsMid(g)
    <3>1. g # <<>> => l > 0 /\ l \in 1..(l + Len(a)) /\ l <= l BY <1>1, EmptySeq DEF l
    <3>2. g # <<>> => s[l] = g[l] BY Zenon, <1>2, <3>1
    <3> QED BY Zenon, <2>1, <3>1, <3>2 DEF EndsMid, More, l
  <2>4. ASSUME NEW i \in 1..Len(t)
        PROVE  /\ t[i].kind = "tail" => i > 1 /\ t[i - 1].n = t[i].n /\ t[i - 1].kind = "head"
               /\ t[i].kind = "head" /\ i < Len(t) => t[i + 1].n = t[i].n /\ t[i + 1].kind = "tail"
    <3>1. /\ t[i] = s[F(i)] /\ F(i) \in 1..Len(s) /\ (i < Len(t) => t[i + 1] = s[F(i + 1)] /\ F(i) < Len(s))
          /\ i > 1 => t[i - 1] = s[F(i - 1)]
      <4>1. i < Len(t) => i + 1 \in 1..Len(t) /\ F(i) < Len(s) BY <1>1, <1>2, <1>3
      <4>2. i > 1 => i - 1 \in 1..Len(t) BY <1>1, <1>3
      <4> HIDE DEF F
      <4> QED BY Zenon, <1>4, <4>1, <4>2
    <3>2. /\ s[F(i)].kind = "tail" => F(i) > 1 /\ s[F(i) - 1].n = s[F(i)].n /\ s[F(i) - 1].kind = "head"
          /\ s[F(i)].kind = "head" /\ F(i) < Len(s) => s[F(i) + 1].n = s[F(i)].n /\ s[F(i) + 1].kind = "tail"
      <4> HIDE DEF F
      <4> QED BY Zenon, <1>10, <3>1 DEF Paired
    <3>3. i \in Nat /\ i >= 1 /\ i <= Len(t) /\ Len(t) \in Nat BY <1>1, <1>3
    <3>4. CASE i < l
      <4>1. F(i) = i /\ F(i + 1) = i + 1 /\ (i > 1 => F(i - 1) = i - 1) BY <1>1, <3>3, <3>4
      <4> HIDE DEF F
      <4> QED BY Zenon, <3>1, <3>2, <4>1
    <3>5. CASE i = l
      <4>1. F(i) = i /\ (i > 1 => F(i - 1) = i - 1) /\ l > 0 BY <1>1, <3>3, <3>5
      <4>2. s[F(i)].kind # "head" BY Zenon, <2>1, <3>5, <4>1
      <4> HIDE DEF F
      <4> QED BY Zenon, <3>1, <3>2, <4>1, <4>2
    <3>6. CASE i = l + 1
      <4>1. F(i) = l + 2 /\ F(i + 1) = F(i) + 1 BY <1>1, <3>3, <3>6
      <4>2. s[F(i)].kind # "tail" BY Zenon, <2>2, <3>1, <4>1
      <4> HIDE DEF F
      <4> QED BY Zenon, <3>1, <3>2, <4>1, <4>2
    <3>7. CASE i > l + 1
      <4>1. i > 1 /\ F(i - 1) = F(i) - 1 /\ F(i + 1) = F(i) + 1 BY <1>1, <3>3, <3>7
      <4> HIDE DEF F
      <4> QED BY Zenon, <3>1, <3>2, <4>1
    <3>8. i < l \/ i = l \/ i = l + 1 \/ i > l + 1 BY <1>1, <3>3
    <3> QED BY Zenon, <3>4, <3>5, <3>6, <3>7, <3>8
  <2> QED BY Zenon, <2>3, <2>4 DEF Paired
<1> QED BY Zenon, <1>6, <1>7, <1>10 DEF s, t, r

\* Three sequences concatenated one way and the other.  A name of its own, so
\* that a proof instantiates the lemma first and computes with the equation after.
Regroup(a, b, c) == (a \o b) \o c = a \o (b \o c)

\* Concatenation of sequences of parts is associative.
LEMMA Assoc ==
    ASSUME NEW a \in Seq(Part), NEW b \in Seq(Part), NEW c \in Seq(Part)
    PROVE  Regroup(a, b, c)
BY ConcatAssociative DEF Regroup

\* Sequences that are not empty.
LEMMA Joined ==
    /\ \A a, b \in Seq(Part) : a \o b \in Seq(Part) /\ (a \o b = <<>> => b = <<>>)
    /\ \A x : <<x>> # <<>> /\ Len(<<x>>) = 1 /\ <<x>>[1] = x
<1>2. \A a, b \in Seq(Part) : a \o b \in Seq(Part) /\ (a \o b = <<>> => b = <<>>)
  BY ConcatProperties, ConcatEqualIffEmpty
<1> QED BY Zenon, <1>2

\* The last part of two sequences.
LEMMA LastOfConcat ==
    ASSUME NEW a \in Seq(Part), NEW b \in Seq(Part)
    PROVE  /\ b = <<>> => (EndsMid(a \o b) <=> EndsMid(a))
           /\ b # <<>> => /\ EndsMid(a \o b) <=> EndsMid(b)
                          /\ (a \o b)[Len(a \o b)] = b[Len(b)]
<1> DEFINE c == a \o b
<1>1. b = <<>> => c = a BY Zenon, ConcatEmptySeq
<1>2. /\ Len(a) \in Nat /\ Len(b) \in Nat /\ Len(c) = Len(a) + Len(b)
      /\ \A i \in 1..(Len(a) + Len(b)) : c[i] = IF i <= Len(a) THEN a[i] ELSE b[i - Len(a)]
  BY ConcatProperties, LenProperties
<1>3. ASSUME b # <<>> PROVE c # <<>> /\ c[Len(c)] = b[Len(b)]
  <2>1. Len(b) >= 1 BY <1>2, <1>3, EmptySeq
  <2>2. c # <<>> BY Zenon, <1>3, Joined
  <2> HIDE DEF c
  <2>3. Len(c) \in 1..(Len(a) + Len(b)) /\ ~(Len(c) <= Len(a)) /\ Len(c) - Len(a) = Len(b) BY <1>2, <2>1
  <2> QED BY Zenon, <1>2, <2>2, <2>3
<1> QED BY Zenon, <1>1, <1>3 DEF EndsMid

\* The last part of a sequence that grows.
LEMMA LastOfAppend ==
    ASSUME NEW a \in Seq(Part), NEW k \in Part
    PROVE  /\ Append(a, k) \in Seq(Part) /\ Append(a, k) # <<>>
           /\ EndsMid(Append(a, k)) <=> k.kind = "head"
           /\ Append(a, k)[Len(Append(a, k))] = k
<1>1. /\ Append(a, k) \in Seq(Part) /\ Append(a, k) # <<>> /\ Append(a, k)[Len(Append(a, k))] = k
  BY AppendProperties
<1> QED BY Zenon, <1>1 DEF EndsMid, More

\* What flush() makes visible and what it leaves behind.
LEMMA Cut ==
    ASSUME NEW u \in Seq(Part)
    PROVE  /\ Complete(u) \in Seq(Part) /\ Unfinished(u) \in Seq(Part)
           /\ u = Complete(u) \o Unfinished(u)
           /\ ~EndsMid(u) => Complete(u) = u /\ Unfinished(u) = <<>>
           /\ EndsMid(u) => Unfinished(u) = <<u[Len(u)]>> /\ u[Len(u)] \in Part
<1>1. Len(u) \in Nat BY Zenon, LenProperties
<1>2. CASE EndsMid(u)
  <2> DEFINE n == Len(u)
             m == u[n]
  <2>1. n \in 1..n /\ 1 \in 1..n /\ n \in Int /\ 1 \in Int BY <1>1, <1>2, EmptySeq DEF EndsMid
  <2>2. m \in Part /\ \A i \in 1..(n - 1) : u[i] \in Part BY <1>1, <2>1, ElementOfSeq
  <2>3. Unfinished(u) = SubSeq(u, n, n) BY Zenon, <1>2 DEF Unfinished, EndsMid
  <2>4. SubSeq(u, n, n) \in Seq(Part) /\ Len(SubSeq(u, n, n)) = 1 /\ SubSeq(u, n, n)[1] = m
    BY <1>1, <2>1, <2>2
  <2>a. Unfinished(u) \in Seq(Part) /\ Len(Unfinished(u)) = 1 /\ Unfinished(u)[1] = m BY Zenon, <2>3, <2>4
  <2> HIDE DEF m, n
  <2>5. Unfinished(u) = <<m>> BY <2>2, <2>a
  <2> USE DEF m, n
  <2>6. Complete(u) = SubSeq(u, 1, n - 1) BY Zenon, <2>3, <2>4 DEF Complete
  <2>7. Complete(u) \in Seq(Part) BY <1>1, <2>2, <2>6, SubSeqProperties
  <2>8. SubSeq(u, 1, n) = SubSeq(u, 1, n - 1) \o <<m>> BY Zenon, <2>1, SubSeqRecursiveSecond
  <2>9. SubSeq(u, 1, n) = u BY Zenon, SubSeqFull
  <2>10. <<m>> \in Seq(Part) BY <2>2
  <2> QED BY Zenon, <1>2, <2>2, <2>5, <2>6, <2>7, <2>8, <2>9, <2>10
<1>3. CASE ~EndsMid(u)
  <2>1. Unfinished(u) = <<>> BY Zenon, <1>3 DEF Unfinished, EndsMid
  <2>2. Complete(u) = SubSeq(u, 1, Len(u)) BY <1>1, <2>1 DEF Complete
  <2>3. Complete(u) = u BY Zenon, <1>1, <2>2, SubSeqFull
  <2>4. <<>> \in Seq(Part) /\ u \o <<>> = u BY Zenon, EmptySeq, ConcatEmptySeq
  <2> QED BY Zenon, <1>3, <2>1, <2>3, <2>4
<1> QED BY Zenon, <1>2, <1>3

-----------------------------------------------------------------------------
(* What holds of them, and what the operations make of it *)

\* g was read, q can be read and u is not flushed: in the order in which it was
\* written, up to message n, half written if m.  As long as the ypipe is not
\* replaced (w) the two parts of a message stay together, and what can be read
\* ends with a whole one; an active writer (act) has its half message in u.
Delivered(g, q, u, n, m, w, gone, act) ==
    LET s == g \o (q \o u) IN
    /\ \A i \in 1..Len(g) : g[i] # Delimiter
    /\ Sorted(s) /\ Past(s, n, m)
    /\ w => /\ Paired(s)
            /\ gone \/ ~EndsMid(g \o q)
            /\ act => (m <=> EndsMid(u)) /\ (m => u[Len(u)].n = n)

\* What flush() makes visible ends with a whole message.
LEMMA CompleteEnds ==
    ASSUME NEW g \in Seq(Part), NEW q \in Seq(Part), NEW u \in Seq(Part), Paired(g \o (q \o u))
    PROVE  /\ ~EndsMid(Complete(u))
           /\ ~EndsMid(g \o q) => ~EndsMid(g \o (q \o Complete(u)))
<1> DEFINE c == Complete(u)
           f == Unfinished(u)
           a == g \o q
<1>1. /\ c \in Seq(Part) /\ f \in Seq(Part) /\ u = c \o f
      /\ ~EndsMid(u) => c = u
      /\ EndsMid(u) => f = <<u[Len(u)]>>
  BY Zenon, Cut
<1>2. a \in Seq(Part) BY Zenon, ConcatProperties
<1> HIDE DEF c, f
<1>c. c \in Seq(Part) /\ f \in Seq(Part) BY Zenon, <1>1
<1>3. a \o c = g \o (q \o c)
  <2>1. Regroup(g, q, c) BY Zenon, <1>c, Assoc
  <2> QED BY Zenon, <2>1 DEF Regroup
<1>4. a \o c \in Seq(Part) BY Zenon, <1>1, <1>2, ConcatProperties
<1>5. g \o (q \o u) = (a \o c) \o f
  <2>1. a \o u = g \o (q \o u)
    <3>1. Regroup(g, q, u) BY Zenon, Assoc
    <3> QED BY Zenon, <3>1 DEF Regroup
  <2> HIDE DEF a
  <2>2. (a \o c) \o f = a \o (c \o f)
    <3>1. Regroup(a, c, f) BY Zenon, <1>2, <1>c, Assoc
    <3> QED BY Zenon, <3>1 DEF Regroup
  <2> QED BY Zenon, <1>1, <2>1, <2>2
<1> HIDE DEF a
<1>6. ASSUME EndsMid(u) PROVE ~EndsMid(a \o c)
  <2>1. f # <<>> /\ f[1].kind = "head" BY Zenon, <1>1, <1>6, Joined DEF EndsMid, More
  <2>2. EndsMid(a \o c) => f[1].kind = "tail" BY Zenon, <1>1, <1>4, <1>5, <2>1, Prefixes
  <2> QED BY <2>1, <2>2
<1>7. c # <<>> => (EndsMid(a \o c) <=> EndsMid(c)) BY Zenon, <1>1, <1>2, LastOfConcat
<1>8. c = <<>> => (EndsMid(a \o c) <=> EndsMid(a)) BY Zenon, <1>1, <1>2, LastOfConcat
<1>9. c = <<>> => ~EndsMid(c) BY Zenon DEF EndsMid
<1> QED BY Zenon, <1>1, <1>3, <1>6, <1>7, <1>8, <1>9 DEF a, c

\* write()
LEMMA DeliveredWrite ==
    ASSUME NEW g \in Seq(Part), NEW q \in Seq(Part), NEW u \in Seq(Part), NEW n \in Nat,
           NEW m, NEW w, Delivered(g, q, u, n, m, w, FALSE, TRUE),
           NEW k \in Part, NextPart(k, n, m)
    PROVE  Delivered(g, q, Append(u, k), k.n, k.kind = "head", w, FALSE, TRUE)
<1> DEFINE s == g \o (q \o u)
           a == g \o q
           v == Append(u, k)
<1>1. a \in Seq(Part) /\ q \o u \in Seq(Part) /\ s \in Seq(Part) BY Zenon, ConcatProperties
<1>2. a \o u = s
  <2>1. Regroup(g, q, u) BY Zenon, Assoc
  <2> QED BY Zenon, <2>1 DEF Regroup
<1>3. g \o (q \o v) = Append(s, k)
  <2>1. <<k>> \in Seq(Part) OBVIOUS
  <2>2. v = u \o <<k>> /\ Append(s, k) = s \o <<k>> BY Zenon, <1>1, AppendIsConcat
  <2>3. v \in Seq(Part) BY Zenon, AppendProperties
  <2>4. a \o v = g \o (q \o v)
    <3>1. Regroup(g, q, v) BY Zenon, <2>3, Assoc
    <3> QED BY Zenon, <3>1 DEF Regroup
  <2> HIDE DEF a, s, v
  <2>5. (a \o u) \o <<k>> = a \o (u \o <<k>>)
    <3>1. Regroup(a, u, <<k>>) BY Zenon, <1>1, <2>1, Assoc
    <3> QED BY Zenon, <3>1 DEF Regroup
  <2> QED BY Zenon, <1>2, <2>2, <2>4, <2>5
<1>4. Sorted(s) /\ Past(s, n, m) BY Zenon DEF Delivered
<1>5. /\ EndsMid(v) <=> k.kind = "head"
      /\ v[Len(v)] = k
  BY Zenon, LastOfAppend
<1> HIDE DEF a, s, v
<1>6. Sorted(Append(s, k)) /\ Past(Append(s, k), k.n, k.kind = "head") BY Zenon, <1>1, <1>4, SortedAppend
<1>7. ASSUME w PROVE Paired(Append(s, k)) /\ ~EndsMid(a)
  <2>1. /\ Paired(s) /\ ~EndsMid(a) /\ (m <=> EndsMid(u)) /\ (m => u[Len(u)].n = n)
    BY Zenon, <1>7 DEF Delivered, s, a
  <2>2. EndsMid(s) <=> EndsMid(u)
    <3>1. CASE u = <<>> BY Zenon, <1>1, <1>2, <2>1, <3>1, LastOfConcat DEF EndsMid
    <3>2. CASE u # <<>> BY Zenon, <1>1, <1>2, <3>2, LastOfConcat
    <3> QED BY Zenon, <3>1, <3>2
  <2>3. EndsMid(u) => s[Len(s)] = u[Len(u)] BY Zenon, <1>1, <1>2, LastOfConcat DEF EndsMid
  <2>4. (k.kind = "tail" <=> m) /\ (m => k.n = n)
    <3>1. CASE m BY Zenon, <3>1 DEF NextPart
    <3>2. CASE ~m BY Zenon, <3>2 DEF NextPart
    <3> QED BY Zenon, <3>1, <3>2
  <2>5. EndsMid(s) <=> k.kind = "tail" BY Zenon, <2>1, <2>2, <2>4
  <2>6. EndsMid(s) => s[Len(s)].n = k.n BY Zenon, <2>1, <2>2, <2>3, <2>4
  <2> QED BY Zenon, <1>1, <2>1, <2>5, <2>6, PairedAppend
<1>8. \A i \in 1..Len(g) : g[i] # Delimiter BY Zenon DEF Delivered
<1> QED BY Zenon, <1>3, <1>5, <1>6, <1>7, <1>8 DEF Delivered, a, v

\* flush()
LEMMA DeliveredFlush ==
    ASSUME NEW g \in Seq(Part), NEW q \in Seq(Part), NEW u \in Seq(Part), NEW n \in Nat,
           NEW m, NEW w, NEW gone, NEW act,
           Delivered(g, q, u, n, m, w, gone, act)
    PROVE  Delivered(g, q \o Complete(u), Unfinished(u), n, m, w, gone, act)
<1> DEFINE c == Complete(u)
           f == Unfinished(u)
           s == g \o (q \o u)
<1>1. /\ c \in Seq(Part) /\ f \in Seq(Part) /\ u = c \o f
      /\ ~EndsMid(u) => f = <<>>
      /\ EndsMid(u) => f = <<u[Len(u)]>>
  BY Zenon, Cut
<1>2. w => Paired(s) BY Zenon DEF Delivered
<1>3. w => (gone \/ ~EndsMid(g \o (q \o c))) BY Zenon, <1>2, CompleteEnds DEF Delivered
<1> HIDE DEF c, f
<1>4. g \o ((q \o c) \o f) = s
  <2>1. (q \o c) \o f = q \o (c \o f)
    <3>1. Regroup(q, c, f) BY Zenon, <1>1, Assoc
    <3> QED BY Zenon, <3>1 DEF Regroup
  <2> QED BY Zenon, <1>1, <2>1
<1>5. EndsMid(u) => EndsMid(f) /\ f[Len(f)] = u[Len(u)] BY Zenon, <1>1, Joined DEF EndsMid
<1>6. ~EndsMid(u) => ~EndsMid(f) BY Zenon, <1>1 DEF EndsMid
<1> QED BY Zenon, <1>3, <1>4, <1>5, <1>6 DEF Delivered, c, f

\* rollback()
LEMMA DeliveredRollback ==
    ASSUME NEW g \in Seq(Part), NEW q \in Seq(Part), NEW u \in Seq(Part), NEW n \in Nat,
           NEW m, NEW w, NEW gone, NEW act,
           Delivered(g, q, u, n, m, w, gone, act)
    PROVE  /\ Delivered(g, q, Complete(u), n, FALSE, w, gone, act)
           /\ Delivered(g, q, Complete(u), n, m, w, gone, FALSE)
<1> DEFINE c == Complete(u)
           f == Unfinished(u)
           s == g \o (q \o u)
           t == g \o (q \o c)
<1>1. /\ c \in Seq(Part) /\ f \in Seq(Part) /\ u = c \o f
  BY Zenon, Cut
<1>2. w => Paired(s) BY Zenon DEF Delivered
<1>3. w => ~EndsMid(c) BY Zenon, <1>2, CompleteEnds
<1> HIDE DEF c, f
<1>4. q \o c \in Seq(Part) /\ t \in Seq(Part) BY Zenon, <1>1, ConcatProperties
<1>5. s = t \o f
  <2>1. (q \o c) \o f = q \o (c \o f)
    <3>1. Regroup(q, c, f) BY Zenon, <1>1, Assoc
    <3> QED BY Zenon, <3>1 DEF Regroup
  <2> DEFINE b == q \o c
  <2>a. b \in Seq(Part) /\ f \in Seq(Part) BY Zenon, <1>1, <1>4
  <2> HIDE DEF b
  <2>2. (g \o b) \o f = g \o (b \o f)
    <3>1. Regroup(g, b, f) BY Zenon, <2>a, Assoc
    <3> QED BY Zenon, <3>1 DEF Regroup
  <2> USE DEF b
  <2> QED BY Zenon, <1>1, <2>1, <2>2
<1>6. Sorted(s) /\ Past(s, n, m) BY Zenon DEF Delivered
<1> HIDE DEF s, t
<1>7. Sorted(t) /\ Past(t, n, m) /\ (w => Paired(t)) BY Zenon, <1>1, <1>2, <1>4, <1>5, <1>6, Prefixes
<1>8. Past(t, n, FALSE) BY Zenon, <1>4, <1>7, SortedMore
<1> QED BY Zenon, <1>3, <1>7, <1>8 DEF Delivered, c, t

\* terminate() writes the delimiter.
LEMMA DeliveredDelimiter ==
    ASSUME NEW g \in Seq(Part), NEW q \in Seq(Part), NEW u \in Seq(Part), NEW n \in Nat,
           NEW m, NEW w, ~EndsMid(u) \/ ~w,
           Delivered(g, q, u, n, m, w, FALSE, FALSE)
    PROVE  Delivered(g, q, Append(u, Delimiter), n, m, w, FALSE, FALSE)
<1> DEFINE s == g \o (q \o u)
           a == g \o q
           k == Delimiter
           e == <<k>>
           v == Append(u, k)
           t == Append(s, k)
<1>1. a \in Seq(Part) /\ q \o u \in Seq(Part) /\ s \in Seq(Part) BY Zenon, ConcatProperties
<1>2. a \o u = s
  <2>1. Regroup(g, q, u) BY Zenon, Assoc
  <2> QED BY Zenon, <2>1 DEF Regroup
<1>k. k \in Part /\ k.kind # "tail" /\ k.kind # "head" BY DEF Delimiter, Part
<1>e. e \in Seq(Part) BY <1>k
<1>3. g \o (q \o v) = t
  <2>2. v = u \o e /\ t = s \o e BY Zenon, <1>1, <1>k, AppendIsConcat
  <2>3. v \in Seq(Part) BY Zenon, <1>k, AppendProperties
  <2>4. a \o v = g \o (q \o v)
    <3>1. Regroup(g, q, v) BY Zenon, <2>3, Assoc
    <3> QED BY Zenon, <3>1 DEF Regroup
  <2> HIDE DEF a, s, v, t, e
  <2>5. (a \o u) \o e = a \o (u \o e)
    <3>1. Regroup(a, u, e) BY Zenon, <1>1, <1>e, Assoc
    <3> QED BY Zenon, <3>1 DEF Regroup
  <2> QED BY Zenon, <1>2, <2>2, <2>4, <2>5
<1>4. Sorted(s) /\ Past(s, n, m) BY Zenon DEF Delivered
<1>5. /\ Len(s) \in Nat /\ Len(t) = Len(s) + 1 /\ t[Len(s) + 1] = k
      /\ \A i \in 1..Len(s) : t[i] = s[i]
  BY <1>1, <1>k, AppendProperties, LenProperties
<1>6. ASSUME w PROVE Paired(t) /\ ~EndsMid(a)
  <2>1. Paired(s) /\ ~EndsMid(a) BY Zenon, <1>6 DEF Delivered
  <2> HIDE DEF a, s, k
  <2>2. ~EndsMid(s)
    <3>1. CASE u = <<>> BY Zenon, <1>1, <1>2, <2>1, <3>1, LastOfConcat
    <3>2. CASE u # <<>> BY Zenon, <1>1, <1>2, <1>6, <3>2, LastOfConcat
    <3> QED BY Zenon, <3>1, <3>2
  <2> QED BY Zenon, <1>1, <1>k, <2>1, <2>2, PairedAppend
<1> HIDE DEF a, s, v, t, k
<1>7. \A i \in 1..Len(t) : i \in 1..Len(s) \/ t[i] = k BY <1>5
<1>8. Sorted(t)
  <2> SUFFICES ASSUME NEW i \in 1..Len(t), NEW j \in 1..Len(t), i < j PROVE Follows(t[i], t[j])
    BY Zenon DEF Sorted
  <2>1. CASE t[i] = k \/ t[j] = k BY Zenon, <2>1 DEF Follows, k
  <2>2. CASE i \in 1..Len(s) /\ j \in 1..Len(s) BY Zenon, <1>4, <1>5, <2>2 DEF Sorted
  <2> QED BY Zenon, <1>7, <2>1, <2>2
<1>9. Past(t, n, m) BY Zenon, <1>4, <1>5, <1>7 DEF Past, k
<1>10. \A i \in 1..Len(g) : g[i] # Delimiter BY Zenon DEF Delivered
<1> QED BY Zenon, <1>3, <1>6, <1>8, <1>9, <1>10 DEF Delivered, a, v, k

\* A sequence is its first part and the others.
LEMMA FirstAndRest ==
    ASSUME NEW q \in Seq(Part), q # <<>>
    PROVE  /\ Head(q) \in Part /\ Tail(q) \in Seq(Part) /\ q = <<Head(q)>> \o Tail(q)
           /\ Tail(q) # <<>> => Tail(q)[Len(Tail(q))] = q[Len(q)]
<1> DEFINE h == Head(q)
           t == Tail(q)
<1>1. /\ h \in Part /\ t \in Seq(Part) /\ Len(q) \in Nat /\ Len(q) > 0 /\ h = q[1]
  BY HeadTailProperties, LenProperties, EmptySeq
<1>2. q = <<h>> \o t
  <2>1. 1 \in 1..Len(q) /\ Len(q) \in 1..Len(q) /\ 1 + 1 = 2 BY <1>1
  <2>2. SubSeq(q, 1, Len(q)) = <<q[1]>> \o SubSeq(q, 1 + 1, Len(q)) BY Zenon, <2>1, SubSeqRecursiveFirst
  <2>3. SubSeq(q, 1, Len(q)) = q /\ t = SubSeq(q, 2, Len(q)) BY Zenon, SubSeqFull, TailIsSubSeq
  <2> QED BY Zenon, <1>1, <2>1, <2>2, <2>3
<1>3. <<h>> \in Seq(Part) BY <1>1
<1> HIDE DEF h, t
<1>4. t # <<>> => q[Len(q)] = t[Len(t)] BY Zenon, <1>1, <1>2, <1>3, LastOfConcat
<1> QED BY Zenon, <1>1, <1>2, <1>4 DEF h, t

\* read() of a part
LEMMA DeliveredRead ==
    ASSUME NEW g \in Seq(Part), NEW q \in Seq(Part), NEW u \in Seq(Part), NEW n \in Nat,
           NEW m, NEW w, NEW gone, NEW act,
           Delivered(g, q, u, n, m, w, gone, act), q # <<>>, Head(q) # Delimiter
    PROVE  Delivered(Append(g, Head(q)), Tail(q), u, n, m, w, gone, act)
<1> DEFINE h == Head(q)
           t == Tail(q)
           e == <<h>>
           b == Append(g, h)
<1>1. h \in Part /\ t \in Seq(Part) /\ q = e \o t BY Zenon, FirstAndRest
<1>2. e \in Seq(Part) BY <1>1
<1>3. b = g \o e /\ b \in Seq(Part) BY Zenon, <1>1, AppendIsConcat, AppendProperties
<1>4. /\ Len(g) \in Nat /\ Len(b) = Len(g) + 1 /\ b[Len(g) + 1] = h
      /\ \A i \in 1..Len(g) : b[i] = g[i]
  BY <1>1, AppendProperties, LenProperties
<1> HIDE DEF t, e, b
<1>5. b \o t = g \o q
  <2>1. t \in Seq(Part) BY Zenon, <1>1
  <2>2. (g \o e) \o t = g \o (e \o t)
    <3>1. Regroup(g, e, t) BY Zenon, <1>2, <2>1, Assoc
    <3> QED BY Zenon, <3>1 DEF Regroup
  <2> QED BY Zenon, <1>1, <1>3, <2>2
<1>6. b \o (t \o u) = g \o (q \o u)
  <2>1. (b \o t) \o u = b \o (t \o u)
    <3>1. Regroup(b, t, u) BY Zenon, <1>1, <1>3, Assoc
    <3> QED BY Zenon, <3>1 DEF Regroup
  <2>2. (g \o q) \o u = g \o (q \o u)
    <3>1. Regroup(g, q, u) BY Zenon, Assoc
    <3> QED BY Zenon, <3>1 DEF Regroup
  <2> QED BY Zenon, <1>5, <2>1, <2>2
<1>7. \A i \in 1..Len(b) : i \in 1..Len(g) \/ i = Len(g) + 1 BY <1>4
<1>8. \A i \in 1..Len(g) : g[i] # Delimiter BY Zenon DEF Delivered
<1>9. \A i \in 1..Len(b) : b[i] # Delimiter BY Zenon, <1>4, <1>7, <1>8
<1>10. Delivered(b, t, u, n, m, w, gone, act) BY Zenon, <1>5, <1>6, <1>9 DEF Delivered
<1> QED BY Zenon, <1>10 DEF b, t

\* read() of the delimiter or of a credential
LEMMA DeliveredSkip ==
    ASSUME NEW g \in Seq(Part), NEW q \in Seq(Part), NEW u \in Seq(Part), NEW n \in Nat,
           NEW m, NEW w, NEW gone, NEW act,
           Delivered(g, q, u, n, m, w, gone, act), q # <<>>, Alone(Head(q))
    PROVE  Delivered(g, Tail(q), u, n, m, w, gone, act)
<1> DEFINE t == Tail(q)
           a == q \o u
<1>1. t \in Seq(Part) /\ (t # <<>> => t[Len(t)] = q[Len(q)]) BY Zenon, FirstAndRest
<1>2. a \in Seq(Part) /\ a # <<>> /\ Head(a) = Head(q) /\ Tail(a) = t \o u
  BY Zenon, HeadTailConcat, ConcatProperties
<1>3. /\ Sorted(g \o a) /\ Past(g \o a, n, m) /\ (w => Paired(g \o a) /\ (gone \/ ~EndsMid(g \o q)))
      /\ \A i \in 1..Len(g) : g[i] # Delimiter
      /\ w /\ act => (m <=> EndsMid(u)) /\ (m => u[Len(u)].n = n)
  BY Zenon DEF Delivered
<1> HIDE DEF a
<1>4. /\ Sorted(g \o Tail(a)) /\ Past(g \o Tail(a), n, m)
      /\ w => Paired(g \o Tail(a)) /\ ~EndsMid(g)
  BY Zenon, <1>2, <1>3, Removed
<1>5. ASSUME w, ~gone PROVE ~EndsMid(g \o t)
  <2>1. CASE t = <<>> BY Zenon, <1>1, <1>4, <1>5, <2>1, LastOfConcat
  <2>2. CASE t # <<>>
    <3>1. EndsMid(g \o t) <=> EndsMid(t) BY Zenon, <1>1, <2>2, LastOfConcat
    <3>2. EndsMid(g \o q) <=> EndsMid(q) BY Zenon, LastOfConcat
    <3> QED BY Zenon, <1>1, <1>3, <1>5, <2>2, <3>1, <3>2 DEF EndsMid
  <2> QED BY Zenon, <2>1, <2>2
<1> QED BY Zenon, <1>2, <1>3, <1>4, <1>5 DEF Delivered

\* A new ypipe, after a hiccup or because the reader is gone.
LEMMA DeliveredNew ==
    ASSUME NEW g \in Seq(Part), NEW q \in Seq(Part), NEW u \in Seq(Part), NEW n \in Nat,
           NEW m, NEW w, NEW gone, NEW act,
           Delivered(g, q, u, n, m, w, gone, act)
    PROVE  /\ \A a \in BOOLEAN : Delivered(g, <<>>, <<>>, n, m, FALSE, gone, a)
           /\ Delivered(g, <<>>, <<>>, n, m, w, TRUE, FALSE)
<1> DEFINE r == q \o u
           e == <<>>
<1>1. r \in Seq(Part) BY Zenon, ConcatProperties
<1>2. e \in Seq(Part) /\ e \o e = e /\ g \o e = g BY Zenon, EmptySeq, ConcatEmptySeq
<1>3. /\ \A i \in 1..Len(g) : g[i] # Delimiter
      /\ Sorted(g \o r) /\ Past(g \o r, n, m) /\ (w => Paired(g \o r))
  BY Zenon DEF Delivered
<1> HIDE DEF r, e
<1>4. Sorted(g) /\ Past(g, n, m) /\ (w => Paired(g)) BY Zenon, <1>1, <1>3, Prefixes
<1>5. g \o (e \o e) = g BY Zenon, <1>2
<1> QED BY Zenon, <1>2, <1>3, <1>4, <1>5 DEF Delivered, e

\* Less is said: somebody goes, stops writing, or replaces a ypipe.
LEMMA DeliveredWeaker ==
    ASSUME NEW g, NEW q, NEW u, NEW n, NEW m,
           NEW w, NEW gone, NEW act,
           NEW v \in BOOLEAN, NEW left \in BOOLEAN, NEW on \in BOOLEAN,
           v => w, gone => left, on => act,
           Delivered(g, q, u, n, m, w, gone, act)
    PROVE  Delivered(g, q, u, n, m, v, left, on)
BY Zenon DEF Delivered

\* The user goes on, and writes elsewhere.
LEMMA DeliveredOther ==
    ASSUME NEW g \in Seq(Part), NEW q \in Seq(Part), NEW u \in Seq(Part), NEW n \in Nat,
           NEW m, NEW w, NEW gone, NEW act,
           Delivered(g, q, u, n, m, w, gone, act), ~w \/ ~act
    PROVE  /\ Delivered(g, q, u, n, FALSE, w, gone, act)
           /\ \A k \in Part : NextPart(k, n, m) =>
                 Delivered(g, q, u, k.n, k.kind = "head", w, gone, act)
<1> DEFINE s == g \o (q \o u)
<1>1. s \in Seq(Part) BY Zenon, ConcatProperties
<1>2. Past(s, n, m) BY Zenon DEF Delivered
<1> HIDE DEF s
<1>3. Past(s, n, FALSE) /\ \A k \in Part : NextPart(k, n, m) => Past(s, k.n, k.kind = "head")
  BY Zenon, <1>1, <1>2, SortedMore
<1> QED BY Zenon, <1>3 DEF Delivered, s

-----------------------------------------------------------------------------
(* The delimiter, behind everything written *)

\* Everything was flushed, and the delimiter comes last.
Final(y) ==
    /\ y.u = <<>> /\ y.q # <<>> /\ y.q[Len(y.q)] = Delimiter
    /\ \A i \in 1..Len(y.q) : i < Len(y.q) => y.q[i] # Delimiter

\* The first item of a ypipe has others behind it or is the only one.
LEMMA FirstOrOnly == \A n \in Nat : n > 0 => 1 \in 1..n /\ (1 < n \/ n = 1)
OBVIOUS

\* The delimiter is next.
LEMMA DelimiterNext ==
    ASSUME Counting, NEW y \in Ypipe, y.q # <<>>, Head(y.q) = Delimiter
    PROVE  ~Open(y) /\ (Final(y) => Load(y) = 1)
<1> DEFINE q == y.q
<1>1. q \in Seq(Part) /\ y.u \in Seq(Part) BY Zenon DEF Ypipe
<1>2. Len(q) \in Nat /\ Len(q) > 0 /\ Head(q) = q[1] /\ Tail(q) \in Seq(Part) /\ Len(Tail(q)) = Len(q) - 1
  BY <1>1, HeadTailProperties, LenProperties, EmptySeq
<1>3. 1 \in 1..Len(q) /\ (1 < Len(q) \/ Len(q) = 1) BY Zenon, <1>2, FirstOrOnly
<1>4. ~Open(y) BY Zenon, <1>2, <1>3 DEF Open
<1>5. ASSUME Final(y) PROVE Load(y) = 1
  <2>1. Len(q) = 1 BY Zenon, <1>2, <1>3, <1>5 DEF Final
  <2>2. Len(Tail(q)) = 0 BY <1>2, <2>1
  <2>3. Tail(q) = <<>> BY Zenon, <1>2, <2>2, EmptySeq
  <2>4. q \o y.u = q BY Zenon, <1>1, <1>5, ConcatEmptySeq DEF Final
  <2>5. Messages(q) = Messages(Tail(q)) + Weight(Head(q)) BY Zenon, <1>1, MessagesTail
  <2>6. Messages(<<>>) = 0 BY Zenon DEF Counting
  <2>7. Weight(Delimiter) = 1 BY Zenon DEF Weight, More, Delimiter
  <2>8. Messages(q) = 0 + 1 BY Zenon, <2>3, <2>5, <2>6, <2>7
  <2>9. Load(y) = Messages(q) BY Zenon, <2>4 DEF Load
  <2> HIDE DEF q
  <2> QED BY <2>8, <2>9
<1> QED BY Zenon, <1>4, <1>5

\* A part before it is read.
LEMMA FinalRead ==
    ASSUME NEW y \in Ypipe, Final(y), Head(y.q) # Delimiter
    PROVE  Final([y EXCEPT !.q = Tail(@)])
<1> DEFINE q == y.q
           t == Tail(q)
           z == [y EXCEPT !.q = Tail(@)]
<1>1. q \in Seq(Part) /\ q # <<>> BY Zenon DEF Ypipe, Final
<1>2. z.q = t /\ z.u = y.u BY Zenon DEF Ypipe
<1>3. /\ Len(q) \in Nat /\ Len(q) > 0 /\ Head(q) = q[1] /\ t \in Seq(Part) /\ Len(t) = Len(q) - 1
      /\ \A i \in 1..Len(t) : t[i] = q[i + 1]
  BY <1>1, HeadTailProperties, LenProperties, EmptySeq
<1> HIDE DEF z, t, q
<1>4. q[Len(q)] = Delimiter /\ q[1] # Delimiter /\ \A i \in 1..Len(q) : i < Len(q) => q[i] # Delimiter
  BY Zenon, <1>3 DEF Final, q
<1>5. Len(q) # 1 BY Zenon, <1>4
<1>6. Len(t) \in 1..Len(t) /\ Len(t) # 0 /\ Len(t) + 1 = Len(q) BY <1>3, <1>5
<1>7. t # <<>> BY Zenon, <1>6, EmptySeq
<1>8. t[Len(t)] = Delimiter BY Zenon, <1>3, <1>4, <1>6
<1>9. \A i \in 1..Len(t) : i < Len(t) => i + 1 \in 1..Len(q) /\ i + 1 < Len(q) BY <1>3
<1>10. \A i \in 1..Len(t) : i < Len(t) => t[i] # Delimiter BY Zenon, <1>3, <1>4, <1>9
<1>11. y.u = <<>> BY Zenon DEF Final
<1>12. Final(z) BY Zenon, <1>2, <1>7, <1>8, <1>10, <1>11 DEF Final
<1> QED BY Zenon, <1>12 DEF z

\* Neither rollback() nor flush() finds anything behind it.
LEMMA FinalStays ==
    ASSUME NEW y \in Ypipe, Final(y)
    PROVE  Complete(y.u) = <<>> /\ RolledBack(y).q = y.q /\ RolledBack(y).u = y.u
<1>1. y.u = <<>> /\ y.u \in Seq(Part) BY Zenon DEF Final, Ypipe
<1>2. ~EndsMid(y.u) BY Zenon, <1>1 DEF EndsMid
<1>3. Complete(y.u) = y.u BY Zenon, <1>1, <1>2, Cut
<1>4. RolledBack(y).q = y.q /\ RolledBack(y).u = Complete(y.u) BY Zenon DEF RolledBack, Ypipe
<1> QED BY Zenon, <1>1, <1>3, <1>4

\* terminate() writes it.
LEMMA FinalWritten ==
    ASSUME Counting, NEW y \in Ypipe, Open(y)
    PROVE  LET e == Flushed(Written(RolledBack(y), Delimiter)) IN Final(e) /\ Load(e) = Load(y) + 1
<1> DEFINE r == RolledBack(y)
           v == Written(r, Delimiter)
           e == Flushed(v)
           c == Complete(y.u)
           t == Append(c, Delimiter)
           s == y.q \o t
<1>1. r \in Ypipe /\ Delimiter \in Part BY Zenon, Ypipes, FirstYpipe
<1>2. v \in Ypipe BY Zenon, <1>1, Ypipes
<1>3. Load(e) = Load(y) + 1
  <2>1. Load(r) = Load(y) /\ Load(v) = Load(r) + Weight(Delimiter) BY Zenon, <1>1, Loads, LoadWritten
  <2>2. Load(e) = Load(v) BY Zenon, <1>2, Loads
  <2>3. Weight(Delimiter) = 1 BY Zenon DEF Weight, More, Delimiter
  <2> QED BY Zenon, <2>1, <2>2, <2>3
<1>4. y.q \in Seq(Part) /\ c \in Seq(Part) /\ t \in Seq(Part) /\ y.u \in Seq(Part)
  <2>1. y.q \in Seq(Part) /\ y.u \in Seq(Part) BY Zenon DEF Ypipe
  <2>2. c \in Seq(Part) BY Zenon, <2>1, Cut
  <2> QED BY Zenon, <1>1, <2>1, <2>2, AppendProperties
<1>5. r.q = y.q /\ r.u = c BY Zenon DEF RolledBack, Ypipe
<1>6. v.q = y.q /\ v.u = t BY Zenon, <1>1, <1>5 DEF Written, Ypipe
<1>7. /\ \A i \in 1..Len(y.q) : y.q[i] # Delimiter
      /\ \A i \in 1..Len(c) : c[i] # Delimiter
  BY Zenon, <1>5, Loads DEF Open
<1>8. /\ Len(c) \in Nat /\ Len(t) = Len(c) + 1 /\ t[Len(c) + 1] = Delimiter
      /\ \A i \in 1..Len(c) : t[i] = c[i]
  BY <1>4, AppendProperties, LenProperties
<1> HIDE DEF c, t
<1>9. ~EndsMid(t)
  <2>1. t[Len(t)] = Delimiter BY Zenon, <1>8
  <2>2. ~More(Delimiter) BY Zenon DEF More, Delimiter
  <2> QED BY Zenon, <2>1, <2>2 DEF EndsMid
<1>10. Complete(t) = t /\ Unfinished(t) = <<>> BY Zenon, <1>4, <1>9, Cut
<1>11. e.q = s /\ e.u = <<>> BY Zenon, <1>6, <1>10 DEF Flushed
<1>12. /\ Len(y.q) \in Nat /\ Len(s) = Len(y.q) + Len(t) /\ s \in Seq(Part)
       /\ \A i \in 1..(Len(y.q) + Len(t)) : s[i] = IF i <= Len(y.q) THEN y.q[i] ELSE t[i - Len(y.q)]
  BY Zenon, <1>4, ConcatProperties, LenProperties
<1> HIDE DEF s, e
<1>n. Len(y.q) \in Nat /\ Len(c) \in Nat /\ Len(t) = Len(c) + 1 /\ Len(s) = Len(y.q) + Len(t) BY Zenon, <1>8, <1>12
<1>13. s[Len(s)] = Delimiter /\ s # <<>>
  <2>1. Len(s) \in 1..(Len(y.q) + Len(t)) /\ ~(Len(s) <= Len(y.q)) /\ Len(s) - Len(y.q) = Len(c) + 1 /\ Len(s) # 0
    <3> DEFINE a == Len(y.q)
               b == Len(c)
               d == Len(t)
               k == Len(s)
    <3>1. a \in Nat /\ b \in Nat /\ d = b + 1 /\ k = a + d BY Zenon, <1>n
    <3> HIDE DEF a, b, d, k
    <3>2. k \in 1..(a + d) /\ ~(k <= a) /\ k - a = b + 1 /\ k # 0 BY <3>1
    <3> QED BY Zenon, <3>2 DEF a, b, d, k
  <2> QED BY Zenon, <1>8, <1>12, <2>1, EmptySeq
<1>14. \A i \in 1..Len(s) : i < Len(s) => s[i] # Delimiter
  <2> SUFFICES ASSUME NEW i \in 1..Len(s), i < Len(s) PROVE s[i] # Delimiter BY Zenon
  <2>1. i \in 1..(Len(y.q) + Len(t)) BY Zenon, <1>12
  <2>2. i <= Len(y.q) => i \in 1..Len(y.q) BY <1>n
  <2>3. ~(i <= Len(y.q)) => i - Len(y.q) \in 1..Len(c)
    <3> DEFINE a == Len(y.q)
               b == Len(c)
               d == Len(t)
               k == Len(s)
    <3>1. a \in Nat /\ b \in Nat /\ d = b + 1 /\ k = a + d /\ i \in 1..k /\ i < k BY Zenon, <1>n
    <3> HIDE DEF a, b, d, k
    <3>2. ~(i <= a) => i - a \in 1..b BY <3>1
    <3> QED BY Zenon, <3>2 DEF a, b
  <2> QED BY Zenon, <1>7, <1>8, <1>12, <2>1, <2>2, <2>3
<1>15. Final(e) BY Zenon, <1>11, <1>13, <1>14 DEF Final
<1> QED BY Zenon, <1>3, <1>15 DEF e
=============================================================================
