----------------------------- MODULE PipeProofs -----------------------------
(***************************************************************************)
(* Proof of the termination handshake of a pair of pipes for any number    *)
(* of messages, terminate() and hiccup() calls and any watermarks: the     *)
(* inductive invariant, that it survives what the operations do to the     *)
(* commands, the states and the ypipes of the two ends, and the operations *)
(* one by one.                                                             *)
(***************************************************************************)
EXTENDS Pipe, SequenceTheorems, TLAPS

\* What the proof needs to know of the constants.  An end whose acknowledgement
\* is on its way may still be told new watermarks, and sends pipe_hwm to a peer
\* that may be gone: so either nobody changes them or nobody closes the pipe.
Bounds ==
    /\ Hwm \in [Ends -> Nat] /\ NewHwms \subseteq Nat
    /\ Boost \in [Ends -> [in : Int, out : Int]]
    /\ MaxTerms \in [Ends -> Nat] /\ MaxHwmChanges \in [Ends -> Nat]
    /\ (\A p \in Ends : MaxHwmChanges[p] = 0) \/ (\A p \in Ends : MaxTerms[p] = 0)

-----------------------------------------------------------------------------
(* What a queue of commands holds.                                         *)

Has(s, c) == \E i \in 1..Len(s) : s[i].c = c

\* The ypipes that hiccup commands bring.
Pipes(s) == {s[i].pipe : i \in {j \in 1..Len(s) : s[j].c = "hiccup"}}

\* Nothing follows pipe_term_ack, and neither a hiccup nor a second request
\* follows pipe_term.
Ordered(s) ==
    \A i, j \in 1..Len(s) : i < j =>
        /\ s[i].c # "pipe_term_ack"
        /\ s[i].c = "pipe_term" => s[j].c \notin {"pipe_term", "hiccup"}

\* Every hiccup brings a ypipe that was created later.
Rising(s) ==
    \A i, j \in 1..Len(s) :
        i < j /\ s[i].c = "hiccup" /\ s[j].c = "hiccup" => s[i].pipe < s[j].pipe

-----------------------------------------------------------------------------
(* The inductive invariant *)

\* The end has sent its last command, pipe_term_ack.
Acked(p) == st[p] \in {"term_ack_sent", "term_req_sent2", "gone"}

\* It has not processed the peer's pipe_term.
Unasked(p) == st[p] \in {"active", "delimiter_received", "term_req_sent1"}

\* The states of the two ends fit each other and the commands between them.
Joint(p) ==
    LET q == Peer(p) IN
    /\ Has(cmds[q], "pipe_term_ack") <=> Acked(p) /\ ~Gone(q)
    /\ Has(cmds[q], "pipe_term") <=> st[p] \in {"term_req_sent1", "term_req_sent2"} /\ Unasked(q)
    /\ Pipes(cmds[q]) # {} => Unasked(q)
    /\ st[p] = "waiting_for_delimiter" => st[q] = "term_req_sent1"
    /\ st[p] = "term_ack_sent" => st[q] \in {"term_req_sent1", "gone"}
    /\ st[p] = "term_req_sent2" => st[q] \in {"term_req_sent1", "term_req_sent2", "gone"}
    /\ Gone(p) => Acked(q) /\ cmds[p] = <<>>
    /\ out[p] = NULL <=> Acked(p)
    /\ Ordered(cmds[q]) /\ Rising(cmds[q])

\* p reads from the last of the ypipes that its peer has been told of; those
\* it has not plugged in yet were created one after the other.
Chain(p) ==
    LET q == Peer(p)
        H == Pipes(cmds[q]) IN
    /\ H # {} => in[p] \in H /\ \A h \in H : out[q] < h /\ h <= in[p]
    /\ H = {} /\ ~Acked(q) => out[q] = in[p]

\* The ypipes of the two directions are different ones.
Apart(p) ==
    LET q == Peer(p) IN
    /\ in[p] # in[q] /\ out[p] # in[p] /\ (out[p] = out[q] => out[p] = NULL)
    /\ \A h \in Pipes(cmds[p]) : h # in[p] /\ h # out[q] /\ h \notin Pipes(cmds[q])

\* A ypipe is deleted exactly when no end has it or will be told of it.
HeldBy(p, y) == (~Gone(p) /\ in[p] = y) \/ out[p] = y \/ y \in Pipes(cmds[p])
Held(p) ==
    /\ ~Gone(p) => in[p] \notin freed
    /\ out[p] \notin freed
    /\ \A h \in Pipes(cmds[p]) : h \in 1..Len(yp) /\ h \notin freed
Kept == \A y \in 1..Len(yp) : y \in freed \/ \E p \in Ends : HeldBy(p, y)

\* The types.  That nwritten is a number takes counting messages (PipeFlowProofs).
Typed ==
    /\ st \in [Ends -> States \union {"gone"}]
    /\ delay \in [Ends -> BOOLEAN] /\ mid \in [Ends -> BOOLEAN]
    /\ inActive \in [Ends -> BOOLEAN] /\ outActive \in [Ends -> BOOLEAN]
    /\ hwm \in [Ends -> Nat] /\ lwm \in [Ends -> Nat] /\ started \in [Ends -> Nat]
    /\ nread \in [Ends -> Nat] /\ peerRead \in [Ends -> Nat] /\ skipped \in [Ends -> Nat]
    /\ yp \in Seq([q : Seq(Part), u : Seq(Part), asleep : BOOLEAN])
    /\ in \in [Ends -> 1..Len(yp)] /\ out \in [Ends -> 0..Len(yp)]
    /\ freed \subseteq 1..Len(yp)
    /\ cmds \in [Ends -> Seq(Command)]
    /\ got \in [Ends -> Seq(Part)]
    /\ calls \in [Ends -> [term : Nat, hiccup : Nat, hwm : Nat]]

\* Nobody closes a pipe whose watermarks change.
Quiet == (\A p \in Ends : MaxTerms[p] = 0) => \A p \in Ends : st[p] \in {"active", "delimiter_received"}

Hand == (\A p \in Ends : Joint(p) /\ Chain(p) /\ Apart(p) /\ Held(p)) /\ Kept /\ Quiet

IInv == Typed /\ Hand
-----------------------------------------------------------------------------
(* Facts about queues of commands *)

\* Who brings a ypipe.
LEMMA Brought ==
    \A s, y : y \in Pipes(s) <=> \E i \in 1..Len(s) : s[i].c = "hiccup" /\ s[i].pipe = y
BY Zenon DEF Pipes

\* A queue that grows at its end.
LEMMA Longer ==
    ASSUME NEW S, NEW s \in Seq(S), NEW t \in Seq(S)
    PROVE  /\ s \o t \in Seq(S)
           /\ \A c : Has(s \o t, c) <=> Has(s, c) \/ Has(t, c)
           /\ Pipes(s \o t) = Pipes(s) \union Pipes(t)
<1> DEFINE u == s \o t
<1>1. /\ u \in Seq(S) /\ Len(u) = Len(s) + Len(t)
      /\ \A i \in 1..Len(s) : u[i] = s[i]
      /\ \A i \in 1..Len(t) : u[Len(s) + i] = t[i]
      /\ Len(s) \in Nat /\ Len(t) \in Nat
  BY ConcatProperties, LenProperties
<1>2. \A i \in 1..Len(u) : i \in 1..Len(s) \/ \E j \in 1..Len(t) : i = Len(s) + j
  <2> TAKE i \in 1..Len(u)
  <2> CASE i <= Len(s) BY <1>1
  <2> CASE ~(i <= Len(s))
    <3> i - Len(s) \in 1..Len(t) /\ i = Len(s) + (i - Len(s)) BY <1>1
    <3> QED BY Zenon
  <2> QED BY Zenon
<1>3. /\ \A i \in 1..Len(s) : i \in 1..Len(u)
      /\ \A i \in 1..Len(t) : Len(s) + i \in 1..Len(u)
  BY <1>1
<1> HIDE DEF u
<1>4. \A c : Has(u, c) <=> Has(s, c) \/ Has(t, c)
  <2> TAKE c
  <2>1. ASSUME Has(u, c) PROVE Has(s, c) \/ Has(t, c)
    <3> PICK i \in 1..Len(u) : u[i].c = c BY Zenon, <2>1 DEF Has
    <3> CASE i \in 1..Len(s) BY Zenon, <1>1 DEF Has
    <3> CASE \E j \in 1..Len(t) : i = Len(s) + j BY Zenon, <1>1 DEF Has
    <3> QED BY Zenon, <1>2
  <2>2. ASSUME Has(s, c) PROVE Has(u, c)
    <3> PICK i \in 1..Len(s) : s[i].c = c BY Zenon, <2>2 DEF Has
    <3> i \in 1..Len(u) /\ u[i].c = c BY Zenon, <1>1, <1>3
    <3> QED BY Zenon DEF Has
  <2>3. ASSUME Has(t, c) PROVE Has(u, c)
    <3> PICK i \in 1..Len(t) : t[i].c = c BY Zenon, <2>3 DEF Has
    <3> Len(s) + i \in 1..Len(u) /\ u[Len(s) + i].c = c BY Zenon, <1>1, <1>3
    <3> QED BY Zenon DEF Has
  <2> QED BY Zenon, <2>1, <2>2, <2>3
<1>5. Pipes(u) = Pipes(s) \union Pipes(t)
  <2>1. ASSUME NEW y \in Pipes(u) PROVE y \in Pipes(s) \/ y \in Pipes(t)
    <3> PICK i \in 1..Len(u) : u[i].c = "hiccup" /\ u[i].pipe = y BY Zenon, Brought
    <3> CASE i \in 1..Len(s) BY <1>1, Brought
    <3> CASE \E j \in 1..Len(t) : i = Len(s) + j BY <1>1, Brought
    <3> QED BY Zenon, <1>2
  <2>2. ASSUME NEW y \in Pipes(s) PROVE y \in Pipes(u)
    <3> PICK i \in 1..Len(s) : s[i].c = "hiccup" /\ s[i].pipe = y BY Zenon, Brought
    <3> i \in 1..Len(u) /\ u[i] = s[i] BY Zenon, <1>1, <1>3
    <3> QED BY Brought
  <2>3. ASSUME NEW y \in Pipes(t) PROVE y \in Pipes(u)
    <3> PICK i \in 1..Len(t) : t[i].c = "hiccup" /\ t[i].pipe = y BY Zenon, Brought
    <3> Len(s) + i \in 1..Len(u) /\ u[Len(s) + i] = t[i] BY Zenon, <1>1, <1>3
    <3> QED BY Brought
  <2> QED BY Zenon, <2>1, <2>2, <2>3
<1> QED BY Zenon, <1>1, <1>4, <1>5 DEF u

\* What is appended keeps the order of the commands.
LEMMA LongerOrder ==
    ASSUME NEW S, NEW s \in Seq(S), NEW t \in Seq(S),
           Ordered(s), Ordered(t), ~Has(s, "pipe_term_ack"),
           Has(s, "pipe_term") => ~Has(t, "pipe_term") /\ ~Has(t, "hiccup")
    PROVE  Ordered(s \o t)
<1> DEFINE u == s \o t
<1>1. /\ Len(u) = Len(s) + Len(t)
      /\ \A i \in 1..Len(u) : u[i] = IF i <= Len(s) THEN s[i] ELSE t[i - Len(s)]
      /\ Len(s) \in Nat /\ Len(t) \in Nat
  BY ConcatProperties, LenProperties
<1> HIDE DEF u
<1> SUFFICES ASSUME NEW i \in 1..Len(u), NEW j \in 1..Len(u), i < j
             PROVE  /\ u[i].c # "pipe_term_ack"
                    /\ u[i].c = "pipe_term" => u[j].c \notin {"pipe_term", "hiccup"}
  BY Zenon DEF Ordered, u
<1>2. CASE j <= Len(s)
  <2> i \in 1..Len(s) /\ j \in 1..Len(s) /\ u[i] = s[i] /\ u[j] = s[j] BY <1>1, <1>2
  <2> QED BY Zenon DEF Ordered
<1>3. CASE ~(i <= Len(s))
  <2> DEFINE k == i - Len(s)
             l == j - Len(s)
  <2> k \in 1..Len(t) /\ l \in 1..Len(t) /\ k < l /\ u[i] = t[k] /\ u[j] = t[l] BY <1>1, <1>3
  <2> HIDE DEF k, l
  <2> QED BY Zenon DEF Ordered
<1>4. CASE i <= Len(s) /\ ~(j <= Len(s))
  <2> DEFINE l == j - Len(s)
  <2> i \in 1..Len(s) /\ l \in 1..Len(t) /\ u[i] = s[i] /\ u[j] = t[l] BY <1>1, <1>4
  <2> HIDE DEF l
  <2> QED BY Zenon DEF Has
<1> QED BY Zenon, <1>1, <1>2, <1>3, <1>4

LEMMA LongerRising ==
    ASSUME NEW S, NEW s \in Seq(S), NEW t \in Seq(S), Rising(s), Rising(t),
           \A h \in Pipes(s), k \in Pipes(t) : h < k
    PROVE  Rising(s \o t)
<1> DEFINE u == s \o t
<1>1. /\ Len(u) = Len(s) + Len(t)
      /\ \A i \in 1..Len(u) : u[i] = IF i <= Len(s) THEN s[i] ELSE t[i - Len(s)]
      /\ Len(s) \in Nat /\ Len(t) \in Nat
  BY ConcatProperties, LenProperties
<1> HIDE DEF u
<1> SUFFICES ASSUME NEW i \in 1..Len(u), NEW j \in 1..Len(u), i < j,
                    u[i].c = "hiccup", u[j].c = "hiccup"
             PROVE  u[i].pipe < u[j].pipe
  BY Zenon DEF Rising, u
<1>2. CASE j <= Len(s)
  <2> i \in 1..Len(s) /\ j \in 1..Len(s) /\ u[i] = s[i] /\ u[j] = s[j] BY <1>1, <1>2
  <2> QED BY Zenon DEF Rising
<1>3. CASE ~(i <= Len(s))
  <2> DEFINE k == i - Len(s)
             l == j - Len(s)
  <2> k \in 1..Len(t) /\ l \in 1..Len(t) /\ k < l /\ u[i] = t[k] /\ u[j] = t[l] BY <1>1, <1>3
  <2> HIDE DEF k, l
  <2> QED BY Zenon DEF Rising
<1>4. CASE i <= Len(s) /\ ~(j <= Len(s))
  <2> DEFINE l == j - Len(s)
  <2> i \in 1..Len(s) /\ l \in 1..Len(t) /\ u[i] = s[i] /\ u[j] = t[l] BY <1>1, <1>4
  <2> HIDE DEF l
  <2> u[i].pipe \in Pipes(s) /\ u[j].pipe \in Pipes(t) BY Zenon DEF Pipes
  <2> QED BY Zenon
<1> QED BY Zenon, <1>1, <1>2, <1>3, <1>4

\* A queue whose oldest command is taken.
LEMMA Shorter ==
    ASSUME NEW S, NEW s \in Seq(S), s # <<>>
    PROVE  /\ Tail(s) \in Seq(S) /\ Head(s) \in S
           /\ \A c : Has(s, c) <=> Head(s).c = c \/ Has(Tail(s), c)
           /\ Pipes(s) = Pipes(Tail(s)) \union
                            (IF Head(s).c = "hiccup" THEN {Head(s).pipe} ELSE {})
<1> DEFINE t == Tail(s)
           h == Head(s)
<1>1. /\ t \in Seq(S) /\ h \in S /\ h = s[1] /\ 1 \in 1..Len(s)
      /\ Len(t) = Len(s) - 1 /\ Len(s) \in Nat
      /\ \A i \in 1..Len(t) : t[i] = s[i + 1] /\ i + 1 \in 1..Len(s)
  BY HeadTailProperties, LenProperties
<1>2. \A i \in 1..Len(s) : i = 1 \/ \E j \in 1..Len(t) : i = j + 1
  <2> TAKE i \in 1..Len(s)
  <2> CASE i # 1
    <3> i - 1 \in 1..Len(t) /\ i = (i - 1) + 1 BY <1>1
    <3> QED BY Zenon
  <2> QED BY Zenon
<1> HIDE DEF t, h
<1>3. \A c : Has(s, c) <=> h.c = c \/ Has(t, c)
  <2> TAKE c
  <2>1. ASSUME Has(s, c) PROVE h.c = c \/ Has(t, c)
    <3> PICK i \in 1..Len(s) : s[i].c = c BY Zenon, <2>1 DEF Has
    <3> CASE i = 1 BY Zenon, <1>1
    <3> CASE \E j \in 1..Len(t) : i = j + 1 BY Zenon, <1>1 DEF Has
    <3> QED BY Zenon, <1>2
  <2>2. ASSUME Has(t, c) PROVE Has(s, c)
    <3> PICK i \in 1..Len(t) : t[i].c = c BY Zenon, <2>2 DEF Has
    <3> i + 1 \in 1..Len(s) /\ s[i + 1].c = c BY Zenon, <1>1
    <3> QED BY Zenon DEF Has
  <2>3. ASSUME h.c = c PROVE Has(s, c)
    BY Zenon, <1>1, <2>3 DEF Has
  <2> QED BY Zenon, <2>1, <2>2, <2>3
<1>4. Pipes(s) = Pipes(t) \union (IF h.c = "hiccup" THEN {h.pipe} ELSE {})
  <2>1. ASSUME NEW y \in Pipes(s) PROVE y \in Pipes(t) \/ (h.c = "hiccup" /\ y = h.pipe)
    <3> PICK i \in 1..Len(s) : s[i].c = "hiccup" /\ s[i].pipe = y BY Zenon, Brought
    <3> CASE i = 1 BY Zenon, <1>1
    <3> CASE \E j \in 1..Len(t) : i = j + 1
      <4> PICK j \in 1..Len(t) : i = j + 1 BY Zenon
      <4> t[j] = s[i] BY Zenon, <1>1
      <4> QED BY Brought
    <3> QED BY Zenon, <1>2
  <2>2. ASSUME NEW y \in Pipes(t) PROVE y \in Pipes(s)
    <3> PICK i \in 1..Len(t) : t[i].c = "hiccup" /\ t[i].pipe = y BY Zenon, Brought
    <3> i + 1 \in 1..Len(s) /\ s[i + 1] = t[i] BY Zenon, <1>1
    <3> QED BY Brought
  <2>3. ASSUME h.c = "hiccup" PROVE h.pipe \in Pipes(s)
    BY Zenon, <1>1, <2>3, Brought
  <2> QED BY Zenon, <2>1, <2>2, <2>3
<1> QED BY Zenon, <1>1, <1>3, <1>4 DEF t, h

LEMMA ShorterOrder ==
    ASSUME NEW S, NEW s \in Seq(S), s # <<>>, Ordered(s), Rising(s)
    PROVE  /\ Ordered(Tail(s)) /\ Rising(Tail(s))
           /\ Head(s).c = "pipe_term_ack" => Tail(s) = <<>>
           /\ Head(s).c = "pipe_term" => ~Has(Tail(s), "pipe_term") /\ Pipes(Tail(s)) = {}
           /\ Head(s).c = "hiccup" => \A k \in Pipes(Tail(s)) : Head(s).pipe < k
<1> DEFINE t == Tail(s)
           h == Head(s)
<1>1. /\ t \in Seq(S) /\ h = s[1] /\ 1 \in 1..Len(s)
      /\ Len(t) = Len(s) - 1 /\ Len(s) \in Nat /\ Len(t) \in Nat
      /\ \A i \in 1..Len(t) : t[i] = s[i + 1] /\ i + 1 \in 1..Len(s) /\ 1 < i + 1
  BY HeadTailProperties, LenProperties
<1>a. \A i, j \in 1..Len(t) : i < j => i + 1 < j + 1
  BY <1>1
<1> HIDE DEF t, h
<1>2. Ordered(t)
  BY Zenon, <1>1, <1>a DEF Ordered
<1>3. Rising(t)
  BY Zenon, <1>1, <1>a DEF Rising
<1>4. h.c = "pipe_term_ack" => t = <<>>
  <2> HAVE h.c = "pipe_term_ack"
  <2> \A i \in 1..Len(t) : FALSE BY Zenon, <1>1 DEF Ordered
  <2> Len(t) = 0 BY <1>1
  <2> QED BY Zenon, <1>1, EmptySeq
<1>5. h.c = "pipe_term" => ~Has(t, "pipe_term") /\ Pipes(t) = {}
  <2> HAVE h.c = "pipe_term"
  <2>1. \A i \in 1..Len(t) : t[i].c \notin {"pipe_term", "hiccup"} BY Zenon, <1>1 DEF Ordered
  <2> QED BY Zenon, <2>1 DEF Has, Pipes
<1>6. h.c = "hiccup" => \A k \in Pipes(t) : h.pipe < k
  BY Zenon, <1>1 DEF Rising, Pipes
<1> QED BY Zenon, <1>2, <1>3, <1>4, <1>5, <1>6 DEF t, h

\* Queues of no command, and of one.
LEMMA Short ==
    /\ \A c : ~Has(<<>>, c)
    /\ Pipes(<<>>) = {} /\ Ordered(<<>>) /\ Rising(<<>>)
    /\ \A x, c : Has(<<x>>, c) <=> x.c = c
    /\ \A x : Pipes(<<x>>) = IF x.c = "hiccup" THEN {x.pipe} ELSE {}
    /\ \A x : Ordered(<<x>>) /\ Rising(<<x>>)
<1>1. Len(<<>>) = 0 /\ 1..0 = {} OBVIOUS
<1>2. \A x : Len(<<x>>) = 1 /\ <<x>>[1] = x BY Zenon
<1>3. 1..1 = {1} OBVIOUS
<1>4. (\A c : ~Has(<<>>, c)) /\ Pipes(<<>>) = {} /\ Ordered(<<>>) /\ Rising(<<>>)
  BY Zenon, <1>1 DEF Has, Pipes, Ordered, Rising
<1>5. \A x, c : Has(<<x>>, c) <=> x.c = c
  BY Zenon, <1>2, <1>3 DEF Has
<1>6. \A x : Pipes(<<x>>) = IF x.c = "hiccup" THEN {x.pipe} ELSE {}
  BY <1>2, <1>3 DEF Pipes
<1>7. \A x : Ordered(<<x>>) /\ Rising(<<x>>)
  BY <1>2 DEF Ordered, Rising
<1> QED BY Zenon, <1>4, <1>5, <1>6, <1>7

-----------------------------------------------------------------------------
(* Facts about the two ends and what they send *)

LEMMA Two ==
    \A p \in Ends : Peer(p) \in Ends /\ Peer(p) # p /\ Peer(Peer(p)) = p
                   /\ \A x \in Ends : x = p \/ x = Peer(p)
BY Zenon DEF Ends, Peer

LEMMA Sent ==
    ASSUME Typed, NEW p \in Ends, NEW s \in Seq(Command), SendTo(Peer(p), s)
    PROVE  /\ cmds'[p] = cmds[p] /\ cmds'[Peer(p)] = cmds[Peer(p)] \o s
           /\ cmds' \in [Ends -> Seq(Command)]
<1> DEFINE q == Peer(p)
           C == Seq(Command)
<1>1. q \in Ends /\ q # p BY Zenon, Two
<1>2. cmds \in [Ends -> C] BY Zenon DEF Typed
<1>3. cmds[q] \o s \in C BY Zenon, <1>1, <1>2, ConcatProperties
<1>4. cmds' = [cmds EXCEPT ![q] = cmds[q] \o s] BY Zenon DEF SendTo
<1> HIDE DEF q, C
<1> QED BY Zenon, <1>1, <1>2, <1>3, <1>4 DEF q, C

LEMMA Replied ==
    ASSUME Typed, NEW p \in Ends, NEW s \in Seq(Command), Reply(p, s), cmds[p] # <<>>
    PROVE  /\ cmds'[p] = Tail(cmds[p]) /\ cmds'[Peer(p)] = cmds[Peer(p)] \o s
           /\ cmds' \in [Ends -> Seq(Command)]
<1> DEFINE q == Peer(p)
           C == Seq(Command)
<1>1. q \in Ends /\ q # p BY Zenon, Two
<1>2. cmds \in [Ends -> C] BY Zenon DEF Typed
<1>3. cmds[q] \o s \in C BY Zenon, <1>1, <1>2, ConcatProperties
<1>4. Tail(cmds[p]) \in C BY Zenon, <1>2, HeadTailProperties
<1>5. cmds' = [cmds EXCEPT ![p] = Tail(cmds[p]), ![q] = cmds[q] \o s] BY Zenon, <1>1 DEF Reply
<1> HIDE DEF q, C
<1> QED BY Zenon, <1>1, <1>2, <1>3, <1>4, <1>5 DEF q, C

\* The commands themselves.
LEMMA Commands ==
    /\ \A c \in {"activate_read", "pipe_term", "pipe_term_ack"} : Cmd(c) \in Command /\ Cmd(c).c = c
    /\ \A n \in Nat : [c |-> "activate_write", v |-> n] \in Command
    /\ \A n \in Nat \ {NULL} : [c |-> "hiccup", pipe |-> n] \in Command
    /\ \A n, m \in Nat : [c |-> "pipe_hwm", in |-> n, out |-> m] \in Command
BY Zenon DEF Command, Cmd

LEMMA Fields ==
    \A x \in Command :
        /\ x.c = "activate_write" => x.v \in Nat
        /\ x.c = "hiccup" => x.pipe \in Nat \ {NULL}
        /\ x.c = "pipe_hwm" => x.in \in Nat /\ x.out \in Nat
BY Zenon DEF Command

\* Nothing among them is part of the handshake.
Plain(s) == ~Has(s, "pipe_term") /\ ~Has(s, "pipe_term_ack") /\ ~Has(s, "hiccup")
            /\ Pipes(s) = {} /\ Ordered(s) /\ Rising(s)

LEMMA PlainOnes ==
    /\ Plain(<<>>)
    /\ \A x : x.c \notin {"pipe_term", "pipe_term_ack", "hiccup"} => Plain(<<x>>)
    /\ \A y : WakeUp(y) \in Seq(Command) /\ Plain(WakeUp(y))
<1>1. Plain(<<>>) BY Zenon, Short DEF Plain
<1>2. \A x : x.c \notin {"pipe_term", "pipe_term_ack", "hiccup"} => Plain(<<x>>)
  BY Zenon, Short DEF Plain
<1>3. ASSUME NEW y PROVE WakeUp(y) \in Seq(Command) /\ Plain(WakeUp(y))
  <2>1. Cmd("activate_read") \in Command /\ Cmd("activate_read").c = "activate_read" BY Zenon, Commands
  <2>2. <<Cmd("activate_read")>> \in Seq(Command) /\ Plain(<<Cmd("activate_read")>>)
    BY <1>2, <2>1
  <2>3. <<>> \in Seq(Command) BY Zenon, EmptySeq
  <2> QED BY Zenon, <1>1, <2>2, <2>3 DEF WakeUp
<1> QED BY Zenon, <1>1, <1>2, <1>3

-----------------------------------------------------------------------------
(* Every action keeps the inductive invariant *)

\* Ypipes are known by their indices.
LEMMA Indices ==
    ASSUME Typed, Hand, NEW p \in Ends
    PROVE  /\ Len(yp) \in Nat
           /\ in[p] \in Nat /\ 0 < in[p] /\ in[p] <= Len(yp)
           /\ out[p] \in Nat /\ out[p] <= Len(yp)
           /\ \A h \in Pipes(cmds[p]) : h \in Nat /\ 0 < h /\ h <= Len(yp)
<1>1. Len(yp) \in Nat BY Zenon, LenProperties DEF Typed
<1>2. in[p] \in 1..Len(yp) /\ out[p] \in 0..Len(yp) BY Zenon DEF Typed
<1>3. \A h \in Pipes(cmds[p]) : h \in 1..Len(yp) BY Zenon DEF Hand, Held
<1> QED BY <1>1, <1>2, <1>3

\* NULL is the index of no ypipe.
LEMMA NoNull ==
    ASSUME Typed, Hand, NEW p \in Ends
    PROVE  NULL \notin freed /\ in[p] # NULL /\ \A h \in Pipes(cmds[p]) : h # NULL
<1>1. NULL \notin freed BY DEF Typed, NULL
<1> QED BY <1>1, Indices DEF NULL

\* What is seen of the queues does not change, nor does what the ends hold.
LEMMA Same ==
    ASSUME Typed, Hand, UNCHANGED <<in, out, freed>>, Len(yp') = Len(yp),
           \A x \in Ends : st'[x] = st[x] \/ (st[x] = "active" /\ st'[x] = "delimiter_received"),
           \A x \in Ends : /\ Has(cmds'[x], "pipe_term") <=> Has(cmds[x], "pipe_term")
                           /\ Has(cmds'[x], "pipe_term_ack") <=> Has(cmds[x], "pipe_term_ack")
                           /\ Pipes(cmds'[x]) = Pipes(cmds[x])
                           /\ Ordered(cmds'[x]) /\ Rising(cmds'[x])
                           /\ Gone(x) => cmds'[x] = <<>>
    PROVE  Hand'
<1>1. ASSUME NEW p \in Ends PROVE Joint(p)'
  BY <1>1, Two DEF Hand, Joint, Acked, Unasked, Gone
<1>2. ASSUME NEW p \in Ends PROVE Chain(p)'
  BY Zenon, <1>2, Two DEF Hand, Chain, Acked
<1>3. ASSUME NEW p \in Ends PROVE Apart(p)'
  BY Zenon, <1>3, Two DEF Hand, Apart
<1>4. ASSUME NEW p \in Ends PROVE Held(p)'
  BY Zenon, <1>4, Two DEF Hand, Held, Gone
<1>5. Kept'
  BY Zenon DEF Hand, Kept, HeldBy, Gone
<1>6. Quiet'
  BY Zenon DEF Hand, Quiet
<1> QED BY Zenon, <1>1, <1>2, <1>3, <1>4, <1>5, <1>6 DEF Hand

\* An end that may still send something sends plain commands.
LEMMA PlainSent ==
    ASSUME Typed, Hand, UNCHANGED <<in, out, freed>>, Len(yp') = Len(yp),
           \A x \in Ends : st'[x] = st[x] \/ (st[x] = "active" /\ st'[x] = "delimiter_received"),
           NEW p \in Ends, ~Acked(p),
           NEW s \in Seq(Command), Plain(s), SendTo(Peer(p), s)
    PROVE  Hand'
<1> DEFINE q == Peer(p)
<1>1. q \in Ends /\ Peer(q) = p /\ \A x \in Ends : x = p \/ x = q BY Zenon, Two
<1>2. cmds'[p] = cmds[p] /\ cmds'[q] = cmds[q] \o s BY Zenon, Sent
<1>3. cmds[q] \in Seq(Command) BY Zenon, <1>1 DEF Typed
<1>4. Joint(p) /\ Joint(q) BY Zenon, <1>1 DEF Hand
<1>5. ~Gone(q) /\ ~Has(cmds[q], "pipe_term_ack") BY Zenon, <1>1, <1>4 DEF Joint
<1>6. Ordered(cmds[q]) /\ Rising(cmds[q]) BY Zenon, <1>4 DEF Joint
<1>7. Ordered(cmds'[q]) BY Zenon, <1>2, <1>3, <1>5, <1>6, LongerOrder DEF Plain
<1>8. Rising(cmds'[q]) BY Zenon, <1>2, <1>3, <1>6, LongerRising DEF Plain
<1>9. /\ Has(cmds'[q], "pipe_term") <=> Has(cmds[q], "pipe_term")
      /\ Has(cmds'[q], "pipe_term_ack") <=> Has(cmds[q], "pipe_term_ack")
      /\ Pipes(cmds'[q]) = Pipes(cmds[q])
  <2>1. /\ \A c : Has(cmds[q] \o s, c) <=> Has(cmds[q], c) \/ Has(s, c)
        /\ Pipes(cmds[q] \o s) = Pipes(cmds[q]) \union Pipes(s)
    BY Zenon, <1>3, Longer
  <2> QED BY Zenon, <1>2, <2>1 DEF Plain
<1>10. Ordered(cmds[p]) /\ Rising(cmds[p]) /\ (Gone(p) => cmds[p] = <<>>)
  BY Zenon, <1>1, <1>4 DEF Joint
<1> HIDE DEF q
<1> QED BY Zenon, <1>1, <1>2, <1>5, <1>7, <1>8, <1>9, <1>10, Same

\* Nothing is sent.
LEMMA NothingSent ==
    ASSUME Typed, Hand, UNCHANGED <<in, out, freed, cmds>>, Len(yp') = Len(yp),
           \A x \in Ends : st'[x] = st[x] \/ (st[x] = "active" /\ st'[x] = "delimiter_received")
    PROVE  Hand'
<1>1. \A x \in Ends : Ordered(cmds[x]) /\ Rising(cmds[x]) /\ (Gone(x) => cmds[x] = <<>>)
  BY Zenon, Two DEF Hand, Joint
<1> QED BY Zenon, <1>1, Same

\* A plain command is taken.
LEMMA PlainTaken ==
    ASSUME Typed, Hand, UNCHANGED <<st, in, out, freed, yp>>,
           NEW p \in Ends, NEW c, c \notin {"pipe_term", "pipe_term_ack", "hiccup"},
           Receive(p, c), Reply(p, <<>>)
    PROVE  Hand'
<1> DEFINE q == Peer(p)
<1>1. q \in Ends /\ Peer(q) = p /\ \A x \in Ends : x = p \/ x = q BY Zenon, Two
<1>2. cmds[p] \in Seq(Command) /\ cmds[q] \in Seq(Command) /\ cmds[p] # <<>> /\ <<>> \in Seq(Command)
  BY Zenon, <1>1, EmptySeq DEF Typed, Receive
<1>3. cmds'[p] = Tail(cmds[p]) /\ cmds'[q] = cmds[q] BY Zenon, <1>2, Replied, ConcatEmptySeq
<1>4. Joint(p) /\ Joint(q) BY Zenon, <1>1 DEF Hand
<1>5. /\ Ordered(cmds[p]) /\ Rising(cmds[p]) /\ Ordered(cmds[q]) /\ Rising(cmds[q])
      /\ Gone(q) => cmds[q] = <<>>
  BY Zenon, <1>1, <1>4 DEF Joint
<1>6. ~Gone(p) BY Zenon DEF Receive, Gone
<1>7. Ordered(cmds'[p]) /\ Rising(cmds'[p]) BY Zenon, <1>2, <1>3, <1>5, ShorterOrder
<1>8. /\ Has(cmds'[p], "pipe_term") <=> Has(cmds[p], "pipe_term")
      /\ Has(cmds'[p], "pipe_term_ack") <=> Has(cmds[p], "pipe_term_ack")
      /\ Pipes(cmds'[p]) = Pipes(cmds[p])
  <2>1. /\ \A d : Has(cmds[p], d) <=> Head(cmds[p]).c = d \/ Has(Tail(cmds[p]), d)
        /\ Pipes(cmds[p]) = Pipes(Tail(cmds[p])) \union
                              (IF Head(cmds[p]).c = "hiccup" THEN {Head(cmds[p]).pipe} ELSE {})
    BY Zenon, <1>2, Shorter
  <2>2. Head(cmds[p]).c = c BY Zenon DEF Receive
  <2> QED BY Zenon, <1>3, <2>1, <2>2
<1> HIDE DEF q
<1> QED BY Zenon, <1>1, <1>3, <1>5, <1>6, <1>7, <1>8, Same

\* The last acknowledgement of an end that has waited for the delimiter.
LEMMA AckAfterDelimiter ==
    ASSUME Typed, Hand, NEW p \in Ends, st[p] = "waiting_for_delimiter",
           st' = [st EXCEPT ![p] = "term_ack_sent"], DropOut(p),
           SendTo(Peer(p), <<Cmd("pipe_term_ack")>>),
           UNCHANGED <<in, freed>>, Len(yp') = Len(yp)
    PROVE  Hand'
<1> DEFINE q == Peer(p)
           a == <<Cmd("pipe_term_ack")>>
<1> p \in Ends /\ q \in Ends /\ p # q /\ Peer(p) = q /\ Peer(q) = p /\ \A x \in Ends : x = p \/ x = q BY Zenon, Two
<1>2. a \in Seq(Command) /\ cmds[q] \in Seq(Command) BY Commands DEF Typed
<1> HIDE DEF q, a
<1>L. /\ \A c : Has(cmds[q] \o a, c) <=> Has(cmds[q], c) \/ Has(a, c)
      /\ Pipes(cmds[q] \o a) = Pipes(cmds[q]) \union Pipes(a)
  BY Zenon, <1>2, Longer
<1> USE DEF q, a
<1> cmds'[p] = cmds[p] /\ cmds'[q] = cmds[q] \o a BY Zenon, <1>2, Sent
<1> /\ st'[p] = "term_ack_sent" /\ st'[q] = st[q]
      /\ out'[p] = NULL /\ out'[q] = out[q] /\ in' = in /\ freed' = freed
  BY Zenon DEF Typed, DropOut
<1>J. Joint(p) /\ Joint(q) BY Zenon DEF Hand
<1>C. Chain(p) /\ Chain(q) BY Zenon DEF Hand
<1>A. Apart(p) /\ Apart(q) BY Zenon DEF Hand
<1>H. Held(p) /\ Held(q) BY Zenon DEF Hand
<1>6. /\ ~Acked(p) /\ st[q] = "term_req_sent1"
      /\ ~Has(cmds[q], "pipe_term_ack") /\ Ordered(cmds[q]) /\ Rising(cmds[q])
  BY Zenon, <1>J DEF Joint, Acked
<1>7. \A c : Has(a, c) <=> c = "pipe_term_ack" BY Zenon, Short, Commands
<1>8. Pipes(a) = {} /\ Ordered(a) /\ Rising(a) BY Zenon, Short, Commands
<1> HIDE DEF q, a
<1>9. /\ Has(cmds'[q], "pipe_term") <=> Has(cmds[q], "pipe_term")
      /\ Has(cmds'[q], "pipe_term_ack") /\ Pipes(cmds'[q]) = Pipes(cmds[q])
  BY Zenon, <1>7, <1>8, <1>L
<1>10. Ordered(cmds'[q]) BY <1>2, <1>6, <1>7, <1>8, LongerOrder
<1>11. Rising(cmds'[q]) BY <1>2, <1>6, <1>8, LongerRising
<1>12. Pipes(cmds[p]) = {} BY Zenon, <1>J DEF Joint, Unasked
<1>a. in[p] # NULL /\ in[q] # NULL /\ \A h \in Pipes(cmds[q]) : h # NULL
  BY Zenon, NoNull
<1>13. Joint(p)' BY Zenon, <1>J, <1>6, <1>9, <1>10, <1>11, <1>12 DEF Joint, Acked, Unasked, Gone
<1>b. Joint(q)' BY Zenon, <1>J, <1>6 DEF Joint, Acked, Unasked, Gone
<1>14. Chain(p)' /\ Chain(q)'
  BY Zenon, <1>C, <1>6, <1>9, <1>12 DEF Chain, Acked
<1>15. Apart(p)' /\ Apart(q)'
  BY <1>A, <1>9, <1>12, <1>a DEF Apart
<1>d. NULL \notin freed BY Zenon, NoNull
<1>16. Held(p)' /\ Held(q)'
  BY Zenon, <1>H, <1>6, <1>9, <1>12, <1>d DEF Held, Gone
<1>17. Kept'
  <2>1. out[p] = in[q] BY Zenon, <1>C, <1>6, <1>12 DEF Chain
  <2>2. Kept BY Zenon DEF Hand
  <2>3. \A y : HeldBy(p, y) => HeldBy(p, y)' \/ HeldBy(q, y)'
    BY Zenon, <1>6, <2>1 DEF HeldBy, Gone
  <2>4. \A y : HeldBy(q, y) => HeldBy(q, y)'
    BY Zenon, <1>9 DEF HeldBy, Gone
  <2> QED BY Zenon, <2>2, <2>3, <2>4 DEF Kept
<1>18. Quiet' BY Zenon DEF Hand, Quiet
<1> QED BY Zenon, <1>13, <1>b, <1>14, <1>15, <1>16, <1>17, <1>18 DEF Hand

\* As long as an end may ask, its peer has not been asked and has not acknowledged.
LEMMA Asking ==
    ASSUME Hand, NEW p \in Ends, st[p] \in {"active", "delimiter_received"}, Typed
    PROVE  LET q == Peer(p) IN
           /\ st[q] \in {"active", "delimiter_received", "term_req_sent1"}
           /\ ~Has(cmds[q], "pipe_term") /\ ~Has(cmds[q], "pipe_term_ack")
<1> DEFINE q == Peer(p)
<1>1. q \in Ends /\ Peer(q) = p BY Zenon, Two
<1>2. Joint(p) /\ Joint(q) BY Zenon, <1>1 DEF Hand
<1>3. st[q] \in States \union {"gone"} BY Zenon, <1>1 DEF Typed
<1> HIDE DEF q
<1> QED BY Zenon, <1>1, <1>2, <1>3 DEF Joint, Acked, States, q, Gone

\* pipe_term is sent, and perhaps a wake-up for the delimiter.
LEMMA AskSent ==
    ASSUME Typed, Hand, NEW p \in Ends, st[p] \in {"active", "delimiter_received"},
           st' = [st EXCEPT ![p] = "term_req_sent1"], ~\A x \in Ends : MaxTerms[x] = 0,
           NEW w \in Seq(Command), Plain(w), SendTo(Peer(p), <<Cmd("pipe_term")>> \o w),
           UNCHANGED <<in, out, freed>>, Len(yp') = Len(yp)
    PROVE  Hand'
<1> DEFINE q == Peer(p)
           t == <<Cmd("pipe_term")>>
           a == t \o w
<1> p \in Ends /\ q \in Ends /\ p # q /\ Peer(p) = q /\ Peer(q) = p /\ \A x \in Ends : x = p \/ x = q BY Zenon, Two
<1>2. t \in Seq(Command) /\ cmds[q] \in Seq(Command) BY Commands DEF Typed
<1>3. (\A c : Has(t, c) <=> c = "pipe_term") /\ Pipes(t) = {} /\ Ordered(t) /\ Rising(t)
  BY Zenon, Short, Commands
<1> HIDE DEF t
<1>4. /\ a \in Seq(Command) /\ \A c : Has(a, c) <=> Has(t, c) \/ Has(w, c)
      /\ Pipes(a) = Pipes(t) \union Pipes(w)
  BY Zenon, <1>2, Longer
<1>5. Ordered(a) /\ Rising(a)
  BY Zenon, <1>2, <1>3, LongerOrder, LongerRising DEF Plain
<1> HIDE DEF q, a
<1>L. /\ \A c : Has(cmds[q] \o a, c) <=> Has(cmds[q], c) \/ Has(a, c)
      /\ Pipes(cmds[q] \o a) = Pipes(cmds[q]) \union Pipes(a)
  <2>1. a \in Seq(Command) /\ cmds[q] \in Seq(Command) BY Zenon, <1>2, <1>4
  <2> QED BY Zenon, <2>1, Longer
<1> USE DEF q, a
<1> cmds'[p] = cmds[p] /\ cmds'[q] = cmds[q] \o a BY Zenon, <1>4, Sent DEF t
<1>7. Has(a, "pipe_term") /\ ~Has(a, "pipe_term_ack") /\ Pipes(a) = {}
  BY Zenon, <1>3, <1>4 DEF Plain
<1> HIDE DEF q, a
<1> st'[p] = "term_req_sent1" /\ st'[q] = st[q] BY Zenon DEF Typed
<1>J. Joint(p) /\ Joint(q) BY Zenon DEF Hand
<1>C. Chain(p) /\ Chain(q) BY Zenon DEF Hand
<1>A. Apart(p) /\ Apart(q) BY Zenon DEF Hand
<1>H. Held(p) /\ Held(q) BY Zenon DEF Hand
<1>10. /\ st[q] \in {"active", "delimiter_received", "term_req_sent1"}
       /\ ~Has(cmds[q], "pipe_term") /\ ~Has(cmds[q], "pipe_term_ack")
  BY Zenon, Asking DEF q
<1>11. /\ Has(cmds'[q], "pipe_term") /\ ~Has(cmds'[q], "pipe_term_ack")
       /\ Pipes(cmds'[q]) = Pipes(cmds[q])
  BY Zenon, <1>7, <1>10, <1>L
<1>12. Ordered(cmds[q]) /\ Rising(cmds[q]) BY Zenon, <1>J DEF Joint
<1>13. Ordered(cmds'[q]) /\ Rising(cmds'[q])
  <2>1. Ordered(cmds'[q]) BY <1>2, <1>4, <1>5, <1>10, <1>12, LongerOrder
  <2>2. Rising(cmds'[q]) BY <1>2, <1>4, <1>5, <1>7, <1>12, LongerRising
  <2> QED BY Zenon, <2>1, <2>2
<1>14. Joint(p)' BY Zenon, <1>J, <1>10, <1>11, <1>13 DEF Joint, Acked, Unasked, Gone
<1>b. Joint(q)' BY Zenon, <1>J, <1>10 DEF Joint, Acked, Unasked, Gone
<1>15. Chain(p)' /\ Chain(q)'
  BY Zenon, <1>C, <1>11 DEF Chain, Acked
<1>16. Apart(p)' /\ Apart(q)'
  BY Zenon, <1>A, <1>11 DEF Apart
<1>17. Held(p)' /\ Held(q)'
  BY Zenon, <1>H, <1>11 DEF Held, Gone
<1>18. Kept'
  <2>1. Kept BY Zenon DEF Hand
  <2>2. \A y : (HeldBy(p, y) => HeldBy(p, y)') /\ (HeldBy(q, y) => HeldBy(q, y)')
    BY Zenon, <1>11 DEF HeldBy, Gone
  <2> QED BY <2>1, <2>2 DEF Kept
<1>19. Quiet' BY Zenon DEF Quiet
<1> QED BY Zenon, <1>14, <1>b, <1>15, <1>16, <1>17, <1>18, <1>19 DEF Hand

\* A new ypipe is created, and the peer told of it.
LEMMA HiccupSent ==
    ASSUME Typed, Hand, NEW p \in Ends, st[p] = "active",
           in' = [in EXCEPT ![p] = Len(yp) + 1], Len(yp') = Len(yp) + 1,
           SendTo(Peer(p), <<[c |-> "hiccup", pipe |-> Len(yp) + 1]>>),
           UNCHANGED <<st, out, freed>>
    PROVE  Hand'
<1> PICK n : n = Len(yp) + 1 BY Zenon
<1> DEFINE q == Peer(p)
           x == [c |-> "hiccup", pipe |-> n]
           a == <<x>>
<1> p \in Ends /\ q \in Ends /\ p # q /\ Peer(p) = q /\ Peer(q) = p /\ \A e \in Ends : e = p \/ e = q BY Zenon, Two
<1>n. n \in Nat \ {NULL} /\ n = Len(yp) + 1 /\ Len(yp) \in Nat /\ Len(yp') = n BY Indices DEF NULL
<1>x. x \in Command /\ x.c = "hiccup" /\ x.pipe = n BY Zenon, <1>n, Commands
<1>2. a \in Seq(Command) /\ cmds[q] \in Seq(Command) BY <1>x DEF Typed
<1> HIDE DEF x
<1>3. (\A c : Has(a, c) <=> c = "hiccup") /\ Pipes(a) = {n} /\ Ordered(a) /\ Rising(a)
  BY Zenon, Short, <1>x
<1> HIDE DEF q, a
<1>L. /\ \A c : Has(cmds[q] \o a, c) <=> Has(cmds[q], c) \/ Has(a, c)
      /\ Pipes(cmds[q] \o a) = Pipes(cmds[q]) \union Pipes(a)
  BY Zenon, <1>2, Longer
<1> USE DEF q, a
<1> cmds'[p] = cmds[p] /\ cmds'[q] = cmds[q] \o a BY Zenon, <1>2, Sent DEF x
<1> HIDE DEF q, a
<1> in'[p] = n /\ in'[q] = in[q] BY Zenon DEF Typed
<1>J. Joint(p) /\ Joint(q) BY Zenon DEF Hand
<1>C. Chain(p) /\ Chain(q) BY Zenon DEF Hand
<1>A. Apart(p) /\ Apart(q) BY Zenon DEF Hand
<1>H. Held(p) /\ Held(q) BY Zenon DEF Hand
<1>10. /\ st[q] \in {"active", "delimiter_received", "term_req_sent1"}
       /\ ~Has(cmds[q], "pipe_term") /\ ~Has(cmds[q], "pipe_term_ack")
  BY Zenon, Asking DEF q
<1>11. /\ ~Has(cmds'[q], "pipe_term") /\ ~Has(cmds'[q], "pipe_term_ack")
       /\ Pipes(cmds'[q]) = Pipes(cmds[q]) \union {n}
  BY Zenon, <1>3, <1>10, <1>L
<1>12. Ordered(cmds[q]) /\ Rising(cmds[q]) BY Zenon, <1>J DEF Joint
<1>i. /\ in[p] \in Nat /\ in[q] \in Nat /\ out[p] \in Nat /\ out[q] \in Nat
      /\ in[p] < n /\ in[q] < n /\ out[p] < n /\ out[q] < n
  BY <1>n, Indices
<1>h. \A h \in Pipes(cmds[p]) \union Pipes(cmds[q]) : h \in Nat /\ h < n /\ h # n
  <2>1. /\ \A h \in Pipes(cmds[p]) : h \in Nat /\ h <= Len(yp)
        /\ \A h \in Pipes(cmds[q]) : h \in Nat /\ h <= Len(yp)
    BY Zenon, Indices
  <2> QED BY <1>n, <2>1
<1>13. Ordered(cmds'[q]) /\ Rising(cmds'[q])
  <2>1. Ordered(cmds'[q]) BY <1>2, <1>3, <1>10, <1>12, LongerOrder
  <2>2. Rising(cmds'[q]) BY <1>2, <1>3, <1>12, <1>h, LongerRising
  <2> QED BY Zenon, <2>1, <2>2
<1>14. Joint(p)' BY Zenon, <1>J, <1>10, <1>11, <1>13 DEF Joint, Acked, Unasked, Gone
<1>b. Joint(q)' BY Zenon, <1>J, <1>10 DEF Joint, Acked, Unasked, Gone
<1>15. Chain(p)'
  BY <1>C, <1>10, <1>11, <1>i, <1>h, <1>n DEF Chain, Acked
<1>c. Chain(q)'
  BY Zenon, <1>C DEF Chain, Acked
<1>16. Apart(p)' /\ Apart(q)'
  BY <1>A, <1>11, <1>i, <1>h DEF Apart
<1>f. freed \subseteq 1..Len(yp) BY Zenon DEF Typed
<1>g. n \notin freed /\ 1..Len(yp') = 1..Len(yp) \union {n} BY <1>f, <1>n
<1>17. Held(p)' /\ Held(q)'
  BY <1>H, <1>11, <1>g DEF Held, Gone
<1>18. Kept'
  <2>1. Kept BY Zenon DEF Hand
  <2>2. in[p] = out[q] \/ in[p] \in Pipes(cmds[q])
    BY Zenon, <1>C, <1>10 DEF Chain, Acked
  <2>3. \A y : HeldBy(p, y) => HeldBy(p, y)' \/ HeldBy(q, y)'
    BY Zenon, <1>11, <2>2 DEF HeldBy, Gone
  <2>4. \A y : HeldBy(q, y) => HeldBy(q, y)'
    BY Zenon, <1>11 DEF HeldBy, Gone
  <2>5. HeldBy(p, n)' BY Zenon DEF HeldBy, Gone
  <2> QED BY Zenon, <1>g, <2>1, <2>3, <2>4, <2>5 DEF Kept
<1>19. Quiet' BY Zenon DEF Hand, Quiet
<1> QED BY Zenon, <1>14, <1>b, <1>15, <1>c, <1>16, <1>17, <1>18, <1>19 DEF Hand

\* What taking a command from the queue leaves of it.
LEMMA Taken ==
    ASSUME Typed, Hand, NEW p \in Ends, NEW c, Receive(p, c)
    PROVE  LET q == Peer(p)
               r == Tail(cmds[p])
               h == Head(cmds[p]) IN
           /\ p \in Ends /\ q \in Ends /\ p # q /\ Peer(p) = q /\ Peer(q) = p /\ \A x \in Ends : x = p \/ x = q
           /\ cmds[p] \in Seq(Command) /\ cmds[q] \in Seq(Command) /\ cmds[p] # <<>>
           /\ h \in Command /\ h.c = c /\ ~Gone(p)
           /\ \A d : Has(cmds[p], d) <=> d = c \/ Has(r, d)
           /\ Pipes(cmds[p]) = Pipes(r) \union (IF c = "hiccup" THEN {h.pipe} ELSE {})
           /\ Ordered(r) /\ Rising(r)
           /\ c = "pipe_term_ack" => r = <<>>
           /\ c = "pipe_term" => ~Has(r, "pipe_term") /\ Pipes(r) = {}
           /\ c = "hiccup" => \A k \in Pipes(r) : h.pipe < k
           /\ Joint(p) /\ Joint(q) /\ Chain(p) /\ Chain(q) /\ Apart(p) /\ Apart(q) /\ Held(p) /\ Held(q)
<1> DEFINE q == Peer(p)
           r == Tail(cmds[p])
           h == Head(cmds[p])
<1>1. p \in Ends /\ q \in Ends /\ p # q /\ Peer(p) = q /\ Peer(q) = p /\ \A x \in Ends : x = p \/ x = q BY Zenon, Two
<1>2. cmds[p] \in Seq(Command) /\ cmds[q] \in Seq(Command) /\ cmds[p] # <<>> /\ h.c = c /\ ~Gone(p)
  BY Zenon, <1>1 DEF Typed, Receive, Gone
<1>3. Joint(p) /\ Joint(q) /\ Chain(p) /\ Chain(q) /\ Apart(p) /\ Apart(q) /\ Held(p) /\ Held(q)
  BY Zenon, <1>1 DEF Hand
<1>4. Ordered(cmds[p]) /\ Rising(cmds[p]) BY Zenon, <1>1, <1>3 DEF Joint
<1>5. /\ h \in Command
      /\ \A d : Has(cmds[p], d) <=> h.c = d \/ Has(r, d)
      /\ Pipes(cmds[p]) = Pipes(r) \union (IF h.c = "hiccup" THEN {h.pipe} ELSE {})
  BY Zenon, <1>2, Shorter
<1>6. /\ Ordered(r) /\ Rising(r)
      /\ h.c = "pipe_term_ack" => r = <<>>
      /\ h.c = "pipe_term" => ~Has(r, "pipe_term") /\ Pipes(r) = {}
      /\ h.c = "hiccup" => \A k \in Pipes(r) : h.pipe < k
  BY Zenon, <1>2, <1>4, ShorterOrder
<1> HIDE DEF q, r, h
<1>7. \A d : Has(cmds[p], d) <=> d = c \/ Has(r, d) BY Zenon, <1>2, <1>5
<1> QED BY Zenon, <1>1, <1>2, <1>3, <1>5, <1>6, <1>7 DEF q, r, h

\* The old ypipe is deleted and the new one plugged in.
LEMMA HiccupDone ==
    ASSUME Typed, Hand, NEW p \in Ends, Receive(p, "hiccup"), Reply(p, <<>>),
           freed' = freed \union {out[p]},
           out' = [out EXCEPT ![p] = Head(cmds[p]).pipe],
           UNCHANGED <<st, in>>, Len(yp') = Len(yp)
    PROVE  Hand' /\ out[p] # NULL
<1> DEFINE q == Peer(p)
           r == Tail(cmds[p])
<1> PICK g : g = Head(cmds[p]).pipe BY Zenon
<1> p \in Ends /\ q \in Ends /\ p # q /\ Peer(p) = q /\ Peer(q) = p /\ \A x \in Ends : x = p \/ x = q BY Zenon, Two
<1>1. cmds[p] \in Seq(Command) /\ cmds[q] \in Seq(Command) /\ cmds[p] # <<>> BY Zenon, Taken
<1>r. /\ ~Gone(p) /\ \A d : Has(cmds[p], d) <=> d = "hiccup" \/ Has(r, d)
      /\ Pipes(cmds[p]) = Pipes(r) \union {g} /\ Ordered(r) /\ Rising(r)
      /\ \A k \in Pipes(r) : g < k
  BY Zenon, Taken
<1>J. Joint(p) /\ Joint(q) BY Zenon DEF Hand
<1>C. Chain(p) /\ Chain(q) BY Zenon DEF Hand
<1>A. Apart(p) /\ Apart(q) BY Zenon DEF Hand
<1>H. Held(p) /\ Held(q) BY Zenon DEF Hand
<1> cmds'[p] = r /\ cmds'[q] = cmds[q] BY Zenon, <1>1, Replied, ConcatEmptySeq, EmptySeq
<1> HIDE DEF q, r
<1> out'[p] = g /\ out'[q] = out[q] BY Zenon DEF Typed
<1>4. Unasked(p) /\ out[p] # NULL
  BY Zenon, <1>J, <1>r DEF Joint, Unasked, Acked
<1>5. g \in Pipes(cmds[p]) /\ Pipes(r) \subseteq Pipes(cmds[p]) BY Zenon, <1>r
<1>i. /\ in[p] \in Nat /\ in[q] \in Nat /\ out[p] \in Nat /\ out[q] \in Nat /\ g \in Nat /\ g # NULL
      /\ \A h \in Pipes(cmds[p]) : h \in Nat
      /\ \A h \in Pipes(cmds[q]) : h \in Nat
  <2>1. \A h \in Pipes(cmds[p]) : h \in Nat /\ h # NULL BY Zenon, Indices, NoNull
  <2> QED BY Zenon, <1>5, <2>1, Indices
<1>6. out[p] < g /\ g <= in[q] /\ \A h \in Pipes(r) : out[p] < h /\ g < h /\ h <= in[q]
  BY Zenon, <1>C, <1>5, <1>r DEF Chain
<1>7. Joint(p)' BY Zenon, <1>J, <1>4, <1>i DEF Joint, Acked, Unasked, Gone
<1>b. Joint(q)'
  <2>1. Has(r, "pipe_term") <=> Has(cmds[p], "pipe_term") BY Zenon, <1>r
  <2>2. Has(r, "pipe_term_ack") <=> Has(cmds[p], "pipe_term_ack") BY Zenon, <1>r
  <2> QED BY Zenon, <1>J, <1>r, <1>4, <1>i, <2>1, <2>2 DEF Joint, Acked, Unasked, Gone
<1>8. Chain(p)'
  BY Zenon, <1>C, <1>4, <1>6 DEF Chain, Acked
<1>9. Chain(q)'
  <2>1. in[q] \in Pipes(cmds[p]) BY Zenon, <1>C, <1>5 DEF Chain
  <2>2. Pipes(r) = {} => in[q] = g BY Zenon, <1>r, <2>1
  <2>3. Pipes(r) # {} => in[q] \in Pipes(r)
    <3> HAVE Pipes(r) # {}
    <3> PICK k \in Pipes(r) : TRUE BY Zenon
    <3>1. g < k /\ k <= in[q] BY Zenon, <1>6
    <3>2. k \in Nat BY Zenon, <1>5, <1>i
    <3> in[q] # g BY <1>i, <3>1, <3>2
    <3> QED BY Zenon, <1>r, <2>1
  <2> QED BY Zenon, <1>C, <1>6, <2>2, <2>3 DEF Chain, Acked
<1>10. Apart(p)' /\ Apart(q)'
  <2>1. \A h \in Pipes(r) : h # g BY <1>r, <1>5, <1>i
  <2> QED BY ZenonT(40), <1>A, <1>5, <1>i, <2>1 DEF Apart
<1>11. /\ out[p] # in[p] /\ out[p] # in[q] /\ out[p] # out[q] /\ out[p] # g
       /\ \A h \in Pipes(r) : out[p] # h
       /\ \A h \in Pipes(cmds[q]) : out[p] # h
  <2>1. out[p] # in[p] /\ out[p] # out[q] /\ \A h \in Pipes(cmds[q]) : out[p] # h
    BY Zenon, <1>A, <1>4 DEF Apart
  <2>2. out[p] # in[q] /\ out[p] # g /\ \A h \in Pipes(r) : out[p] # h
    BY <1>6, <1>i, <1>5
  <2> QED BY Zenon, <2>1, <2>2
<1>12. Held(p)' /\ Held(q)'
  <2>1. Held(p)' BY <1>H, <1>r, <1>5, <1>11 DEF Held, Gone
  <2>2. Held(q)' BY <1>H, <1>r, <1>5, <1>11 DEF Held, Gone
  <2> QED BY Zenon, <2>1, <2>2
<1>13. Kept'
  <2>1. Kept BY Zenon DEF Hand
  <2>2. \A y : HeldBy(p, y) => HeldBy(p, y)' \/ y = out[p]
    BY Zenon, <1>r DEF HeldBy, Gone
  <2>3. \A y : HeldBy(q, y) => HeldBy(q, y)'
    BY Zenon DEF HeldBy, Gone
  <2> QED BY Zenon, <2>1, <2>2, <2>3 DEF Kept
<1>14. Quiet' BY Zenon DEF Hand, Quiet
<1> QED BY Zenon, <1>4, <1>7, <1>b, <1>8, <1>9, <1>10, <1>12, <1>13, <1>14 DEF Hand

\* pipe_term is answered at once, or once the delimiter has been read.
LEMMA TermTaken ==
    ASSUME Typed, Hand, NEW p \in Ends, process_pipe_term(p)
    PROVE  Hand' /\ st[p] \in {"active", "delimiter_received", "term_req_sent1"}
<1> DEFINE q == Peer(p)
           r == Tail(cmds[p])
           a == <<Cmd("pipe_term_ack")>>
           n == st'[p]
<1> p \in Ends /\ q \in Ends /\ p # q /\ Peer(p) = q /\ Peer(q) = p /\ \A x \in Ends : x = p \/ x = q BY Zenon, Two
<1>1. cmds[p] \in Seq(Command) /\ cmds[q] \in Seq(Command) /\ cmds[p] # <<>> BY Zenon, Taken DEF process_pipe_term
<1>r. /\ ~Gone(p) /\ \A d : Has(cmds[p], d) <=> d = "pipe_term" \/ Has(r, d)
      /\ Ordered(r) /\ Rising(r) /\ ~Has(r, "pipe_term") /\ Pipes(r) = {}
  BY Zenon, Taken DEF process_pipe_term
<1>J. Joint(p) /\ Joint(q) BY Zenon DEF Hand
<1>C. Chain(p) /\ Chain(q) BY Zenon DEF Hand
<1>A. Apart(p) /\ Apart(q) BY Zenon DEF Hand
<1>H. Held(p) /\ Held(q) BY Zenon DEF Hand
<1>p. Pipes(cmds[p]) = {}
  <2>1. Pipes(cmds[p]) = Pipes(r) \union (IF "pipe_term" = "hiccup" THEN {Head(cmds[p]).pipe} ELSE {})
    BY Zenon, Taken DEF process_pipe_term
  <2> QED BY Zenon, <1>r, <2>1
<1>2. a \in Seq(Command) /\ <<>> \in Seq(Command) BY Commands, EmptySeq
<1>3. (\A c : Has(a, c) <=> c = "pipe_term_ack") /\ Pipes(a) = {} /\ Ordered(a) /\ Rising(a)
  BY Zenon, Short, Commands
<1> in' = in /\ freed' = freed /\ yp' = yp BY Zenon DEF process_pipe_term
<1>5. /\ st[p] \in {"active", "delimiter_received", "term_req_sent1"} /\ ~Acked(p)
      /\ st[q] \in {"term_req_sent1", "term_req_sent2"} /\ ~Gone(q)
      /\ ~Has(cmds[q], "pipe_term_ack") /\ Ordered(cmds[q]) /\ Rising(cmds[q])
      /\ out[p] # NULL
  BY Zenon, <1>J, <1>r DEF Joint, Unasked, Acked, Gone
<1>6. \/ /\ st[p] = "active" /\ n = "waiting_for_delimiter" /\ Reply(p, <<>>) /\ out' = out
      \/ /\ st[p] \in {"active", "delimiter_received"} /\ n = "term_ack_sent" /\ Reply(p, a) /\ DropOut(p)
      \/ /\ st[p] = "term_req_sent1" /\ n = "term_req_sent2" /\ Reply(p, a) /\ DropOut(p)
  BY Zenon DEF process_pipe_term, Typed
<1>7. st'[q] = st[q] BY Zenon DEF process_pipe_term, Typed
<1>8. out[p] = in[q] BY Zenon, <1>C, <1>5, <1>p DEF Chain
<1>i. in[p] # NULL /\ in[q] # NULL /\ \A h \in Pipes(cmds[q]) : h # NULL
  BY Zenon, NoNull
<1>q. Quiet'
  <2>1. Quiet BY Zenon DEF Hand
  <2>2. ~\A x \in Ends : MaxTerms[x] = 0 BY Zenon, <1>r, <1>5, <2>1 DEF Quiet
  <2> QED BY Zenon, <2>2 DEF Quiet
<1>9. CASE st[p] = "active" /\ n = "waiting_for_delimiter" /\ Reply(p, <<>>) /\ out' = out
  <2>1. cmds'[p] = r /\ cmds'[q] = cmds[q] BY ZenonT(30), <1>1, <1>2, <1>9, Replied, ConcatEmptySeq
  <2>2. st[q] = "term_req_sent1" BY Zenon, <1>J, <1>r, <1>5, <1>9 DEF Joint
  <2> HIDE DEF q, r, a, n
  <2>3. st'[p] = "waiting_for_delimiter" /\ st[p] = "active" /\ out' = out BY Zenon, <1>9 DEF n
  <2>a. Joint(p)' BY Zenon, <1>J, <1>5, <1>7, <2>1, <2>2, <2>3 DEF Joint, Acked, Unasked, Gone
  <2>4. Joint(q)'
    <3>1. ~Has(r, "pipe_term_ack") BY Zenon, <1>J, <1>r, <2>2 DEF Joint, Acked
    <3> QED BY Zenon, <1>J, <1>r, <1>7, <2>1, <2>2, <2>3, <3>1 DEF Joint, Acked, Unasked, Gone
  <2>b. Chain(p)' BY Zenon, <1>C, <1>7, <2>1, <2>3 DEF Chain, Acked
  <2>5. Chain(q)' BY Zenon, <1>r, <1>8, <2>1, <2>3 DEF Chain
  <2>6. Apart(p)' /\ Apart(q)' BY Zenon, <1>A, <1>r, <2>1, <2>3 DEF Apart
  <2>7. Held(p)' /\ Held(q)' BY Zenon, <1>H, <1>r, <1>7, <2>1, <2>3 DEF Held, Gone
  <2>8. Kept'
    <3>1. Kept BY Zenon DEF Hand
    <3>2. \A y : (HeldBy(p, y) => HeldBy(p, y)') /\ (HeldBy(q, y) => HeldBy(q, y)')
      BY Zenon, <1>r, <1>p, <1>7, <2>1, <2>3 DEF HeldBy, Gone
    <3> QED BY Zenon, <3>1, <3>2 DEF Kept
  <2> QED BY <1>5, <1>q, <2>a, <2>4, <2>b, <2>5, <2>6, <2>7, <2>8 DEF Hand
<1>10. CASE /\ \/ st[p] \in {"active", "delimiter_received"} /\ n = "term_ack_sent"
               \/ st[p] = "term_req_sent1" /\ n = "term_req_sent2"
            /\ Reply(p, a) /\ DropOut(p)
  <2>1. cmds'[p] = r /\ cmds'[q] = cmds[q] \o a BY Zenon, <1>1, <1>2, <1>10, Replied
  <2>2. out'[p] = NULL /\ out'[q] = out[q] BY Zenon, <1>10 DEF DropOut, Typed
  <2> HIDE DEF q, r, a
  <2>3. /\ Has(cmds'[q], "pipe_term") <=> Has(cmds[q], "pipe_term")
        /\ Has(cmds'[q], "pipe_term_ack") /\ Pipes(cmds'[q]) = Pipes(cmds[q])
    <3>1. /\ \A c : Has(cmds[q] \o a, c) <=> Has(cmds[q], c) \/ Has(a, c)
          /\ Pipes(cmds[q] \o a) = Pipes(cmds[q]) \union Pipes(a)
      BY Zenon, <1>1, <1>2, Longer
    <3> QED BY Zenon, <1>3, <2>1, <3>1
  <2>4. Ordered(cmds'[q]) /\ Rising(cmds'[q])
    <3>1. Ordered(cmds'[q]) BY Zenon, <1>1, <1>2, <1>3, <1>5, <2>1, LongerOrder
    <3>2. Rising(cmds'[q]) BY Zenon, <1>1, <1>2, <1>3, <1>5, <2>1, LongerRising
    <3> QED BY Zenon, <3>1, <3>2
  <2>5. /\ st[p] \in {"active", "delimiter_received"} => st[q] = "term_req_sent1"
        /\ n = "term_ack_sent" => st[q] = "term_req_sent1"
    BY Zenon, <1>J, <1>r, <1>5, <1>10 DEF Joint
  <2> HIDE DEF n
  <2>6. st'[p] = n /\ n \in {"term_ack_sent", "term_req_sent2"} BY Zenon, <1>10 DEF n
  <2>7. Joint(p)'
    <3>1. Has(cmds'[q], "pipe_term") <=> n = "term_req_sent2" /\ Unasked(q)
      <4>1. CASE st[p] = "term_req_sent1" /\ n = "term_req_sent2"
        BY Zenon, <1>J, <1>r, <2>3, <4>1 DEF Joint
      <4>2. CASE st[p] \in {"active", "delimiter_received"} /\ n = "term_ack_sent"
        BY Zenon, <1>J, <1>r, <2>3, <4>2 DEF Joint
      <4> QED BY Zenon, <1>10, <4>1, <4>2
    <3>2. n = "term_req_sent2" => st[q] \in {"term_req_sent1", "term_req_sent2"} BY Zenon, <1>5
    <3> QED BY <1>J, <1>5, <1>7, <2>2, <2>3, <2>4, <2>5, <2>6, <3>1, <3>2 DEF Joint, Acked, Unasked, Gone
  <2>8. Joint(q)'
    <3>1. Has(r, "pipe_term_ack") <=> Acked(q) BY Zenon, <1>J, <1>r DEF Joint
    <3>3. st[q] = "term_req_sent2" => n = "term_req_sent2" BY Zenon, <1>10, <2>5
    <3> QED BY <1>J, <1>r, <1>5, <1>7, <2>1, <2>2, <2>6, <3>1, <3>3 DEF Joint, Acked, Unasked, Gone
  <2>9. Chain(p)' BY Zenon, <1>C, <1>7, <2>2, <2>3 DEF Chain, Acked
  <2>a. Chain(q)' BY Zenon, <1>r, <2>1, <2>6 DEF Chain, Acked
  <2>10. Apart(p)' /\ Apart(q)' BY Zenon, <1>A, <1>r, <1>i, <2>1, <2>2, <2>3 DEF Apart
  <2>11. Held(p)' /\ Held(q)'
    <3>1. NULL \notin freed BY Zenon, NoNull
    <3> QED BY Zenon, <1>H, <1>r, <1>7, <2>1, <2>2, <2>3, <3>1 DEF Held, Gone
  <2>12. Kept'
    <3>1. Kept BY Zenon DEF Hand
    <3>2. \A y : HeldBy(p, y) => HeldBy(p, y)' \/ HeldBy(q, y)'
      BY Zenon, <1>r, <1>p, <1>5, <1>7, <1>8, <2>1, <2>2, <2>6 DEF HeldBy, Gone
    <3>3. \A y : HeldBy(q, y) => HeldBy(q, y)'
      BY Zenon, <1>r, <1>p, <1>7, <2>1, <2>2, <2>3 DEF HeldBy, Gone
    <3> QED BY Zenon, <3>1, <3>2, <3>3 DEF Kept
  <2> QED BY <1>5, <1>q, <2>7, <2>8, <2>9, <2>a, <2>10, <2>11, <2>12 DEF Hand
<1> QED BY Zenon, <1>6, <1>9, <1>10

\* The end is deleted with the ypipe it has read from.
LEMMA AckTaken ==
    ASSUME Typed, Hand, NEW p \in Ends, process_pipe_term_ack(p), Len(yp') = Len(yp)
    PROVE  Hand'
<1> DEFINE q == Peer(p)
           a == IF Acks(p) THEN <<Cmd("pipe_term_ack")>> ELSE <<>>
<1> p \in Ends /\ q \in Ends /\ p # q /\ Peer(p) = q /\ Peer(q) = p /\ \A x \in Ends : x = p \/ x = q BY Zenon, Two
<1>1. cmds[p] \in Seq(Command) /\ cmds[q] \in Seq(Command) /\ cmds[p] # <<>> BY Zenon, Taken DEF process_pipe_term_ack
<1>r. ~Gone(p) /\ Has(cmds[p], "pipe_term_ack") /\ Tail(cmds[p]) = <<>>
  BY ZenonT(30), Taken DEF process_pipe_term_ack
<1>J. Joint(p) /\ Joint(q) BY Zenon DEF Hand
<1>C. Chain(p) /\ Chain(q) BY Zenon DEF Hand
<1>A. Apart(p) /\ Apart(q) BY Zenon DEF Hand
<1>H. Held(p) /\ Held(q) BY Zenon DEF Hand
<1>2. a \in Seq(Command) /\ <<>> \in Seq(Command) BY Commands, EmptySeq
<1>3. (\A c : Has(a, c) <=> c = "pipe_term_ack" /\ Acks(p)) /\ Pipes(a) = {} /\ Ordered(a) /\ Rising(a)
  BY Zenon, Short, Commands
<1>4. Reply(p, a) BY Zenon DEF process_pipe_term_ack
<1> HIDE DEF a
<1>L. /\ \A c : Has(cmds[q] \o a, c) <=> Has(cmds[q], c) \/ Has(a, c)
      /\ Pipes(cmds[q] \o a) = Pipes(cmds[q]) \union Pipes(a)
  BY Zenon, <1>1, <1>2, Longer
<1> cmds'[p] = <<>> /\ cmds'[q] = cmds[q] \o a BY Zenon, <1>1, <1>2, <1>4, <1>r, Replied
<1> /\ in' = in /\ freed' = freed \union {in[p]}
      /\ st'[p] = "gone" /\ st'[q] = st[q]
      /\ out'[p] = (IF Acks(p) THEN NULL ELSE out[p]) /\ out'[q] = out[q]
  BY Zenon DEF process_pipe_term_ack, Deletes, Typed
<1>7. Acked(q) BY Zenon, <1>J, <1>r DEF Joint
<1>8. st[p] \in {"term_req_sent1", "term_req_sent2", "term_ack_sent"} BY Zenon DEF process_pipe_term_ack
<1> HIDE DEF q
<1>9. Pipes(cmds[p]) = {} /\ Pipes(cmds[q]) = {}
  <2>1. Pipes(cmds[q]) = {} BY Zenon, <1>J, <1>r, <1>7 DEF Joint, Unasked, Acked
  <2>2. Pipes(cmds[p]) = {}
    <3>1. Pipes(cmds[p]) = Pipes(Tail(cmds[p])) \union
              (IF "pipe_term_ack" = "hiccup" THEN {Head(cmds[p]).pipe} ELSE {})
      BY Zenon, Taken DEF process_pipe_term_ack
    <3> QED BY Zenon, <1>r, <3>1, Short
  <2> QED BY Zenon, <2>1, <2>2
<1>10. /\ Acks(p) => ~Gone(q) /\ ~Has(cmds[q], "pipe_term_ack")
       /\ ~Acks(p) => Acked(p) /\ out[p] = NULL
       /\ out'[p] = NULL
  BY Zenon, <1>J, <1>r, <1>8 DEF Joint, Acks, Acked, Gone
<1>11. Ordered(cmds[q]) /\ Rising(cmds[q]) BY Zenon, <1>J, <1>r DEF Joint
<1>12. /\ Has(cmds'[q], "pipe_term") <=> Has(cmds[q], "pipe_term")
       /\ Has(cmds'[q], "pipe_term_ack") <=> Has(cmds[q], "pipe_term_ack") \/ Acks(p)
       /\ Pipes(cmds'[q]) = {}
  BY Zenon, <1>3, <1>9, <1>L
<1>13. Ordered(cmds'[q]) /\ Rising(cmds'[q])
  <2>1. CASE Acks(p)
    BY <1>1, <1>2, <1>3, <1>9, <1>10, <1>11, <2>1, LongerOrder, LongerRising
  <2>2. CASE ~Acks(p)
    <3> a = <<>> BY Zenon, <2>2 DEF a
    <3> QED BY Zenon, <1>1, <1>11, ConcatEmptySeq
  <2> QED BY Zenon, <2>1, <2>2
<1>14. Joint(p)'
  <2>1. Has(cmds'[q], "pipe_term_ack") <=> ~Gone(q)
    BY Zenon, <1>J, <1>r, <1>8, <1>10, <1>12 DEF Joint, Acked
  <2>2. ~Has(cmds'[q], "pipe_term")
    BY Zenon, <1>J, <1>r, <1>7, <1>12 DEF Joint, Acked, Unasked
  <2> QED BY <1>J, <1>r, <1>7, <1>10, <1>12, <1>13, <2>1, <2>2 DEF Joint, Acked, Unasked, Gone
<1>15. Joint(q)'
  <2>1. ~Has(<<>>, "pipe_term") /\ ~Has(<<>>, "pipe_term_ack") /\ Pipes(<<>>) = {} /\ Ordered(<<>>) /\ Rising(<<>>)
    BY Zenon, Short
  <2>2. Gone(q) => cmds'[q] = <<>>
    <3> HAVE Gone(q)
    <3> cmds[q] = <<>> /\ ~Acks(p) BY Zenon, <1>J, <1>r, <1>10 DEF Joint
    <3> QED BY Zenon, <1>1, ConcatEmptySeq DEF a
  <2> QED BY Zenon, <1>J, <1>r, <1>7, <2>1, <2>2 DEF Joint, Acked, Unasked, Gone
<1>i. in[p] # NULL /\ in[q] # NULL BY Zenon, NoNull
<1>e. Pipes(cmds'[p]) = {} BY Zenon, Short
<1>16. Chain(p)' /\ Chain(q)'
  BY Zenon, <1>C, <1>7, <1>12, <1>e DEF Chain, Acked
<1>17. Apart(p)' /\ Apart(q)'
  BY Zenon, <1>A, <1>10, <1>12, <1>e, <1>i DEF Apart
<1>18. Held(p)' /\ Held(q)'
  <2>1. NULL \notin freed BY Zenon, NoNull
  <2>2. in[q] # in[p] BY Zenon, <1>A DEF Apart
  <2>3. out[q] = NULL BY Zenon, <1>J, <1>r, <1>7 DEF Joint
  <2> QED BY <1>H, <1>r, <1>10, <1>12, <1>e, <1>i, <2>1, <2>2, <2>3 DEF Held, Gone
<1>19. Kept'
  <2>1. Kept BY Zenon DEF Hand
  <2>2. Acks(p) => out[p] = in[q]
    BY Zenon, <1>C, <1>9 DEF Chain, Acks, Acked
  <2>3. \A y : HeldBy(p, y) => y = in[p] \/ HeldBy(p, y)' \/ HeldBy(q, y)'
    BY Zenon, <1>9, <1>10, <2>2 DEF HeldBy, Gone
  <2>4. \A y : HeldBy(q, y) => HeldBy(q, y)'
    BY Zenon, <1>9 DEF HeldBy, Gone
  <2> QED BY Zenon, <2>1, <2>3, <2>4 DEF Kept
<1>20. Quiet'
  <2>1. Quiet BY Zenon DEF Hand
  <2>2. ~\A x \in Ends : MaxTerms[x] = 0 BY Zenon, <1>r, <1>8, <2>1 DEF Quiet
  <2> QED BY Zenon, <2>2 DEF Quiet
<1> QED BY Zenon, <1>14, <1>15, <1>16, <1>17, <1>18, <1>19, <1>20 DEF Hand

-----------------------------------------------------------------------------
(* Types *)

Ypipe == [q : Seq(Part), u : Seq(Part), asleep : BOOLEAN]

\* What the operations of a ypipe make of it.
LEMMA Ypipes ==
    ASSUME NEW y \in Ypipe
    PROVE  /\ Complete(y.u) \in Seq(Part) /\ Flushed(y) \in Ypipe /\ RolledBack(y) \in Ypipe
           /\ \A m \in Part : Written(y, m) \in Ypipe
           /\ [y EXCEPT !.asleep = TRUE] \in Ypipe
           /\ y.q # <<>> => Head(y.q) \in Part /\ [y EXCEPT !.q = Tail(@)] \in Ypipe
<1> DEFINE u == y.u
<1>1. y.q \in Seq(Part) /\ u \in Seq(Part) /\ y.asleep \in BOOLEAN BY Zenon DEF Ypipe
<1>2. Len(u) \in Nat /\ \A i \in 1..Len(u) : u[i] \in Part BY Zenon, <1>1, LenProperties, ElementOfSeq
<1>3. Unfinished(u) \in Seq(Part) /\ Len(Unfinished(u)) \in 0..Len(u)
  <2> HIDE DEF u
  <2>1. <<>> \in Seq(Part) /\ Len(<<>>) = 0 BY Zenon, EmptySeq
  <2>2. u # <<>> => Len(u) >= 1 BY <1>1, <1>2, EmptySeq
  <2>3. u # <<>> => SubSeq(u, Len(u), Len(u)) \in Seq(Part) /\ Len(SubSeq(u, Len(u), Len(u))) = 1
    <3> HAVE u # <<>>
    <3> \A i \in Len(u)..Len(u) : u[i] \in Part BY <1>2, <2>2
    <3> QED BY <1>2, SubSeqProperties
  <2> QED BY <1>2, <2>1, <2>2, <2>3 DEF Unfinished
<1>4. Complete(u) \in Seq(Part)
  <2> HIDE DEF u
  <2> DEFINE n == Len(u) - Len(Unfinished(u))
  <2>1. n \in 0..Len(u) /\ \A i \in 1..n : u[i] \in Part BY <1>2, <1>3
  <2>2. Complete(u) = SubSeq(u, 1, n) BY Zenon DEF Complete
  <2> HIDE DEF n
  <2>3. n \in Int BY <2>1, <1>2
  <2> QED BY <2>1, <2>2, <2>3, SubSeqProperties
<1>5. Flushed(y) \in Ypipe
  <2> y.q \o Complete(y.u) \in Seq(Part) BY Zenon, <1>1, <1>4, ConcatProperties
  <2> QED BY Zenon, <1>1, <1>3 DEF Flushed, Ypipe
<1>6. RolledBack(y) \in Ypipe BY Zenon, <1>1, <1>4 DEF RolledBack, Ypipe
<1>7. ASSUME NEW m \in Part PROVE Written(y, m) \in Ypipe
  <2> Append(y.u, m) \in Seq(Part) BY Zenon, <1>1, AppendProperties
  <2> QED BY Zenon, <1>1 DEF Written, Ypipe
<1>8. [y EXCEPT !.asleep = TRUE] \in Ypipe BY Zenon, <1>1 DEF Ypipe
<1>9. y.q # <<>> => Head(y.q) \in Part /\ [y EXCEPT !.q = Tail(@)] \in Ypipe
  <2> HAVE y.q # <<>>
  <2> Head(y.q) \in Part /\ Tail(y.q) \in Seq(Part) BY Zenon, <1>1, HeadTailProperties
  <2> QED BY Zenon, <1>1 DEF Ypipe
<1> QED BY Zenon, <1>4, <1>5, <1>6, <1>7, <1>8, <1>9

LEMMA FirstYpipe == NewYpipe \in Ypipe /\ Delimiter \in Part
<1> <<>> \in Seq(Part) BY Zenon, EmptySeq
<1> QED BY Zenon DEF NewYpipe, Ypipe, Delimiter, Part

\* A ypipe is replaced by what has become of it; writing through NULL does nothing.
LEMMA Replaced ==
    ASSUME NEW S, NEW s \in Seq(S), NEW i, NEW e \in S
    PROVE  [s EXCEPT ![i] = e] \in Seq(S) /\ Len([s EXCEPT ![i] = e]) = Len(s)
<1> DEFINE n == Len(s)
<1>1. s \in [1..n -> S] /\ n \in Nat BY Zenon, LenProperties
<1>2. [s EXCEPT ![i] = e] \in [1..n -> S] BY Zenon, <1>1
<1> HIDE DEF n
<1>3. \A t \in [1..n -> S] : t \in Seq(S) /\ Len(t) = n
  BY <1>1, SeqDef, LenProperties
<1> QED BY Zenon, <1>2, <1>3 DEF n

LEMMA Watermarks ==
    ASSUME NEW h \in Nat, NEW b \in Int
    PROVE  Boosted(h, b) \in Nat /\ compute_lwm(h) \in Nat /\ compute_lwm(Boosted(h, b)) \in Nat
<1>1. \A n \in Nat : compute_lwm(n) \in Nat BY DEF compute_lwm
<1>2. Boosted(h, b) \in Nat BY DEF Boosted
<1> QED BY Zenon, <1>1, <1>2

\* The types, by kind.
Bits ==
    /\ delay \in [Ends -> BOOLEAN] /\ mid \in [Ends -> BOOLEAN]
    /\ inActive \in [Ends -> BOOLEAN] /\ outActive \in [Ends -> BOOLEAN]
Counts ==
    /\ hwm \in [Ends -> Nat] /\ lwm \in [Ends -> Nat] /\ started \in [Ends -> Nat]
    /\ nread \in [Ends -> Nat] /\ peerRead \in [Ends -> Nat] /\ skipped \in [Ends -> Nat]
Memory ==
    /\ yp \in Seq(Ypipe) /\ freed \subseteq 1..Len(yp)
    /\ in \in [Ends -> 1..Len(yp)] /\ out \in [Ends -> 0..Len(yp)]
History ==
    /\ st \in [Ends -> States \union {"gone"}] /\ cmds \in [Ends -> Seq(Command)]
    /\ got \in [Ends -> Seq(Part)] /\ calls \in [Ends -> [term : Nat, hiccup : Nat, hwm : Nat]]

LEMMA Types == Typed <=> Bits /\ Counts /\ Memory /\ History
BY Zenon DEF Typed, Bits, Counts, Memory, History, Ypipe

LEMMA TypesNext == Bits' /\ Counts' /\ Memory' /\ History' => Typed'
BY Zenon DEF Typed, Bits, Counts, Memory, History, Ypipe

\* One more call is counted.
LEMMA Counted ==
    ASSUME History, NEW p \in Ends, NEW w \in {"term", "hiccup", "hwm"}, Called(p, w)
    PROVE  calls' \in [Ends -> [term : Nat, hiccup : Nat, hwm : Nat]]
<1> DEFINE R == [term : Nat, hiccup : Nat, hwm : Nat]
<1>1. calls \in [Ends -> R] BY Zenon DEF History
<1>2. calls[p] \in R BY Zenon, <1>1
<1>3. [calls[p] EXCEPT ![w] = @ + 1] \in R
  <2>1. CASE w = "term" BY <1>2, <2>1
  <2>2. CASE w = "hiccup" BY <1>2, <2>2
  <2>3. CASE w = "hwm" BY <1>2, <2>3
  <2> QED BY Zenon, <2>1, <2>2, <2>3
<1>4. calls' = [calls EXCEPT ![p] = [calls[p] EXCEPT ![w] = @ + 1]] BY Zenon DEF Called
<1> HIDE DEF R
<1>5. calls' \in [Ends -> R] BY Zenon, <1>1, <1>3, <1>4
<1> QED BY Zenon, <1>5 DEF R

\* The ypipes an end may touch are there.
LEMMA There ==
    ASSUME Typed, Hand, NEW p \in Ends
    PROVE  /\ yp[in[p]] \in Ypipe
           /\ ~Acked(p) => yp[out[p]] \in Ypipe
<1>1. yp \in Seq(Ypipe) BY Zenon, Types DEF Memory
<1>2. in[p] \in 1..Len(yp) /\ out[p] \in 0..Len(yp) BY Zenon DEF Typed
<1>3. ~Acked(p) => out[p] # NULL BY Zenon DEF Hand, Joint
<1>4. ~Acked(p) => out[p] \in 1..Len(yp) BY <1>2, <1>3, Indices DEF NULL
<1> QED BY Zenon, <1>1, <1>2, <1>4, ElementOfSeq

\* One ypipe changes.
LEMMA YpipeChanged ==
    ASSUME Memory, NEW i, NEW e \in Ypipe, yp' = [yp EXCEPT ![i] = e], UNCHANGED <<in, out, freed>>
    PROVE  Memory' /\ Len(yp') = Len(yp)
<1>1. yp' \in Seq(Ypipe) /\ Len(yp') = Len(yp) BY Replaced DEF Memory
<1> QED BY Zenon, <1>1 DEF Memory

LEMMA WriteKeeps ==
    ASSUME Typed, Hand, NEW p \in Ends, NEW kind \in {"single", "head", "tail", "credential"}, Write(p, kind)
    PROVE  Typed' /\ Hand'
<1>1. st[p] = "active" /\ ~Acked(p) BY Zenon DEF Write, CheckWrite, Acked
<1>2. Bits /\ Counts /\ Memory /\ History BY Zenon, Types
<1>3. started'[p] \in Nat BY <1>2 DEF Write, Counts
<1>4. [n |-> started'[p], kind |-> kind] \in Part BY Zenon, <1>3 DEF Part
<1>5. Written(yp[out[p]], [n |-> started'[p], kind |-> kind]) \in Ypipe BY Zenon, <1>1, <1>4, There, Ypipes
<1>6. yp' = [yp EXCEPT ![out[p]] = Written(yp[out[p]], [n |-> started'[p], kind |-> kind])] BY Zenon DEF Write
<1>7. UNCHANGED <<st, in, out, freed, cmds>> BY Zenon DEF Write, ctrlVars
<1>8. Memory' /\ Len(yp') = Len(yp) BY Zenon, <1>2, <1>5, <1>6, <1>7, YpipeChanged
<1>9. Bits' BY Zenon, <1>2 DEF Write, Bits, ctrlVars
<1>10. Counts' BY <1>2 DEF Write, Counts, ctrlVars
<1>11. History' BY Zenon, <1>2, <1>7 DEF Write, History
<1>12. Hand' BY Zenon, <1>7, <1>8, NothingSent
<1> QED BY <1>8, <1>9, <1>10, <1>11, <1>12, TypesNext

LEMMA WriteFullKeeps ==
    ASSUME Typed, Hand, NEW p \in Ends, WriteFull(p)
    PROVE  Typed' /\ Hand'
<1>1. Bits /\ Counts /\ Memory /\ History BY Zenon, Types
<1>2. UNCHANGED <<st, in, out, freed, cmds, yp>> BY Zenon DEF WriteFull, memVars
<1>3. Bits' BY Zenon, <1>1 DEF WriteFull, Bits, userVars
<1>4. Counts' BY Zenon, <1>1 DEF WriteFull, Counts, countVars, userVars
<1>5. Memory' BY Zenon, <1>1, <1>2 DEF Memory
<1>6. History' BY Zenon, <1>1, <1>2 DEF WriteFull, History, userVars
<1>7. Hand' BY Zenon, <1>2, NothingSent
<1> QED BY Zenon, <1>3, <1>4, <1>5, <1>6, <1>7, TypesNext

LEMMA WriteAbortKeeps ==
    ASSUME Typed, Hand, NEW p \in Ends, WriteAbort(p)
    PROVE  Typed' /\ Hand'
<1>1. Bits /\ Counts /\ Memory /\ History BY Zenon, Types
<1>2. UNCHANGED <<st, in, out, freed, cmds>> BY Zenon DEF WriteAbort
<1>3. Bits' BY Zenon, <1>1 DEF WriteAbort, Bits
<1>4. Counts' BY Zenon, <1>1 DEF WriteAbort, Counts, countVars
<1>5. Memory' /\ Len(yp') = Len(yp)
  <2>1. CASE out[p] = NULL
    <3> yp' = yp BY Zenon, <2>1 DEF WriteAbort
    <3> QED BY Zenon, <1>1, <1>2 DEF Memory
  <2>2. CASE out[p] # NULL
    <3>1. ~Acked(p) BY Zenon, <2>2 DEF Hand, Joint
    <3>2. RolledBack(yp[out[p]]) \in Ypipe BY Zenon, <3>1, There, Ypipes
    <3>3. yp' = [yp EXCEPT ![out[p]] = RolledBack(yp[out[p]])] BY Zenon, <2>2 DEF WriteAbort
    <3> QED BY Zenon, <1>1, <1>2, <3>2, <3>3, YpipeChanged
  <2> QED BY Zenon, <2>1, <2>2
<1>6. History' BY Zenon, <1>1, <1>2 DEF WriteAbort, History
<1>7. Hand' BY Zenon, <1>2, <1>5, NothingSent
<1> QED BY Zenon, <1>3, <1>4, <1>5, <1>6, <1>7, TypesNext

LEMMA FlushKeeps ==
    ASSUME Typed, Hand, NEW p \in Ends, Flush(p)
    PROVE  Typed' /\ Hand'
<1>1. Bits /\ Counts /\ Memory /\ History BY Zenon, Types
<1>2. UNCHANGED <<st, in, out, freed>> BY Zenon DEF Flush, ctrlVars
<1>3. ~Acked(p) BY Zenon DEF Flush, Hand, Joint
<1>4. Flushed(yp[out[p]]) \in Ypipe BY Zenon, <1>3, There, Ypipes
<1>5. yp' = [yp EXCEPT ![out[p]] = Flushed(yp[out[p]])] BY Zenon DEF Flush
<1>6. Memory' /\ Len(yp') = Len(yp) BY Zenon, <1>1, <1>2, <1>4, <1>5, YpipeChanged
<1> DEFINE s == WakeUp(yp[out[p]])
<1>7. s \in Seq(Command) /\ Plain(s) /\ SendTo(Peer(p), s) BY Zenon, PlainOnes DEF Flush
<1> HIDE DEF s
<1>8. Hand' BY Zenon, <1>2, <1>3, <1>6, <1>7, PlainSent
<1>9. cmds' \in [Ends -> Seq(Command)] BY Zenon, <1>7, Sent
<1>10. Bits' BY Zenon, <1>1 DEF Flush, Bits, ctrlVars, userVars
<1>11. Counts' BY Zenon, <1>1 DEF Flush, Counts, countVars, ctrlVars, userVars
<1>12. History' BY Zenon, <1>1, <1>2, <1>9 DEF Flush, History, userVars
<1> QED BY <1>6, <1>8, <1>10, <1>11, <1>12, TypesNext

LEMMA ReadNothingKeeps ==
    ASSUME Typed, Hand, NEW p \in Ends, ReadNothing(p)
    PROVE  Typed' /\ Hand'
<1>1. Bits /\ Counts /\ Memory /\ History BY Zenon, Types
<1>2. UNCHANGED <<st, in, out, freed, cmds>> BY Zenon DEF ReadNothing
<1>3. [yp[in[p]] EXCEPT !.asleep = TRUE] \in Ypipe BY Zenon, There, Ypipes
<1>4. yp' = [yp EXCEPT ![in[p]] = [yp[in[p]] EXCEPT !.asleep = TRUE]] BY Zenon DEF ReadNothing
<1>5. Memory' /\ Len(yp') = Len(yp) BY Zenon, <1>1, <1>2, <1>3, <1>4, YpipeChanged
<1>6. Bits' BY Zenon, <1>1 DEF ReadNothing, Bits, userVars
<1>7. Counts' BY Zenon, <1>1 DEF ReadNothing, Counts, countVars, userVars
<1>8. History' BY Zenon, <1>1, <1>2 DEF ReadNothing, History, userVars
<1>9. Hand' BY Zenon, <1>2, <1>5, NothingSent
<1> QED BY Zenon, <1>5, <1>6, <1>7, <1>8, <1>9, TypesNext

LEMMA SkipCredentialKeeps ==
    ASSUME Typed, Hand, NEW p \in Ends, SkipCredential(p)
    PROVE  Typed' /\ Hand'
<1>1. Bits /\ Counts /\ Memory /\ History BY Zenon, Types
<1>2. UNCHANGED <<st, in, out, freed, cmds>> BY Zenon DEF SkipCredential, ctrlVars
<1>3. [yp[in[p]] EXCEPT !.q = Tail(@)] \in Ypipe BY Zenon, There, Ypipes DEF SkipCredential, Inbound
<1>4. yp' = [yp EXCEPT ![in[p]] = [yp[in[p]] EXCEPT !.q = Tail(@)]] BY Zenon DEF SkipCredential
<1>5. Memory' /\ Len(yp') = Len(yp) BY Zenon, <1>1, <1>2, <1>3, <1>4, YpipeChanged
<1>6. Bits' BY Zenon, <1>1 DEF SkipCredential, Bits, ctrlVars, userVars
<1>7. skipped' \in [Ends -> Nat] BY <1>1 DEF SkipCredential, Counts
<1>8. Counts' BY Zenon, <1>1, <1>7 DEF SkipCredential, Counts, ctrlVars, userVars
<1>9. History' BY Zenon, <1>1, <1>2 DEF SkipCredential, History, userVars
<1>10. Hand' BY Zenon, <1>2, <1>5, NothingSent
<1> QED BY Zenon, <1>5, <1>6, <1>8, <1>9, <1>10, TypesNext

LEMMA ReadPartKeeps ==
    ASSUME Typed, Hand, NEW p \in Ends, ReadPart(p)
    PROVE  Typed' /\ Hand'
<1>1. Bits /\ Counts /\ Memory /\ History BY Zenon, Types
<1>2. UNCHANGED <<st, in, out, freed>> BY Zenon DEF ReadPart, ctrlVars
<1>3. ~Acked(p) BY Zenon DEF ReadPart, MayRead, Readable, Acked
<1>4. Inbound(p) # <<>> /\ Inbound(p) = yp[in[p]].q BY Zenon DEF ReadPart, Inbound
<1>5. Head(Inbound(p)) \in Part /\ [yp[in[p]] EXCEPT !.q = Tail(@)] \in Ypipe BY Zenon, <1>4, There, Ypipes
<1>6. yp' = [yp EXCEPT ![in[p]] = [yp[in[p]] EXCEPT !.q = Tail(@)]] BY Zenon DEF ReadPart
<1>7. Memory' /\ Len(yp') = Len(yp) BY Zenon, <1>1, <1>2, <1>5, <1>6, YpipeChanged
<1> DEFINE x == [c |-> "activate_write", v |-> nread'[p]]
           s == IF lwm[p] > 0 /\ nread'[p] % lwm[p] = 0 THEN <<x>> ELSE <<>>
<1>8. nread' \in [Ends -> Nat] /\ nread'[p] \in Nat BY <1>1 DEF ReadPart, Counts
<1>9. s \in Seq(Command) /\ Plain(s)
  <2>1. x \in Command /\ x.c = "activate_write" BY Zenon, <1>8, Commands
  <2>2. <<x>> \in Seq(Command) /\ Plain(<<x>>) BY <2>1, PlainOnes
  <2>3. <<>> \in Seq(Command) /\ Plain(<<>>) BY Zenon, EmptySeq, PlainOnes
  <2> QED BY Zenon, <2>2, <2>3
<1>10. SendTo(Peer(p), s) BY Zenon DEF ReadPart
<1> HIDE DEF s
<1>11. Hand' BY Zenon, <1>2, <1>3, <1>7, <1>9, <1>10, PlainSent
<1>12. cmds' \in [Ends -> Seq(Command)] BY Zenon, <1>9, <1>10, Sent
<1>13. got' \in [Ends -> Seq(Part)]
  <2>1. got \in [Ends -> Seq(Part)] BY Zenon, <1>1 DEF History
  <2>2. Append(got[p], Head(Inbound(p))) \in Seq(Part) BY Zenon, <1>5, <2>1, AppendProperties
  <2>3. got' = [got EXCEPT ![p] = Append(got[p], Head(Inbound(p)))] BY Zenon DEF ReadPart
  <2> QED BY Zenon, <2>1, <2>2, <2>3
<1>14. Bits' BY Zenon, <1>1 DEF ReadPart, Bits, ctrlVars
<1>15. Counts' BY Zenon, <1>1, <1>8 DEF ReadPart, Counts, ctrlVars
<1>16. History' BY Zenon, <1>1, <1>2, <1>12, <1>13 DEF ReadPart, History
<1> QED BY Zenon, <1>7, <1>11, <1>14, <1>15, <1>16, TypesNext

LEMMA ReadDelimiterKeeps ==
    ASSUME Typed, Hand, NEW p \in Ends, ReadDelimiter(p)
    PROVE  Typed' /\ Hand'
<1>1. Bits /\ Counts /\ Memory /\ History BY Zenon, Types
<1>2. UNCHANGED <<in, freed>> BY Zenon DEF ReadDelimiter
<1>3. [yp[in[p]] EXCEPT !.q = Tail(@)] \in Ypipe BY Zenon, There, Ypipes DEF ReadDelimiter, Inbound
<1>4. yp' = [yp EXCEPT ![in[p]] = [yp[in[p]] EXCEPT !.q = Tail(@)]] BY Zenon DEF ReadDelimiter
<1>5. yp' \in Seq(Ypipe) /\ Len(yp') = Len(yp) BY <1>1, <1>3, <1>4, Replaced DEF Memory
<1>6. Bits' BY Zenon, <1>1 DEF ReadDelimiter, Bits, userVars
<1>7. Counts' BY Zenon, <1>1 DEF ReadDelimiter, Counts, countVars, userVars
<1>8. CASE /\ st[p] = "active" /\ st' = [st EXCEPT ![p] = "delimiter_received"]
           /\ UNCHANGED <<out, cmds>>
  <2>1. \A x \in Ends : st'[x] = st[x] \/ (st[x] = "active" /\ st'[x] = "delimiter_received")
    BY Zenon, <1>1, <1>8 DEF History
  <2>2. Hand' BY <1>2, <1>5, <1>8, <2>1, NothingSent
  <2>3. Memory' BY Zenon, <1>1, <1>2, <1>5, <1>8 DEF Memory
  <2>4. History' BY Zenon, <1>1, <1>8 DEF ReadDelimiter, History, userVars, States
  <2> QED BY Zenon, <1>6, <1>7, <2>2, <2>3, <2>4, TypesNext
<1>9. CASE /\ st[p] = "waiting_for_delimiter" /\ st' = [st EXCEPT ![p] = "term_ack_sent"]
           /\ DropOut(p) /\ SendTo(Peer(p), <<Cmd("pipe_term_ack")>>)
  <2>1. Hand' BY Zenon, <1>2, <1>5, <1>9, AckAfterDelimiter
  <2>2. <<Cmd("pipe_term_ack")>> \in Seq(Command) BY Commands
  <2>3. cmds' \in [Ends -> Seq(Command)] BY Zenon, <1>9, <2>2, Sent
  <2>4. Memory'
    <3>1. Len(yp) \in Nat BY Zenon, Indices
    <3>2. out' \in [Ends -> 0..Len(yp)] BY <1>1, <1>9, <3>1 DEF Memory, DropOut, NULL
    <3> QED BY Zenon, <1>1, <1>2, <1>5, <3>2 DEF Memory
  <2>5. History' BY Zenon, <1>1, <1>9, <2>3 DEF ReadDelimiter, History, userVars, States
  <2> QED BY Zenon, <1>6, <1>7, <2>1, <2>4, <2>5, TypesNext
<1> QED BY Zenon, <1>8, <1>9 DEF ReadDelimiter

LEMMA TerminateAgainKeeps ==
    ASSUME Typed, Hand, NEW p \in Ends, NEW d \in BOOLEAN, TerminateAgain(p, d)
    PROVE  Typed' /\ Hand'
<1>1. Bits /\ Counts /\ Memory /\ History BY Zenon, Types
<1>2. UNCHANGED <<st, in, out, freed, cmds, yp>> BY Zenon DEF TerminateAgain, memVars
<1>3. Bits' BY Zenon, <1>1 DEF TerminateAgain, Bits
<1>4. Counts' BY Zenon, <1>1 DEF TerminateAgain, Counts, countVars
<1>5. Memory' BY Zenon, <1>1, <1>2 DEF Memory
<1>6. calls' \in [Ends -> [term : Nat, hiccup : Nat, hwm : Nat]] BY Zenon, <1>1, Counted DEF TerminateAgain
<1>7. History' BY Zenon, <1>1, <1>2, <1>6 DEF TerminateAgain, History
<1>8. Hand' BY Zenon, <1>2, NothingSent
<1> QED BY Zenon, <1>3, <1>4, <1>5, <1>7, <1>8, TypesNext

LEMMA TerminateNowKeeps ==
    ASSUME Typed, Hand, NEW p \in Ends, TerminateNow(p)
    PROVE  Typed' /\ Hand'
<1>1. Bits /\ Counts /\ Memory /\ History BY Zenon, Types
<1>2. UNCHANGED <<in, freed>> /\ st[p] = "waiting_for_delimiter" /\ ~Acked(p)
  BY Zenon DEF TerminateNow, Acked
<1>3. RolledBack(yp[out[p]]) \in Ypipe BY Zenon, <1>2, There, Ypipes
<1>4. yp' = [yp EXCEPT ![out[p]] = RolledBack(yp[out[p]])] BY Zenon DEF TerminateNow
<1>5. yp' \in Seq(Ypipe) /\ Len(yp') = Len(yp) BY <1>1, <1>3, <1>4, Replaced DEF Memory
<1>6. Bits' BY Zenon, <1>1 DEF TerminateNow, Bits
<1>7. Counts' BY Zenon, <1>1 DEF TerminateNow, Counts, countVars
<1>8. Hand' BY Zenon, <1>2, <1>5, AckAfterDelimiter DEF TerminateNow
<1>9. <<Cmd("pipe_term_ack")>> \in Seq(Command) BY Commands
<1>10. cmds' \in [Ends -> Seq(Command)] BY Zenon, <1>9, Sent DEF TerminateNow
<1>11. Memory'
  <2>1. Len(yp) \in Nat BY Zenon, Indices
  <2>2. out' \in [Ends -> 0..Len(yp)] BY <1>1, <2>1 DEF Memory, TerminateNow, DropOut, NULL
  <2> QED BY Zenon, <1>1, <1>2, <1>5, <2>2 DEF Memory
<1>12. calls' \in [Ends -> [term : Nat, hiccup : Nat, hwm : Nat]] BY Zenon, <1>1, Counted DEF TerminateNow
<1>13. History' BY Zenon, <1>1, <1>10, <1>12 DEF TerminateNow, History, States
<1> QED BY Zenon, <1>6, <1>7, <1>8, <1>11, <1>13, TypesNext

\* Who may call terminate() at all.
LEMMA MayTerminate ==
    ASSUME Bounds, Typed, NEW p \in Ends, calls[p].term < MaxTerms[p]
    PROVE  ~\A x \in Ends : MaxTerms[x] = 0
<1>1. calls[p].term \in Nat BY Zenon DEF Typed
<1>2. MaxTerms[p] \in Nat BY Zenon DEF Bounds
<1> QED BY <1>1, <1>2

LEMMA TerminateKeeps ==
    ASSUME Bounds, Typed, Hand, NEW p \in Ends, NEW d \in BOOLEAN, Terminate(p, d)
    PROVE  Typed' /\ Hand'
<1> DEFINE y == Written(RolledBack(yp[out[p]]), Delimiter)
<1>1. Bits /\ Counts /\ Memory /\ History BY Zenon, Types
<1>2. UNCHANGED <<in, out, freed>> BY Zenon DEF Terminate
<1>3. st[p] \in {"active", "delimiter_received", "waiting_for_delimiter"} /\ ~Acked(p)
  BY Zenon DEF Terminate, Asks, Acked
<1>4. RolledBack(yp[out[p]]) \in Ypipe BY Zenon, <1>3, There, Ypipes
<1>5. y \in Ypipe BY Zenon, <1>4, Ypipes, FirstYpipe
<1>6. yp' = [yp EXCEPT ![out[p]] = Flushed(y)] BY Zenon DEF Terminate
<1> DEFINE w == WakeUp(y)
<1>7. w \in Seq(Command) /\ Plain(w) BY Zenon, PlainOnes
<1>8. SendTo(Peer(p), (IF Asks(p) THEN <<Cmd("pipe_term")>> ELSE <<>>) \o w) BY Zenon DEF Terminate
<1> HIDE DEF w, y
<1>9. Flushed(y) \in Ypipe BY Zenon, <1>5, Ypipes
<1>10. Memory' /\ Len(yp') = Len(yp) BY Zenon, <1>1, <1>2, <1>6, <1>9, YpipeChanged
<1>11. Bits' BY Zenon, <1>1 DEF Terminate, Bits
<1>12. Counts' BY Zenon, <1>1 DEF Terminate, Counts, countVars
<1>13. calls' \in [Ends -> [term : Nat, hiccup : Nat, hwm : Nat]] BY Zenon, <1>1, Counted DEF Terminate
<1>14. st' \in [Ends -> States \union {"gone"}] BY Zenon, <1>1 DEF Terminate, History, States
<1>15. <<Cmd("pipe_term")>> \in Seq(Command) /\ <<>> \in Seq(Command) BY Commands, EmptySeq
<1>16. cmds' \in [Ends -> Seq(Command)]
  <2>1. (IF Asks(p) THEN <<Cmd("pipe_term")>> ELSE <<>>) \o w \in Seq(Command)
    BY Zenon, <1>7, <1>15, ConcatProperties
  <2> QED BY Zenon, <1>8, <2>1, Sent
<1>17. History' BY Zenon, <1>1, <1>13, <1>14, <1>16 DEF Terminate, History
<1>18. Hand'
  <2>1. CASE Asks(p)
    <3>1. st[p] \in {"active", "delimiter_received"} /\ st' = [st EXCEPT ![p] = "term_req_sent1"]
      BY Zenon, <2>1 DEF Asks, Terminate
    <3>2. SendTo(Peer(p), <<Cmd("pipe_term")>> \o w) BY Zenon, <1>8, <2>1
    <3>3. ~\A x \in Ends : MaxTerms[x] = 0 BY Zenon, MayTerminate DEF Terminate
    <3> QED BY Zenon, <1>2, <1>7, <1>10, <3>1, <3>2, <3>3, AskSent
  <2>2. CASE ~Asks(p)
    <3>1. st' = st BY Zenon, <1>1, <2>2 DEF Terminate, History
    <3>2. <<>> \o w = w BY Zenon, <1>7, ConcatEmptySeq
    <3>3. SendTo(Peer(p), w) BY Zenon, <1>8, <2>2, <3>2
    <3> QED BY <1>2, <1>3, <1>7, <1>10, <3>1, <3>3, PlainSent
  <2> QED BY Zenon, <2>1, <2>2
<1> QED BY Zenon, <1>10, <1>11, <1>12, <1>17, <1>18, TypesNext

LEMMA HiccupKeeps ==
    ASSUME Typed, Hand, NEW p \in Ends, Hiccup(p)
    PROVE  Typed' /\ Hand'
<1>1. Bits /\ Counts /\ Memory /\ History BY Zenon, Types
<1>2. UNCHANGED <<st, out, freed>> BY Zenon DEF Hiccup
<1>3. Len(yp) \in Nat /\ Len(yp) + 1 \in Nat \ {NULL} BY Indices DEF NULL
<1>4. yp' \in Seq(Ypipe) /\ Len(yp') = Len(yp) + 1
  <2>1. yp \in Seq(Ypipe) /\ yp' = Append(yp, NewYpipe) BY Zenon, <1>1 DEF Memory, Hiccup
  <2> QED BY Zenon, <2>1, FirstYpipe, AppendProperties
<1>5. Memory'
  <2>1. freed \subseteq 1..(Len(yp) + 1) BY <1>1, <1>3 DEF Memory
  <2>2. out \in [Ends -> 0..(Len(yp) + 1)] BY <1>1, <1>3 DEF Memory
  <2>3. in' \in [Ends -> 1..(Len(yp) + 1)] BY <1>1, <1>3 DEF Memory, Hiccup
  <2> QED BY Zenon, <1>2, <1>4, <2>1, <2>2, <2>3 DEF Memory
<1>6. Bits' BY Zenon, <1>1 DEF Hiccup, Bits
<1>7. Counts' BY Zenon, <1>1 DEF Hiccup, Counts, countVars
<1>8. calls' \in [Ends -> [term : Nat, hiccup : Nat, hwm : Nat]] BY Zenon, <1>1, Counted DEF Hiccup
<1>9. [c |-> "hiccup", pipe |-> Len(yp) + 1] \in Command BY Zenon, <1>3, Commands
<1>10. <<[c |-> "hiccup", pipe |-> Len(yp) + 1]>> \in Seq(Command) BY <1>9
<1>11. cmds' \in [Ends -> Seq(Command)] BY Zenon, <1>10, Sent DEF Hiccup
<1>12. History' BY Zenon, <1>1, <1>8, <1>11 DEF Hiccup, History
<1>13. Hand' BY Zenon, <1>2, <1>4, HiccupSent DEF Hiccup
<1> QED BY Zenon, <1>5, <1>6, <1>7, <1>12, <1>13, TypesNext

LEMMA SetHwmsKeeps ==
    ASSUME Bounds, Typed, Hand, NEW p \in Ends, NEW i \in NewHwms, NEW o \in NewHwms, SetHwms(p, i, o)
    PROVE  Typed' /\ Hand'
<1>1. Bits /\ Counts /\ Memory /\ History BY Zenon, Types
<1>2. UNCHANGED <<st, in, out, freed, yp>> BY Zenon DEF SetHwms, memVars
<1>3. i \in Nat /\ o \in Nat /\ Boost[p].in \in Int /\ Boost[p].out \in Int BY Zenon DEF Bounds
<1>4. compute_lwm(Boosted(i, Boost[p].in)) \in Nat /\ Boosted(o, Boost[p].out) \in Nat
  BY Zenon, <1>3, Watermarks
<1>5. Counts' BY Zenon, <1>1, <1>4 DEF SetHwms, Counts, countVars
<1>6. Bits' BY Zenon, <1>1 DEF SetHwms, Bits
<1>7. Memory' BY Zenon, <1>1, <1>2 DEF Memory
<1>8. calls' \in [Ends -> [term : Nat, hiccup : Nat, hwm : Nat]] BY Zenon, <1>1, Counted DEF SetHwms
<1> DEFINE x == [c |-> "pipe_hwm", in |-> o, out |-> i]
<1>9. x \in Command /\ x.c = "pipe_hwm" BY Zenon, <1>3, Commands
<1>10. <<x>> \in Seq(Command) /\ Plain(<<x>>) BY <1>9, PlainOnes
<1>11. SendTo(Peer(p), <<x>>) BY Zenon DEF SetHwms
<1> HIDE DEF x
<1>12. cmds' \in [Ends -> Seq(Command)] BY Zenon, <1>10, <1>11, Sent
<1>13. History' BY Zenon, <1>1, <1>2, <1>8, <1>12 DEF SetHwms, History
<1>14. ~Acked(p)
  <2>1. calls[p].hwm \in Nat /\ MaxHwmChanges[p] \in Nat BY Zenon DEF Typed, Bounds
  <2>2. MaxHwmChanges[p] # 0
    <3>1. calls[p].hwm < MaxHwmChanges[p] BY Zenon DEF SetHwms
    <3> QED BY <2>1, <3>1
  <2>3. \A e \in Ends : MaxTerms[e] = 0 BY Zenon, <2>2 DEF Bounds
  <2> QED BY Zenon, <2>3 DEF Hand, Quiet, Acked
<1>15. Hand' BY Zenon, <1>2, <1>10, <1>11, <1>14, PlainSent
<1> QED BY <1>5, <1>6, <1>7, <1>13, <1>15, TypesNext

\* A plain command is processed.
LEMMA TakenTypes ==
    ASSUME Typed, Hand, NEW p \in Ends, NEW c, Receive(p, c), Reply(p, <<>>)
    PROVE  /\ cmds' \in [Ends -> Seq(Command)]
           /\ Head(cmds[p]) \in Command /\ Head(cmds[p]).c = c
<1>1. <<>> \in Seq(Command) /\ cmds[p] # <<>> BY Zenon, EmptySeq DEF Receive
<1>2. cmds' \in [Ends -> Seq(Command)] BY Zenon, <1>1, Replied
<1> QED BY Zenon, <1>2, Taken

LEMMA ActivateReadKeeps ==
    ASSUME Typed, Hand, NEW p \in Ends, process_activate_read(p)
    PROVE  Typed' /\ Hand'
<1>1. Bits /\ Counts /\ Memory /\ History BY Zenon, Types
<1>2. UNCHANGED <<st, in, out, freed, yp>> BY Zenon DEF process_activate_read, memVars
<1>3. Receive(p, "activate_read") /\ Reply(p, <<>>) BY Zenon DEF process_activate_read
<1>4. Bits' BY Zenon, <1>1 DEF process_activate_read, Bits, userVars
<1>5. Counts' BY Zenon, <1>1 DEF process_activate_read, Counts, countVars, userVars
<1>6. Memory' BY Zenon, <1>1, <1>2 DEF Memory
<1>7. History' BY Zenon, <1>1, <1>2, <1>3, TakenTypes DEF process_activate_read, History, userVars
<1>8. Hand' BY Zenon, <1>2, <1>3, PlainTaken
<1> QED BY Zenon, <1>4, <1>5, <1>6, <1>7, <1>8, TypesNext

LEMMA ActivateWriteKeeps ==
    ASSUME Typed, Hand, NEW p \in Ends, process_activate_write(p)
    PROVE  Typed' /\ Hand'
<1>1. Bits /\ Counts /\ Memory /\ History BY Zenon, Types
<1>2. UNCHANGED <<st, in, out, freed, yp>> BY Zenon DEF process_activate_write, memVars
<1>3. Receive(p, "activate_write") /\ Reply(p, <<>>) BY Zenon DEF process_activate_write
<1>4. Head(cmds[p]).v \in Nat BY Zenon, <1>3, TakenTypes, Fields
<1>5. Bits' BY Zenon, <1>1 DEF process_activate_write, Bits, userVars
<1>6. Counts' BY Zenon, <1>1, <1>4 DEF process_activate_write, Counts, userVars
<1>7. Memory' BY Zenon, <1>1, <1>2 DEF Memory
<1>8. History' BY Zenon, <1>1, <1>2, <1>3, TakenTypes DEF process_activate_write, History, userVars
<1>9. Hand' BY Zenon, <1>2, <1>3, PlainTaken
<1> QED BY Zenon, <1>5, <1>6, <1>7, <1>8, <1>9, TypesNext

LEMMA PipeHwmKeeps ==
    ASSUME Bounds, Typed, Hand, NEW p \in Ends, process_pipe_hwm(p)
    PROVE  Typed' /\ Hand'
<1>1. Bits /\ Counts /\ Memory /\ History BY Zenon, Types
<1>2. UNCHANGED <<st, in, out, freed, yp>> BY Zenon DEF process_pipe_hwm, memVars
<1>3. Receive(p, "pipe_hwm") /\ Reply(p, <<>>) BY Zenon DEF process_pipe_hwm
<1>4. Head(cmds[p]).in \in Nat /\ Head(cmds[p]).out \in Nat BY Zenon, <1>3, TakenTypes, Fields
<1>5. Boost[p].in \in Int /\ Boost[p].out \in Int BY Zenon DEF Bounds
<1>6. /\ compute_lwm(Boosted(Head(cmds[p]).in, Boost[p].in)) \in Nat
      /\ Boosted(Head(cmds[p]).out, Boost[p].out) \in Nat
  BY Zenon, <1>4, <1>5, Watermarks
<1>7. Bits' BY Zenon, <1>1 DEF process_pipe_hwm, Bits, userVars
<1>8. Counts' BY Zenon, <1>1, <1>6 DEF process_pipe_hwm, Counts, countVars, userVars
<1>9. Memory' BY Zenon, <1>1, <1>2 DEF Memory
<1>10. History' BY Zenon, <1>1, <1>2, <1>3, TakenTypes DEF process_pipe_hwm, History, userVars
<1>11. Hand' BY Zenon, <1>2, <1>3, PlainTaken
<1> QED BY Zenon, <1>7, <1>8, <1>9, <1>10, <1>11, TypesNext

LEMMA ProcessHiccupKeeps ==
    ASSUME Typed, Hand, NEW p \in Ends, process_hiccup(p)
    PROVE  Typed' /\ Hand'
<1>1. Bits /\ Counts /\ Memory /\ History BY Zenon, Types
<1>2. /\ Receive(p, "hiccup") /\ Reply(p, <<>>) /\ UNCHANGED <<st, in>>
      /\ freed' = freed \union {out[p]} /\ out' = [out EXCEPT ![p] = Head(cmds[p]).pipe]
      /\ yp' = [yp EXCEPT ![out[p]] = NewYpipe]
  BY Zenon DEF process_hiccup, Plugged
<1>3. yp' \in Seq(Ypipe) /\ Len(yp') = Len(yp) BY <1>1, <1>2, FirstYpipe, Replaced DEF Memory
<1>4. Hand' /\ out[p] # NULL BY Zenon, <1>2, <1>3, HiccupDone
<1>7. Counts' BY Zenon, <1>1 DEF process_hiccup, Plugged, Counts, userVars
<1>8. Bits' BY Zenon, <1>1 DEF process_hiccup, Plugged, Bits, userVars
<1>9. History' BY Zenon, <1>1, <1>2, TakenTypes DEF process_hiccup, Plugged, History, userVars
<1>10. Memory'
  <2>1. Len(yp) \in Nat BY Zenon, Indices
  <2>2. out[p] \in 0..Len(yp) BY Zenon, <1>1 DEF Memory
  <2>3. out[p] \in 1..Len(yp) BY <1>4, <2>1, <2>2 DEF NULL
  <2>4. freed' \subseteq 1..Len(yp) BY Zenon, <1>1, <1>2, <2>3 DEF Memory
  <2>5. Head(cmds[p]).pipe \in Pipes(cmds[p])
    <3>1. Pipes(cmds[p]) = Pipes(Tail(cmds[p])) \union
              (IF "hiccup" = "hiccup" THEN {Head(cmds[p]).pipe} ELSE {})
      BY Zenon, <1>2, Taken
    <3> QED BY Zenon, <3>1
  <2>6. Head(cmds[p]).pipe \in 0..Len(yp) BY <2>1, <2>5, Indices
  <2>7. out' \in [Ends -> 0..Len(yp)] BY Zenon, <1>1, <1>2, <2>6 DEF Memory
  <2> QED BY <1>1, <1>2, <1>3, <2>4, <2>7 DEF Memory
<1> QED BY <1>4, <1>7, <1>8, <1>9, <1>10, TypesNext

LEMMA PipeTermKeeps ==
    ASSUME Typed, Hand, NEW p \in Ends, process_pipe_term(p)
    PROVE  Typed' /\ Hand'
<1>1. Bits /\ Counts /\ Memory /\ History BY Zenon, Types
<1>2. Hand' BY Zenon, TermTaken
<1>3. Bits' BY Zenon, <1>1 DEF process_pipe_term, Bits, userVars
<1>4. Counts' BY Zenon, <1>1 DEF process_pipe_term, Counts, countVars, userVars
<1>5. Memory'
  <2>1. Len(yp) \in Nat BY Zenon, Indices
  <2>2. out' \in [Ends -> 0..Len(yp)] BY <1>1, <2>1 DEF Memory, process_pipe_term, DropOut, NULL
  <2> QED BY Zenon, <1>1, <2>2 DEF Memory, process_pipe_term
<1>6. cmds[p] # <<>> BY Zenon DEF process_pipe_term, Receive
<1>7. <<Cmd("pipe_term_ack")>> \in Seq(Command) /\ <<>> \in Seq(Command) BY Commands, EmptySeq
<1>8. cmds' \in [Ends -> Seq(Command)] BY Zenon, <1>6, <1>7, Replied DEF process_pipe_term
<1>9. st' \in [Ends -> States \union {"gone"}] BY Zenon, <1>1 DEF History, process_pipe_term, States
<1>10. History' BY Zenon, <1>1, <1>8, <1>9 DEF process_pipe_term, History, userVars
<1> QED BY <1>2, <1>3, <1>4, <1>5, <1>10, TypesNext

LEMMA PipeTermAckKeeps ==
    ASSUME Typed, Hand, NEW p \in Ends, process_pipe_term_ack(p)
    PROVE  Typed' /\ Hand'
<1> DEFINE a == IF Acks(p) THEN <<Cmd("pipe_term_ack")>> ELSE <<>>
<1>1. Bits /\ Counts /\ Memory /\ History BY Zenon, Types
<1>2. yp' = [yp EXCEPT ![in[p]] = NewYpipe] BY Zenon DEF process_pipe_term_ack
<1>3. yp' \in Seq(Ypipe) /\ Len(yp') = Len(yp) BY <1>1, <1>2, FirstYpipe, Replaced DEF Memory
<1>4. Hand' BY Zenon, <1>3, AckTaken
<1>5. Bits' BY Zenon, <1>1 DEF process_pipe_term_ack, Bits, userVars
<1>6. Counts' BY Zenon, <1>1 DEF process_pipe_term_ack, Counts, countVars, userVars
<1>7. Memory'
  <2>1. Len(yp) \in Nat BY Zenon, Indices
  <2>2. out' \in [Ends -> 0..Len(yp)] BY <1>1, <2>1 DEF Memory, process_pipe_term_ack, NULL
  <2>3. freed' \subseteq 1..Len(yp) BY Zenon, <1>1 DEF Memory, process_pipe_term_ack, Deletes
  <2> QED BY Zenon, <1>1, <1>3, <2>2, <2>3 DEF Memory, process_pipe_term_ack
<1>8. cmds[p] # <<>> BY Zenon DEF process_pipe_term_ack, Receive
<1>9. a \in Seq(Command) BY Commands, EmptySeq
<1>10. Reply(p, a) BY Zenon DEF process_pipe_term_ack
<1> HIDE DEF a
<1>11. cmds' \in [Ends -> Seq(Command)] BY Zenon, <1>8, <1>9, <1>10, Replied
<1>12. st' \in [Ends -> States \union {"gone"}] BY Zenon, <1>1 DEF History, process_pipe_term_ack
<1>13. History' BY Zenon, <1>1, <1>11, <1>12 DEF process_pipe_term_ack, History, userVars
<1> QED BY <1>4, <1>5, <1>6, <1>7, <1>13, TypesNext

-----------------------------------------------------------------------------
(* The theorems *)

LEMMA Begins ==
    ASSUME Bounds, Init
    PROVE  IInv
<1>1. /\ NewYpipe \in Ypipe /\ yp = <<NewYpipe, NewYpipe>> BY Zenon, FirstYpipe DEF Init
<1>2. yp \in Seq(Ypipe) /\ Len(yp) = 2 BY <1>1
<1>3. in["A"] = 1 /\ in["B"] = 2 /\ out["A"] = 2 /\ out["B"] = 1 /\ freed = {} BY Zenon DEF Init, Ends
<1>4. st["A"] = "active" /\ st["B"] = "active" /\ cmds["A"] = <<>> /\ cmds["B"] = <<>> BY Zenon DEF Init, Ends
<1>5. Ends = {"A", "B"} /\ Peer("A") = "B" /\ Peer("B") = "A" BY Zenon DEF Ends, Peer
<1>6. /\ ~Has(<<>>, "pipe_term") /\ ~Has(<<>>, "pipe_term_ack")
      /\ Pipes(<<>>) = {} /\ Ordered(<<>>) /\ Rising(<<>>)
  BY Zenon, Short
<1>7. \A p \in Ends : Joint(p) BY <1>3, <1>4, <1>5, <1>6 DEF Joint, Acked, Gone, Unasked, NULL
<1>8. \A p \in Ends : Chain(p) BY Zenon, <1>3, <1>4, <1>5, <1>6 DEF Chain, Acked
<1>9. \A p \in Ends : Apart(p) BY <1>3, <1>4, <1>5, <1>6 DEF Apart
<1>10. \A p \in Ends : Held(p) BY Zenon, <1>3, <1>4, <1>5, <1>6 DEF Held
<1>11. Kept
  <2>1. \A y \in 1..Len(yp) : y = 1 \/ y = 2 BY <1>2
  <2>2. HeldBy("A", 1) /\ HeldBy("B", 2) BY Zenon, <1>3, <1>4 DEF HeldBy, Gone
  <2> QED BY Zenon, <1>5, <2>1, <2>2 DEF Kept
<1>12. Quiet BY Zenon, <1>4, <1>5 DEF Quiet
<1>13. Bits BY Zenon DEF Init, Bits
<1>14. Counts
  <2>1. \A p \in Ends : Hwm[Peer(p)] \in Nat BY Zenon, Two DEF Bounds
  <2>2. \A p \in Ends : compute_lwm(Hwm[Peer(p)]) \in Nat BY <2>1 DEF compute_lwm
  <2> QED BY Zenon, <2>2 DEF Init, Counts, Bounds
<1>15. Memory
  <2>1. in \in [Ends -> 1..2] /\ out \in [Ends -> 0..2] BY DEF Init
  <2> QED BY Zenon, <1>2, <1>3, <2>1 DEF Memory
<1>16. History
  <2>1. <<>> \in Seq(Command) /\ <<>> \in Seq(Part) BY Zenon, EmptySeq
  <2> QED BY Zenon, <2>1 DEF Init, History, States
<1> QED BY <1>7, <1>8, <1>9, <1>10, <1>11, <1>12, <1>13, <1>14, <1>15, <1>16, Types DEF IInv, Hand

LEMMA Continues ==
    ASSUME Bounds, IInv, [Next]_vars
    PROVE  IInv'
<1> USE DEF IInv
<1>1. CASE UNCHANGED vars
  <2>1. Bits' /\ Counts' /\ Memory' /\ History' BY Zenon, <1>1, Types DEF vars, Bits, Counts, Memory, History
  <2>2. Hand' BY Zenon, <1>1, NothingSent DEF vars
  <2> QED BY Zenon, <2>1, <2>2, TypesNext
<1>2. ASSUME NEW p \in Ends, NEW kind \in {"single", "head", "tail", "credential"}, Write(p, kind) PROVE IInv'
  BY Zenon, <1>2, WriteKeeps
<1>3. ASSUME NEW p \in Ends, WriteFull(p) PROVE IInv' BY Zenon, <1>3, WriteFullKeeps
<1>4. ASSUME NEW p \in Ends, WriteAbort(p) PROVE IInv' BY Zenon, <1>4, WriteAbortKeeps
<1>5. ASSUME NEW p \in Ends, Flush(p) PROVE IInv' BY Zenon, <1>5, FlushKeeps
<1>6. ASSUME NEW p \in Ends, Read(p) PROVE IInv'
  BY Zenon, <1>6, SkipCredentialKeeps, ReadNothingKeeps, ReadPartKeeps, ReadDelimiterKeeps DEF Read
<1>7. ASSUME NEW p \in Ends, NEW d \in BOOLEAN, Terminate(p, d) PROVE IInv' BY Zenon, <1>7, TerminateKeeps
<1>8. ASSUME NEW p \in Ends, NEW d \in BOOLEAN, TerminateAgain(p, d) PROVE IInv'
  BY Zenon, <1>8, TerminateAgainKeeps
<1>9. ASSUME NEW p \in Ends, TerminateNow(p) PROVE IInv' BY Zenon, <1>9, TerminateNowKeeps
<1>10. ASSUME NEW p \in Ends, Hiccup(p) PROVE IInv' BY Zenon, <1>10, HiccupKeeps
<1>11. ASSUME NEW p \in Ends, NEW i \in NewHwms, NEW o \in NewHwms, SetHwms(p, i, o) PROVE IInv'
  BY Zenon, <1>11, SetHwmsKeeps
<1>12. ASSUME NEW p \in Ends, ProcessCommand(p) PROVE IInv'
  BY Zenon, <1>12, ActivateReadKeeps, ActivateWriteKeeps, ProcessHiccupKeeps, PipeTermKeeps,
     PipeTermAckKeeps, PipeHwmKeeps DEF ProcessCommand
<1> HIDE DEF IInv
<1>13. ASSUME NEW p \in Ends, Act(p) PROVE IInv'
  BY Zenon, <1>13, <1>2, <1>3, <1>4, <1>5, <1>7, <1>8, <1>9, <1>10, <1>11, <1>12 DEF Act
<1> QED BY Zenon, <1>1, <1>6, <1>13 DEF Next

\* HandshakeRight but for the types.
SafeHandshake == CommandsFitState /\ NoCommandForTheGone /\ NoFreedYpipe /\ NoYpipeLeaked

\* The inductive invariant says what the run checks.
LEMMA Enough == IInv => SafeHandshake
<1> SUFFICES ASSUME Typed, Hand PROVE SafeHandshake BY Zenon DEF IInv
<1>1. CommandsFitState
  <2> SUFFICES ASSUME NEW p \in Ends, ~Gone(p), cmds[p] # <<>>, NEW c, c = Head(cmds[p]).c
      PROVE  /\ c = "pipe_term" => st[p] \in {"active", "delimiter_received", "term_req_sent1"}
             /\ c = "pipe_term_ack" => st[p] \in {"term_req_sent1", "term_req_sent2", "term_ack_sent"}
             /\ c = "hiccup" => out[p] # NULL
    BY Zenon DEF CommandsFitState
  <2> DEFINE q == Peer(p)
  <2>a. q \in Ends /\ Peer(p) = q /\ Peer(q) = p BY Zenon, Two
  <2>b. Joint(p) /\ Joint(q) BY Zenon, <2>a DEF Hand
  <2>c. cmds[p] \in Seq(Command) BY Zenon DEF Typed
  <2>d. /\ \A d : Has(cmds[p], d) <=> Head(cmds[p]).c = d \/ Has(Tail(cmds[p]), d)
        /\ Pipes(cmds[p]) = Pipes(Tail(cmds[p])) \union
                              (IF Head(cmds[p]).c = "hiccup" THEN {Head(cmds[p]).pipe} ELSE {})
    BY Zenon, <2>c, Shorter
  <2>2. /\ q \in Ends /\ Peer(p) = q /\ Peer(q) = p /\ Has(cmds[p], c) /\ Joint(p) /\ Joint(q)
        /\ c = "hiccup" => Pipes(cmds[p]) # {}
    BY Zenon, <2>a, <2>b, <2>d
  <2> HIDE DEF q
  <2>3. c = "pipe_term" => st[p] \in {"active", "delimiter_received", "term_req_sent1"}
    BY Zenon, <2>2 DEF Joint, Unasked
  <2>4. c = "pipe_term_ack" => st[p] \in {"term_req_sent1", "term_req_sent2", "term_ack_sent"}
    BY Zenon, <2>2 DEF Joint, Acked, Gone
  <2>5. c = "hiccup" => out[p] # NULL
    BY Zenon, <2>2 DEF Joint, Acked, Unasked
  <2> QED BY Zenon, <2>3, <2>4, <2>5
<1>2. NoCommandForTheGone BY Zenon, Two DEF NoCommandForTheGone, Hand, Joint
<1>3. NoFreedYpipe
  <2> SUFFICES ASSUME NEW p \in Ends, ~Gone(p), NEW i \in 1..Len(cmds[p])
      PROVE  cmds[p][i].c = "hiccup" => cmds[p][i].pipe \notin freed /\ in[Peer(p)] # out[p]
    BY Zenon DEF NoFreedYpipe, Hand, Held
  <2> HAVE cmds[p][i].c = "hiccup"
  <2>1. cmds[p][i].pipe \in Pipes(cmds[p]) BY Zenon, Brought
  <2>2. cmds[p][i].pipe \notin freed BY Zenon, <2>1 DEF Hand, Held
  <2>3. Peer(p) \in Ends /\ Peer(Peer(p)) = p BY Zenon, Two
  <2>4. in[Peer(p)] \in Pipes(cmds[p]) BY Zenon, <2>1, <2>3 DEF Hand, Chain
  <2>5. out[p] < in[Peer(p)] BY Zenon, <2>3, <2>4 DEF Hand, Chain
  <2>6. out[p] \in Nat BY Zenon, Indices
  <2> QED BY <2>2, <2>5, <2>6
<1>4. NoYpipeLeaked
  <2> SUFFICES ASSUME \A p \in Ends : Gone(p) PROVE freed = 1..Len(yp) BY Zenon DEF NoYpipeLeaked
  <2>1. \A p \in Ends : out[p] = NULL /\ cmds[p] = <<>> BY Zenon, Two DEF Hand, Joint, Acked, Gone
  <2>2. \A p \in Ends : Pipes(cmds[p]) = {} BY Zenon, <2>1, Short
  <2>3. \A y \in 1..Len(yp) : y # NULL BY DEF NULL
  <2>4. \A y \in 1..Len(yp) : y \in freed BY Zenon, <2>1, <2>2, <2>3 DEF Hand, Kept, HeldBy
  <2>5. freed \subseteq 1..Len(yp) BY Zenon DEF Typed
  <2> QED BY Zenon, <2>4, <2>5
<1> QED BY Zenon, <1>1, <1>2, <1>3, <1>4 DEF SafeHandshake

THEOREM Invariance ==
    ASSUME Bounds
    PROVE  Spec => []IInv
<1>1. Init => IInv BY Zenon, Begins
<1>2. IInv /\ [Next]_vars => IInv' BY Zenon, Continues
<1> QED BY <1>1, <1>2, PTL DEF Spec

\* The handshake by which the two ends of a pipe go (terminate(),
\* process_pipe_term(), process_pipe_term_ack(), process_delimiter()) and the
\* replacement of a ypipe (hiccup(), process_hiccup()): whatever the ends call
\* and in whatever order, every command finds its pipe in a state written for
\* it, none comes to a deleted pipe, and every ypipe is deleted exactly once,
\* after its last user is done with it.
THEOREM Handshake ==
    ASSUME Bounds
    PROVE  Spec => []SafeHandshake
BY Invariance, Enough, PTL
=============================================================================
