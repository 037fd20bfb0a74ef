------------------------- MODULE PipeDeliveryProofs -------------------------
(***************************************************************************)
(* Proof that a pipe delivers what was written to it (DeliveryRight): the  *)
(* messages in order, whole as long as no ypipe is replaced, and all of    *)
(* them before an end that delays its termination acknowledges it.  DInv   *)
(* takes what was read, what can be read and what was not flushed as one   *)
(* sequence; PInv follows the delimiter behind everything written.  At the *)
(* end are the theorems on the counts (FlowRight) and the rest of the one  *)
(* on the handshake (HandshakeRight): the type of a count that a hiccup    *)
(* corrects downwards.                                                     *)
(***************************************************************************)
EXTENDS PipeFlowProofs

-----------------------------------------------------------------------------
(* Order: the inductive invariant DInv *)

\* What p has read and can read, and what its peer has not flushed yet.
Carried(p) ==
    LET q == Peer(p)
        y == yp[in[p]] IN
    /\ Delivered(got[p], y.q, y.u, started[q], mid[q], Never("hiccup"), Gone(p), st[q] = "active")
    /\ Never("hiccup") /\ st[q] = "active" => out[q] = in[p]

\* Both ends.
DInv == \A p \in Ends : Carried(p)

\* The types of what it speaks of.
LEMMA CarriedTypes ==
    ASSUME Typed, NEW p \in Ends
    PROVE  /\ got[p] \in Seq(Part) /\ yp[in[p]].q \in Seq(Part) /\ yp[in[p]].u \in Seq(Part)
           /\ yp[in[p]] \in Ypipe
           /\ started[p] \in Nat /\ mid[p] \in BOOLEAN
           /\ Never("hiccup") \in BOOLEAN /\ Never("hiccup")' \in BOOLEAN
           /\ Gone(p) \in BOOLEAN /\ Gone(p)' \in BOOLEAN
           /\ (st[p] = "active") \in BOOLEAN /\ (st'[p] = "active") \in BOOLEAN
<1>1. yp \in Seq(Ypipe) /\ in[p] \in 1..Len(yp) BY Zenon, Types DEF Memory
<1>2. yp[in[p]] \in Ypipe BY Zenon, <1>1, ElementOfSeq
<1>3. got[p] \in Seq(Part) /\ started[p] \in Nat /\ mid[p] \in BOOLEAN BY Zenon DEF Typed
<1>4. Never("hiccup") \in BOOLEAN /\ Never("hiccup")' \in BOOLEAN BY Zenon DEF Never
<1>5. Gone(p) \in BOOLEAN /\ Gone(p)' \in BOOLEAN BY Zenon DEF Gone
<1>6. (st[p] = "active") \in BOOLEAN /\ (st'[p] = "active") \in BOOLEAN BY Zenon
<1> QED BY Zenon, <1>2, <1>3, <1>4, <1>5, <1>6 DEF Ypipe

\* Who else is concerned when one ypipe changes.
LEMMA OtherYpipe ==
    ASSUME Typed, NEW x \in Ends, NEW i, NEW e, yp' = [yp EXCEPT ![i] = e]
    PROVE  /\ i # in[x] => yp'[in[x]] = yp[in[x]]
           /\ i = in[x] => yp'[in[x]] = e
<1>1. in[x] \in 1..Len(yp) /\ DOMAIN yp = 1..Len(yp) BY Zenon, LenProperties DEF Typed
<1> QED BY Zenon, <1>1

\* A step that a reader does not notice.
LEMMA Elsewhere ==
    ASSUME Typed, NEW x \in Ends, Carried(x),
           got'[x] = got[x], in'[x] = in[x],
           yp'[in[x]].q = yp[in[x]].q, yp'[in[x]].u = yp[in[x]].u,
           started'[Peer(x)] = started[Peer(x)], mid'[Peer(x)] = mid[Peer(x)],
           Never("hiccup")' => Never("hiccup"), Gone(x) => Gone(x)',
           st'[Peer(x)] = "active" => st[Peer(x)] = "active",
           Never("hiccup")' /\ st'[Peer(x)] = "active" => out'[Peer(x)] = out[Peer(x)]
    PROVE  Carried(x)'
<1> DEFINE z == Peer(x)
           w == Never("hiccup")
           v == Never("hiccup")'
           gone == Gone(x)
           left == Gone(x)'
           act == st[z] = "active"
           on == st'[z] = "active"
           y == yp[in[x]]
<1>1. z \in Ends BY Zenon, Two
<1>2. /\ w \in BOOLEAN /\ v \in BOOLEAN /\ gone \in BOOLEAN /\ left \in BOOLEAN
      /\ act \in BOOLEAN /\ on \in BOOLEAN
  BY Zenon, <1>1, CarriedTypes
<1>3. Delivered(got[x], y.q, y.u, started[z], mid[z], w, gone, act) BY Zenon DEF Carried
<1>4. (v => w) /\ (gone => left) /\ (on => act) BY Zenon
<1> HIDE DEF w, v, gone, left, act, on
<1>5. Delivered(got[x], y.q, y.u, started[z], mid[z], v, left, on)
  BY Zenon, <1>3, <1>4 DEF Delivered
<1>6. Delivered(got'[x], yp'[in'[x]].q, yp'[in'[x]].u, started'[z], mid'[z], v, left, on) BY Zenon, <1>5
<1> USE DEF w, v, gone, left, act, on
<1>7. v /\ on => out'[z] = in'[x] BY Zenon DEF Carried
<1> QED BY Zenon, <1>6, <1>7 DEF Carried

\* Nobody notices.
LEMMA Unnoticed ==
    ASSUME Typed, DInv, UNCHANGED <<got, in, started, mid>>,
           \A x \in Ends : yp'[in[x]].q = yp[in[x]].q /\ yp'[in[x]].u = yp[in[x]].u,
           Never("hiccup")' => Never("hiccup"), \A x \in Ends : Gone(x) => Gone(x)',
           \A x \in Ends : st'[x] = "active" => st[x] = "active",
           \A x \in Ends : Never("hiccup")' /\ st'[x] = "active" => out'[x] = out[x]
    PROVE  DInv'
<1> SUFFICES ASSUME NEW x \in Ends PROVE Carried(x)' BY Zenon DEF DInv
<1>1. Peer(x) \in Ends BY Zenon, Two
<1>2. Carried(x) BY Zenon DEF DInv
<1> QED BY Zenon, <1>1, <1>2, Elsewhere

\* An end changes the ypipe it writes to.
LEMMA WriterSide ==
    ASSUME Typed, Hand, DInv, UNCHANGED <<got, in>>, Never("hiccup")' => Never("hiccup"),
           NEW p \in Ends, Gone(p) => Gone(p)', NEW e, yp' = [yp EXCEPT ![out[p]] = e],
           NEW q, q = Peer(p), st'[q] = st[q], out'[q] = out[q],
           started'[q] = started[q], mid'[q] = mid[q],
           st'[p] = "active" => st[p] = "active" /\ out'[p] = out[p],
           out[p] = in[q] =>
              Delivered(got[q], e.q, e.u, started'[p], mid'[p], Never("hiccup"), Gone(q), st'[p] = "active"),
           out[p] # in[q] =>
              Delivered(got[q], yp[in[q]].q, yp[in[q]].u, started'[p], mid'[p], Never("hiccup"), Gone(q),
                        st'[p] = "active")
    PROVE  DInv'
<1>1. q \in Ends /\ Peer(q) = p /\ \A x \in Ends : x = p \/ x = q BY Zenon, Two
<1>2. Apart(p) /\ Carried(p) /\ Carried(q) BY Zenon, <1>1 DEF Hand, DInv
<1>3. Carried(p)'
  <2>1. out[p] # in[p] BY Zenon, <1>2 DEF Apart
  <2>2. yp'[in[p]] = yp[in[p]] BY Zenon, <2>1, OtherYpipe
  <2> QED BY Zenon, <1>1, <1>2, <2>2, Elsewhere
<1>4. Carried(q)'
  <2> DEFINE w == Never("hiccup")
             v == Never("hiccup")'
             gone == Gone(q)
             on == st'[p] = "active"
             y == yp'[in[q]]
  <2>1. w \in BOOLEAN /\ v \in BOOLEAN /\ gone \in BOOLEAN /\ on \in BOOLEAN BY Zenon, <1>1, CarriedTypes
  <2>2. Delivered(got[q], y.q, y.u, started'[p], mid'[p], w, gone, on)
    <3>1. CASE out[p] = in[q]
      <4>0. in[q] \in 1..Len(yp) /\ DOMAIN yp = 1..Len(yp) BY Zenon, <1>1, LenProperties DEF Typed
      <4>1. y = e BY Zenon, <3>1, <4>0
      <4> QED BY Zenon, <3>1, <4>1
    <3>2. CASE out[p] # in[q]
      <4>1. y = yp[in[q]] BY Zenon, <1>1, <3>2, OtherYpipe
      <4> QED BY Zenon, <3>2, <4>1
    <3> QED BY Zenon, <3>1, <3>2
  <2>3. v => w BY Zenon
  <2>4. Gone(q)' <=> gone BY Zenon DEF Gone
  <2>5. v /\ on => out'[p] = in'[q] BY Zenon, <1>1, <1>2 DEF Carried
  <2> HIDE DEF w, v, gone, on, y
  <2>6. Delivered(got[q], y.q, y.u, started'[p], mid'[p], v, gone, on)
    BY Zenon, <2>2, <2>3 DEF Delivered
  <2>7. Delivered(got'[q], yp'[in'[q]].q, yp'[in'[q]].u, started'[p], mid'[p], v, gone, on) BY Zenon, <2>6 DEF y
  <2>8. (gone \in BOOLEAN /\ Gone(q)' \in BOOLEAN) BY Zenon, <2>1, <1>1, CarriedTypes
  <2>9. Delivered(got'[q], yp'[in'[q]].q, yp'[in'[q]].u, started'[p], mid'[p], v, Gone(q)', on)
    BY Zenon, <2>1, <2>4, <2>7, <2>8, DeliveredWeaker
  <2> QED BY Zenon, <1>1, <2>5, <2>9 DEF Carried, v, on
<1> QED BY Zenon, <1>1, <1>3, <1>4 DEF DInv

\* An end changes the ypipe it reads from.
LEMMA ReaderSide ==
    ASSUME Typed, Hand, DInv, UNCHANGED <<in, started, mid, calls>>,
           NEW p \in Ends, NEW e, yp' = [yp EXCEPT ![in[p]] = e],
           NEW q, q = Peer(p), got'[q] = got[q], st'[q] = st[q], out'[q] = out[q],
           st'[p] = "active" => st[p] = "active" /\ out'[p] = out[p],
           Delivered(got'[p], e.q, e.u, started[q], mid[q], Never("hiccup"), Gone(p)', st[q] = "active")
    PROVE  DInv'
<1>1. q \in Ends /\ Peer(q) = p /\ \A x \in Ends : x = p \/ x = q BY Zenon, Two
<1>2. Apart(p) /\ Carried(p) /\ Carried(q) BY Zenon, <1>1 DEF Hand, DInv
<1>3. Never("hiccup")' <=> Never("hiccup") BY Zenon DEF Never
<1>4. Carried(q)'
  <2>1. in[p] # in[q] BY Zenon, <1>2 DEF Apart
  <2>2. yp'[in[q]] = yp[in[q]] BY Zenon, <1>1, <2>1, OtherYpipe
  <2>3. Gone(q) => Gone(q)' BY Zenon DEF Gone
  <2> QED BY Zenon, <1>1, <1>2, <1>3, <2>2, <2>3, Elsewhere
<1>5. Carried(p)'
  <2>1. in[p] \in 1..Len(yp) /\ DOMAIN yp = 1..Len(yp) BY Zenon, LenProperties DEF Typed
  <2>2. yp'[in[p]] = e BY Zenon, <2>1
  <2>3. Never("hiccup")' /\ st'[q] = "active" => out'[q] = in'[p] BY Zenon, <1>2, <1>3 DEF Carried
  <2> DEFINE w == Never("hiccup")
             v == Never("hiccup")'
  <2>4. v => w BY Zenon, <1>3
  <2>5. Delivered(got'[p], e.q, e.u, started[q], mid[q], w, Gone(p)', st[q] = "active") BY Zenon
  <2> HIDE DEF v, w
  <2>6. Delivered(got'[p], e.q, e.u, started[q], mid[q], v, Gone(p)', st[q] = "active")
    BY Zenon, <2>4, <2>5 DEF Delivered
  <2> QED BY Zenon, <2>2, <2>3, <2>6 DEF Carried, v
<1> QED BY Zenon, <1>1, <1>4, <1>5 DEF DInv

\* A call of another kind is no hiccup() call.
LEMMA NoHiccupBefore ==
    ASSUME Typed
    PROVE  /\ UNCHANGED calls => (Never("hiccup")' => Never("hiccup"))
           /\ \A p \in Ends, w \in {"term", "hwm"} : Called(p, w) => (Never("hiccup")' => Never("hiccup"))
           /\ \A p \in Ends : Called(p, "hiccup") => ~Never("hiccup")'
<1>1. calls \in [Ends -> [term : Nat, hiccup : Nat, hwm : Nat]] BY Zenon DEF Typed
<1>2. UNCHANGED calls => (Never("hiccup")' => Never("hiccup")) BY Zenon DEF Never
<1>3. ASSUME NEW p \in Ends, NEW w \in {"term", "hwm"}, Called(p, w), Never("hiccup")'
      PROVE  Never("hiccup")
  <2>1. \A x \in Ends : calls'[x].hiccup = calls[x].hiccup BY Zenon, <1>1, <1>3 DEF Called
  <2> QED BY Zenon, <1>3, <2>1 DEF Never
<1>4. ASSUME NEW p \in Ends, Called(p, "hiccup") PROVE ~Never("hiccup")'
  <2>1. calls'[p].hiccup = calls[p].hiccup + 1 /\ calls[p].hiccup \in Nat BY Zenon, <1>1, <1>4 DEF Called
  <2>2. calls'[p].hiccup # 0 BY <2>1
  <2> QED BY Zenon, <2>2 DEF Never
<1> QED BY Zenon, <1>2, <1>3, <1>4

\* What can become of the parts on their way to an end: at its own side ...
LEMMA ReaderMoves ==
    ASSUME Typed, DInv, NEW p \in Ends
    PROVE  LET q == Peer(p)
               y == yp[in[p]]
               D(g, h, u, w, gone, act) == Delivered(g, h, u, started[q], mid[q], w, gone, act)
           IN  /\ y.q # <<>> /\ Head(y.q) # Delimiter =>
                     D(Append(got[p], Head(y.q)), Tail(y.q), y.u, Never("hiccup"), Gone(p), st[q] = "active")
               /\ y.q # <<>> /\ Alone(Head(y.q)) =>
                     D(got[p], Tail(y.q), y.u, Never("hiccup"), Gone(p), st[q] = "active")
               /\ \A a \in BOOLEAN : D(got[p], <<>>, <<>>, FALSE, Gone(p), a)
               /\ D(got[p], <<>>, <<>>, Never("hiccup"), TRUE, FALSE)
<1> DEFINE z == Peer(p)
           g == got[p]
           h == yp[in[p]].q
           u == yp[in[p]].u
           n == started[z]
           m == mid[z]
           w == Never("hiccup")
           gone == Gone(p)
           act == st[z] = "active"
<1>0. z \in Ends BY Zenon, Two
<1>1. /\ g \in Seq(Part) /\ h \in Seq(Part) /\ u \in Seq(Part) /\ n \in Nat /\ m \in BOOLEAN
      /\ w \in BOOLEAN /\ gone \in BOOLEAN /\ act \in BOOLEAN
  BY Zenon, <1>0, CarriedTypes
<1>2. Delivered(g, h, u, n, m, w, gone, act) BY Zenon DEF DInv, Carried
<1> HIDE DEF g, h, u, n, m, w, gone, act
<1>3. h # <<>> /\ Head(h) # Delimiter => Delivered(Append(g, Head(h)), Tail(h), u, n, m, w, gone, act)
  BY Zenon, <1>1, <1>2, DeliveredRead
<1>4. h # <<>> /\ Alone(Head(h)) => Delivered(g, Tail(h), u, n, m, w, gone, act)
  BY Zenon, <1>1, <1>2, DeliveredSkip
<1>5. /\ \A a \in BOOLEAN : Delivered(g, <<>>, <<>>, n, m, FALSE, gone, a)
      /\ Delivered(g, <<>>, <<>>, n, m, w, TRUE, FALSE)
  BY Zenon, <1>1, <1>2, DeliveredNew
<1> QED BY Zenon, <1>3, <1>4, <1>5 DEF g, h, u, n, m, w, gone, act

\* ... and at the side of its peer.
LEMMA WriterMoves ==
    ASSUME Typed, DInv, NEW x \in Ends
    PROVE  LET p == Peer(x)
               y == yp[in[x]]
               t == Append(Complete(y.u), Delimiter)
               D(h, u, n, m, gone, act) == Delivered(got[x], h, u, n, m, Never("hiccup"), gone, act)
           IN  /\ st[p] = "active" /\ ~Gone(x) => \A k \in Part : NextPart(k, started[p], mid[p]) =>
                     D(y.q, Append(y.u, k), k.n, k.kind = "head", FALSE, TRUE)
               /\ D(y.q \o Complete(y.u), Unfinished(y.u), started[p], mid[p], Gone(x), st[p] = "active")
               /\ D(y.q, Complete(y.u), started[p], FALSE, Gone(x), st[p] = "active")
               /\ D(y.q, Complete(y.u), started[p], mid[p], Gone(x), FALSE)
               /\ ~Gone(x) => D(y.q \o Complete(t), Unfinished(t), started[p], mid[p], FALSE, FALSE)
               /\ ~Never("hiccup") \/ st[p] # "active" =>
                     /\ D(y.q, y.u, started[p], FALSE, Gone(x), st[p] = "active")
                     /\ \A k \in Part : NextPart(k, started[p], mid[p]) =>
                           D(y.q, y.u, k.n, k.kind = "head", Gone(x), st[p] = "active")
<1> DEFINE z == Peer(x)
           g == got[x]
           h == yp[in[x]].q
           u == yp[in[x]].u
           n == started[z]
           m == mid[z]
           w == Never("hiccup")
           gone == Gone(x)
           act == st[z] = "active"
           c == Complete(u)
           t == Append(c, Delimiter)
<1>0. z \in Ends BY Zenon, Two
<1>1. /\ g \in Seq(Part) /\ h \in Seq(Part) /\ u \in Seq(Part) /\ n \in Nat /\ m \in BOOLEAN
      /\ w \in BOOLEAN /\ gone \in BOOLEAN /\ act \in BOOLEAN
  BY Zenon, <1>0, CarriedTypes
<1>2. Delivered(g, h, u, n, m, w, gone, act) BY Zenon DEF DInv, Carried
<1> HIDE DEF g, h, u, n, m, w, gone, act
<1>3. ASSUME act, ~gone, NEW k \in Part, NextPart(k, n, m)
      PROVE  Delivered(g, h, Append(u, k), k.n, k.kind = "head", w, FALSE, TRUE)
  <2>1. Delivered(g, h, u, n, m, w, FALSE, TRUE) BY Zenon, <1>2, <1>3 DEF Delivered
  <2> QED BY Zenon, <1>1, <1>3, <2>1, DeliveredWrite
<1>4. Delivered(g, h \o c, Unfinished(u), n, m, w, gone, act) BY Zenon, <1>1, <1>2, DeliveredFlush
<1>5. Delivered(g, h, c, n, FALSE, w, gone, act) /\ Delivered(g, h, c, n, m, w, gone, FALSE)
  BY Zenon, <1>1, <1>2, DeliveredRollback
<1>6. ASSUME ~gone PROVE Delivered(g, h \o Complete(t), Unfinished(t), n, m, w, FALSE, FALSE)
  <2>1. Delivered(g, h, c, n, m, w, FALSE, FALSE) BY Zenon, <1>5, <1>6 DEF Delivered
  <2>2. c \in Seq(Part) BY Zenon, <1>1, Cut
  <2>3. w => Paired(g \o (h \o u)) BY Zenon, <1>2 DEF Delivered
  <2>4. ~EndsMid(c) \/ ~w BY Zenon, <1>1, <2>3, CompleteEnds
  <2> HIDE DEF c
  <2>5. Delivered(g, h, t, n, m, w, FALSE, FALSE) BY Zenon, <1>1, <2>1, <2>2, <2>4, DeliveredDelimiter
  <2>6. t \in Seq(Part) BY Zenon, <2>2, FirstYpipe, AppendProperties
  <2> HIDE DEF t
  <2>7. FALSE \in BOOLEAN BY Zenon
  <2> QED BY Zenon, <1>1, <2>5, <2>6, <2>7, DeliveredFlush
<1>7. ASSUME ~w \/ ~act
      PROVE  /\ Delivered(g, h, u, n, FALSE, w, gone, act)
             /\ \A k \in Part : NextPart(k, n, m) => Delivered(g, h, u, k.n, k.kind = "head", w, gone, act)
  BY Zenon, <1>1, <1>2, <1>7, DeliveredOther
<1> QED BY Zenon, <1>3, <1>4, <1>5, <1>6, <1>7 DEF g, h, u, n, m, w, gone, act, c, t

\* The steps that move no part.
LEMMA QuietCarries ==
    ASSUME Typed, Hand, DInv, NEW p \in Ends,
           \/ WriteFull(p) \/ (\E d \in BOOLEAN : TerminateAgain(p, d))
           \/ (\E i, o \in NewHwms : SetHwms(p, i, o))
           \/ process_activate_read(p) \/ process_activate_write(p) \/ process_pipe_hwm(p)
           \/ UNCHANGED vars
    PROVE  DInv'
<1>1. UNCHANGED <<st, in, out, yp, mid, started, got>>
  BY Zenon DEF WriteFull, TerminateAgain, SetHwms, process_activate_read, process_activate_write, process_pipe_hwm,
               memVars, userVars, vars
<1>2. UNCHANGED calls \/ Called(p, "term") \/ Called(p, "hwm")
  BY Zenon DEF WriteFull, TerminateAgain, SetHwms, process_activate_read, process_activate_write, process_pipe_hwm,
               userVars, vars
<1>3. Never("hiccup")' => Never("hiccup") BY Zenon, <1>2, NoHiccupBefore
<1>4. \A x \in Ends : Gone(x) => Gone(x)' BY Zenon, <1>1 DEF Gone
<1> QED BY Zenon, <1>1, <1>3, <1>4, Unnoticed

\* read() of an empty ypipe.
LEMMA ReadNothingCarries ==
    ASSUME Typed, Hand, DInv, NEW p \in Ends, ReadNothing(p)
    PROVE  DInv'
<1> DEFINE y == yp[in[p]]
           e == [y EXCEPT !.asleep = TRUE]
           q == Peer(p)
<1>1. UNCHANGED <<st, in, out, mid, started, got, calls>> /\ yp' = [yp EXCEPT ![in[p]] = e]
  BY Zenon DEF ReadNothing, userVars
<1>2. e.q = y.q /\ e.u = y.u BY Zenon, There DEF Ypipe
<1>3. Carried(p) BY Zenon DEF DInv
<1>4. Delivered(got'[p], e.q, e.u, started[q], mid[q], Never("hiccup"), Gone(p)', st[q] = "active")
  BY Zenon, <1>1, <1>2, <1>3 DEF Carried, Gone
<1> HIDE DEF e
<1> QED BY Zenon, <1>1, <1>4, ReaderSide

\* read() of a part.
LEMMA ReadPartCarries ==
    ASSUME Typed, Hand, DInv, NEW p \in Ends, ReadPart(p)
    PROVE  DInv'
<1> DEFINE y == yp[in[p]]
           e == [y EXCEPT !.q = Tail(@)]
           q == Peer(p)
           w == Never("hiccup")
           gone == Gone(p)
           act == st[q] = "active"
           g == got[p]
<1>0. q \in Ends /\ q # p BY Zenon, Two
<1>1. /\ UNCHANGED <<st, in, out, mid, started, calls>> /\ yp' = [yp EXCEPT ![in[p]] = e]
      /\ got' = [got EXCEPT ![p] = Append(@, Head(y.q))] /\ y.q # <<>> /\ Head(y.q) # Delimiter
  BY Zenon DEF ReadPart, ctrlVars, Inbound
<1>2. e.q = Tail(y.q) /\ e.u = y.u BY Zenon, There DEF Ypipe
<1>3. got'[p] = Append(g, Head(y.q)) /\ got'[q] = got[q] BY Zenon, <1>0, <1>1 DEF Typed
<1>6. Gone(p)' <=> gone BY Zenon, <1>1 DEF Gone
<1>7. Delivered(Append(g, Head(y.q)), Tail(y.q), y.u, started[q], mid[q], w, gone, act)
  BY Zenon, <1>1, ReaderMoves
<1>8. Delivered(got'[p], e.q, e.u, started[q], mid[q], w, Gone(p)', act)
  BY Zenon, <1>2, <1>3, <1>6, <1>7 DEF Delivered
<1> HIDE DEF e
<1> QED BY Zenon, <1>1, <1>3, <1>8, ReaderSide

\* read() of the delimiter.
LEMMA ReadDelimiterCarries ==
    ASSUME Typed, Hand, DInv, NEW p \in Ends, ReadDelimiter(p)
    PROVE  DInv'
<1> DEFINE y == yp[in[p]]
           e == [y EXCEPT !.q = Tail(@)]
           q == Peer(p)
           w == Never("hiccup")
           gone == Gone(p)
           act == st[q] = "active"
           g == got[p]
<1>0. q \in Ends /\ q # p BY Zenon, Two
<1>1. /\ UNCHANGED <<in, mid, started, calls, got>> /\ yp' = [yp EXCEPT ![in[p]] = e]
      /\ y.q # <<>> /\ Head(y.q) = Delimiter /\ st[p] # "gone"
  BY Zenon DEF ReadDelimiter, userVars, Inbound
<1>2. e.q = Tail(y.q) /\ e.u = y.u BY Zenon, There DEF Ypipe
<1>3. st'[q] = st[q] /\ out'[q] = out[q] /\ st'[p] # "active"
  BY Zenon, <1>0 DEF ReadDelimiter, DropOut, Typed
<1>6. gone => Gone(p)' BY Zenon, <1>1 DEF Gone
<1>7. Delivered(g, Tail(y.q), y.u, started[q], mid[q], w, gone, act)
  <2>1. Alone(Delimiter) BY DEF Alone, Delimiter
  <2>2. Alone(Head(y.q)) BY Zenon, <1>1, <2>1
  <2> QED BY Zenon, <1>1, <2>2, ReaderMoves
<1>8. Delivered(got'[p], e.q, e.u, started[q], mid[q], w, Gone(p)', act)
  <2>1. Delivered(g, e.q, e.u, started[q], mid[q], w, gone, act) BY Zenon, <1>2, <1>7
  <2> HIDE DEF e, w, gone, act
  <2> QED BY Zenon, <1>1, <1>6, <2>1 DEF Delivered
<1> HIDE DEF e
<1> QED BY Zenon, <1>1, <1>3, <1>8, ReaderSide

\* A credential is dropped.
LEMMA SkipCredentialCarries ==
    ASSUME Typed, Hand, DInv, NEW p \in Ends, SkipCredential(p)
    PROVE  DInv'
<1> DEFINE y == yp[in[p]]
           e == [y EXCEPT !.q = Tail(@)]
           q == Peer(p)
           w == Never("hiccup")
           act == st[q] = "active"
<1>1. /\ UNCHANGED <<st, in, out, mid, started, calls, got>> /\ yp' = [yp EXCEPT ![in[p]] = e]
      /\ y.q # <<>> /\ Head(y.q).kind = "credential"
  BY Zenon DEF SkipCredential, ctrlVars, userVars, Inbound
<1>2. e.q = Tail(y.q) /\ e.u = y.u BY Zenon, There DEF Ypipe
<1>3. Gone(p)' <=> Gone(p) BY Zenon, <1>1 DEF Gone
<1>4. Delivered(got[p], Tail(y.q), y.u, started[q], mid[q], w, Gone(p), act)
  <2>1. Alone(Head(y.q)) BY Zenon, <1>1 DEF Alone
  <2> QED BY Zenon, <1>1, <2>1, ReaderMoves
<1>5. Delivered(got'[p], e.q, e.u, started[q], mid[q], w, Gone(p)', act)
  BY Zenon, <1>1, <1>2, <1>3, <1>4 DEF Delivered
<1> HIDE DEF e
<1> QED BY Zenon, <1>1, <1>5, ReaderSide

\* The end goes, and its ypipe with what is in it.
LEMMA TermAckCarries ==
    ASSUME Typed, Hand, DInv, NEW p \in Ends, process_pipe_term_ack(p)
    PROVE  DInv'
<1> DEFINE y == yp[in[p]]
           e == NewYpipe
           q == Peer(p)
           w == Never("hiccup")
           gone == Gone(p)
           act == st[q] = "active"
           g == got[p]
<1>0. q \in Ends /\ q # p /\ Peer(q) = p BY Zenon, Two
<1>1. /\ UNCHANGED <<in, mid, started, calls, got>> /\ yp' = [yp EXCEPT ![in[p]] = e]
      /\ st'[p] = "gone" /\ st'[q] = st[q] /\ out'[q] = out[q]
  BY Zenon, <1>0 DEF process_pipe_term_ack, userVars, Typed
<1>2. e.q = <<>> /\ e.u = <<>> BY Zenon DEF NewYpipe
<1>3. ~act
  <2>1. ~Gone(p) /\ Has(cmds[p], "pipe_term_ack") BY ZenonT(30), Taken DEF process_pipe_term_ack
  <2>2. Acked(q) BY Zenon, <1>0, <2>1 DEF Hand, Joint
  <2> QED BY Zenon, <2>2 DEF Acked
<1>6. Delivered(g, <<>>, <<>>, started[q], mid[q], w, TRUE, FALSE)
  BY Zenon, ReaderMoves
<1>7. Gone(p)' BY Zenon, <1>1 DEF Gone
<1>8. Delivered(got'[p], e.q, e.u, started[q], mid[q], w, Gone(p)', act)
  <2>1. Delivered(g, e.q, e.u, started[q], mid[q], w, TRUE, FALSE) BY Zenon, <1>2, <1>6
  <2> HIDE DEF e, w, act
  <2> QED BY Zenon, <1>1, <1>3, <1>7, <2>1 DEF Delivered
<1> HIDE DEF e
<1> QED BY Zenon, <1>1, <1>8, ReaderSide

\* rollback() of a pipe that has lost its outbound ypipe does nothing.
LEMMA RolledBackOrNot ==
    ASSUME Typed, NEW p \in Ends, WriteAbort(p)
    PROVE  yp' = [yp EXCEPT ![out[p]] = RolledBack(yp[out[p]])]
<1> DEFINE e == RolledBack(yp[out[p]])
<1>1. CASE out[p] # NULL BY Zenon, <1>1 DEF WriteAbort
<1>2. CASE out[p] = NULL
  <2>1. yp' = yp BY Zenon, <1>2 DEF WriteAbort
  <2>2. DOMAIN yp = 1..Len(yp) /\ yp \in [1..Len(yp) -> Ypipe] BY Zenon, Types, LenProperties DEF Memory
  <2>3. out[p] \notin 1..Len(yp) BY <1>2 DEF NULL
  <2> HIDE DEF e
  <2>4. [yp EXCEPT ![out[p]] = e] = yp BY Zenon, <2>2, <2>3
  <2> QED BY Zenon, <2>1, <2>4 DEF e
<1> QED BY Zenon, <1>1, <1>2

\* write()
LEMMA WriteCarries ==
    ASSUME Typed, Hand, DInv, NEW p \in Ends, NEW kind \in {"single", "head", "tail", "credential"}, Write(p, kind)
    PROVE  DInv'
<1> DEFINE k == [n |-> started'[p], kind |-> kind]
           y == yp[out[p]]
           e == Written(y, k)
           x == Peer(p)
           w == Never("hiccup")
<1>0. x \in Ends /\ x # p /\ Peer(x) = p BY Zenon, Two
<1>1. /\ UNCHANGED <<st, in, out, got, calls>> /\ yp' = [yp EXCEPT ![out[p]] = e] /\ st[p] = "active"
      /\ started'[x] = started[x] /\ mid'[x] = mid[x] /\ mid'[p] = (kind = "head")
  BY Zenon, <1>0 DEF Write, CheckWrite, ctrlVars, Typed
<1>2. started'[p] = (IF mid[p] THEN started[p] ELSE started[p] + 1) /\ started[p] \in Nat BY Zenon DEF Write, Typed
<1>3. k \in Part /\ k.n = started'[p] /\ k.kind = kind
  <2> started'[p] \in Nat BY <1>2
  <2> QED BY Zenon DEF Part
<1>4. NextPart(k, started[p], mid[p]) BY Zenon, <1>2, <1>3 DEF NextPart, Write
<1> HIDE DEF k
<1>5. ~Gone(x) BY Zenon, <1>0, <1>1 DEF Hand, Joint, Acked
<1>6. y \in Ypipe BY Zenon, <1>1, There DEF Acked
<1>7. e.q = y.q /\ e.u = Append(y.u, k) BY Zenon, <1>6 DEF Written, Ypipe
<1>8. out[p] = in[x] => Delivered(got[x], e.q, e.u, started'[p], mid'[p], w, Gone(x), st'[p] = "active")
  <2> HAVE out[p] = in[x]
  <2>1. Delivered(got[x], y.q, Append(y.u, k), k.n, k.kind = "head", w, FALSE, TRUE)
    BY Zenon, <1>0, <1>1, <1>3, <1>4, <1>5, WriterMoves
  <2> HIDE DEF w, e
  <2>2. Delivered(got[x], e.q, e.u, started'[p], kind = "head", w, FALSE, TRUE) BY Zenon, <1>3, <1>7, <2>1
  <2> QED BY Zenon, <1>1, <1>5, <2>2 DEF Delivered
<1>9. out[p] # in[x] =>
         Delivered(got[x], yp[in[x]].q, yp[in[x]].u, started'[p], mid'[p], w, Gone(x), st'[p] = "active")
  <2> HAVE out[p] # in[x]
  <2>0. ~w BY Zenon, <1>0, <1>1 DEF DInv, Carried
  <2>1. Delivered(got[x], yp[in[x]].q, yp[in[x]].u, k.n, k.kind = "head", w, Gone(x), st[p] = "active")
    BY Zenon, <1>0, <1>3, <1>4, <2>0, WriterMoves
  <2> QED BY Zenon, <1>1, <1>3, <2>1
<1> HIDE DEF e
<1>10. Never("hiccup")' => Never("hiccup") BY Zenon, <1>1, NoHiccupBefore
<1>11. Gone(p) => Gone(p)' BY Zenon, <1>1 DEF Gone
<1> QED BY Zenon, <1>1, <1>8, <1>9, <1>10, <1>11, WriterSide

\* rollback()
LEMMA WriteAbortCarries ==
    ASSUME Typed, Hand, DInv, NEW p \in Ends, WriteAbort(p)
    PROVE  DInv'
<1> DEFINE y == yp[out[p]]
           e == RolledBack(y)
           x == Peer(p)
           w == Never("hiccup")
<1>0. x \in Ends /\ x # p /\ Peer(x) = p BY Zenon, Two
<1>1. /\ UNCHANGED <<st, in, out, got, calls, started>>
      /\ mid'[x] = mid[x] /\ mid'[p] = FALSE
  BY Zenon, <1>0 DEF WriteAbort, Typed
<1>2. yp' = [yp EXCEPT ![out[p]] = e] BY Zenon, RolledBackOrNot
<1>3. ~Acked(p) => e.q = y.q /\ e.u = Complete(y.u) BY Zenon, There DEF RolledBack, Ypipe
<1>4. out[p] = in[x] => Delivered(got[x], e.q, e.u, started'[p], mid'[p], w, Gone(x), st'[p] = "active")
  <2> HAVE out[p] = in[x]
  <2>1. ~Acked(p)
    <3>1. in[x] # NULL BY Zenon, <1>0, NoNull
    <3> QED BY Zenon, <3>1 DEF Hand, Joint
  <2>2. Delivered(got[x], y.q, Complete(y.u), started[p], FALSE, w, Gone(x), st[p] = "active")
    BY Zenon, <1>0, WriterMoves
  <2> HIDE DEF e
  <2> QED BY Zenon, <1>1, <1>3, <2>1, <2>2
<1>5. out[p] # in[x] =>
         Delivered(got[x], yp[in[x]].q, yp[in[x]].u, started'[p], mid'[p], w, Gone(x), st'[p] = "active")
  <2> HAVE out[p] # in[x]
  <2>0. ~w \/ st[p] # "active" BY Zenon, <1>0, <1>1 DEF DInv, Carried
  <2>1. Delivered(got[x], yp[in[x]].q, yp[in[x]].u, started[p], FALSE, w, Gone(x), st[p] = "active")
    BY Zenon, <1>0, <2>0, WriterMoves
  <2> QED BY Zenon, <1>1, <2>1
<1> HIDE DEF e
<1>6. Never("hiccup")' => Never("hiccup") BY Zenon, <1>1, NoHiccupBefore
<1>7. Gone(p) => Gone(p)' BY Zenon, <1>1 DEF Gone
<1> QED BY Zenon, <1>1, <1>2, <1>4, <1>5, <1>6, <1>7, WriterSide

\* flush()
LEMMA FlushCarries ==
    ASSUME Typed, Hand, DInv, NEW p \in Ends, Flush(p)
    PROVE  DInv'
<1> DEFINE y == yp[out[p]]
           e == Flushed(y)
           x == Peer(p)
           w == Never("hiccup")
<1>0. x \in Ends /\ x # p /\ Peer(x) = p BY Zenon, Two
<1>1. UNCHANGED <<st, in, out, got, calls, started, mid>> /\ yp' = [yp EXCEPT ![out[p]] = e]
  BY Zenon DEF Flush, ctrlVars, userVars
<1>2. e.q = y.q \o Complete(y.u) /\ e.u = Unfinished(y.u) BY Zenon DEF Flushed
<1>3. out[p] = in[x] => Delivered(got[x], e.q, e.u, started'[p], mid'[p], w, Gone(x), st'[p] = "active")
  <2> HAVE out[p] = in[x]
  <2>1. Delivered(got[x], y.q \o Complete(y.u), Unfinished(y.u), started[p], mid[p], w, Gone(x), st[p] = "active")
    BY Zenon, <1>0, WriterMoves
  <2> HIDE DEF e
  <2> QED BY Zenon, <1>1, <1>2, <2>1
<1>4. Delivered(got[x], yp[in[x]].q, yp[in[x]].u, started'[p], mid'[p], w, Gone(x), st'[p] = "active")
  BY Zenon, <1>0, <1>1 DEF DInv, Carried
<1> HIDE DEF e
<1>5. Never("hiccup")' => Never("hiccup") BY Zenon, <1>1, NoHiccupBefore
<1>6. Gone(p) => Gone(p)' BY Zenon, <1>1 DEF Gone
<1> QED BY Zenon, <1>1, <1>3, <1>4, <1>5, <1>6, WriterSide

\* terminate() of an end that waits for the delimiter.
LEMMA TerminateNowCarries ==
    ASSUME Typed, Hand, DInv, NEW p \in Ends, TerminateNow(p)
    PROVE  DInv'
<1> DEFINE y == yp[out[p]]
           e == RolledBack(y)
           x == Peer(p)
           w == Never("hiccup")
<1>0. x \in Ends /\ x # p /\ Peer(x) = p BY Zenon, Two
<1>1. /\ UNCHANGED <<in, got, started, mid>> /\ yp' = [yp EXCEPT ![out[p]] = e] /\ Called(p, "term")
      /\ st'[x] = st[x] /\ out'[x] = out[x] /\ st'[p] = "term_ack_sent" /\ st[p] = "waiting_for_delimiter"
  BY Zenon, <1>0 DEF TerminateNow, DropOut, Typed
<1>2. e.q = y.q /\ e.u = Complete(y.u)
  <2> ~Acked(p) BY Zenon, <1>1 DEF Acked
  <2> QED BY Zenon, There DEF RolledBack, Ypipe
<1>3. out[p] = in[x] => Delivered(got[x], e.q, e.u, started'[p], mid'[p], w, Gone(x), st'[p] = "active")
  <2> HAVE out[p] = in[x]
  <2>1. Delivered(got[x], y.q, Complete(y.u), started[p], mid[p], w, Gone(x), FALSE)
    BY Zenon, <1>0, WriterMoves
  <2> HIDE DEF e, w
  <2>2. Delivered(got[x], e.q, e.u, started'[p], mid'[p], w, Gone(x), FALSE) BY Zenon, <1>1, <1>2, <2>1
  <2>3. st'[p] # "active" BY Zenon, <1>1
  <2> QED BY Zenon, <2>2, <2>3 DEF Delivered
<1>4. Delivered(got[x], yp[in[x]].q, yp[in[x]].u, started'[p], mid'[p], w, Gone(x), st'[p] = "active")
  <2>1. Delivered(got[x], yp[in[x]].q, yp[in[x]].u, started[p], mid[p], w, Gone(x), st[p] = "active")
    BY Zenon, <1>0 DEF DInv, Carried
  <2> HIDE DEF e, w
  <2>2. st'[p] # "active" BY Zenon, <1>1
  <2> QED BY Zenon, <1>1, <2>1, <2>2 DEF Delivered
<1> HIDE DEF e
<1>5. Never("hiccup")' => Never("hiccup") BY Zenon, <1>1, NoHiccupBefore
<1>6. Gone(p) => Gone(p)' BY Zenon, <1>1 DEF Gone
<1>7. st'[p] # "active" BY Zenon, <1>1
<1> QED BY Zenon, <1>1, <1>3, <1>4, <1>5, <1>6, <1>7, WriterSide

\* terminate() drops the half message and writes the delimiter.
LEMMA TerminateCarries ==
    ASSUME Typed, Hand, DInv, NEW p \in Ends, NEW d \in BOOLEAN, Terminate(p, d)
    PROVE  DInv'
<1> DEFINE y == yp[out[p]]
           t == Append(Complete(y.u), Delimiter)
           v == Written(RolledBack(y), Delimiter)
           e == Flushed(v)
           x == Peer(p)
           w == Never("hiccup")
<1>0. x \in Ends /\ x # p /\ Peer(x) = p BY Zenon, Two
<1>1. /\ UNCHANGED <<in, out, got, started, mid>> /\ yp' = [yp EXCEPT ![out[p]] = e] /\ Called(p, "term")
      /\ st'[x] = st[x]
  BY Zenon, <1>0 DEF Terminate, Typed
<1>2. st'[p] \in {"term_req_sent1", "waiting_for_delimiter"} /\ ~Acked(p)
  BY Zenon DEF Terminate, Asks, Acked, Typed
<1>3. e.q = y.q \o Complete(t) /\ e.u = Unfinished(t)
  <2>1. y \in Ypipe BY Zenon, <1>2, There
  <2>2. v.q = y.q /\ v.u = t BY Zenon, <2>1 DEF Written, RolledBack, Ypipe
  <2> HIDE DEF v, t
  <2> QED BY Zenon, <2>2 DEF Flushed
<1>4. ~Gone(x) BY ZenonT(40), <1>0, <1>2 DEF Hand, Joint
<1>5. out[p] = in[x] => Delivered(got[x], e.q, e.u, started'[p], mid'[p], w, Gone(x), st'[p] = "active")
  <2> HAVE out[p] = in[x]
  <2>1. Delivered(got[x], y.q \o Complete(t), Unfinished(t), started[p], mid[p], w, FALSE, FALSE)
    BY Zenon, <1>0, <1>4, WriterMoves
  <2> HIDE DEF e, w, t
  <2>2. Delivered(got[x], e.q, e.u, started'[p], mid'[p], w, FALSE, FALSE) BY Zenon, <1>1, <1>3, <2>1
  <2>3. st'[p] # "active" BY Zenon, <1>2
  <2> QED BY Zenon, <2>2, <2>3 DEF Delivered
<1>6. Delivered(got[x], yp[in[x]].q, yp[in[x]].u, started'[p], mid'[p], w, Gone(x), st'[p] = "active")
  <2>1. Delivered(got[x], yp[in[x]].q, yp[in[x]].u, started[p], mid[p], w, Gone(x), st[p] = "active")
    BY Zenon, <1>0 DEF DInv, Carried
  <2> HIDE DEF e, w
  <2>2. st'[p] # "active" BY Zenon, <1>2
  <2> QED BY Zenon, <1>1, <2>1, <2>2 DEF Delivered
<1> HIDE DEF e
<1>7. Never("hiccup")' => Never("hiccup") BY Zenon, <1>1, NoHiccupBefore
<1>8. Gone(p) => Gone(p)' BY Zenon, <1>2 DEF Gone, Acked
<1>9. st'[p] # "active" BY Zenon, <1>2
<1> QED BY Zenon, <1>1, <1>5, <1>6, <1>7, <1>8, <1>9, WriterSide

\* The peer has asked: no part moves.
LEMMA PipeTermCarries ==
    ASSUME Typed, Hand, DInv, NEW p \in Ends, process_pipe_term(p)
    PROVE  DInv'
<1> DEFINE q == Peer(p)
<1>0. q \in Ends /\ q # p /\ \A x \in Ends : x = p \/ x = q BY Zenon, Two
<1>1. UNCHANGED <<in, yp, mid, started, got, calls>> /\ st'[q] = st[q] /\ out'[q] = out[q]
  BY Zenon, <1>0 DEF process_pipe_term, DropOut, userVars, Typed
<1>2. st'[p] # "active" /\ ~Gone(p) BY Zenon DEF process_pipe_term, Receive, Gone, Typed
<1>3. Never("hiccup")' => Never("hiccup") BY Zenon, <1>1, NoHiccupBefore
<1>4. \A x \in Ends : Gone(x) => Gone(x)' BY Zenon, <1>0, <1>1, <1>2 DEF Gone
<1> QED BY Zenon, <1>0, <1>1, <1>2, <1>3, <1>4, Unnoticed

\* The writer takes the new ypipe and drops what was in the old one.
LEMMA HiccupDoneCarries ==
    ASSUME Typed, Hand, DInv, NEW p \in Ends, process_hiccup(p)
    PROVE  DInv'
<1> DEFINE q == Peer(p)
<1>0. q \in Ends /\ q # p /\ Peer(q) = p /\ \A x \in Ends : x = p \/ x = q BY Zenon, Two
<1>1. /\ UNCHANGED <<st, in, mid, started, got, calls>> /\ out'[q] = out[q]
      /\ yp' = [yp EXCEPT ![out[p]] = NewYpipe]
  BY Zenon, <1>0 DEF process_hiccup, Plugged, userVars, Typed
<1>2. out[p] # in[q]
  <2>1. Receive(p, "hiccup") BY Zenon DEF process_hiccup, Plugged
  <2>2. Head(cmds[p]).pipe \in Pipes(cmds[p])
    <3>1. cmds[p] \in Seq(Command) /\ cmds[p] # <<>> /\ Head(cmds[p]).c = "hiccup" BY Zenon, <2>1 DEF Typed, Receive
    <3>2. 1 \in 1..Len(cmds[p]) /\ Head(cmds[p]) = cmds[p][1] BY <3>1, HeadTailProperties, LenProperties
    <3>3. cmds[p][1].c = "hiccup" /\ cmds[p][1].pipe = Head(cmds[p]).pipe BY Zenon, <3>1, <3>2
    <3> QED BY Zenon, <3>2, <3>3, Brought
  <2>3. in[q] \in Pipes(cmds[p]) /\ \A h \in Pipes(cmds[p]) : out[p] < h BY Zenon, <1>0, <2>2 DEF Hand, Chain
  <2>4. out[p] < in[q] /\ in[q] \in Nat /\ out[p] \in Nat BY Zenon, <1>0, <2>3, Indices
  <2> QED BY <2>4
<1>3. out[p] # in[p] BY Zenon DEF Hand, Apart
<1>4. \A x \in Ends : yp'[in[x]] = yp[in[x]] BY Zenon, <1>0, <1>1, <1>2, <1>3, OtherYpipe
<1>5. Never("hiccup") => st[p] # "active" BY Zenon, <1>0, <1>2 DEF DInv, Carried
<1>6. Never("hiccup")' => Never("hiccup") BY Zenon, <1>1, NoHiccupBefore
<1>7. \A x \in Ends : Gone(x) => Gone(x)' BY Zenon, <1>1 DEF Gone
<1>8. \A x \in Ends : Never("hiccup")' /\ st'[x] = "active" => out'[x] = out[x]
  BY Zenon, <1>0, <1>1, <1>5, <1>6
<1> QED BY Zenon, <1>1, <1>4, <1>6, <1>7, <1>8, Unnoticed

\* The reader takes a new ypipe.
LEMMA HiccupCarries ==
    ASSUME Typed, Hand, DInv, NEW p \in Ends, Hiccup(p)
    PROVE  DInv'
<1> DEFINE q == Peer(p)
           n == Len(yp) + 1
<1>0. q \in Ends /\ q # p /\ Peer(q) = p /\ \A x \in Ends : x = p \/ x = q BY Zenon, Two
<1>1. /\ UNCHANGED <<st, out, mid, started, got>> /\ Called(p, "hiccup") /\ yp' = Append(yp, NewYpipe)
      /\ in'[p] = n /\ in'[q] = in[q]
  BY Zenon, <1>0 DEF Hiccup, Typed
<1>2. ~Never("hiccup")' BY Zenon, <1>1, NoHiccupBefore
<1>3. yp'[n] = NewYpipe /\ yp'[in[q]] = yp[in[q]]
  <2>1. yp \in Seq(Ypipe) /\ NewYpipe \in Ypipe /\ in[q] \in 1..Len(yp)
    BY Zenon, <1>0, Types, FirstYpipe DEF Memory
  <2>2. yp'[n] = NewYpipe /\ \A i \in 1..Len(yp) : yp'[i] = yp[i]
    <3> HIDE DEF Ypipe
    <3> QED BY <1>1, <2>1, AppendProperties
  <2> QED BY Zenon, <2>1, <2>2
<1>4. Carried(q)'
  <2>1. Gone(q) => Gone(q)' BY Zenon, <1>1 DEF Gone
  <2>2. Carried(q) BY Zenon, <1>0 DEF DInv
  <2> QED BY Zenon, <1>0, <1>1, <1>2, <1>3, <2>1, <2>2, Elsewhere
<1>5. Carried(p)'
  <2> DEFINE a == st[q] = "active"
             v == Never("hiccup")'
             gone == Gone(p)
  <2>1. a \in BOOLEAN BY Zenon
  <2>2. Delivered(got[p], <<>>, <<>>, started[q], mid[q], FALSE, gone, a) BY Zenon, <2>1, ReaderMoves
  <2>3. Gone(p)' <=> gone BY Zenon, <1>1 DEF Gone
  <2>4. NewYpipe.q = <<>> /\ NewYpipe.u = <<>> BY Zenon DEF NewYpipe
  <2>5. ~v BY Zenon, <1>2
  <2> HIDE DEF v, gone, n
  <2>6. Delivered(got'[p], yp'[in'[p]].q, yp'[in'[p]].u, started'[q], mid'[q], FALSE, gone, st'[q] = "active")
    BY Zenon, <1>1, <1>3, <2>2, <2>4
  <2>7. Delivered(got'[p], yp'[in'[p]].q, yp'[in'[p]].u, started'[q], mid'[q], v, Gone(p)', st'[q] = "active")
    BY Zenon, <2>3, <2>5, <2>6 DEF Delivered
  <2> QED BY Zenon, <1>2, <2>7 DEF Carried, v
<1> QED BY Zenon, <1>0, <1>4, <1>5 DEF DInv

\* Every step keeps DInv.
LEMMA DeliveryContinues ==
    ASSUME Typed, Hand, DInv, [Next]_vars
    PROVE  DInv'
<1>1. CASE UNCHANGED vars
  <2>1. \E p \in Ends : TRUE BY Zenon DEF Ends
  <2> QED BY Zenon, <1>1, <2>1, QuietCarries
<1>2. ASSUME NEW p \in Ends, NEW kind \in {"single", "head", "tail", "credential"}, Write(p, kind) PROVE DInv'
  BY Zenon, <1>2, WriteCarries
<1>3. ASSUME NEW p \in Ends, WriteFull(p) PROVE DInv' BY Zenon, <1>3, QuietCarries
<1>4. ASSUME NEW p \in Ends, WriteAbort(p) PROVE DInv' BY Zenon, <1>4, WriteAbortCarries
<1>5. ASSUME NEW p \in Ends, Flush(p) PROVE DInv' BY Zenon, <1>5, FlushCarries
<1>6. ASSUME NEW p \in Ends, Read(p) PROVE DInv'
  BY Zenon, <1>6, SkipCredentialCarries, ReadNothingCarries, ReadPartCarries, ReadDelimiterCarries DEF Read
<1>7. ASSUME NEW p \in Ends, NEW d \in BOOLEAN, Terminate(p, d) PROVE DInv' BY Zenon, <1>7, TerminateCarries
<1>8. ASSUME NEW p \in Ends, NEW d \in BOOLEAN, TerminateAgain(p, d) PROVE DInv'
  BY Zenon, <1>8, QuietCarries
<1>9. ASSUME NEW p \in Ends, TerminateNow(p) PROVE DInv' BY Zenon, <1>9, TerminateNowCarries
<1>10. ASSUME NEW p \in Ends, Hiccup(p) PROVE DInv' BY Zenon, <1>10, HiccupCarries
<1>11. ASSUME NEW p \in Ends, NEW i \in NewHwms, NEW o \in NewHwms, SetHwms(p, i, o) PROVE DInv'
  BY Zenon, <1>11, QuietCarries
<1>12. ASSUME NEW p \in Ends, ProcessCommand(p) PROVE DInv'
  BY Zenon, <1>12, QuietCarries, HiccupDoneCarries, PipeTermCarries, TermAckCarries DEF ProcessCommand
<1>13. ASSUME NEW p \in Ends, Act(p) PROVE DInv'
  BY Zenon, <1>13, <1>2, <1>3, <1>4, <1>5, <1>7, <1>8, <1>9, <1>10, <1>11, <1>12 DEF Act
<1> QED BY Zenon, <1>1, <1>6, <1>13 DEF Next

\* A new pipe.
LEMMA DeliveryBegins == Init => DInv
<1> SUFFICES ASSUME Init PROVE DInv OBVIOUS
<1> SUFFICES ASSUME NEW p \in Ends PROVE Carried(p) BY Zenon DEF DInv
<1>0. Peer(p) \in Ends BY Zenon, Two
<1>1. got[p] = <<>> /\ started[Peer(p)] = 0 /\ mid[Peer(p)] = FALSE BY Zenon, <1>0 DEF Init
<1>2. yp[in[p]] = NewYpipe /\ out[Peer(p)] = in[p]
  BY Zenon DEF Init, Ends, Peer
<1>n. NewYpipe.q = <<>> /\ NewYpipe.u = <<>> BY Zenon DEF NewYpipe
<1>3. yp[in[p]].q = <<>> /\ yp[in[p]].u = <<>> BY Zenon, <1>2, <1>n
<1>4. <<>> \o (<<>> \o <<>>) = <<>> /\ <<>> \o <<>> = <<>> BY Zenon, EmptySeq, ConcatEmptySeq
<1>5. \A i \in 1..Len(<<>>) : FALSE OBVIOUS
<1>6. \A w, gone, act : Delivered(<<>>, <<>>, <<>>, 0, FALSE, w, gone, act)
  BY Zenon, <1>4, <1>5 DEF Delivered, Sorted, Past, Paired, EndsMid
<1> QED BY Zenon, <1>1, <1>2, <1>3, <1>6 DEF Carried

\* What the user of an end has read.
LEMMA DeliveryEnough == Typed /\ DInv => OrderedDelivery /\ AtomicDelivery
<1> SUFFICES ASSUME Typed, DInv, NEW p \in Ends
             PROVE  /\ \A i, j \in 1..Len(got[p]) : i < j =>
                          \/ got[p][i].n < got[p][j].n
                          \/ /\ got[p][i].n = got[p][j].n
                             /\ got[p][i].kind = "head" /\ got[p][j].kind = "tail"
                    /\ Never("hiccup") => \A i \in 1..Len(got[p]) :
                          /\ got[p][i].kind = "tail" =>
                                i > 1 /\ got[p][i - 1] = [n |-> got[p][i].n, kind |-> "head"]
                          /\ got[p][i].kind = "head" /\ i < Len(got[p]) =>
                                got[p][i + 1] = [n |-> got[p][i].n, kind |-> "tail"]
                          /\ got[p][i].kind = "head" /\ i = Len(got[p]) /\ MayRead(p) =>
                                Inbound(p) # <<>> /\ Head(Inbound(p)).kind = "tail"
  BY Zenon DEF OrderedDelivery, AtomicDelivery
<1> DEFINE g == got[p]
           q == yp[in[p]].q
           u == yp[in[p]].u
           w == Never("hiccup")
<1>1. g \in Seq(Part) /\ q \in Seq(Part) /\ u \in Seq(Part) BY Zenon, CarriedTypes
<1>2. /\ \A i \in 1..Len(g) : g[i] # Delimiter
      /\ Sorted(g \o (q \o u))
      /\ w => Paired(g \o (q \o u)) /\ (Gone(p) \/ ~EndsMid(g \o q))
  BY Zenon DEF DInv, Carried, Delivered
<1>3. Inbound(p) = q /\ (MayRead(p) => ~Gone(p)) BY Zenon DEF Inbound, MayRead, Readable, Gone
<1> HIDE DEF g, q, u, w
<1>4. q \o u \in Seq(Part) BY Zenon, <1>1, ConcatProperties
<1>5. Sorted(g) /\ (w => Paired(g)) BY Zenon, <1>1, <1>2, <1>4, Prefixes
<1>6. \A i, j \in 1..Len(g) : i < j =>
         g[i].n < g[j].n \/ (g[i].n = g[j].n /\ g[i].kind = "head" /\ g[j].kind = "tail")
  BY Zenon, <1>2, <1>5 DEF Sorted, Follows
<1>7. Len(g) \in Nat /\ \A i \in 1..Len(g) : g[i] \in Part BY Zenon, <1>1, LenProperties, ElementOfSeq
<1>8. \A k \in Part : k = [n |-> k.n, kind |-> k.kind] BY DEF Part
<1>9. ASSUME w, NEW i \in 1..Len(g)
      PROVE  /\ g[i].kind = "tail" => i > 1 /\ g[i - 1] = [n |-> g[i].n, kind |-> "head"]
             /\ g[i].kind = "head" /\ i < Len(g) => g[i + 1] = [n |-> g[i].n, kind |-> "tail"]
  <2>1. i > 1 => i - 1 \in 1..Len(g) BY <1>7
  <2>2. i < Len(g) => i + 1 \in 1..Len(g) BY <1>7
  <2>3. g[i].kind = "tail" => i > 1 /\ g[i - 1].n = g[i].n /\ g[i - 1].kind = "head"
    BY Zenon, <1>5, <1>9 DEF Paired
  <2>4. g[i].kind = "head" /\ i < Len(g) => g[i + 1].n = g[i].n /\ g[i + 1].kind = "tail"
    BY Zenon, <1>5, <1>9 DEF Paired
  <2>5. ASSUME g[i].kind = "tail" PROVE i > 1 /\ g[i - 1] = [n |-> g[i].n, kind |-> "head"]
    <3> DEFINE k == g[i - 1]
    <3>1. k \in Part /\ k.n = g[i].n /\ k.kind = "head" /\ i > 1 BY Zenon, <1>7, <2>1, <2>3, <2>5
    <3>2. k = [n |-> k.n, kind |-> k.kind] BY Zenon, <1>8, <3>1
    <3> QED BY Zenon, <3>1, <3>2
  <2>6. ASSUME g[i].kind = "head", i < Len(g) PROVE g[i + 1] = [n |-> g[i].n, kind |-> "tail"]
    <3> DEFINE k == g[i + 1]
    <3>1. k \in Part /\ k.n = g[i].n /\ k.kind = "tail" BY Zenon, <1>7, <2>2, <2>4, <2>6
    <3>2. k = [n |-> k.n, kind |-> k.kind] BY Zenon, <1>8, <3>1
    <3> QED BY Zenon, <3>1, <3>2
  <2> QED BY Zenon, <2>5, <2>6
<1>10. ASSUME w, NEW i \in 1..Len(g), g[i].kind = "head", i = Len(g), ~Gone(p)
       PROVE  q # <<>> /\ Head(q).kind = "tail"
  <2>1. g # <<>> /\ EndsMid(g)
    <3>1. Len(g) # 0 BY <1>7
    <3>2. g # <<>> BY <1>1, <3>1
    <3> QED BY Zenon, <1>10, <3>2 DEF EndsMid, More
  <2>2. q # <<>>
    <3> SUFFICES ASSUME q = <<>> PROVE FALSE OBVIOUS
    <3>1. g \o q = g BY Zenon, <1>1, ConcatEmptySeq
    <3> QED BY Zenon, <1>2, <1>10, <2>1, <3>1
  <2>3. Paired(g \o q)
    <3>1. (g \o q) \o u = g \o (q \o u)
      <4>1. Regroup(g, q, u) BY Zenon, <1>1, Assoc
      <4> QED BY Zenon, <4>1 DEF Regroup
    <3>2. g \o q \in Seq(Part) BY Zenon, <1>1, ConcatProperties
    <3>3. Paired((g \o q) \o u) BY Zenon, <1>2, <1>10, <3>1
    <3> QED BY Zenon, <1>1, <3>2, <3>3, Prefixes
  <2>4. q[1].kind = "tail" BY Zenon, <1>1, <2>1, <2>2, <2>3, Prefixes
  <2>5. Head(q) = q[1] BY <1>1, <2>2, HeadTailProperties
  <2> QED BY Zenon, <2>2, <2>4, <2>5
<1> QED BY Zenon, <1>3, <1>6, <1>9, <1>10 DEF g, w

-----------------------------------------------------------------------------
(* Nothing is lost: the inductive invariant PInv *)

\* An end that has not called terminate() asks for nothing and writes no
\* delimiter.  If it has not called hiccup() either, its peer's delimiter is the
\* last thing it finds, and it has then read all that the peer has written.
Pend(p) ==
    LET q == Peer(p)
        y == yp[in[p]] IN
    calls[p].term = 0 =>
        /\ st[p] \notin {"term_req_sent1", "term_req_sent2"}
        /\ st[q] \in {"active", "term_req_sent1", "gone"}
        /\ Open(yp[in[q]])
        /\ calls[p].hiccup = 0 =>
              /\ Acked(q) \/ out[q] = in[p]
              /\ st[p] = "delimiter_received" => st[q] # "active"
              /\ st[q] = "term_req_sent1" /\ Readable(p) =>
                    Final(y) /\ nwritten[q] + 1 = Passed(p) + Load(y)
              /\ st[p] = "delimiter_received" \/ (st[p] \in {"term_ack_sent", "gone"} /\ delay[p]) =>
                    Passed(p) = nwritten[q]

\* Both ends.
PInv == \A p \in Ends : Pend(p)

\* The calls an end makes are its own.
LEMMA CallsSeen ==
    ASSUME Typed
    PROVE  /\ \A p, x \in Ends : Called(p, "term") =>
                calls'[p].term # 0 /\ (x # p => calls'[x] = calls[x])
           /\ \A p, x \in Ends : Called(p, "hiccup") =>
                calls'[p].hiccup # 0 /\ calls'[p].term = calls[p].term /\ (x # p => calls'[x] = calls[x])
           /\ \A p, x \in Ends : Called(p, "hwm") =>
                calls'[x].term = calls[x].term /\ calls'[x].hiccup = calls[x].hiccup
<1>1. calls \in [Ends -> [term : Nat, hiccup : Nat, hwm : Nat]] BY Zenon DEF Typed
<1>2. ASSUME NEW p \in Ends, NEW x \in Ends, Called(p, "term")
      PROVE  calls'[p].term # 0 /\ (x # p => calls'[x] = calls[x])
  <2>1. /\ calls'[p].term = calls[p].term + 1 /\ calls[p].term \in Nat
        /\ x # p => calls'[x] = calls[x]
    BY Zenon, <1>1, <1>2 DEF Called
  <2>2. calls'[p].term # 0 BY <2>1
  <2> QED BY Zenon, <2>1, <2>2
<1>3. ASSUME NEW p \in Ends, NEW x \in Ends, Called(p, "hiccup")
      PROVE  calls'[p].hiccup # 0 /\ calls'[p].term = calls[p].term /\ (x # p => calls'[x] = calls[x])
  <2>1. /\ calls'[p].hiccup = calls[p].hiccup + 1 /\ calls[p].hiccup \in Nat
        /\ calls'[p].term = calls[p].term
        /\ x # p => calls'[x] = calls[x]
    BY Zenon, <1>1, <1>3 DEF Called
  <2>2. calls'[p].hiccup # 0 BY <2>1
  <2> QED BY Zenon, <2>1, <2>2
<1>4. ASSUME NEW p \in Ends, NEW x \in Ends, Called(p, "hwm")
      PROVE  calls'[x].term = calls[x].term /\ calls'[x].hiccup = calls[x].hiccup
  BY Zenon, <1>1, <1>4 DEF Called
<1> QED BY Zenon, <1>2, <1>3, <1>4

\* A step that leaves the states of the ends alone, and what concerns x.
LEMMA Undisturbed ==
    ASSUME Typed, Hand, NEW x \in Ends, NEW z, z = Peer(x), Pend(x), UNCHANGED st,
           calls'[x].term = 0 => calls[x].term = 0 /\ delay'[x] = delay[x],
           calls'[x].term = 0 /\ calls'[x].hiccup = 0 => calls[x].hiccup = 0,
           calls'[x].term = 0 /\ Open(yp[in[z]]) => Open(yp'[in'[z]]),
           calls'[x].term = 0 /\ calls'[x].hiccup = 0 =>
              /\ in'[x] = in[x] /\ nread'[x] = nread[x] /\ skipped'[x] = skipped[x] /\ out'[z] = out[z]
              /\ nwritten'[z] = nwritten[z] \/ st[z] = "active"
              /\ Final(yp[in[x]]) /\ st[z] # "active" => yp'[in[x]].q = yp[in[x]].q /\ yp'[in[x]].u = yp[in[x]].u
    PROVE  Pend(x)'
<1>0. z \in Ends /\ Peer(z) = x BY Zenon, Two
<1> SUFFICES ASSUME calls'[x].term = 0
             PROVE  /\ st'[x] \notin {"term_req_sent1", "term_req_sent2"}
                    /\ st'[z] \in {"active", "term_req_sent1", "gone"}
                    /\ Open(yp'[in'[z]])
                    /\ calls'[x].hiccup = 0 =>
                        /\ Acked(z)' \/ out'[z] = in'[x]
                        /\ st'[x] = "delimiter_received" => st'[z] # "active"
                        /\ st'[z] = "term_req_sent1" /\ Readable(x)' =>
                              Final(yp'[in'[x]]) /\ nwritten'[z] + 1 = Passed(x)' + Load(yp'[in'[x]])
                        /\ st'[x] = "delimiter_received" \/ (st'[x] \in {"term_ack_sent", "gone"} /\ delay'[x]) =>
                              Passed(x)' = nwritten'[z]
  BY Zenon DEF Pend
<1>1. /\ st[x] \notin {"term_req_sent1", "term_req_sent2"}
      /\ st[z] \in {"active", "term_req_sent1", "gone"}
      /\ Open(yp[in[z]])
  BY Zenon DEF Pend
<1>2. ASSUME calls'[x].hiccup = 0
      PROVE  /\ Acked(z)' \/ out'[z] = in'[x]
             /\ st'[x] = "delimiter_received" => st'[z] # "active"
             /\ st'[z] = "term_req_sent1" /\ Readable(x)' =>
                  Final(yp'[in'[x]]) /\ nwritten'[z] + 1 = Passed(x)' + Load(yp'[in'[x]])
             /\ st'[x] = "delimiter_received" \/ (st'[x] \in {"term_ack_sent", "gone"} /\ delay'[x]) =>
                  Passed(x)' = nwritten'[z]
  <2> DEFINE y == yp[in[x]]
             v == yp'[in[x]]
  <2>1. /\ Acked(z) \/ out[z] = in[x]
        /\ st[x] = "delimiter_received" => st[z] # "active"
        /\ st[z] = "term_req_sent1" /\ Readable(x) => Final(y) /\ nwritten[z] + 1 = Passed(x) + Load(y)
        /\ st[x] = "delimiter_received" \/ (st[x] \in {"term_ack_sent", "gone"} /\ delay[x]) =>
              Passed(x) = nwritten[z]
    BY Zenon, <1>2 DEF Pend
  <2>2. /\ in'[x] = in[x] /\ Passed(x)' = Passed(x) /\ out'[z] = out[z]
        /\ nwritten'[z] = nwritten[z] \/ st[z] = "active"
        /\ Final(y) /\ st[z] # "active" => v.q = y.q /\ v.u = y.u
    BY Zenon, <1>2 DEF Passed
  <2>3. Final(y) /\ st[z] # "active" => Final(v) /\ Load(v) = Load(y) BY Zenon, <2>2 DEF Final, Load
  <2>4. (Readable(x)' <=> Readable(x)) /\ (Acked(z)' <=> Acked(z)) BY Zenon DEF Readable, Acked
  <2>5. st[z] = "active" => st[x] \notin {"term_ack_sent", "gone"} BY Zenon DEF Hand, Joint, Gone, Acked
  <2> HIDE DEF y
  <2>6. Acked(z)' \/ out'[z] = in'[x] BY Zenon, <2>1, <2>2, <2>4
  <2>7. st'[z] = "term_req_sent1" /\ Readable(x)' => Final(v) /\ nwritten'[z] + 1 = Passed(x)' + Load(v)
    BY Zenon, <2>1, <2>2, <2>3, <2>4
  <2>8. st'[x] = "delimiter_received" \/ (st'[x] \in {"term_ack_sent", "gone"} /\ delay'[x]) =>
          Passed(x)' = nwritten'[z]
    BY Zenon, <2>1, <2>2, <2>5
  <2> QED BY Zenon, <2>1, <2>2, <2>6, <2>7, <2>8
<1> QED BY Zenon, <1>1, <1>2

\* The steps that move no part.
LEMMA QuietPends ==
    ASSUME Typed, Hand, PInv, NEW p \in Ends,
           \/ WriteFull(p) \/ (\E d \in BOOLEAN : TerminateAgain(p, d))
           \/ (\E i, o \in NewHwms : SetHwms(p, i, o))
           \/ process_activate_read(p) \/ process_activate_write(p) \/ process_pipe_hwm(p)
           \/ UNCHANGED vars
    PROVE  PInv'
<1> SUFFICES ASSUME NEW x \in Ends PROVE Pend(x)' BY Zenon DEF PInv
<1>1. UNCHANGED <<st, in, out, yp, nread, skipped, nwritten>>
  BY Zenon DEF WriteFull, TerminateAgain, SetHwms, process_activate_read, process_activate_write, process_pipe_hwm,
               memVars, countVars, vars
<1>2. \/ UNCHANGED <<calls, delay>> \/ (Called(p, "hwm") /\ UNCHANGED delay)
      \/ (Called(p, "term") /\ \E d \in BOOLEAN : delay' = [delay EXCEPT ![p] = d])
  BY Zenon DEF WriteFull, TerminateAgain, SetHwms, process_activate_read, process_activate_write, process_pipe_hwm,
               userVars, vars
<1>3. calls'[x].term = 0 => calls[x].term = 0 /\ delay'[x] = delay[x]
  <2>1. CASE UNCHANGED <<calls, delay>> BY Zenon, <2>1
  <2>2. CASE Called(p, "hwm") /\ UNCHANGED delay BY Zenon, <2>2, CallsSeen
  <2>3. CASE Called(p, "term") /\ \E d \in BOOLEAN : delay' = [delay EXCEPT ![p] = d]
    <3>1. x # p => delay'[x] = delay[x] BY Zenon, <2>3 DEF Typed
    <3> QED BY Zenon, <2>3, <3>1, CallsSeen
  <2> QED BY Zenon, <1>2, <2>1, <2>2, <2>3
<1>4. calls'[x].hiccup = 0 /\ calls'[x].term = 0 => calls[x].hiccup = 0
  <2>1. CASE UNCHANGED <<calls, delay>> BY Zenon, <2>1
  <2>2. CASE Called(p, "hwm") /\ UNCHANGED delay BY Zenon, <2>2, CallsSeen
  <2>3. CASE Called(p, "term") BY Zenon, <2>3, CallsSeen
  <2> QED BY Zenon, <1>2, <2>1, <2>2, <2>3
<1>5. Pend(x) BY Zenon DEF PInv
<1> QED BY Zenon, <1>1, <1>3, <1>4, <1>5, Undisturbed

\* An end changes the ypipe it writes to, before or after the delimiter.
LEMMA WriterPends ==
    ASSUME Typed, Hand, PInv, UNCHANGED <<st, in, out, nread, skipped, calls, delay>>,
           NEW p \in Ends, NEW q, q = Peer(p), NEW e, yp' = [yp EXCEPT ![out[p]] = e],
           nwritten'[q] = nwritten[q], nwritten'[p] = nwritten[p] \/ st[p] = "active",
           out[p] = in[q] =>
              /\ Open(yp[in[q]]) => Open(e)
              /\ Final(yp[in[q]]) /\ st[p] # "active" => e.q = yp[in[q]].q /\ e.u = yp[in[q]].u
    PROVE  PInv'
<1>1. q \in Ends /\ Peer(q) = p /\ \A x \in Ends : x = p \/ x = q BY Zenon, Two
<1>2. out[p] # in[p] BY Zenon DEF Hand, Apart
<1>3. yp'[in[p]] = yp[in[p]] BY Zenon, <1>2, OtherYpipe
<1>4. /\ Open(yp[in[q]]) => Open(yp'[in[q]])
      /\ Final(yp[in[q]]) /\ st[p] # "active" => yp'[in[q]].q = yp[in[q]].q /\ yp'[in[q]].u = yp[in[q]].u
  <2>1. CASE out[p] = in[q]
    <3>0. in[q] \in 1..Len(yp) /\ DOMAIN yp = 1..Len(yp) BY Zenon, <1>1, LenProperties DEF Typed
    <3>1. yp'[in[q]] = e BY Zenon, <2>1, <3>0
    <3> QED BY Zenon, <2>1, <3>1
  <2>2. CASE out[p] # in[q]
    <3>1. yp'[in[q]] = yp[in[q]] BY Zenon, <1>1, <2>2, OtherYpipe
    <3> QED BY Zenon, <3>1
  <2> QED BY Zenon, <2>1, <2>2
<1>5. Pend(p) /\ Pend(q) BY Zenon, <1>1 DEF PInv
<1>6. Pend(p)' BY Zenon, <1>3, <1>4, <1>5, Undisturbed
<1>7. Pend(q)' BY Zenon, <1>1, <1>3, <1>4, <1>5, Undisturbed
<1> QED BY Zenon, <1>1, <1>6, <1>7 DEF PInv

\* write()
LEMMA WritePends ==
    ASSUME Counting, Typed, Hand, FInv, PInv, NEW p \in Ends, NEW kind \in {"single", "head", "tail", "credential"}, Write(p, kind)
    PROVE  PInv'
<1> DEFINE k == [n |-> started'[p], kind |-> kind]
           y == yp[out[p]]
           e == Written(y, k)
           q == Peer(p)
<1>1. q \in Ends /\ q # p BY Zenon, Two
<1>2. /\ UNCHANGED <<st, in, out, nread, skipped, calls, delay>> /\ yp' = [yp EXCEPT ![out[p]] = e] /\ st[p] = "active"
      /\ nwritten'[q] = nwritten[q]
  BY Zenon, <1>1 DEF Write, CheckWrite, ctrlVars, FInv
<1>3. k \in Part /\ k # Delimiter
  <2>1. started'[p] \in Nat
    <3>1. started'[p] = (IF mid[p] THEN started[p] ELSE started[p] + 1) /\ started[p] \in Nat BY Zenon DEF Write, Typed
    <3> QED BY <3>1
  <2> QED BY Zenon, <2>1 DEF Part, Delimiter
<1>4. y \in Ypipe BY Zenon, <1>2, There DEF Acked
<1> HIDE DEF k
<1>5. Open(y) => Open(e) BY Zenon, <1>3, <1>4, LoadWritten
<1> HIDE DEF e
<1> QED BY Zenon, <1>2, <1>5, WriterPends

\* rollback()
LEMMA WriteAbortPends ==
    ASSUME Counting, Typed, Hand, PInv, NEW p \in Ends, WriteAbort(p)
    PROVE  PInv'
<1> DEFINE y == yp[out[p]]
           e == RolledBack(y)
           q == Peer(p)
<1>1. q \in Ends /\ q # p BY Zenon, Two
<1>2. UNCHANGED <<st, in, out, nread, skipped, nwritten, calls, delay>> BY Zenon DEF WriteAbort, countVars
<1>3. yp' = [yp EXCEPT ![out[p]] = e] BY Zenon, RolledBackOrNot
<1>4. out[p] = in[q] => y \in Ypipe BY Zenon, <1>1, There
<1>5. y \in Ypipe => (Open(y) => Open(e)) /\ (Final(y) => e.q = y.q /\ e.u = y.u)
  BY Zenon, Loads, FinalStays
<1> HIDE DEF e
<1> QED BY Zenon, <1>2, <1>3, <1>4, <1>5, WriterPends

\* flush()
LEMMA FlushPends ==
    ASSUME Counting, Typed, Hand, PInv, NEW p \in Ends, Flush(p)
    PROVE  PInv'
<1> DEFINE y == yp[out[p]]
           e == Flushed(y)
           q == Peer(p)
<1>1. q \in Ends /\ q # p BY Zenon, Two
<1>2. /\ UNCHANGED <<st, in, out, nread, skipped, nwritten, calls, delay>> /\ yp' = [yp EXCEPT ![out[p]] = e]
      /\ Complete(y.u) # <<>>
  BY Zenon DEF Flush, ctrlVars, countVars, userVars
<1>3. out[p] = in[q] => y \in Ypipe BY Zenon, <1>1, There
<1>4. y \in Ypipe => (Open(y) => Open(e)) /\ ~Final(y) BY Zenon, <1>2, Loads, FinalStays
<1> HIDE DEF e
<1> QED BY Zenon, <1>2, <1>3, <1>4, WriterPends

\* read() of an empty ypipe.
LEMMA ReadNothingPends ==
    ASSUME Typed, Hand, PInv, NEW p \in Ends, ReadNothing(p)
    PROVE  PInv'
<1> DEFINE y == yp[in[p]]
           e == [y EXCEPT !.asleep = TRUE]
           q == Peer(p)
<1>1. q \in Ends /\ Peer(q) = p /\ \A x \in Ends : x = p \/ x = q BY Zenon, Two
<1>2. UNCHANGED <<st, in, out, nread, skipped, nwritten, calls, delay>> /\ yp' = [yp EXCEPT ![in[p]] = e]
  BY Zenon DEF ReadNothing, countVars, userVars
<1>3. e.q = y.q /\ e.u = y.u BY Zenon, There DEF Ypipe
<1>4. Pend(p) /\ Pend(q) /\ in[p] # in[q] BY Zenon, <1>1 DEF PInv, Hand, Apart
<1> HIDE DEF e
<1>5. yp'[in[q]] = yp[in[q]] BY Zenon, <1>1, <1>2, <1>4, OtherYpipe
<1>6. yp'[in[p]].q = y.q /\ yp'[in[p]].u = y.u BY Zenon, <1>2, <1>3, OtherYpipe
<1>7. Open(y) => Open(yp'[in[p]]) BY Zenon, <1>6 DEF Open
<1>8. Pend(p)' BY Zenon, <1>2, <1>4, <1>5, <1>6, Undisturbed
<1>9. Pend(q)' BY Zenon, <1>1, <1>2, <1>4, <1>5, <1>7, Undisturbed
<1> QED BY Zenon, <1>1, <1>8, <1>9 DEF PInv

\* The ypipe that a hiccup replaces has no reader any more.
LEMMA Replacing ==
    ASSUME Typed, Hand, NEW p \in Ends, Receive(p, "hiccup")
    PROVE  out[p] # in[Peer(p)] /\ ~Acked(p)
<1> DEFINE q == Peer(p)
<1>0. q \in Ends /\ Peer(q) = p BY Zenon, Two
<1>1. cmds[p] \in Seq(Command) /\ cmds[p] # <<>> /\ Head(cmds[p]).c = "hiccup" BY Zenon DEF Typed, Receive
<1>2. 1 \in 1..Len(cmds[p]) /\ Head(cmds[p]) = cmds[p][1] BY <1>1, HeadTailProperties, LenProperties
<1>3. cmds[p][1].c = "hiccup" /\ cmds[p][1].pipe = Head(cmds[p]).pipe BY Zenon, <1>1, <1>2
<1>4. Head(cmds[p]).pipe \in Pipes(cmds[p]) BY Zenon, <1>2, <1>3, Brought
<1>5. in[q] \in Pipes(cmds[p]) /\ \A h \in Pipes(cmds[p]) : out[p] < h BY Zenon, <1>0, <1>4 DEF Hand, Chain
<1>6. out[p] < in[q] /\ in[q] \in Nat /\ out[p] \in Nat BY Zenon, <1>0, <1>5, Indices
<1>7. out[p] # in[q] BY <1>6
<1>8. Unasked(p) BY Zenon, <1>0, <1>4 DEF Hand, Joint
<1> QED BY Zenon, <1>7, <1>8 DEF Unasked, Acked

\* read() of a part.
LEMMA ReadPartPends ==
    ASSUME Counting, Typed, Hand, FInv, PInv, NEW p \in Ends, ReadPart(p)
    PROVE  PInv'
<1> DEFINE y == yp[in[p]]
           e == [y EXCEPT !.q = Tail(@)]
           q == Peer(p)
           w == Weight(Head(y.q))
<1>1. q \in Ends /\ q # p /\ Peer(q) = p /\ \A x \in Ends : x = p \/ x = q BY Zenon, Two
<1>2. /\ UNCHANGED <<st, in, out, skipped, nwritten, calls, delay>> /\ yp' = [yp EXCEPT ![in[p]] = e]
      /\ y.q # <<>> /\ Head(y.q) # Delimiter /\ Readable(p)
  BY Zenon DEF ReadPart, ctrlVars, Inbound, MayRead
<1>3. y \in Ypipe BY Zenon, There
<1>4. Load(y) = Load(e) + w /\ Load(e) \in Nat /\ (Open(y) => Open(e)) /\ (Final(y) => Final(e))
  BY Zenon, <1>2, <1>3, LoadRead, FinalRead
<1>5. nread'[p] = nread[p] + w /\ nread[p] \in Nat /\ w \in Nat /\ nread'[q] = nread[q] /\ nwritten[q] \in Int
  <2>1. nread \in [Ends -> Nat] /\ nwritten[q] \in Int BY Zenon, <1>1, Types DEF Counts, FInv
  <2>2. nread' = [nread EXCEPT ![p] = IF More(Head(y.q)) THEN nread[p] ELSE nread[p] + 1]
    BY Zenon DEF ReadPart, Inbound
  <2>3. nread'[p] = (IF More(Head(y.q)) THEN nread[p] ELSE nread[p] + 1) /\ nread'[q] = nread[q] /\ nread[p] \in Nat
    BY Zenon, <1>1, <2>1, <2>2
  <2> HIDE DEF y
  <2>4. nread'[p] = nread[p] + w /\ w \in Nat BY <2>3 DEF Weight
  <2> QED BY Zenon, <2>1, <2>3, <2>4
<1>p. Passed(p)' = Passed(p) + w /\ Passed(p) \in Nat
  <2>1. skipped[p] \in Nat BY Zenon, Types DEF Counts
  <2> HIDE DEF w
  <2>2. nread'[p] + skipped[p] = (nread[p] + skipped[p]) + w BY <1>5, <2>1
  <2>3. Passed(p)' = Passed(p) + w BY Zenon, <1>2, <2>2 DEF Passed
  <2> QED BY Zenon, <2>3, PassedNat
<1>6. Pend(p) /\ Pend(q) /\ in[p] # in[q] BY Zenon, <1>1 DEF PInv, Hand, Apart
<1> HIDE DEF e, w
<1>7. yp'[in[q]] = yp[in[q]] /\ yp'[in[p]] = e BY Zenon, <1>1, <1>2, <1>6, OtherYpipe
<1>8. Pend(q)' BY Zenon, <1>1, <1>2, <1>4, <1>5, <1>6, <1>7, Undisturbed
<1>9. nwritten[q] + 1 = Passed(p) + Load(y) => nwritten[q] + 1 = Passed(p)' + Load(e)
  <2> DEFINE a == Load(y)
             b == Load(e)
             c == Passed(p)
             d == Passed(p)'
             n == nwritten[q]
  <2>1. a = b + w /\ b \in Nat /\ d = c + w /\ c \in Nat /\ w \in Nat /\ n \in Int BY Zenon, <1>4, <1>5, <1>p
  <2> HIDE DEF a, b, c, d, n
  <2>2. n + 1 = c + a => n + 1 = d + b BY <2>1
  <2> QED BY Zenon, <2>2 DEF a, b, c, d, n
<1>10. Pend(p)'
  <2>1. (Acked(q)' <=> Acked(q)) /\ (Readable(p)' <=> Readable(p)) BY Zenon, <1>2 DEF Acked, Readable
  <2>2. st[p] # "delimiter_received" /\ st[p] \notin {"term_ack_sent", "gone"} BY Zenon, <1>2 DEF Readable
  <2> HIDE DEF y, q
  <2>3. Pend(p)' BY Zenon, <1>2, <1>4, <1>6, <1>7, <1>9, <2>1, <2>2 DEF Pend, y, q
  <2> QED BY Zenon, <2>3
<1> QED BY Zenon, <1>1, <1>8, <1>10 DEF PInv

\* A credential is dropped.
LEMMA SkipCredentialPends ==
    ASSUME Counting, Typed, Hand, FInv, PInv, NEW p \in Ends, SkipCredential(p)
    PROVE  PInv'
<1> DEFINE y == yp[in[p]]
           e == [y EXCEPT !.q = Tail(@)]
           q == Peer(p)
<1>1. q \in Ends /\ q # p /\ Peer(q) = p /\ \A x \in Ends : x = p \/ x = q BY Zenon, Two
<1>2. /\ UNCHANGED <<st, in, out, nread, nwritten, calls, delay>> /\ yp' = [yp EXCEPT ![in[p]] = e]
      /\ y.q # <<>> /\ Head(y.q).kind = "credential" /\ Readable(p)
  BY Zenon DEF SkipCredential, ctrlVars, userVars, Inbound, MayRead
<1>3. y \in Ypipe BY Zenon, There
<1>4. Load(y) = Load(e) + 1 /\ Load(e) \in Nat /\ (Open(y) => Open(e)) /\ (Final(y) => Final(e))
  <2>1. Weight(Head(y.q)) = 1 /\ Head(y.q) # Delimiter
    <3> DEFINE h == Head(y.q)
    <3>1. h.kind = "credential" BY Zenon, <1>2
    <3> HIDE DEF h
    <3>2. Weight(h) = 1 /\ h # Delimiter BY <3>1 DEF Weight, More, Delimiter
    <3> QED BY Zenon, <3>2 DEF h
  <2> QED BY Zenon, <1>2, <1>3, <2>1, LoadRead, FinalRead
<1>5. Passed(p)' = Passed(p) + 1 /\ Passed(p) \in Nat /\ skipped'[q] = skipped[q] /\ nwritten[q] \in Int
  <2>1. skipped \in [Ends -> Nat] /\ nread[p] \in Nat /\ nwritten[q] \in Int
    BY Zenon, <1>1, Types DEF Counts, FInv
  <2>2. skipped' = [skipped EXCEPT ![p] = skipped[p] + 1] BY Zenon DEF SkipCredential
  <2>3. skipped'[p] = skipped[p] + 1 /\ skipped'[q] = skipped[q] BY Zenon, <1>1, <2>1, <2>2
  <2>4. nread[p] + skipped'[p] = (nread[p] + skipped[p]) + 1 BY <2>1, <2>3
  <2>5. Passed(p)' = Passed(p) + 1 BY Zenon, <1>2, <2>4 DEF Passed
  <2> QED BY Zenon, <2>1, <2>3, <2>5, PassedNat
<1>6. Pend(p) /\ Pend(q) /\ in[p] # in[q] BY Zenon, <1>1 DEF PInv, Hand, Apart
<1> HIDE DEF e
<1>7. yp'[in[q]] = yp[in[q]] /\ yp'[in[p]] = e
  <2>1. q \in Ends /\ yp' = [yp EXCEPT ![in[p]] = e] /\ in[p] # in[q] BY Zenon, <1>1, <1>2, <1>6
  <2> HIDE DEF y, q
  <2> QED BY Zenon, <2>1, OtherYpipe
<1>8. Pend(q)' BY Zenon, <1>1, <1>2, <1>4, <1>5, <1>6, <1>7, Undisturbed
<1>9. nwritten[q] + 1 = Passed(p) + Load(y) => nwritten[q] + 1 = Passed(p)' + Load(e)
  <2> DEFINE a == Load(y)
             b == Load(e)
             c == Passed(p)
             d == Passed(p)'
             n == nwritten[q]
  <2>1. a = b + 1 /\ b \in Nat /\ d = c + 1 /\ c \in Nat /\ n \in Int BY Zenon, <1>4, <1>5
  <2> HIDE DEF a, b, c, d, n
  <2>2. n + 1 = c + a => n + 1 = d + b BY <2>1
  <2> QED BY Zenon, <2>2 DEF a, b, c, d, n
<1>10. Pend(p)'
  <2>1. (Acked(q)' <=> Acked(q)) /\ (Readable(p)' <=> Readable(p)) BY Zenon, <1>2 DEF Acked, Readable
  <2>2. st[p] # "delimiter_received" /\ st[p] \notin {"term_ack_sent", "gone"} BY Zenon, <1>2 DEF Readable
  <2> HIDE DEF y, q
  <2>3. Pend(p)' BY Zenon, <1>2, <1>4, <1>6, <1>7, <1>9, <2>1, <2>2 DEF Pend, y, q
  <2> QED BY Zenon, <2>3
<1> QED BY Zenon, <1>1, <1>8, <1>10 DEF PInv

\* hiccup() of an end: of what it reads from then on nothing is said.
LEMMA HiccupPends ==
    ASSUME Counting, Typed, Hand, PInv, NEW p \in Ends, Hiccup(p)
    PROVE  PInv'
<1> DEFINE q == Peer(p)
           n == Len(yp) + 1
<1>1. q \in Ends /\ q # p /\ Peer(q) = p /\ \A x \in Ends : x = p \/ x = q BY Zenon, Two
<1>2. /\ UNCHANGED <<st, out, nread, skipped, nwritten, delay>> /\ Called(p, "hiccup") /\ yp' = Append(yp, NewYpipe)
      /\ in'[p] = n /\ in'[q] = in[q]
  BY Zenon, <1>1 DEF Hiccup, countVars, Typed
<1>3. yp'[n] = NewYpipe /\ yp'[in[q]] = yp[in[q]]
  <2>1. yp \in Seq(Ypipe) /\ NewYpipe \in Ypipe /\ in[q] \in 1..Len(yp)
    BY Zenon, <1>1, Types, FirstYpipe DEF Memory
  <2>2. yp'[n] = NewYpipe /\ \A i \in 1..Len(yp) : yp'[i] = yp[i] BY <1>2, <2>1, AppendProperties
  <2> QED BY Zenon, <2>1, <2>2
<1>4. Open(yp'[in'[p]]) BY Zenon, <1>2, <1>3, LoadEmpty
<1>5. calls'[p].hiccup # 0 /\ calls'[p].term = calls[p].term /\ calls'[q] = calls[q]
  BY Zenon, <1>1, <1>2, CallsSeen
<1>6. Pend(p) /\ Pend(q) BY Zenon, <1>1 DEF PInv
<1> HIDE DEF n
<1>7. Pend(p)' BY Zenon, <1>2, <1>3, <1>5, <1>6, Undisturbed
<1>8. Pend(q)' BY Zenon, <1>1, <1>2, <1>3, <1>4, <1>5, <1>6, Undisturbed
<1> QED BY Zenon, <1>1, <1>7, <1>8 DEF PInv

\* The writer drops what the reader no longer wants.
LEMMA HiccupDonePends ==
    ASSUME Typed, Hand, FInv, PInv, NEW p \in Ends, process_hiccup(p)
    PROVE  PInv'
<1> DEFINE q == Peer(p)
<1>1. q \in Ends /\ q # p /\ Peer(q) = p /\ \A x \in Ends : x = p \/ x = q BY Zenon, Two
<1>2. /\ UNCHANGED <<st, in, nread, skipped, calls, delay>> /\ yp' = [yp EXCEPT ![out[p]] = NewYpipe]
      /\ out'[q] = out[q] /\ nwritten'[q] = nwritten[q] /\ Receive(p, "hiccup")
  BY Zenon, <1>1 DEF process_hiccup, Plugged, userVars, Typed, FInv
<1>3. out[p] # in[q] /\ ~Acked(p) BY Zenon, <1>2, Replacing
<1>4. out[p] # in[p] BY Zenon DEF Hand, Apart
<1>5. yp'[in[p]] = yp[in[p]] /\ yp'[in[q]] = yp[in[q]] BY Zenon, <1>1, <1>2, <1>3, <1>4, OtherYpipe
<1>6. Pend(p) /\ Pend(q) BY Zenon, <1>1 DEF PInv
<1>7. Pend(p)' BY Zenon, <1>2, <1>5, <1>6, Undisturbed
<1>8. calls[q].term # 0 \/ calls[q].hiccup # 0 BY Zenon, <1>1, <1>3, <1>6 DEF Pend
<1>9. Pend(q)' BY Zenon, <1>1, <1>2, <1>5, <1>6, <1>8, Undisturbed
<1> QED BY Zenon, <1>1, <1>7, <1>9 DEF PInv

\* read() of the delimiter: everything before it was read.
LEMMA ReadDelimiterPends ==
    ASSUME Counting, Typed, Hand, FInv, PInv, NEW p \in Ends, ReadDelimiter(p)
    PROVE  PInv'
<1> DEFINE y == yp[in[p]]
           e == [y EXCEPT !.q = Tail(@)]
           q == Peer(p)
<1>1. q \in Ends /\ q # p /\ Peer(q) = p /\ \A x \in Ends : x = p \/ x = q BY Zenon, Two
<1>2. /\ UNCHANGED <<in, nread, skipped, nwritten, calls, delay>> /\ yp' = [yp EXCEPT ![in[p]] = e]
      /\ y.q # <<>> /\ Head(y.q) = Delimiter /\ Readable(p)
  BY Zenon DEF ReadDelimiter, countVars, userVars, Inbound, MayRead
<1>3. /\ st'[p] \in {"delimiter_received", "term_ack_sent"} /\ st'[q] = st[q] /\ out'[q] = out[q]
  BY Zenon, <1>1 DEF ReadDelimiter, DropOut, Typed
<1>4. y \in Ypipe BY Zenon, There
<1>5. ~Open(y) /\ (Final(y) => Load(y) = 1) BY Zenon, <1>2, <1>4, DelimiterNext
<1>6. Pend(p) /\ Pend(q) /\ in[p] # in[q] BY Zenon, <1>1 DEF PInv, Hand, Apart
<1> HIDE DEF e
<1>7. yp'[in[q]] = yp[in[q]] BY Zenon, <1>1, <1>2, <1>6, OtherYpipe
<1>8. Pend(q)'
  <2>1. calls[q].term # 0 BY Zenon, <1>1, <1>5, <1>6 DEF Pend
  <2> QED BY Zenon, <1>2, <2>1 DEF Pend
<1>9. Pend(p)'
  <2>1. ASSUME calls[p].term = 0, calls[p].hiccup = 0
        PROVE  st[q] # "active" /\ Passed(p) = nwritten[q]
    <3>1. Acked(q) \/ out[q] = in[p] BY Zenon, <1>6, <2>1 DEF Pend
    <3>2. st[q] # "active" BY Zenon, <1>1, <1>5, <3>1 DEF FInv, Flow, Acked
    <3>3. ~Gone(q) BY Zenon, <1>1, <1>2 DEF Hand, Joint, Acked, Readable
    <3>4. st[q] = "term_req_sent1" BY Zenon, <1>6, <2>1, <3>2, <3>3 DEF Pend, Gone
    <3>5. Final(y) /\ nwritten[q] + 1 = Passed(p) + Load(y) BY Zenon, <1>2, <1>6, <2>1, <3>4 DEF Pend
    <3>6. nwritten[q] + 1 = Passed(p) + 1 BY Zenon, <1>5, <3>5
    <3>7. nwritten[q] \in Int /\ Passed(p) \in Nat BY Zenon, <1>1, PassedNat DEF FInv
    <3>8. Passed(p) = nwritten[q] BY <3>6, <3>7
    <3> QED BY Zenon, <3>2, <3>8
  <2>2. (Acked(q)' <=> Acked(q)) /\ ~Readable(p)' BY Zenon, <1>3 DEF Acked, Readable
  <2> HIDE DEF y, q
  <2>3. Passed(p)' = Passed(p) BY Zenon, <1>2 DEF Passed
  <2> QED BY Zenon, <1>2, <1>3, <1>6, <1>7, <2>1, <2>2, <2>3 DEF Pend, q
<1> QED BY Zenon, <1>1, <1>8, <1>9 DEF PInv

\* terminate() of the peer writes the delimiter behind everything.
LEMMA TerminatePends ==
    ASSUME Counting, Typed, Hand, FInv, PInv, NEW p \in Ends, NEW d \in BOOLEAN, Terminate(p, d)
    PROVE  PInv'
<1> DEFINE y == yp[out[p]]
           e == Flushed(Written(RolledBack(y), Delimiter))
           q == Peer(p)
<1>1. q \in Ends /\ q # p /\ Peer(q) = p /\ \A x \in Ends : x = p \/ x = q BY Zenon, Two
<1>2. /\ UNCHANGED <<in, out, nread, skipped, nwritten>> /\ yp' = [yp EXCEPT ![out[p]] = e] /\ Called(p, "term")
      /\ st'[q] = st[q] /\ delay'[q] = delay[q]
  BY Zenon, <1>1 DEF Terminate, countVars, Typed
<1>3. /\ st[p] = "active" => st'[p] = "term_req_sent1"
      /\ st[p] \in {"active", "delimiter_received", "waiting_for_delimiter"} /\ ~Acked(p)
  BY Zenon DEF Terminate, Asks, Acked, Typed
<1>4. calls'[p].term # 0 /\ calls'[q] = calls[q] BY Zenon, <1>1, <1>2, CallsSeen
<1>5. Pend(p)' BY Zenon, <1>4 DEF Pend
<1>6. Pend(q) BY Zenon, <1>1 DEF PInv
<1>7. y \in Ypipe BY Zenon, <1>3, There
<1>8. Open(y) => Final(e) /\ Load(e) = Load(y) + 1 BY Zenon, <1>7, FinalWritten
<1>9. out[p] # in[p] /\ (out[p] = in[q] => yp'[in[q]] = e)
  <2>1. out[p] # in[p] BY Zenon DEF Hand, Apart
  <2>2. in[q] \in 1..Len(yp) /\ DOMAIN yp = 1..Len(yp) BY Zenon, <1>1, LenProperties DEF Typed
  <2> HIDE DEF e
  <2> QED BY Zenon, <1>2, <2>1, <2>2
<1> HIDE DEF e
<1>10. yp'[in[p]] = yp[in[p]] BY Zenon, <1>2, <1>9, OtherYpipe
<1>11. ASSUME calls[q].term = 0
       PROVE  /\ st[q] \notin {"delimiter_received", "term_ack_sent", "gone"} \/ calls[q].hiccup # 0
              /\ st[p] = "active" /\ st'[p] = "term_req_sent1"
              /\ Open(y) /\ nwritten[p] + 1 = Passed(q) + Load(e) /\ Final(e)
  <2>1. st[p] = "active" BY Zenon, <1>1, <1>3, <1>6, <1>11 DEF Pend
  <2>2. Open(y) /\ nwritten[p] = Passed(q) + Load(y) BY Zenon, <2>1 DEF FInv, Flow
  <2>3. st[q] \notin {"term_ack_sent", "gone"} BY ZenonT(40), <1>1, <1>3, <2>1 DEF Hand, Joint, Gone
  <2>4. st[q] # "delimiter_received" \/ calls[q].hiccup # 0 BY Zenon, <1>1, <1>6, <1>11, <2>1 DEF Pend
  <2>5. Final(e) /\ Load(e) = Load(y) + 1 BY Zenon, <1>8, <2>2
  <2>6. Passed(q) \in Nat /\ Load(y) \in Nat BY Zenon, <1>1, <1>7, Loads, PassedNat
  <2>7. nwritten[p] + 1 = Passed(q) + Load(e)
    <3> DEFINE a == Load(y)
               b == Load(e)
               c == Passed(q)
               n == nwritten[p]
    <3>1. n = c + a /\ b = a + 1 /\ c \in Nat /\ a \in Nat BY Zenon, <2>2, <2>5, <2>6
    <3> HIDE DEF a, b, c, n
    <3>2. n + 1 = c + b BY <3>1
    <3> QED BY Zenon, <3>2 DEF a, b, c, n
  <2> QED BY Zenon, <1>3, <2>1, <2>2, <2>3, <2>4, <2>5, <2>7
<1>12. Pend(q)'
  <2>1. Acked(q)' <=> Acked(q) BY Zenon, <1>2 DEF Acked
  <2>2. calls[q].term = 0 /\ calls[q].hiccup = 0 => out[p] = in[q] BY Zenon, <1>1, <1>3, <1>6 DEF Pend
  <2>3. Passed(q)' = Passed(q) BY Zenon, <1>2 DEF Passed
  <2> HIDE DEF y
  <2> QED BY Zenon, <1>1, <1>2, <1>4, <1>6, <1>9, <1>10, <1>11, <2>1, <2>2, <2>3 DEF Pend
<1> QED BY Zenon, <1>1, <1>5, <1>12 DEF PInv

\* terminate() of an end that waits for the delimiter.
LEMMA TerminateNowPends ==
    ASSUME Typed, PInv, NEW p \in Ends, TerminateNow(p)
    PROVE  PInv'
<1> DEFINE q == Peer(p)
<1>1. q \in Ends /\ q # p /\ Peer(q) = p /\ \A x \in Ends : x = p \/ x = q BY Zenon, Two
<1>2. calls'[p].term # 0 /\ calls'[q] = calls[q] BY Zenon, <1>1, CallsSeen DEF TerminateNow
<1>3. st[p] = "waiting_for_delimiter" /\ Pend(q) BY Zenon, <1>1 DEF TerminateNow, PInv
<1>4. calls[q].term # 0 BY Zenon, <1>1, <1>3 DEF Pend
<1>5. Pend(p)' /\ Pend(q)' BY Zenon, <1>2, <1>4 DEF Pend
<1> QED BY Zenon, <1>1, <1>5 DEF PInv

\* The peer has asked: an end that delays goes on reading.
LEMMA PipeTermPends ==
    ASSUME Typed, Hand, PInv, NEW p \in Ends, process_pipe_term(p)
    PROVE  PInv'
<1> DEFINE q == Peer(p)
<1>1. q \in Ends /\ q # p /\ Peer(q) = p /\ \A x \in Ends : x = p \/ x = q BY Zenon, Two
<1>2. UNCHANGED <<in, yp, nread, skipped, nwritten, calls, delay>> /\ st'[q] = st[q] /\ out'[q] = out[q]
  BY Zenon, <1>1 DEF process_pipe_term, DropOut, userVars, countVars, Typed
<1>3. \/ st[p] = "active" /\ delay[p] /\ st'[p] = "waiting_for_delimiter"
      \/ ((st[p] = "active" /\ ~delay[p]) \/ st[p] = "delimiter_received") /\ st'[p] = "term_ack_sent"
      \/ st[p] = "term_req_sent1"
  BY Zenon DEF process_pipe_term, Waits, Typed
<1>4. st[q] \in {"term_req_sent1", "term_req_sent2"}
  <2>1. Has(cmds[p], "pipe_term") BY ZenonT(30), Taken DEF process_pipe_term
  <2> QED BY Zenon, <1>1, <2>1 DEF Hand, Joint
<1>5. Pend(p) /\ Pend(q) BY Zenon, <1>1 DEF PInv
<1>6. calls[q].term # 0 BY Zenon, <1>1, <1>4, <1>5 DEF Pend
<1>7. Pend(q)' BY Zenon, <1>2, <1>6 DEF Pend
<1>8. Pend(p)'
  <2>1. Acked(q)' <=> Acked(q) BY Zenon, <1>2 DEF Acked
  <2>2. calls[p].term = 0 => st[p] # "term_req_sent1" BY Zenon, <1>5 DEF Pend
  <2>3. Passed(p)' = Passed(p) BY Zenon, <1>2 DEF Passed
  <2> QED BY Zenon, <1>2, <1>3, <1>5, <2>1, <2>2, <2>3 DEF Pend, Readable
<1> QED BY Zenon, <1>1, <1>7, <1>8 DEF PInv

\* The end goes.
LEMMA TermAckPends ==
    ASSUME Counting, Typed, Hand, PInv, NEW p \in Ends, process_pipe_term_ack(p)
    PROVE  PInv'
<1> DEFINE q == Peer(p)
           e == NewYpipe
<1>1. q \in Ends /\ q # p /\ Peer(q) = p /\ \A x \in Ends : x = p \/ x = q BY Zenon, Two
<1>2. /\ UNCHANGED <<in, nread, skipped, nwritten, calls, delay>> /\ yp' = [yp EXCEPT ![in[p]] = e]
      /\ st'[p] = "gone" /\ st'[q] = st[q] /\ out'[q] = out[q]
      /\ st[p] \in {"term_req_sent1", "term_req_sent2", "term_ack_sent"}
  BY Zenon, <1>1 DEF process_pipe_term_ack, userVars, countVars, Typed
<1>3. Acked(q) /\ Acked(q)' /\ Acked(p)'
  <2>1. ~Gone(p) /\ Has(cmds[p], "pipe_term_ack") BY ZenonT(30), Taken DEF process_pipe_term_ack
  <2>2. Acked(q) BY Zenon, <1>1, <2>1 DEF Hand, Joint
  <2> QED BY Zenon, <1>2, <2>2 DEF Acked
<1>4. Open(e) BY Zenon, LoadEmpty
<1>5. in[p] # in[q] BY Zenon DEF Hand, Apart
<1> HIDE DEF e
<1>6. yp'[in[p]] = e /\ yp'[in[q]] = yp[in[q]]
  <2>1. q \in Ends /\ yp' = [yp EXCEPT ![in[p]] = e] BY Zenon, <1>1, <1>2
  <2> HIDE DEF q
  <2>2. yp'[in[p]] = e BY ZenonT(40), <2>1, OtherYpipe
  <2>3. yp'[in[q]] = yp[in[q]] BY ZenonT(40), <1>5, <2>1, OtherYpipe
  <2> QED BY Zenon, <2>2, <2>3
<1>7. Pend(p) /\ Pend(q) BY Zenon, <1>1 DEF PInv
<1>8. Pend(p)'
  <2>1. calls[p].term = 0 => st[p] = "term_ack_sent" BY Zenon, <1>2, <1>7 DEF Pend
  <2>2. Passed(p)' = Passed(p) BY Zenon, <1>2 DEF Passed
  <2> QED BY Zenon, <1>2, <1>3, <1>6, <1>7, <2>1, <2>2 DEF Pend, Readable
<1>9. Pend(q)'
  <2>1. Passed(q)' = Passed(q) BY Zenon, <1>2 DEF Passed
  <2> QED BY Zenon, <1>1, <1>2, <1>3, <1>4, <1>6, <1>7, <2>1 DEF Pend
<1> QED BY Zenon, <1>1, <1>8, <1>9 DEF PInv

\* Every step keeps PInv.
LEMMA PendContinues ==
    ASSUME Counting, Typed, Hand, FInv, PInv, [Next]_vars
    PROVE  PInv'
<1>1. CASE UNCHANGED vars
  <2>1. \E p \in Ends : TRUE BY Zenon DEF Ends
  <2> QED BY Zenon, <1>1, <2>1, QuietPends
<1>2. ASSUME NEW p \in Ends, NEW kind \in {"single", "head", "tail", "credential"}, Write(p, kind) PROVE PInv'
  BY Zenon, <1>2, WritePends
<1>3. ASSUME NEW p \in Ends, WriteFull(p) PROVE PInv' BY Zenon, <1>3, QuietPends
<1>4. ASSUME NEW p \in Ends, WriteAbort(p) PROVE PInv' BY Zenon, <1>4, WriteAbortPends
<1>5. ASSUME NEW p \in Ends, Flush(p) PROVE PInv' BY Zenon, <1>5, FlushPends
<1>6. ASSUME NEW p \in Ends, Read(p) PROVE PInv'
  BY Zenon, <1>6, SkipCredentialPends, ReadNothingPends, ReadPartPends, ReadDelimiterPends DEF Read
<1>7. ASSUME NEW p \in Ends, NEW d \in BOOLEAN, Terminate(p, d) PROVE PInv' BY Zenon, <1>7, TerminatePends
<1>8. ASSUME NEW p \in Ends, NEW d \in BOOLEAN, TerminateAgain(p, d) PROVE PInv'
  BY Zenon, <1>8, QuietPends
<1>9. ASSUME NEW p \in Ends, TerminateNow(p) PROVE PInv' BY Zenon, <1>9, TerminateNowPends
<1>10. ASSUME NEW p \in Ends, Hiccup(p) PROVE PInv' BY Zenon, <1>10, HiccupPends
<1>11. ASSUME NEW p \in Ends, NEW i \in NewHwms, NEW o \in NewHwms, SetHwms(p, i, o) PROVE PInv'
  BY Zenon, <1>11, QuietPends
<1>12. ASSUME NEW p \in Ends, ProcessCommand(p) PROVE PInv'
  BY Zenon, <1>12, QuietPends, HiccupDonePends, PipeTermPends, TermAckPends DEF ProcessCommand
<1>13. ASSUME NEW p \in Ends, Act(p) PROVE PInv'
  BY Zenon, <1>13, <1>2, <1>3, <1>4, <1>5, <1>7, <1>8, <1>9, <1>10, <1>11, <1>12 DEF Act
<1> QED BY Zenon, <1>1, <1>6, <1>13 DEF Next

\* A new pipe.
LEMMA PendBegins == ASSUME Counting PROVE Init => PInv
<1> SUFFICES ASSUME Init, NEW p \in Ends PROVE Pend(p) BY Zenon DEF PInv
<1> DEFINE q == Peer(p)
<1>1. q \in Ends /\ q # p BY Zenon, Two
<1>2. st[p] = "active" /\ st[q] = "active" BY Zenon, <1>1 DEF Init
<1>3. Open(yp[in[q]])
  <2>1. in[q] \in 1..2 /\ \A i \in 1..2 : yp[i] = NewYpipe BY <1>1 DEF Init, Ends
  <2> QED BY Zenon, <2>1, LoadEmpty
<1>4. out[q] = in[p] BY DEF Init, Ends, Peer
<1> QED BY Zenon, <1>2, <1>3, <1>4 DEF Pend

\* Who acknowledges without having been told to close has read everything.
LEMMA PendEnough == PInv => PendingDelivered
BY Zenon DEF PInv, Pend, PendingDelivered, Gone

-----------------------------------------------------------------------------
(* The number of messages in a sequence: what was assumed of it (Counting) *)

LOCAL FS == INSTANCE FiniteSetTheorems

\* The theorems speak of the operators of FiniteSets.
LEMMA SameSets ==
    \A S : FS!Cardinality(S) = Cardinality(S) /\ (FS!IsFiniteSet(S) <=> IsFiniteSet(S))
<1>1. \A S : FS!Cardinality(S) = Cardinality(S) BY Zenon DEF FS!Cardinality, Cardinality
<1>2. \A S : FS!IsFiniteSet(S) <=> IsFiniteSet(S) BY Zenon DEF FS!IsFiniteSet, IsFiniteSet
<1> QED BY Zenon, <1>1, <1>2

\* It is a number.
LEMMA CountNat ==
    ASSUME NEW s \in Seq(Part)
    PROVE  Messages(s) \in Nat /\ IsFiniteSet({i \in 1..Len(s) : ~More(s[i])})
<1> DEFINE X == {i \in 1..Len(s) : ~More(s[i])}
<1>1. Len(s) \in Nat BY Zenon, LenProperties
<1>2. IsFiniteSet(1..Len(s)) BY <1>1, FS!FS_Interval, SameSets
<1>3. IsFiniteSet(X) BY Zenon, <1>2, FS!FS_Subset, SameSets
<1>4. Cardinality(X) \in Nat BY Zenon, <1>3, FS!FS_CardinalityType, SameSets
<1> QED BY Zenon, <1>3, <1>4 DEF Messages

\* One more part.
LEMMA CountAppend ==
    ASSUME NEW s \in Seq(Part), NEW m \in Part
    PROVE  Messages(Append(s, m)) = Messages(s) + Weight(m)
<1> DEFINE X == {i \in 1..Len(s) : ~More(s[i])}
           t == Append(s, m)
           Y == {i \in 1..Len(t) : ~More(t[i])}
<1>1. /\ t \in Seq(Part) /\ Len(s) \in Nat /\ Len(t) = Len(s) + 1
      /\ t[Len(s) + 1] = m /\ \A i \in 1..Len(s) : t[i] = s[i]
  BY AppendProperties, LenProperties
<1>2. IsFiniteSet(X) /\ Cardinality(X) \in Nat /\ Messages(s) = Cardinality(X)
  BY Zenon, CountNat DEF Messages
<1>3. Messages(t) = Cardinality(Y) BY Zenon DEF Messages
<1> HIDE DEF t
<1>4. Len(s) + 1 \notin X BY <1>1
<1>5. CASE More(m)
  <2>1. Y = X BY <1>1, <1>5
  <2>2. Weight(m) = 0 BY Zenon, <1>5 DEF Weight
  <2> HIDE DEF X, Y
  <2> QED BY <1>2, <1>3, <2>1, <2>2 DEF t
<1>6. CASE ~More(m)
  <2>1. Y = X \union {Len(s) + 1} BY <1>1, <1>6
  <2>2. Cardinality(Y) = Cardinality(X) + 1 BY Zenon, <1>2, <1>4, <2>1, FS!FS_AddElement, SameSets
  <2>3. Weight(m) = 1 BY Zenon, <1>6 DEF Weight
  <2> HIDE DEF X, Y
  <2> QED BY Zenon, <1>2, <1>3, <2>2, <2>3 DEF t
<1> QED BY Zenon, <1>5, <1>6

\* One part less.
LEMMA CountTail ==
    ASSUME NEW s \in Seq(Part), s # <<>>
    PROVE  Messages(s) = Messages(Tail(s)) + Weight(Head(s))
<1> DEFINE X == {i \in 1..Len(s) : ~More(s[i])}
           t == Tail(s)
           Y == {i \in 1..Len(t) : ~More(t[i])}
           Z == X \ {1}
           f == [i \in Y |-> i + 1]
<1>1. /\ t \in Seq(Part) /\ Len(s) \in Nat /\ Len(s) > 0 /\ Len(t) = Len(s) - 1
      /\ \A i \in 1..Len(t) : t[i] = s[i + 1]
      /\ Head(s) = s[1]
  BY HeadTailProperties, LenProperties, EmptySeq
<1>2. IsFiniteSet(X) /\ Cardinality(X) \in Nat /\ Messages(s) = Cardinality(X)
  BY Zenon, CountNat DEF Messages
<1>3. IsFiniteSet(Y) /\ Cardinality(Y) \in Nat /\ Messages(t) = Cardinality(Y)
  BY Zenon, <1>1, CountNat DEF Messages
<1> HIDE DEF t
<1>4. Cardinality(Y) = Cardinality(Z)
  <2>1. f \in [Y -> Z] BY <1>1
  <2>2. \A a, b \in Y : f[a] = f[b] => a = b BY <1>1
  <2>3. \A z \in Z : \E a \in Y : f[a] = z
    <3> TAKE z \in Z
    <3>1. z - 1 \in Y BY <1>1
    <3>2. f[z - 1] = z BY <3>1
    <3> QED BY Zenon, <3>1, <3>2
  <2> HIDE DEF f, Y, Z
  <2>a. DOMAIN f = Y BY Zenon, <2>1
  <2>4. f \in FS!Bijection(Y, Z)
    BY Zenon, <2>1, <2>2, <2>3, <2>a DEF FS!Bijection, FS!Injection, FS!Surjection, FS!IsInjective
  <2>5. FS!ExistsBijection(Y, Z) BY Zenon, <2>4 DEF FS!ExistsBijection
  <2> QED BY Zenon, <1>3, <2>5, FS!FS_Bijection, SameSets
<1>5. CASE More(s[1])
  <2>1. Z = X BY Zenon, <1>5
  <2>2. Weight(Head(s)) = 0 BY Zenon, <1>1, <1>5 DEF Weight
  <2> HIDE DEF X, Y, Z
  <2> QED BY <1>2, <1>3, <1>4, <2>1, <2>2 DEF t
<1>6. CASE ~More(s[1])
  <2>1. 1 \in X BY <1>1, <1>6
  <2>2. Cardinality(Z) = Cardinality(X) - 1 BY Zenon, <1>2, <2>1, FS!FS_RemoveElement, SameSets
  <2>3. Weight(Head(s)) = 1 BY Zenon, <1>1, <1>6 DEF Weight
  <2> HIDE DEF X, Y, Z
  <2> QED BY <1>2, <1>3, <1>4, <2>2, <2>3 DEF t
<1> QED BY Zenon, <1>5, <1>6

\* No part.
LEMMA CountEmpty == Messages(<<>>) = 0
<1>1. Len(<<>>) = 0 BY Zenon, EmptySeq
<1>2. {i \in 1..0 : ~More((<<>>)[i])} = {} OBVIOUS
<1> QED BY Zenon, <1>1, <1>2, FS!FS_EmptySet, SameSets DEF Messages

\* All that was assumed.
LEMMA CountingHolds == Counting
BY Zenon, CountEmpty, CountNat, CountAppend, CountTail DEF Counting

-----------------------------------------------------------------------------
(* The theorems *)

\* The handshake and the counts together are inductive.
THEOREM FlowInvariance ==
    ASSUME Bounds
    PROVE  Spec => [](IInv /\ FInv)
<1>1. Init => FInv BY Zenon, FlowBegins, CountingHolds
<1>2. IInv /\ FInv /\ [Next]_vars => FInv' BY Zenon, FlowContinues, CountingHolds
<1> QED BY <1>1, <1>2, Invariance, PTL DEF Spec

\* check_hwm() compares a count of its own thread with one that the peer's
\* thread sends (read(), process_activate_write()): an active end's count is what
\* its peer has counted and the messages between them, also after
\* process_hiccup() has dropped some, and the credentials that read() has dropped
\* without counting them; and as long as nobody changes the watermarks no more
\* messages are under way than the high one allows.
THEOREM Flows ==
    ASSUME Bounds
    PROVE  Spec => []FlowRight
<1>1. IInv /\ FInv => FlowRight BY Zenon, FlowEnough, CountingHolds DEF IInv
<1> QED BY <1>1, FlowInvariance, PTL

\* Whether an end is between a credential and the part that read() is called for.
Skips == skipping \in [Ends -> BOOLEAN]

\* Only read() changes it.
LEMMA SkipsStay ==
    ASSUME Skips, [Next]_vars
    PROVE  Skips'
<1>1. ASSUME NEW p \in Ends, Read(p) PROVE Skips'
  <2>1. \E b \in BOOLEAN : skipping' = [skipping EXCEPT ![p] = b] BY Zenon, <1>1 DEF Read
  <2> QED BY Zenon, <2>1 DEF Skips
<1>2. ASSUME NEW p \in Ends, Outside(p) PROVE Skips' BY Zenon, <1>2 DEF Outside, Skips
<1>3. CASE UNCHANGED vars BY Zenon, <1>3 DEF vars, Skips
<1> QED BY Zenon, <1>1, <1>2, <1>3 DEF Next

\* The handshake of the two ends: every variable keeps its type, every command
\* finds its pipe in a state that process_pipe_term(), process_pipe_term_ack()
\* and process_hiccup() were written for, none comes to a deleted pipe, and
\* every ypipe is deleted exactly once, after its last user is done with it.
THEOREM HandshakeHolds ==
    ASSUME Bounds
    PROVE  Spec => []HandshakeRight
<1>1. IInv /\ FInv /\ Skips => TypeOK BY Zenon DEF IInv, FInv, Typed, Skips, TypeOK
<1>2. IInv /\ FInv /\ Skips => HandshakeRight BY Zenon, <1>1, Enough DEF HandshakeRight, SafeHandshake
<1>3. Init => Skips BY Zenon DEF Init, Skips
<1>4. Skips /\ [Next]_vars => Skips' BY Zenon, SkipsStay
<1> QED BY <1>2, <1>3, <1>4, FlowInvariance, PTL DEF Spec

\* What write(), rollback(), flush(), read(), hiccup() and terminate() do to the
\* two ypipes, in any order and with every delay of the commands between the
\* ends: messages are read in the order in which they were written, never in
\* halves unless hiccup() replaced a ypipe, and an end that was to delay its
\* termination, and neither closed the pipe nor called hiccup() itself, has read
\* all that its peer wrote when it acknowledges.
THEOREM Delivers ==
    ASSUME Bounds
    PROVE  Spec => []DeliveryRight
<1>1. Init => DInv /\ PInv BY Zenon, DeliveryBegins, PendBegins, CountingHolds
<1>2. IInv /\ FInv /\ DInv /\ PInv /\ [Next]_vars => DInv' /\ PInv'
  BY Zenon, DeliveryContinues, PendContinues, CountingHolds DEF IInv
<1>3. IInv /\ DInv /\ PInv => DeliveryRight
  BY Zenon, DeliveryEnough, PendEnough DEF IInv, DeliveryRight
<1> QED BY <1>1, <1>2, <1>3, FlowInvariance, PTL DEF Spec
=============================================================================
