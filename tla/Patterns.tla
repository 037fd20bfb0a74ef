------------------------------ MODULE Patterns ------------------------------
(***************************************************************************)
(* The message patterns: what the socket types other than the publishing   *)
(* ones do in xattach_pipe(), xsend(), xrecv(), xhas_in(), xhas_out(),     *)
(* xread_activated(), xwrite_activated() and xpipe_terminated(), with      *)
(* several sockets connected to one another (router.cpp, req.cpp, rep.cpp, *)
(* dealer.cpp, pair.cpp, server.cpp, client.cpp, gather.cpp, scatter.cpp,  *)
(* push.cpp, pull.cpp, stream.cpp, dgram.cpp).                             *)
(*                                                                         *)
(* A connection has two ends.  An end is what a socket sees of pipe_t: the *)
(* frames it may read, those it has written and not flushed, and whether   *)
(* reading and writing go on.  Handlers take the whole network `n`, a      *)
(* socket and a connection and give the network as they leave it; a code   *)
(* assertion that fails is kept in n.broken.                               *)
(***************************************************************************)
EXTENDS Integers, FiniteSets, SequencesExt, PipeArray

CONSTANTS
    Scenarios,  \* sequence of [sockets, conns, hwm, parts, closes, mid, late, poll, first, calm]
    IdSpan      \* integral routing ids are counted modulo this number (2^32)

VARIABLES
    conf,       \* the scenario
    n           \* the network

vars == <<conf, n>>

S == Scenarios[conf]
Sockets == DOMAIN S.sockets
Conns == DOMAIN S.conns
opt(i) == S.sockets[i]
Peer(i, c) == IF S.conns[c][1] = i THEN S.conns[c][2] ELSE S.conns[c][1]
NULL == 0

\* A frame: its content, ZMQ_MSG_MORE, the routing_id flag and msg_t's routing id.
Frame(val, more) == [val |-> val, more |-> more, rid |-> FALSE, to |-> 0]
Nil == <<>>
Auto(k) == <<0, k>>
Named(x) == <<1, x>>
ReqId(k) == <<3, k>>
\* A part of the application's message: who sent it, its number, which part of how many.
Body(i, m, part, parts) == <<2, i, m, part, parts>>
IsBody(v) == v # Nil /\ v[1] = 2

Check(nn, what, ok) == IF ok THEN nn ELSE [nn EXCEPT !.broken = @ \cup {what}]

-----------------------------------------------------------------------------
(* The ends of a connection *)

Complete(frames) == Cardinality({k \in DOMAIN frames : ~frames[k].more /\ ~frames[k].rid})

check_hwm(nn, i, c) == Complete(nn.end[<<Peer(i, c), c>>].q) < S.hwm

check_write(nn, i, c) ==
    LET e == nn.end[<<i, c>>]
    IN  e.st = "open" /\ e.ok /\ check_hwm(nn, i, c)

\* A check_write() that finds the pipe full puts the writer to sleep.
wrote(nn, i, c) ==
    LET e == nn.end[<<i, c>>]
    IN  IF e.st = "open" /\ e.ok /\ ~check_hwm(nn, i, c) THEN [nn EXCEPT !.end[<<i, c>>].ok = FALSE] ELSE nn

write(nn, i, c, f) == [nn EXCEPT !.end[<<i, c>>].w = Append(@, f)]

rollback(nn, i, c) == [nn EXCEPT !.end[<<i, c>>].w = <<>>]

\* req_session_t::push_msg(): the frames a REQ socket's session lets through,
\* and the state it is in then; "bad" when the connection is to be closed.
ReqStep(state, f) ==
    CASE state = "bottom" /\ f.more /\ f.val # Nil /\ f.val[1] = 3 -> "request_id"
      [] state \in {"bottom", "request_id"} /\ f.more /\ f.val = Nil -> "body"
      [] state = "body" -> IF f.more THEN "body" ELSE "bottom"
      [] OTHER -> "bad"

req_push_msg(frames) ==
    FoldLeft(LAMBDA state, f : IF state = "bad" THEN "bad" ELSE ReqStep(state, f), "bottom", frames)

\* What a flush makes readable.  A REQ socket's session refuses a message that
\* is no reply: the connection is closed, at both ends.
flush(nn, i, c) ==
    LET p == <<Peer(i, c), c>>
        w == nn.end[<<i, c>>].w
        refused == opt(p[1]).type = "req" /\ opt(p[1]).net /\ req_push_msg(w) = "bad"
        m == [nn EXCEPT !.end[<<i, c>>].w = <<>>]
    IN  IF nn.end[p].st \notin {"new", "open", "ending"} \/ nn.end[p].ended THEN m
        ELSE IF ~refused THEN [m EXCEPT !.end[p].q = @ \o w]
        ELSE [m EXCEPT !.end[p].ended = TRUE, !.end[p].term = TRUE,
                       !.end[<<i, c>>].ended = TRUE, !.end[<<i, c>>].term = TRUE]

Readable(nn, i, c) ==
    LET e == nn.end[<<i, c>>]
    IN  e.st \in {"open", "ending"} /\ e.awake /\ e.q # <<>>

\* A plausible slip: the reader does not go to sleep, and nobody is told of the next message.
read_failed_awake(nn, i, c) ==
    LET e == nn.end[<<i, c>>]
    IN  IF ~(e.st \in {"open", "ending"} /\ e.awake /\ e.q = <<>>) \/ ~e.ended THEN nn
        ELSE [nn EXCEPT !.end[<<i, c>>].st = IF e.st = "open" THEN "delimited" ELSE "closing",
                        !.end[<<i, c>>].w = IF e.st = "open" THEN @ ELSE <<>>]

\* pipe_t::read() or check_read() that gets nothing: the reader goes to sleep,
\* or has met the delimiter (process_delimiter()).
read_failed(nn, i, c) ==
    LET e == nn.end[<<i, c>>]
    IN  IF ~(e.st \in {"open", "ending"} /\ e.awake /\ e.q = <<>>) THEN nn
        ELSE IF ~e.ended THEN [nn EXCEPT !.end[<<i, c>>].awake = FALSE]
        ELSE [nn EXCEPT !.end[<<i, c>>].st = IF e.st = "open" THEN "delimited" ELSE "closing",
                        !.end[<<i, c>>].w = IF e.st = "open" THEN @ ELSE <<>>]

pop(nn, i, c) == [nn EXCEPT !.end[<<i, c>>].q = Tail(@)]
front(nn, i, c) == Head(nn.end[<<i, c>>].q)

\* pipe_t::terminate()
terminate(nn, i, c, delay) ==
    LET e == nn.end[<<i, c>>]
        p == <<Peer(i, c), c>>
    IN  CASE e.st \in {"open", "delimited"} ->
                [nn EXCEPT !.end[<<i, c>>].st = "closing", !.end[<<i, c>>].w = <<>>,
                           !.end[p].ended = TRUE, !.end[p].term = TRUE]
          [] e.st = "ending" /\ ~delay ->
                [nn EXCEPT !.end[<<i, c>>].st = "closing", !.end[<<i, c>>].w = <<>>]
          [] OTHER -> nn

\* pipe_t::process_pipe_term(); set_nodelay() of PUSH and SCATTER.
process_pipe_term(nn, i, c) ==
    LET e == nn.end[<<i, c>>]
        next == CASE e.st = "open" -> IF opt(i).type \in {"push", "scatter"} THEN "closing" ELSE "ending"
                  [] e.st = "delimited" -> "closing"
                  [] OTHER -> e.st
    IN  [nn EXCEPT !.end[<<i, c>>].term = FALSE, !.end[<<i, c>>].st = next,
                   !.end[<<i, c>>].w = IF next = "closing" THEN <<>> ELSE @]

-----------------------------------------------------------------------------
(* fq_t and lb_t, as Fq and Lb have them, over the ends of a socket *)

NoList == [pipes |-> <<>>, active |-> 0, current |-> 0]

list_attach(l, c) ==
    [l EXCEPT !.pipes = Swap(Append(@, c), l.active, Len(l.pipes)), !.active = @ + 1]

list_activated(l, c) == [l EXCEPT !.pipes = Swap(@, Index(@, c), l.active), !.active = @ + 1]

list_terminated(l, c) ==
    LET gone == Index(l.pipes, c) < l.active
        act == IF gone THEN l.active - 1 ELSE l.active
    IN  [pipes |-> Erase(IF gone THEN Swap(l.pipes, Index(l.pipes, c), act) ELSE l.pipes, c),
         active |-> act,
         current |-> IF gone /\ l.current = act THEN 0 ELSE l.current]

lb_terminated(s, c) ==
    [s EXCEPT !.lb = list_terminated(@, c),
              !.dropping = @ \/ (Index(s.lb.pipes, c) = s.lb.current /\ s.lb_more)]

Demoted(old, new) ==
    {c \in ToSet(old.pipes) : Index(old.pipes, c) < old.active /\ Index(new.pipes, c) >= new.active}

\* The list after a loop over it, and the ends as the loop has left them.
fq_replaced(nn, i, old, new) ==
    FoldSet(LAMBDA c, m : read_failed(m, i, c), [nn EXCEPT !.soc[i].fq = new], Demoted(old, new))
fq_settled(nn, i) ==
    LET old == nn.soc[i].fq
    IN  fq_replaced(nn, i, old, Settle(old, {c \in ToSet(old.pipes) : Readable(nn, i, c)}))

lb_replaced(nn, i, old, new) ==
    FoldSet(LAMBDA c, m : wrote(m, i, c), [nn EXCEPT !.soc[i].lb = new], Demoted(old, new))
lb_settled(nn, i) ==
    LET old == nn.soc[i].lb
    IN  lb_replaced(nn, i, old, Settle(old, {c \in ToSet(old.pipes) : check_write(nn, i, c)}))

\* What a call returns: the network, the error or "ok", the frame and its pipe.
Ret(nn, rc, f, c) == [n |-> nn, rc |-> rc, f |-> f, pipe |-> c]
NoFrame == Frame(Nil, FALSE)
Ok(nn) == Ret(nn, "ok", NoFrame, NULL)
Err(nn, rc) == Ret(nn, rc, NoFrame, NULL)

\* Read from the current pipe c of the list, which the loop has left as it is in m.
fq_read(m, i, c, f) ==
    Ret([pop(m, i, c) EXCEPT
             !.soc[i].fq_more = f.more,
             !.soc[i].fq.current = IF f.more THEN @ ELSE (@ + 1) % m.soc[i].fq.active], "ok", f, c)
fq_recvfrom(m, i, c) == fq_read(m, i, c, front(m, i, c))

fq_received(before, m, i) ==
    LET l == m.soc[i].fq
        checked == Check(m, "fq more", ~(m.soc[i].fq_more /\ (l.active = 0 \/ l # before)))
    IN  IF l.active = 0 THEN Err(checked, "again")
        ELSE fq_recvfrom(checked, i, At(l.pipes, l.current))

fq_recvpipe(nn, i) == fq_received(nn.soc[i].fq, fq_settled(nn, i), i)

fq_answer(m, i) == [n |-> m, yes |-> m.soc[i].fq_more \/ m.soc[i].fq.active > 0]
fq_has_in(nn, i) ==
    fq_answer(IF nn.soc[i].fq_more THEN nn ELSE fq_settled(nn, i), i)

\* Write to the current pipe c of the list, which the loop has left as it is in m.
lb_write(m, i, f, c) ==
    LET l == m.soc[i].lb
        sent == [write(m, i, c, f) EXCEPT !.soc[i].lb_more = f.more,
                                          !.soc[i].lb.current = IF f.more THEN @ ELSE (@ + 1) % l.active]
    IN  IF l.active = 0 THEN Err(m, "again")
        ELSE IF m.soc[i].lb_more /\ ~check_write(m, i, c)
        THEN Err([rollback(wrote(m, i, c), i, c) EXCEPT !.soc[i].dropping = f.more, !.soc[i].lb_more = FALSE], "broken")
        ELSE Ret(IF f.more THEN sent ELSE flush(sent, i, c), "ok", NoFrame, c)
lb_sendto(m, i, f) == lb_write(m, i, f, At(m.soc[i].lb.pipes, m.soc[i].lb.current))

lb_sendpipe(nn, i, f) ==
    LET s == nn.soc[i]
    IN  IF s.dropping THEN Ok([nn EXCEPT !.soc[i].lb_more = f.more, !.soc[i].dropping = f.more])
        ELSE lb_sendto(IF s.lb_more THEN nn ELSE lb_settled(nn, i), i, f)

lb_answer(m, i) == [n |-> m, yes |-> m.soc[i].lb_more \/ m.soc[i].lb.active > 0]
lb_has_out(nn, i) == lb_answer(IF nn.soc[i].lb_more THEN nn ELSE lb_settled(nn, i), i)

-----------------------------------------------------------------------------
(* routing_socket_base_t: the pipes by routing id *)

out_pipe(s, id) == {o \in s.out_pipes : o.id = id}
has_out_pipe(s, id) == out_pipe(s, id) # {}
lookup_out_pipe(s, id) == CHOOSE o \in s.out_pipes : o.id = id

add_out_pipe(nn, i, id, c) ==
    [Check(nn, "routing id added twice", ~has_out_pipe(nn.soc[i], id)) EXCEPT
        !.soc[i].out_pipes = @ \cup {[id |-> id, pipe |-> c, active |-> TRUE]},
        !.end[<<i, c>>].id = id]

erase_out_pipe(nn, i, c) ==
    LET gone == out_pipe(nn.soc[i], nn.end[<<i, c>>].id)
    IN  [Check(nn, "no routing id to erase", gone # {}) EXCEPT !.soc[i].out_pipes = @ \ gone]

routing_write_activated(nn, i, c) ==
    LET mine == {o \in nn.soc[i].out_pipes : o.pipe = c}
        m == Check(nn, "activated pipe unknown", mine # {} /\ \A o \in mine : ~o.active)
    IN  [m EXCEPT !.soc[i].out_pipes = (@ \ mine) \cup {[o EXCEPT !.active = TRUE] : o \in mine}]

\* A plausible slip: the refused pipe stays marked as active.
out_pipe_stays(nn, i, o) == nn

out_pipe_inactive(nn, i, o) ==
    [nn EXCEPT !.soc[i].out_pipes = (@ \ {o}) \cup {[o EXCEPT !.active = FALSE]}]

\* The next connection's routing id, chosen by the application, is used once.
extract_connect_routing_id(nn, i) ==
    [Check(nn, "connect routing id taken", ~has_out_pipe(nn.soc[i], nn.soc[i].connect_id)) EXCEPT
        !.soc[i].connect_id = Nil]

\* _next_integral_routing_id++
integral_id(nn, i) == Auto(nn.soc[i].next_id)
bump(nn, i) == [nn EXCEPT !.soc[i].next_id = (@ + 1) % IdSpan]

-----------------------------------------------------------------------------
(* router_t *)

\* identify_peer(): [n, ok].  The handover branch gives the pipe that has the
\* routing id another one, and ends it, at once or after the message being read.
router_handover(nn, i, id) ==
    LET old == lookup_out_pipe(nn.soc[i], id).pipe
        moved == add_out_pipe(erase_out_pipe(nn, i, old), i, integral_id(nn, i), old)
    IN  IF old = nn.soc[i].current_in
        THEN [bump(moved, i) EXCEPT !.soc[i].terminate_current_in = TRUE]
        ELSE terminate(bump(moved, i), i, old, TRUE)

router_identify_peer(nn, i, c, local) ==
    LET s == nn.soc[i]
        f == front(nn, i, c)
        known(m, id) == [n |-> add_out_pipe(m, i, id, c), ok |-> TRUE]
    IN  CASE local /\ s.connect_id # Nil -> known(extract_connect_routing_id(nn, i), s.connect_id)
          [] ~(local /\ s.connect_id # Nil) /\ opt(i).raw -> known(bump(nn, i), integral_id(nn, i))
          [] OTHER ->
                IF ~Readable(nn, i, c) THEN [n |-> read_failed(nn, i, c), ok |-> FALSE]
                ELSE LET m == pop(nn, i, c)
                     IN  IF f.val = Nil THEN known(bump(m, i), integral_id(nn, i))
                         ELSE IF ~has_out_pipe(s, f.val) THEN known(m, f.val)
                         ELSE IF ~opt(i).handover THEN [n |-> m, ok |-> FALSE]
                         ELSE known(router_handover(m, i, f.val), f.val)

router_attach(nn, i, c, local) ==
    LET probed == IF opt(i).probe THEN flush(write(nn, i, c, Frame(Nil, FALSE)), i, c) ELSE nn
        r == router_identify_peer(probed, i, c, local)
    IN  IF r.ok THEN [r.n EXCEPT !.soc[i].fq = list_attach(@, c)]
        ELSE [r.n EXCEPT !.soc[i].anonymous = @ \cup {c}]

router_pipe_terminated(nn, i, c) ==
    IF c \in nn.soc[i].anonymous THEN [nn EXCEPT !.soc[i].anonymous = @ \ {c}]
    ELSE [rollback(erase_out_pipe(nn, i, c), i, c) EXCEPT
              !.soc[i].fq = list_terminated(@, c),
              !.soc[i].current_out = IF @ = c THEN NULL ELSE @]

router_read_activated(nn, i, c) ==
    LET r == router_identify_peer(nn, i, c, FALSE)
    IN  IF c \notin nn.soc[i].anonymous THEN [nn EXCEPT !.soc[i].fq = list_activated(@, c)]
        ELSE IF r.ok THEN [r.n EXCEPT !.soc[i].anonymous = @ \ {c}, !.soc[i].fq = list_attach(@, c)]
        ELSE r.n

\* The first part of xsend(): the routing id of the peer.
router_send_id(nn, i, f) ==
    LET s == nn.soc[i]
        m == [Check(nn, "router current_out", s.current_out = NULL) EXCEPT !.soc[i].more_out = TRUE]
        o == lookup_out_pipe(s, f.val)
        full == ~check_hwm(nn, i, o.pipe)
        refused == out_pipe_inactive(wrote(m, i, o.pipe), i, o)
        give_up(k, rc) == IF opt(i).mandatory THEN Err([k EXCEPT !.soc[i].more_out = FALSE], rc) ELSE Ok(k)
    IN  CASE ~f.more -> Ok(Check(nn, "router current_out", s.current_out = NULL))
          [] f.more /\ ~has_out_pipe(s, f.val) -> give_up(m, "unreachable")
          [] f.more /\ has_out_pipe(s, f.val) /\ ~check_write(nn, i, o.pipe) ->
                give_up(refused, IF full THEN "again" ELSE "unreachable")
          [] OTHER -> Ok([m EXCEPT !.soc[i].current_out = o.pipe])

router_xsend(nn, i, sent) ==
    LET s == nn.soc[i]
        f == [sent EXCEPT !.more = @ /\ ~opt(i).raw]
        m == [nn EXCEPT !.soc[i].more_out = f.more]
        c == s.current_out
        done(k) == [k EXCEPT !.soc[i].current_out = NULL]
    IN  CASE ~s.more_out -> router_send_id(nn, i, sent)
          [] s.more_out /\ c = NULL -> Ok(m)
          [] s.more_out /\ c # NULL /\ opt(i).raw /\ f.val = Nil -> Ok(done(terminate(m, i, c, FALSE)))
          [] s.more_out /\ c # NULL /\ ~(opt(i).raw /\ f.val = Nil) /\ ~check_write(nn, i, c) ->
                Ok(done(rollback(wrote(m, i, c), i, c)))
          [] OTHER -> IF f.more THEN Ok(write(m, i, c, f)) ELSE Ok(done(flush(write(m, i, c, f), i, c)))

router_rollback(nn, i) ==
    LET c == nn.soc[i].current_out
    IN  IF c = NULL THEN nn
        ELSE [rollback(nn, i, c) EXCEPT !.soc[i].current_out = NULL, !.soc[i].more_out = FALSE]

\* The frame goes to the application; after the last one the pipe that has lost
\* its routing id is ended.
router_deliver(nn, i, f) ==
    LET s == nn.soc[i]
        ends == ~f.more /\ s.terminate_current_in
        m == [nn EXCEPT !.soc[i].more_in = f.more]
        e == IF ends THEN [terminate(m, i, s.current_in, TRUE) EXCEPT !.soc[i].terminate_current_in = FALSE] ELSE m
    IN  Ret(IF f.more THEN e ELSE [e EXCEPT !.soc[i].current_in = NULL], "ok", f, NULL)

\* fq_t::recvpipe(), past the routing ids that come after a reconnection.
RECURSIVE recv_no_id(_, _)
recv_no_id(nn, i) ==
    LET r == fq_recvpipe(nn, i)
    IN  IF r.rc = "ok" /\ r.f.rid THEN recv_no_id(r.n, i) ELSE r

\* What r, read from the pipes, gives: the next frame of a message, or the
\* routing id of the peer whose message begins.
router_received(r, i) ==
    CASE r.rc # "ok" -> r
      [] r.rc = "ok" /\ r.n.soc[i].more_in -> router_deliver(r.n, i, r.f)
      [] OTHER -> Ret([r.n EXCEPT !.soc[i].pmsg = r.f, !.soc[i].prefetched = TRUE,
                                  !.soc[i].current_in = r.pipe, !.soc[i].id_sent = TRUE],
                      "ok", Frame(r.n.end[<<i, r.pipe>>].id, TRUE), NULL)

router_xrecv(nn, i) ==
    LET s == nn.soc[i]
    IN  CASE s.prefetched /\ ~s.id_sent ->
                router_deliver([nn EXCEPT !.soc[i].id_sent = TRUE, !.soc[i].pid = NoFrame], i, s.pid)
          [] s.prefetched /\ s.id_sent ->
                router_deliver([nn EXCEPT !.soc[i].prefetched = FALSE, !.soc[i].pmsg = NoFrame], i, s.pmsg)
          [] OTHER -> router_received(recv_no_id(nn, i), i)

router_prefetched(r, i) ==
    IF r.rc # "ok" THEN [n |-> r.n, yes |-> FALSE]
    ELSE [n |-> [r.n EXCEPT !.soc[i].pmsg = r.f, !.soc[i].pid = Frame(r.n.end[<<i, r.pipe>>].id, TRUE),
                            !.soc[i].prefetched = TRUE, !.soc[i].id_sent = FALSE, !.soc[i].current_in = r.pipe],
          yes |-> TRUE]

router_xhas_in(nn, i) ==
    IF nn.soc[i].more_in \/ nn.soc[i].prefetched THEN [n |-> nn, yes |-> TRUE]
    ELSE router_prefetched(recv_no_id(nn, i), i)

router_xhas_out(nn, i) ==
    [n |-> nn, yes |-> opt(i).mandatory => \E o \in nn.soc[i].out_pipes : check_hwm(nn, i, o.pipe)]

-----------------------------------------------------------------------------
(* rep_t *)

rep_xsend(nn, i, f) ==
    LET r == router_xsend(nn, i, f)
    IN  IF ~nn.soc[i].sending_reply THEN Err(nn, "fsm")
        ELSE IF r.rc # "ok" THEN r
        ELSE Ok([r.n EXCEPT !.soc[i].sending_reply = f.more])

\* Copy the labels to the reply pipe, up to the empty frame, r being the frame
\* just received: [n, ok].
rep_label(w) == Check(w.n, "rep label", w.rc = "ok")

RECURSIVE rep_labels(_, _)
rep_labels(r, i) ==
    IF r.rc # "ok" THEN r
    ELSE IF ~r.f.more THEN rep_labels(router_xrecv(router_rollback(r.n, i), i), i)
    ELSE IF r.f.val = Nil THEN Ok([rep_label(router_xsend(r.n, i, r.f)) EXCEPT !.soc[i].request_begins = FALSE])
    ELSE rep_labels(router_xrecv(rep_label(router_xsend(r.n, i, r.f)), i), i)

\* The next part of the request, once the labels are off: the last one flips the
\* machine to the reply-sending state.
rep_received(r, i) ==
    IF r.rc # "ok" \/ r.f.more THEN r
    ELSE [r EXCEPT !.n.soc[i].sending_reply = TRUE, !.n.soc[i].request_begins = TRUE]
rep_unlabelled(b, i) == IF b.rc # "ok" THEN b ELSE rep_received(router_xrecv(b.n, i), i)

rep_xrecv(nn, i) ==
    IF nn.soc[i].sending_reply THEN Err(nn, "fsm")
    ELSE rep_unlabelled(IF nn.soc[i].request_begins THEN rep_labels(router_xrecv(nn, i), i) ELSE Ok(nn), i)

rep_xhas_in(nn, i) == IF nn.soc[i].sending_reply THEN [n |-> nn, yes |-> FALSE] ELSE router_xhas_in(nn, i)
rep_xhas_out(nn, i) == IF ~nn.soc[i].sending_reply THEN [n |-> nn, yes |-> FALSE] ELSE router_xhas_out(nn, i)

-----------------------------------------------------------------------------
(* dealer_t, client_t, push_t, pull_t, gather_t and scatter_t: the lists that a *)
(* class has, all its functions handing on to them, whether it takes messages    *)
(* of one frame only, and whether it probes its peers.                           *)

dealer_t == [fq |-> TRUE, lb |-> TRUE, single |-> FALSE, probes |-> TRUE]
client_t == [fq |-> TRUE, lb |-> TRUE, single |-> TRUE, probes |-> FALSE]
push_t == [fq |-> FALSE, lb |-> TRUE, single |-> FALSE, probes |-> FALSE]
pull_t == [fq |-> TRUE, lb |-> FALSE, single |-> FALSE, probes |-> FALSE]
gather_t == [fq |-> TRUE, lb |-> FALSE, single |-> TRUE, probes |-> FALSE]
scatter_t == [fq |-> FALSE, lb |-> TRUE, single |-> TRUE, probes |-> FALSE]
NoLists == [fq |-> FALSE, lb |-> FALSE, single |-> FALSE, probes |-> FALSE]

\* req_t is a dealer_t.
Class(i) ==
    LET t == opt(i).type
    IN  CASE t \in {"dealer", "req"} -> dealer_t [] t = "client" -> client_t
          [] t = "push" -> push_t [] t = "pull" -> pull_t
          [] t = "gather" -> gather_t [] t = "scatter" -> scatter_t
          [] OTHER -> NoLists

lists_attach(nn, i, c) ==
    LET probed == Class(i).probes /\ opt(i).probe
        m == IF probed THEN flush(write(nn, i, c, Frame(Nil, FALSE)), i, c) ELSE nn
    IN  [m EXCEPT !.soc[i].fq = IF Class(i).fq THEN list_attach(@, c) ELSE @,
                  !.soc[i].lb = IF Class(i).lb THEN list_attach(@, c) ELSE @]

in_terminated(nn, i, c) == [nn EXCEPT !.soc[i].fq = list_terminated(@, c)]

lists_terminated(nn, i, c) ==
    LET m == IF Class(i).lb THEN [nn EXCEPT !.soc[i] = lb_terminated(@, c)] ELSE nn
    IN  IF Class(i).fq THEN in_terminated(m, i, c) ELSE m

fq_read_activated(nn, i, c) == [nn EXCEPT !.soc[i].fq = list_activated(@, c)]
lb_write_activated(nn, i, c) == [nn EXCEPT !.soc[i].lb = list_activated(@, c)]

lists_xsend(nn, i, f) ==
    IF Class(i).single /\ f.more THEN Err(nn, "invalid") ELSE lb_sendpipe(nn, i, f)

\* CLIENT, GATHER and SERVER skip messages of several frames.
RECURSIVE skip_frames(_, _)
skip_frames(nn, i) ==
    LET r == fq_recvpipe(nn, i) IN IF r.rc = "ok" /\ r.f.more THEN skip_frames(r.n, i) ELSE r

RECURSIVE single_xrecv(_, _)
single_xrecv(nn, i) ==
    LET r == fq_recvpipe(nn, i)
        rest == skip_frames(r.n, i)
    IN  IF ~(r.rc = "ok" /\ r.f.more) THEN r
        ELSE IF rest.rc = "ok" THEN single_xrecv(rest.n, i) ELSE rest

lists_xrecv(nn, i) == IF Class(i).single THEN single_xrecv(nn, i) ELSE fq_recvpipe(nn, i)

No(nn) == [n |-> nn, yes |-> FALSE]
lists_xhas_in(nn, i) == IF Class(i).fq THEN fq_has_in(nn, i) ELSE No(nn)
lists_xhas_out(nn, i) == IF Class(i).lb THEN lb_has_out(nn, i) ELSE No(nn)

-----------------------------------------------------------------------------
(* req_t *)

\* "Eat all currently available messages before the request is fully sent."
RECURSIVE req_drain(_, _)
req_drain(nn, i) ==
    LET r == fq_recvpipe(nn, i) IN IF r.rc = "ok" THEN req_drain(r.n, i) ELSE r.n

\* The frames in front of a request: the request id, then the empty frame, each
\* of which may leave the pipe it went to in reply_pipe: [n, rc].
req_bottom_sent(idPipe, bottom, i) ==
    LET pipe == IF bottom.pipe # NULL THEN bottom.pipe ELSE idPipe
        sent == [Check(bottom.n, "no reply pipe", pipe # NULL) EXCEPT
                     !.soc[i].reply_pipe = pipe, !.soc[i].message_begins = FALSE]
    IN  IF bottom.rc # "ok" THEN Err([bottom.n EXCEPT !.soc[i].reply_pipe = idPipe], "again")
        ELSE Ok(req_drain(sent, i))

req_id_sent(id, i) ==
    IF id.rc # "ok" THEN Err(id.n, "again")
    ELSE req_bottom_sent(id.pipe, lb_sendpipe(id.n, i, Frame(Nil, TRUE)), i)

req_prefix(nn, i) ==
    LET m == [nn EXCEPT !.soc[i].reply_pipe = NULL,
                        !.soc[i].request_id = IF opt(i).correlate THEN (@ + 1) % IdSpan ELSE @]
    IN  req_id_sent(IF opt(i).correlate THEN lb_sendpipe(m, i, Frame(ReqId(m.soc[i].request_id), TRUE)) ELSE Ok(m), i)

req_sent(r, i, f) ==
    IF r.rc # "ok" THEN r
    ELSE IF f.more THEN Ok(r.n)
    ELSE Ok([r.n EXCEPT !.soc[i].receiving_reply = TRUE, !.soc[i].message_begins = TRUE])
req_prefixed(p, i, f) == IF p.rc # "ok" THEN p ELSE req_sent(lb_sendpipe(p.n, i, f), i, f)

req_xsend(nn, i, f) ==
    LET s == nn.soc[i]
        m == IF s.receiving_reply
             THEN [nn EXCEPT !.soc[i].receiving_reply = FALSE, !.soc[i].message_begins = TRUE] ELSE nn
    IN  IF s.receiving_reply /\ opt(i).strict THEN Err(nn, "fsm")
        ELSE req_prefixed(IF m.soc[i].message_begins THEN req_prefix(m, i) ELSE Ok(m), i, f)

RECURSIVE recv_reply_pipe(_, _)
recv_reply_pipe(nn, i) ==
    LET r == fq_recvpipe(nn, i)
    IN  IF r.rc = "ok" /\ nn.soc[i].reply_pipe \notin {NULL, r.pipe} THEN recv_reply_pipe(r.n, i) ELSE r

RECURSIVE req_skip(_, _)
req_skip(r, i) ==
    IF r.rc = "ok" /\ r.f.more
    THEN LET t == recv_reply_pipe(r.n, i)
         IN  req_skip([t EXCEPT !.n = Check(@, "reply ends early", t.rc = "ok")], i)
    ELSE r

\* A plausible slip: the request id in front of a reply is read, not compared.
req_any_id(r, i) == r.f.more

\* The first frame of a message has the request id, if request ids are enabled.
req_right_id(r, i) == r.f.more /\ r.f.val = ReqId(r.n.soc[i].request_id)

\* Skip messages until one with the right first frames is found: r is the frame
\* just received, the empty one at the bottom when `bottom` is TRUE.
RECURSIVE req_reply_begins(_, _, _)
req_reply_begins(r, bottom, i) ==
    IF r.rc # "ok" THEN r
    ELSE IF ~(IF bottom THEN r.f.more /\ r.f.val = Nil ELSE req_right_id(r, i))
    THEN req_reply_begins(recv_reply_pipe(req_skip(r, i).n, i), ~opt(i).correlate, i)
    ELSE IF ~bottom THEN req_reply_begins(recv_reply_pipe(r.n, i), TRUE, i)
    ELSE Ok([r.n EXCEPT !.soc[i].message_begins = FALSE])

req_received(r, i) ==
    IF r.rc # "ok" \/ r.f.more THEN r
    ELSE [r EXCEPT !.n.soc[i].receiving_reply = FALSE, !.n.soc[i].message_begins = TRUE]
req_unwrapped(b, i) == IF b.rc # "ok" THEN b ELSE req_received(recv_reply_pipe(b.n, i), i)

req_xrecv(nn, i) ==
    IF ~nn.soc[i].receiving_reply THEN Err(nn, "fsm")
    ELSE req_unwrapped(IF nn.soc[i].message_begins
                       THEN req_reply_begins(recv_reply_pipe(nn, i), ~opt(i).correlate, i) ELSE Ok(nn), i)

req_pipe_terminated(nn, i, c) ==
    lists_terminated([nn EXCEPT !.soc[i].reply_pipe = IF @ = c THEN NULL ELSE @], i, c)

req_xhas_in(nn, i) == IF nn.soc[i].receiving_reply THEN fq_has_in(nn, i) ELSE [n |-> nn, yes |-> FALSE]
req_xhas_out(nn, i) ==
    IF nn.soc[i].receiving_reply /\ opt(i).strict THEN [n |-> nn, yes |-> FALSE] ELSE lb_has_out(nn, i)

-----------------------------------------------------------------------------
(* pair_t and dgram_t: one pipe *)

pair_attach(nn, i, c) ==
    IF nn.soc[i].pipe = NULL THEN [nn EXCEPT !.soc[i].pipe = c] ELSE terminate(nn, i, c, FALSE)

pair_terminated(nn, i, c) == [nn EXCEPT !.soc[i].pipe = IF @ = c THEN NULL ELSE @]

one_write(nn, i, f) ==
    LET c == nn.soc[i].pipe
        m == write(nn, i, c, f)
    IN  IF ~check_write(nn, i, c) THEN Err(wrote(nn, i, c), "again")
        ELSE Ok(IF f.more THEN m ELSE flush(m, i, c))

pair_xsend(nn, i, f) == IF nn.soc[i].pipe = NULL THEN Err(nn, "again") ELSE one_write(nn, i, f)

dgram_xsend(nn, i, f) ==
    LET r == one_write(nn, i, f)
    IN  IF nn.soc[i].pipe = NULL THEN Err(nn, "dropped")
        ELSE IF f.more = nn.soc[i].more_out THEN Err(nn, "invalid")
        ELSE IF r.rc # "ok" THEN r
        ELSE Ok([r.n EXCEPT !.soc[i].more_out = ~@])

pair_xrecv(nn, i) ==
    LET c == nn.soc[i].pipe
    IN  IF c = NULL THEN Err(nn, "again")
        ELSE IF ~Readable(nn, i, c) THEN Err(read_failed(nn, i, c), "again")
        ELSE Ret(pop(nn, i, c), "ok", front(nn, i, c), c)

pair_xhas_in(nn, i) ==
    LET c == nn.soc[i].pipe
    IN  IF c = NULL THEN [n |-> nn, yes |-> FALSE]
        ELSE [n |-> IF Readable(nn, i, c) THEN nn ELSE read_failed(nn, i, c), yes |-> Readable(nn, i, c)]

pair_xhas_out(nn, i) ==
    LET c == nn.soc[i].pipe
    IN  IF c = NULL THEN [n |-> nn, yes |-> FALSE]
        ELSE [n |-> wrote(nn, i, c), yes |-> check_write(nn, i, c)]

\* dgram_t has these functions of pair_t again.
dgram_attach(nn, i, c) == pair_attach(nn, i, c)
dgram_terminated(nn, i, c) == pair_terminated(nn, i, c)
dgram_xrecv(nn, i) == pair_xrecv(nn, i)
dgram_xhas_in(nn, i) == pair_xhas_in(nn, i)
dgram_xhas_out(nn, i) == pair_xhas_out(nn, i)

-----------------------------------------------------------------------------
(* server_t *)

\* "Never use Routing ID zero"
server_attach(nn, i, c) ==
    LET first == nn.soc[i].next_id
        id == IF first = 0 THEN 1 ELSE first
        m == add_out_pipe([nn EXCEPT !.soc[i].next_id = (id + 1) % IdSpan], i, Auto(id), c)
    IN  [m EXCEPT !.soc[i].fq = list_attach(@, c)]

server_terminated(nn, i, c) == in_terminated(erase_out_pipe(nn, i, c), i, c)

server_write_activated(nn, i, c) == routing_write_activated(nn, i, c)

server_xsend(nn, i, f) ==
    LET o == lookup_out_pipe(nn.soc[i], Auto(f.to))
        m == write(nn, i, o.pipe, [f EXCEPT !.to = 0])
    IN  CASE f.more -> Err(nn, "invalid")
          [] ~f.more /\ ~has_out_pipe(nn.soc[i], Auto(f.to)) -> Err(nn, "unreachable")
          [] ~f.more /\ has_out_pipe(nn.soc[i], Auto(f.to)) /\ ~check_write(nn, i, o.pipe) ->
                Err(out_pipe_inactive(wrote(nn, i, o.pipe), i, o), "again")
          [] OTHER -> Ok(flush(m, i, o.pipe))

server_xrecv(nn, i) ==
    LET r == single_xrecv(nn, i)
    IN  IF r.rc # "ok" THEN r ELSE [r EXCEPT !.f.to = nn.end[<<i, r.pipe>>].id[2]]

-----------------------------------------------------------------------------
(* stream_t *)

stream_identify_peer(nn, i, c, local) ==
    IF local /\ nn.soc[i].connect_id # Nil
    THEN add_out_pipe(extract_connect_routing_id(nn, i), i, nn.soc[i].connect_id, c)
    ELSE add_out_pipe(bump(nn, i), i, integral_id(nn, i), c)

stream_attach(nn, i, c, local) ==
    LET m == stream_identify_peer(nn, i, c, local) IN [m EXCEPT !.soc[i].fq = list_attach(@, c)]

stream_terminated(nn, i, c) ==
    [in_terminated(erase_out_pipe(nn, i, c), i, c) EXCEPT !.soc[i].current_out = IF @ = c THEN NULL ELSE @]

stream_send_id(nn, i, f) ==
    LET s == nn.soc[i]
        m == Check(nn, "stream current_out", s.current_out = NULL)
        o == lookup_out_pipe(s, f.val)
    IN  CASE ~f.more -> Ok([m EXCEPT !.soc[i].more_out = TRUE])
          [] f.more /\ ~has_out_pipe(s, f.val) -> Err(m, "unreachable")
          [] f.more /\ has_out_pipe(s, f.val) /\ ~check_write(m, i, o.pipe) ->
                Err(out_pipe_inactive(wrote(m, i, o.pipe), i, o), "again")
          [] OTHER -> Ok([m EXCEPT !.soc[i].current_out = o.pipe, !.soc[i].more_out = TRUE])

stream_xsend(nn, i, f) ==
    LET s == nn.soc[i]
        c == s.current_out
        m == [nn EXCEPT !.soc[i].more_out = FALSE, !.soc[i].current_out = NULL]
    IN  CASE ~s.more_out -> stream_send_id(nn, i, f)
          [] s.more_out /\ c = NULL -> Ok(m)
          [] s.more_out /\ c # NULL /\ f.val = Nil -> Ok(terminate(m, i, c, FALSE))
          [] s.more_out /\ c # NULL /\ f.val # Nil /\ ~check_write(nn, i, c) -> Ok(wrote(m, i, c))
          [] OTHER -> Ok(flush(write(m, i, c, [f EXCEPT !.more = FALSE]), i, c))

\* The next frame and its peer are fetched: by xrecv(), which hands out the
\* routing id, and by xhas_in(), which keeps both.
stream_fetch(nn, i, handed) ==
    LET r == fq_recvpipe(nn, i)
        id == Frame(nn.end[<<i, r.pipe>>].id, TRUE)
        m == Check(r.n, "stream data is whole", r.rc = "ok" => ~r.f.more)
    IN  IF r.rc # "ok" THEN r
        ELSE Ret([m EXCEPT !.soc[i].pmsg = r.f, !.soc[i].prefetched = TRUE, !.soc[i].id_sent = handed,
                           !.soc[i].pid = IF handed THEN @ ELSE id], "ok", id, NULL)

stream_xrecv(nn, i) ==
    LET s == nn.soc[i]
    IN  CASE s.prefetched /\ ~s.id_sent ->
                Ret([nn EXCEPT !.soc[i].id_sent = TRUE, !.soc[i].pid = NoFrame], "ok", s.pid, NULL)
          [] s.prefetched /\ s.id_sent ->
                Ret([nn EXCEPT !.soc[i].prefetched = FALSE, !.soc[i].pmsg = NoFrame], "ok", s.pmsg, NULL)
          [] OTHER -> stream_fetch(nn, i, TRUE)

stream_xhas_in(nn, i) ==
    LET r == stream_fetch(nn, i, FALSE)
    IN  IF nn.soc[i].prefetched THEN [n |-> nn, yes |-> TRUE] ELSE [n |-> r.n, yes |-> r.rc = "ok"]

-----------------------------------------------------------------------------
(* The virtual functions of socket_base_t.  Type "raw" stands for the session *)
(* and the engine behind a STREAM or DGRAM socket's pipe: it has one pipe.     *)

xattach_pipe(nn, i, c, local) ==
    CASE opt(i).type \in {"router", "rep"} -> router_attach(nn, i, c, local)
      [] opt(i).type = "stream" -> stream_attach(nn, i, c, local)
      [] opt(i).type = "server" -> server_attach(nn, i, c)
      [] Class(i) # NoLists -> lists_attach(nn, i, c)
      [] opt(i).type = "dgram" -> dgram_attach(nn, i, c)
      [] OTHER -> pair_attach(nn, i, c)

xpipe_terminated(nn, i, c) ==
    CASE opt(i).type \in {"router", "rep"} -> router_pipe_terminated(nn, i, c)
      [] opt(i).type = "stream" -> stream_terminated(nn, i, c)
      [] opt(i).type = "server" -> server_terminated(nn, i, c)
      [] opt(i).type = "req" -> req_pipe_terminated(nn, i, c)
      [] Class(i) # NoLists /\ opt(i).type # "req" -> lists_terminated(nn, i, c)
      [] opt(i).type = "dgram" -> dgram_terminated(nn, i, c)
      [] OTHER -> pair_terminated(nn, i, c)

xread_activated(nn, i, c) ==
    CASE opt(i).type \in {"router", "rep"} -> router_read_activated(nn, i, c)
      [] Class(i).fq \/ opt(i).type \in {"stream", "server"} -> fq_read_activated(nn, i, c)
      [] OTHER -> nn

xwrite_activated(nn, i, c) ==
    CASE opt(i).type \in {"router", "rep", "stream"} -> routing_write_activated(nn, i, c)
      [] opt(i).type = "server" -> server_write_activated(nn, i, c)
      [] Class(i).lb -> lb_write_activated(nn, i, c)
      [] OTHER -> nn

xsend(nn, i, f) ==
    CASE opt(i).type = "router" -> router_xsend(nn, i, f)
      [] opt(i).type = "rep" -> rep_xsend(nn, i, f)
      [] opt(i).type = "req" -> req_xsend(nn, i, f)
      [] opt(i).type = "stream" -> stream_xsend(nn, i, f)
      [] opt(i).type = "server" -> server_xsend(nn, i, f)
      [] Class(i).lb /\ opt(i).type # "req" -> lists_xsend(nn, i, f)
      [] opt(i).type = "dgram" -> dgram_xsend(nn, i, f)
      [] OTHER -> pair_xsend(nn, i, f)

xrecv(nn, i) ==
    CASE opt(i).type = "router" -> router_xrecv(nn, i)
      [] opt(i).type = "rep" -> rep_xrecv(nn, i)
      [] opt(i).type = "req" -> req_xrecv(nn, i)
      [] opt(i).type = "stream" -> stream_xrecv(nn, i)
      [] opt(i).type = "server" -> server_xrecv(nn, i)
      [] Class(i).fq /\ opt(i).type # "req" -> lists_xrecv(nn, i)
      [] opt(i).type = "dgram" -> dgram_xrecv(nn, i)
      [] OTHER -> pair_xrecv(nn, i)

xhas_in(nn, i) ==
    CASE opt(i).type = "router" -> router_xhas_in(nn, i)
      [] opt(i).type = "rep" -> rep_xhas_in(nn, i)
      [] opt(i).type = "req" -> req_xhas_in(nn, i)
      [] opt(i).type = "stream" -> stream_xhas_in(nn, i)
      [] opt(i).type = "server" -> fq_has_in(nn, i)
      [] Class(i) # NoLists /\ opt(i).type # "req" -> lists_xhas_in(nn, i)
      [] opt(i).type = "dgram" -> dgram_xhas_in(nn, i)
      [] OTHER -> pair_xhas_in(nn, i)

xhas_out(nn, i) ==
    CASE opt(i).type = "router" -> router_xhas_out(nn, i)
      [] opt(i).type = "rep" -> rep_xhas_out(nn, i)
      [] opt(i).type = "req" -> req_xhas_out(nn, i)
      [] opt(i).type \in {"stream", "server"} -> [n |-> nn, yes |-> TRUE]
      [] Class(i) # NoLists /\ opt(i).type # "req" -> lists_xhas_out(nn, i)
      [] opt(i).type = "dgram" -> dgram_xhas_out(nn, i)
      [] OTHER -> pair_xhas_out(nn, i)

-----------------------------------------------------------------------------
(* The applications.  Some make messages, some answer those they receive. *)

Makes(i) == opt(i).type \in {"req", "dealer", "client", "push", "scatter", "pair", "raw"}
Answers(i) == opt(i).type \in {"rep", "router", "server", "stream", "dgram"}

Parts(i, m, parts) == [k \in 1 .. parts |-> Frame(Body(i, m, k, parts), k < parts)]

\* What application i may send next.  To a REP socket a DEALER socket sends an
\* empty frame first; `rude` peers also send messages without it.
Plans(i) ==
    LET a == n.app[i]
        m == a.made + 1
        new == IF a.made < opt(i).msgs THEN UNION {
                   {opt(i).prefix \o Parts(i, m, parts)} \cup (IF opt(i).rude THEN {Parts(i, m, parts)} ELSE {})
                       : parts \in 1 .. (IF opt(i).type = "raw" THEN 1 ELSE S.parts)}
               ELSE {}
        old == {a.todo[k] : k \in DOMAIN a.todo}
        closing == IF opt(i).type = "stream" \/ opt(i).raw
                   THEN {<<Head(o), Frame(Nil, FALSE)>> : o \in old} ELSE {}
        rude == IF opt(i).type = "router" /\ opt(i).rude
                THEN {<<Head(o), Last(o)>> : o \in {p \in old : Len(p) > 2}} ELSE {}
    IN  IF Makes(i) THEN new ELSE old \cup rude \cup (IF n.closed < S.closes THEN closing ELSE {})

Fresh(i) == n.app[i].out = <<>>

\* A call of zmq_send() with the next frame of m.  A blocking send() swallows
\* the part whose message is lost already, and waits while there is no room.
Sent(i, m, r) ==
    LET a == n.app[i]
        begun == [a EXCEPT !.made = IF Makes(i) /\ Fresh(i) THEN @ + 1 ELSE @,
                           !.todo = IF Answers(i) /\ Fresh(i)
                                    THEN SelectSeq(@, LAMBDA t : Head(t) # Head(m) \/ Last(t) # Last(m)) ELSE @]
    IN  CASE r.rc \in {"ok", "broken"} -> [r.n EXCEPT !.app[i] = [begun EXCEPT !.out = Tail(m)]]
          [] r.rc \in {"again", "fsm"} -> r.n
          [] OTHER -> [r.n EXCEPT !.app[i] = [begun EXCEPT !.out = <<>>]]

BodiesOf(m) == SelectSeq([k \in DOMAIN m |-> m[k].val], IsBody)

\* What is wrong with message m, received by application i that has made so many.
Verdict(i, m, made) ==
    LET b == BodiesOf(m)
        split == \E k \in DOMAIN b : b[k] # Body(b[1][2], b[1][3], k, Len(b))
        theirs(v) == v[2] # i /\ (opt(i).name = Nil \/ opt(v[2]).name # opt(i).name)
        stray == opt(i).type \in {"req", "dealer", "client", "raw"} /\ \E k \in DOMAIN b : theirs(b[k])
        stale == /\ opt(i).type = "req" /\ (opt(i).strict \/ opt(i).correlate)
                 /\ \E k \in DOMAIN b : b[k][3] # made
    IN  {w \in {"split", "stray", "stale"} :
            (w = "split" /\ split) \/ (w = "stray" /\ stray) \/ (w = "stale" /\ stale)}

\* A call of zmq_recv(): the last frame completes a message.
Received(i, r) ==
    LET a == n.app[i]
        m == Append(a.in, r.f)
    IN  IF r.rc # "ok" THEN r.n
        ELSE IF r.f.more THEN [r.n EXCEPT !.app[i].in = m]
        ELSE [r.n EXCEPT !.app[i] = [a EXCEPT !.in = <<>>, !.got = IF Makes(i) THEN @ + 1 ELSE @,
                                              !.todo = IF Answers(i) THEN Append(@, m) ELSE @],
                         !.odd = @ \cup Verdict(i, m, a.made)]

-----------------------------------------------------------------------------
(* Initial states and steps *)

NewSocket(i) ==
    [connect_id |-> opt(i).connect_id, fq |-> NoList, fq_more |-> FALSE, lb |-> NoList, lb_more |-> FALSE, dropping |-> FALSE,
     out_pipes |-> {}, anonymous |-> {}, next_id |-> S.first,
     prefetched |-> FALSE, id_sent |-> FALSE, pid |-> NoFrame, pmsg |-> NoFrame,
     current_in |-> NULL, terminate_current_in |-> FALSE, more_in |-> FALSE,
     current_out |-> NULL, more_out |-> FALSE,
     receiving_reply |-> FALSE, message_begins |-> TRUE, reply_pipe |-> NULL, request_id |-> S.first,
     sending_reply |-> FALSE, request_begins |-> TRUE, pipe |-> NULL]

NewEnd == [st |-> "new", q |-> <<>>, w |-> <<>>, awake |-> TRUE, ok |-> TRUE,
           ended |-> FALSE, term |-> FALSE, id |-> Nil]

NewApp == [out |-> <<>>, in |-> <<>>, todo |-> <<>>, made |-> 0, got |-> 0]

\* The pipe is attached to the socket; its peer, when it wants routing ids,
\* finds this one's in front.
attach_pipe(nn, i, c) ==
    LET p == <<Peer(i, c), c>>
        wants == opt(p[1]).type \in {"router", "rep"} /\ ~opt(p[1]).raw
        id == [Frame(opt(i).name, FALSE) EXCEPT !.rid = TRUE]
        m == [nn EXCEPT !.end[<<i, c>>].st = "open", !.end[p].q = IF wants THEN Append(@, id) ELSE @]
    IN  xattach_pipe(m, i, c, S.conns[c][1] = i)

\* Connections are made before the first message, unless the scenario says so.
Connected(nn) ==
    FoldLeft(LAMBDA m, c : attach_pipe(attach_pipe(m, S.conns[c][1], c), S.conns[c][2], c), nn,
             [c \in Conns |-> c])

Init ==
    /\ conf \in DOMAIN Scenarios
    /\ LET new == [soc |-> [i \in Sockets |-> NewSocket(i)],
                   end |-> [ic \in UNION {{<<S.conns[c][1], c>>, <<S.conns[c][2], c>>} : c \in Conns} |-> NewEnd],
                   app |-> [i \in Sockets |-> NewApp],
                   closed |-> 0, broken |-> {}, odd |-> {}]
       IN  n = IF S.late THEN new ELSE Connected(new)

Attach(i, c) == n.end[<<i, c>>].st = "new" /\ n' = attach_pipe(n, i, c)

ReadActivated(i, c) ==
    LET e == n.end[<<i, c>>]
    IN  /\ e.st \in {"open", "ending"} /\ ~e.awake /\ (e.q # <<>> \/ e.ended)
        /\ n' = xread_activated([n EXCEPT !.end[<<i, c>>].awake = TRUE], i, c)

WriteActivated(i, c) ==
    LET e == n.end[<<i, c>>]
    IN  /\ e.st = "open" /\ ~e.ok /\ check_hwm(n, i, c)
        /\ n' = xwrite_activated([n EXCEPT !.end[<<i, c>>].ok = TRUE], i, c)

PipeTerm(i, c) ==
    /\ n.end[<<i, c>>].term /\ n.end[<<i, c>>].st # "new"
    /\ n' = process_pipe_term(n, i, c)

PipeTerminated(i, c) ==
    /\ n.end[<<i, c>>].st = "closing" /\ n.end[<<Peer(i, c), c>>].st \in {"closing", "done"}
    /\ n' = xpipe_terminated([n EXCEPT !.end[<<i, c>>].st = "done"], i, c)

\* zmq_disconnect() or zmq_unbind() by either side, in the middle of a message
\* that is being read only when the scenario says so (see Fq).
Disconnect(i, c) ==
    /\ n.end[<<i, c>>].st = "open" /\ n.closed < S.closes
    /\ n.soc[i].fq_more => S.mid
    /\ n' = [terminate(n, i, c, FALSE) EXCEPT !.closed = @ + 1]

\* Bound: a REQ socket takes a new request id for every attempt; attempts are
\* fewer than there are ids.
Tried(i) == (n.soc[i].request_id - S.first) % IdSpan

Send(i) ==
    \E m \in IF Fresh(i) THEN Plans(i) ELSE {n.app[i].out} :
        \E r \in {xsend(n, i, Head(m))} :
            /\ r.rc = "again" => Tried(i) < IdSpan - 2
            /\ n' = [Sent(i, m, r) EXCEPT !.closed = IF n.end # r.n.end /\ \E ic \in DOMAIN n.end :
                      n.end[ic].st = "open" /\ r.n.end[ic].st = "closing" THEN @ + 1 ELSE @]

Recv(i) ==
    /\ opt(i).type \notin {"push", "scatter"} /\ Len(n.app[i].todo) < 2
    /\ \E r \in {xrecv(n, i)} : n' = Received(i, r)

Poll(i) == S.poll /\ \E r \in {xhas_in(n, i), xhas_out(n, i)} : n' = r.n

Next ==
    /\ UNCHANGED conf
    /\ \/ \E ic \in DOMAIN n.end :
             \/ Attach(ic[1], ic[2]) \/ ReadActivated(ic[1], ic[2]) \/ WriteActivated(ic[1], ic[2])
             \/ PipeTerm(ic[1], ic[2]) \/ PipeTerminated(ic[1], ic[2]) \/ Disconnect(ic[1], ic[2])
       \/ \E i \in Sockets : Send(i) \/ Recv(i) \/ Poll(i)

Spec == Init /\ [][Next]_vars

\* The steps that need no decision: commands are processed, applications go on
\* with what they send and receive whatever there is.  As long as one of them
\* can be taken, one is (of which only calm scenarios make use).
Goes(nn) == nn # n
Progress ==
    /\ UNCHANGED conf
    /\ \/ \E ic \in DOMAIN n.end :
             \/ Attach(ic[1], ic[2]) \/ ReadActivated(ic[1], ic[2]) \/ WriteActivated(ic[1], ic[2])
             \/ PipeTerm(ic[1], ic[2]) \/ PipeTerminated(ic[1], ic[2])
       \/ \E i \in Sockets : Send(i) \/ Recv(i)

CanProgress ==
    \/ \E ic \in DOMAIN n.end :
          LET e == n.end[ic]
              p == <<Peer(ic[1], ic[2]), ic[2]>>
          IN  \/ e.st = "new"
              \/ e.st \in {"open", "ending"} /\ ~e.awake /\ (e.q # <<>> \/ e.ended)
              \/ e.st = "open" /\ ~e.ok /\ check_hwm(n, ic[1], ic[2])
              \/ e.term /\ e.st # "new"
              \/ e.st = "closing" /\ n.end[p].st \in {"closing", "done"}
    \/ \E i \in Sockets :
          \/ \E m \in IF Fresh(i) THEN Plans(i) ELSE {n.app[i].out} :
                LET r == xsend(n, i, Head(m))
                IN  Goes(Sent(i, m, r)) /\ (r.rc = "again" => Tried(i) < IdSpan - 2)
          \/ /\ opt(i).type \notin {"push", "scatter"} /\ Len(n.app[i].todo) < 2
             /\ Goes(Received(i, xrecv(n, i)))

Fairness == []<>~(S.calm /\ CanProgress) \/ []<><<Progress>>_vars
FairSpec == Spec /\ Fairness

-----------------------------------------------------------------------------
(* Properties *)

\* The zmq_asserts of the socket types hold, whatever connects, fills up or
\* closes between two calls: the tables of pipes by routing id and the lists of
\* pipes agree with the pipes, and a message begun is read to its end.
PatternAssertions == n.broken = {}

\* Every message an application receives is one that an application has sent,
\* with all of its parts and no others.
ReceivedWhole == "split" \notin n.odd

\* An answer goes to the peer whose message it answers, or to the one that has
\* taken over its routing id.
RoutedRight == "stray" \notin n.odd

\* A REQ socket that waits for a reply before its next request, or that numbers
\* its requests (ZMQ_REQ_CORRELATE), gives the application the reply to the last
\* request and no other.
RepliesMatch == "stale" \notin n.odd

\* What applications receive is whole, comes from where it should, and answers
\* what was asked (the three above).
DeliveredRight == ReceivedWhole /\ RoutedRight /\ RepliesMatch

\* Where nobody disconnects and no queue overflows, every request is answered:
\* the labels, tables and lists lead each answer back, and no reader sleeps over it.
EveryRequestAnswered ==
    \A i \in 1 .. 3 :
        []<>(i \in Sockets /\ S.calm => n.app[i].got >= n.app[i].made)
=============================================================================
