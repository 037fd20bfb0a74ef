------------------------------ MODULE Session -------------------------------
(***************************************************************************)
(* A session (session_base.cpp) between its socket and the network: the    *)
(* connecters it launches or the listener that launched it, the engine of  *)
(* the connection, the pipe to the socket and the one to the ZAP handler,  *)
(* the linger timer, reconnection and shutdown.  Session, connecter,       *)
(* listener and socket may live in four threads: they talk by commands.    *)
(*                                                                         *)
(* The world is one record.  A handler maps a world to the world it        *)
(* leaves; an assertion that fails is entered in w.broken.  What a pipe    *)
(* guarantees for its queue is verified in YPipe and Pipe; here it is a    *)
(* sequence of frames for each end, "a" the session's and "b" the peer's.  *)
(* The engine is reduced to what it asks of the session (StreamEngine has  *)
(* the rest).                                                              *)
(***************************************************************************)
EXTENDS Naturals, Sequences, FiniteSets

CONSTANTS
    Scenarios,  \* sequence of [active, proto, immediate, reconnect, linger, zap,
                \*              raw, sub, leave, os, fds, in]; the bounds fds and
                \*              in: connections made, messages that arrive
    MaxFds,     \* bound: the largest S.fds
    MaxPipes,   \* bound: pipes between session and socket
    MaxOut      \* bound: messages the application sends

VARIABLES
    conf,       \* the scenario
    w           \* the world

vars == <<conf, w>>

S == conf

NULL == 0
Zap == MaxPipes + 1         \* the pipe to the ZAP handler
Peer(e) == IF e = "a" THEN "b" ELSE "a"

Send(x, to, cmd, who) == [x EXCEPT !.box[to] = Append(@, [cmd |-> cmd, who |-> who])]
SendConnecter(x, c, cmd, who) == [x EXCEPT !.cbox[c] = Append(@, [cmd |-> cmd, who |-> who])]
Check(x, ok, name) == IF ok THEN x ELSE [x EXCEPT !.broken = @ \cup {name}]
CloseFd(x, fd) == [x EXCEPT !.fds[fd] = "closed"]

Box(p, e) == IF e = "a" THEN "session" ELSE IF p = Zap THEN "zap" ELSE "socket"
Owner == IF S.active THEN "socket" ELSE "listener"

-----------------------------------------------------------------------------
(* own_t of the session                                                    *)

process_destroy(x) ==
    LET s == x.ses
        y == Check(x, s.pipe = NULL /\ ~s.zap_pipe, "~session_base_t")
        z == IF s.engine = NULL THEN y ELSE CloseFd(y, s.engine)
    IN  [z EXCEPT !.ses.st = "gone", !.ses.engine = NULL, !.ses.linger_timer = FALSE]

check_term_acks(x) ==
    IF x.ses.terminating /\ x.ses.due = 0 /\ x.ses.acks = 0
    THEN process_destroy(Send(Check(x, x.ses.owned = {}, "check_term_acks"), Owner, "term_ack", "session"))
    ELSE x

process_seqnum(x) == check_term_acks([x EXCEPT !.ses.due = @ - 1])

RECURSIVE SendTerm(_, _, _)
SendTerm(x, cs, linger) ==
    IF cs = {} THEN x
    ELSE LET c == CHOOSE i \in cs : TRUE
         IN  SendTerm(SendConnecter(x, c, "term", linger), cs \ {c}, linger)

own_process_term(x, linger) ==
    LET y == SendTerm(Check(x, ~x.ses.terminating, "own_t::process_term"), x.ses.owned, linger)
    IN  check_term_acks([y EXCEPT !.ses.acks = @ + Cardinality(x.ses.owned),
                                  !.ses.owned = {}, !.ses.terminating = TRUE])

process_term_req(x, c) ==
    IF x.ses.terminating \/ c \notin x.ses.owned THEN x
    ELSE SendConnecter([x EXCEPT !.ses.owned = @ \ {c}, !.ses.acks = @ + 1], c, "term", S.linger)

process_own(x, c) ==
    IF x.ses.terminating THEN SendConnecter([x EXCEPT !.ses.acks = @ + 1], c, "term", "zero")
    ELSE [x EXCEPT !.ses.owned = @ \cup {c}]

\* A plausible slip: the last acknowledgement does not end the session.
process_term_ack_unchecked(x) ==
    [Check(x, x.ses.acks > 0, "unregister_term_ack") EXCEPT !.ses.acks = @ - 1]

process_term_ack(x) ==
    check_term_acks([Check(x, x.ses.acks > 0, "unregister_term_ack") EXCEPT !.ses.acks = @ - 1])

terminate(x) == IF x.ses.terminating THEN x ELSE Send(x, Owner, "term_req", "session")

-----------------------------------------------------------------------------
(* Pipes, as a session and a socket see them                               *)

new_pipe == [st |-> [e \in {"a", "b"} |-> "active"],
             delay |-> [e \in {"a", "b"} |-> TRUE],
             q |-> [e \in {"a", "b"} |-> <<>>],
             half |-> FALSE,
             in_active |-> [e \in {"a", "b"} |-> TRUE],
             asleep |-> [e \in {"a", "b"} |-> FALSE],
             out |-> [e \in {"a", "b"} |-> TRUE],
             stale |-> FALSE]
no_pipe == [new_pipe EXCEPT !.st = [e \in {"a", "b"} |-> "none"]]

(* Writes whole messages, or the delimiter, and flushes.  Until the peer   *)
(* has handled a hiccup it writes to the queue nobody reads any more.      *)
write_flush(x, p, e, items) ==
    LET o == Peer(e)
        y == IF e = "b" /\ x.pipes[p].stale THEN x ELSE [x EXCEPT !.pipes[p].q[o] = @ \o items]
    IN  IF x.pipes[p].asleep[o] /\ x.pipes[p].st[e] # "term_ack_sent"
        THEN Send([y EXCEPT !.pipes[p].asleep[o] = FALSE], Box(p, o), "activate_read", p)
        ELSE y

pipe_rollback(x, p, e) == IF e = "a" THEN [x EXCEPT !.pipes[p].half = FALSE] ELSE x

pipe_term_ack(x, p, e, st) ==
    Send([x EXCEPT !.pipes[p].st[e] = st, !.pipes[p].out[e] = FALSE], Box(p, Peer(e)), "pipe_term_ack", p)

process_delimiter(x, p, e) ==
    IF x.pipes[p].st[e] = "active" THEN [x EXCEPT !.pipes[p].st[e] = "delimiter_received"]
    ELSE pipe_term_ack(x, p, e, "term_ack_sent")

Readable(x, p, e) == x.pipes[p].in_active[e] /\ x.pipes[p].st[e] \in {"active", "waiting_for_delimiter"}

Sleep(x, p, e) == [x EXCEPT !.pipes[p].in_active[e] = FALSE, !.pipes[p].asleep[e] = TRUE]
PopFrame(x, p, e) == [x EXCEPT !.pipes[p].q[e] = Tail(@)]

pipe_check_read(x, p, e) ==
    IF ~Readable(x, p, e) THEN x
    ELSE IF x.pipes[p].q[e] = <<>> THEN Sleep(x, p, e)
    ELSE IF Head(x.pipes[p].q[e]) = "delimiter" THEN process_delimiter(PopFrame(x, p, e), p, e)
    ELSE x

(* What a read returns, and the world after it.                            *)
pipe_read(x, p, e) ==
    IF Readable(x, p, e) /\ x.pipes[p].q[e] # <<>> /\ Head(x.pipes[p].q[e]) # "delimiter"
    THEN [frame |-> Head(x.pipes[p].q[e]), w |-> PopFrame(x, p, e)]
    ELSE [frame |-> "none", w |-> pipe_check_read(x, p, e)]

pipe_terminate(x, p, e, delay) ==
    LET st == x.pipes[p].st[e]
        y == [x EXCEPT !.pipes[p].delay[e] = delay]
        z == IF st \in {"active", "delimiter_received"}
             THEN Send([y EXCEPT !.pipes[p].st[e] = "term_req_sent1"], Box(p, Peer(e)), "pipe_term", p)
             ELSE IF ~delay THEN pipe_term_ack(pipe_rollback(y, p, e), p, e, "term_ack_sent")
             ELSE y
    IN  IF st \in {"term_req_sent1", "term_req_sent2", "term_ack_sent"} THEN y
        ELSE IF z.pipes[p].out[e] THEN write_flush(pipe_rollback(z, p, e), p, e, <<"delimiter">>)
        ELSE z

process_pipe_term(x, p, e) ==
    LET st == x.pipes[p].st[e]
    IN  CASE st = "active" /\ x.pipes[p].delay[e] -> [x EXCEPT !.pipes[p].st[e] = "waiting_for_delimiter"]
          [] st = "active" \/ st = "delimiter_received" -> pipe_term_ack(x, p, e, "term_ack_sent")
          [] st = "term_req_sent1" -> pipe_term_ack(x, p, e, "term_req_sent2")
          [] OTHER -> Check(x, FALSE, "process_pipe_term")

pipe_hiccup(x, p) ==
    IF x.pipes[p].st["a"] # "active" THEN x
    ELSE Send([x EXCEPT !.pipes[p].q["a"] = <<>>, !.pipes[p].in_active["a"] = TRUE, !.pipes[p].stale = TRUE,
                        !.pipes[p].asleep["a"] = FALSE],
              Box(p, "b"), "hiccup", p)

-----------------------------------------------------------------------------
(* Connecters                                                              *)

connecter_t == [st |-> "none", delayed |-> FALSE, s |-> NULL, handle |-> FALSE, connect_timer |-> FALSE,
                reconnect_timer |-> FALSE, terminating |-> FALSE, status |-> "unplugged", out |-> 0, in |-> 0]

FreeFds(x) == {fd \in 1..S.fds : x.fds[fd] = "unused"}
NewFd(x) == CHOOSE fd \in FreeFds(x) : \A g \in FreeFds(x) : fd <= g

(* open(): what the operating system may answer.  "refused" leaves a       *)
(* socket open, "unresolved" has none.                                     *)
Answers(x) == IF FreeFds(x) = {} THEN {"unresolved"} ELSE {"done", "inprogress", "refused", "unresolved"} \cap S.os

tcp_open(x, c, os) ==
    LET y == Check(x, x.cons[c].s = NULL, "open")
    IN  IF os = "unresolved" THEN y
        ELSE [y EXCEPT !.cons[c].s = NewFd(x), !.fds[NewFd(x)] = "open"]

(* The other connecters open their sockets with the same outcomes.         *)
ipc_open(x, c, os) == tcp_open(x, c, os)
tipc_open(x, c, os) == tcp_open(x, c, os)
connect_to_proxy(x, c, os) == tcp_open(x, c, os)

(* connect(): the descriptor of a connection that is up, NULL otherwise.   *)
tcp_connect(x, c, net) ==
    IF net = "error" THEN [fd |-> NULL, w |-> x]
    ELSE [fd |-> x.cons[c].s, w |-> [x EXCEPT !.cons[c].s = NULL]]

ipc_connect(x, c, net) == tcp_connect(x, c, net)
tipc_connect(x, c, net) == tcp_connect(x, c, net)
tune_socket(net) == net # "untuned"

close(x, c) ==
    IF x.cons[c].s = NULL THEN Check(x, FALSE, "close")
    ELSE [CloseFd(x, x.cons[c].s) EXCEPT !.cons[c].s = NULL]

rm_handle(x, c) == [Check(x, x.cons[c].handle, "rm_fd") EXCEPT !.cons[c].handle = FALSE]

add_connect_timer(x, c) == [x EXCEPT !.cons[c].connect_timer = TRUE]
add_reconnect_timer(x, c) == IF S.reconnect THEN [x EXCEPT !.cons[c].reconnect_timer = TRUE] ELSE x

(* send_attach to the session, then terminate(): term_req to the session.  *)
attach(x, c, fd) ==
    Send(Send([x EXCEPT !.ses.due = @ + 1], "session", "attach", fd), "session", "term_req", c)

tcp_out_event(x, c, net) ==
    LET y == rm_handle([x EXCEPT !.cons[c].connect_timer = FALSE], c)
        r == tcp_connect(y, c, net)
    IN  IF r.fd = NULL \/ ~tune_socket(net) THEN add_reconnect_timer(close(r.w, c), c)
        ELSE attach(r.w, c, r.fd)

ipc_out_event(x, c, net) ==
    LET r == ipc_connect(rm_handle(x, c), c, net)
    IN  IF r.fd = NULL THEN add_reconnect_timer(close(r.w, c), c) ELSE attach(r.w, c, r.fd)

tipc_out_event(x, c, net) ==
    LET r == tipc_connect(rm_handle(x, c), c, net)
    IN  IF r.fd = NULL THEN add_reconnect_timer(close(r.w, c), c) ELSE attach(r.w, c, r.fd)

tcp_start_connecting(x, c, os, net) ==
    LET y == tcp_open(x, c, os)
    IN  CASE os = "done" -> tcp_out_event([y EXCEPT !.cons[c].handle = TRUE], c, net)
          [] os = "inprogress" -> add_connect_timer([y EXCEPT !.cons[c].handle = TRUE], c)
          [] OTHER -> add_reconnect_timer(IF y.cons[c].s # NULL THEN close(y, c) ELSE y, c)

ipc_start_connecting(x, c, os, net) ==
    LET y == ipc_open(x, c, os)
    IN  CASE os = "done" -> ipc_out_event([y EXCEPT !.cons[c].handle = TRUE], c, net)
          [] os = "inprogress" -> [y EXCEPT !.cons[c].handle = TRUE]
          [] OTHER -> add_reconnect_timer(IF y.cons[c].s # NULL THEN close(y, c) ELSE y, c)

tipc_start_connecting(x, c, os, net) ==
    LET y == tipc_open(x, c, os)
    IN  CASE os = "done" -> tipc_out_event([y EXCEPT !.cons[c].handle = TRUE], c, net)
          [] os = "inprogress" -> [y EXCEPT !.cons[c].handle = TRUE]
          [] OTHER -> add_reconnect_timer(IF y.cons[c].s # NULL THEN close(y, c) ELSE y, c)

(* The SOCKS connecter talks to the proxy before it attaches an engine:    *)
(* "out" bytes of a greeting or of a request are still to be sent, "in"    *)
(* parts of an answer were received.                                       *)
Greeting == 3
greeting_encode(x, c) == [x EXCEPT !.cons[c].out = Greeting]
request_encode(x, c) == [x EXCEPT !.cons[c].out = Greeting]
output(x, c, n) == [x EXCEPT !.cons[c].out = IF n >= @ THEN 0 ELSE @ - n]
has_pending_data(x, c) == x.cons[c].out > 0
choice_input(x, c) == [x EXCEPT !.cons[c].in = 1]
response_input(x, c) == [x EXCEPT !.cons[c].in = 1]

socks_start_timer(x, c) ==
    IF S.reconnect THEN [x EXCEPT !.cons[c].reconnect_timer = TRUE, !.cons[c].status = "waiting_for_reconnect_time"]
    ELSE x

socks_error(x, c) ==
    socks_start_timer([close(rm_handle(x, c), c) EXCEPT !.cons[c].out = 0, !.cons[c].in = 0], c)

socks_initiate_connect(x, c, os) ==
    LET y == connect_to_proxy(x, c, os)
    IN  CASE os = "done" -> [y EXCEPT !.cons[c].handle = TRUE, !.cons[c].status = "sending_greeting"]
          [] os = "inprogress" ->
                [y EXCEPT !.cons[c].handle = TRUE, !.cons[c].status = "waiting_for_proxy_connection"]
          [] OTHER -> socks_start_timer(IF y.cons[c].s # NULL THEN close(y, c) ELSE y, c)

check_proxy_connection(n) == n # 0

(* An output event: the connection to the proxy is up, or n bytes of the   *)
(* greeting or of the request go out.                                      *)
socks_out_event(x, c, n) ==
    LET d == x.cons[c]
        y == output(Check(x, has_pending_data(x, c), "has_pending_data"), c, n)
    IN  IF d.status = "waiting_for_proxy_connection"
        THEN IF ~check_proxy_connection(n) THEN socks_error(x, c)
             ELSE [greeting_encode(x, c) EXCEPT !.cons[c].status = "sending_greeting"]
        ELSE IF n = 0 THEN socks_error(y, c)
        ELSE [y EXCEPT !.cons[c].status = IF has_pending_data(y, c) THEN @
                                          ELSE IF @ = "sending_greeting" THEN "waiting_for_choice"
                                          ELSE "waiting_for_response"]

(* An input event: part of an answer, all of it, a refusal or an error.    *)
socks_in_event(x, c, net) ==
    LET fd == x.cons[c].s
        choice == x.cons[c].status = "waiting_for_choice"
        response == x.cons[c].status = "waiting_for_response"
    IN  CASE net = "error" \/ (~choice /\ ~response) -> socks_error(x, c)
          [] net = "part" /\ choice -> choice_input(x, c)
          [] net = "part" /\ response -> response_input(x, c)
          [] net = "up" /\ choice ->
                [request_encode(x, c) EXCEPT !.cons[c].status = "sending_request", !.cons[c].in = 0]
          [] net = "up" /\ response ->
                [rm_handle(attach(x, c, fd), c) EXCEPT !.cons[c].s = NULL, !.cons[c].status = "unplugged"]

connecter_start(x, c, os, net) ==
    CASE S.proto = "tcp" -> tcp_start_connecting(x, c, os, net)
      [] S.proto = "ipc" -> ipc_start_connecting(x, c, os, net)
      [] S.proto = "tipc" -> tipc_start_connecting(x, c, os, net)
      [] S.proto = "socks" -> socks_initiate_connect(x, c, os)

socks_process_plug(x, c, os) ==
    IF x.cons[c].delayed THEN socks_start_timer(x, c) ELSE socks_initiate_connect(x, c, os)

connecter_process_plug(x, c, os, net) ==
    LET y == [x EXCEPT !.cons[c].st = "up"]
    IN  IF S.proto = "socks" THEN socks_process_plug(y, c, os)
        ELSE IF x.cons[c].delayed THEN add_reconnect_timer(y, c)
        ELSE connecter_start(y, c, os, net)

(* process_term: timers cancelled, descriptor closed.                      *)
ipc_process_term(x, c) ==
    LET d == x.cons[c]
        y == [x EXCEPT !.cons[c].reconnect_timer = FALSE]
        z == IF d.handle THEN rm_handle(y, c) ELSE y
    IN  [IF d.s # NULL THEN close(z, c) ELSE z EXCEPT !.cons[c].terminating = TRUE]

tipc_process_term(x, c) == ipc_process_term(x, c)
\* A plausible slip: the connect timer is left running.
tcp_process_term_timed(x, c) == ipc_process_term(x, c)

tcp_process_term(x, c) == ipc_process_term([x EXCEPT !.cons[c].connect_timer = FALSE], c)

socks_process_term(x, c) ==
    LET d == x.cons[c]
        y == CASE d.status = "unplugged" -> x
               [] d.status = "waiting_for_reconnect_time" -> [x EXCEPT !.cons[c].reconnect_timer = FALSE]
               [] OTHER -> LET z == rm_handle(x, c) IN IF d.s # NULL THEN close(z, c) ELSE z
    IN  [y EXCEPT !.cons[c].terminating = TRUE]

connecter_process_term(x, c) ==
    CASE S.proto = "tcp" -> tcp_process_term(x, c)
      [] S.proto = "ipc" -> ipc_process_term(x, c)
      [] S.proto = "tipc" -> tipc_process_term(x, c)
      [] S.proto = "socks" -> socks_process_term(x, c)

(* timer_event: a connection attempt took longer than ZMQ_CONNECT_TIMEOUT. *)
connect_timer_event(x, c) ==
    add_reconnect_timer(close(rm_handle([x EXCEPT !.cons[c].connect_timer = FALSE], c), c), c)

reconnect_timer_event(x, c, os, net) ==
    connecter_start([Check(x, S.proto = "socks" => x.cons[c].status = "waiting_for_reconnect_time", "timer_event")
                       EXCEPT !.cons[c].reconnect_timer = FALSE], c, os, net)

(* own_t::process_term of an object without children: it acknowledges and  *)
(* is destroyed.                                                           *)
connecter_destroyed(x, c) ==
    LET d == x.cons[c]
        y == Check(x, ~d.connect_timer /\ ~d.reconnect_timer /\ ~d.handle /\ d.s = NULL, "~connecter_t")
    IN  Send([y EXCEPT !.cons[c].st = "gone"], "session", "term_ack", c)

-----------------------------------------------------------------------------
(* The session                                                             *)

session_base_t == [st |-> "up", pipe |-> NULL, zap_pipe |-> FALSE, terminating_pipes |-> {},
                   incomplete_in |-> FALSE, pending |-> FALSE, engine |-> NULL, handshaking |-> FALSE,
                   linger_timer |-> FALSE, terminating |-> FALSE, acks |-> 0, due |-> 1, owned |-> {}]

FreeOf(f, k) == {i \in DOMAIN f : f[i].st = k}

(* start_connecting: a connecter is launched, or an engine attached at     *)
(* once where there is no connection to make (udp).                        *)
start_connecting(x, wait) ==
    LET c == CHOOSE i \in FreeOf(x.cons, "none") : \A j \in FreeOf(x.cons, "none") : i <= j
        fd == NewFd(x)
        y == [x EXCEPT !.ses.due = @ + 1]
    IN  IF S.proto = "udp" THEN Send([y EXCEPT !.fds[fd] = "open"], "session", "attach", fd)
        ELSE Send(SendConnecter([y EXCEPT !.cons[c] = [connecter_t EXCEPT !.st = "new", !.delayed = wait]],
                                c, "plug", NULL), "session", "own", c)

process_plug(x) == IF S.active THEN start_connecting(x, FALSE) ELSE x

pull_msg(x) ==
    IF x.ses.pipe = NULL THEN [frame |-> "none", w |-> x]
    ELSE LET r == pipe_read(x, x.ses.pipe, "a")
         IN  IF r.frame = "none" THEN r
             ELSE [r EXCEPT !.w.ses.incomplete_in = (r.frame = "more")]

(* A frame from the network: half a message is kept back until the rest    *)
(* of it is written.                                                       *)
push_msg(x) ==
    LET p == x.ses.pipe
    IN  IF p = NULL \/ x.pipes[p].st["a"] # "active" THEN x
        ELSE IF ~x.pipes[p].half THEN [x EXCEPT !.pipes[p].half = TRUE]
        ELSE write_flush([x EXCEPT !.pipes[p].half = FALSE], p, "a", <<"last">>)

(* Messages have two frames, so one more frame ends a half-read message.   *)
clean_pipes(x) ==
    LET y == pipe_rollback(x, x.ses.pipe, "a")
        r == pull_msg(y)
    IN  IF ~x.ses.incomplete_in THEN y
        ELSE [Check(r.w, r.frame # "none", "clean_pipes") EXCEPT !.ses.incomplete_in = FALSE, !.cut = @ + 1]

pipe_terminated(x, p) ==
    LET s == x.ses
        y == CASE p = s.pipe -> [x EXCEPT !.ses.pipe = NULL, !.ses.linger_timer = FALSE]
               [] p = Zap -> [x EXCEPT !.ses.zap_pipe = FALSE]
               [] OTHER -> [Check(x, p \in s.terminating_pipes, "pipe_terminated")
                               EXCEPT !.ses.terminating_pipes = @ \ {p}]
        z == IF ~s.terminating /\ S.raw
             THEN terminate(IF s.engine = NULL THEN y ELSE [CloseFd(y, s.engine) EXCEPT !.ses.engine = NULL])
             ELSE y
    IN  IF s.pending /\ z.ses.pipe = NULL /\ ~z.ses.zap_pipe /\ z.ses.terminating_pipes = {}
        THEN own_process_term([z EXCEPT !.ses.pending = FALSE], "zero")
        ELSE z

read_activated(x, p) ==
    LET s == x.ses
    IN  IF p # s.pipe /\ ~(p = Zap /\ s.zap_pipe)
        THEN Check(x, p \in s.terminating_pipes, "read_activated")
        ELSE IF s.engine # NULL THEN x
        ELSE IF s.pipe = NULL THEN Check(x, FALSE, "read_activated without a pipe")
        ELSE pipe_check_read(x, s.pipe, "a")

process_pipe_term_ack(x, p) ==
    LET y == pipe_terminated(x, p)
        z == IF x.pipes[p].st["a"] = "term_req_sent1" THEN pipe_term_ack(y, p, "a", "gone")
             ELSE Check(y, x.pipes[p].st["a"] \in {"term_ack_sent", "term_req_sent2"}, "process_pipe_term_ack")
    IN  [z EXCEPT !.pipes[p].st["a"] = "gone"]

process_activate_read(x, p) ==
    IF x.pipes[p].in_active["a"] \/ x.pipes[p].st["a"] \notin {"active", "waiting_for_delimiter"} THEN x
    ELSE read_activated([x EXCEPT !.pipes[p].in_active["a"] = TRUE], p)

process_attach(x, fd) ==
    LET p == CHOOSE i \in FreeOf(x.pipes, no_pipe.st) : \A j \in FreeOf(x.pipes, no_pipe.st) : i <= j
        y == IF x.ses.pipe # NULL \/ x.ses.terminating THEN x
             ELSE Send([x EXCEPT !.pipes[p] = new_pipe, !.ses.pipe = p, !.sock.due = @ + 1], "socket", "bind", p)
    IN  [Check(y, x.ses.engine = NULL, "process_attach") EXCEPT !.ses.engine = fd, !.ses.handshaking = (S.proto # "udp")]

resubscribe(x) == IF x.ses.pipe # NULL /\ S.sub THEN pipe_hiccup(x, x.ses.pipe) ELSE x

reconnect(x) ==
    LET s == x.ses
        y == IF s.pipe # NULL /\ S.immediate /\ S.proto # "udp"
             THEN [pipe_terminate(pipe_hiccup(x, s.pipe), s.pipe, "a", FALSE)
                     EXCEPT !.ses.terminating_pipes = @ \cup {s.pipe}, !.ses.pipe = NULL, !.ses.linger_timer = FALSE]
             ELSE x
    IN  resubscribe(IF S.reconnect THEN start_connecting(y, TRUE) ELSE Send(y, "socket", "term_endpoint", NULL))

(* The engine is dead: reason is "connection", "timeout" or "protocol".    *)
terminate_pipes(x) ==
    LET u == IF x.ses.pipe = NULL THEN x ELSE pipe_terminate(x, x.ses.pipe, "a", FALSE)
    IN  IF x.ses.zap_pipe THEN pipe_terminate(u, Zap, "a", FALSE) ELSE u

after_error(x, reason) ==
    IF reason # "protocol" /\ S.active THEN reconnect(x)
    ELSE IF x.ses.pending THEN terminate_pipes(x)
    ELSE terminate(x)

\* "Just in case there's only a delimiter in the pipe."
check_delimiter(x) == IF x.ses.pipe = NULL THEN x ELSE pipe_check_read(x, x.ses.pipe, "a")
check_zap_delimiter(x) == IF x.ses.zap_pipe THEN pipe_check_read(x, Zap, "a") ELSE x

engine_error(x, reason) ==
    LET y == [CloseFd(x, x.ses.engine) EXCEPT !.ses.engine = NULL]
        z == IF y.ses.pipe = NULL THEN y ELSE clean_pipes(y)
    IN  check_zap_delimiter(check_delimiter(after_error(z, reason)))

process_term(x, linger) ==
    LET s == x.ses
        y == [Check(x, ~s.pending, "process_term") EXCEPT !.ses.pending = TRUE]
        t == pipe_terminate([y EXCEPT !.ses.linger_timer = (linger = "finite")], s.pipe, "a", linger # "zero")
        z == IF s.pipe = NULL THEN y
             ELSE IF s.engine = NULL THEN pipe_check_read(t, s.pipe, "a") ELSE t
    IN  IF s.pipe = NULL /\ ~s.zap_pipe /\ s.terminating_pipes = {} THEN own_process_term(x, "zero")
        ELSE IF s.zap_pipe THEN pipe_terminate(z, Zap, "a", FALSE)
        ELSE z

linger_timer_event(x) ==
    pipe_terminate([Check(x, x.ses.pipe # NULL, "timer_event") EXCEPT !.ses.linger_timer = FALSE],
                   x.ses.pipe, "a", FALSE)

(* The pipe to the ZAP handler, and a request on it.                       *)
zap_connect(x) ==
    IF x.ses.zap_pipe THEN x
    ELSE [x EXCEPT !.ses.zap_pipe = TRUE, !.pipes[Zap] = [new_pipe EXCEPT !.delay["a"] = FALSE]]

session_process_command(x, c) ==
    CASE c.cmd = "plug" -> process_seqnum(process_plug(x))
      [] c.cmd = "own" -> process_seqnum(process_own(x, c.who))
      [] c.cmd = "attach" -> process_seqnum(process_attach(x, c.who))
      [] c.cmd = "term" -> process_term(x, c.who)
      [] c.cmd = "term_req" -> process_term_req(x, c.who)
      [] c.cmd = "term_ack" -> process_term_ack(x)
      [] c.cmd = "activate_read" -> process_activate_read(x, c.who)
      [] c.cmd = "pipe_term" -> process_pipe_term(x, c.who, "a")
      [] c.cmd = "pipe_term_ack" -> process_pipe_term_ack(x, c.who)

-----------------------------------------------------------------------------
(* The socket's side (socket_base.cpp) and the listener's                  *)

socket_check_term(x) ==
    IF x.sock.terminating /\ x.sock.due = 0 /\ x.sock.acks = 0 THEN [x EXCEPT !.sock.gone = TRUE] ELSE x

socket_seqnum(x) == socket_check_term([x EXCEPT !.sock.due = @ - 1])

socket_term_child(x, o) ==
    IF x.sock.terminating \/ o \notin x.sock.owned THEN x
    ELSE Send([x EXCEPT !.sock.owned = @ \ {o}, !.sock.acks = @ + 1], o, "term", S.linger)

attach_pipe(x, p) ==
    LET y == [x EXCEPT !.sock.pipes = @ \cup {p}]
    IN  IF x.sock.terminating THEN pipe_terminate([y EXCEPT !.sock.acks = @ + 1], p, "b", FALSE) ELSE y

socket_process_own(x, o) ==
    IF x.sock.terminating THEN Send([x EXCEPT !.sock.acks = @ + 1], o, "term", "zero")
    ELSE [x EXCEPT !.sock.owned = @ \cup {o}]

hiccuped(x, p) ==
    LET st == x.pipes[p].st["b"]
        y == [x EXCEPT !.pipes[p].stale = FALSE]
    IN  IF st = "active" /\ S.immediate THEN pipe_terminate(y, p, "b", FALSE) ELSE y

socket_pipe_terminated(x, p) ==
    LET y == [x EXCEPT !.sock.pipes = @ \ {p}, !.sock.endpoint = IF @ = p THEN NULL ELSE @]
    IN  IF x.sock.terminating THEN socket_check_term([y EXCEPT !.sock.acks = @ - 1]) ELSE y

socket_pipe_term_ack(x, p) ==
    LET y == socket_pipe_terminated(x, p)
        z == IF x.pipes[p].st["b"] = "term_req_sent1" THEN pipe_term_ack(y, p, "b", "gone") ELSE y
    IN  [z EXCEPT !.pipes[p].st["b"] = "gone"]

term_endpoint(x) ==
    LET p == x.sock.endpoint
        y == IF p = NULL THEN x ELSE pipe_terminate(x, p, "b", FALSE)
    IN  socket_term_child(y, IF S.active THEN "session" ELSE "listener")

(* term_endpoint handles the commands that wait before it acts.            *)
process_term_endpoint(x) ==
    IF x.box["socket"] # <<>> THEN Send(x, "socket", "term_endpoint", NULL) ELSE term_endpoint(x)

RECURSIVE TerminateAll(_, _)
TerminateAll(x, ps) ==
    IF ps = {} THEN x
    ELSE LET p == CHOOSE i \in ps : TRUE IN TerminateAll(pipe_terminate(x, p, "b", FALSE), ps \ {p})

socket_process_term(x) ==
    LET y == TerminateAll(x, x.sock.pipes)
        z == IF x.sock.owned = {} THEN y
             ELSE Send(y, IF S.active THEN "session" ELSE "listener", "term", S.linger)
    IN  socket_check_term([z EXCEPT !.sock.terminating = TRUE, !.sock.owned = {},
                              !.sock.acks = @ + Cardinality(x.sock.pipes) + Cardinality(x.sock.owned)])

socket_process_command(x, c) ==
    CASE c.cmd = "own" -> socket_seqnum(socket_process_own(x, c.who))
      [] c.cmd = "bind" -> socket_seqnum(attach_pipe(x, c.who))
      [] c.cmd = "term_req" -> socket_term_child(x, c.who)
      [] c.cmd = "term_ack" -> socket_check_term([x EXCEPT !.sock.acks = @ - 1])
      [] c.cmd = "term_endpoint" -> process_term_endpoint(x)
      [] c.cmd = "hiccup" -> hiccuped(x, c.who)
      [] c.cmd = "activate_read" -> [x EXCEPT !.pipes[c.who].in_active["b"] = TRUE]
      [] c.cmd = "pipe_term" -> process_pipe_term(x, c.who, "b")
      [] c.cmd = "pipe_term_ack" -> socket_pipe_term_ack(x, c.who)

(* A listener owns the sessions of the connections it accepted.            *)
listener_check_term(x) ==
    IF x.lsn.terminating /\ x.lsn.due = 0 /\ x.lsn.acks = 0
    THEN Send([x EXCEPT !.lsn.st = "gone"], "socket", "term_ack", "listener")
    ELSE x

listener_term_child(x, linger) ==
    Send([x EXCEPT !.lsn.owned = FALSE, !.lsn.acks = @ + 1], "session", "term", linger)

listener_process_command(x, c) ==
    CASE c.cmd = "plug" -> [x EXCEPT !.lsn.st = "up"]
      [] c.cmd = "own" ->
            listener_check_term([IF x.lsn.terminating THEN listener_term_child(x, "zero")
                                 ELSE [x EXCEPT !.lsn.owned = TRUE] EXCEPT !.lsn.due = @ - 1])
      [] c.cmd = "term_req" ->
            IF x.lsn.terminating \/ ~x.lsn.owned THEN x ELSE listener_term_child(x, S.linger)
      [] c.cmd = "term" ->
            listener_check_term([IF x.lsn.owned THEN listener_term_child(x, c.who) ELSE x
                                   EXCEPT !.lsn.terminating = TRUE])
      [] c.cmd = "term_ack" -> listener_check_term([x EXCEPT !.lsn.acks = @ - 1])

(* in_event of a listener: a session for the new connection.               *)
accept(x) ==
    LET fd == NewFd(x)
        y == [x EXCEPT !.fds[fd] = "open", !.ses.st = "up", !.ses.due = 2, !.lsn.due = @ + 1]
    IN  Send(Send(Send(y, "session", "plug", NULL), "listener", "own", "session"), "session", "attach", fd)

-----------------------------------------------------------------------------
Boxes == {"session", "socket", "listener", "zap"}

(* zmq_connect has just returned: the session is on its way to its thread, *)
(* with a pipe unless ZMQ_IMMEDIATE is set.  Or a listener is bound.       *)
Init ==
    /\ conf \in {Scenarios[i] : i \in DOMAIN Scenarios}
    /\ LET piped == S.active /\ (~S.immediate \/ S.proto = "udp")
           boxes == [b \in Boxes |-> <<>>]
           child == IF S.active THEN "session" ELSE "listener"
       IN  w = [ses |-> [session_base_t EXCEPT !.st = IF S.active THEN "up" ELSE "none",
                                               !.pipe = IF piped THEN 1 ELSE NULL],
                cons |-> [c \in 1..(MaxFds + 1) |-> connecter_t],
                pipes |-> [p \in 1..Zap |-> IF p = 1 /\ piped THEN new_pipe ELSE no_pipe],
                fds |-> [fd \in 1..MaxFds |-> "unused"],
                box |-> [boxes EXCEPT ![child] = <<[cmd |-> "plug", who |-> NULL]>>,
                                      !["socket"] = <<[cmd |-> "own", who |-> child]>>],
                cbox |-> [c \in 1..(MaxFds + 1) |-> <<>>],
                sock |-> [terminating |-> FALSE, gone |-> FALSE, due |-> 1, acks |-> 0, owned |-> {},
                          pipes |-> IF piped THEN {1} ELSE {}, endpoint |-> IF piped THEN 1 ELSE NULL],
                lsn |-> [st |-> "new", terminating |-> FALSE, due |-> 0, acks |-> 0, owned |-> FALSE],
                broken |-> {},
                left |-> "no", sent |-> 0, pulled |-> 0, cut |-> 0, arrived |-> 0, got |-> 0, refused |-> FALSE,
                unowned |-> FALSE, late |-> FALSE]

Pop(b) == [w EXCEPT !.box[b] = Tail(@)]
(* A failed assertion aborts the process.                                  *)
Do(x) == w.broken = {} /\ w' = x /\ UNCHANGED conf

SessionCommand ==
    /\ w.box["session"] # <<>>
    /\ LET c == Head(w.box["session"])
           alive == IF c.cmd \in {"activate_read", "pipe_term", "pipe_term_ack"}
                    THEN w.pipes[c.who].st["a"] # "gone" ELSE w.ses.st # "gone"
       IN  IF alive THEN Do(session_process_command(Pop("session"), c))
           ELSE Do(Check(Pop("session"), FALSE, "command for a destroyed object"))

SocketCommand ==
    /\ w.box["socket"] # <<>>
    /\ Do(socket_process_command(Pop("socket"), Head(w.box["socket"])))

ListenerCommand ==
    /\ w.box["listener"] # <<>>
    /\ Do(listener_process_command(Pop("listener"), Head(w.box["listener"])))

(* What the operating system says of a connection attempt.                 *)
Nets == {"up", "error", "untuned"} \cap S.os

ConnecterCommand(c) ==
    /\ w.cbox[c] # <<>>
    /\ LET x == [w EXCEPT !.cbox[c] = Tail(@)]
       IN  IF Head(w.cbox[c]).cmd = "plug"
           THEN IF w.cons[c].delayed THEN Do(connecter_process_plug(x, c, "none", "none"))
                ELSE \E os \in Answers(w) : \E net \in Nets : Do(connecter_process_plug(x, c, os, net))
           ELSE Do(connecter_destroyed(connecter_process_term(x, c), c))

ConnecterEvent(c) ==
    /\ w.cons[c].st = "up" /\ w.cons[c].handle
    /\ CASE S.proto = "tcp" -> \E net \in Nets : Do(tcp_out_event(w, c, net))
         [] S.proto = "ipc" -> \E net \in Nets : Do(ipc_out_event(w, c, net))
         [] S.proto = "tipc" -> \E net \in Nets : Do(tipc_out_event(w, c, net))
         [] S.proto = "socks" /\ w.cons[c].status \in {"waiting_for_choice", "waiting_for_response"} ->
               \E net \in {"up", "error", "part"} : Do(socks_in_event(w, c, net))
         [] S.proto = "socks" -> \E n \in {0, 1, Greeting} : Do(socks_out_event(w, c, n))

ReconnectTimer(c) ==
    /\ w.cons[c].reconnect_timer
    /\ \E os \in Answers(w) : \E net \in Nets : Do(reconnect_timer_event(w, c, os, net))

ConnectTimer(c) == w.cons[c].connect_timer /\ Do(connect_timer_event(w, c))

Accept ==
    /\ ~S.active /\ w.lsn.st = "up" /\ ~w.lsn.terminating /\ w.ses.st = "none" /\ FreeFds(w) # {}
    /\ Do(accept(w))

LingerTimer == w.ses.linger_timer /\ Do(linger_timer_event(w))

(* What an engine does with its session.                                   *)
Engine == w.ses.st = "up" /\ w.ses.engine # NULL

(* With ZAP, the engine has read the handler's reply (read_zap_msg).       *)
HandshakeDone ==
    /\ Engine /\ w.ses.handshaking
    /\ S.zap => w.ses.zap_pipe /\ w.pipes[Zap].q["a"] # <<>> /\ Readable(w, Zap, "a")
    /\ Do([IF S.zap THEN pipe_read(w, Zap, "a").w ELSE w EXCEPT !.ses.handshaking = FALSE])

ZapRequest ==
    /\ Engine /\ w.ses.handshaking /\ S.zap /\ ~w.ses.zap_pipe /\ w.pipes[Zap].st["a"] = "none"
    /\ Do([write_flush(zap_connect(w), Zap, "a", <<"last">>) EXCEPT !.late = w.ses.pending])

PullMsg ==
    /\ Engine /\ ~w.ses.handshaking /\ w.ses.pipe # NULL /\ Readable(w, w.ses.pipe, "a")
    /\ LET r == pull_msg(w)
       IN  Do([r.w EXCEPT !.pulled = @ + IF r.frame = "last" THEN 1 ELSE 0])

PushMsg ==
    /\ Engine /\ ~w.ses.handshaking /\ w.ses.pipe # NULL /\ w.arrived < 2 * S.in
    /\ Do([push_msg(w) EXCEPT !.arrived = @ + 1])

(* An engine gives up; udp_engine_t never does.                            *)
EngineError(reason) ==
    /\ Engine /\ S.proto # "udp"
    /\ Do([engine_error(w, reason) EXCEPT !.refused = @ \/ reason = "protocol"])

(* The ZAP handler reads a request, replies, and ends its side of a pipe.  *)
ZapHandler ==
    \/ /\ w.box["zap"] # <<>>
       /\ LET c == Head(w.box["zap"])
              x == Pop("zap")
          IN  Do(CASE c.cmd = "activate_read" -> [x EXCEPT !.pipes[Zap].in_active["b"] = TRUE]
                   [] c.cmd = "pipe_term" -> process_pipe_term(x, Zap, "b")
                   [] c.cmd = "pipe_term_ack" -> [x EXCEPT !.pipes[Zap].st["b"] = "gone"])
    \/ /\ w.pipes[Zap].st["b"] \in {"active", "waiting_for_delimiter"} /\ w.pipes[Zap].in_active["b"]
       /\ LET r == pipe_read(w, Zap, "b")
          IN  Do(IF r.frame = "none" \/ r.w.pipes[Zap].st["b"] # "active" THEN r.w
                 ELSE write_flush(r.w, Zap, "b", <<"last">>))

(* The application.                                                        *)
AppSend ==
    /\ w.left = "no" /\ w.sent < MaxOut
    /\ \E p \in w.sock.pipes :
         /\ w.pipes[p].st["b"] = "active"
         /\ Do([write_flush(w, p, "b", <<"more", "last">>) EXCEPT !.sent = @ + 1])

AppRecv ==
    /\ ~w.sock.terminating
    /\ \E p \in w.sock.pipes :
         /\ Readable(w, p, "b")
         /\ LET r == pipe_read(w, p, "b")
            IN  Do([r.w EXCEPT !.got = @ + IF r.frame = "last" THEN 1 ELSE 0])

(* zmq_close, as the reaper takes it up: commands that wait in the mailbox *)
(* are handled after the socket has begun to terminate.  The session may   *)
(* not be owned yet (w.unowned): it will be told to go with linger 0.      *)
Close ==
    /\ S.leave = "close" /\ w.left = "no"
    /\ Do([socket_process_term(w) EXCEPT
             !.left = "close",
             !.unowned = \E i \in DOMAIN w.box["socket"] : w.box["socket"][i].cmd = "own"])

(* zmq_disconnect or zmq_unbind handle the commands that wait first.       *)
Disconnect ==
    /\ S.leave = "disconnect" /\ w.left = "no" /\ w.box["socket"] = <<>>
    /\ Do([term_endpoint(w) EXCEPT !.left = "disconnect"])

Connecters == 1..(MaxFds + 1)

Next ==
    \/ SessionCommand \/ SocketCommand \/ ListenerCommand
    \/ \E c \in Connecters : ConnecterCommand(c) \/ ConnecterEvent(c) \/ ReconnectTimer(c) \/ ConnectTimer(c)
    \/ Accept \/ LingerTimer
    \/ HandshakeDone \/ ZapRequest \/ PullMsg \/ PushMsg
    \/ \E reason \in {"connection", "timeout", "protocol"} : EngineError(reason)
    \/ ZapHandler
    \/ AppSend \/ AppRecv \/ Close \/ Disconnect

CanZap == w.box["zap"] # <<>> \/ Readable(w, Zap, "b")
CanRecv == ~w.sock.terminating /\ \E p \in w.sock.pipes : Readable(w, p, "b")

(* Every thread handles its commands, a linger timer fires, the ZAP        *)
(* handler serves its pipe and an application that stays reads its         *)
(* messages.  Nothing is assumed of the network and of the peer: a         *)
(* handshake need not end, nor need the engine get rid of a message.       *)
Fairness ==
    /\ []<>(w.box["session"] = <<>>) \/ []<><<SessionCommand>>_vars
    /\ []<>(w.box["socket"] = <<>>) \/ []<><<SocketCommand>>_vars
    /\ []<>(w.box["listener"] = <<>>) \/ []<><<ListenerCommand>>_vars
    /\ \A c \in Connecters : []<>(w.cbox[c] = <<>>) \/ []<><<ConnecterCommand(c)>>_vars
    /\ []<>(~w.ses.linger_timer) \/ []<><<LingerTimer>>_vars
    /\ []<>~CanZap \/ []<><<ZapHandler>>_vars
    /\ []<>~CanRecv \/ []<><<AppRecv>>_vars

Spec == Init /\ [][Next]_vars
FairSpec == Spec /\ Fairness

-----------------------------------------------------------------------------
Attaching == {i \in DOMAIN w.box["session"] : w.box["session"][i].cmd = "attach"}
Trying == {c \in Connecters : w.cons[c].s # NULL \/ w.cons[c].reconnect_timer
                               \/ (w.cbox[c] # <<>> /\ Head(w.cbox[c]).cmd = "plug")}

(* No assertion of session_base.cpp, the connecters, own.cpp or pipe.cpp   *)
(* fails, no command reaches an object that was destroyed and no           *)
(* descriptor is removed from a poller twice, whatever the order in which  *)
(* the threads handle their commands and whenever the connection fails.    *)
(* Except that of clean_pipes, that the rest of a message whose first      *)
(* frames the engine has taken can be read (session_base.cpp:206-212) and, *)
(* each in its scenario only: close() of a tcp connecter whose             *)
(* connect() has handed over a descriptor that cannot be tuned             *)
(* (tcp_connecter.cpp:111-116), has_pending_data() of a SOCKS connecter    *)
(* whose connect() succeeds at once, so that no greeting was encoded       *)
(* (socks_connecter.cpp:218-222), its second rm_fd() when it has failed    *)
(* with no reconnection to wait for and is told to go (107, 260), and the  *)
(* pipe read_activated takes for granted when a ZAP reply comes after both *)
(* the engine and the pipe have gone (session_base.cpp:276-280).           *)
Known ==
    {"clean_pipes"} \cup {n \in {"close"} : S.proto = "tcp" /\ "untuned" \in S.os}
                    \cup {n \in {"has_pending_data"} : S.proto = "socks" /\ "done" \in S.os}
                    \cup {n \in {"rm_fd"} : S.proto = "socks" /\ ~S.reconnect}
                    \cup {n \in {"read_activated without a pipe"} : S.zap}
AssertionsHold == w.broken \subseteq Known

(* A session has one connection at most: an engine, an engine on its way   *)
(* (attach) or one connecter that is trying.  A descriptor is open exactly *)
(* as long as one of them holds it: none leaks, none is closed twice or    *)
(* shared.  (A failed assertion has aborted the process.)                  *)
OneConnection == w.broken = {} =>
    /\ Cardinality(Attaching) + Cardinality(Trying) + (IF w.ses.engine = NULL THEN 0 ELSE 1) <= 1
    /\ \A fd \in 1..MaxFds :
          (w.fds[fd] = "open") = (w.ses.engine = fd \/ (\E i \in Attaching : w.box["session"][i].who = fd)
                                    \/ \E c \in Connecters : w.cons[c].s = fd)

(* doc/zmq_setsockopt.txt on ZMQ_LINGER -1: "Pending messages shall not be *)
(* discarded after a call to zmq_disconnect() or zmq_close()".  When the   *)
(* session of a connecting socket is gone, every message was given to an   *)
(* engine, except one a lost connection cut off, unless the peer was       *)
(* refused for a protocol error and unless zmq_close found the session's   *)
(* "own" command still in the mailbox (own.cpp:92-105 sends linger 0).     *)
LingerHolds ==
    S.active /\ S.linger = "infinite" /\ w.ses.st = "gone" /\ w.left # "no" /\ ~w.refused /\ ~w.unowned =>
        w.pulled + w.cut = w.sent

(* The safety properties of a session, its connecters and its listener.    *)
SessionRight == AssertionsHold /\ OneConnection /\ LingerHolds

(* A socket that is closed is destroyed, and a session that is             *)
(* disconnected is gone in the end, when the linger time is not infinite:  *)
(* no acknowledgement, delimiter or timer is waited for in vain.  But a    *)
(* session whose engine asks the ZAP handler only after process_term stays *)
(* as long as the connection does: only engine_error then ends that pipe.  *)
SessionGoes ==
    []<>(w.left # "no" /\ S.linger # "infinite" =>
            w.broken # {} \/ (w.late /\ Engine)
              \/ (w.ses.st \in {"gone", "none"} /\ (w.left = "close" => w.sock.gone)))
=============================================================================
