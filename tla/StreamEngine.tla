---------------------------- MODULE StreamEngine ----------------------------
(***************************************************************************)
(* stream_engine_t: two engines at the ends of one TCP connection, each    *)
(* with its session and its poller.  The engine exchanges the greeting,    *)
(* runs the security mechanism (Mechanism), then moves messages between    *)
(* the wire and the session's pipe, with heartbeats, back-pressure and the *)
(* timers.                                                                 *)
(*                                                                         *)
(* An engine is a record; a member function is an operator from the record *)
(* to the new one.  "c" is the options of the peer, "x" what the outside   *)
(* gives during the call: x.reply, the ZAP reply that is already readable  *)
(* ("none" if there is none), x.closed, TRUE when the other end of the     *)
(* connection is closed, and x.ttl, the TTL in the PINGs of the peer.  The *)
(* callbacks of the poller and of the session are the actions.             *)
(*                                                                         *)
(* Abstractions.  The unit of reading and writing is a frame; the decoder  *)
(* and the encoder are the subject of Codec.  The greeting is three        *)
(* frames: the signature, the major version and the rest.                  *)
(***************************************************************************)
EXTENDS Mechanism, FiniteSets

CONSTANTS
    Scenarios,   \* the scenarios: options of both ends and the faults allowed
    SNDBUF,      \* frames the kernel holds for one direction
    INCAP,       \* messages the pipe to the socket holds
    BATCH        \* data messages one out_event gathers (out_batch_size)

Peers == {"A", "B"}
Other(p) == IF p = "A" THEN "B" ELSE "A"

VARIABLES
    conf,        \* the scenario
    eng,         \* the engines
    got,         \* what each application has received
    left,        \* how many messages each application still has to send
    frozen       \* the hosts that stopped responding

vars == <<conf, eng, got, left, frozen>>

Timers == {"handshake", "heartbeat_ivl", "heartbeat_ttl", "heartbeat_timeout"}
NoTimers == [t \in Timers |-> 0]

(* The members of stream_engine_t as its constructor leaves them, and what *)
(* surrounds it: wire is the outgoing direction of the connection, inq and *)
(* outq the pipe of the session, asleep and activated its read activation, *)
(* zap the ZAP pipe.                                                       *)
stream_engine_t ==
    [plugged |-> FALSE, reason |-> "none", io_error |-> FALSE, aborted |-> FALSE,
     handshaking |-> TRUE, greeting |-> 0, version |-> "none", peer_mechanism |-> "none",
     encoder |-> FALSE, mech |-> Mechanism("none", "none", 0), up |-> FALSE,
     next_msg |-> "routing_id_msg", process_msg |-> "process_routing_id_msg",
     subscription_required |-> FALSE,
     input_stopped |-> FALSE, output_stopped |-> FALSE,
     pollin |-> FALSE, pollout |-> FALSE, timers |-> NoTimers,
     out |-> <<>>, loaded |-> <<>>, in |-> <<>>, held |-> <<>>,
     wire |-> <<>>, inq |-> <<>>, outq |-> <<>>, asleep |-> FALSE, activated |-> FALSE,
     zap |-> "idle"]

(***************************************************************************)
(* The session as the engine sees it.                                      *)
(***************************************************************************)
Commands == {"PING", "PONG"}

(* Commands are swallowed; a full pipe refuses with EAGAIN.                *)
push_msg(e, msg) ==
    CASE msg \in Commands -> [rc |-> OK, e |-> e]
      [] msg \notin Commands /\ Len(e.inq) < INCAP -> [rc |-> OK, e |-> [e EXCEPT !.inq = Append(@, msg)]]
      [] OTHER -> [rc |-> AGAIN, e |-> e]

pull_msg(e) ==
    IF e.outq = <<>>
    THEN [rc |-> AGAIN, e |-> [e EXCEPT !.asleep = TRUE], msg |-> "none"]
    ELSE [rc |-> OK, e |-> [e EXCEPT !.outq = Tail(@)], msg |-> Head(e.outq)]

(***************************************************************************)
(* Timers and teardown.                                                    *)
(***************************************************************************)
add_timer(e, t, ms) == [e EXCEPT !.timers[t] = ms]
cancel_timer(e, t) == [e EXCEPT !.timers[t] = 0]
has_timer(e, t) == e.timers[t] > 0

(* unplug: every timer is cancelled and the engine leaves the poller.      *)
unplug(e) ==
    [e EXCEPT !.plugged = FALSE, !.timers = NoTimers, !.pollin = FALSE, !.pollout = FALSE]

(* error: the notifications of raw and ROUTER sockets, then the session is *)
(* told and the engine deleted.                                            *)
error(c, e, why) ==
    LET raw == IF c.raw /\ c.raw_notify THEN push_msg(e, "terminator").e ELSE e
        notified == IF "disconnect" \in c.router_notify /\ ~e.handshaking
                    THEN push_msg(raw, "disconnected").e ELSE raw
    IN [unplug(notified) EXCEPT !.reason = why]

(***************************************************************************)
(* Outgoing direction.                                                     *)
(***************************************************************************)
MinOf(a, b) == IF a < b THEN a ELSE b

(* A write to a connection whose other end is closed fails; polling for    *)
(* output stops and the engine waits for the input to fail.                *)
tcp_write(x, e) ==
    LET n == MinOf(Len(e.out), SNDBUF - Len(e.wire))
        sent == [e EXCEPT !.wire = @ \o SubSeq(e.out, 1, n),
                          !.out = SubSeq(@, n + 1, Len(@))]
    IN CASE x.closed -> [e EXCEPT !.pollout = FALSE]
         [] ~x.closed /\ e.handshaking /\ sent.out = <<>> -> [sent EXCEPT !.pollout = FALSE]
         [] OTHER -> sent

Frame(kind, body) == [k |-> kind, body |-> body]
NoFrame == Frame("none", "none")

(* mechanism_ready: the peer's routing id and the connect notification go  *)
(* to the session; a full pipe there means the pipe is being shut down.    *)
mechanism_ready(c, e) ==
    LET beat == IF c.heartbeat_ivl > 0 THEN add_timer(e, "heartbeat_ivl", c.heartbeat_ivl) ELSE e
        id == IF c.recv_routing_id THEN push_msg(beat, "routing id") ELSE [rc |-> OK, e |-> beat]
        note == IF "connect" \in c.router_notify THEN push_msg(id.e, "connected") ELSE id
    IN CASE id.rc = AGAIN -> id.e
         [] id.rc # AGAIN /\ note.rc = AGAIN -> note.e
         [] OTHER -> [note.e EXCEPT !.next_msg = "pull_and_encode",
                                    !.process_msg = "write_credential", !.up = TRUE]

encoded(c, e, body, next) ==
    LET r == mechanism_encode(c, e.mech, body)
    IN [rc |-> OK, f |-> r.frame, e |-> [e EXCEPT !.mech = r.m, !.next_msg = next]]

encode_pulled(c, r) ==
    IF r.rc = OK
    THEN encoded(c, r.e, r.msg, r.e.next_msg)
    ELSE [rc |-> AGAIN, f |-> NoFrame, e |-> r.e]
pull_and_encode(c, e) == encode_pulled(c, pull_msg(e))

pull_msg_from_session(e) ==
    LET r == pull_msg(e) IN [rc |-> r.rc, f |-> Frame("plain", r.msg), e |-> r.e]

routing_id_msg(c, e) ==
    [rc |-> OK, f |-> Frame("id", c.id), e |-> [e EXCEPT !.next_msg = "pull_msg_from_session"]]

\* The mechanism took a step, r, which may have sent a request to the ZAP
\* handler and, if the answer is there at once, read it.
stepped(x, e, r) ==
    [e EXCEPT !.mech = r.m,
              !.zap = IF ~r.zap THEN @ ELSE IF x.reply = "none" THEN "asked" ELSE "done"]

produced(x, e, r) == [rc |-> r.rc, f |-> Frame("command", r.cmd), e |-> stepped(x, e, r)]

next_handshake_command(c, x, e) ==
    CASE status(e.mech) = "ready" -> pull_and_encode(c, mechanism_ready(c, e))
      [] status(e.mech) = "error" -> [rc |-> FAIL, f |-> NoFrame, e |-> e]
      [] OTHER -> produced(x, e, mechanism_next(c, e.mech, x.reply))

\* A plausible slip: nobody times the answer.
produce_ping_untimed(c, e) == encoded(c, e, "PING", "pull_and_encode")

produce_ping_message(c, e) ==
    LET r == encoded(c, e, "PING", "pull_and_encode")
    IN IF ~has_timer(e, "heartbeat_timeout") /\ c.heartbeat_timeout > 0
       THEN [r EXCEPT !.e = add_timer(@, "heartbeat_timeout", c.heartbeat_timeout)]
       ELSE r

produce_pong_message(c, e) == encoded(c, e, "PONG", "pull_and_encode")

next_msg(c, x, e) ==
    CASE e.next_msg = "routing_id_msg" -> routing_id_msg(c, e)
      [] e.next_msg = "pull_msg_from_session" -> pull_msg_from_session(e)
      [] e.next_msg = "next_handshake_command" -> next_handshake_command(c, x, e)
      [] e.next_msg = "pull_and_encode" -> pull_and_encode(c, e)
      [] e.next_msg = "produce_ping_message" -> produce_ping_message(c, e)
      [] e.next_msg = "produce_pong_message" -> produce_pong_message(c, e)

(* The loop of out_event: the encoder's rest, then messages until there is *)
(* none left or the batch is full.                                         *)
BatchFull(e) == Cardinality({i \in 1 .. Len(e.out) : e.out[i].k \in {"msg", "plain"}}) >= BATCH

\* r is what next_msg has just returned.
RECURSIVE FillBatch(_, _, _)
FillBatch(c, x, r) ==
    LET loaded == [r.e EXCEPT !.out = Append(@, r.f)]
    IN IF r.rc # OK THEN r.e
       ELSE IF BatchFull(loaded) THEN loaded
       ELSE FillBatch(c, x, next_msg(c, x, loaded))

write_batch(x, e) ==
    IF e.out = <<>> THEN [e EXCEPT !.output_stopped = TRUE, !.pollout = FALSE] ELSE tcp_write(x, e)

encode_batch(c, x, e) == write_batch(x, IF BatchFull(e) THEN e ELSE FillBatch(c, x, next_msg(c, x, e)))

(* out_event starts with an assertion: it is never called after an error   *)
(* on the connection took the engine off the poller.                       *)
out_event(c, x, e) ==
    CASE e.io_error -> [e EXCEPT !.aborted = TRUE]
      [] ~e.io_error /\ e.out # <<>> -> tcp_write(x, e)
      [] ~e.io_error /\ e.out = <<>> /\ ~e.encoder -> e
      [] OTHER -> encode_batch(c, x, [e EXCEPT !.out = e.loaded, !.loaded = <<>>])

restart_output(c, x, e) ==
    CASE e.io_error -> e
      [] ~e.io_error /\ e.output_stopped ->
            out_event(c, x, [e EXCEPT !.pollout = TRUE, !.output_stopped = FALSE])
      [] OTHER -> out_event(c, x, e)

(***************************************************************************)
(* Incoming direction.  A result is [rc, e]; "f" is the frame.             *)
(***************************************************************************)
process_routing_id_msg(c, e) ==
    LET id == IF c.recv_routing_id THEN push_msg(e, "routing id").e ELSE e
        sub == IF e.subscription_required THEN push_msg(id, "subscribe all").e ELSE id
    IN [rc |-> OK, e |-> [sub EXCEPT !.process_msg = "push_msg_to_session"]]

resume_output(c, x, e) == IF e.output_stopped THEN restart_output(c, x, e) ELSE e

handshake_processed(c, x, e, r) ==
    LET took == stepped(x, e, r)
    IN IF r.rc # OK \/ status(r.m) = "error" THEN [rc |-> FAIL, e |-> took]
       ELSE [rc |-> OK, e |-> resume_output(c, x, IF status(r.m) = "ready" THEN mechanism_ready(c, took) ELSE took)]

process_handshake_command(c, x, e, f) ==
    handshake_processed(c, x, e,
        mechanism_process(c, e.mech, IF f.k = "command" THEN f.body ELSE NoCommand, x.reply))

(* The TTL of a PING is a uint16_t in tenths of a second; its value in     *)
(* milliseconds is computed in the same uint16_t.                          *)
remote_heartbeat_ttl(ttl) == (ttl * 100) % 65536

process_heartbeat_message(c, x, e, ttl) ==
    LET ms == remote_heartbeat_ttl(ttl)
        armed == IF ~has_timer(e, "heartbeat_ttl") /\ ms > 0
                 THEN add_timer(e, "heartbeat_ttl", ms) ELSE e
    IN out_event(c, x, [armed EXCEPT !.next_msg = "produce_pong_message"])

process_command_message(c, x, e, body) ==
    IF body = "PING" THEN process_heartbeat_message(c, x, e, x.ttl) ELSE e

\* A plausible slip: the refusal of the session is not looked at.
push_decoded_drops(e, body) == [rc |-> OK, e |-> push_msg(e, body).e]

push_decoded(e, body) ==
    LET pushed == push_msg(e, body)
    IN IF pushed.rc = AGAIN
       THEN [rc |-> AGAIN, e |-> [e EXCEPT !.process_msg = "push_one_then_decode_and_push"]]
       ELSE pushed

(* decode_and_push: any message proves the peer alive.                     *)
decoded(c, x, e, f, d) ==
    LET alive == cancel_timer(cancel_timer([e EXCEPT !.mech = d.m], "heartbeat_timeout"),
                              "heartbeat_ttl")
    IN IF f.k # "msg" \/ d.rc # OK THEN [rc |-> FAIL, e |-> e]
       ELSE push_decoded(IF f.body \in Commands THEN process_command_message(c, x, alive, f.body) ELSE alive, f.body)

decode_and_push(c, x, e, f) == decoded(c, x, e, f, mechanism_decode(c, e.mech, f))

push_one_then_decode_and_push(e, f) ==
    LET r == push_msg(e, f.body)
    IN IF r.rc = OK THEN [r EXCEPT !.e.process_msg = "decode_and_push"] ELSE r

credential_pushed(c, x, r, f) ==
    IF r.rc # OK THEN r
    ELSE decode_and_push(c, x, [r.e EXCEPT !.process_msg = "decode_and_push"], f)

write_credential(c, x, e, f) ==
    credential_pushed(c, x, IF e.mech.user # "" THEN push_msg(e, "credential") ELSE [rc |-> OK, e |-> e], f)

process_msg(c, x, e, f) ==
    CASE e.process_msg = "process_routing_id_msg" -> process_routing_id_msg(c, e)
      [] e.process_msg = "process_handshake_command" -> process_handshake_command(c, x, e, f)
      [] e.process_msg \in {"push_msg_to_session", "push_raw_msg_to_session"} -> push_msg(e, f.body)
      [] e.process_msg = "write_credential" -> write_credential(c, x, e, f)
      [] e.process_msg = "decode_and_push" -> decode_and_push(c, x, e, f)
      [] e.process_msg = "push_one_then_decode_and_push" -> push_one_then_decode_and_push(e, f)

(* The decoding loop of in_event and restart_input.  The frame that the    *)
(* session refused stays in the decoder ("held").                          *)
RECURSIVE DecodeAll(_, _, _)
DecodeAll(c, x, r) ==
    LET e == [r.e EXCEPT !.held = <<>>]
        f == Head(e.in)
    IN IF r.rc # OK THEN r
       ELSE IF e.in = <<>> THEN [rc |-> OK, e |-> e]
       ELSE DecodeAll(c, x, process_msg(c, x, [e EXCEPT !.in = Tail(@), !.held = <<f>>], f))

(***************************************************************************)
(* The greeting.                                                           *)
(***************************************************************************)
Versioned(w) == w[1].k = "signature"

(* receive_greeting reads what is there, never past the greeting, and      *)
(* answers each part of the peer's greeting with the next part of its own: *)
(* the version after the signature, the rest after the version.  Bytes     *)
(* that are not a signature come from an unversioned peer; they stay to be *)
(* decoded.                                                                *)
receive_greeting(c, e, w) ==
    LET n == IF e.greeting = 0 /\ ~Versioned(w) THEN 0 ELSE MinOf(3 - e.greeting, Len(w))
        now == e.greeting + n
        version == IF e.greeting < 2 /\ now >= 2 THEN w[2 - e.greeting].body ELSE e.version
        major == IF e.greeting < 1 /\ now >= 1 THEN <<Frame("major", "3")>> ELSE <<>>
        rest == CASE ~(e.greeting < 2 /\ now >= 2) -> <<>>
                  [] version \in {"1", "2"} -> <<Frame("type", c.type)>>
                  [] OTHER -> <<Frame("rest", c.mechanism)>>
    IN [left |-> SubSeq(w, n + 1, Len(w)),
        e |-> [e EXCEPT !.greeting = now, !.version = version,
                        !.out = @ \o major \o rest,
                        !.pollout = @ \/ major # <<>> \/ rest # <<>>,
                        !.peer_mechanism = IF now = 3 THEN w[3 - e.greeting].body ELSE @]]

(* An old peer cannot authenticate: refused when a ZAP domain is set.      *)
zap_enabled(c) == c.mechanism # "NULL" \/ c.zap_domain

(* The header of the routing id went out with the signature: the encoder   *)
(* is left with the body only.                                             *)
handshake_v1_0_unversioned(c, e) ==
    [e EXCEPT !.encoder = TRUE, !.loaded = <<Frame("id", c.id)>>,
              !.subscription_required = c.type \in {"PUB", "XPUB"},
              !.next_msg = "pull_msg_from_session",
              !.process_msg = "process_routing_id_msg"]

handshake_v1_0_or_v2_0(e) == [e EXCEPT !.encoder = TRUE]

new_mechanism(c) ==
    CASE c.mechanism = "NULL" -> null_mechanism_t(c)
      [] c.mechanism = "PLAIN" -> IF c.as_server THEN plain_server_t(c) ELSE plain_client_t(c)
      [] c.mechanism = "CURVE" -> IF c.as_server THEN curve_server_t(c) ELSE curve_client_t(c)
      [] c.mechanism = "GSSAPI" -> IF c.as_server THEN gssapi_server_t(c) ELSE gssapi_client_t(c)

handshake_v3_0(c, e) ==
    [e EXCEPT !.encoder = TRUE, !.mech = new_mechanism(c),
              !.next_msg = "next_handshake_command",
              !.process_msg = "process_handshake_command"]

(* handshake: read the greeting, choose the function for the peer's        *)
(* version, then switch to the flow of messages.  The handshake timer is   *)
(* cancelled here, before the mechanism starts.                            *)
handshake(c, e, w) ==
    LET unversioned == e.greeting = 0 /\ ~Versioned(w)
        r == receive_greeting(c, e, w)
        old == unversioned \/ r.e.version \in {"1", "2"}
        chosen == CASE unversioned -> handshake_v1_0_unversioned(c, r.e)
                    [] ~unversioned /\ old -> handshake_v1_0_or_v2_0(r.e)
                    [] OTHER -> handshake_v3_0(c, r.e)
        fails == \/ old /\ zap_enabled(c)
                 \/ ~old /\ r.e.peer_mechanism # c.mechanism
    IN CASE ~unversioned /\ r.e.greeting < 3 -> [done |-> FALSE, e |-> r.e, left |-> r.left]
         [] (unversioned \/ r.e.greeting = 3) /\ fails ->
              [done |-> FALSE, e |-> error(c, r.e, "protocol_error"), left |-> r.left]
         [] OTHER ->
              [done |-> TRUE, left |-> r.left,
               e |-> [cancel_timer(chosen, "handshake")
                        EXCEPT !.handshaking = FALSE, !.pollout = @ \/ chosen.out = <<>>]]

(* The flow of in_event once the greeting is done.                         *)
all_decoded(c, r) ==
    CASE r.rc = OK -> r.e
      [] r.rc = AGAIN -> [r.e EXCEPT !.input_stopped = TRUE, !.pollin = FALSE]
      [] OTHER -> error(c, r.e, "protocol_error")

in_flow(c, x, e, w) ==
    LET read == [e EXCEPT !.in = IF @ = <<>> THEN w ELSE @]
    IN CASE e.input_stopped ->
              [e |-> [e EXCEPT !.io_error = TRUE, !.pollin = FALSE, !.pollout = FALSE], left |-> w]
         [] ~e.input_stopped /\ e.in = <<>> /\ w = <<>> ->
              [e |-> IF x.closed THEN error(c, e, "connection_error") ELSE e, left |-> w]
         [] OTHER -> [left |-> IF e.in = <<>> THEN <<>> ELSE w, e |-> all_decoded(c, DecodeAll(c, x, [rc |-> OK, e |-> read]))]

greeted(c, x, h) == IF h.done THEN in_flow(c, x, h.e, h.left) ELSE [e |-> h.e, left |-> h.left]

in_event(c, x, e, w) ==
    CASE e.handshaking /\ w = <<>> ->
           [e |-> IF x.closed THEN error(c, e, "connection_error") ELSE e, left |-> w]
      [] e.handshaking /\ w # <<>> -> greeted(c, x, handshake(c, e, w))
      [] OTHER -> in_flow(c, x, e, w)

(* restart_input: the refused message first, then what is still in the     *)
(* buffer, then - unless the connection broke meanwhile - a speculative    *)
(* read.                                                                   *)
rest_decoded(c, x, r, w) ==
    CASE r.rc = AGAIN -> [e |-> r.e, left |-> w]
      [] r.rc # AGAIN /\ r.e.io_error -> [e |-> error(c, r.e, "connection_error"), left |-> w]
      [] r.rc = FAIL /\ ~r.e.io_error -> [e |-> error(c, r.e, "protocol_error"), left |-> w]
      [] OTHER -> in_event(c, x, [r.e EXCEPT !.input_stopped = FALSE, !.pollin = TRUE], w)

first_pushed(c, x, first, w) ==
    CASE first.rc = AGAIN -> [e |-> first.e, left |-> w]
      [] first.rc = FAIL -> [e |-> error(c, first.e, "protocol_error"), left |-> w]
      [] OTHER -> rest_decoded(c, x, DecodeAll(c, x, first), w)

restart_input(c, x, e, w) == first_pushed(c, x, process_msg(c, x, e, e.held[1]), w)

input_resumed(c, x, in) ==
    IF in.e.plugged THEN [in EXCEPT !.e = resume_output(c, x, @)] ELSE in

zap_answered(c, x, e, rc, w) ==
    IF rc # OK THEN [e |-> error(c, e, "protocol_error"), left |-> w]
    ELSE input_resumed(c, x, IF e.input_stopped THEN restart_input(c, x, e, w) ELSE [e |-> e, left |-> w])

zap_msg_available(c, x, e, w) ==
    LET z == mechanism_zap(e.mech, c.zap_code)
    IN zap_answered(c, x, [e EXCEPT !.mech = z.m, !.zap = "done"], z.rc, w)

timer_event(c, x, e, t) ==
    IF t = "heartbeat_ivl"
    THEN add_timer(out_event(c, x, [e EXCEPT !.next_msg = "produce_ping_message"]),
                   t, c.heartbeat_ivl)
    ELSE error(c, cancel_timer(e, t), "timeout_error")

(* plug: raw sockets start at once; others send their signature.           *)
plug(c, e) ==
    LET plugged == [e EXCEPT !.plugged = TRUE, !.io_error = FALSE, !.pollin = TRUE, !.pollout = TRUE]
        raw == [plugged EXCEPT !.encoder = TRUE, !.handshaking = FALSE,
                  !.next_msg = "pull_msg_from_session", !.process_msg = "push_raw_msg_to_session"]
    IN IF c.raw
       THEN IF c.raw_notify THEN push_msg(raw, "connector").e ELSE raw
       ELSE add_timer([plugged EXCEPT !.out = <<Frame("signature", "sig")>>],
                      "handshake", c.handshake_ivl)

(***************************************************************************)
(* The connection.  A scenario s has the options of both ends, s.A and     *)
(* s.B; s.old, the ZMTP version of B when B is an older implementation     *)
(* ("" when B is this engine); s.faults, a subset of {"freeze", "close"};  *)
(* s.race, TRUE when timers may fire at any time, FALSE when they are      *)
(* slower than the traffic; s.msgs, how many messages each end sends; and  *)
(* s.ends, how the handshake must end.                                     *)
(***************************************************************************)
cf == conf

Data == {"m1", "m2", "m3"}
DataNo(i) == CASE i = 1 -> "m1" [] i = 2 -> "m2" [] OTHER -> "m3"
IsData(msg) == msg \in Data
Numbered(n) == [i \in 1 .. n |-> DataNo(i)]

OldPeer(p) == p = "B" /\ cf.old # ""
Live(p) == eng[p].plugged /\ p \notin frozen /\ ~OldPeer(p)
Closed(p) == eng[p].reason # "none"
Outside(p, reply) ==
    [reply |-> reply, closed |-> Closed(Other(p)), ttl |-> cf[Other(p)].heartbeat_ttl]

(* What an older peer sends (external): its greeting, its routing id, its  *)
(* messages.                                                               *)
OldScript ==
    LET greeting == CASE cf.old = "0" -> <<>>
                      [] OTHER -> <<Frame("signature", "sig"), Frame("major", cf.old),
                                    Frame("type", "old")>>
    IN greeting \o <<Frame("id", "B")>>
       \o [i \in 1 .. cf.msgs |-> Frame("plain", DataNo(i))]

Init ==
    /\ conf \in {Scenarios[i] : i \in DOMAIN Scenarios}
    /\ eng = [p \in Peers |-> IF OldPeer(p) THEN [stream_engine_t EXCEPT !.plugged = TRUE]
                              ELSE stream_engine_t]
    /\ got = [p \in Peers |-> <<>>]
    /\ left = [p \in Peers |-> cf.msgs]
    /\ frozen = {}

(* p's engine becomes r.e and the direction it reads from r.left.          *)
Updated(p, r) ==
    eng' = [eng EXCEPT ![p] = r.e, ![Other(p)].wire = r.left]

CanIn(p) ==
    /\ Live(p) /\ ~eng[p].io_error
    /\ \/ eng[p].pollin /\ eng[Other(p)].wire # <<>>
       \/ Closed(Other(p))
CanOut(p) ==
    /\ Live(p) /\ eng[p].pollout /\ ~eng[p].io_error
    /\ Len(eng[p].wire) < SNDBUF \/ Closed(Other(p))
CanRestartIn(p) == Live(p) /\ eng[p].input_stopped /\ Len(eng[p].inq) < INCAP
CanRestartOut(p) == Live(p) /\ eng[p].activated
CanZap(p) == Live(p) /\ eng[p].zap \in {"asked", "reply"}

Quiet ==
    \A p \in Peers \ frozen :
        /\ ~CanIn(p) /\ ~CanOut(p) /\ ~CanRestartIn(p) /\ ~CanRestartOut(p) /\ ~CanZap(p)
        /\ eng[p].inq = <<>>
        /\ OldPeer(p) => Len(eng[p].in) = Len(OldScript) /\ eng["A"].wire = <<>>
        /\ OldPeer(p) \/ eng[p].plugged \/ Closed(p)

(* session_base_t::process_attach plugs the engine.                        *)
Plug(p) ==
    /\ ~eng[p].plugged /\ ~Closed(p) /\ p \notin frozen
    /\ Updated(p, in_event(cf[p], Outside(p, "none"), plug(cf[p], eng[p]), eng[Other(p)].wire))
    /\ UNCHANGED <<conf, got, left, frozen>>

(* The ZAP reply may be readable as soon as the request was sent.          *)
Replies(p) == {"none", cf[p].zap_code}

InEvent(p) ==
    /\ CanIn(p)
    /\ \E reply \in Replies(p) :
          Updated(p, in_event(cf[p], Outside(p, reply), eng[p], eng[Other(p)].wire))
    /\ UNCHANGED <<conf, got, left, frozen>>

OutEvent(p) ==
    /\ CanOut(p)
    /\ \E reply \in Replies(p) :
          eng' = [eng EXCEPT ![p] = out_event(cf[p], Outside(p, reply), @)]
    /\ UNCHANGED <<conf, got, left, frozen>>

(* session_base_t::write_activated and read_activated.                     *)
RestartInput(p) ==
    /\ CanRestartIn(p)
    /\ Updated(p, restart_input(cf[p], Outside(p, "none"), eng[p], eng[Other(p)].wire))
    /\ UNCHANGED <<conf, got, left, frozen>>

RestartOutput(p) ==
    /\ CanRestartOut(p)
    /\ eng' = [eng EXCEPT ![p] = restart_output(cf[p], Outside(p, "none"),
                                                [@ EXCEPT !.activated = FALSE])]
    /\ UNCHANGED <<conf, got, left, frozen>>

ZapAnswer(p) ==
    /\ eng[p].zap = "asked"
    /\ eng' = [eng EXCEPT ![p].zap = "reply"]
    /\ UNCHANGED <<conf, got, left, frozen>>

ZapMsgAvailable(p) ==
    /\ Live(p) /\ eng[p].zap = "reply"
    /\ Updated(p, zap_msg_available(cf[p], Outside(p, "none"), eng[p], eng[Other(p)].wire))
    /\ UNCHANGED <<conf, got, left, frozen>>

(* Timers.  When they are slower than the traffic, one fires only when     *)
(* nothing else can happen, the earliest first, and the others lose the    *)
(* time it took.                                                           *)
Armed == {<<p, t>> \in Peers \X Timers : Live(p) /\ eng[p].timers[t] > 0}
Earliest(p, t) == \A a \in Armed : eng[p].timers[t] <= eng[a[1]].timers[a[2]]
Elapsed(e, ms) ==
    [e EXCEPT !.timers = [t \in Timers |-> IF @[t] > ms THEN @[t] - ms
                                           ELSE IF @[t] > 0 THEN 1 ELSE 0]]

TimerEvent(p, t) ==
    /\ <<p, t>> \in Armed
    /\ cf.race \/ (Quiet /\ Earliest(p, t))
    /\ LET later == IF cf.race THEN eng
                    ELSE [q \in Peers |-> Elapsed(eng[q], eng[p].timers[t])]
       IN eng' = [later EXCEPT ![p] = timer_event(cf[p], Outside(p, "none"), @, t)]
    /\ UNCHANGED <<conf, got, left, frozen>>

(* The applications.                                                       *)
Send(p) ==
    /\ left[p] > 0 /\ ~OldPeer(p) /\ p \notin frozen /\ ~Closed(p)
    /\ left' = [left EXCEPT ![p] = @ - 1]
    /\ eng' = [eng EXCEPT ![p].outq = Append(@, DataNo(cf.msgs - left[p] + 1)),
                          ![p].activated = @ \/ eng[p].asleep, ![p].asleep = FALSE]
    /\ UNCHANGED <<conf, got, frozen>>

Receive(p) ==
    /\ eng[p].inq # <<>> /\ p \notin frozen
    /\ got' = [got EXCEPT ![p] = Append(@, Head(eng[p].inq))]
    /\ eng' = [eng EXCEPT ![p].inq = Tail(@)]
    /\ UNCHANGED <<conf, left, frozen>>

(* An older peer sends its next frame and consumes what it gets.           *)
OldPeerStep ==
    /\ OldPeer("B")
    /\ LET b == eng["B"]
           n == Len(b.in) + 1
       IN \/ /\ n <= Len(OldScript) /\ Len(b.wire) < SNDBUF
             /\ eng' = [eng EXCEPT !["B"].wire = Append(@, OldScript[n]),
                                   !["B"].in = Append(@, OldScript[n])]
             /\ UNCHANGED got
          \/ /\ eng["A"].wire # <<>>
             /\ eng' = [eng EXCEPT !["A"].wire = Tail(@)]
             /\ got' = [got EXCEPT !["B"] = IF Head(eng["A"].wire).k \in {"id", "plain"}
                                            THEN Append(@, Head(eng["A"].wire).body) ELSE @]
    /\ UNCHANGED <<conf, left, frozen>>

(* The host of p stops, or the session of p terminates the engine.         *)
Freeze(p) ==
    /\ "freeze" \in cf.faults /\ frozen = {} /\ Live(p)
    /\ frozen' = {p}
    /\ UNCHANGED <<conf, eng, got, left>>

Terminate(p) ==
    /\ "close" \in cf.faults /\ Live(p)
    /\ eng' = [eng EXCEPT ![p] = [unplug(@) EXCEPT !.reason = "terminated"]]
    /\ UNCHANGED <<conf, got, left, frozen>>

Progress(p) ==
    \/ Plug(p) \/ InEvent(p) \/ OutEvent(p) \/ RestartInput(p) \/ RestartOutput(p)
    \/ ZapAnswer(p) \/ ZapMsgAvailable(p) \/ Send(p) \/ Receive(p)
    \/ \E t \in Timers : TimerEvent(p, t)

Next ==
    \/ \E p \in Peers : Progress(p) \/ Freeze(p) \/ Terminate(p)
    \/ OldPeerStep

(* The I/O threads, the applications and the ZAP handler keep running:     *)
(* weak fairness of every action, with the enabling condition written out  *)
(* (each action is enabled exactly when its guard holds).                  *)
CanPlug(p) == ~eng[p].plugged /\ ~Closed(p) /\ p \notin frozen
CanSend(p) == left[p] > 0 /\ ~OldPeer(p) /\ p \notin frozen /\ ~Closed(p)

Fairness ==
    /\ \A p \in Peers :
          /\ []<>~CanPlug(p) \/ []<><<Plug(p)>>_vars
          /\ []<>~CanIn(p) \/ []<><<InEvent(p)>>_vars
          /\ []<>~CanOut(p) \/ []<><<OutEvent(p)>>_vars
          /\ []<>~CanRestartIn(p) \/ []<><<RestartInput(p)>>_vars
          /\ []<>~CanRestartOut(p) \/ []<><<RestartOutput(p)>>_vars
          /\ []<>(eng[p].zap # "asked") \/ []<><<ZapAnswer(p)>>_vars
          /\ []<>~(Live(p) /\ eng[p].zap = "reply") \/ []<><<ZapMsgAvailable(p)>>_vars
          /\ []<>~CanSend(p) \/ []<><<Send(p)>>_vars
          /\ []<>~(eng[p].inq # <<>> /\ p \notin frozen) \/ []<><<Receive(p)>>_vars
          /\ WF_vars(\E t \in Timers : TimerEvent(p, t))
    /\ WF_vars(OldPeerStep)

Spec == Init /\ [][Next]_vars /\ Fairness

(***************************************************************************)
(* Properties.                                                             *)
(***************************************************************************)
Delivered(p) == got[p] \o eng[p].inq
Servers == {p \in Peers : ~OldPeer(p) /\ cf[p].zap_domain /\ cf[p].zap_handler}

(* mechanism_ready switches an engine to the flow of messages only when    *)
(* the two ends agree: same mechanism, socket types that may talk, for     *)
(* CURVE the same short-term keys, for CURVE and PLAIN a ZAP request that  *)
(* names the client, and - except for GSSAPI, which leaves the code to the application - the *)
(* ZAP handler of every end that has one answered 200, the remote end's    *)
(* included: an end is never up while the other end's handler has yet to   *)
(* decide, whichever end runs first.                                       *)
ReadyIsRight ==
    \A p \in Peers : eng[p].up =>
        LET q == Other(p)
        IN /\ cf[p].mechanism = cf[q].mechanism
           /\ cf[p].type \in PeersOf(cf[q].type)
           /\ cf[p].mechanism # "GSSAPI" =>
                \A s \in Servers : eng[s].mech.code = "200"
           /\ cf[p].mechanism = "CURVE" =>
                eng[p].mech.with = cf[q].cn_public
           /\ cf[p].mechanism \in {"PLAIN", "CURVE"} /\ p \in Servers =>
                eng[p].mech.asked_for = cf[q].public_key

(* What the session of one end delivers is what the other end's session    *)
(* gave, in order, nothing lost or repeated, with the routing id first,    *)
(* then the connect notification, then the credential, and a notification  *)
(* of the end last - through back-pressure (push_one_then_decode_and_push  *)
(* and restart_input), heartbeats and a connection that breaks at any      *)
(* moment; and no handler meets the assertion on _io_error in out_event.   *)
Rank(msg) ==
    CASE msg \in {"connector", "routing id"} -> 1
      [] msg = "connected" -> 2
      [] msg \in {"credential", "subscribe all"} -> 3
      [] msg \in {"terminator", "disconnected"} -> 5
      [] OTHER -> 4

StreamInOrder ==
    \A p \in Peers \ {q \in Peers : OldPeer(q)} :
        LET d == Delivered(p)
            data == SelectSeq(d, IsData)
        IN /\ ~eng[p].aborted
           /\ \A i, j \in 1 .. Len(d) : i < j =>
                 /\ Rank(d[i]) <= Rank(d[j])
                 /\ Rank(d[i]) = Rank(d[j]) => Rank(d[i]) = 4
           /\ data = SubSeq(Numbered(cf.msgs), 1, Len(data))

(* An older peer reads the routing id of this end before any message.      *)
IdBeforeMessages ==
    OldPeer("B") /\ got["B"] # <<>> =>
        got["B"] = SubSeq(<<cf["A"].id>> \o Numbered(cf.msgs), 1, Len(got["B"]))

(* A connection whose other end still answers is not closed by a heartbeat *)
(* timer, as long as the timers are slower than the traffic: every PING is *)
(* answered, or overtaken by a PING of the other end, and any message      *)
(* cancels both timers of the receiver.                                    *)
HeartbeatHolds ==
    \A p \in Peers :
        ~cf.race /\ eng[p].reason = "timeout_error" => frozen # {} \/ cf.ends = "refused"

(* Every handshake ends: between ends that agree, with both ends up and    *)
(* everything sent delivered; between ends that do not agree, with both    *)
(* engines gone.                                                           *)
HandshakeEnds ==
    /\ []<>(cf.ends = "up" => \A p \in Peers : SelectSeq(got[p], IsData) = Numbered(cf.msgs))
    /\ []<>(cf.ends = "refused" => \A p \in Peers : OldPeer(p) \/ Closed(p))

(* The safety properties and the liveness properties of an engine.         *)
EngineRight == ReadyIsRight /\ StreamInOrder /\ IdBeforeMessages /\ HeartbeatHolds

(* The assertion at the head of out_event: "zmq_assert (!_io_error)".  The *)
(* engine is off the poller once the connection broke under a stopped      *)
(* input, and nothing may ask it to write.                                 *)
NoOutEventAfterError == \A p \in Peers : ~eng[p].aborted

(* The other end's host stopping is noticed by the engine that is up, by   *)
(* its heartbeats, and by the engine still waiting for the greeting, by    *)
(* the handshake timer.                                                    *)
DeadPeerNoticed ==
    \A p \in Peers :
        []<>(/\ p \in frozen /\ eng[Other(p)].plugged
             /\ eng[Other(p)].up \/ (Quiet /\ eng[Other(p)].handshaking)
             => Closed(Other(p)))

(* Handshakes end and dead peers are noticed (StreamEngine's liveness).    *)
EngineGoesOn == HandshakeEnds /\ DeadPeerNoticed

(* zmq_setsockopt(3) on ZMQ_HANDSHAKE_IVL: the connection is closed when   *)
(* the exchange of "socket type, routing id, security" does not complete   *)
(* in time.  Here: the other end's host stops before this end is up.       *)
HandshakeIvlHolds ==
    \A p \in Peers :
        []<>(p \in frozen /\ eng[Other(p)].plugged => eng[Other(p)].up)
=============================================================================
