----------------------------- MODULE Mechanism -----------------------------
(***************************************************************************)
(* The security mechanisms of a ZMTP 3 connection: null_mechanism_t,       *)
(* plain_client_t / plain_server_t, curve_client_t / curve_server_t,       *)
(* gssapi_client_t / gssapi_server_t and the ZAP client they share.        *)
(*                                                                         *)
(* A mechanism is a record and every method an operator from the record to *)
(* a result: the new record "m", the return code "rc" (OK, FAIL, or AGAIN  *)
(* for errno = EAGAIN), the command produced "cmd", and "zap", TRUE when a *)
(* request went to the ZAP handler.  The engine that drives the methods is *)
(* in StreamEngine.                                                        *)
(*                                                                         *)
(* Abstractions.  A key is a name.  A box is the pair of keys it was made  *)
(* with and its content; it opens with the same pair only.  Metadata are   *)
(* the socket type and the routing id.  Lengths and paddings of commands   *)
(* are left out: a peer is this library, so its commands are well formed.  *)
(***************************************************************************)
EXTENDS Naturals, Sequences

OK == "ok"
FAIL == "fail"
AGAIN == "again"

NoCommand == [name |-> "none"]
NoMetadata == [type |-> "none", id |-> "none"]
NoCookie == [client |-> "none", server |-> "none"]

(* The record of a freshly constructed mechanism.  "state" is the state of *)
(* the FSM, "flags" the booleans of the NULL mechanism and of GSSAPI,      *)
(* "code" the status code of the ZAP reply, "peer" the peer's metadata,    *)
(* "user" the user id, "asked_for" the credential in the ZAP request,      *)
(* "nonce" and "peer_nonce" CURVE's cn_nonce and cn_peer_nonce, "with" the *)
(* short-term key of the other end and "token" the round of GSSAPI.        *)
Mechanism(kind, state, nonce) ==
    [kind |-> kind, state |-> state, flags |-> {}, code |-> "", peer |-> NoMetadata,
     user |-> "", asked_for |-> "none", nonce |-> nonce, peer_nonce |-> nonce, with |-> "none",
     cookie |-> NoCookie, token |-> 0]

null_mechanism_t(c) == Mechanism("NULL", "flags", 0)
plain_client_t(c) == Mechanism("PLAIN client", "sending_hello", 0)
plain_server_t(c) == Mechanism("PLAIN server", "waiting_for_hello", 0)
curve_client_t(c) == Mechanism("CURVE client", "send_hello", 1)
curve_server_t(c) == Mechanism("CURVE server", "waiting_for_hello", 1)
gssapi_client_t(c) == Mechanism("GSSAPI client", "call_next_init", 0)
gssapi_server_t(c) == Mechanism("GSSAPI server", "recv_next_token", 0)

Result(rc, m, cmd, zap) == [rc |-> rc, m |-> m, cmd |-> cmd, zap |-> zap]
Failed(m) == Result(FAIL, m, NoCommand, FALSE)
Waits(m) == Result(AGAIN, m, NoCommand, FALSE)
Sends(m, cmd) == Result(OK, m, cmd, FALSE)
Goes(m) == Result(OK, m, NoCommand, FALSE)

(***************************************************************************)
(* mechanism_t: the metadata.                                              *)
(***************************************************************************)
PeersOf(type) ==
    CASE type = "REQ" -> {"REP", "ROUTER"}
      [] type = "REP" -> {"REQ", "DEALER"}
      [] type = "DEALER" -> {"REP", "DEALER", "ROUTER"}
      [] type = "ROUTER" -> {"REQ", "DEALER", "ROUTER"}
      [] type = "PUSH" -> {"PULL"}
      [] type = "PULL" -> {"PUSH"}
      [] type \in {"PUB", "XPUB"} -> {"SUB", "XSUB"}
      [] type \in {"SUB", "XSUB"} -> {"PUB", "XPUB"}
      [] type = "PAIR" -> {"PAIR"}
      [] type = "SERVER" -> {"CLIENT"}
      [] type = "CLIENT" -> {"SERVER"}
      [] type = "RADIO" -> {"DISH"}
      [] type = "DISH" -> {"RADIO"}
      [] type = "GATHER" -> {"SCATTER"}
      [] type = "SCATTER" -> {"GATHER"}
      [] type = "DGRAM" -> {"DGRAM"}

check_socket_type(c, type) == type \in PeersOf(c.type)

(* Socket-Type always; Identity for the three types that have one.         *)
add_basic_properties(c) ==
    [type |-> c.type,
     id |-> IF c.type \in {"REQ", "DEALER", "ROUTER"} THEN c.id ELSE "absent"]

make_command_with_basic_properties(c, name) ==
    [name |-> name, meta |-> add_basic_properties(c)]

(* The peer's metadata are stored as they are parsed; an incompatible      *)
(* socket type stops the parser with EINVAL.                               *)
parse_metadata(c, m, meta) ==
    IF check_socket_type(c, meta.type)
    THEN Goes([m EXCEPT !.peer = meta])
    ELSE Failed(m)

zap_required(c) == c.zap_domain

(***************************************************************************)
(* zap_client_t: "reply" is what the ZAP pipe holds when it is read, a     *)
(* status code, or "none" (EAGAIN).                                        *)
(***************************************************************************)
zap_connect(c) == c.zap_handler

(* The request names the mechanism and carries the credential.            *)
send_zap_request(m, credential) == [m EXCEPT !.asked_for = credential]

handle_zap_status_code(m, ok) ==
    [m EXCEPT !.state = CASE m.code = "200" -> ok
                          [] m.code = "300" -> "error_sent"
                          [] OTHER -> "sending_error"]

(* The state a server goes to when the handler accepts.                    *)
zap_reply_ok_state(m) ==
    IF m.kind = "PLAIN server" THEN "sending_welcome" ELSE "sending_ready"

receive_and_process_zap_reply(m, reply) ==
    IF reply = "none"
    THEN m
    ELSE LET saved == [m EXCEPT !.code = reply, !.user = "user"]
         IN IF m.kind \in {"PLAIN server", "CURVE server"}
            THEN handle_zap_status_code(saved, zap_reply_ok_state(m))
            ELSE saved

common_zap_msg_available(m, reply) ==
    Goes(receive_and_process_zap_reply(m, reply))

(***************************************************************************)
(* null_mechanism_t                                                        *)
(***************************************************************************)
null_next_handshake_command(c, m, reply) ==
    LET asks == zap_required(c) /\ "zap_reply_received" \notin m.flags
        asked == [send_zap_request(m, "") EXCEPT !.flags = @ \cup {"zap_request_sent"}]
        got == [receive_and_process_zap_reply(asked, reply)
                  EXCEPT !.flags = @ \cup {"zap_reply_received"}]
        Speak(n, zap) ==
            IF "zap_reply_received" \in n.flags /\ n.code # "200"
            THEN LET refused == [n EXCEPT !.flags = @ \cup {"error_sent"}]
                 IN IF n.code # "300"
                    THEN Result(OK, refused, [name |-> "ERROR", code |-> n.code], zap)
                    ELSE Result(AGAIN, refused, NoCommand, zap)
            ELSE Result(OK, [n EXCEPT !.flags = @ \cup {"ready_sent"}],
                        make_command_with_basic_properties(c, "READY"), zap)
    IN CASE {"ready_sent", "error_sent"} \cap m.flags # {} -> Waits(m)
         [] asks /\ "zap_request_sent" \in m.flags -> Waits(m)
         [] asks /\ ~zap_connect(c) /\ c.enforce -> Failed(m)
         [] asks /\ zap_connect(c) /\ reply = "none" -> Result(AGAIN, asked, NoCommand, TRUE)
         [] asks /\ zap_connect(c) -> Speak(got, TRUE)
         [] OTHER -> Speak(m, FALSE)

null_process_ready_command(c, m, cmd) ==
    parse_metadata(c, [m EXCEPT !.flags = @ \cup {"ready_received"}], cmd.meta)
null_process_error_command(m) == Goes([m EXCEPT !.flags = @ \cup {"error_received"}])
null_process_handshake_command(c, m, cmd) ==
    IF {"ready_received", "error_received"} \cap m.flags # {}
    THEN Failed(m)
    ELSE CASE cmd.name = "READY" -> null_process_ready_command(c, m, cmd)
           [] cmd.name = "ERROR" -> null_process_error_command(m)
           [] OTHER -> Failed(m)

null_zap_msg_available(m, reply) ==
    IF "zap_reply_received" \in m.flags
    THEN Failed(m)
    ELSE Goes([receive_and_process_zap_reply(m, reply)
                 EXCEPT !.flags = @ \cup {"zap_reply_received"}])

null_status(m) ==
    CASE {"ready_sent", "ready_received"} \subseteq m.flags -> "ready"
      [] /\ {"ready_sent", "error_sent"} \cap m.flags # {}
         /\ {"ready_received", "error_received"} \cap m.flags # {} -> "error"
      [] OTHER -> "handshaking"

(***************************************************************************)
(* plain_client_t and plain_server_t                                       *)
(***************************************************************************)
plain_client_produce_hello(c) == [name |-> "HELLO", user |-> c.public_key]
plain_client_produce_initiate(c) == make_command_with_basic_properties(c, "INITIATE")
plain_client_next_handshake_command(c, m) ==
    CASE m.state = "sending_hello" ->
            Sends([m EXCEPT !.state = "waiting_for_welcome"], plain_client_produce_hello(c))
      [] m.state = "sending_initiate" ->
            Sends([m EXCEPT !.state = "waiting_for_ready"], plain_client_produce_initiate(c))
      [] OTHER -> Waits(m)

plain_client_process_welcome(m) ==
    IF m.state = "waiting_for_welcome"
    THEN Goes([m EXCEPT !.state = "sending_initiate"]) ELSE Failed(m)
plain_client_process_error(m) ==
    IF m.state \in {"waiting_for_welcome", "waiting_for_ready"}
    THEN Goes([m EXCEPT !.state = "error_command_received"]) ELSE Failed(m)

plain_client_process_ready(c, m, cmd) ==
    LET parsed == parse_metadata(c, m, cmd.meta)
    IN IF m.state # "waiting_for_ready" THEN Failed(m)
       ELSE IF parsed.rc = OK THEN Goes([parsed.m EXCEPT !.state = "ready"])
       ELSE parsed

plain_client_process_handshake_command(c, m, cmd) ==
    CASE cmd.name = "WELCOME" -> plain_client_process_welcome(m)
      [] cmd.name = "READY" -> plain_client_process_ready(c, m, cmd)
      [] cmd.name = "ERROR" -> plain_client_process_error(m)
      [] OTHER -> Failed(m)

plain_client_status(m) ==
    CASE m.state = "ready" -> "ready"
      [] m.state = "error_command_received" -> "error"
      [] OTHER -> "handshaking"

(* process_hello: the credentials go to the ZAP handler; without a handler *)
(* the handshake fails.                                                    *)
plain_server_process_hello(c, m, cmd, reply) ==
    IF cmd.name # "HELLO" \/ ~zap_connect(c)
    THEN Failed(m)
    ELSE LET asked == [send_zap_request(m, cmd.user) EXCEPT !.state = "waiting_for_zap_reply"]
         IN Result(OK, receive_and_process_zap_reply(asked, reply), NoCommand, TRUE)

plain_server_process_initiate(c, m, cmd) ==
    IF cmd.name # "INITIATE"
    THEN Failed(m)
    ELSE LET parsed == parse_metadata(c, m, cmd.meta)
         IN IF parsed.rc = OK
            THEN Goes([parsed.m EXCEPT !.state = "sending_ready"]) ELSE parsed

plain_server_produce_welcome == [name |-> "WELCOME"]
plain_server_produce_ready(c) == make_command_with_basic_properties(c, "READY")
plain_server_produce_error(m) == [name |-> "ERROR", code |-> m.code]
plain_server_next_handshake_command(c, m) ==
    CASE m.state = "sending_welcome" ->
            Sends([m EXCEPT !.state = "waiting_for_initiate"], plain_server_produce_welcome)
      [] m.state = "sending_ready" ->
            Sends([m EXCEPT !.state = "ready"], plain_server_produce_ready(c))
      [] m.state = "sending_error" ->
            Sends([m EXCEPT !.state = "error_sent"], plain_server_produce_error(m))
      [] OTHER -> Waits(m)

plain_server_process_handshake_command(c, m, cmd, reply) ==
    CASE m.state = "waiting_for_hello" -> plain_server_process_hello(c, m, cmd, reply)
      [] m.state = "waiting_for_initiate" -> plain_server_process_initiate(c, m, cmd)
      [] OTHER -> Failed(m)

(* status of the servers of PLAIN and CURVE.                               *)
common_status(m) ==
    CASE m.state = "ready" -> "ready"
      [] m.state = "error_sent" -> "error"
      [] OTHER -> "handshaking"

(***************************************************************************)
(* curve_client_t and curve_server_t.  The long-term public key of a peer  *)
(* is c.public_key, the short-term one c.cn_public; a client knows the     *)
(* server's long-term key as c.server_key.                                 *)
(***************************************************************************)
crypto_box(k1, k2, data) == [keys |-> {k1, k2}, data |-> data]
opens(box, k1, k2) == box.keys = {k1, k2}

curve_tools_produce_hello(c, m) ==
    [name |-> "HELLO", cn |-> c.cn_public, nonce |-> m.nonce,
     box |-> crypto_box(c.cn_public, c.server_key, "zeros")]
curve_client_produce_hello(c, m) ==
    Sends([m EXCEPT !.state = "expect_welcome", !.nonce = @ + 1], curve_tools_produce_hello(c, m))

(* C and the vouch, made with the client's long-term key, travel in a box  *)
(* made with the short-term keys.                                          *)
curve_tools_produce_initiate(c, m) ==
    [name |-> "INITIATE", cookie |-> m.cookie, nonce |-> m.nonce,
     box |-> crypto_box(c.cn_public, m.with,
               [client |-> c.public_key,
                vouch |-> crypto_box(c.public_key, m.with, c.cn_public),
                meta |-> add_basic_properties(c)])]
curve_client_produce_initiate(c, m) ==
    Sends([m EXCEPT !.state = "expect_ready", !.nonce = @ + 1], curve_tools_produce_initiate(c, m))

curve_client_next_handshake_command(c, m) ==
    CASE m.state = "send_hello" -> curve_client_produce_hello(c, m)
      [] m.state = "send_initiate" -> curve_client_produce_initiate(c, m)
      [] OTHER -> Waits(m)

(* Neither process_welcome nor process_ready looks at the state.           *)
curve_tools_process_welcome(m, cmd) ==
    [m EXCEPT !.with = cmd.box.data.cn, !.cookie = cmd.box.data.cookie]
curve_client_process_welcome(c, m, cmd) ==
    IF opens(cmd.box, c.server_key, c.cn_public)
    THEN Goes([curve_tools_process_welcome(m, cmd) EXCEPT !.state = "send_initiate"])
    ELSE Failed(m)

curve_client_process_ready(c, m, cmd) ==
    LET seen == [m EXCEPT !.peer_nonce = cmd.nonce]
        parsed == parse_metadata(c, seen, cmd.box.data)
    IN IF ~opens(cmd.box, m.with, c.cn_public) THEN Failed(seen)
       ELSE IF parsed.rc = OK THEN Goes([parsed.m EXCEPT !.state = "connected"])
       ELSE parsed

curve_client_process_error(m) ==
    IF m.state \in {"expect_welcome", "expect_ready"}
    THEN Goes([m EXCEPT !.state = "error_received"])
    ELSE Failed(m)

curve_client_process_handshake_command(c, m, cmd) ==
    CASE cmd.name = "WELCOME" -> curve_client_process_welcome(c, m, cmd)
      [] cmd.name = "READY" -> curve_client_process_ready(c, m, cmd)
      [] cmd.name = "ERROR" -> curve_client_process_error(m)
      [] OTHER -> Failed(m)

curve_client_status(m) ==
    CASE m.state = "connected" -> "ready"
      [] m.state = "error_received" -> "error"
      [] OTHER -> "handshaking"

curve_server_process_hello(c, m, cmd) ==
    LET seen == [m EXCEPT !.with = cmd.cn, !.peer_nonce = cmd.nonce]
    IN IF cmd.name = "HELLO" /\ opens(cmd.box, cmd.cn, c.public_key)
       THEN Goes([seen EXCEPT !.state = "sending_welcome"])
       ELSE Failed(m)

curve_server_produce_welcome(c, m) ==
    LET cookie == [client |-> m.with, server |-> c.cn_public]
    IN Sends([m EXCEPT !.state = "waiting_for_initiate", !.cookie = cookie],
             [name |-> "WELCOME",
              box |-> crypto_box(c.public_key, m.with,
                                 [cn |-> c.cn_public, cookie |-> cookie])])

(* The checks of an INITIATE: the cookie is the one of this connection,    *)
(* the box was made with the short-term keys, and the vouch by the owner   *)
(* of the long-term key it carries.                                        *)
curve_server_initiate_is_valid(c, m, cmd) ==
    /\ cmd.name = "INITIATE"
    /\ cmd.cookie = m.cookie
    /\ opens(cmd.box, m.with, c.cn_public)
    /\ opens(cmd.box.data.vouch, cmd.box.data.client, c.cn_public)
    /\ cmd.box.data.vouch.data = m.with

(* The metadata are parsed after the ZAP request went out, so the request  *)
(* is sent for a client of the wrong socket type too.                      *)
curve_server_process_initiate(c, m, cmd, reply) ==
    LET seen == send_zap_request([m EXCEPT !.peer_nonce = cmd.nonce], cmd.box.data.client)
        asks == zap_required(c) \/ ~c.enforce
        asked == [seen EXCEPT !.state = "waiting_for_zap_reply"]
        next == IF asks /\ zap_connect(c)
                THEN receive_and_process_zap_reply(asked, reply)
                ELSE [seen EXCEPT !.state = "sending_ready"]
        parsed == parse_metadata(c, next, cmd.box.data.meta)
    IN CASE ~curve_server_initiate_is_valid(c, m, cmd) -> Failed(m)
         [] asks /\ ~zap_connect(c) /\ c.enforce -> Failed(seen)
         [] OTHER -> [parsed EXCEPT !.zap = asks /\ zap_connect(c)]

curve_server_produce_ready(c, m) ==
    Sends([m EXCEPT !.state = "ready", !.nonce = @ + 1],
          [name |-> "READY", nonce |-> m.nonce,
           box |-> crypto_box(c.cn_public, m.with, add_basic_properties(c))])

curve_server_produce_error(m) ==
    Sends([m EXCEPT !.state = "error_sent"], [name |-> "ERROR", code |-> m.code])

curve_server_next_handshake_command(c, m) ==
    CASE m.state = "sending_welcome" -> curve_server_produce_welcome(c, m)
      [] m.state = "sending_ready" -> curve_server_produce_ready(c, m)
      [] m.state = "sending_error" -> curve_server_produce_error(m)
      [] OTHER -> Waits(m)

curve_server_process_handshake_command(c, m, cmd, reply) ==
    CASE m.state = "waiting_for_hello" -> curve_server_process_hello(c, m, cmd)
      [] m.state = "waiting_for_initiate" -> curve_server_process_initiate(c, m, cmd, reply)
      [] OTHER -> Failed(m)

(* A MESSAGE command carries the next nonce; the receiver takes nonces in  *)
(* increasing order only.                                                  *)
curve_encode(c, m, body) ==
    [m |-> [m EXCEPT !.nonce = @ + 1],
     frame |-> [k |-> "msg", body |-> body, nonce |-> m.nonce, keys |-> {c.cn_public, m.with}]]

curve_decode(c, m, f) ==
    IF f.nonce <= m.peer_nonce
    THEN Failed(m)
    ELSE LET seen == [m EXCEPT !.peer_nonce = f.nonce]
         IN IF f.keys = {c.cn_public, m.with} THEN Goes(seen) ELSE Failed(seen)

(***************************************************************************)
(* gssapi_client_t and gssapi_server_t.  The GSSAPI library is external:   *)
(* with mutual authentication the client's first call yields a token       *)
(* (GSS_S_CONTINUE_NEEDED), the server's call a token (GSS_S_COMPLETE),    *)
(* and the client's second call completes without one; the client then     *)
(* sends an empty command, which is what starts the server's ZAP exchange. *)
(* c.gss_ok is FALSE for a peer whose calls fail.                          *)
(***************************************************************************)
gss_sec_context(c, m) ==
    CASE ~c.gss_ok -> "GSS_S_FAILURE"
      [] m.kind = "GSSAPI client" /\ m.token = 0 -> "GSS_S_CONTINUE_NEEDED"
      [] OTHER -> "GSS_S_COMPLETE"

(* Each end calls the library and sends the token it yields, if any.       *)
gssapi_client_initialize_context(c, m) == gss_sec_context(c, m)
gssapi_server_accept_context(c, m) == gss_sec_context(c, m)
gssapi_produce_initiate == [name |-> "INITIATE"]
gssapi_produce_ready(c) == make_command_with_basic_properties(c, "READY")

gssapi_client_produce_next_token(c, m) ==
    LET maj_stat == gssapi_client_initialize_context(c, m)
    IN CASE maj_stat = "GSS_S_FAILURE" -> Failed(m)
         [] maj_stat = "GSS_S_CONTINUE_NEEDED" ->
              Sends([m EXCEPT !.state = "recv_next_token", !.token = @ + 1],
                    gssapi_produce_initiate)
         [] maj_stat = "GSS_S_COMPLETE" ->
              Sends([m EXCEPT !.state = "recv_ready", !.flags = @ \cup {"context"}],
                    [name |-> "EMPTY"])

gssapi_client_next_handshake_command(c, m) ==
    CASE m.state = "send_ready" ->
            Sends([m EXCEPT !.state = "connected"], gssapi_produce_ready(c))
      [] m.state = "call_next_init" -> gssapi_client_produce_next_token(c, m)
      [] OTHER -> Waits(m)

gssapi_process_initiate(m, cmd, next) ==
    IF cmd.name = "INITIATE" THEN Goes([m EXCEPT !.state = next]) ELSE Failed(m)

gssapi_process_ready(c, m, cmd, next) ==
    IF cmd.name # "READY"
    THEN Failed(m)
    ELSE LET parsed == parse_metadata(c, m, cmd.meta)
         IN IF parsed.rc = OK THEN Goes([parsed.m EXCEPT !.state = next]) ELSE parsed

gssapi_client_process_next_token(m, cmd) == gssapi_process_initiate(m, cmd, "call_next_init")
gssapi_client_process_handshake_command(c, m, cmd) ==
    CASE m.state = "recv_ready" -> gssapi_process_ready(c, m, cmd, "send_ready")
      [] m.state = "recv_next_token" -> gssapi_client_process_next_token(m, cmd)
      [] OTHER -> Failed(m)

gssapi_server_produce_next_token(c, m) ==
    IF gssapi_server_accept_context(c, m) = "GSS_S_FAILURE"
    THEN Failed(m)
    ELSE Sends([m EXCEPT !.state = "recv_next_token", !.flags = @ \cup {"context"}],
               gssapi_produce_initiate)
gssapi_server_next_handshake_command(c, m) ==
    CASE m.state = "send_ready" ->
            Sends([m EXCEPT !.state = "recv_ready"], gssapi_produce_ready(c))
      [] m.state = "send_next_token" -> gssapi_server_produce_next_token(c, m)
      [] OTHER -> Waits(m)

gssapi_server_process_next_token(m, cmd) == gssapi_process_initiate(m, cmd, "send_next_token")
gssapi_server_send_zap_request(m) == send_zap_request(m, "principal")

(* Once the context is established the next command starts the ZAP         *)
(* exchange, whatever it carries.  The status code of the reply is         *)
(* recorded and does not change the state.                                 *)
gssapi_server_process_handshake_command(c, m, cmd, reply) ==
    CASE m.state = "recv_ready" -> gssapi_process_ready(c, m, cmd, "connected")
      [] m.state = "recv_next_token" /\ "context" \in m.flags ->
            IF ~zap_connect(c) THEN Goes([m EXCEPT !.state = "send_ready"])
            ELSE Result(OK, [receive_and_process_zap_reply(gssapi_server_send_zap_request(m), reply)
                               EXCEPT !.state = IF reply = "none" THEN "expect_zap_reply" ELSE "send_ready"],
                        NoCommand, TRUE)
      [] m.state = "recv_next_token" /\ "context" \notin m.flags ->
            gssapi_server_process_next_token(m, cmd)
      [] OTHER -> Failed(m)

gssapi_server_zap_msg_available(m, reply) ==
    IF m.state # "expect_zap_reply"
    THEN Failed(m)
    ELSE Goes([receive_and_process_zap_reply(m, reply) EXCEPT !.state = "send_ready"])

gssapi_status(m) == IF m.state = "connected" THEN "ready" ELSE "handshaking"

(***************************************************************************)
(* mechanism_t: the virtual methods.                                       *)
(***************************************************************************)
status(m) ==
    CASE m.kind = "NULL" -> null_status(m)
      [] m.kind = "PLAIN client" -> plain_client_status(m)
      [] m.kind = "CURVE client" -> curve_client_status(m)
      [] m.kind \in {"PLAIN server", "CURVE server"} -> common_status(m)
      [] OTHER -> gssapi_status(m)

mechanism_next(c, m, reply) ==
    CASE m.kind = "NULL" -> null_next_handshake_command(c, m, reply)
      [] m.kind = "PLAIN client" -> plain_client_next_handshake_command(c, m)
      [] m.kind = "PLAIN server" -> plain_server_next_handshake_command(c, m)
      [] m.kind = "CURVE client" -> curve_client_next_handshake_command(c, m)
      [] m.kind = "CURVE server" -> curve_server_next_handshake_command(c, m)
      [] m.kind = "GSSAPI client" -> gssapi_client_next_handshake_command(c, m)
      [] m.kind = "GSSAPI server" -> gssapi_server_next_handshake_command(c, m)

mechanism_process(c, m, cmd, reply) ==
    CASE m.kind = "NULL" -> null_process_handshake_command(c, m, cmd)
      [] m.kind = "PLAIN client" -> plain_client_process_handshake_command(c, m, cmd)
      [] m.kind = "PLAIN server" -> plain_server_process_handshake_command(c, m, cmd, reply)
      [] m.kind = "CURVE client" -> curve_client_process_handshake_command(c, m, cmd)
      [] m.kind = "CURVE server" -> curve_server_process_handshake_command(c, m, cmd, reply)
      [] m.kind = "GSSAPI client" -> gssapi_client_process_handshake_command(c, m, cmd)
      [] m.kind = "GSSAPI server" -> gssapi_server_process_handshake_command(c, m, cmd, reply)

mechanism_zap(m, reply) ==
    CASE m.kind = "NULL" -> null_zap_msg_available(m, reply)
      [] m.kind = "GSSAPI server" -> gssapi_server_zap_msg_available(m, reply)
      [] OTHER -> common_zap_msg_available(m, reply)

(* Without encryption messages go as they are.  gss_wrap () binds a frame  *)
(* to the context of the two ends.                                         *)
plain_encode(m, body) == [m |-> m, frame |-> [k |-> "msg", body |-> body, nonce |-> 0, keys |-> {}]]
gssapi_encode_message(m, body) ==
    [m |-> m, frame |-> [k |-> "msg", body |-> body, nonce |-> 0, keys |-> {"context"}]]
gssapi_decode_message(m, f) == IF f.keys = {"context"} THEN Goes(m) ELSE Failed(m)

mechanism_encode(c, m, body) ==
    CASE c.mechanism = "CURVE" -> curve_encode(c, m, body)
      [] c.mechanism = "GSSAPI" /\ ~c.gss_plaintext -> gssapi_encode_message(m, body)
      [] OTHER -> plain_encode(m, body)

mechanism_decode(c, m, f) ==
    CASE c.mechanism = "CURVE" -> curve_decode(c, m, f)
      [] c.mechanism = "GSSAPI" /\ ~c.gss_plaintext -> gssapi_decode_message(m, f)
      [] OTHER -> Goes(m)
=============================================================================
