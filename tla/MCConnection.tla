---------------------------- MODULE MCConnection ----------------------------
(***************************************************************************)
(* A connection and the messages on it.  The parts have no state in        *)
(* common, so a behaviour exercises one of them (`use`) and the others     *)
(* stay as they were made:                                                 *)
(*   msg      Msg: reference counts of message contents and metadata       *)
(*   engine   StreamEngine: two engines with their security mechanisms     *)
(*   session  Session: a session, its connecters, its pipe and its end     *)
(***************************************************************************)
EXTENDS Msg, Sequences

CONSTANTS
    EngineScenarios, SNDBUF, INCAP, BATCH,                          \* StreamEngine
    SessionScenarios, MaxFds, MaxSessionPipes, MaxOut               \* Session

VARIABLES
    use,
    conf, eng, got, left, frozen,
    sConf, w

Link == INSTANCE StreamEngine WITH
    Scenarios <- EngineScenarios
Conn == INSTANCE Session WITH
    Scenarios <- SessionScenarios, MaxPipes <- MaxSessionPipes, conf <- sConf

(* Scenarios for the engines.                                              *)
Options(id, kind, mechanism, server) ==
    [id |-> id, type |-> kind, mechanism |-> mechanism, as_server |-> server,
     zap_domain |-> FALSE, zap_handler |-> FALSE, zap_code |-> "200", enforce |-> FALSE,
     public_key |-> IF server THEN "S" ELSE "C", cn_public |-> IF server THEN "s" ELSE "c",
     server_key |-> "S", gss_ok |-> TRUE, gss_plaintext |-> FALSE, recv_routing_id |-> FALSE, router_notify |-> {},
     raw |-> FALSE, raw_notify |-> FALSE, handshake_ivl |-> 30000,
     heartbeat_ivl |-> 0, heartbeat_timeout |-> 0, heartbeat_ttl |-> 0]

Zap(o, code) == [o EXCEPT !.zap_domain = TRUE, !.zap_handler = TRUE, !.zap_code = code]
Beating(o) ==
    [o EXCEPT !.heartbeat_ivl = 1000, !.heartbeat_timeout = 500, !.heartbeat_ttl = 20]

Scenario(a, b, ends) ==
    [A |-> a, B |-> b, old |-> "", faults |-> {}, race |-> FALSE, msgs |-> 1, ends |-> ends]

Dealer(mechanism) == Options("A", "DEALER", mechanism, FALSE)
Router(mechanism) ==
    [Options("B", "ROUTER", mechanism, TRUE)
       EXCEPT !.recv_routing_id = TRUE, !.router_notify = {"connect", "disconnect"}]

Mechanisms == <<"NULL", "CURVE", "GSSAPI", "PLAIN">>

(* Two ends that agree, with and without ZAP.                              *)
Agreeing ==
    [i \in 1 .. 4 |-> Scenario(Dealer(Mechanisms[i]), Zap(Router(Mechanisms[i]), "200"), "up")]
    \o [i \in 1 .. 3 |-> Scenario(Dealer(Mechanisms[i]), Router(Mechanisms[i]), "up")]
    \o <<Scenario(Zap(Dealer("NULL"), "200"), Zap(Router("NULL"), "200"), "up")>>

(* Ends that do not: refused by ZAP, wrong socket type, other mechanism,   *)
(* wrong server key, no handler for PLAIN, an older peer where ZAP is on.  *)
Disagreeing ==
    [i \in 1 .. 4 |-> Scenario(Options("A", "PUSH", Mechanisms[i], FALSE),
                               Zap(Router(Mechanisms[i]), "200"), "refused")]
    \o <<Scenario(Dealer("NULL"), Zap(Router("NULL"), "400"), "refused"),
         Scenario(Dealer("PLAIN"), Zap(Router("PLAIN"), "400"), "refused"),
         Scenario(Dealer("CURVE"), Zap(Router("CURVE"), "400"), "refused"),
         Scenario(Dealer("NULL"), Router("CURVE"), "refused"),
         Scenario([Dealer("CURVE") EXCEPT !.server_key = "X"], Router("CURVE"), "refused"),
         Scenario(Dealer("PLAIN"), Router("PLAIN"), "refused"),
         [Scenario(Zap(Dealer("NULL"), "200"), Router("NULL"), "refused") EXCEPT !.old = "0"]>>

Older ==
    [i \in 1 .. 3 |-> [Scenario(Dealer("NULL"), Router("NULL"), "up")
                         EXCEPT !.old = <<"0", "1", "2">>[i]]]
    \o <<[Scenario([Router("NULL") EXCEPT !.id = "A"], Router("NULL"), "up") EXCEPT !.old = "0"],
         [Scenario(Options("A", "PUB", "NULL", FALSE), Router("NULL"), "any") EXCEPT !.old = "0"]>>

(* Heartbeats, a host that stops, and a connection closed at any moment.   *)
Beats ==
    <<[Scenario(Beating(Dealer("NULL")), Beating(Router("NULL")), "noticed")
         EXCEPT !.faults = {"freeze"}],
      Scenario(Beating(Dealer("NULL")), Router("NULL"), "up")>>

Breaking ==
    <<[Scenario(Dealer("NULL"), Router("NULL"), "any")
         EXCEPT !.faults = {"close"}, !.race = TRUE],
      [Scenario(Dealer("NULL"), Router("NULL"), "any")
         EXCEPT !.faults = {"close"}, !.race = TRUE, !.msgs = 2, !.old = "2"],
      [Scenario([Dealer("NULL") EXCEPT !.raw = TRUE, !.raw_notify = TRUE],
                [Dealer("NULL") EXCEPT !.raw = TRUE], "any")
         EXCEPT !.faults = {"close"}, !.msgs = 2]>>

(* Several messages each way.                                              *)
Busy == <<[Scenario(Dealer("NULL"), Router("NULL"), "any") EXCEPT !.race = TRUE, !.msgs = 2]>>

(* An application that does not read, and heartbeats.                      *)
Stalled ==
    <<[Scenario(Dealer("NULL"), Beating(Dealer("NULL")), "any")
         EXCEPT !.faults = {"close"}, !.race = TRUE, !.msgs = 2]>>

(* A host that stops while the security handshake runs.                    *)
Halting ==
    <<[Scenario(Dealer("NULL"), Router("NULL"), "any") EXCEPT !.faults = {"freeze"}]>>

AllScenarios == Agreeing \o Disagreeing \o Older \o Beats \o Breaking \o Busy

(* Scenarios for the session.                                              *)
Usual == {"inprogress", "refused", "unresolved", "up", "error"}

Connecting == [active |-> TRUE, proto |-> "tcp", immediate |-> FALSE, reconnect |-> TRUE, linger |-> "finite",
               zap |-> FALSE, raw |-> FALSE, sub |-> FALSE, leave |-> "close", os |-> Usual, fds |-> 1, in |-> 1]

(* zmq_connect over every transport, then close or disconnect; with a      *)
(* second connection, with ZMQ_IMMEDIATE, without reconnection, for a      *)
(* subscriber and for a ZMQ_STREAM socket; and the same for zmq_bind.      *)
Usage == <<
    Connecting,
    [Connecting EXCEPT !.linger = "infinite", !.leave = "disconnect", !.in = 0, !.fds = 2],
    [Connecting EXCEPT !.linger = "zero", !.proto = "ipc", !.in = 0, !.os = Usual \cup {"done"}],
    [Connecting EXCEPT !.linger = "infinite", !.proto = "tipc", !.in = 0, !.os = Usual \cup {"done"}],
    [Connecting EXCEPT !.linger = "zero", !.in = 0, !.os = {"done", "up", "untuned"}],
    [Connecting EXCEPT !.proto = "socks", !.in = 0],
    [Connecting EXCEPT !.proto = "socks", !.in = 0, !.os = {"done", "up"}],
    [Connecting EXCEPT !.linger = "zero", !.proto = "socks", !.in = 0, !.reconnect = FALSE],
    [Connecting EXCEPT !.proto = "udp"],
    [Connecting EXCEPT !.immediate = TRUE, !.in = 0],
    [Connecting EXCEPT !.sub = TRUE, !.in = 0],
    [Connecting EXCEPT !.reconnect = FALSE, !.in = 0],
    [Connecting EXCEPT !.linger = "zero", !.raw = TRUE, !.in = 0],
    [Connecting EXCEPT !.active = FALSE],
    [Connecting EXCEPT !.active = FALSE, !.leave = "disconnect"],
    [Connecting EXCEPT !.linger = "zero", !.active = FALSE, !.zap = TRUE, !.in = 0],
    [Connecting EXCEPT !.active = FALSE, !.zap = TRUE, !.in = 0, !.leave = "disconnect"]>>

engineVars == <<conf, eng, got, left, frozen>>
sessionVars == <<sConf, w>>
allVars == <<use, vars, engineVars, sessionVars>>

AllInit ==
    /\ use \in {"msg", "engine", "session"}
    /\ Init
    /\ Link!Init /\ (use # "engine" => conf = EngineScenarios[1])
    /\ Conn!Init /\ (use # "session" => sConf = SessionScenarios[1])

AllNext ==
    \/ use = "msg" /\ Next /\ UNCHANGED <<use, engineVars, sessionVars>>
    \/ use = "engine" /\ Link!Next /\ UNCHANGED <<use, vars, sessionVars>>
    \/ use = "session" /\ Conn!Next /\ UNCHANGED <<use, vars, engineVars>>

\* The fairness of StreamEngine and of Session, for the behaviours that
\* exercise them.
E == use = "engine"
EngineFair ==
    /\ \A p \in Link!Peers :
          /\ []<>~(E /\ Link!CanPlug(p)) \/ []<><<E /\ Link!Plug(p)>>_engineVars
          /\ []<>~(E /\ Link!CanIn(p)) \/ []<><<E /\ Link!InEvent(p)>>_engineVars
          /\ []<>~(E /\ Link!CanOut(p)) \/ []<><<E /\ Link!OutEvent(p)>>_engineVars
          /\ []<>~(E /\ Link!CanRestartIn(p)) \/ []<><<E /\ Link!RestartInput(p)>>_engineVars
          /\ []<>~(E /\ Link!CanRestartOut(p)) \/ []<><<E /\ Link!RestartOutput(p)>>_engineVars
          /\ []<>~(E /\ eng[p].zap = "asked") \/ []<><<E /\ Link!ZapAnswer(p)>>_engineVars
          /\ []<>~(E /\ Link!Live(p) /\ eng[p].zap = "reply") \/ []<><<E /\ Link!ZapMsgAvailable(p)>>_engineVars
          /\ []<>~(E /\ Link!CanSend(p)) \/ []<><<E /\ Link!Send(p)>>_engineVars
          /\ []<>~(E /\ eng[p].inq # <<>> /\ p \notin frozen) \/ []<><<E /\ Link!Receive(p)>>_engineVars
          /\ WF_engineVars(E /\ \E t \in Link!Timers : Link!TimerEvent(p, t))
    /\ WF_engineVars(E /\ Link!OldPeerStep)

N == use = "session"
SessionFair ==
    /\ []<>~(N /\ w.box["session"] # <<>>) \/ []<><<N /\ Conn!SessionCommand>>_sessionVars
    /\ []<>~(N /\ w.box["socket"] # <<>>) \/ []<><<N /\ Conn!SocketCommand>>_sessionVars
    /\ []<>~(N /\ w.box["listener"] # <<>>) \/ []<><<N /\ Conn!ListenerCommand>>_sessionVars
    /\ \A c \in Conn!Connecters :
          []<>~(N /\ w.cbox[c] # <<>>) \/ []<><<N /\ Conn!ConnecterCommand(c)>>_sessionVars
    /\ []<>~(N /\ w.ses.linger_timer) \/ []<><<N /\ Conn!LingerTimer>>_sessionVars
    /\ []<>~(N /\ Conn!CanZap) \/ []<><<N /\ Conn!ZapHandler>>_sessionVars
    /\ []<>~(N /\ Conn!CanRecv) \/ []<><<N /\ Conn!AppRecv>>_sessionVars

AllSpec == AllInit /\ [][AllNext]_allVars /\ EngineFair /\ SessionFair

-----------------------------------------------------------------------------
(* The properties of the parts, under their names (Msg's as it is).        *)

\* Two engines come up only when they agree, and deliver messages in order.
EngineRight == Link!EngineRight

\* Handshakes end, and a dead peer is noticed.
EngineGoesOn == E => Link!EngineGoesOn

\* A session has one connection, no assertion fails and linger is kept.
SessionRight == Conn!SessionRight

\* A session that is told to go goes.
SessionGoes == N => Conn!SessionGoes
=============================================================================
