----------------------------- MODULE Endpoints ------------------------------
(***************************************************************************)
(* zmq_bind, zmq_connect, zmq_unbind and zmq_disconnect of one socket      *)
(* (socket_base.cpp): the listeners and sessions they make, the table of   *)
(* endpoints, the descriptors and files of the listeners (tcp_listener.cpp,*)
(* ipc_listener.cpp, tipc_listener.cpp) and what a monitor is told.        *)
(*                                                                         *)
(* A child is known to the table by its address.  The address of a child   *)
(* that was deallocated may be that of a later one; born numbers the       *)
(* children apart.  A uri is [proto, name]; the name 0 is the wild-card,   *)
(* and a name above MaxName one that the system made up.                   *)
(***************************************************************************)
EXTENDS Naturals, Sequences, FiniteSets, SequencesExt

CONSTANTS
    Cases,      \* set of [type, protos, most]: a socket type, the protocols of its
                \* uris and a bound, the children made
    MaxName,    \* bound: names the application uses
    Addresses,  \* where children can be allocated
    MaxFds,     \* bound: descriptors opened
    MaxFails,   \* bound: errors of system calls
    MaxCalls    \* bound: monitor calls, refused calls

VARIABLE e      \* the socket and its surroundings, a record

NULL == 0
retired_fd == 0

Child(kind, uri, born) ==
    [kind |-> kind, uri |-> uri, born |-> born, st |-> "new", plug |-> FALSE, s |-> retired_fd, handle |-> FALSE,
     has_file |-> FALSE, dir |-> FALSE, accepted |-> {}]
NoChild == Child("none", [proto |-> "none", name |-> 0], 0)

Uris == [proto : e.protos, name : 0..MaxName]
Check(x, ok, name) == IF ok THEN x ELSE [x EXCEPT !.broken = @ \cup {name}]

-----------------------------------------------------------------------------
(* The monitor: it is told of events while one is set.                     *)

event(x, what, fd) ==
    IF ~x.monitor THEN x
    ELSE CASE what = "listening" -> [x EXCEPT !.told = @ \cup {fd}]
           [] what = "closed" -> [x EXCEPT !.told = @ \ {fd}]
           [] OTHER -> x

stop_monitor(x) == [x EXCEPT !.monitor = FALSE]

(* A new monitor begins with nothing; the old one is told that it ends.    *)
monitor(x, on) ==
    IF x.ctx_terminated THEN x
    ELSE IF on THEN [stop_monitor(x) EXCEPT !.monitor = TRUE, !.told = {}, !.monitored = x.listened]
    ELSE stop_monitor(x)

-----------------------------------------------------------------------------
(* Descriptors and files                                                   *)

NewFd(x) == Len(x.fds) + 1
open_socket(x) == [x EXCEPT !.fds = Append(@, "open")]
close_fd(x, fd) == [Check(x, x.fds[fd] = "open", "close") EXCEPT !.fds[fd] = "closed"]

(* A listener's close().                                                   *)
tcp_close(x, a) ==
    LET fd == x.child[a].s
        y == event(close_fd(Check(x, fd # retired_fd, "_s != retired_fd"), fd), "closed", fd)
    IN  [y EXCEPT !.child[a].s = retired_fd]

tipc_close(x, a) ==
    LET fd == x.child[a].s
    IN  event([close_fd(Check(x, fd # retired_fd, "s != retired_fd"), fd) EXCEPT !.child[a].s = retired_fd],
              "closed", retired_fd)

(* A plausible slip: the file is unlinked with the listener.               *)
ipc_close_unlinks(x, a) ==
    LET y == tcp_close(x, a)
    IN  [y EXCEPT !.files = [f \in DOMAIN @ \ {x.child[a].uri} |-> @[f]]]

(* The file in a temporary directory keeps rmdir from removing it.  The    *)
(* file itself stays: it may belong to a later listener by now.            *)
ipc_close(x, a) ==
    LET fd == x.child[a].s
        y == [close_fd(Check(x, fd # retired_fd, "s != retired_fd"), fd) EXCEPT !.child[a].s = retired_fd]
        file == x.child[a].uri
    IN  IF x.child[a].has_file /\ x.child[a].dir /\ file \in DOMAIN x.files
        THEN event([y EXCEPT !.child[a].dir = FALSE], "close_failed", retired_fd)
        ELSE event(y, "closed", fd)

listener_close(x, a) ==
    CASE x.child[a].uri.proto = "tcp" -> tcp_close(x, a)
      [] x.child[a].uri.proto = "ipc" -> ipc_close(x, a)
      [] x.child[a].uri.proto = "tipc" -> tipc_close(x, a)

-----------------------------------------------------------------------------
(* set_address: os is how far it gets.                                     *)

resolved(x, uri) == IF uri.name = 0 THEN [uri EXCEPT !.name = MaxName + x.born] ELSE uri

tcp_set_address(x, a, uri, os) ==
    LET fd == NewFd(x)
        y == [open_socket(x) EXCEPT !.child[a].s = fd, !.child[a].uri = resolved(x, uri)]
    IN  CASE os \in {"unresolved", "nosocket"} -> x
          [] os \in {"bind", "listen"} -> tcp_close(y, a)
          [] os = "ok" -> event(y, "listening", fd)

(* Binding makes the file, after unlink has taken away one that was there. *)
ipc_set_address(x, a, uri, os) ==
    LET fd == NewFd(x)
        path == resolved(x, uri)
        u == [x EXCEPT !.child[a].uri = path, !.child[a].dir = (uri.name = 0),
                       !.files = [f \in DOMAIN @ \ {path} |-> @[f]],
                       !.spoiled = IF os = "ok" THEN @ ELSE @ \cup {path}]
        y == [open_socket(u) EXCEPT !.child[a].s = fd]
        made == [f \in DOMAIN u.files \cup {path} |-> IF f = path THEN x.child[a].born ELSE u.files[f]]
    IN  CASE os = "notemp" -> x
          [] os \in {"unresolved", "nosocket"} -> [u EXCEPT !.child[a].dir = FALSE]
          [] os = "bind" -> ipc_close(y, a)
          [] os = "listen" -> ipc_close([y EXCEPT !.files = made], a)
          [] os = "ok" -> event([y EXCEPT !.files = made, !.child[a].has_file = TRUE], "listening", fd)

tipc_set_address(x, a, uri, os) ==
    LET fd == NewFd(x)
        y == [open_socket(x) EXCEPT !.child[a].s = fd, !.child[a].uri = resolved(x, uri)]
    IN  CASE os \in {"unresolved", "nosocket"} -> x
          [] os \in {"bind", "listen"} -> tipc_close(y, a)
          [] os = "ok" -> event(y, "listening", fd)

set_address(x, a, uri, os) ==
    CASE uri.proto = "tcp" -> tcp_set_address(x, a, uri, os)
      [] uri.proto = "ipc" -> ipc_set_address(x, a, uri, os)
      [] uri.proto = "tipc" -> tipc_set_address(x, a, uri, os)

-----------------------------------------------------------------------------
(* The socket as an owner (own.cpp) and its commands                       *)

process_own(x, a) ==
    IF x.terminating THEN [x EXCEPT !.acks = @ + 1, !.child[a].st = "term"]
    ELSE [x EXCEPT !.owned = @ \cup {a}]

(* What is looked up is an address.                                        *)
process_term_req(x, a) ==
    IF x.terminating \/ a \notin x.owned THEN x
    ELSE [x EXCEPT !.owned = @ \ {a}, !.acks = @ + 1, !.child[a].st = "term"]

term_child(x, a) == process_term_req(x, a)

process_command(x, c) ==
    CASE c.cmd = "own" -> process_own(x, c.who)
      [] c.cmd = "term_req" -> process_term_req(x, c.who)
      [] c.cmd = "term_ack" -> [Check(x, x.acks > 0, "unregister_term_ack") EXCEPT !.acks = @ - 1]
      [] c.cmd = "stop" -> [stop_monitor(x) EXCEPT !.ctx_terminated = TRUE]

process_commands(x) == [FoldLeft(process_command, x, x.box) EXCEPT !.box = <<>>]

launch_child(x, a) == [x EXCEPT !.child[a].st = "up", !.child[a].plug = TRUE, !.box = Append(@, [cmd |-> "own", who |-> a])]

add_endpoint(x, uri, a) ==
    [launch_child(x, a) EXCEPT !.endpoints = Append(@, [uri |-> uri, who |-> a, born |-> x.born]),
                               !.listened = @ \cup {x.child[a].s},
                               !.odd = IF x.child[a].dir \/ uri.proto = "tipc" THEN @ \cup {x.child[a].s} ELSE @]

Range_of(x, uri) == {i \in DOMAIN x.endpoints : x.endpoints[i].uri = uri}

(* resolve_tcp_addr: the key of a bound tcp endpoint is its last endpoint. *)
parse_uri(uri) == uri.proto # "none"
check_protocol(x, uri) ==
    /\ uri.proto \in {"inproc", "ipc", "tcp", "tipc", "udp"}
    /\ uri.proto = "udp" => x.type \in {"dish", "radio", "dgram"}

-----------------------------------------------------------------------------
(* The calls.  A call that fails with errno why leaves x.                  *)

Fails(x, why) == x

New(x, a, kind, uri) == [x EXCEPT !.born = @ + 1, !.child[a] = Child(kind, uri, x.born + 1)]
Delete(x, a) == [Check(x, x.child[a].s = retired_fd, "~listener_t") EXCEPT !.child[a] = NoChild]

bind_udp(x, uri, a, os) ==
    IF x.type \notin {"dgram", "dish"} THEN Fails(x, "ENOCOMPATPROTO")
    ELSE IF os # "ok" THEN Fails(x, "EINVAL")
    ELSE add_endpoint(New(x, a, "session", uri), uri, a)

bind_listener(x, uri, a, os) ==
    LET y == set_address(New(x, a, "listener", uri), a, uri, os)
        key == IF uri.proto = "tipc" THEN uri ELSE y.child[a].uri
    IN  IF os # "ok" THEN Fails(event(Delete(y, a), "bind_failed", retired_fd), os)
        ELSE [add_endpoint(y, key, a) EXCEPT !.last_endpoint = y.child[a].uri]

bind(x, uri, a, os) ==
    LET y == process_commands(x)
    IN  IF y.ctx_terminated THEN Fails(y, "ETERM")
        ELSE IF ~parse_uri(uri) \/ ~check_protocol(y, uri) THEN Fails(y, "EPROTONOSUPPORT")
        ELSE IF uri.proto = "udp" THEN bind_udp(y, uri, a, os)
        ELSE bind_listener(y, uri, a, os)

is_single_connect(x) == x.type \in {"dealer", "sub", "pub", "req"}

(* Whether the address of a connect is good is known at once for tcp       *)
(* (syntax only), ipc, udp and tipc.                                       *)
address_valid(x, uri, os) == uri.name # 0 /\ os = "ok" /\ (uri.proto = "udp" => x.type = "radio")

connect_session(x, uri, a) ==
    [add_endpoint(New(x, a, "session", uri), uri, a) EXCEPT !.last_endpoint = uri]

connect(x, uri, a, os) ==
    LET y == process_commands(x)
    IN  IF y.ctx_terminated THEN Fails(y, "ETERM")
        ELSE IF ~parse_uri(uri) \/ ~check_protocol(y, uri) THEN Fails(y, "EPROTONOSUPPORT")
        ELSE IF is_single_connect(y) /\ Range_of(y, uri) # {} THEN y
        ELSE IF ~address_valid(y, uri, os) THEN Fails(y, "EINVAL")
        ELSE connect_session(y, uri, a)

term_endpoint(x, uri) ==
    LET y == process_commands(x)
        range == Range_of(y, uri)
        kids == {y.endpoints[i].who : i \in range}
        z == FoldLeft(term_child, y, SetToSeq(kids))
        ended == {<<y.endpoints[i].born, y.child[y.endpoints[i].who].born>> :
                     i \in {j \in range : y.endpoints[j].who \in y.owned}}
    IN  IF y.ctx_terminated THEN Fails(y, "ETERM")
        ELSE IF ~parse_uri(uri) \/ ~check_protocol(y, uri) THEN Fails(y, "EPROTONOSUPPORT")
        ELSE IF range = {} THEN Fails(y, "ENOENT")
        ELSE [z EXCEPT !.endpoints = SelectSeq(@, LAMBDA p : p.uri # uri), !.ended = @ \cup ended,
                       !.left = @ \cup {p[2] : p \in {q \in ended : q[1] # q[2]}}]

(* The reaper closes the socket: own_t::process_term.  Commands that wait  *)
(* are handled afterwards.                                                 *)
close(x) ==
    [x EXCEPT !.terminating = TRUE, !.acks = @ + Cardinality(x.owned), !.owned = {},
              !.child = [a \in Addresses |-> IF a \in x.owned THEN [x.child[a] EXCEPT !.st = "term"]
                                             ELSE x.child[a]]]

-----------------------------------------------------------------------------
(* The I/O thread                                                          *)

process_plug(x, a) == [x EXCEPT !.child[a].plug = FALSE, !.child[a].handle = (x.child[a].kind = "listener")]

(* accept() and the rest of in_event: a session takes the descriptor.      *)
(* Which errors of the system's accept() the listener ignores differs; at  *)
(* any other the process ends.                                             *)
Ignored(proto) ==
    CASE proto = "tcp" -> {"reset", "EMFILE", "ENOMEM"}
      [] proto = "ipc" -> {"reset"}
      [] proto = "tipc" -> {"reset", "EMFILE"}
refused(x, proto, os) ==
    IF os \in Ignored(proto) THEN event(x, "accept_failed", retired_fd) ELSE Check(x, FALSE, proto)

took(x, a) == event([open_socket(x) EXCEPT !.child[a].accepted = @ \cup {NewFd(x)}], "accepted", NewFd(x))
put_back(x) == event(close_fd(open_socket(x), NewFd(x)), "accept_failed", retired_fd)

(* A connection whose options cannot be set is not closed.                 *)
tcp_accept(x, a, os) ==
    CASE os \in {"reset", "EMFILE", "ENOMEM"} -> refused(x, "tcp", os)
      [] os \in {"filtered", "nosigpipe"} -> put_back(x)
      [] os = "untuned" -> event([open_socket(x) EXCEPT !.lost = @ \cup {NewFd(x)}], "accept_failed", retired_fd)
      [] os = "ok" -> took(x, a)

ipc_accept(x, a, os) ==
    CASE os \in {"reset", "EMFILE", "ENOMEM"} -> refused(x, "ipc", os)
      [] os \in {"filtered", "nosigpipe"} -> put_back(x)
      [] os = "ok" -> took(x, a)

tipc_accept(x, a, os) == IF os = "ok" THEN took(x, a) ELSE refused(x, "tipc", os)

Outcomes(proto) ==
    {"ok", "reset", "EMFILE", "ENOMEM"}
    \cup (IF proto = "tipc" THEN {} ELSE {"filtered", "nosigpipe"})
    \cup (IF proto = "tcp" THEN {"untuned"} ELSE {})

in_event(x, a, os) ==
    CASE x.child[a].uri.proto = "tcp" -> tcp_accept(x, a, os)
      [] x.child[a].uri.proto = "ipc" -> ipc_accept(x, a, os)
      [] x.child[a].uri.proto = "tipc" -> tipc_accept(x, a, os)

process_term(x, a) ==
    LET y == Check(x, x.child[a].handle, "rm_fd")
    IN  IF x.child[a].kind = "session" THEN [x EXCEPT !.child[a].st = "closing"]
        ELSE [listener_close([y EXCEPT !.child[a].handle = FALSE], a) EXCEPT !.child[a].st = "closing"]

process_destroy(x, a) == [Delete(x, a) EXCEPT !.box = Append(@, [cmd |-> "term_ack", who |-> a])]

-----------------------------------------------------------------------------
Init ==
    \E c \in Cases :
    e = [type |-> c.type, protos |-> c.protos, most |-> c.most, child |-> [a \in Addresses |-> NoChild], born |-> 0, endpoints |-> <<>>, last_endpoint |-> NoChild.uri,
         owned |-> {}, acks |-> 0, terminating |-> FALSE, ctx_terminated |-> FALSE, box |-> <<>>,
         fds |-> <<>>, files |-> [f \in {} |-> 0], fails |-> 0, calls |-> 0,
         monitor |-> TRUE, told |-> {}, monitored |-> {}, listened |-> {}, ended |-> {}, left |-> {}, lost |-> {}, odd |-> {}, spoiled |-> {}, broken |-> {}]

Free(x) == {a \in Addresses : x.child[a] = NoChild}
Room(x) == x.born < x.most /\ Len(x.fds) < MaxFds /\ Free(x) # {}
Cost(os) == IF os = "ok" THEN 0 ELSE 1
Spend(x, os) == [x EXCEPT !.fails = @ + Cost(os)]
BindErrors(uri) == IF uri.proto = "ipc" THEN {"notemp", "unresolved", "nosocket", "bind", "listen"}
                   ELSE {"unresolved", "nosocket", "bind", "listen"}
Errors(os) == e.fails + Cost(os) <= MaxFails

Bind ==
    /\ ~e.terminating /\ Room(e)
    /\ \E uri \in Uris : \E os \in BindErrors(uri) \cup {"ok"} : \E a \in Free(e) :
          Errors(os) /\ (os = "notemp" => uri.name = 0) /\ e' = Spend(bind(e, uri, a, os), os)

Connect ==
    /\ ~e.terminating /\ Room(e)
    /\ \E uri \in Uris : \E os \in {"ok", "unresolved"} : \E a \in Free(e) :
          Errors(os) /\ e' = Spend(connect(e, uri, a, os), os)

TermEndpoint ==
    /\ ~e.terminating
    /\ \E uri \in Uris \cup {e.last_endpoint} : e' = term_endpoint(e, uri)

Close == ~e.terminating /\ e' = close(e)

Monitor ==
    /\ e.calls < MaxCalls /\ ~e.terminating
    /\ \E on \in BOOLEAN : e' = [monitor(e, on) EXCEPT !.calls = @ + 1]

CtxTerm ==
    /\ e.calls < MaxCalls /\ ~e.ctx_terminated /\ \A i \in DOMAIN e.box : e.box[i].cmd # "stop"
    /\ e' = [e EXCEPT !.box = Append(@, [cmd |-> "stop", who |-> NULL]), !.calls = @ + 1]

ReaperCommands == e.terminating /\ e.box # <<>> /\ e' = process_commands(e)

Plug(a) == e.child[a].plug /\ e' = process_plug(e, a)

Accept(a) ==
    /\ e.child[a].kind = "listener" /\ e.child[a].handle /\ Len(e.fds) < MaxFds
    /\ \E os \in Outcomes(e.child[a].uri.proto) : Errors(os) /\ e' = Spend(in_event(e, a, os), os)

(* A connection that was accepted ends.                                    *)
ConnectionEnds(a) ==
    \E fd \in e.child[a].accepted : e' = [close_fd(e, fd) EXCEPT !.child[a].accepted = @ \ {fd}]

(* A session gives up on its own (a protocol error): terminate().          *)
SessionGivesUp(a) ==
    /\ e.child[a].kind = "session" /\ e.child[a].uri.proto # "udp" /\ e.child[a].st = "up" /\ ~e.child[a].plug /\ e.fails < MaxFails
    /\ e' = [e EXCEPT !.child[a].st = "asked", !.box = Append(@, [cmd |-> "term_req", who |-> a]), !.fails = @ + 1,
                    !.left = @ \cup {e.child[a].born}]

ProcessTerm(a) == e.child[a].st = "term" /\ ~e.child[a].plug /\ e' = process_term(e, a)
Destroy(a) == e.child[a].st = "closing" /\ e.child[a].accepted = {} /\ e' = process_destroy(e, a)

(* A process whose assertion failed does nothing more.                     *)
Next == e.broken = {} /\
    \/ Bind \/ Connect \/ TermEndpoint \/ Close \/ Monitor \/ CtxTerm \/ ReaperCommands
    \/ \E a \in Addresses :
          Plug(a) \/ Accept(a) \/ ConnectionEnds(a) \/ SessionGivesUp(a) \/ ProcessTerm(a) \/ Destroy(a)

Spec == Init /\ [][Next]_e

-----------------------------------------------------------------------------
Live == {a \in Addresses : e.child[a] # NoChild}
Held == {e.child[a].s : a \in Live} \cup UNION {e.child[a].accepted : a \in Live}

(* No descriptor of a listener or of an accepted connection is lost when   *)
(* a call or an accept fails half-way, none is closed twice, and no        *)
(* assertion of the listeners or of own.cpp fails.  The exceptions are two: *)
(* a tcp connection whose options cannot be set stays open for good, and a *)
(* process that runs out of descriptors or memory in accept() ends, if the *)
(* listener is an ipc or a tipc one (never with tcp).                      *)
NothingLost ==
    /\ {fd \in DOMAIN e.fds : e.fds[fd] = "open"} = (Held \ {retired_fd}) \cup e.lost
    /\ e.broken \subseteq {"ipc", "tipc"}

(* doc/zmq_disconnect.txt: zmq_disconnect "shall disconnect a socket ...   *)
(* from the endpoint specified by the 'endpoint' argument".  term_endpoint *)
(* ends no child but the one the endpoint was made with, unless that child *)
(* has left its endpoint behind: it gave up by itself, or was itself taken *)
(* for another one.  The endpoint then names whoever has its address now.  *)
RightChildEnded == \A p \in e.ended : p[1] = p[2] \/ p[1] \in e.left

(* Every child that was not asked to end is in the table of endpoints, so  *)
(* that zmq_unbind or zmq_disconnect can end it, and they end that child.  *)
EndpointsKnown ==
    /\ RightChildEnded
    /\ \A a \in Live : e.child[a].st = "up" =>
          \E i \in DOMAIN e.endpoints : e.endpoints[i].who = a /\ e.endpoints[i].born = e.child[a].born

(* doc/zmq_ipc.txt: "any existing binding to the same endpoint shall be    *)
(* overridden".  The file of the last listener bound to a path is there as *)
(* long as that listener is, whenever an older one is closed (a later bind *)
(* that fails does take the file away).                                    *)
BoundPathStays ==
    \A a \in Live : LET c == e.child[a] IN
        c.has_file /\ c.s # retired_fd /\ c.uri \notin e.spoiled =>
            /\ c.uri \in DOMAIN e.files
            /\ \A b \in Live : e.child[b].has_file /\ e.child[b].uri = c.uri => e.child[b].born <= e.files[c.uri]

(* A monitor that is told of every event knows which descriptors listen,   *)
(* in whatever order listeners are bound, fail to bind and are closed      *)
(* (tcp and ipc paths: tipc reports no descriptor, and an ipc wild-card    *)
(* a failure).                                                             *)
MonitorKnows ==
    e.monitor =>
        {fd \in e.told : e.fds[fd] = "open"} \subseteq Held
        /\ \A a \in Live : LET c == e.child[a] IN
              c.kind = "listener" /\ c.st # "new" /\ c.s # retired_fd /\ c.s \notin e.monitored => c.s \in e.told
        /\ \A fd \in e.told : e.fds[fd] = "closed" => fd \in e.odd

(* The four: descriptors, children, files and the monitor's picture of     *)
(* them stay in step.                                                      *)
EndpointsRight == NothingLost /\ EndpointsKnown /\ BoundPathStays /\ MonitorKnows
=============================================================================
