------------------------------- MODULE Inproc -------------------------------
(***************************************************************************)
(* inproc:// connections: zmq_connect and zmq_bind of sockets of one       *)
(* context, in either order and at the same time (socket_base.cpp,         *)
(* ctx.cpp).  Each socket has a thread; the tables of the context are      *)
(* shared under a lock.  zmq_connect looks the name up, makes a pipe and   *)
(* then joins the binder or the pending connections: two visits to the     *)
(* tables; zmq_bind registers the name and then connects what is pending:  *)
(* two as well.                                                            *)
(*                                                                         *)
(* A connection is a record: its sides, how it came about, which ends are  *)
(* attached, the items written each way ("id" a routing id, "msg" any      *)
(* other message).  Ending a pipe is one step (Pipe has the handshake).    *)
(***************************************************************************)
EXTENDS Naturals, Sequences, FiniteSets, SequencesExt

CONSTANTS
    Connecters, \* sockets that connect
    Binders,    \* sockets that bind
    Nobody,     \* no socket
    MaxConns,   \* bound: connections made
    MaxBinds    \* bound: calls of zmq_bind

VARIABLES
    endpoints,  \* the socket registered under the name, or Nobody
    pending,    \* connections that wait for a bind
    conns,      \* sequence of connections
    socks,      \* [socket -> record]
    box,        \* [socket -> commands]
    call,       \* [socket -> the call it is in the middle of]
    rid,        \* [socket -> options.recv_routing_id]
    binds       \* calls of zmq_bind so far

vars == <<endpoints, pending, conns, socks, box, call, rid, binds>>

Sockets == Connecters \cup Binders
Idle == [op |-> "none", conn |-> 0, peer |-> Nobody]

(* due: the commands own_t has counted (_sent_seqnum) and the socket has   *)
(* not processed (_processed_seqnum); the pipes that are attached.         *)
socket == [tag |-> "open", due |-> 0, terminating |-> FALSE, gone |-> FALSE, pipes |-> {}]

Init ==
    /\ endpoints = Nobody /\ pending = {} /\ conns = <<>> /\ binds = 0
    /\ socks = [s \in Sockets |-> socket]
    /\ box = [s \in Sockets |-> <<>>]
    /\ call = [s \in Sockets |-> Idle]
    /\ rid \in {f \in [Sockets -> BOOLEAN] : \A a, b \in Binders : f[a] = f[b]}

Bind(k) == [cmd |-> "bind", conn |-> k]
Connected == [cmd |-> "inproc_connected", conn |-> 0]

inc_seqnum(x, s) == [x EXCEPT ![s].due = @ + 1]

(* own_t::check_term_acks: every command counted has come, every pipe has  *)
(* ended.                                                                  *)
check_term_acks(x, s) ==
    [x EXCEPT ![s].gone = x[s].terminating /\ x[s].due = 0 /\ x[s].pipes = {}]

Free(s) == socks[s].tag = "open" /\ call[s] = Idle

-----------------------------------------------------------------------------
\* A plausible slip: the peer is not told to expect a command.
find_uncounted(s) ==
    /\ s \in Connecters /\ Free(s) /\ Len(conns) < MaxConns
    /\ conns' = Append(conns, [from |-> s, to |-> endpoints, side |-> "none", attached |-> FALSE, ended |-> FALSE,
                               out |-> <<>>, in |-> <<>>])
    /\ call' = [call EXCEPT ![s] = [op |-> "connect", conn |-> Len(conns) + 1, peer |-> endpoints]]
    /\ UNCHANGED <<socks, endpoints, pending, box, rid, binds>>

(* zmq_connect: find_endpoint counts the bind it is going to send.         *)
find_endpoint(s) ==
    /\ s \in Connecters /\ Free(s) /\ Len(conns) < MaxConns
    /\ conns' = Append(conns, [from |-> s, to |-> endpoints, side |-> "none", attached |-> FALSE, ended |-> FALSE,
                               out |-> <<>>, in |-> <<>>])
    /\ call' = [call EXCEPT ![s] = [op |-> "connect", conn |-> Len(conns) + 1, peer |-> endpoints]]
    /\ socks' = IF endpoints = Nobody THEN socks ELSE inc_seqnum(socks, endpoints)
    /\ UNCHANGED <<endpoints, pending, box, rid, binds>>

Attach(x, s, k) == [x EXCEPT ![s].pipes = @ \cup {k}]
WriteId(c, k, dir) == IF dir = "out" THEN [c EXCEPT ![k].out = Append(@, "id")]
                      ELSE [c EXCEPT ![k].in = Append(@, "id")]

(* The peer was there: the routing ids that are expected are written, then *)
(* the other end of the pipe goes to the peer.                             *)
connect_found(s) ==
    LET k == call[s].conn
        p == call[s].peer
        c == IF rid[p] THEN WriteId(conns, k, "out") ELSE conns
        d == IF rid[s] THEN WriteId(c, k, "in") ELSE c
    IN  /\ call[s].op = "connect" /\ p # Nobody
        /\ conns' = [d EXCEPT ![k].side = "found"]
        /\ box' = [box EXCEPT ![p] = Append(@, Bind(k))]
        /\ socks' = Attach(socks, s, k)
        /\ call' = [call EXCEPT ![s] = Idle]
        /\ UNCHANGED <<endpoints, pending, rid, binds>>

(* connect_inproc_sockets: the routing id written in advance is dropped    *)
(* when the binder does not expect one.                                    *)
Joined(c, k, b, side) ==
    [c EXCEPT ![k].side = side, ![k].to = b, ![k].out = IF rid[b] THEN @ ELSE Tail(@)]

(* pend_connection: a bind may have come in the meantime.  Then the bind   *)
(* command is sent before the binder's routing id is written.              *)
pend_connection(s) ==
    LET k == call[s].conn
        c == WriteId(conns, k, "out")
    IN  /\ call[s].op = "connect" /\ call[s].peer = Nobody
        /\ IF endpoints = Nobody
           THEN /\ pending' = pending \cup {k}
                /\ conns' = c
                /\ socks' = Attach(inc_seqnum(socks, s), s, k)
                /\ call' = [call EXCEPT ![s] = Idle]
                /\ UNCHANGED box
           ELSE /\ conns' = Joined(c, k, endpoints, "connect_side")
                /\ socks' = inc_seqnum(socks, endpoints)
                /\ box' = [box EXCEPT ![endpoints] = Append(@, Bind(k))]
                /\ call' = [call EXCEPT ![s] = [op |-> "send_routing_id", conn |-> k, peer |-> endpoints]]
                /\ UNCHANGED pending
        /\ UNCHANGED <<endpoints, rid, binds>>

(* The rest of connect_inproc_sockets on the connect side, and of connect. *)
send_routing_id(s) ==
    LET k == call[s].conn
    IN  /\ call[s].op = "send_routing_id"
        /\ conns' = IF rid[s] THEN WriteId(conns, k, "in") ELSE conns
        /\ socks' = Attach(socks, s, k)
        /\ call' = [call EXCEPT ![s] = Idle]
        /\ UNCHANGED <<endpoints, pending, box, rid, binds>>

-----------------------------------------------------------------------------
(* zmq_bind: EADDRINUSE when the name is taken.                            *)
register_endpoint(b) ==
    /\ b \in Binders /\ Free(b) /\ binds < MaxBinds
    /\ binds' = binds + 1
    /\ IF endpoints = Nobody
       THEN endpoints' = b /\ call' = [call EXCEPT ![b] = [Idle EXCEPT !.op = "bind"]]
       ELSE UNCHANGED <<endpoints, call>>
    /\ UNCHANGED <<pending, conns, socks, box, rid>>

\* A plausible slip: the command is never sent.
send_inproc_nothing(s) == <<>>

\* The command every connecter that was waiting gets, one for each connection.
send_inproc_connected(s) == [i \in 1..Cardinality({k \in pending : conns[k].from = s}) |-> Connected]

(* connect_pending: every pending connection is attached here and now; its *)
(* connecter gets "inproc_connected", and the binder's routing id if it    *)
(* expects one and is still open.                                          *)
connect_pending(b) ==
    LET joined(k) == LET c == Joined(conns, k, b, "bind_side")
                         s == conns[k].from
                     IN  [(IF rid[s] /\ socks[s].tag = "open" THEN WriteId(c, k, "in") ELSE c)[k]
                             EXCEPT !.attached = TRUE]
        n == Cardinality(pending)
    IN  /\ call[b].op = "bind"
        /\ conns' = [k \in DOMAIN conns |-> IF k \in pending THEN joined(k) ELSE conns[k]]
        /\ socks' = [socks EXCEPT ![b].pipes = @ \cup pending, ![b].due = (@ + n) - n]
        /\ box' = [s \in Sockets |-> box[s] \o send_inproc_connected(s)]
        /\ pending' = {}
        /\ call' = [call EXCEPT ![b] = Idle]
        /\ UNCHANGED <<endpoints, rid, binds>>

unregister_endpoint(b) ==
    /\ Free(b) /\ endpoints = b
    /\ endpoints' = Nobody
    /\ UNCHANGED <<pending, conns, socks, box, call, rid, binds>>

-----------------------------------------------------------------------------
(* Commands of a socket, in its own thread or in the reaper's.             *)
process_bind(x, s, k) == [x EXCEPT ![s].pipes = @ \cup {k}]

process_command(s) ==
    /\ box[s] # <<>> /\ call[s] = Idle
    /\ LET c == Head(box[s])
           x == IF c.cmd = "bind" THEN process_bind(socks, s, c.conn) ELSE socks
       IN  /\ socks' = check_term_acks([x EXCEPT ![s].due = @ - 1], s)
           /\ conns' = IF c.cmd = "bind" THEN [conns EXCEPT ![c.conn].attached = TRUE] ELSE conns
    /\ box' = [box EXCEPT ![s] = Tail(@)]
    /\ UNCHANGED <<endpoints, pending, call, rid, binds>>

(* zmq_close marks the socket; the reaper's process_term forgets its names *)
(* and asks its pipes to end.                                              *)
close(s) ==
    /\ Free(s)
    /\ socks' = [socks EXCEPT ![s].tag = "closed"]
    /\ UNCHANGED <<endpoints, pending, conns, box, call, rid, binds>>

process_term(s) ==
    /\ socks[s].tag = "closed" /\ ~socks[s].terminating
    /\ endpoints' = IF endpoints = s THEN Nobody ELSE endpoints
    /\ socks' = check_term_acks([socks EXCEPT ![s].terminating = TRUE], s)
    /\ UNCHANGED <<pending, conns, box, call, rid, binds>>

(* Both ends of a pipe are attached and a side is closing: the pipe ends.  *)
pipe_terminated(k) ==
    LET c == conns[k]
    IN  /\ c.attached /\ ~c.ended /\ k \in socks[c.from].pipes
        /\ socks[c.from].terminating \/ socks[c.to].terminating
        /\ conns' = [conns EXCEPT ![k].ended = TRUE]
        /\ socks' = check_term_acks(check_term_acks([socks EXCEPT ![c.from].pipes = @ \ {k},
                                                                  ![c.to].pipes = @ \ {k}], c.from), c.to)
        /\ UNCHANGED <<endpoints, pending, box, call, rid, binds>>

(* The applications send (one message each way is enough).                 *)
xsend(s) ==
    \E k \in socks[s].pipes :
        /\ Free(s) /\ ~conns[k].ended
        /\ IF conns[k].from = s
           THEN ~Contains(conns[k].out, "msg") /\ conns' = [conns EXCEPT ![k].out = Append(@, "msg")]
           ELSE ~Contains(conns[k].in, "msg") /\ conns' = [conns EXCEPT ![k].in = Append(@, "msg")]
        /\ UNCHANGED <<endpoints, pending, socks, box, call, rid, binds>>

Steps(s) == connect_found(s) \/ pend_connection(s) \/ send_routing_id(s) \/ connect_pending(s)

Next ==
    \/ \E s \in Sockets : find_endpoint(s) \/ Steps(s) \/ register_endpoint(s) \/ unregister_endpoint(s)
                          \/ process_command(s) \/ close(s) \/ process_term(s) \/ xsend(s)
    \/ \E k \in DOMAIN conns : pipe_terminated(k)

(* Calls return, threads handle their commands, pipes end.                 *)
Fairness ==
    /\ \A s \in Sockets : WF_vars(Steps(s)) /\ WF_vars(process_command(s)) /\ WF_vars(process_term(s))
    /\ \A k \in 1..MaxConns : WF_vars(k \in DOMAIN conns /\ pipe_terminated(k))

Spec == Init /\ [][Next]_vars
FairSpec == Spec /\ Fairness

-----------------------------------------------------------------------------
Awaits(s) == {i \in DOMAIN box[s] : TRUE}
Holds(s) == {t \in Sockets : call[t].op = "connect" /\ call[t].peer = s}
PendingOf(s) == {k \in pending : conns[k].from = s}

(* The commands a socket counts (inc_seqnum) are exactly those on their    *)
(* way to it, those a connecter is about to send and those its pending     *)
(* connections will bring: no socket is deallocated while a pointer to it  *)
(* is held in another thread, in a command or in the context's tables.     *)
CommandsCounted ==
    \A s \in Sockets :
        /\ socks[s].due =
              Cardinality(Awaits(s)) + Cardinality(Holds(s)) + Cardinality(PendingOf(s))
        /\ socks[s].gone => endpoints # s /\ socks[s].pipes = {} /\ Awaits(s) = {} /\ Holds(s) = {} /\ PendingOf(s) = {}

(* A socket that expects a routing id gets it as the first message of a    *)
(* pipe and a socket that does not gets none, whether bind or connect      *)
(* comes first or both at once.  (Not claimed for the binder's id when     *)
(* pend_connection finds a bind that came in the meantime: the binder can  *)
(* send before the connecter has written the id for it.)                   *)
IdFirst ==
    \A k \in DOMAIN conns : LET c == conns[k] IN
        /\ c.attached \/ c.side # "none" =>
              /\ rid[c.to] => c.out # <<>> /\ c.out[1] = "id"
              /\ \A i \in DOMAIN c.out : c.out[i] = "id" => i = 1 /\ rid[c.to]
        /\ c.side \in {"found", "bind_side"} /\ rid[c.from] /\ socks[c.from].tag = "open" =>
              c.in # <<>> /\ c.in[1] = "id"
        /\ \A i \in DOMAIN c.in : c.in[i] = "id" => rid[c.from]

(* Both: connections of sockets in one context are counted and begin with  *)
(* the routing id.                                                         *)
InprocRight == CommandsCounted /\ IdFirst

(* A socket that is closed goes, unless a connection of its is still       *)
(* pending: no count is left over.                                         *)
ClosedGoes ==
    \A s \in Sockets : []<>(socks[s].tag = "closed" => socks[s].gone \/ PendingOf(s) # {})
=============================================================================
