--------------------------------- MODULE Own ---------------------------------
(***************************************************************************)
(* own_t (own.cpp): the ownership tree of a socket, its listeners,         *)
(* sessions and connecters, and how the tree is taken down while its       *)
(* members run in different threads and talk through mailboxes.            *)
(*                                                                         *)
(* A mailbox is the queue of a thread (module Mailbox shows that it is     *)
(* one). What the classes derived from own_t do is left to them: an object *)
(* may launch the children it can have, ask to be terminated, send its     *)
(* owner a command with a sequence number, and wait for its pipes before   *)
(* it goes on with its termination.                                        *)
(***************************************************************************)
EXTENDS Naturals, Sequences, SequencesExt, FiniteSetsExt

CONSTANTS
    Object, Root,   \* the objects that may come to be; the socket
    Parent,         \* the owner of each object other than the socket
    Thread,         \* the thread, by its mailbox, in which each object lives
    Peer,           \* a thread whose sockets connect to this one by inproc
    Waiting,        \* the objects with pipes, whose process_term() may wait
    Accepted,       \* the sessions that a listener makes for an accepted connection
    MaxSeq,         \* bound: numbers taken of each object's sequence
    MaxAsks         \* bound: calls of terminate(), by object

ASSUME OwnAssumption ==
    /\ Root \in Object /\ Waiting \subseteq Object /\ Accepted \subseteq Object \ {Root}
    /\ Parent \in [Object \ {Root} -> Object]
    /\ MaxSeq \in [Object -> Nat] /\ MaxAsks \in [Object -> Nat]

VARIABLES
    obj,    \* the members of each object
    mail,   \* the mailbox of each thread
    todo,   \* the commands that the running handler of each thread has yet to send
    asks    \* calls of terminate() so far

vars == <<obj, mail, todo, asks>>

Threads == {Thread[o] : o \in Object} \cup {Peer}
Children(o) == {c \in Object \ {Root} : Parent[c] = o}

\* life tells whether the object is allocated; waits is session_base_t::_pending
\* and pipes the number of socket_base_t::_pipes.
Unborn == [life |-> "unborn", owned |-> {}, terminating |-> FALSE, waits |-> FALSE,
           sent |-> 0, processed |-> 0, acks |-> 0, pipes |-> 0]

Init ==
    /\ obj = [o \in Object |-> IF o = Root THEN [Unborn EXCEPT !.life = "live"] ELSE Unborn]
    /\ mail = [t \in Threads |-> <<>>]
    /\ todo = [t \in Threads |-> <<>>]
    /\ asks = [o \in Object |-> 0]

-----------------------------------------------------------------------------
(* Commands *)

Command(type, dest, about) == [type |-> type, dest |-> dest, about |-> about]
Send(m, type, dest, about) == [m EXCEPT ![Thread[dest]] = Append(@, Command(type, dest, about))]

\* send_term() to each of the objects, in any order (they are in a std::set).
SendTerms(m, S) ==
    [t \in Threads |-> m[t] \o SetToSeq({Command("term", c, c) : c \in {x \in S : Thread[x] = t}})]

\* A command is at the head of the mailbox and its thread has nothing else to do.
Receives(type, o, about) ==
    /\ todo[Thread[o]] = <<>>
    /\ mail[Thread[o]] # <<>>
    /\ Head(mail[Thread[o]]) = Command(type, o, about)

Rest(o) == [mail EXCEPT ![Thread[o]] = Tail(@)]

\* An object's thread runs some event handler of it.
Runs(o) ==
    /\ todo[Thread[o]] = <<>> /\ obj[o].life = "live"
    /\ o # Root => obj[o].processed > 0
    /\ o = Root => ~obj[o].terminating

-----------------------------------------------------------------------------
(* What own_t does, as the new members r of the object o and the mailboxes m *)

Finished(r) == r.terminating /\ r.processed = r.sent /\ r.acks = 0

\* check_term_acks(), which ends every handler that may complete a termination.
check_term_acks(o, r, m) ==
    IF Finished(r)
    THEN /\ obj' = [obj EXCEPT ![o] = [r EXCEPT !.life = "gone"]]
         /\ mail' = IF o = Root THEN m ELSE Send(m, "term_ack", Parent[o], o)
    ELSE /\ obj' = [obj EXCEPT ![o] = r]
         /\ mail' = m

process_seqnum(o, r, m) == check_term_acks(o, [r EXCEPT !.processed = @ + 1], m)

\* own_t::process_term(), which a socket calls after it has closed its pipes.
terminate_tree(o, r, m) ==
    check_term_acks(o, [r EXCEPT !.acks = @ + r.pipes + Cardinality(r.owned), !.owned = {},
                                 !.terminating = TRUE, !.waits = FALSE],
                    SendTerms(m, r.owned))

process_term_req(o, c, m) ==
    IF obj[o].terminating \/ c \notin obj[o].owned
    THEN UNCHANGED obj /\ mail' = m
    ELSE /\ obj' = [obj EXCEPT ![o] = [@ EXCEPT !.owned = @ \ {c}, !.acks = @ + 1]]
         /\ mail' = Send(m, "term", c, c)

-----------------------------------------------------------------------------
(* Commands being processed *)

ProcessPlug(o) ==
    /\ Receives("plug", o, o)
    /\ process_seqnum(o, obj[o], Rest(o))
    /\ UNCHANGED <<todo, asks>>

\* A session is given an engine by its connecter or listener.
ProcessAttach(o) ==
    /\ \E x \in Object : Receives("attach", o, x)
    /\ process_seqnum(o, obj[o], Rest(o))
    /\ UNCHANGED <<todo, asks>>

\* The socket is given a pipe, which it closes when it is itself being closed.
ProcessBind ==
    /\ Receives("bind", Root, Root)
    /\ process_seqnum(Root, [obj[Root] EXCEPT !.pipes = @ + 1,
                               !.acks = IF obj[Root].terminating THEN @ + 1 ELSE @], Rest(Root))
    /\ UNCHANGED <<todo, asks>>

\* pipe_terminated() of the socket.
PipeTerminated ==
    /\ todo[Thread[Root]] = <<>> /\ obj[Root].pipes > 0
    /\ IF obj[Root].terminating
       THEN check_term_acks(Root, [obj[Root] EXCEPT !.pipes = @ - 1, !.acks = @ - 1], mail)
       ELSE obj' = [obj EXCEPT ![Root].pipes = @ - 1] /\ UNCHANGED mail
    /\ UNCHANGED <<todo, asks>>

\* A plausible slip in ProcessOwn.
ProcessOwn_silent(o, c) ==
    /\ Receives("own", o, c)
    /\ process_seqnum(o, [obj[o] EXCEPT !.owned = IF obj[o].terminating THEN @ ELSE @ \cup {c},
                                        !.acks = IF obj[o].terminating THEN @ + 1 ELSE @], Rest(o))
    /\ UNCHANGED <<todo, asks>>

\* The owner is told of a child; an owner that is already terminating passes the
\* request on at once and waits for one acknowledgement more.
ProcessOwn(o, c) ==
    /\ Receives("own", o, c)
    /\ IF obj[o].terminating
       THEN process_seqnum(o, [obj[o] EXCEPT !.acks = @ + 1], Send(Rest(o), "term", c, c))
       ELSE process_seqnum(o, [obj[o] EXCEPT !.owned = @ \cup {c}], Rest(o))
    /\ UNCHANGED <<todo, asks>>

ProcessTermReq(o, c) ==
    /\ Receives("term_req", o, c)
    /\ process_term_req(o, c, Rest(o))
    /\ UNCHANGED <<todo, asks>>

\* A session that has pipes first closes them.
ProcessTerm(o) ==
    /\ Receives("term", o, o)
    /\ \/ terminate_tree(o, obj[o], Rest(o))
       \/ /\ o \in Waiting
          /\ obj' = [obj EXCEPT ![o].waits = TRUE]
          /\ mail' = Rest(o)
    /\ UNCHANGED <<todo, asks>>

PipesGone(o) ==
    /\ todo[Thread[o]] = <<>> /\ obj[o].waits
    /\ terminate_tree(o, obj[o], mail)
    /\ UNCHANGED <<todo, asks>>

ProcessTermAck(o) ==
    /\ \E c \in Children(o) : Receives("term_ack", o, c)
    /\ check_term_acks(o, [obj[o] EXCEPT !.acks = @ - 1], Rest(o))
    /\ UNCHANGED <<todo, asks>>

-----------------------------------------------------------------------------
(* What the objects do of their own accord *)

\* launch_child(): the child is plugged into its thread, where it may run
\* before the rest of the handler has been done. A listener also sends the
\* engine of the accepted connection, whose number it has taken in advance.
Launch_plain(c) ==
    LET o == Parent[c] IN
    /\ Runs(o) /\ obj[c].life = "unborn" /\ obj[o].sent < MaxSeq[o]
    /\ obj' = [obj EXCEPT ![c].life = "live", ![c].sent = 1]
    /\ mail' = Send(mail, "plug", c, c)
    /\ todo' = [todo EXCEPT ![Thread[o]] =
                  <<Command("own", o, c)>>
                  \o IF c \in Accepted THEN <<Command("attach", c, o)>> ELSE <<>>]
    /\ UNCHANGED asks

Launch(c) ==
    LET o == Parent[c] IN
    /\ Runs(o) /\ obj[c].life = "unborn" /\ obj[o].sent < MaxSeq[o]
    /\ obj' = [obj EXCEPT ![c].life = "live", ![c].sent = IF c \in Accepted THEN 2 ELSE 1]
    /\ mail' = Send(mail, "plug", c, c)
    /\ todo' = [todo EXCEPT ![Thread[o]] =
                  <<Command("own", o, c)>>
                  \o IF c \in Accepted THEN <<Command("attach", c, o)>> ELSE <<>>]
    /\ UNCHANGED asks

\* find_endpoint(), called in the peer's thread while the socket is registered,
\* takes a number of it for the bind command that is sent later.
FindSocket ==
    /\ todo[Peer] = <<>> /\ ~obj[Root].terminating /\ obj[Root].sent < MaxSeq[Root]
    /\ obj' = [obj EXCEPT ![Root].sent = @ + 1]
    /\ todo' = [todo EXCEPT ![Peer] = <<Command("bind", Root, Root)>>]
    /\ UNCHANGED <<mail, asks>>

\* The rest of a handler: of a launch, the owner is sent the command to own the child (send_own()
\* takes the number itself), and the session its engine.
LaunchSend(t) ==
    /\ todo[t] # <<>>
    /\ LET cmd == Head(todo[t]) IN
       /\ obj' = IF cmd.type = "own" THEN [obj EXCEPT ![cmd.dest].sent = @ + 1] ELSE obj
       /\ mail' = Send(mail, cmd.type, cmd.dest, cmd.about)
    /\ todo' = [todo EXCEPT ![t] = Tail(@)]
    /\ UNCHANGED asks

\* terminate() of an owned object, which is without effect once it terminates.
AskTerm(c) ==
    /\ c # Root /\ Runs(c) /\ ~obj[c].terminating /\ asks[c] < MaxAsks[c]
    /\ asks' = [asks EXCEPT ![c] = @ + 1]
    /\ mail' = Send(mail, "term_req", Parent[c], c)
    /\ UNCHANGED <<obj, todo>>

\* send_attach() by a connecter to its session.
SendAttach(c) ==
    /\ c # Root /\ Parent[c] # Root
    /\ Runs(c) /\ ~obj[c].terminating /\ obj[Parent[c]].sent < MaxSeq[Parent[c]]
    /\ obj' = [obj EXCEPT ![Parent[c]].sent = @ + 1]
    /\ mail' = Send(mail, "attach", Parent[c], c)
    /\ UNCHANGED <<todo, asks>>

\* zmq_unbind() and zmq_disconnect(): socket_base_t::term_endpoint() calls
\* term_child().
TermChild(c) ==
    /\ c \in obj[Root].owned /\ Runs(Root)
    /\ process_term_req(Root, c, mail)
    /\ UNCHANGED <<todo, asks>>

\* zmq_close(): the socket, then in the reaper's hands, terminates itself.
CloseRoot ==
    /\ Runs(Root)
    /\ terminate_tree(Root, obj[Root], mail)
    /\ UNCHANGED <<todo, asks>>

Closing == ProcessBind \/ PipeTerminated

Step(o) ==
    \/ ProcessPlug(o) \/ ProcessAttach(o) \/ ProcessTerm(o) \/ ProcessTermAck(o)
    \/ PipesGone(o)
    \/ \E c \in Children(o) : ProcessOwn(o, c) \/ ProcessTermReq(o, c)

Next ==
    \/ \E o \in Object : Step(o)
    \/ \E t \in Threads : LaunchSend(t)
    \/ \E c \in Object \ {Root} : Launch(c)
    \/ \E c \in Object \ {Root} : AskTerm(c)
    \/ \E c \in Object \ {Root} : SendAttach(c)
    \/ \E c \in Object \ {Root} : TermChild(c)
    \/ FindSocket
    \/ Closing
    \/ CloseRoot

\* A thread whose mailbox is signaled processes it, a running handler goes on,
\* and pipes do get closed (module Pipe, TerminationCompletes).
Fairness ==
    /\ \A o \in Object : WF_vars(Step(o))
    /\ WF_vars(ProcessBind) /\ WF_vars(PipeTerminated)
    /\ \A t \in Threads : WF_vars(LaunchSend(t))

Spec == Init /\ [][Next]_vars /\ Fairness

-----------------------------------------------------------------------------
(* Properties *)

Sent(type, dest, about) ==
    \E i \in DOMAIN mail[Thread[dest]] : mail[Thread[dest]][i] = Command(type, dest, about)

\* The object has been told to terminate and its owner does not have its answer.
Ending(c) ==
    \/ Sent("term", c, c)
    \/ obj[c].life = "live" /\ (obj[c].waits \/ obj[c].terminating)
    \/ Sent("term_ack", Parent[c], c)

TypeOK ==
    /\ \A o \in Object :
          /\ obj[o].life \in {"unborn", "live", "gone"}
          /\ obj[o].owned \subseteq Children(o)
          /\ obj[o].terminating \in BOOLEAN /\ obj[o].waits \in BOOLEAN
          /\ {obj[o].sent, obj[o].processed, obj[o].acks, obj[o].pipes} \subseteq Nat
    /\ \A o \in Object : asks[o] \in 0 .. MaxAsks[o]

\* No command, of any kind, is ever in a mailbox for an object that has been
\* deleted, nor does a running handler still send one: this is what _sent_seqnum, the
\* acknowledgements and the order of the mailboxes are there for
\* (check_term_acks, own.cpp:178).
NothingToTheDead ==
    /\ \A t \in Threads : \A i \in DOMAIN mail[t] : obj[mail[t][i].dest].life = "live"
    /\ \A t \in Threads : \A i \in DOMAIN todo[t] : obj[todo[t][i].dest].life = "live"

Count(q, o, types) == Cardinality({i \in DOMAIN q : q[i].dest = o /\ q[i].type \in types})

\* The numbers that an object has yet to process are those of the commands on
\* their way to it, with the ones that a listener or an inproc peer has taken in
\* advance (tcp_listener.cpp:92, ctx.cpp:615): none is lost or counted twice.
NumbersAgree ==
    \A o \in Object :
        obj[o].sent = obj[o].processed
                      + Count(mail[Thread[o]], o, {"plug", "own", "attach", "bind"})
                      + MapThenSumSet(LAMBDA t : Count(todo[t], o, {"attach", "bind"}), Threads)

\* Each owner waits for exactly the children that it has told to terminate (and
\* a socket that is being closed for its pipes), and
\* tells each of them once, so that neither "Double termination should never
\* happen" (own.cpp:141) nor the assertion on _term_acks (own.cpp:166) can fail;
\* a child that is neither owned nor told is one whose own command is under way.
AcksAreOwed ==
    /\ \A o \in Object :
          /\ obj[o].acks = Cardinality({c \in Children(o) : Ending(c)})
                         + (IF obj[o].terminating THEN obj[o].pipes ELSE 0)
          /\ obj[o].terminating => obj[o].owned = {}
    /\ \A c \in Object \ {Root} :
          /\ ~(Sent("term", c, c) /\ (obj[c].waits \/ obj[c].terminating))
          /\ ~(c \in obj[Parent[c]].owned /\ Ending(c))
          /\ obj[c].life = "live" =>
                \/ c \in obj[Parent[c]].owned \/ Ending(c)
                \/ Sent("own", Parent[c], c)
                \/ Command("own", Parent[c], c) \in Range(todo[Thread[Parent[c]]])

\* An object that is gone has outlived everything below it in the tree.
ChildrenGoFirst ==
    \A c \in Object \ {Root} : obj[Parent[c]].life = "gone" => obj[c].life # "live"

\* All of these, which together are what the tree's termination rests on.
OwnInv == TypeOK /\ NothingToTheDead /\ NumbersAgree /\ AcksAreOwed /\ ChildrenGoFirst

\* Once the socket is closed all of its tree is eventually deleted, whatever is
\* being launched, asked for or answered at the time.
CloseCompletes ==
    []<>(obj[Root].terminating => \A o \in Object : obj[o].life # "live")

\* A request to terminate a child is only ignored when the child has been told
\* to terminate already (own.cpp:79).  Not true of a child in another thread that
\* asks before its owner has heard of it (README).
IgnoredWasTold ==
    \A o \in Object : \A c \in Children(o) :
        Receives("term_req", o, c) /\ c \notin obj[o].owned =>
            Ending(c) \/ obj[c].life = "gone"
=============================================================================
