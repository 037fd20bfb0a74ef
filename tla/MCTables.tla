------------------------------ MODULE MCTables ------------------------------
(***************************************************************************)
(* The tables and lists a single thread keeps, for which safety is all     *)
(* that is claimed.  The parts have no state in common, so a behaviour     *)
(* exercises one of them (`table`) and the others stay as they were made:  *)
(*   pubsub     XPub in five uses and XSub in two (`use`); a side that is  *)
(*              not in use stays as it was made                            *)
(*   codec      Codec: encoders and decoders with their buffers            *)
(*   endpoints  Endpoints: listeners, connecters and their descriptors     *)
(*   timers     Timers: zmq_timers                                         *)
(***************************************************************************)
EXTENDS XPub, TLC

CONSTANTS
    Third,              \* a third pipe, where two are not enough
    UCHAR_MAX, LONG, BUF, max_vsm_size, Buffers, Traffics,                          \* Codec
    Cases, MaxName, Addresses, MaxFds, MaxFails, MaxCalls,                 \* Endpoints
    Intervals, MaxTimers, MaxNow                                                    \* Timers

VARIABLES
    table, use,
    subDist, subTrie, subState, subFull, subOutActive, upstream, refused, fills,
    inbox, has_message, message, subMore, arrived, got,
    cConf, cEnc, cWire, cDec, cRefs, cBufs, cHeld, cSeen,
    eE,
    tTimers, tCancelled, tNextId, tNow, tRun, tDue, tOdd

\* Everything, and one prefix; two published topics.
MCTopics == {<<>>, <<1>>}
MCMsgTopics == {<<1>>, <<2>>}

\* Peers that change their minds within one message.
Change == INSTANCE XPub WITH MaxMsgs <- 1, MaxRequests <- 2

\* Refused first parts and inverted matching.
Inverted == INSTANCE XPub WITH
    Options <- {"nodrop", "invert", "verboser"}, Peers <- {"all"}, MaxMsgs <- 1

\* Peers that subscribe and cancel, and an application that forwards them.
Forward == INSTANCE XPub WITH
    Pipes <- Pipes \cup {Third}, Peers <- {}, MaxMsgs <- 0, MaxRequests <- 4

\* Manual mode.
ByHand == INSTANCE XPub WITH
    Options <- {"manual"}, Peers <- {}, MaxMsgs <- 0, MaxRequests <- 4

Sub(pipes, count, fill, msgs) == INSTANCE XSub WITH
    Pipes <- pipes, MaxCount <- count, MaxFill <- fill, MaxMsgs <- msgs, MaxParts <- 3,
    Filter <- TRUE, Invert <- FALSE, HiccupFull <- FALSE,
    dist <- subDist, subscriptions <- subTrie, state <- subState, full <- subFull,
    outActive <- subOutActive, more <- subMore

OnePipe == {Third}

xsubVars == <<subDist, subTrie, subState, subFull, subOutActive, upstream, refused, fills,
              inbox, has_message, message, subMore, arrived, got>>
mcVars == <<use, vars, xsubVars>>

MCInit ==
    \/ use = "publish" /\ Init /\ Sub(Pipes, 2, 2, 0)!Init
    \/ use = "change" /\ Change!Init /\ Sub(Pipes, 2, 2, 0)!Init
    \/ use = "invert" /\ Inverted!Init /\ Sub(Pipes, 2, 2, 0)!Init
    \/ use = "forward" /\ Forward!Init /\ Sub(Pipes, 2, 2, 0)!Init
    \/ use = "manual" /\ ByHand!Init /\ Sub(Pipes, 2, 2, 0)!Init
    \/ use = "subscribe" /\ Init /\ Sub(Pipes, 2, 2, 0)!Init
    \/ use = "receive" /\ Init /\ Sub(OnePipe, 1, 0, 2)!Init

MCNext ==
    \/ use = "publish" /\ Next /\ UNCHANGED <<use, xsubVars>>
    \/ use = "change" /\ Change!Next /\ UNCHANGED <<use, xsubVars>>
    \/ use = "invert" /\ Inverted!Next /\ UNCHANGED <<use, xsubVars>>
    \/ use = "forward" /\ Forward!Next /\ UNCHANGED <<use, xsubVars>>
    \/ use = "manual" /\ ByHand!Next /\ UNCHANGED <<use, xsubVars>>
    \/ use = "subscribe" /\ Sub(Pipes, 2, 2, 0)!Next /\ UNCHANGED <<use, vars>>
    \/ use = "receive" /\ Sub(OnePipe, 1, 0, 2)!Next /\ UNCHANGED <<use, vars>>

Bytes == INSTANCE Codec WITH
    conf <- cConf, enc <- cEnc, wire <- cWire, dec <- cDec, refs <- cRefs, bufs <- cBufs, held <- cHeld, seen <- cSeen
Ends == INSTANCE Endpoints WITH e <- eE
Clock == INSTANCE Timers WITH
    timers <- tTimers, cancelled <- tCancelled, next_id <- tNextId, now <- tNow, run <- tRun, due <- tDue, odd <- tOdd

\* Messages around every boundary of their sizes.
M(size) == [size |-> size, more |-> FALSE, command |-> FALSE]
Part(size) == [size |-> size, more |-> TRUE, command |-> FALSE]
Command(size) == [size |-> size, more |-> FALSE, command |-> TRUE]

T(kind, msgs, max, zero_copy) ==
    [kind |-> kind, msgs |-> msgs, max |-> max, zero_copy |-> zero_copy]

AllTraffics ==
    << T("v1", <<Part(0), M(4), M(5)>>, -1, FALSE), T("v1", <<M(3), M(4)>>, 3, FALSE),
       T("v1", <<M(9), M(1)>>, -1, FALSE), T("v1", <<M(0), M(1)>>, 0, FALSE),
       T("v2", <<Part(0), M(4), M(3)>>, -1, TRUE), T("v2", <<M(3), Command(2), M(2)>>, -1, TRUE),
       T("v2", <<M(9), M(1)>>, -1, FALSE), T("v2", <<M(4), M(5)>>, 4, TRUE),
       T("v2", <<M(4), M(8)>>, -1, TRUE), T("v2", <<M(0)>>, 0, TRUE),
       T("raw", <<M(1), M(4), M(3)>>, -1, TRUE) >>

\* The transports, with the sockets that use them.
AllCases == {[type |-> "dealer", protos |-> {"tcp"}, most |-> 2], [type |-> "push", protos |-> {"ipc"}, most |-> 2],
             [type |-> "push", protos |-> {"tipc"}, most |-> 3], [type |-> "dish", protos |-> {"udp"}, most |-> 2]}

codecVars == <<cConf, cEnc, cWire, cDec, cRefs, cBufs, cHeld, cSeen>>
timerVars == <<tTimers, tCancelled, tNextId, tNow, tRun, tDue, tOdd>>
allVars == <<table, mcVars, codecVars, eE, timerVars>>

AllInit ==
    /\ table \in {"pubsub", "codec", "endpoints", "timers"}
    /\ MCInit /\ (table # "pubsub" => use = "publish" /\ lossy)
    /\ Bytes!Init /\ (table # "codec" => cConf = 1)
    /\ Ends!Init /\ (table # "endpoints" => eE.type = "dish")
    /\ Clock!Init

AllNext ==
    \/ table = "pubsub" /\ MCNext /\ UNCHANGED <<table, codecVars, eE, timerVars>>
    \/ table = "codec" /\ Bytes!Next /\ UNCHANGED <<table, mcVars, eE, timerVars>>
    \/ table = "endpoints" /\ Ends!Next /\ UNCHANGED <<table, mcVars, codecVars, timerVars>>
    \/ table = "timers" /\ Clock!Next /\ UNCHANGED <<table, mcVars, codecVars, eE>>

AllSpec == AllInit /\ [][AllNext]_allVars

\* The first two pipes are interchangeable, and so are the addresses.
Symmetry == Permutations(Pipes) \cup Permutations(Addresses)

-----------------------------------------------------------------------------
\* xsend(), with pipes that close, fill up, subscribe or are attached between
\* the parts: who was subscribed gets whole messages, and nobody else.
PublishedRight == use \in {"publish", "change"} => RightReceivers

\* xread_activated() and xpipe_terminated(): an application that forwards what
\* it is told holds exactly the subscriptions that some peer wants.
ForwardedRight == use = "forward" => Forward!TopicsKnown

\* xrecv() in manual mode: the subscription read next and the pipe that
\* ZMQ_SUBSCRIBE will apply to belong together.
ByHandRight == use = "manual" => ByHand!SenderIsLast

\* xattach_pipe(), xhiccuped() and xsend() of xsub_t: every publisher knows what
\* the socket is subscribed to, unless its pipe was full when it was told.
UpstreamKnows == use = "subscribe" => Sub(Pipes, 2, 2, 0)!UpstreamKnows

\* xrecv() and xhas_in() of xsub_t never cut a message.
PartsTogether == use = "receive" => Sub(OnePipe, 1, 0, 2)!PartsTogether

\* Distribution lists in order, the right receivers, whole messages.
DistributionRight == ListOrdered /\ PublishedRight /\ PartsTogether

\* Subscriptions as peers, applications and publishers know them agree.
SubscriptionsRight == ForwardedRight /\ ByHandRight /\ UpstreamKnows

(* The properties of the other parts, under their names.                   *)

\* What is decoded is what was encoded, in buffers that are counted.
CodecRight == Bytes!CodecRight

\* A socket's endpoints: descriptors, children, files and monitor in step.
EndpointsRight == Ends!EndpointsRight

\* zmq_timers_execute runs the handlers that are due and no others.
TimersRight == Clock!TimersRight
=============================================================================
