----------------------------- MODULE MCPipes -----------------------------
(***************************************************************************)
(* What a message passes through between two threads.  The parts have no   *)
(* state in common, so a behaviour exercises one of them (`part`) and the  *)
(* others stay as they were made:                                          *)
(*   ypipe   YPipe: the lock-free queue, on positions                      *)
(*   yqueue  YQueue: the same on the chunks of yqueue_t                    *)
(*   buffer  Conflate: the double buffer of ZMQ_CONFLATE                   *)
(*   pipe    MCPipe: a pair of pipes, in six uses                          *)
(*   inproc  Inproc: how two sockets of a context come to share a pair     *)
(***************************************************************************)
EXTENDS YPipe

CONSTANTS
    N, Chunks,                                                              \* YQueue
    MaxWrites,                                                              \* Conflate
    MaxMsgs, MaxTerms, MaxHiccups, MaxHwmChanges, Hwm, NewHwms, Boost,      \* Pipe
    Connecters, Binders, Nobody, MaxConns, MaxBinds                         \* Inproc

VARIABLES
    part,
    qMem, qBegin, qEnd, qBack, qSpare, qLeft, qW, qF, qR, qC, qWpc, qRpc, qOwed, qSignals, qItems, qReceived,
    dBack, dFront, dHas, dHolder, dWpc, dRpc, dSignals, dWritten, dShown, dGot,
    use, st, delay, inActive, outActive, hwm, lwm, nread, nwritten, peerRead, skipped, skipping, in, out, yp, freed,
    cmds, mid, started, got, calls,
    endpoints, pending, conns, socks, box, call, rid, binds

Chunked == INSTANCE YQueue WITH
    mem <- qMem, begin <- qBegin, end <- qEnd, back <- qBack, spare <- qSpare, left <- qLeft,
    w <- qW, f <- qF, r <- qR, c <- qC, wpc <- qWpc, rpc <- qRpc, owed <- qOwed, signals <- qSignals,
    items <- qItems, received <- qReceived
Buffer == INSTANCE Conflate WITH
    back <- dBack, front <- dFront, has_msg <- dHas, holder <- dHolder, wpc <- dWpc, rpc <- dRpc,
    signals <- dSignals, written <- dWritten, shown <- dShown, got <- dGot
P == INSTANCE MCPipe
Local == INSTANCE Inproc

\* The constants of MCPipe's first use.
AB(a, b) == [p \in {"A", "B"} |-> IF p = "A" THEN a ELSE b]
MCMsgs == AB(2, 0)
MCTerms == AB(2, 2)
MCNone == AB(0, 0)
MCHwm == AB(1, 1)
NoBoost == AB([in |-> -1, out |-> -1], [in |-> -1, out |-> -1])

qVars == <<qMem, qBegin, qEnd, qBack, qSpare, qLeft, qW, qF, qR, qC, qWpc, qRpc, qOwed, qSignals, qItems, qReceived>>
dVars == <<dBack, dFront, dHas, dHolder, dWpc, dRpc, dSignals, dWritten, dShown, dGot>>
pipeVars == <<use, st, delay, inActive, outActive, hwm, lwm, nread, nwritten, peerRead, skipped, skipping,
              in, out, yp, freed, cmds, mid, started, got, calls>>
inprocVars == <<endpoints, pending, conns, socks, box, call, rid, binds>>
mcVars == <<part, vars, qVars, dVars, pipeVars, inprocVars>>

MCInit ==
    /\ part \in {"ypipe", "yqueue", "buffer", "pipe", "inproc"}
    /\ Init /\ Buffer!Init
    /\ Chunked!Init /\ (part # "yqueue" => qBegin.chunk = 1)
    /\ P!MCInit /\ (part # "pipe" => use = "flow")
    /\ Local!Init /\ (part # "inproc" => \A s \in Local!Sockets : rid[s])

MCNext ==
    \/ part = "ypipe" /\ Next /\ UNCHANGED <<part, qVars, dVars, pipeVars, inprocVars>>
    \/ part = "yqueue" /\ Chunked!Next /\ UNCHANGED <<part, vars, dVars, pipeVars, inprocVars>>
    \/ part = "buffer" /\ Buffer!Next /\ UNCHANGED <<part, vars, qVars, pipeVars, inprocVars>>
    \/ part = "pipe" /\ P!MCNext /\ UNCHANGED <<part, vars, qVars, dVars, inprocVars>>
    \/ part = "inproc" /\ Local!Next /\ UNCHANGED <<part, vars, qVars, dVars, pipeVars>>

\* The fairness of each part, for the behaviours that exercise it.
YPipeFair ==
    /\ WF_vars(part = "ypipe" /\ FlushSet) /\ WF_vars(part = "ypipe" /\ Wake)
    /\ WF_vars(part = "ypipe" /\ (CheckPrefetched \/ CheckCas \/ Read)) /\ WF_vars(part = "ypipe" /\ Woken)
PipeFair ==
    \A p \in P!Ends :
        /\ WF_pipeVars(part = "pipe" /\ P!Read(p) /\ UNCHANGED use)
        /\ WF_pipeVars(part = "pipe" /\ P!Outside(p) /\ P!SetHwm!ProcessCommand(p) /\ UNCHANGED use)
        /\ WF_pipeVars(part = "pipe" /\ P!Outside(p) /\ P!Flush(p) /\ UNCHANGED use)
InprocFair ==
    /\ \A s \in Local!Sockets :
          /\ WF_inprocVars(part = "inproc" /\ Local!Steps(s))
          /\ WF_inprocVars(part = "inproc" /\ Local!process_command(s))
          /\ WF_inprocVars(part = "inproc" /\ Local!process_term(s))
    /\ \A k \in 1..MaxConns : WF_inprocVars(part = "inproc" /\ k \in DOMAIN conns /\ Local!pipe_terminated(k))

MCSpec == MCInit /\ [][MCNext]_mcVars /\ YPipeFair /\ PipeFair /\ InprocFair

-----------------------------------------------------------------------------
(* The properties of the parts, under their names (YPipe's as they are).   *)

\* The chunks of yqueue_t: none leaks, none is freed twice, and the reader and
\* the writer walk over the same chain, whoever puts the spare chunk back.
ChunksAccounted == Chunked!ChunksAccounted

\* yqueue_t's chunks and addresses behave as the positions of YPipe do (the
\* refinement of YQueue; where the chunks are not in use they do not change).
ImplementsYPipe == Chunked!Positions!Init /\ [][part = "yqueue" => [Chunked!Positions!Next]_(Chunked!Positions!vars)]_qVars

\* Through ypipe_conflate_t messages stay in order, none is read twice, and
\* none waits for a reader that nobody wakes.
ConflatedInOrder == Buffer!ConflatedInOrder

\* The handshake of pipe_t: its assertions, its commands, its ypipes.
HandshakeRight == P!HandshakeRight

\* The counters and watermarks of pipe_t.
FlowRight == P!FlowRight

\* What pipe_t delivers.
DeliveryRight == P!DeliveryRight

\* Pipes end, writers are released, messages are read.
PipeGoesOn == P!PipeGoesOn

\* inproc connections: the counted commands and the routing ids.
InprocRight == Local!InprocRight

\* A closed socket goes, whatever its inproc connections were doing.
ClosedGoes == Local!ClosedGoes
===========================================================================
