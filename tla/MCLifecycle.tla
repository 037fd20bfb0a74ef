----------------------------- MODULE MCLifecycle -----------------------------
(***************************************************************************)
(* How objects end.  The two parts have no state in common, so a behaviour *)
(* exercises one of them (`part`) and the other one stays as it was made:  *)
(*   own  Own: the tree of a socket that lives in the application's thread *)
(*        with the other objects in two I/O threads, in two shapes           *)
(*   ctx  MCCtx: a context and its sockets under zmq_ctx_term()            *)
(***************************************************************************)
EXTENDS Own

CONSTANTS App, Helper, MaxSockets, MaxSignals, MaxOwed, Concurrent, None    \* Ctx

VARIABLES
    part, tree,
    quiet, starting, terminating, sockets, bound, pending, sock, owes, inbox, stop, call,
    rmail, reaped, rstop, rdone, term, dones, signals

mcVars == <<tree, vars>>

\* A listener that accepts a connection, with inproc peers.
MCObject == {"socket", "listener", "accepted"}
MCParent == [listener |-> "socket", accepted |-> "listener"]
MCThread == [socket |-> "app", listener |-> "io1", accepted |-> "io2"]
MCAsks == [socket |-> 0, listener |-> 0, accepted |-> 2]
MCSeq == [socket |-> 3, listener |-> 2, accepted |-> 2]

\* A session that connects, twice, once from its own thread.
Connect == INSTANCE Own WITH
    Object <- {"socket", "session", "connecter", "again"},
    Parent <- [session |-> "socket", connecter |-> "session", again |-> "session"],
    Thread <- [socket |-> "app", session |-> "io1", connecter |-> "io2", again |-> "io1"],
    Waiting <- {"session"}, Accepted <- {},
    MaxAsks <- [socket |-> 0, session |-> 1, connecter |-> 0, again |-> 1],
    MaxSeq <- [socket |-> 1, session |-> 4, connecter |-> 1, again |-> 1]

MCInit ==
    \/ tree = "accept" /\ Init
    \/ tree = "connect" /\ Connect!Init

MCNext ==
    /\ UNCHANGED tree
    /\ \/ tree = "accept" /\ Next
       \/ tree = "connect" /\ Connect!Next

\* Step A of the first tree, for which the fairness of Own is assumed.
Accepting(A) == tree = "accept" /\ A /\ UNCHANGED tree

C == INSTANCE MCCtx

ctxVars == <<quiet, starting, terminating, sockets, bound, pending, sock, owes, inbox, stop, call,
             rmail, reaped, rstop, rdone, term, dones, signals>>
allVars == <<part, mcVars, ctxVars>>

AllInit ==
    /\ part \in {"own", "ctx"}
    /\ MCInit /\ (part # "own" => tree = "accept")
    /\ C!MCInit /\ (part # "ctx" => ~quiet)

AllNext ==
    \/ part = "own" /\ MCNext /\ UNCHANGED <<part, ctxVars>>
    \/ part = "ctx" /\ C!MCNext /\ UNCHANGED <<part, mcVars>>

\* The fairness of each part, for the behaviours that exercise it.
OwnFair ==
    /\ \A o \in Object : WF_mcVars(part = "own" /\ Accepting(Step(o)))
    /\ WF_mcVars(part = "own" /\ Accepting(ProcessBind)) /\ WF_mcVars(part = "own" /\ Accepting(PipeTerminated))
    /\ \A t \in Threads : WF_mcVars(part = "own" /\ Accepting(LaunchSend(t)))
CtxFair ==
    /\ \A s \in App : /\ WF_ctxVars(part = "ctx" /\ C!Fairly(C!Quiet!Finishing(s)))
                      /\ WF_ctxVars(part = "ctx" /\ C!Fairly(C!Quiet!zmq_close(s)))
    /\ WF_ctxVars(part = "ctx" /\ C!Fairly(C!Quiet!Reaping))
    /\ \A s \in App \cup Helper : WF_ctxVars(part = "ctx" /\ C!Fairly(C!Quiet!ReapDone(s)))
    /\ WF_ctxVars(part = "ctx" /\ C!Fairly(C!Quiet!TermDone))

AllSpec == AllInit /\ [][AllNext]_allVars /\ OwnFair /\ CtxFair

-----------------------------------------------------------------------------
\* OwnInv in both trees: own_t, check_term_acks() and the numbered commands
\* never leave a command for a deleted object, lose a number, wait for an answer
\* that does not come, or delete an owner before what it owns.
TreeInv == IF tree = "accept" THEN OwnInv ELSE Connect!OwnInv

\* A closed socket's tree is deleted in the end (process_term_ack, own.cpp:165).
TreeGoes ==
    []<>(tree = "accept" /\ obj[Root].terminating => \A o \in DOMAIN obj : obj[o].life # "live")

(* The properties of the context, under their names.                       *)

\* Nobody knows a socket that was deleted, and the reaper ends after it.
EndInOrder == C!EndInOrder

\* zmq_ctx_term() of a quiet context returns.
QuietTermReturns == C!QuietTermReturns
==============================================================================
