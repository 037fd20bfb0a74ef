-------------------------------- MODULE MCCtx --------------------------------
(***************************************************************************)
(* A context whose sockets are in use while zmq_ctx_term() is called, and  *)
(* one whose application is quiet by then, one per behaviour.              *)
(***************************************************************************)
EXTENDS Ctx

VARIABLE quiet

mcVars == <<quiet, vars>>

Quiet == INSTANCE Ctx WITH Concurrent <- FALSE

MCInit == quiet \in BOOLEAN /\ Init

MCNext ==
    \/ ~quiet /\ Next /\ UNCHANGED quiet
    \/ quiet /\ Quiet!Next /\ UNCHANGED quiet

\* Step A of the quiet context, for which the fairness of Ctx is assumed.
Fairly(A) == quiet /\ A /\ UNCHANGED quiet

MCSpec ==
    /\ MCInit /\ [][MCNext]_mcVars
    /\ \A s \in App : WF_mcVars(Fairly(Quiet!Finishing(s))) /\ WF_mcVars(Fairly(Quiet!zmq_close(s)))
    /\ WF_mcVars(Fairly(Quiet!Reaping))
    /\ \A s \in Socket : WF_mcVars(Fairly(Quiet!ReapDone(s)))
    /\ WF_mcVars(Fairly(Quiet!TermDone))

-----------------------------------------------------------------------------
\* zmq_ctx_term() of a quiet context returns once the application has closed its
\* sockets, even if connections wait for a name that nobody binds, and even if
\* it was interrupted and called again (ctx_t::terminate).
QuietTermReturns == []<>(quiet => term # "waiting")
=============================================================================
