----------------------------- MODULE MCSockets -----------------------------
(***************************************************************************)
(* How sockets share messages out.  The two parts have no state in common, *)
(* so a behaviour exercises one of them (`use`) and the other one stays as *)
(* it was made:                                                            *)
(*   lists     the two halves of a DEALER socket, Lb for what it sends and *)
(*             Fq for what it receives, one of them (`half`) in use; Fq    *)
(*             with three pipes whose peers may close, or with two that    *)
(*             the application may also disconnect, between messages       *)
(*   patterns  MCPatterns: the socket types on top of them                 *)
(***************************************************************************)
CONSTANTS
    Pipes, MaxMsgs, MaxParts, NonBlocking,                          \* Lb
    InPipes, MaxInParts, MaxWaiting, MidMessage,                    \* Fq
    Scenarios, IdSpan                                               \* Patterns

VARIABLES
    use,
    half, pipes, active, current, lbMore, dropping, state, full, outActive, unfinished, sent, msg, part,
    fqPipes, fqActive, fqCurrent, fqMore, inState, inActive, inbox, ended, served, left,
    conf, n

Send == INSTANCE Lb WITH more <- lbMore
Receive == INSTANCE Fq
Types == INSTANCE MCPatterns

\* The scenarios of MCPatterns, which do not depend on its constants.
Samples == INSTANCE MCPatterns WITH Scenarios <- <<>>, IdSpan <- 1
Usage == Samples!Usage

sendVars == <<pipes, active, current, lbMore, dropping, state, full, outActive, unfinished, sent, msg, part>>
fqVars == <<fqPipes, fqActive, fqCurrent, fqMore, inState, inActive, inbox, ended, served, left>>
lbVars == <<half, sendVars>>
typeVars == <<conf, n>>
vars == <<use, lbVars, fqVars, typeVars>>

Init ==
    /\ use \in {"lists", "patterns"}
    /\ half \in {"send", "recv", "disconnect"} /\ (use # "lists" => half = "send")
    /\ Send!Init /\ Receive!FqInit
    /\ Types!Init /\ (use # "patterns" => conf = 1)

OnlyPeersClose == \A p \in InPipes : ~Receive!Disconnect(p)
OneNotAttached == \E p \in InPipes : inState'[p] = "new"
Lists ==
    \/ half = "send" /\ Send!Next /\ UNCHANGED fqVars
    \/ half = "recv" /\ Receive!FqNext /\ OnlyPeersClose /\ UNCHANGED sendVars
    \/ half = "disconnect" /\ Receive!FqNext /\ OneNotAttached /\ UNCHANGED sendVars

Next ==
    \/ use = "lists" /\ Lists /\ UNCHANGED <<use, half, typeVars>>
    \/ use = "patterns" /\ Types!Next /\ UNCHANGED <<use, lbVars, fqVars>>

\* The fairness of each part, for the behaviours that exercise it.
ListsFair == WF_fqVars(use = "lists" /\ half # "send" /\ Receive!recvpipe)
TypesFair ==
    \/ []<>~(use = "patterns" /\ Types!S.calm /\ Types!CanProgress)
    \/ []<><<use = "patterns" /\ Types!Progress>>_typeVars

Spec == Init /\ [][Next]_vars /\ ListsFair /\ TypesFair

-----------------------------------------------------------------------------
(* The properties of the parts, under their names.                         *)

\* A message goes to one pipe and is received from one pipe, with all of its
\* parts, whatever closes, fills up or is attached between the parts; and the
\* lists overlook nobody: a pipe that would take a message, or that has one, is
\* in the active part of its list (lb_t::sendpipe, fq_t::recvpipe).
ListsRight ==
    /\ Send!WholeMessages /\ Send!WritableIsActive
    /\ Receive!MessageContinues /\ Receive!ReadableIsActive

\* fq_t serves every pipe that has a message.
NobodyStarves == Receive!NobodyStarves

\* The zmq_asserts of the socket types hold.
PatternAssertions == Types!PatternAssertions

\* The socket types deliver whole messages and lead answers back to the asker.
DeliveredRight == Types!DeliveredRight

\* Undisturbed, every request is answered.
EveryRequestAnswered == Types!EveryRequestAnswered
=============================================================================
