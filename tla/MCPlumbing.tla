----------------------------- MODULE MCPlumbing -----------------------------
(***************************************************************************)
(* What threads wait with and wake each other with.  The parts have no     *)
(* state in common, so a behaviour exercises one of them (`part`) and the  *)
(* others stay as they were made:                                          *)
(*   mailbox   Mailbox: the command queue of a thread                      *)
(*   safe      SafeSocket: a socket that several threads receive from      *)
(*   poller    Poller: the event loop of an I/O thread                     *)
(*   items     SocketPoller: zmq_poller and zmq_poll                       *)
(*   proxy     Proxy: zmq_proxy and zmq_proxy_steerable                    *)
(***************************************************************************)
EXTENDS Mailbox

CONSTANTS
    Receivers, Pollers, MaxMsgs,                                                \* SafeSocket
    Kinds, Fds, MaxReg, TimerIds, Timeouts, MaxNow, MaxOps, Rearmed,            \* Poller
    Sockets, SafeSockets, RawFds, SignalerFd, Bases, Muted, MaxItems,           \* SocketPoller
    Builds, ProxyMsgs, Hwm, MaxGone                                             \* Proxy

VARIABLES
    part,
    sUsers, sMsgs, sWritten, sInActive, sPipeSleeps, sPosting, sBox, sBoxSleeps, sPc, sSignals,
    lP, lWant, lArmed, lNow, lOps, lOdd,
    iS, iOdd,
    xConf, xP, xArrived, xTaken, xSent, xOut, xUp, xGone, xCaptured, xCapOut, xBox, xControls, xTerm, xOdd

Safe == INSTANCE SafeSocket WITH
    users <- sUsers, msgs <- sMsgs, written <- sWritten, in_active <- sInActive, pipe_sleeps <- sPipeSleeps,
    posting <- sPosting, box <- sBox, box_sleeps <- sBoxSleeps, pc <- sPc, signals <- sSignals
Events == INSTANCE Poller WITH
    p <- lP, want <- lWant, armed <- lArmed, now <- lNow, ops <- lOps, odd <- lOdd
Items == INSTANCE SocketPoller WITH s <- iS, odd <- iOdd
Steered == INSTANCE Proxy WITH
    conf <- xConf, p <- xP, arrived <- xArrived, taken <- xTaken, sent <- xSent, out <- xOut, up <- xUp, gone <- xGone,
    captured <- xCaptured, cap_out <- xCapOut, box <- xBox, controls <- xControls, term <- xTerm, odd <- xOdd,
    MaxMsgs <- ProxyMsgs

\* Both builds of the proxy, with the commands it is sent.
Build(poller, same, captures, script) ==
    [poller |-> poller, same |-> same, captures |-> captures, script |-> script]
AllBuilds ==
    {Build(TRUE, FALSE, FALSE, <<"PAUSE", "RESUME">>),
     Build(TRUE, FALSE, TRUE, <<"STATISTICS", "TERMINATE">>),
     Build(TRUE, FALSE, FALSE, <<"END">>),
     Build(TRUE, TRUE, FALSE, <<"PAUSE", "STATISTICS", "RESUME">>),
     Build(FALSE, FALSE, TRUE, <<"STATISTICS", "END">>),
     Build(FALSE, FALSE, FALSE, <<"PAUSE", "RESUME">>),
     Build(FALSE, TRUE, FALSE, <<"TERMINATE">>)}

safeVars == <<sUsers, sMsgs, sWritten, sInActive, sPipeSleeps, sPosting, sBox, sBoxSleeps, sPc, sSignals>>
loopVars == <<lP, lWant, lArmed, lNow, lOps, lOdd>>
itemVars == <<iS, iOdd>>
proxyVars == <<xConf, xP, xArrived, xTaken, xSent, xOut, xUp, xGone, xCaptured, xCapOut, xBox, xControls, xTerm, xOdd>>
mcVars == <<part, vars, safeVars, loopVars, itemVars, proxyVars>>

MCInit ==
    /\ part \in {"mailbox", "safe", "poller", "items", "proxy"}
    /\ Init
    /\ Safe!Init /\ (part # "safe" => sUsers = Receivers)
    /\ Events!Init /\ (part # "poller" => lP.kind = CHOOSE k \in Kinds : TRUE)
    /\ Items!Init /\ (part # "items" => iS.base = "poll")
    /\ Steered!Init /\ (part # "proxy" => xConf = CHOOSE b \in Builds : TRUE)

MCNext ==
    \/ part = "mailbox" /\ Next /\ UNCHANGED <<part, safeVars, loopVars, itemVars, proxyVars>>
    \/ part = "safe" /\ Safe!Next /\ UNCHANGED <<part, vars, loopVars, itemVars, proxyVars>>
    \/ part = "poller" /\ Events!Next /\ UNCHANGED <<part, vars, safeVars, itemVars, proxyVars>>
    \/ part = "items" /\ Items!Next /\ UNCHANGED <<part, vars, safeVars, loopVars, proxyVars>>
    \/ part = "proxy" /\ Steered!Next /\ UNCHANGED <<part, vars, safeVars, loopVars, itemVars>>

\* The fairness of each part, for the behaviours that exercise it.
MailboxFair ==
    /\ \A s \in Senders : WF_vars(part = "mailbox" /\ (SendWrite(s) \/ SendUnlock(s) \/ SendSignal(s)))
    /\ WF_vars(part = "mailbox" /\ (RecvActive \/ RecvPassive))
    /\ WF_vars(part = "mailbox" /\ RecvRead)
    /\ SF_vars(part = "mailbox" /\ RecvSignal)
SafeFair ==
    /\ WF_safeVars(part = "safe" /\ Safe!Send)
    /\ \A t \in Receivers \cup Pollers : WF_safeVars(part = "safe" /\ Safe!Step(t))
LoopFair == WF_loopVars(part = "poller" /\ Events!Loop) /\ WF_loopVars(part = "poller" /\ Events!Tick)
ProxyFair ==
    /\ WF_proxyVars(part = "proxy" /\ Steered!proxy) /\ WF_proxyVars(part = "proxy" /\ Steered!Consume)
    /\ WF_proxyVars(part = "proxy" /\ Steered!ConsumeCopy) /\ WF_proxyVars(part = "proxy" /\ Steered!PeersCome)

MCSpec == MCInit /\ [][MCNext]_mcVars /\ MailboxFair /\ SafeFair /\ LoopFair /\ ProxyFair

-----------------------------------------------------------------------------
(* The properties of the parts, under their names (Mailbox's as they are). *)

\* Every message written to a thread-safe socket is taken.
EveryMessageTaken == Safe!EveryMessageTaken

\* An event loop calls who asked to be called and keeps its tables in step.
PollerRight == Events!PollerRight

\* An event loop's timers fire.
EveryTimerFires == Events!EveryTimerFires

\* Who waits for sockets is told: zmq_poller and zmq_poll report what was asked
\* for and is there, and no wake-up is lost between the two queues of a
\* thread-safe socket and the threads that wait at it.
WaitersRight == Items!SocketPollerRight /\ Safe!NoLostWakeup

\* A proxy forwards once, counts right and obeys.
ProxyRight == Steered!ProxyRight

\* A proxy forwards what comes and ends when it is told to.
ProxyGoesOn == Steered!ProxyGoesOn
=============================================================================
