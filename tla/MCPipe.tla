------------------------------- MODULE MCPipe -------------------------------
(***************************************************************************)
(* Six ways to use a pair of pipes, one per behaviour (`use`): it is      *)
(* closed from both ends, crossing and again; it carries more messages     *)
(* than its watermark allows; its session reconnects while the socket, or  *)
(* either end, may close it; the watermarks of an inproc pair are changed; *)
(* the session writes credentials among its messages and may close it.     *)
(***************************************************************************)
EXTENDS Pipe

VARIABLE use

AB(a, b) == [p \in Ends |-> IF p = "A" THEN a ELSE b]

\* A TCP pipe has no boost; between inproc sockets it is what the peer had set.
NoBoost == AB([in |-> -1, out |-> -1], [in |-> -1, out |-> -1])
InBoost == AB([in |-> 1, out |-> -1], [in |-> 1, out |-> 1])

\* Constants of the first use; those of the others are below.
MCMsgs == AB(2, 0)
MCTerms == AB(2, 2)
MCNone == AB(0, 0)
MCHwm == AB(1, 1)

Flow == INSTANCE Pipe WITH
    MaxMsgs <- AB(5, 0), MaxTerms <- MCNone, Hwm <- AB(3, 2)

Reconnect == INSTANCE Pipe WITH
    MaxMsgs <- AB(2, 0), MaxTerms <- AB(1, 0), MaxHiccups <- AB(0, 2), Hwm <- AB(1, 2)

ReconnectOrClose == INSTANCE Pipe WITH
    MaxMsgs <- AB(1, 0), MaxTerms <- AB(1, 1), MaxHiccups <- AB(0, 1), Hwm <- AB(1, 2)

SetHwm == INSTANCE Pipe WITH
    MaxMsgs <- AB(3, 0), MaxTerms <- MCNone, MaxHwmChanges <- AB(1, 0), Hwm <- AB(2, 2),
    NewHwms <- {0, 1}, Boost <- InBoost

\* The low watermark is 2: after one credential the writer goes on, after two it
\* does not.
Credential == INSTANCE Pipe WITH
    MaxMsgs <- AB(0, 4), MaxTerms <- AB(0, 1), Hwm <- AB(1, 3)

\* set_nodelay() only matters to an end whose peer closes the pipe.
Kept == delay = AB(TRUE, TRUE)

MCInit ==
    \/ use = "close" /\ Init
    \/ use = "flow" /\ Flow!Init /\ Kept
    \/ use = "reconnect" /\ Reconnect!Init /\ delay["A"]
    \/ use = "reconnect_close" /\ ReconnectOrClose!Init
    \/ use = "set_hwm" /\ SetHwm!Init /\ Kept
    \/ use = "credential" /\ Credential!Init /\ Kept

MCNext ==
    /\ UNCHANGED use
    /\ \/ use = "close" /\ Next
       \/ use = "flow" /\ Flow!Next
       \/ use = "reconnect" /\ Reconnect!Next
       \/ use = "reconnect_close" /\ ReconnectOrClose!Next
       \/ use = "set_hwm" /\ SetHwm!Next
       \/ use = "credential" /\ Credential!Next

mcVars == <<use, vars>>

\* The fairness of Pipe; the three actions depend on none of the bounds.
MCSpec ==
    /\ MCInit /\ [][MCNext]_mcVars
    /\ \A p \in Ends : /\ WF_mcVars(Read(p) /\ UNCHANGED use)
                       /\ WF_mcVars(Outside(p) /\ SetHwm!ProcessCommand(p) /\ UNCHANGED use)
                       /\ WF_mcVars(Outside(p) /\ Flush(p) /\ UNCHANGED use)
=============================================================================
