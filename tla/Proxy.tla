-------------------------------- MODULE Proxy --------------------------------
(***************************************************************************)
(* zmq_proxy and zmq_proxy_steerable: one thread forwards messages between *)
(* a frontend "f" and a backend "b", copies them to a capture socket and   *)
(* obeys a control socket.  It polls, remembers what it was told in flags, *)
(* and chooses what the next blocking wait is for by the flags.  The two   *)
(* builds of the function are modelled, on pollers and on zmq_poll; the    *)
(* sockets are the external world: queues with a high water mark, whose    *)
(* peers come and go.                                                      *)
(***************************************************************************)
EXTENDS Integers, FiniteSets, Sequences

CONSTANTS Builds,     \* of [poller, same, captures, script]: the build, frontend = backend?,
                      \* a capture socket?, the commands sent and when the context ends
          MaxMsgs,    \* bound: messages that arrive
          Hwm,        \* room in the queue to the peers of a side
          MaxGone     \* bound: times the peers of a side go away

VARIABLES conf,      \* a member of Builds
          p,         \* the variables of the function
          arrived, taken, sent, \* by side: messages that came, were received, were forwarded
          out,       \* by side: messages that wait for the peers
          up, gone,  \* by side: are there peers?  how often they went
          captured, cap_out,  \* copies made, and the ones that are still queued
          box, controls,      \* commands waiting at the control socket, and sent
          term,      \* the context is terminated
          odd        \* forwarded while paused, wrong statistics

vars == <<conf, p, arrived, taken, sent, out, up, gone, captured, cap_out,
          box, controls, term, odd>>
env == <<conf, arrived, out, up, gone, cap_out, controls, term>>

Side == {"f", "b"}
Of(x, y) == [s \in Side |-> IF s = "f" THEN x ELSE y]
Other(s) == IF s = "f" THEN "b" ELSE "f"
frontend == "f"
backend == IF conf.same THEN "f" ELSE "b"

No == Of(FALSE, FALSE)
NoHand == [from |-> "f", to |-> "f", at |-> "none"]
Stats == [msg_in |-> Of(0, 0), msg_out |-> Of(0, 0)]

Init ==
    /\ conf \in Builds
    /\ p = [pc |-> "wait", state |-> "active", wait |-> "in", in |-> No, out |-> No,
            control_in |-> FALSE, done |-> No, hand |-> NoHand, stats |-> Stats, rc |-> 0]
    /\ arrived = Of(0, 0) /\ taken = Of(0, 0) /\ sent = Of(0, 0) /\ out = Of(0, 0)
    /\ up = Of(TRUE, TRUE) /\ gone = 0
    /\ captured = 0 /\ cap_out = 0 /\ box = <<>> /\ controls = 0
    /\ term = FALSE /\ odd = {}

\* Is a socket readable, can it take a message?
In(s) == arrived[s] > taken[s]
Out(s) == up[s] /\ out[s] < Hwm

\* What each poller is for.
pollers ==
    [in |-> <<{"f", "b"}, {}>>, receive_blocked |-> <<{"b"}, {"f", "b"}>>,
     send_blocked |-> <<{"f"}, {"f", "b"}>>, both_blocked |-> <<{}, {"f", "b"}>>,
     frontend_only |-> <<{"f"}, {"f"}>>, backend_only |-> <<{"b"}, {"b"}>>,
     control |-> <<{}, {}>>]
Events(w) == \/ \E s \in pollers[w][1] : In(s)
             \/ \E s \in pollers[w][2] : Out(s)
             \/ box # <<>>

Return(rc) == p' = [p EXCEPT !.pc = "returned", !.rc = rc, !.hand = NoHand]

\* The blocking wait; zmq_poll waits for input only.
wait ==
    /\ p.pc = "wait"
    /\ \/ term /\ Return(-1)
       \/ ~term /\ Events(p.wait) /\ p' = [p EXCEPT !.pc = "poll"]
    /\ UNCHANGED <<env, taken, sent, captured, box, odd>>

\* poll_all: a socket without events is not reported, and its flags stay.
poll_all ==
    LET reported == {s \in {frontend, backend} : In(s) \/ Out(s)} IN
    [p EXCEPT !.pc = "control", !.control_in = @ \/ box # <<>>,
              !.in = [s \in Side |-> IF s \in reported THEN In(s) ELSE @[s]],
              !.out = [s \in Side |-> IF s \in reported THEN Out(s) ELSE @[s]]]
\* zmq_poll overwrites the answers of all items.
poll_items ==
    [p EXCEPT !.pc = "control", !.control_in = box # <<>>,
              !.in = [s \in Side |-> s \in {frontend, backend} /\ In(s)],
              !.out = [s \in Side |-> s \in {frontend, backend} /\ Out(s)]]
poll ==
    /\ p.pc = "poll"
    /\ \/ term /\ Return(-1)
       \/ ~term /\ p' = IF conf.poller THEN poll_all ELSE poll_items
    /\ UNCHANGED <<env, taken, sent, captured, box, odd>>

reply_stats_right == \A s \in Side :
    p.stats.msg_in[s] = taken[s] /\ p.stats.msg_out[Other(s)] = sent[s]

\* A plausible slip: a proxy that is resumed goes on waiting for commands only.
obey_deaf(q, c) ==
    CASE c = "PAUSE" -> [q EXCEPT !.state = "paused", !.wait = IF conf.poller THEN "control" ELSE @]
      [] c = "RESUME" -> [q EXCEPT !.state = "active"]
      [] c = "TERMINATE" -> [q EXCEPT !.state = "terminated"]
      [] c = "STATISTICS" -> q

\* A control command; anything but the four is an API error.
obey(q, c) ==
    CASE c = "PAUSE" -> [q EXCEPT !.state = "paused", !.wait = IF conf.poller THEN "control" ELSE @]
      [] c = "RESUME" -> [q EXCEPT !.state = "active", !.wait = "in"]
      [] c = "TERMINATE" -> [q EXCEPT !.state = "terminated"]
      [] c = "STATISTICS" -> q
control ==
    /\ p.pc = "control"
    /\ \/ /\ ~p.control_in /\ p' = [p EXCEPT !.pc = "request"]
          /\ UNCHANGED <<captured, cap_out, box, odd>>
       \/ /\ p.control_in /\ term /\ Return(-1)
          /\ UNCHANGED <<captured, cap_out, box, odd>>
       \/ /\ p.control_in /\ (conf.captures => cap_out < Hwm)
          /\ box' = Tail(box)
          /\ captured' = IF conf.captures THEN captured + 1 ELSE captured
          /\ cap_out' = IF conf.captures THEN cap_out + 1 ELSE cap_out
          /\ odd' = IF Head(box) = "STATISTICS" /\ ~reply_stats_right
                    THEN odd \cup {"statistics"} ELSE odd
          /\ p' = obey([p EXCEPT !.pc = "request", !.control_in = FALSE], Head(box))
    /\ UNCHANGED <<conf, arrived, out, up, gone, controls, term, taken, sent>>

\* forward: receive, copy to the capture socket, send; any of them may block,
\* and a context that ends makes it fail.
forward(from, to) ==
    /\ taken' = [taken EXCEPT ![from] = @ + 1]
    /\ odd' = IF p.state # "active" THEN odd \cup {"forwarded"} ELSE odd
    /\ p' = [p EXCEPT !.pc = "forward",
                      !.hand = [from |-> from, to |-> to,
                                at |-> IF conf.captures THEN "capture" ELSE "send"]]

Active == p.state = "active"
CanRequest == Active /\ p.in[frontend] /\ (p.out[backend] \/ conf.same)
\* A plausible slip: replies pass while the proxy is paused.
CanReply_paused == ~conf.same /\ p.in[backend] /\ p.out[frontend]

CanReply == Active /\ ~conf.same /\ p.in[backend] /\ p.out[frontend]

request ==
    /\ p.pc = "request"
    /\ IF CanRequest THEN forward(frontend, backend)
       ELSE p' = [p EXCEPT !.pc = "reply"] /\ UNCHANGED <<taken, odd>>
    /\ UNCHANGED <<env, sent, captured, box>>
reply ==
    /\ p.pc = "reply"
    /\ IF CanReply THEN forward(backend, frontend)
       ELSE p' = [p EXCEPT !.pc = "end"] /\ UNCHANGED <<taken, odd>>
    /\ UNCHANGED <<env, sent, captured, box>>

capture ==
    /\ p.pc = "forward" /\ p.hand.at = "capture"
    /\ \/ term /\ Return(-1) /\ UNCHANGED <<captured, cap_out>>
       \/ /\ cap_out < Hwm
          /\ captured' = captured + 1 /\ cap_out' = cap_out + 1
          /\ p' = [p EXCEPT !.hand.at = "send"]
    /\ UNCHANGED <<conf, arrived, taken, sent, out, up, gone, box, controls, term, odd>>

\* The flags that were used are cleared, both of them.
forwarded(from) ==
    [p EXCEPT !.pc = IF from = "f" THEN "reply" ELSE "end",
              !.stats.msg_in[from] = @ + 1, !.stats.msg_out[Other(from)] = @ + 1,
              !.in = [@ EXCEPT ![from] = FALSE],
              !.out = [@ EXCEPT ![Other(from)] = FALSE],
              !.done = [@ EXCEPT ![from] = TRUE], !.hand = NoHand]
send ==
    /\ p.pc = "forward" /\ p.hand.at = "send"
    /\ \/ term /\ Return(-1) /\ UNCHANGED <<sent, out>>
       \/ /\ Out(p.hand.to)
          /\ sent' = [sent EXCEPT ![p.hand.from] = @ + 1]
          /\ out' = [out EXCEPT ![p.hand.to] = @ + 1]
          /\ p' = forwarded(p.hand.from)
    /\ UNCHANGED <<conf, arrived, taken, up, gone, captured, cap_out, box, controls, term, odd>>

\* What the next wait is for: a side whose messages were forwarded is listened
\* to again, a side that cannot be forwarded is not.
after_request(w) ==
    CASE w = "both_blocked" -> "send_blocked"
      [] w \in {"receive_blocked", "frontend_only"} -> "in"
      [] OTHER -> w
after_reply(w) ==
    CASE w = "both_blocked" -> "receive_blocked"
      [] w \in {"send_blocked", "backend_only"} -> "in"
      [] OTHER -> w
frontend_waits(w) ==
    CASE ~p.in["f"] -> w
      [] p.in["f"] /\ p.out["f"] -> "backend_only"
      [] p.in["f"] /\ ~p.out["f"] /\ w = "send_blocked" -> "both_blocked"
      [] p.in["f"] /\ ~p.out["f"] /\ w = "in" -> "receive_blocked"
      [] OTHER -> w
backend_waits(w) ==
    CASE ~p.in["b"] -> w
      [] p.in["b"] /\ p.out["b"] -> "frontend_only"
      [] p.in["b"] /\ ~p.out["b"] /\ w = "receive_blocked" -> "both_blocked"
      [] p.in["b"] /\ ~p.out["b"] /\ w = "in" -> "send_blocked"
      [] OTHER -> w
poller_wait ==
    CASE ~conf.poller \/ ~Active -> p.wait
      [] p.done["f"] /\ ~p.done["b"] -> after_request(p.wait)
      [] p.done["b"] /\ ~p.done["f"] -> after_reply(p.wait)
      [] p.done["f"] /\ p.done["b"] -> after_reply(after_request(p.wait))
      [] OTHER -> backend_waits(frontend_waits(p.wait))

end ==
    /\ p.pc = "end"
    /\ IF p.state = "terminated" THEN Return(0)
       ELSE p' = [p EXCEPT !.pc = "wait", !.wait = poller_wait, !.done = No,
                           !.in = IF conf.poller THEN @ ELSE No,
                           !.out = IF conf.poller THEN @ ELSE No]
    /\ UNCHANGED <<env, taken, sent, captured, box, odd>>

proxy == wait \/ poll \/ control \/ request \/ reply \/ capture \/ send \/ end

-----------------------------------------------------------------------------
(***************************************************************************)
(* The peers.                                                              *)
(***************************************************************************)
Unmoved == UNCHANGED <<conf, p, taken, sent, captured, odd>>

Arrive == \E s \in {frontend, backend} :
    /\ up[s] /\ arrived["f"] + arrived["b"] < MaxMsgs
    /\ arrived' = [arrived EXCEPT ![s] = @ + 1]
    /\ UNCHANGED <<out, up, gone, cap_out, box, controls, term>> /\ Unmoved
Consume == \E s \in Side :
    /\ up[s] /\ out[s] > 0
    /\ out' = [out EXCEPT ![s] = @ - 1]
    /\ UNCHANGED <<arrived, up, gone, cap_out, box, controls, term>> /\ Unmoved
ConsumeCopy ==
    /\ cap_out > 0 /\ cap_out' = cap_out - 1
    /\ UNCHANGED <<arrived, out, up, gone, box, controls, term>> /\ Unmoved
PeersGo == \E s \in {frontend, backend} :
    /\ up[s] /\ gone < MaxGone
    /\ up' = [up EXCEPT ![s] = FALSE] /\ gone' = gone + 1
    /\ out' = [out EXCEPT ![s] = 0]
    /\ UNCHANGED <<arrived, cap_out, box, controls, term>> /\ Unmoved
PeersCome == \E s \in Side :
    /\ ~up[s] /\ up' = [up EXCEPT ![s] = TRUE]
    /\ UNCHANGED <<arrived, out, gone, cap_out, box, controls, term>> /\ Unmoved
Command ==
    /\ controls < Len(conf.script) /\ conf.script[controls + 1] # "END"
    /\ box' = Append(box, conf.script[controls + 1]) /\ controls' = controls + 1
    /\ UNCHANGED <<arrived, out, up, gone, cap_out, term>> /\ Unmoved
CtxTerm ==
    /\ controls < Len(conf.script) /\ conf.script[controls + 1] = "END"
    /\ term' = TRUE /\ controls' = controls + 1
    /\ UNCHANGED <<arrived, out, up, gone, cap_out, box>> /\ Unmoved

Next == proxy \/ Arrive \/ Consume \/ ConsumeCopy \/ PeersGo \/ PeersCome \/ Command \/ CtxTerm

\* The thread runs; peers that stay read, and come back when they went.
Fairness == WF_vars(proxy) /\ WF_vars(Consume) /\ WF_vars(ConsumeCopy) /\ WF_vars(PeersCome)

Spec == Init /\ [][Next]_vars /\ Fairness

-----------------------------------------------------------------------------
\* Nothing is forwarded while the proxy is paused, a message is forwarded once
\* and copied once before that, the statistics it reports are of the messages
\* it did forward, and it returns 0 only when it was told to terminate
\* (forward, reply_stats and the state variable of proxy ()).
ProxyRight ==
    /\ odd = {}
    /\ \A s \in Side : p.pc # "returned" =>
          sent[s] = taken[s] - (IF p.hand.at # "none" /\ p.hand.from = s THEN 1 ELSE 0)
    /\ conf.captures /\ controls = 0 =>
          captured \in (sent["f"] + sent["b"])..(taken["f"] + taken["b"])
    /\ p.pc = "returned" /\ p.rc = 0 => p.state = "terminated"

\* Whichever poller it waits with, the proxy does not sleep over a message: one
\* that can be read at a side is read in the end, unless the proxy is paused or
\* ends (the choice of poller_wait by flags that are only renewed for the
\* sockets poll_all reports).
EverythingForwarded == \A s \in Side :
    []<>(~In(s) \/ p.state # "active" \/ p.pc = "returned")

\* A TERMINATE that was sent makes the proxy return, and so does the end of
\* its context.
ProxyReturns ==
    []<>((\E i \in 1 .. controls : conf.script[i] \in {"TERMINATE", "END"}) => p.pc = "returned")

\* Both: messages are passed on and the proxy ends when it is told to.
ProxyGoesOn == EverythingForwarded /\ ProxyReturns
=============================================================================
