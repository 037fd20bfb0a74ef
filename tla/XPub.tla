-------------------------------- MODULE XPub --------------------------------
(***************************************************************************)
(* xpub_t (xpub.cpp) with its dist_t: the publishing side of PUB and XPUB. *)
(*                                                                         *)
(* A topic is a sequence, and a subscription matches the topics it is a    *)
(* prefix of; the mtrie_t is a set of pairs <<topic, pipe>>.  A pipe is    *)
(* full or not, open or closing, and keeps what it took.  The welcome      *)
(* message and metadata are left out.                                      *)
(***************************************************************************)
EXTENDS Dist, FiniteSetsExt

CONSTANTS
    Pipes,
    Topics,         \* what peers subscribe to
    MsgTopics,      \* what the application publishes
    Options,        \* among "manual", "verbose", "verboser", "invert", and
                    \* "nodrop": the application changes ZMQ_XPUB_NODROP
    Type,           \* "PUB" or "XPUB"
    Peers,          \* among "all" (subscribed to everything), "stray" (cancel
                    \* without a subscription), "user" (messages of their own,
                    \* empty) and "data" (the same, not empty)
    MaxMsgs, MaxParts,  \* bounds: messages published, parts of each
    MaxRequests         \* bound: messages from the peers

ASSUME XPubAssumption ==
    /\ Options \subseteq {"manual", "verbose", "verboser", "nodrop", "invert"}
    /\ Type \in {"PUB", "XPUB"} /\ Peers \subseteq {"all", "stray", "user", "data"}
    /\ MaxMsgs \in Nat /\ MaxParts \in Nat /\ MaxRequests \in Nat

NULL == "null"

VARIABLES
    dist,           \* _dist
    subscriptions, manual_subscriptions,    \* the two mtrie_t
    pending,        \* _pending_data: [kind, topic, from], `from` being a ghost
    pending_pipes, last_pipe,
    more, lossy,    \* _more: in the middle of a message; _lossy
    state, full, outActive, \* of each pipe
    asked,          \* what each peer has subscribed to, by its own account
    requests,       \* number of messages from the peers
    unfinished, sent,   \* of each pipe: parts of the open message; the messages
    msg, part,      \* the application sends part `part` of message `msg` next
    due,            \* of each message: the pipes that must and that may get it
    told            \* topics the application takes to be subscribed to

subVars == <<subscriptions, manual_subscriptions, pending, pending_pipes, last_pipe>>
pipeVars == <<state, full, outActive>>
peerVars == <<asked, requests>>
sendVars == <<more, lossy, unfinished, sent, msg, part, due>>
vars == <<dist, subscriptions, manual_subscriptions, pending, pending_pipes, last_pipe, more, lossy,
          state, full, outActive, asked, requests, unfinished, sent, msg, part, due, told>>

Init ==
    /\ dist = NewDist
    /\ subscriptions = {} /\ manual_subscriptions = {}
    /\ pending = <<>> /\ pending_pipes = <<>> /\ last_pipe = NULL
    /\ more = FALSE /\ lossy = TRUE
    /\ state = [p \in Pipes |-> "new"]
    /\ full = [p \in Pipes |-> FALSE] /\ outActive = [p \in Pipes |-> TRUE]
    /\ asked = [p \in Pipes |-> {}] /\ requests = 0
    /\ unfinished = [p \in Pipes |-> <<>>] /\ sent = [p \in Pipes |-> <<>>]
    /\ msg = 1 /\ part = 1 /\ due = <<>>
    /\ told = {}

Manual == "manual" \in Options
verbose_subs == {"verbose", "verboser"} \cap Options # {}
verbose_unsubs == "verboser" \in Options

-----------------------------------------------------------------------------
(* What the pipes report *)

\* xattach_pipe(); a multicast peer is subscribed to everything.
attach(p, all) ==
    /\ state[p] = "new" /\ (all => "all" \in Peers)
    /\ state' = [state EXCEPT ![p] = "open"]
    /\ dist' = dist_attach(dist, p)
    /\ subscriptions' = IF all THEN subscriptions \cup {<< <<>>, p >>} ELSE subscriptions
    /\ UNCHANGED <<manual_subscriptions, pending, pending_pipes, last_pipe, full, outActive,
                   peerVars, sendVars, told>>

\* A queue of things for the application, one of them added.
Tell(kind, t, p) == Append(pending, [kind |-> kind, topic |-> t, from |-> p])

Request(p) ==
    /\ state[p] = "open" /\ requests < MaxRequests
    /\ requests' = requests + 1

\* xread_activated(), a subscription.
Subscribe(p, t) ==
    LET first == \A q \in Pipes : <<t, q>> \notin subscriptions
        notify == Manual \/ (Type = "XPUB" /\ (first \/ verbose_subs))
    IN  /\ Request(p)
        /\ asked' = [asked EXCEPT ![p] = @ \cup {t}]
        /\ IF Manual
           THEN /\ manual_subscriptions' = manual_subscriptions \cup {<<t, p>>}
                /\ pending_pipes' = Append(pending_pipes, p)
                /\ UNCHANGED subscriptions
           ELSE /\ subscriptions' = subscriptions \cup {<<t, p>>}
                /\ UNCHANGED <<manual_subscriptions, pending_pipes>>
        /\ pending' = IF notify THEN Tell("sub", t, p) ELSE pending
        /\ UNCHANGED <<dist, last_pipe, pipeVars, sendVars, told>>

\* generic_mtrie_t::rm() on the subscription <<t, p>>
rm_result(t, p) ==
    IF <<t, p>> \notin subscriptions THEN "not_found"
    ELSE IF \E q \in Pipes \ {p} : <<t, q>> \in subscriptions THEN "values_remain"
    ELSE "last_value_removed"

\* Whether the application is told about a cancellation.
rm_notifies(t, p) == Type = "XPUB" /\ (rm_result(t, p) # "values_remain" \/ verbose_unsubs)

\* What a cancellation does, apart from the message for the application.
Cancelled(p, t) ==
    IF Manual
    THEN /\ manual_subscriptions' = manual_subscriptions \ {<<t, p>>}
         /\ pending_pipes' = Append(pending_pipes, p)
         /\ UNCHANGED subscriptions
    ELSE /\ subscriptions' = subscriptions \ {<<t, p>>}
         /\ UNCHANGED <<manual_subscriptions, pending_pipes>>

\* xread_activated(), a cancellation.
Cancel(p, t) ==
    /\ Request(p)
    /\ t \in asked[p] \/ "stray" \in Peers
    /\ asked' = [asked EXCEPT ![p] = @ \ {t}]
    /\ Cancelled(p, t)
    /\ pending' = IF Manual \/ rm_notifies(t, p) THEN Tell("unsub", t, p) ELSE pending
    /\ UNCHANGED <<dist, last_pipe, pipeVars, sendVars, told>>

\* xread_activated(), an empty message of the peer's own.
UserMessage(p) ==
    /\ "user" \in Peers /\ Request(p)
    /\ pending' = Tell("user", <<>>, p)
    /\ UNCHANGED <<dist, subscriptions, manual_subscriptions, pending_pipes, last_pipe,
                   pipeVars, asked, sendVars, told>>

\* The same with a message that is not empty and does not start with 0 or 1:
\* the code goes on as with a cancellation, data being NULL and size 0.  When
\* the application is to be told it writes before that address, and there is no
\* further step.
UserData(p) ==
    /\ "data" \in Peers /\ Request(p)
    /\ ~Manual /\ ~rm_notifies(<<>>, p)
    /\ Cancelled(p, <<>>)
    /\ UNCHANGED <<dist, pending, last_pipe, pipeVars, asked, sendVars, told>>

\* pipe_t::process_activate_write() and xwrite_activated()
activated(p) ==
    /\ state[p] = "open" /\ full[p]
    /\ full' = [full EXCEPT ![p] = FALSE]
    /\ outActive' = [outActive EXCEPT ![p] = TRUE]
    /\ dist' = IF outActive[p] THEN dist ELSE dist_activated(dist, p)
    /\ UNCHANGED <<subVars, state, peerVars, sendVars, told>>

\* The pipe starts to terminate, from either end; nothing tells xpub_t.
Closing(p) ==
    /\ state[p] = "open"
    /\ state' = [state EXCEPT ![p] = "closing"]
    /\ UNCHANGED <<dist, subVars, full, outActive, peerVars, sendVars, told>>

\* The topics for which mtrie_t::rm(pipe_, ...) calls send_unsubscription().
Unsubscribed(p) ==
    IF Manual THEN {t \in Topics \cup {<<>>} : <<t, p>> \in manual_subscriptions}
    ELSE {t \in Topics \cup {<<>>} :
            <<t, p>> \in subscriptions /\ (verbose_unsubs \/ rm_result(t, p) = "last_value_removed")}

\* _subscriptions without the pipe.
Without(p) == {s \in subscriptions : s[2] # p}

\* send_unsubscription(), called n times, keeps _pending_pipes in step.
WithNulls(n) == IF Manual THEN pending_pipes \o [i \in 1 .. n |-> NULL] ELSE pending_pipes

\* xpipe_terminated()
pipe_terminated(p) ==
    LET gone == IF Type = "PUB" THEN {} ELSE Unsubscribed(p)
        order == SetToSeq(gone)
    IN  /\ state[p] = "closing"
        /\ state' = [state EXCEPT ![p] = "done"]
        /\ subscriptions' = Without(p)
        /\ manual_subscriptions' = {s \in manual_subscriptions : s[2] # p}
        /\ pending' = pending \o [i \in 1 .. Len(order) |->
                                    [kind |-> "unsub", topic |-> order[i], from |-> NULL]]
        /\ pending_pipes' = WithNulls(Len(order))
        /\ last_pipe' = IF Manual /\ gone # {} THEN NULL ELSE last_pipe
        /\ dist' = dist_pipe_terminated(dist, p)
        /\ UNCHANGED <<full, outActive, peerVars, sendVars, told>>

-----------------------------------------------------------------------------
(* The application *)

\* xrecv(): the application learns of a subscription.
Received(m) ==
    /\ pending' = Tail(pending)
    /\ IF Manual /\ pending_pipes # <<>>
       THEN last_pipe' = Head(pending_pipes) /\ pending_pipes' = Tail(pending_pipes)
       ELSE UNCHANGED <<last_pipe, pending_pipes>>
    /\ told' = CASE m.kind = "sub" -> told \cup {m.topic}
                 [] m.kind = "unsub" -> told \ {m.topic}
                 [] OTHER -> told

xrecv ==
    /\ pending # <<>>
    /\ Received(Head(pending))
    /\ UNCHANGED <<dist, subscriptions, manual_subscriptions, pipeVars, peerVars, sendVars>>

\* xrecv() and, as the manual mode is meant to be used, xsetsockopt() with
\* ZMQ_SUBSCRIBE or ZMQ_UNSUBSCRIBE right after it.
RecvAndSet ==
    /\ Manual /\ pending # <<>>
    /\ Received(Head(pending))
    /\ LET m == Head(pending)
       IN  subscriptions' = IF last_pipe' = NULL THEN subscriptions
                            ELSE CASE m.kind = "sub" -> subscriptions \cup {<<m.topic, last_pipe'>>}
                                   [] m.kind = "unsub" -> subscriptions \ {<<m.topic, last_pipe'>>}
                                   [] OTHER -> subscriptions
    /\ UNCHANGED <<dist, manual_subscriptions, pipeVars, peerVars, sendVars>>

\* The pipes the subscriptions select for a message.
Interested(t) == {p \in Pipes : \E s \in subscriptions : s[2] = p /\ IsPrefix(s[1], t)}
Selected(t) == IF "invert" \in Options THEN First(dist, Len(dist.pipes)) \ Interested(t)
               ELSE Interested(t) \cap First(dist, Len(dist.pipes))

Writable(p) == state[p] = "open" /\ outActive[p] /\ ~full[p]
Takers == {p \in Pipes : Writable(p)}

\* The orders in which mtrie_t::match() may report the pipes: those of a shorter
\* prefix first, those of one prefix by their addresses, which may be any.
Walks(t) ==
    LET depth(p) == Min({Len(s[1]) : s \in {x \in subscriptions : x[2] = p /\ IsPrefix(x[1], t)}})
    IN  {w \in SetToSeqs(Interested(t)) :
            \A i, j \in DOMAIN w : i < j => depth(w[i]) <= depth(w[j])}

\* The lists that the matching of a first part may lead to.
Matched(t) ==
    {LET d == FoldLeft(dist_match, dist, w)
     IN  IF "invert" \in Options THEN dist_reverse_match(d) ELSE d : w \in Walks(t)}

\* A plausible slip in Matching.
Rematched(t) == Matched(t)

\* Only a first part is matched.
Matching(t) == IF more THEN {dist} ELSE Matched(t)

\* dist_t::check_hwm()
CheckHwm(d) == \A p \in First(d, d.matching) : ~full[p]

\* xsend() of a part; the topic of a message is in its first part.
xsend(t, m) ==
    /\ msg <= MaxMsgs /\ (m => part < MaxParts)
    /\ \E d \in Matching(t) : \E e \in {dist_send_to_matching(d, Takers, m)} :
        LET took == First(e, e.matching)
            parts(p) == Append(unfinished[p], [msg |-> msg, part |-> part])
        IN
        /\ lossy \/ CheckHwm(d)
        /\ dist' = IF m THEN e ELSE dist_unmatch(e)
        /\ more' = m
        /\ outActive' = [p \in Pipes |-> outActive[p] /\
                ~(p \in First(d, d.matching) \ took /\ state[p] = "open")]
        /\ unfinished' = [p \in Pipes |-> IF p \notin took THEN unfinished[p]
                                          ELSE IF m THEN parts(p) ELSE <<>>]
        /\ sent' = [p \in Pipes |-> IF p \in took /\ ~m THEN Append(sent[p], parts(p)) ELSE sent[p]]
        /\ due' = IF more THEN due
                  ELSE Append(due, [must |-> Selected(t) \cap Takers, may |-> Selected(t)])
        /\ IF m THEN msg' = msg /\ part' = part + 1 ELSE msg' = msg + 1 /\ part' = 1
        /\ UNCHANGED <<subVars, lossy, state, full, peerVars, told>>

\* xsend() with ZMQ_XPUB_NODROP and a full pipe: EAGAIN.
xsend_again(t) ==
    /\ msg <= MaxMsgs /\ ~lossy
    /\ \E d \in Matching(t) : ~CheckHwm(d) /\ dist' = d
    /\ UNCHANGED <<subVars, pipeVars, peerVars, sendVars, told>>

\* xsetsockopt(ZMQ_XPUB_NODROP)
set_nodrop ==
    /\ "nodrop" \in Options
    /\ lossy' = ~lossy
    /\ UNCHANGED <<dist, subVars, more, pipeVars, peerVars, unfinished, sent, msg, part, due, told>>

\* A pipe reaches its high watermark when it has taken a message.
Fill(p) ==
    /\ state[p] = "open" /\ ~full[p] /\ unfinished[p] = <<>> /\ sent[p] # <<>>
    /\ full' = [full EXCEPT ![p] = TRUE]
    /\ UNCHANGED <<dist, subVars, state, outActive, peerVars, sendVars, told>>

-----------------------------------------------------------------------------
Next ==
    \/ \E p \in Pipes, all \in BOOLEAN : attach(p, all)
    \/ \E p \in Pipes, t \in Topics : Subscribe(p, t) \/ Cancel(p, t)
    \/ \E p \in Pipes : UserMessage(p) \/ UserData(p)
    \/ \E p \in Pipes : activated(p) \/ Closing(p) \/ pipe_terminated(p) \/ Fill(p)
    \/ xrecv \/ RecvAndSet \/ set_nodrop
    \/ \E t \in MsgTopics : xsend_again(t) \/ \E m \in BOOLEAN : xsend(t, m)

Spec == Init /\ [][Next]_vars

-----------------------------------------------------------------------------
(* Properties *)

\* Whatever closes, fills up, subscribes or is attached between the parts: a
\* pipe passes on whole messages only, only those it was subscribed to when the
\* first part was sent, and every one of those if it could take the first part
\* and is still open when the last part is sent.
RightReceivers ==
    /\ \A p \in Pipes : \A i \in 1 .. Len(sent[p]) :
          LET m == sent[p][i]
          IN  /\ \A k \in 1 .. Len(m) : m[k] = [msg |-> m[1].msg, part |-> k]
              /\ p \in due[m[1].msg].may
    /\ \A n \in 1 .. msg - 1 : \A p \in due[n].must :
          state[p] = "open" => \E i \in 1 .. Len(sent[p]) : sent[p][i][1].msg = n

\* dist.hpp on _active and _eligible: the boundaries of the list keep their
\* order, and nobody is left waiting for the next message once one is complete.
ListOrdered == DistOrdered(dist)

\* The topics the application will take to be subscribed to once it has read
\* everything that is pending.
Known ==
    {t \in Topics :
        LET about == {i \in 1 .. Len(pending) : pending[i].topic = t /\ pending[i].kind # "user"}
        IN  IF about = {} THEN t \in told ELSE pending[Max(about)].kind = "sub"}

\* xread_activated(): "If the request was a new subscription, or the
\* subscription was removed, or verbose mode is enabled, store it so that it can
\* be passed to the user": an application that forwards what it is told holds
\* exactly the subscriptions that at least one peer wants.
TopicsKnown == Known = {t \in Topics : \E p \in Pipes : <<t, p>> \in subscriptions}

\* xpub.hpp: "Last pipe that sent subscription message".  The subscription the
\* application reads next and the pipe that its ZMQ_SUBSCRIBE will apply to
\* belong together.
SenderIsLast ==
    Manual /\ pending # <<>> /\ Head(pending).kind # "user" =>
        Head(pending).from = IF pending_pipes = <<>> THEN last_pipe ELSE Head(pending_pipes)

\* xpipe_terminated(): "the pipe must be removed from there or it will be left
\* over": the subscriptions only name pipes that exist.  True only outside manual
\* mode (README).
NothingLeftOver == \A s \in subscriptions : state[s[2]] # "done"

\* zmq_socket(3) on ZMQ_XPUB: messages without a prefix have no effect on the
\* subscription status.
DataIsHarmless == [][\A p \in Pipes : UserData(p) => subscriptions' = subscriptions]_vars
=============================================================================
