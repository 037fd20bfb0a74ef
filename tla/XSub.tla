-------------------------------- MODULE XSub --------------------------------
(***************************************************************************)
(* xsub_t (xsub.cpp) and sub_t: the subscribing side.  Subscriptions are   *)
(* counted by a trie_t and sent upstream through a dist_t; what comes in,  *)
(* already fair-queued, is filtered.                                       *)
(*                                                                         *)
(* A pipe towards a publisher is full or not, open or closing; `upstream`  *)
(* is what its peer is subscribed to after reading everything written to   *)
(* the pipe.  A hiccup is the pipe's reconnection to a new peer.           *)
(***************************************************************************)
EXTENDS Dist, FiniteSetsExt

CONSTANTS
    Pipes, Topics,
    Filter, Invert, \* options.filter (TRUE for SUB) and options.invert_matching
    HiccupFull,     \* TRUE: pipes reconnect also while dist_t has them as full
    MaxCount,       \* bound: times a topic is subscribed to
    MaxFill,        \* bound: times a pipe becomes full
    MaxMsgs, MaxParts   \* bounds: messages that arrive, parts of each

NULL == "null"

VARIABLES
    dist, subscriptions,        \* _dist; the trie: how often a topic was added
    state, full, outActive,     \* of each pipe
    upstream, refused,  \* what the peer knows; something was refused by a full pipe
    fills,
    inbox,          \* parts that wait: [msg, part, last, topic]
    has_message, message, more, \* the members of xsub_t
    arrived, got    \* number of messages; the parts the application has got

pipeVars == <<state, full, outActive, upstream, refused, fills>>
recvVars == <<inbox, has_message, message, more, arrived, got>>
vars == <<dist, subscriptions, state, full, outActive, upstream, refused, fills,
          inbox, has_message, message, more, arrived, got>>

Init ==
    /\ dist = NewDist /\ subscriptions = [t \in Topics |-> 0]
    /\ state = [p \in Pipes |-> "new"]
    /\ full = [p \in Pipes |-> FALSE] /\ outActive = [p \in Pipes |-> TRUE]
    /\ upstream = [p \in Pipes |-> {}] /\ refused = [p \in Pipes |-> FALSE]
    /\ fills = 0
    /\ inbox = <<>> /\ has_message = FALSE /\ message = NULL /\ more = FALSE
    /\ arrived = 0 /\ got = <<>>

Subscribed == {t \in Topics : subscriptions[t] > 0}
Writable(p) == state[p] = "open" /\ outActive[p] /\ ~full[p]
Takers == {p \in Pipes : Writable(p)}

-----------------------------------------------------------------------------
(* Upstream *)

\* send_subscription() for every topic: what fits below the watermark is sent.
\* At the first that does not the pipe is full, which dist_t is not told.
tell(p, fits) ==
    /\ upstream' = [upstream EXCEPT ![p] = fits]
    /\ full' = [full EXCEPT ![p] = fits # Subscribed]
    /\ outActive' = [outActive EXCEPT ![p] = fits = Subscribed]
    /\ refused' = [refused EXCEPT ![p] = fits # Subscribed]

\* xattach_pipe(): the new peer is told the subscriptions.
attach(p) ==
    /\ state[p] = "new"
    /\ state' = [state EXCEPT ![p] = "open"]
    /\ dist' = dist_attach(dist, p)
    /\ \E fits \in SUBSET Subscribed : tell(p, fits)
    /\ UNCHANGED <<subscriptions, fills, recvVars>>

\* pipe_t::process_hiccup() opens a new pipe, without a word to dist_t, and
\* xhiccuped() sends the subscriptions again.
hiccuped(p) ==
    /\ state[p] = "open" /\ (outActive[p] \/ p \in First(dist, dist.active) \/ HiccupFull)
    /\ \E fits \in SUBSET Subscribed : tell(p, fits)
    /\ UNCHANGED <<dist, subscriptions, state, fills, recvVars>>

\* dist_t::send_to_all() with a subscription message, by which those who
\* get it add or remove topics.
SendToAll(added, removed) ==
    \E e \in {dist_send_to_all(dist, Takers, FALSE)} :
    LET took == First(e, e.matching)
        tried == First(dist, dist.active)
    IN  /\ dist' = e
        /\ upstream' = [p \in Pipes |-> IF p \in took THEN (upstream[p] \cup added) \ removed
                                       ELSE upstream[p]]
        /\ refused' = [p \in Pipes |-> refused[p] \/ (full[p] /\ state[p] = "open")]
        /\ outActive' = [p \in Pipes |-> outActive[p] /\ ~(p \in tried \ took /\ state[p] = "open")]

\* xsend() of a subscription, or sub_t::xsetsockopt(ZMQ_SUBSCRIBE)
Subscribe(t) ==
    /\ subscriptions[t] < MaxCount
    /\ subscriptions' = [subscriptions EXCEPT ![t] = @ + 1]
    /\ SendToAll({t}, {})
    /\ UNCHANGED <<state, full, fills, recvVars>>

\* A plausible slip in rm.
rm_any(t) == subscriptions[t] > 0

\* trie_t::rm() says whether the last one was removed.
rm(t) == subscriptions[t] = 1

\* xsend() of a cancellation: only the last one goes upstream.
Unsubscribe(t) ==
    /\ subscriptions' = [subscriptions EXCEPT ![t] = IF @ = 0 THEN 0 ELSE @ - 1]
    /\ IF rm(t) THEN SendToAll({}, {t})
       ELSE UNCHANGED <<dist, upstream, refused, outActive>>
    /\ UNCHANGED <<state, full, fills, recvVars>>

\* pipe_t::process_activate_write() and xwrite_activated()
activated(p) ==
    /\ state[p] = "open" /\ full[p]
    /\ full' = [full EXCEPT ![p] = FALSE]
    /\ outActive' = [outActive EXCEPT ![p] = TRUE]
    /\ dist' = IF outActive[p] THEN dist ELSE dist_activated(dist, p)
    /\ UNCHANGED <<subscriptions, state, upstream, refused, fills, recvVars>>

Closing(p) ==
    /\ state[p] = "open"
    /\ state' = [state EXCEPT ![p] = "closing"]
    /\ UNCHANGED <<dist, subscriptions, full, outActive, upstream, refused, fills, recvVars>>

pipe_terminated(p) ==
    /\ state[p] = "closing"
    /\ state' = [state EXCEPT ![p] = "done"]
    /\ dist' = dist_pipe_terminated(dist, p)
    /\ UNCHANGED <<subscriptions, full, outActive, upstream, refused, fills, recvVars>>

\* The messages in a pipe reach its high watermark.
Fill(p) ==
    /\ state[p] = "open" /\ ~full[p] /\ fills < MaxFill
    /\ full' = [full EXCEPT ![p] = TRUE] /\ fills' = fills + 1
    /\ UNCHANGED <<dist, subscriptions, state, outActive, upstream, refused, recvVars>>

-----------------------------------------------------------------------------
(* Downstream *)

\* A message of n parts can be read from the pipes.
Arrive(t, n) ==
    /\ arrived < MaxMsgs
    /\ arrived' = arrived + 1
    /\ inbox' = inbox \o [k \in 1 .. n |-> [msg |-> arrived + 1, part |-> k, last |-> k = n, topic |-> t]]
    /\ UNCHANGED <<dist, subscriptions, pipeVars, has_message, message, more, got>>

\* xsub_t::match(): trie_t::check() on the first part.
match(m) == ~Filter \/ ((\E t \in Subscribed : IsPrefix(t, m.topic)) # Invert)

\* The loops of xrecv() and xhas_in(): messages that do not match are read to
\* their end and forgotten.
Filtered ==
    LET wanted == {i \in 1 .. Len(inbox) : inbox[i].part = 1 /\ match(inbox[i])}
    IN  IF wanted = {} THEN <<>> ELSE SubSeq(inbox, Min(wanted), Len(inbox))

\* The application gets a part.
Deliver(m) == got' = Append(got, m) /\ more' = ~m.last

\* xrecv() of the message that a has_in() has put aside.
RecvPrefetched ==
    /\ has_message
    /\ Deliver(message)
    /\ has_message' = FALSE
    /\ UNCHANGED <<dist, subscriptions, pipeVars, inbox, message, arrived>>

\* xrecv() of the rest of a message, which is not filtered.
RecvRest ==
    /\ ~has_message /\ more /\ inbox # <<>>
    /\ Deliver(Head(inbox)) /\ inbox' = Tail(inbox)
    /\ UNCHANGED <<dist, subscriptions, pipeVars, has_message, message, arrived>>

\* xrecv() of a new message, or EAGAIN.
RecvNew ==
    /\ ~has_message /\ ~more
    /\ IF Filtered = <<>> THEN inbox' = <<>> /\ UNCHANGED <<got, more>>
       ELSE Deliver(Head(Filtered)) /\ inbox' = Tail(Filtered)
    /\ UNCHANGED <<dist, subscriptions, pipeVars, has_message, message, arrived>>

\* xhas_in() looks for a message only between messages and if it has none.
Looks(m) == ~m /\ ~has_message

\* xhas_in(), asked by zmq_poll(): the first part is put aside.
xhas_in ==
    /\ Looks(more)
    /\ IF Filtered = <<>> THEN inbox' = <<>> /\ UNCHANGED <<has_message, message>>
       ELSE has_message' = TRUE /\ message' = Head(Filtered) /\ inbox' = Tail(Filtered)
    /\ UNCHANGED <<dist, subscriptions, pipeVars, more, arrived, got>>

-----------------------------------------------------------------------------
Next ==
    \/ \E p \in Pipes : attach(p) \/ hiccuped(p) \/ activated(p) \/ Closing(p)
                        \/ pipe_terminated(p) \/ Fill(p)
    \/ \E t \in Topics : Subscribe(t) \/ Unsubscribe(t)
    \/ \E t \in Topics, n \in 1 .. MaxParts : Arrive(t, n)
    \/ RecvPrefetched \/ RecvRest \/ RecvNew \/ xhas_in

Spec == Init /\ [][Next]_vars

-----------------------------------------------------------------------------
(* Properties *)

\* zmq_setsockopt(3) on ZMQ_SUBSCRIBE: every publisher knows exactly what this
\* socket is subscribed to, unless its pipe was full when a subscription or a
\* cancellation was sent; whoever comes, goes, reconnects or drains meanwhile.
UpstreamKnows ==
    \A p \in Pipes : state[p] = "open" /\ ~refused[p] => upstream[p] = Subscribed

\* Filtering, zmq_poll() and changes of the subscriptions between the parts
\* never cut a message: the application gets the parts of a message in order,
\* from the first one to the last.
PartsTogether ==
    \A i \in 1 .. Len(got) :
        IF i = 1 \/ got[i - 1].last THEN got[i].part = 1
        ELSE got[i].msg = got[i - 1].msg /\ got[i].part = got[i - 1].part + 1
=============================================================================
