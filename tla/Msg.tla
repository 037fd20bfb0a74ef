-------------------------------- MODULE Msg --------------------------------
(***************************************************************************)
(* Messages that share their content: msg_t (msg.cpp) and metadata_t.      *)
(*                                                                         *)
(* A msg_t is a small struct that is copied freely, into pipes above all;  *)
(* a long message points to a content_t with a reference counter that is   *)
(* only maintained once the message is shared.  The msg_t structs of all   *)
(* threads are the Handles here; two handles are used concurrently, one    *)
(* handle by one thread at a time.  A message also points to the metadata  *)
(* of the engine that received it, which is counted too.                   *)
(*                                                                         *)
(* dist_t::distribute is the one user that prepares references first,      *)
(* copies the struct into several pipes and takes back the references of   *)
(* the pipes that were full; the readers of the pipes close their copies   *)
(* meanwhile.                                                              *)
(***************************************************************************)
EXTENDS Integers, FiniteSets

CONSTANTS
    Handles,    \* msg_t structs
    Contents,   \* addresses of content_t
    Metas,      \* addresses of metadata_t, one per engine
    Nil,        \* NULL
    MaxPipes    \* bound: pipes a message is distributed to

ASSUME MsgAssumption ==
    /\ IsFiniteSet(Handles)
    /\ Nil \notin Contents
    /\ Nil \notin Metas
    /\ MaxPipes \in Nat

VARIABLES
    type,     \* "closed", "small" (no content: vsm, cmsg, ...) or "long" (lmsg, zclmsg)
    content,  \* content[h] of a long message
    shared,   \* the flag msg_t::shared of a handle
    meta,     \* metadata of a handle
    refcnt,   \* content_t::refcnt
    live,     \* contents that are allocated
    mrefs,    \* metadata_t::_ref_cnt; 0: deleted
    engine,   \* engines that still hold their metadata
    hand,     \* the message dist_t::distribute is sending: [content, shared]
    rest,     \* pipes it has not tried yet
    owed      \* references it has not handed over

vars == <<type, content, shared, meta, refcnt, live, mrefs, engine, hand, rest, owed>>

Idle == [content |-> Nil, shared |-> FALSE, busy |-> FALSE]

Init ==
    /\ type = [h \in Handles |-> "closed"]
    /\ content = [h \in Handles |-> Nil]
    /\ shared = [h \in Handles |-> FALSE]
    /\ meta = [h \in Handles |-> Nil]
    /\ refcnt = [c \in Contents |-> 0]
    /\ live = {}
    /\ mrefs = [m \in Metas |-> 1]
    /\ engine = Metas
    /\ hand = Idle
    /\ rest = 0
    /\ owed = 0

(* Close of what handle h refers to, as it enters close, move and copy:    *)
(* content that is not shared, or whose counter drops to zero, is freed.   *)
close_refcnt(h) ==
    IF type[h] = "long" /\ shared[h] THEN [refcnt EXCEPT ![content[h]] = @ - 1] ELSE refcnt

close_live(h) ==
    IF type[h] = "long" /\ (~shared[h] \/ refcnt[content[h]] = 1)
    THEN live \ {content[h]} ELSE live

drop_ref(h) == IF meta[h] # Nil THEN [mrefs EXCEPT ![meta[h]] = @ - 1] ELSE mrefs

Unused == UNCHANGED <<engine, hand, rest, owed>>

(* init, init_delimiter, init_join, init_leave, and init_size and          *)
(* init_data of what fits the struct or need not be freed.                 *)
init(h) ==
    /\ type[h] = "closed"
    /\ type' = [type EXCEPT ![h] = "small"]
    /\ UNCHANGED <<content, shared, meta, refcnt, live, mrefs>> /\ Unused

(* init_size, init_data and init_external_storage of a long message: the   *)
(* counter is constructed but not yet in use.                              *)
init_size(h) ==
    /\ type[h] = "closed"
    /\ \E c \in Contents \ live :
         /\ type' = [type EXCEPT ![h] = "long"]
         /\ content' = [content EXCEPT ![h] = c]
         /\ shared' = [shared EXCEPT ![h] = FALSE]
         /\ refcnt' = [refcnt EXCEPT ![c] = 0]
         /\ live' = live \cup {c}
    /\ UNCHANGED <<meta, mrefs>> /\ Unused

close(h) ==
    /\ type[h] # "closed"
    /\ type' = [type EXCEPT ![h] = "closed"]
    /\ content' = [content EXCEPT ![h] = Nil]
    /\ shared' = [shared EXCEPT ![h] = FALSE]
    /\ meta' = [meta EXCEPT ![h] = Nil]
    /\ refcnt' = close_refcnt(h)
    /\ live' = close_live(h)
    /\ mrefs' = drop_ref(h)
    /\ Unused

(* move closes the destination, takes the struct over and leaves an empty  *)
(* message at the source.                                                  *)
move(d, s) ==
    /\ d # s
    /\ type[s] # "closed"
    /\ type[d] # "closed"
    /\ type' = [type EXCEPT ![d] = type[s], ![s] = "small"]
    /\ content' = [content EXCEPT ![d] = content[s], ![s] = Nil]
    /\ shared' = [shared EXCEPT ![d] = shared[s], ![s] = FALSE]
    /\ meta' = [meta EXCEPT ![d] = meta[s], ![s] = Nil]
    /\ refcnt' = close_refcnt(d)
    /\ live' = close_live(d)
    /\ mrefs' = drop_ref(d)
    /\ Unused

\* A plausible slip: the first copy counts as one reference.
copy_refcnt_first(s, r) ==
    CASE type[s] # "long" -> r
      [] type[s] = "long" /\ shared[s] -> [r EXCEPT ![content[s]] = @ + 1]
      [] type[s] = "long" /\ ~shared[s] -> [r EXCEPT ![content[s]] = 1]

(* What copy does to the counter of its source, after the destination was  *)
(* closed and r is left: content that was not shared has two users now.    *)
copy_refcnt(s, r) ==
    CASE type[s] # "long" -> r
      [] type[s] = "long" /\ shared[s] -> [r EXCEPT ![content[s]] = @ + 1]
      [] type[s] = "long" /\ ~shared[s] -> [r EXCEPT ![content[s]] = 2]

add_ref(s, r) == IF meta[s] # Nil THEN [r EXCEPT ![meta[s]] = @ + 1] ELSE r

copy(d, s) ==
    /\ d # s
    /\ type[s] # "closed"
    /\ type[d] # "closed"
    /\ type' = [type EXCEPT ![d] = type[s]]
    /\ content' = [content EXCEPT ![d] = content[s]]
    /\ shared' = [shared EXCEPT ![d] = type[s] = "long", ![s] = type[s] = "long"]
    /\ meta' = [meta EXCEPT ![d] = meta[s]]
    /\ refcnt' = copy_refcnt(s, close_refcnt(d))
    /\ live' = close_live(d)
    /\ mrefs' = add_ref(s, drop_ref(d))
    /\ Unused

(* The engine attaches its metadata to a message that has none; send       *)
(* detaches it (socket_base_t::send); an engine that goes drops its own    *)
(* reference.                                                              *)
set_metadata(h, m) ==
    /\ m \in engine
    /\ type[h] # "closed"
    /\ meta[h] = Nil
    /\ meta' = [meta EXCEPT ![h] = m]
    /\ mrefs' = [mrefs EXCEPT ![m] = @ + 1]
    /\ UNCHANGED <<type, content, shared, refcnt, live>> /\ Unused

reset_metadata(h) ==
    /\ meta[h] # Nil
    /\ meta' = [meta EXCEPT ![h] = Nil]
    /\ mrefs' = drop_ref(h)
    /\ UNCHANGED <<type, content, shared, refcnt, live>> /\ Unused

engine_gone(m) ==
    /\ m \in engine
    /\ engine' = engine \ {m}
    /\ mrefs' = [mrefs EXCEPT ![m] = @ - 1]
    /\ UNCHANGED <<type, content, shared, meta, refcnt, live, hand, rest, owed>>

(* distribute to n pipes, after send has detached the metadata: add_refs   *)
(* of n - 1, the writes, rm_refs of those that failed.  The source is an   *)
(* empty message in the end, and nobody sees it before.                    *)
add_refs(h, n) ==
    IF type[h] # "long" \/ n = 0 THEN refcnt
    ELSE IF shared[h] THEN [refcnt EXCEPT ![content[h]] = @ + n]
    ELSE [refcnt EXCEPT ![content[h]] = n + 1]

distribute(h, n) ==
    /\ ~hand.busy
    /\ type[h] = "long"
    /\ refcnt' = add_refs(h, n - 1)
    /\ hand' = [content |-> content[h], shared |-> shared[h] \/ n > 1, busy |-> TRUE]
    /\ rest' = n
    /\ owed' = n
    /\ type' = [type EXCEPT ![h] = "small"]
    /\ content' = [content EXCEPT ![h] = Nil]
    /\ shared' = [shared EXCEPT ![h] = FALSE]
    /\ meta' = [meta EXCEPT ![h] = Nil]
    /\ mrefs' = drop_ref(h)
    /\ UNCHANGED <<live, engine>>

(* The struct is copied into a slot of the pipe, which held no message.    *)
write(d) ==
    /\ rest > 0
    /\ type[d] = "closed"
    /\ type' = [type EXCEPT ![d] = "long"]
    /\ content' = [content EXCEPT ![d] = hand.content]
    /\ shared' = [shared EXCEPT ![d] = hand.shared]
    /\ rest' = rest - 1
    /\ owed' = owed - 1
    /\ UNCHANGED <<meta, refcnt, live, mrefs, engine, hand>>

write_failed ==
    /\ rest > 0
    /\ rest' = rest - 1
    /\ UNCHANGED <<type, content, shared, meta, refcnt, live, mrefs, engine, hand, owed>>

(* rm_refs: an unshared message is closed, a shared one loses the          *)
(* references and is freed with the last of them.                          *)
rm_refs(n) ==
    /\ refcnt' = IF n > 0 /\ hand.shared THEN [refcnt EXCEPT ![hand.content] = @ - n] ELSE refcnt
    /\ live' = IF n > 0 /\ (~hand.shared \/ refcnt[hand.content] = n)
               THEN live \ {hand.content} ELSE live

distributed ==
    /\ hand.busy
    /\ rest = 0
    /\ rm_refs(owed)
    /\ hand' = Idle
    /\ owed' = 0
    /\ UNCHANGED <<type, content, shared, meta, mrefs, engine, rest>>

Next ==
    \/ \E h \in Handles : init(h) \/ init_size(h) \/ close(h) \/ reset_metadata(h)
    \/ \E d, s \in Handles : move(d, s) \/ copy(d, s)
    \/ \E h \in Handles, m \in Metas : set_metadata(h, m)
    \/ \E m \in Metas : engine_gone(m)
    \/ \E h \in Handles, n \in 1 .. MaxPipes : distribute(h, n)
    \/ \E d \in Handles : write(d)
    \/ write_failed
    \/ distributed

Spec == Init /\ [][Next]_vars

(***************************************************************************)
(* Properties.                                                             *)
(***************************************************************************)
Count(f, v) == Cardinality({h \in Handles : f[h] = v})
Held(m) == IF m \in engine THEN 1 ELSE 0

TypeOK ==
    /\ type \in [Handles -> {"closed", "small", "long"}]
    /\ content \in [Handles -> Contents \cup {Nil}]
    /\ shared \in [Handles -> BOOLEAN]
    /\ meta \in [Handles -> Metas \cup {Nil}]
    /\ refcnt \in [Contents -> Int]
    /\ live \in SUBSET Contents
    /\ mrefs \in [Metas -> Int]
    /\ engine \in SUBSET Metas
    /\ hand \in [content : Contents \cup {Nil}, shared : BOOLEAN, busy : BOOLEAN]
    /\ rest \in Nat
    /\ owed \in Nat

(* c has n users, and they know it: n is its counter once it is shared.    *)
Counts(sh, r, n) == IF sh THEN r = n ELSE n = 1

Uses(f, k, o, c) == Count(f, c) + (IF k = c THEN o ELSE 0)

GoodAt(f, sh, r, k, ks, o, c) ==
    /\ Uses(f, k, o, c) > 0
    /\ \A h \in Handles : f[h] = c => Counts(sh[h], r[c], Uses(f, k, o, c))
    /\ k = c /\ o > 0 => Counts(ks, r[c], Uses(f, k, o, c))

(* What is allocated has a user, and exactly the counted number of them    *)
(* once it is shared; what has a user is allocated.                        *)
Good(f, sh, r, l, k, ks, o) ==
    /\ \A h \in Handles : f[h] # Nil => f[h] \in l
    /\ o > 0 => k \in l
    /\ \A c \in l : GoodAt(f, sh, r, k, ks, o, c)

(* msg_t::close and rm_refs free content exactly when its last copy goes,  *)
(* in whatever order the threads that hold copies close them, also while   *)
(* distribute still writes: content has a user as long as it is allocated, *)
(* and the counter of shared content is the number of its users, with the  *)
(* references distribute has yet to hand over.                             *)
ContentCounted ==
    /\ \A h \in Handles : content[h] # Nil <=> type[h] = "long"
    /\ hand.content # Nil <=> hand.busy
    /\ rest <= owed
    /\ ~hand.busy => owed = 0
    /\ Good(content, shared, refcnt, live, hand.content, hand.shared, owed)

(* Metadata lives as long as its engine or a message that refers to it,    *)
(* and is deleted by the last of them (metadata_t::drop_ref).              *)
MetadataCounted ==
    \A m \in Metas : mrefs[m] = Count(meta, m) + Held(m)

MsgInv == TypeOK /\ ContentCounted /\ MetadataCounted
=============================================================================
