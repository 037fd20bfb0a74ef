------------------------------- MODULE Codec -------------------------------
(***************************************************************************)
(* The codecs of the wire: encoder_base_t and decoder_base_t with the      *)
(* steps of v1_encoder_t, v2_encoder_t, raw_encoder_t and of their         *)
(* decoders, and the shared_message_memory_allocator that lets v2 and raw  *)
(* messages live in the receive buffer.                                    *)
(*                                                                         *)
(* An encoder turns messages into bytes, the connection hands them over in *)
(* pieces of any length, the decoder turns them back into messages that    *)
(* the application keeps for a while.  The sizes of the code are           *)
(* parameters, so that a small instance meets every boundary.              *)
(***************************************************************************)
EXTENDS Integers, Sequences, FiniteSets

CONSTANTS
    UCHAR_MAX,     \* largest size of one byte (255)
    LONG,          \* bytes of a long size (8)
    BUF,           \* bytes of a receive or send buffer (8192)
    max_vsm_size,  \* bytes a message holds itself (33)
    Buffers,       \* ids of receive buffers
    Traffics       \* sequence of [kind, msgs, max, zero_copy]

VARIABLES
    conf,   \* which of the Traffics this is
    enc,    \* the encoder
    wire,   \* bytes on their way
    dec,    \* the decoder, with the bytes the engine has yet to decode
    refs,   \* the counter of each receive buffer
    bufs,   \* the bytes of each receive buffer
    held,   \* messages the application has not closed
    seen    \* how many messages (raw: bytes) were decoded

vars == <<conf, enc, wire, dec, refs, bufs, held, seen>>

traffic == Traffics[conf]

MinOf(a, b) == IF a < b THEN a ELSE b
CeilDiv(a, b) == (a + b - 1) \div b

(* A message is [size, more, command]; byte j of the body of message i.    *)
Body(i) == [j \in 1 .. traffic.msgs[i].size |-> 1000 * i + j]

(* put_uint64 and get_uint64: most significant byte first.                 *)
put_uint64(n) == [k \in 1 .. LONG |-> (n \div 256 ^ (LONG - k)) % 256]
get_uint64[s \in Seq(0 .. 255)] ==
    IF s = <<>> THEN 0
    ELSE 256 * get_uint64[SubSeq(s, 1, Len(s) - 1)] + s[Len(s)]

(***************************************************************************)
(* Encoders.  An encoder record holds what is left to write of the current *)
(* step, the next step, _new_msg_flag, and the message in progress.        *)
(***************************************************************************)
Flag(b, v) == IF b THEN v ELSE 0

v1_message_ready(m) ==
    LET size == m.size + 1
    IN IF size < UCHAR_MAX
       THEN <<size, Flag(m.more, 1)>>
       ELSE <<UCHAR_MAX>> \o put_uint64(size) \o <<Flag(m.more, 1)>>

v2_message_ready(m) ==
    LET large == m.size > UCHAR_MAX
        flags == Flag(m.more, 1) + Flag(large, 2) + Flag(m.command, 4)
    IN <<flags>> \o IF large THEN put_uint64(m.size) ELSE <<m.size>>

raw_message_ready(e) == [e EXCEPT !.to_write = Body(e.msg), !.new_msg = TRUE]
size_ready(e) == [e EXCEPT !.to_write = Body(e.msg), !.next = "message_ready", !.new_msg = TRUE]

(* The steps: message_ready writes the header, size_ready the body; a raw  *)
(* encoder has the body only.                                              *)
EncoderStep(e) ==
    LET m == traffic.msgs[e.msg]
    IN CASE traffic.kind = "raw" -> raw_message_ready(e)
         [] traffic.kind # "raw" /\ e.next = "message_ready" ->
              [e EXCEPT !.to_write = IF traffic.kind = "v1" THEN v1_message_ready(m)
                                                            ELSE v2_message_ready(m),
                        !.next = "size_ready", !.new_msg = FALSE]
         [] OTHER -> size_ready(e)

(* load_msg runs the first step of the next message.                       *)
load_msg(e) == EncoderStep([e EXCEPT !.msg = e.done + 1])

(* encode fills a buffer of "room" bytes: steps run until the buffer is    *)
(* full or the message is finished.  When the encoder provides the buffer  *)
(* ("own"), a step that fills it in one go is sent without being copied.   *)
RECURSIVE encode(_, _, _, _)
encode(e, pos, room, own) ==
    IF e.msg = 0 \/ Len(pos) >= room
    THEN [e |-> e, bytes |-> pos]
    ELSE IF e.to_write = <<>> /\ e.new_msg
    THEN [e |-> [e EXCEPT !.msg = 0, !.done = @ + 1], bytes |-> pos]
    ELSE LET s == IF e.to_write = <<>> THEN EncoderStep(e) ELSE e
             n == MinOf(Len(s.to_write), room - Len(pos))
         IN IF pos = <<>> /\ own /\ Len(s.to_write) >= room
            THEN [e |-> [s EXCEPT !.to_write = <<>>], bytes |-> s.to_write]
            ELSE encode([s EXCEPT !.to_write = SubSeq(@, n + 1, Len(@))],
                        pos \o SubSeq(s.to_write, 1, n), room, own)

(* The batching loop of stream_engine_t::out_event: it first goes on with  *)
(* the message in progress, then loads messages until the batch is full.   *)
RECURSIVE FillBatch(_, _, _)
FillBatch(e, out, own) ==
    IF Len(out) >= BUF \/ e.done = Len(traffic.msgs)
    THEN [e |-> e, bytes |-> out]
    ELSE LET r == encode(load_msg(e), <<>>, BUF - Len(out), own)
         IN FillBatch(r.e, out \o r.bytes, FALSE)

out_event(e) ==
    LET r == encode(e, <<>>, BUF, TRUE)
    IN FillBatch(r.e, r.bytes, e.msg = 0)

(***************************************************************************)
(* The allocator of the receive buffers.  refs[b] is the counter at the    *)
(* head of buffer b, 0 when b is not allocated; the decoder's _buf is 0    *)
(* when it has none.  A v1 decoder has a buffer for itself, which is a     *)
(* buffer no message ever refers to.                                       *)
(***************************************************************************)
Fresh(r) == CHOOSE b \in Buffers : r[b] = 0

max_counters == IF traffic.kind = "raw" THEN 1 ELSE CeilDiv(BUF, max_vsm_size)

call_dec_ref(r, b) == IF b = 0 THEN r ELSE [r EXCEPT ![b] = @ - 1]

\* A plausible slip: the buffer is taken again while messages live in it.
allocate_reuses(d, r) ==
    LET left == call_dec_ref(r, d.buf)
        b == IF d.buf # 0 THEN d.buf ELSE Fresh(left)
    IN [d |-> [d EXCEPT !.buf = b, !.size = BUF, !.slots = 0],
        r |-> [left EXCEPT ![b] = 1]]

(* allocate gives up the decoder's reference: a buffer that messages still *)
(* use is left to them, any other is used again.                           *)
allocate(d, r) ==
    LET left == call_dec_ref(r, d.buf)
        keeps == d.buf # 0 /\ left[d.buf] = 0
        b == IF keeps THEN d.buf ELSE Fresh(left)
    IN [d |-> [d EXCEPT !.buf = b, !.size = BUF, !.slots = 0],
        r |-> [left EXCEPT ![b] = 1]]

(***************************************************************************)
(* Decoders.  A decoder record: the step, how much is left to read in it,  *)
(* the bytes of the header so far, the message in progress (its size, its  *)
(* flags, its bytes or, when it lives in a buffer, where), the allocator's *)
(* buffer, size and content slots in use, the engine's input (how much of  *)
(* the buffer is consumed and how much is left), the outcome.              *)
(***************************************************************************)
Message(no, size) ==
    [no |-> no, size |-> size, more |-> FALSE, command |-> FALSE,
     bytes |-> <<>>, buf |-> 0, at |-> 0]

next_step(d, n, step) == [d EXCEPT !.to_read = n, !.step = step, !.tmp = <<>>]
Refused(d, errno) == [d EXCEPT !.rc = -1, !.errno = errno]
TooLong(n) == traffic.max >= 0 /\ n > traffic.max

(* size_ready of v2: a message that is in the buffer in full stays there,  *)
(* unless it is small enough for the message to hold.                      *)
v2_size_ready(d, n) ==
    LET zc == traffic.zero_copy /\ n <= d.size - d.inpos /\ n >= max_vsm_size
        m == [d.msg EXCEPT !.size = n, !.bytes = <<>>, !.buf = IF zc THEN d.buf ELSE 0,
                           !.at = IF zc THEN d.inpos ELSE 0]
    IN IF TooLong(n) THEN Refused(d, "EMSGSIZE")
       ELSE next_step([d EXCEPT !.msg = m, !.slots = @ + Flag(zc, 1)], n, "message_ready")

v1_size_ready(d, n) ==
    CASE n = 0 -> Refused(d, "EPROTO")
      [] n > 0 /\ TooLong(n - 1) -> Refused(d, "EMSGSIZE")
      [] OTHER -> next_step([d EXCEPT !.msg.size = n - 1, !.msg.bytes = <<>>], 1, "flags_ready")

message_ready(d) ==
    [next_step(d, 1, IF traffic.kind = "v1" THEN "one_byte_size_ready" ELSE "flags_ready")
       EXCEPT !.rc = 1]

v1_one_byte_size_ready(d) ==
    IF d.tmp[1] = UCHAR_MAX THEN next_step(d, LONG, "eight_byte_size_ready")
                            ELSE v1_size_ready(d, d.tmp[1])

v1_flags_ready(d) ==
    next_step([d EXCEPT !.msg.more = d.tmp[1] % 2 = 1], d.msg.size, "message_ready")

v1_step(d) ==
    CASE d.step = "message_ready" -> message_ready(d)
      [] d.step = "flags_ready" -> v1_flags_ready(d)
      [] d.step = "one_byte_size_ready" -> v1_one_byte_size_ready(d)
      [] d.step = "eight_byte_size_ready" -> v1_size_ready(d, get_uint64[d.tmp])

v2_flags_ready(d) ==
    LET b == d.tmp[1]
        flagged == [d EXCEPT !.msg.more = b % 2 = 1, !.msg.command = (b \div 4) % 2 = 1]
    IN IF (b \div 2) % 2 = 1 THEN next_step(flagged, LONG, "eight_byte_size_ready")
                             ELSE next_step(flagged, 1, "one_byte_size_ready")

v2_step(d) ==
    CASE d.step = "message_ready" -> message_ready(d)
      [] d.step = "flags_ready" -> v2_flags_ready(d)
      [] d.step = "one_byte_size_ready" -> v2_size_ready(d, d.tmp[1])
      [] d.step = "eight_byte_size_ready" -> v2_size_ready(d, get_uint64[d.tmp])

(* The steps that need no more bytes run at once, until one completes or   *)
(* refuses a message.                                                      *)
RECURSIVE RunSteps(_)
RunSteps(d) ==
    IF d.to_read # 0 \/ d.rc # 0 THEN d
    ELSE RunSteps(IF traffic.kind = "v1" THEN v1_step(d) ELSE v2_step(d))

Consumed(d, bytes) ==
    LET n == Len(bytes)
        c == [d EXCEPT !.to_read = @ - n, !.inpos = @ + n, !.insize = @ - n]
    IN CASE d.step = "message_ready" /\ d.msg.buf = 0 -> [c EXCEPT !.msg.bytes = @ \o bytes]
         [] d.step = "message_ready" /\ d.msg.buf # 0 -> c
         [] OTHER -> [c EXCEPT !.tmp = @ \o bytes]

(* decoder_base_t::decode over the bytes of the buffer.                    *)
RECURSIVE decode(_)
decode(d) ==
    IF d.insize = 0 \/ d.rc # 0 THEN d
    ELSE LET n == MinOf(d.to_read, d.insize)
         IN decode(RunSteps(Consumed(d, SubSeq(bufs[d.buf], d.inpos + 1, d.inpos + n))))

(* raw_decoder_t::decode: all of the input is one message; a message that  *)
(* lives in the buffer takes the buffer over.                              *)
raw_decode(d) ==
    LET zc == d.insize >= max_vsm_size
        m == [Message(seen, d.insize) EXCEPT
                !.bytes = IF zc THEN <<>> ELSE SubSeq(bufs[d.buf], 1, d.insize),
                !.buf = IF zc THEN d.buf ELSE 0]
    IN [d EXCEPT !.msg = m, !.rc = 1, !.insize = 0, !.buf = IF zc THEN 0 ELSE @,
                 !.slots = Flag(zc, 1)]

(***************************************************************************)
(* The specification.                                                      *)
(***************************************************************************)
encoder == [msg |-> 0, done |-> 0, to_write |-> <<>>, next |-> "message_ready", new_msg |-> TRUE]

decoder ==
    [step |-> IF traffic.kind = "v1" THEN "one_byte_size_ready" ELSE "flags_ready",
     to_read |-> 1, tmp |-> <<>>, msg |-> Message(0, 0), buf |-> 0, size |-> 0, slots |-> 0,
     inpos |-> 0, insize |-> 0, rc |-> 0, errno |-> "none"]

Init ==
    /\ conf \in DOMAIN Traffics
    /\ enc = encoder
    /\ wire = <<>>
    /\ dec = decoder
    /\ refs = [b \in Buffers |-> 0]
    /\ bufs = [b \in Buffers |-> <<>>]
    /\ held = {}
    /\ seen = 0

(* The engine of the sender writes a batch.                                *)
Produce ==
    /\ enc.done < Len(traffic.msgs)
    /\ Len(wire) < BUF
    /\ \E r \in {out_event(enc)} :
         /\ enc' = r.e
         /\ wire' = wire \o r.bytes
    /\ UNCHANGED <<conf, dec, refs, bufs, held, seen>>

Room == \E b \in Buffers : refs[b] = 0

(* The engine of the receiver gets a buffer and reads n bytes into it and  *)
(* tells the allocator how much of it is filled.                           *)
ReadBuffer(n) ==
    \E a \in {allocate(dec, refs)} :
        /\ dec' = [a.d EXCEPT !.inpos = 0, !.insize = n, !.size = n]
        /\ refs' = a.r
        /\ bufs' = [bufs EXCEPT ![a.d.buf] = SubSeq(wire, 1, n)]

(* When more than a buffer is missing of a message, the read goes into the *)
(* message itself.                                                         *)
ReadDirect(n) ==
    \E a \in {allocate(dec, refs)} :
        \E d \in {RunSteps([a.d EXCEPT !.to_read = @ - n, !.size = n,
                                       !.msg.bytes = @ \o SubSeq(wire, 1, n)])} :
            /\ dec' = d
            /\ refs' = a.r
            /\ bufs' = bufs

Direct == traffic.kind # "raw" /\ dec.to_read >= BUF

Read ==
    /\ dec.rc = 0
    /\ dec.insize = 0
    /\ Room
    /\ \/ \E n \in 1 .. MinOf(Len(wire), BUF) :
            /\ ~Direct
            /\ ReadBuffer(n)
            /\ wire' = SubSeq(wire, n + 1, Len(wire))
       \/ \E n \in 1 .. MinOf(Len(wire), dec.to_read) :
            /\ Direct
            /\ ReadDirect(n)
            /\ wire' = SubSeq(wire, n + 1, Len(wire))
    /\ UNCHANGED <<conf, enc, held, seen>>

(* One call of decode.  The session may refuse the message that it yields, *)
(* and the engine then leaves the rest of the buffer for later.            *)
Decode ==
    /\ dec.rc = 0
    /\ dec.insize > 0
    /\ \E d \in {IF traffic.kind = "raw" THEN raw_decode(dec) ELSE decode(dec)} :
         /\ dec' = d
         /\ refs' = IF traffic.kind = "v2" /\ d.rc = 1 /\ d.msg.buf # 0
                    THEN [refs EXCEPT ![d.msg.buf] = @ + 1] ELSE refs
    /\ UNCHANGED <<conf, enc, wire, bufs, held, seen>>

(* The session takes the message that is ready.                            *)
Push ==
    /\ dec.rc = 1
    /\ held' = held \cup {[dec.msg EXCEPT !.no = seen]}
    /\ seen' = seen + IF traffic.kind = "raw" THEN dec.msg.size ELSE 1
    /\ dec' = [dec EXCEPT !.rc = 0, !.msg = Message(0, 0)]
    /\ UNCHANGED <<conf, enc, wire, refs, bufs>>

(* The application closes a message; the last user of a buffer frees it.   *)
Close ==
    \E m \in held :
        /\ held' = held \ {m}
        /\ refs' = call_dec_ref(refs, m.buf)
        /\ UNCHANGED <<conf, enc, wire, dec, bufs, seen>>

Next == Produce \/ Read \/ Decode \/ Push \/ Close

Spec == Init /\ [][Next]_vars

(***************************************************************************)
(* Properties.                                                             *)
(***************************************************************************)
RECURSIVE Bodies(_)
Bodies(n) == IF n = 0 THEN <<>> ELSE Bodies(n - 1) \o Body(n)

Content(m) == IF m.buf = 0 THEN m.bytes ELSE SubSeq(bufs[m.buf], m.at + 1, m.at + m.size)

(* However the bytes are cut into reads, whatever sizes the messages have  *)
(* and however long the application keeps them, the n-th message it holds  *)
(* is the n-th message sent: flags, size and every byte, the bytes that    *)
(* were left in a receive buffer (v2_decoder_t::size_ready,                *)
(* raw_decoder_t::decode) included.  A raw decoder cuts the stream where   *)
(* the reads cut it.                                                       *)
HeldIsSent ==
    \A m \in held :
        IF traffic.kind = "raw"
        THEN Content(m) = SubSeq(Bodies(Len(traffic.msgs)), m.no + 1, m.no + m.size)
        ELSE LET sent == traffic.msgs[m.no + 1]
             IN /\ m.no < Len(traffic.msgs)
                /\ Content(m) = Body(m.no + 1)
                /\ m.more = sent.more
                /\ m.command = (sent.command /\ traffic.kind = "v2")

(* The decoder refuses a message exactly when it is longer than            *)
(* ZMQ_MAXMSGSIZE, it refuses nothing else, and once every byte is decoded *)
(* no message is missing.                                                  *)
RefusedIsTooLong ==
    /\ dec.rc = -1 => /\ dec.errno = "EMSGSIZE"
                      /\ TooLong(traffic.msgs[seen + 1].size)
    /\ traffic.kind # "raw" => \A i \in 1 .. seen : ~TooLong(traffic.msgs[i].size)
    /\ (enc.done = Len(traffic.msgs) /\ wire = <<>> /\ dec.insize = 0 /\ dec.rc = 0) =>
         seen = IF traffic.kind = "raw" THEN Len(Bodies(Len(traffic.msgs))) ELSE Len(traffic.msgs)

(* The counter of a receive buffer is the number of messages that live in  *)
(* it plus one for the decoder that may still write into it: a buffer is   *)
(* freed, or filled again, only when nobody reads it; and the content      *)
(* records behind the buffer, one per message, are never exhausted         *)
(* (shared_message_memory_allocator).                                      *)
BufferCounted ==
    /\ \A b \in Buffers :
         refs[b] = Cardinality({m \in held : m.buf = b})
                     + Flag(dec.buf = b, 1)
                     + Flag(dec.rc = 1 /\ dec.msg.buf = b, 1)
    /\ dec.slots <= max_counters

(* The three: the buffers are counted, what is decoded out of them is what *)
(* was encoded, and nothing is refused wrongly.                            *)
CodecRight == BufferCounted /\ HeldIsSent /\ RefusedIsTooLong
=============================================================================
