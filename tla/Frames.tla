------------------------------- MODULE Frames -------------------------------
(* Frames on a byte stream (src/src/aura/protocol): the message bodies, the   *)
(* frame encoder and decoder of the reference protocol and of AWP 1, and the  *)
(* buffer of the TCP transport, which is fed chunks that begin and end        *)
(* anywhere.  The peer may speak another version, allow larger payloads or    *)
(* leave fields out; bytes may be damaged; a connection may end in the middle *)
(* of a frame and be followed by another.  Transport has the requests that    *)
(* wait for these frames.                                                     *)
(*                                                                            *)
(* The unit of the stream is a piece of a frame whose inside cuts are alike:  *)
(* magic and version, the rest of the header, one field of a body, a whole    *)
(* compressed body, a payload checksum.  A checksum finds every damage.       *)
EXTENDS Naturals, Sequences, SequencesExt, FiniteSets

CONSTANTS MaxPayload,       \* config.max_payload_bytes, in units
          MaxFrames,        \* bound: frames the peer sends in all
          MaxConns          \* bound: connections

\* ClientConfig has a limit of at least 64 bytes.
LimitsAreLimits == MaxPayload \in Nat \ {0} /\ MaxFrames \in Nat /\ MaxConns \in Nat

VARIABLES
    codec,      \* "aura" (TCPTransport) or "awp1" (the native backend)
    config,     \* the peer's: whether it sends checksums, and its compression
    conn,       \* how many connections there have been
    count,      \* how many frames the peer has sent on all of them
    sent,       \* frames the peer sent on this connection
    wire,       \* units on their way
    buffer,     \* units that arrived and are not consumed
    out,        \* frames handed out on this connection
    status,     \* "reading", "failed" at a frame, or "closed"
    over,       \* history: units in the buffer when this connection was made
    damaged     \* history: the last connection on which a unit was damaged, or 0

vars == <<codec, config, conn, count, sent, wire, buffer, out, status, over, damaged>>

-----------------------------------------------------------------------------
(* Message bodies: the fields of each with their defaults.                    *)

NoFields == [f \in {} |-> ""]

RequestBodies ==
    [HANDSHAKE |-> [client_version |-> "1", features |-> "[]", auth |-> "{}"],
     PING |-> [nonce |-> "0"],
     SCHEMA |-> NoFields,
     QUERY |-> [ir |-> "{}"],
     MUTATION |-> [ir |-> "{}"],
     CURSOR_FETCH |-> [cursor |-> "", batch_size |-> "1000"],
     CURSOR_CLOSE |-> [cursor |-> ""],
     BEGIN_TX |-> [action |-> "begin", isolation |-> "snapshot"]]
AnswerBodies ==
    [HANDSHAKE_ACK |-> [server_version |-> "1", features |-> "[]", compression |-> "[]"],
     PONG |-> [nonce |-> "0", server_version |-> "1"],
     SCHEMA_RESULT |-> [models |-> "[]"],
     QUERY_RESULT |-> [rows |-> "[]", count |-> "None", metadata |-> "{}"],
     MUTATION_RESULT |-> [affected |-> "0", returning |-> "[]"],
     ERROR |-> [code |-> "server_error", message |-> "", retryable |-> "False", context |-> "{}"],
     CURSOR_ACK |-> [cursor |-> "", status |-> "closed"],
     TX_ACK |-> [transaction_id |-> "0", status |-> "ok"]]
Bodies ==
    [opcode \in DOMAIN RequestBodies \cup DOMAIN AnswerBodies |->
        IF opcode \in DOMAIN RequestBodies THEN RequestBodies[opcode] ELSE AnswerBodies[opcode]]

\* to_payload leaves out a count that is None, and sorts the lists of a handshake.
ToPayload(m) ==
    {<<f, IF m[f] = "[b, a]" THEN "[a, b]" ELSE m[f]>> :
        f \in {g \in DOMAIN m : g = "count" => m[g] # "None"}}
\* from_payload gives a missing field its default and overlooks unknown ones.
FromPayload(opcode, payload) ==
    [f \in IF opcode \in DOMAIN Bodies THEN DOMAIN Bodies[opcode] ELSE {} |->
        IF \E p \in payload : p[1] = f THEN (CHOOSE p \in payload : p[1] = f)[2]
        ELSE Bodies[opcode][f]]

-----------------------------------------------------------------------------
(* The codecs.                                                                *)

KnownOpcodes == DOMAIN Bodies \cup {"STREAM_DATA", "STREAM_END", "COMMIT_TX", "ROLLBACK_TX"}
Compressions == {"none", "zlib"}

NoMeta == [crc |-> FALSE]
Unit(k, fields, version, meta, sum) ==
    [k |-> k, fields |-> fields, version |-> version, meta |-> meta, sum |-> sum]
Junk == Unit("junk", {}, 0, NoMeta, <<>>)

\* encode_body, and zlib.compress of a body that is not empty.
BodyUnits(payload, compress) ==
    IF compress /\ payload # {} THEN <<Unit("zlib", payload, 0, NoMeta, <<>>)>>
    ELSE [i \in 1..Cardinality(payload) |-> Unit("body", {SetToSeq(payload)[i]}, 0, NoMeta, <<>>)]

\* encode_frame; the peer chooses compression and checksum, AWP 1 always the second.
EncodeFrame(frame) ==
    LET body == BodyUnits(frame.payload, frame.compression = "zlib")
        meta == [opcode |-> frame.opcode, checksum |-> frame.checksum, length |-> Len(body), id |-> frame.id,
                 compression |-> IF frame.payload = {} /\ frame.compression = "zlib" THEN "none"
                                 ELSE frame.compression,
                 crc |-> TRUE]
    IN  <<Unit("magic", {}, frame.version, NoMeta, <<>>), Unit("header", {}, 0, meta, <<>>)>>
        \o body \o (IF frame.checksum THEN <<Unit("sum", {}, 0, NoMeta, body)>> ELSE <<>>)

Wait == [error |-> "", used |-> 0]
Fail(why) == [error |-> why, used |-> 0]

\* decode_body and from_payload of what was consumed as a body; what is not, is not
\* JSON, which the reader of the frame finds out, not the decoder.
Malformed == [malformed |-> ""]
ReadBody(opcode, body) ==
    IF \E i \in 1..Len(body) : body[i].k \notin {"body", "zlib"} THEN Malformed
    ELSE FromPayload(opcode, UNION {body[i].fields : i \in 1..Len(body)})

\* What follows the checks of the header in try_decode_frame and in AWP 1's decode_frame.
DecodeBody(data, meta) ==
    LET end == 2 + meta.length
        total == end + (IF meta.checksum THEN 1 ELSE 0)
        body == SubSeq(data, 3, end)
        zipped == codec = "aura" /\ meta.compression = "zlib"
    IN  IF Len(data) < total THEN Wait
        ELSE IF meta.checksum /\ (data[total].k # "sum" \/ data[total].sum # body) THEN Fail("payload checksum")
        ELSE IF zipped /\ body[1].k # "zlib" THEN Fail("decompress")
        ELSE [error |-> "", used |-> total,
              frame |-> [opcode |-> meta.opcode, id |-> meta.id, message |-> ReadBody(meta.opcode, body)]]

\* The header: try_decode_frame knows opcodes, a limit and compressions, AWP 1's
\* decode_header does not.
DecodeFrame(data) ==
    LET meta == data[2].meta IN
    IF Len(data) < 2 THEN Wait
    ELSE IF data[1].k # "magic" THEN Fail("magic")
    ELSE IF data[1].version # 1 THEN Fail("version")
    ELSE IF data[2].k # "header" \/ ~meta.crc THEN Fail("header checksum")
    ELSE IF codec = "aura" /\ meta.opcode \notin KnownOpcodes THEN Fail("opcode")
    ELSE IF codec = "aura" /\ meta.length > MaxPayload THEN Fail("length")
    ELSE IF codec = "aura" /\ meta.compression \notin Compressions THEN Fail("compression")
    ELSE DecodeBody(data, meta)

\* One round of _drain_buffer: the frame at the front comes out; one that is incomplete
\* or bad stays where it is.
Drained(s) ==
    LET d == DecodeFrame(s.rest) IN
    [rest |-> SubSeq(s.rest, d.used + 1, Len(s.rest)),
     frames |-> IF d.used = 0 THEN s.frames ELSE Append(s.frames, d.frame)]

\* A bug: one frame for each chunk.
DrainOnce(data) == Drained([rest |-> data, frames |-> <<>>])
\* _drain_buffer.  A frame has two units and more, so these are rounds enough.
Drain(data) ==
    LET rounds == Len(data) \div 2
        after[n \in 0..rounds] ==
            IF n = 0 THEN [rest |-> data, frames |-> <<>>] ELSE Drained(after[n - 1])
    IN  after[rounds]

-----------------------------------------------------------------------------

Init ==
    /\ codec \in {"aura", "awp1"}
    /\ config \in [checksum : BOOLEAN, compression : Compressions]
    /\ codec = "awp1" => config = [checksum |-> TRUE, compression |-> "none"]
    /\ conn = 1 /\ count = 0
    /\ sent = <<>> /\ wire = <<>> /\ buffer = <<>> /\ out = <<>>
    /\ status = "reading" /\ over = 0 /\ damaged = 0

\* What the peer says: nothing, less than the client knows, all of it, or much.
Hello == [opcode |-> "PONG", payload |-> {<<"nonce", "7">>}]
Answers ==
    {[opcode |-> "SCHEMA_RESULT", payload |-> {}],
     [opcode |-> "HANDSHAKE_ACK",
      payload |-> ToPayload([server_version |-> "2", features |-> "[b, a]"])],
     [opcode |-> "QUERY_RESULT",
      payload |-> ToPayload([rows |-> "[r]", count |-> "3", metadata |-> "{m}"])]}

\* The rest of a frame is ordinary, or one part of it is beyond this client.
Send(answer, odd) ==
    /\ status # "closed" /\ count < MaxFrames
    /\ LET frame == [opcode |-> IF odd = "opcode" THEN "?" ELSE answer.opcode,
                     payload |-> answer.payload, checksum |-> config.checksum,
                     compression |-> IF odd = "compression" THEN "?" ELSE config.compression,
                     version |-> IF odd = "version" THEN 2 ELSE 1,
                     id |-> count + 1]
       IN  /\ sent' = Append(sent, frame)
           /\ wire' = wire \o EncodeFrame(frame)
    /\ count' = count + 1
    /\ UNCHANGED <<codec, config, conn, buffer, out, status, over, damaged>>

\* _read_loop: a chunk of any length; a bad frame ends the loop, not the connection.
Chunk(n) ==
    /\ status = "reading" /\ n <= Len(wire)
    /\ LET d == Drain(buffer \o SubSeq(wire, 1, n)) IN
       /\ buffer' = d.rest
       /\ out' = out \o d.frames
       /\ status' = IF DecodeFrame(d.rest).error = "" THEN "reading" ELSE "failed"
    /\ wire' = SubSeq(wire, n + 1, Len(wire))
    /\ UNCHANGED <<codec, config, conn, count, sent, over, damaged>>

\* A unit on its way is damaged; bound: one on each connection.
Damage(i) ==
    /\ damaged # conn /\ i <= Len(wire)
    /\ wire' = [wire EXCEPT ![i] = Junk]
    /\ damaged' = conn
    /\ UNCHANGED <<codec, config, conn, count, sent, buffer, out, status, over>>

\* The peer closes, or the client does.
Close ==
    /\ status # "closed"
    /\ status' = "closed" /\ wire' = <<>>
    /\ UNCHANGED <<codec, config, conn, count, sent, buffer, out, over, damaged>>

\* connect: TCPTransport keeps its buffer, the native backend has a new reader.
Connect ==
    /\ status = "closed" /\ conn < MaxConns
    /\ conn' = conn + 1
    /\ buffer' = IF codec = "aura" THEN buffer ELSE <<>>
    /\ over' = Len(buffer')
    /\ status' = "reading"
    /\ sent' = <<>> /\ out' = <<>>
    /\ UNCHANGED <<codec, config, count, wire, damaged>>

Next ==
    \/ \E answer \in Answers : Send(answer, "")
    \/ \E odd \in {"version", "opcode", "compression"} : Send(Hello, odd)
    \/ \E n \in 1..Len(wire) : Chunk(n)
    \/ \E i \in 1..Len(wire) : Damage(i)
    \/ Close \/ Connect

Spec == Init /\ [][Next]_vars

-----------------------------------------------------------------------------

\* What this client takes as a frame.
Readable(f) ==
    /\ f.version = 1
    /\ codec = "aura" =>
         /\ f.opcode \in KnownOpcodes /\ f.compression \in Compressions
         /\ f.compression = "zlib" \/ Cardinality(f.payload) <= MaxPayload
Same(f, g) ==
    /\ f.opcode = g.opcode /\ f.id = g.id
    /\ \A p \in g.payload : f.opcode = "?" \/ f.message[p[1]] = p[2]
    /\ \A q \in DOMAIN f.message : (\A p \in g.payload : p[1] # q) => f.message[q] = Bodies[f.opcode][q]

\* On a connection that starts with an empty buffer the frames handed out are those
\* the peer sent, in its order and each once, wherever the chunks are cut, and their
\* messages have the fields that were sent and defaults for the rest.  Only a body
\* without a checksum can come out damaged, and it is then not JSON.
FramesInOrder ==
    over = 0 =>
        /\ Len(out) <= Len(sent)
        /\ \A i \in 1..Len(out) :
             IF out[i].message = Malformed THEN ~sent[i].checksum /\ damaged = conn /\ out[i].id = sent[i].id
             ELSE Same(out[i], sent[i])

\* The reader never waits for bytes that came, nor gives up at a good frame: if no
\* byte was damaged, then all that arrived whole is handed out, up to the first frame
\* beyond this client, and it has failed exactly if that one is next.
NoFrameIsStuck ==
    over = 0 /\ damaged # conn /\ wire = <<>> /\ status # "closed" =>
        LET good == {i \in 0..Len(sent) : \A j \in 1..i : Readable(sent[j])} IN
        /\ Len(out) = CHOOSE i \in good : \A j \in good : j <= i
        /\ status = "failed" <=> Len(out) < Len(sent)

\* What is left in the buffer of a closed connection costs the next one its first
\* frame, which is never handed out; the rest may still come.
LeftoversEatAFrame == over > 0 => \A i \in 1..Len(out) : out[i].id # sent[1].id

FramesAreSafe == FramesInOrder /\ NoFrameIsStuck /\ LeftoversEatAFrame

=============================================================================
