----------------------------- MODULE BodyReader -----------------------------
(***************************************************************************)
(* The byte-level readers of src/src/proxy.rs: read_head takes the head of *)
(* a message and whatever came with it, BufferedInput hands out that       *)
(* remainder and then the stream, read_request_body and read_chunked       *)
(* decode a body from it, has_immediate_extra looks for bytes behind it.   *)
(* A response delimited by its end is read by read_to_eof_bounded.         *)
(*                                                                         *)
(* The bytes are those of modules ChunkMetadata and Trailers.  How a head  *)
(* is parsed is not modelled: the framing and the Trailer fields are given *)
(* with the message.  The stream hands out the wire in order; a read gets  *)
(* any number of its next bytes, or the read timeout, or an error, or, at  *)
(* the end of the wire, the end of file.  The body-memory budget (module   *)
(* MemoryBudget) grants a charge or answers Busy.                          *)
(***************************************************************************)
EXTENDS Trailers

CONSTANTS
    MAX_HEAD_BYTES,       \* request line and header section together
    SCRATCH_BYTES,        \* the most one read of read_head returns (2048)
    CHUNK_LINE_LIMIT,     \* 4096
    MAX_BODY_BYTES,       \* max_request_body_bytes, max_response_body_bytes
    Messages              \* wire, framing and Trailer fields of what may be sent

\* The bytes of modules ChunkMetadata and Trailers.
Bytes == 0 .. Prefixed

ASSUME BodyReaderAssumption ==
    /\ {MAX_HEAD_BYTES, SCRATCH_BYTES, CHUNK_LINE_LIMIT, MAX_BODY_BYTES} \subseteq Nat \ {0}
    /\ \A m \in Messages : m.wire \in Seq(Bytes) /\ m.framing.length \in Nat

VARIABLES
    message,    \* the message being read: constant
    taken,      \* bytes of the wire taken out of the stream
    head,       \* read_head's bytes
    buffer,     \* BufferedInput's buffer and offset
    offset,
    pc,         \* what is being read
    output,     \* the bytes of the line or of the exact read under way
    need,       \* the length of the exact read
    section,    \* the trailer lines read so far
    decoded,    \* the body so far
    permit,     \* the bytes charged to the body-memory budget
    result      \* what the reader returned, none until then

source == <<taken, buffer, offset>>
body == <<section, decoded, permit>>
vars == <<message, source, head, pc, output, need, body, result>>

wire == message.wire
Crlf == <<CR, LF>>

\* find_sequence(bytes, b"\r\n\r\n"), as the length up to and with it, or 0.
HeadEnd(bytes) ==
    LET ends == {i \in 4 .. Len(bytes) : SubSeq(bytes, i - 3, i) = Crlf \o Crlf}
    IN  IF ends = {} THEN 0 ELSE Min(ends)

Init ==
    /\ message \in Messages
    /\ taken = 0 /\ head = <<>> /\ buffer = <<>> /\ offset = 0
    /\ pc = "head" /\ output = <<>> /\ need = 0
    /\ section = <<>> /\ decoded = <<>> /\ permit = 0
    /\ result = "none"

Return(answer) ==
    /\ pc' = "done"
    /\ result' = answer

buffered_len == Len(buffer) - offset

-----------------------------------------------------------------------------
\* read_head: one read of the loop, and what follows it.
ReadHead(count) ==
    LET bytes == head \o SubSeq(wire, taken + 1, taken + count)
        end == HeadEnd(bytes)
    IN  /\ pc = "head" /\ taken + count <= Len(wire)
        /\ taken' = taken + count
        /\ \/ /\ end = 0 /\ Len(bytes) <= MAX_HEAD_BYTES
              /\ head' = bytes
              /\ UNCHANGED <<buffer, pc, result>>
           \/ /\ end \in 1 .. MAX_HEAD_BYTES
              /\ head' = SubSeq(bytes, 1, end)
              /\ buffer' = SubSeq(bytes, end + 1, Len(bytes))
              /\ pc' = "begin"
              /\ UNCHANGED result
           \/ /\ end > MAX_HEAD_BYTES \/ (end = 0 /\ Len(bytes) > MAX_HEAD_BYTES)
              /\ head' = bytes
              /\ Return("TooLarge")
              /\ UNCHANGED buffer
        /\ UNCHANGED <<message, offset, output, need, body>>

\* read_exact_vec(length) up to its read of the stream: the buffer's part.
StartExact(length, goal) ==
    LET available == Min({buffered_len, length})
    IN  /\ output' = SubSeq(buffer, offset + 1, offset + available)
        /\ offset' = offset + available
        /\ need' = length
        /\ pc' = goal
        /\ UNCHANGED <<buffer, taken>>

\* read_request_body: the three framings, each with its first claim on the budget.
BeginNone ==
    /\ pc = "begin" /\ message.framing.kind = "None"
    /\ pc' = "extra"
    /\ UNCHANGED <<message, source, head, output, need, body, result>>

BeginLength ==
    /\ pc = "begin" /\ message.framing.kind = "ContentLength"
    /\ message.framing.length <= MAX_BODY_BYTES
    /\ permit' = message.framing.length
    /\ StartExact(message.framing.length, "length")
    /\ UNCHANGED <<message, head, section, decoded, result>>

\* reserve refuses; the claim of a body without a length is 0 bytes, which is
\* refused while a lowered limit is exceeded.
BeginBusy ==
    /\ pc = "begin"
    /\ message.framing.kind = "ContentLength" => message.framing.length <= MAX_BODY_BYTES
    /\ Return("Busy")
    /\ UNCHANGED <<message, source, head, output, need, body>>

BeginTooLong ==
    /\ pc = "begin" /\ message.framing.kind = "ContentLength"
    /\ message.framing.length > MAX_BODY_BYTES
    /\ Return("TooLarge")
    /\ UNCHANGED <<message, source, head, output, need, body>>

BeginChunked ==
    /\ pc = "begin" /\ message.framing.kind = "Chunked"
    /\ pc' = "line" /\ output' = <<>>
    /\ UNCHANGED <<message, source, head, need, body, result>>

-----------------------------------------------------------------------------
\* read_byte: the buffer first; a byte of the stream clears it.
NextByte(byte) ==
    \/ /\ offset < Len(buffer)
       /\ byte = buffer[offset + 1]
       /\ offset' = offset + 1
       /\ UNCHANGED <<buffer, taken>>
    \/ /\ offset >= Len(buffer) /\ taken < Len(wire)
       /\ byte = wire[taken + 1]
       /\ taken' = taken + 1
       /\ buffer' = <<>> /\ offset' = 0

\* read_line(max), its loop condition and its return; read_trailers passes
\* what is left of its own maximum, not below 0.
LineMax ==
    IF pc = "line" THEN CHUNK_LINE_LIMIT ELSE Max({SECTION_LIMIT - Len(section), 0})

Reading == pc \in {"line", "trailers"}
Complete == Len(output) >= 2 /\ SubSeq(output, Len(output) - 1, Len(output)) = Crlf

LineByte ==
    /\ Reading /\ ~Complete /\ Len(output) <= LineMax
    /\ \E byte \in ToSet(wire) : NextByte(byte) /\ output' = Append(output, byte)
    /\ UNCHANGED <<message, head, pc, need, body, result>>

LineTooLong ==
    /\ Reading /\ ~Complete /\ Len(output) > LineMax
    /\ Return("TooLarge")
    /\ UNCHANGED <<message, source, head, output, need, body>>

\* declared_trailers: the members of the Trailer fields, trimmed and lowered;
\* an empty one, or one that is not UTF-8, is an error (<<>> stands for both).
DeclaredTrailers(members) ==
    [i \in DOMAIN members |->
        IF ValidUtf8(members[i]) THEN Canonical(TrimPadding(members[i])) ELSE <<>>]

\* Agreement::run: the answer that all variants give, or a disagreement.
Agreed(answers, variant) ==
    IF \A v \in DOMAIN answers : answers[v] = answers[variant] THEN answers[variant]
    ELSE [tag |-> "Disagreement"]

\* Faulty variant: the sum is compared before this chunk is added.
ChunkFaultLate(meta) ==
    CASE meta.tag = "Disagreement" -> "Disagreement"
      [] meta.tag \in {"InvalidChunk", "LimitExceeded", "Incomplete"} -> "Protocol"
      [] OTHER -> IF Len(decoded) > MAX_BODY_BYTES THEN "TooLarge" ELSE "none"

\* The body of read_chunked's loop from the size line to the next read.
ChunkFault(meta) ==
    CASE meta.tag = "Disagreement" -> "Disagreement"
      [] meta.tag \in {"InvalidChunk", "LimitExceeded", "Incomplete"} -> "Protocol"
      [] OTHER -> IF meta.bytes_consumed # Len(output) THEN "Protocol"
                  ELSE IF Len(decoded) + meta.n > MAX_BODY_BYTES THEN "TooLarge" ELSE "none"

\* The line is parsed, then one of: a fault, the last chunk, a chunk that the
\* budget refuses, a chunk that is charged and whose data is read.
ChunkLine ==
    /\ pc = "line" /\ Complete
    /\ \E meta \in {Agreed(metas, "guarded_parts") : metas \in {ChunkMetadatas(output)}} :
          \/ /\ ChunkFault(meta) # "none"
             /\ Return(ChunkFault(meta))
             /\ UNCHANGED <<source, output, need, body>>
          \/ /\ ChunkFault(meta) = "none" /\ meta.n = 0
             /\ pc' = "trailers" /\ output' = <<>>
             /\ UNCHANGED <<source, need, body, result>>
          \/ /\ ChunkFault(meta) = "none" /\ meta.n > 0
             /\ Return("Busy")
             /\ UNCHANGED <<source, output, need, body>>
          \/ /\ ChunkFault(meta) = "none" /\ meta.n > 0
             /\ permit' = permit + meta.n
             /\ StartExact(meta.n, "data")
             /\ UNCHANGED <<section, decoded, result>>
    /\ UNCHANGED <<message, head>>

-----------------------------------------------------------------------------
\* read_exact: any number of the bytes still needed.
StreamBytes(count) ==
    /\ pc \in {"length", "data", "terminator"} /\ Len(output) + count <= need
    /\ taken + count <= Len(wire)
    /\ output' = output \o SubSeq(wire, taken + 1, taken + count)
    /\ taken' = taken + count
    /\ UNCHANGED <<message, buffer, offset, head, pc, need, body, result>>

\* What the exact read was for.
LengthRead ==
    /\ pc = "length" /\ Len(output) = need
    /\ decoded' = output /\ pc' = "extra"
    /\ UNCHANGED <<message, source, head, output, need, section, permit, result>>

DataRead ==
    /\ pc = "data" /\ Len(output) = need
    /\ decoded' = decoded \o output
    /\ StartExact(2, "terminator")
    /\ UNCHANGED <<message, head, section, permit, result>>

\* Faulty variant: what stands in the place of the terminator is not looked at.
TerminatorUnread ==
    /\ pc = "terminator" /\ Len(output) = need
    /\ pc' = "line" /\ output' = <<>>
    /\ UNCHANGED <<message, source, head, need, body, result>>

TerminatorRead ==
    /\ pc = "terminator" /\ Len(output) = need
    /\ \/ /\ output = Crlf
          /\ pc' = "line" /\ output' = <<>>
          /\ UNCHANGED result
       \/ /\ output # Crlf
          /\ Return("Protocol")
          /\ UNCHANGED output
    /\ UNCHANGED <<message, source, head, need, body>>

\* A line of read_trailers, and after the empty one the end of read_chunked.
TrailerFault(block, declared, size) ==
    IF <<>> \in ToSet(declared) THEN "Protocol"
    ELSE IF block.tag = "Disagreement" THEN "Disagreement"
    ELSE IF block.tag # "TrailerBlock" \/ block.bytes_consumed # size THEN "Protocol"
    ELSE "none"

TrailerLine ==
    /\ pc = "trailers" /\ Complete
    /\ \E lines \in {section \o output}, declared \in {DeclaredTrailers(message.trailers)} :
          /\ section' = lines /\ output' = <<>>
          /\ \/ Len(lines) > SECTION_LIMIT /\ Return("TooLarge")
             \/ Len(lines) <= SECTION_LIMIT /\ output # Crlf /\ UNCHANGED <<pc, result>>
             \/ /\ Len(lines) <= SECTION_LIMIT /\ output = Crlf
                /\ \E block \in {Agreed(blocks, "direct_table") :
                                   blocks \in {TrailerSections(lines, declared)}} :
                      \/ TrailerFault(block, declared, Len(lines)) = "none" /\ pc' = "extra" /\ UNCHANGED result
                      \/ /\ TrailerFault(block, declared, Len(lines)) # "none"
                         /\ Return(TrailerFault(block, declared, Len(lines)))
    /\ UNCHANGED <<message, source, head, need, decoded, permit>>

-----------------------------------------------------------------------------
\* has_immediate_extra: what is left in the buffer counts, and what the stream
\* holds at this moment; later bytes belong to the next message.
ImmediateExtra ==
    /\ pc = "extra" /\ (buffered_len # 0 \/ taken < Len(wire))
    /\ Return("Protocol")
    /\ UNCHANGED <<message, source, head, output, need, body>>

NoImmediateExtra ==
    /\ pc = "extra" /\ buffered_len = 0
    /\ Return("Ok")
    /\ UNCHANGED <<message, source, head, output, need, body>>

\* read_to_eof_bounded: what came with the head is copied, and only then is its
\* length checked and charged; grow may refuse.  Then read until the end of file.
BeginEof ==
    /\ pc = "begin" /\ message.framing.kind = "Close"
    /\ decoded' = SubSeq(buffer, offset + 1, Len(buffer)) /\ pc' = "remainder"
    /\ UNCHANGED <<message, source, head, output, need, section, permit, result>>

ChargeRemainder ==
    /\ pc = "remainder"
    /\ \/ /\ Len(decoded) <= MAX_BODY_BYTES
          /\ permit' = permit + Len(decoded) /\ pc' = "eof"
          /\ UNCHANGED result
       \/ /\ Len(decoded) <= MAX_BODY_BYTES
          /\ Return("Busy")
          /\ UNCHANGED permit
       \/ /\ Len(decoded) > MAX_BODY_BYTES
          /\ Return("Upstream")
          /\ UNCHANGED permit
    /\ UNCHANGED <<message, source, head, output, need, section, decoded>>

EofBytes(count) ==
    /\ pc = "eof" /\ taken + count <= Len(wire)
    /\ taken' = taken + count
    /\ \/ /\ Len(decoded) + count <= MAX_BODY_BYTES
          /\ permit' = permit + count
          /\ decoded' = decoded \o SubSeq(wire, taken + 1, taken + count)
          /\ UNCHANGED <<pc, result>>
       \/ /\ Len(decoded) + count <= MAX_BODY_BYTES
          /\ Return("Busy")
          /\ UNCHANGED <<permit, decoded>>
       \/ /\ Len(decoded) + count > MAX_BODY_BYTES
          /\ Return("Upstream")
          /\ UNCHANGED <<permit, decoded>>
    /\ UNCHANGED <<message, buffer, offset, head, output, need, section>>

EndOfFile ==
    /\ pc = "eof" /\ taken = Len(wire)
    /\ Return("Ok")
    /\ UNCHANGED <<message, source, head, output, need, body>>

-----------------------------------------------------------------------------
\* A read of the stream is under way.
Blocked ==
    \/ pc \in {"head", "eof"}
    \/ pc \in {"length", "data", "terminator"} /\ Len(output) < need
    \/ Reading /\ ~Complete /\ Len(output) <= LineMax /\ offset >= Len(buffer)

\* The socket's read timeout.
ReadTimeout ==
    /\ Blocked
    /\ Return("Timeout")
    /\ UNCHANGED <<message, source, head, output, need, body>>

\* The end of file, where it is not an answer, or any other error; map_client_io.
\* A head that has not begun may end in both ways.  The look for more bytes can
\* fail too.
StreamFails ==
    /\ Blocked \/ pc = "extra"
    /\ \/ pc = "head" /\ head = <<>> /\ Return("ClientClosed")
       \/ pc # "eof" /\ Return("ClientIo")
       \/ pc = "eof" /\ Return("Upstream")
    /\ UNCHANGED <<message, source, head, output, need, body>>

\* The reader has returned; before that it is never stuck, which TLC checks as
\* the absence of deadlocks.
Returned ==
    /\ pc = "done"
    /\ UNCHANGED vars

Next ==
    \/ \E count \in 1 .. SCRATCH_BYTES : ReadHead(count)
    \/ BeginNone \/ BeginLength \/ BeginBusy \/ BeginTooLong \/ BeginChunked
    \/ LineByte \/ LineTooLong \/ ChunkLine
    \/ \E count \in 1 .. MAX_BODY_BYTES : StreamBytes(count)
    \/ LengthRead \/ DataRead \/ TerminatorRead \/ TrailerLine
    \/ ImmediateExtra \/ NoImmediateExtra
    \/ BeginEof \/ ChargeRemainder
    \/ \E count \in 1 .. SCRATCH_BYTES : EofBytes(count)
    \/ EndOfFile \/ ReadTimeout \/ StreamFails
    \/ Returned

Spec == Init /\ [][Next]_vars

-----------------------------------------------------------------------------
\* The coding itself, from a whole text and with no buffer: chunk after chunk
\* while at is the start of one, up to end, the last byte of the message, which
\* stays 0 when there is none.
Dechunked(text, declared) ==
    LET lineEnd(i) == {j \in i + 1 .. Len(text) : SubSeq(text, j - 1, j) = Crlf}
        chunk(state, end, size) ==
            IF SubSeq(text, end + size + 1, end + size + 2) # Crlf THEN [state EXCEPT !.at = 0]
            ELSE [state EXCEPT !.at = end + size + 3, !.content = @ \o SubSeq(text, end + 1, end + size)]
        last(state, end, trailers) ==
            [state EXCEPT !.at = 0,
                          !.end = IF trailers.tag = "TrailerBlock" THEN end + trailers.bytes_consumed ELSE 0]
        line(state, end, meta) ==
            IF meta.tag # "ChunkMeta" \/ end + meta.n + 2 > Len(text) THEN [state EXCEPT !.at = 0]
            ELSE IF meta.n > 0 THEN chunk(state, end, meta.n)
            ELSE last(state, end, TrailerRule(SubSeq(text, end + 1, Len(text)), declared))
        step(state, i) ==
            IF state.at # i THEN state
            ELSE IF lineEnd(i) = {} THEN [state EXCEPT !.at = 0]
            ELSE line(state, Min(lineEnd(i)), GuardedParts(SubSeq(text, i, Min(lineEnd(i)))))
    IN  FoldLeftDomain(step, [at |-> 1, end |-> 0, content |-> <<>>], text)

\* The message that follows the head on the wire.
Transmitted ==
    LET text == SubSeq(wire, HeadEnd(wire) + 1, Len(wire))
        length == message.framing.length
    IN  CASE message.framing.kind = "None" -> [end |-> 0, content |-> <<>>]
          [] message.framing.kind = "ContentLength" ->
                [end |-> length, content |-> SubSeq(text, 1, Min({length, Len(text)}))]
          [] message.framing.kind = "Chunked" -> Dechunked(text, DeclaredTrailers(message.trailers))
          [] message.framing.kind = "Close" -> [end |-> Len(text), content |-> text]

\* However the wire is cut into reads and wherever the head's read ended, the
\* reader takes exactly one message off it: its content and its last byte are
\* those of the coding, and nothing of what follows is taken.  A message is
\* refused as malformed only if it is, or if more bytes follow it already.
TakesOneMessage ==
    result \in {"Ok", "Protocol", "Disagreement"} =>
        \E sent \in {Transmitted} :
            IF result = "Ok"
            THEN /\ head = SubSeq(wire, 1, HeadEnd(wire))
                 /\ decoded = sent.content
                 /\ message.framing.kind = "Chunked" => sent.end > 0
                 /\ taken = Len(head) + sent.end
            ELSE \/ message.framing.kind = "Chunked" /\ sent.end = 0
                 \/ Len(wire) > Len(head) + sent.end

\* What is held of a body: what is decoded, and the vector of the exact read
\* under way, which is allocated with its full length.
Held == Len(decoded) + (IF pc \in {"length", "data"} THEN need ELSE 0)

\* The one copy made ahead of its charge: read_to_eof_bounded's, of less than
\* one read, until it is charged or the reader returns without charging it.
CopiedAhead ==
    /\ message.framing.kind = "Close" /\ permit = 0 /\ Len(decoded) < SCRATCH_BYTES
    /\ pc = "remainder" \/ result \in {"Busy", "Upstream"}

\* A body is charged to the budget before it is held, chunk by chunk and read by
\* read, with one exception: of a body that ends with its stream, the part that
\* came with the head is copied first, uncharged until grow and left uncharged
\* by the refusals, and that part is shorter than one read of the head.  No more
\* than the maximum of a body is ever charged, a body that is returned is
\* charged with exactly its length, and no line or section outgrows its limit by
\* more than the byte that is over it.
ChargedOrCopiedAhead ==
    /\ Held <= permit \/ CopiedAhead
    /\ permit <= MAX_BODY_BYTES
    /\ result = "Ok" => permit = Len(decoded)
    /\ Len(section) + Len(output) <= Max({SECTION_LIMIT, CHUNK_LINE_LIMIT, MAX_BODY_BYTES}) + 1
=============================================================================
