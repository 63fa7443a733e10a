-------------------------- MODULE BodyReaderProofs --------------------------
(***************************************************************************)
(* For any message, any way of cutting it into reads and any limits: no    *)
(* byte of a body is held before it is charged to the budget, but for less *)
(* than one read that came with the head of a body that ends with its      *)
(* stream; no body, line or trailer section outgrows its limit; a message  *)
(* that is not chunked is taken off the wire as exactly one message.       *)
(***************************************************************************)
EXTENDS BodyReader, SequenceTheorems, WellFoundedInduction, TLAPS

TypeInv ==
    /\ message \in Messages
    /\ taken \in 0 .. Len(wire)
    /\ head \in Seq(Bytes) /\ buffer \in Seq(Bytes) /\ output \in Seq(Bytes)
    /\ section \in Seq(Bytes) /\ decoded \in Seq(Bytes)
    /\ offset \in 0 .. Len(buffer)
    /\ need \in Nat /\ permit \in Nat
    /\ pc \in {"head", "begin", "length", "line", "data", "terminator", "trailers", "extra",
               "remainder", "eof", "done"}

\* The longest that a line, a trailer section or an exact read may grow.
Longest == Max({SECTION_LIMIT, CHUNK_LINE_LIMIT, MAX_BODY_BYTES}) + 1

\* What is charged, stage by stage.
Charged ==
    /\ permit <= MAX_BODY_BYTES
    /\ pc \in {"head", "begin"} => permit = 0 /\ decoded = <<>>
    /\ pc = "remainder" => permit = 0
    /\ pc = "length" => permit = need /\ decoded = <<>>
    /\ pc = "data" => permit = Len(decoded) + need
    /\ pc \in {"line", "terminator", "trailers", "extra", "eof"} => permit = Len(decoded)
    /\ pc = "done" => Len(decoded) <= permit \/ CopiedAhead
    /\ pc # "done" => result = "none"
    /\ result = "Ok" => permit = Len(decoded)

\* How long the working buffers are, stage by stage.  The end of the head is in
\* the last read of it, so that less than one read is left over.
Bounded ==
    /\ pc \notin {"trailers", "extra", "done"} => section = <<>>
    /\ pc = "head" => offset = 0 /\ HeadEnd(head) = 0
    /\ pc = "begin" => Len(buffer) < SCRATCH_BYTES
    /\ pc = "remainder" => message.framing.kind = "Close" /\ Len(decoded) < SCRATCH_BYTES
    /\ pc \in {"head", "begin", "remainder", "eof"} => output = <<>>
    /\ pc \in {"length", "data", "terminator"} => Len(output) <= need
    /\ pc = "terminator" => need = 2
    /\ pc = "line" => Len(output) <= CHUNK_LINE_LIMIT + 1
    /\ pc = "trailers" =>
         Len(section) <= SECTION_LIMIT /\ Len(section) + Len(output) <= SECTION_LIMIT + 1
    /\ Len(section) + Len(output) <= Longest

\* The inductive invariant.
IInv ==
    /\ TypeInv
    /\ Charged
    /\ Bounded

-----------------------------------------------------------------------------
(* Numbers and pieces of sequences. *)

LEMMA MinOfTwo ==
    ASSUME NEW a \in Nat, NEW b \in Nat
    PROVE  /\ Min({a, b}) \in Nat /\ Min({a, b}) <= a /\ Min({a, b}) <= b
           /\ Min({a, b}) = a \/ Min({a, b}) = b
<1>1. \E x \in {a, b} : \A y \in {a, b} : x =< y
  OBVIOUS
<1>2. Min({a, b}) \in {a, b} /\ \A y \in {a, b} : Min({a, b}) =< y
  BY <1>1 DEF Min
<1>3. QED
  BY <1>2

LEMMA MaxOfTwo ==
    ASSUME NEW a \in Int, NEW b \in Int
    PROVE  /\ Max({a, b}) \in Int /\ a <= Max({a, b}) /\ b <= Max({a, b})
           /\ Max({a, b}) = a \/ Max({a, b}) = b
<1>1. \E x \in {a, b} : \A y \in {a, b} : x >= y
  OBVIOUS
<1>2. Max({a, b}) \in {a, b} /\ \A y \in {a, b} : Max({a, b}) >= y
  BY <1>1 DEF Max
<1>3. QED
  BY <1>2

LEMMA LongestBounds ==
    /\ Longest \in Nat
    /\ SECTION_LIMIT + 1 <= Longest /\ CHUNK_LINE_LIMIT + 1 <= Longest
    /\ MAX_BODY_BYTES + 1 <= Longest /\ 2 <= Longest
<1> DEFINE S == {SECTION_LIMIT, CHUNK_LINE_LIMIT, MAX_BODY_BYTES}
<1>1. /\ SECTION_LIMIT \in Nat \ {0} /\ CHUNK_LINE_LIMIT \in Nat \ {0}
      /\ MAX_BODY_BYTES \in Nat \ {0}
  BY BodyReaderAssumption, TrailersAssumption
<1>2. \E x \in S : \A y \in S : x >= y
  BY <1>1
<1>3. Max(S) \in S /\ \A y \in S : Max(S) >= y
  BY <1>2 DEF Max
<1>4. QED
  BY <1>1, <1>3 DEF Longest

\* The natural numbers are well-founded, so every set of them has a minimum.
LEMMA SmallestOf ==
    ASSUME NEW T \in SUBSET Nat, T # {}
    PROVE  Min(T) \in T /\ \A y \in T : Min(T) <= y
<1>1. PICK R : /\ IsWellFoundedOn(R, Nat)
               /\ R = {ss \in Nat \X Nat : ss[1] < ss[2]}
  BY NatLessThanWellFounded DEF OpToRel
<1>2. \E x \in T : \A y \in T : <<y, x>> \notin R
  BY <1>1, WFMin
<1>3. PICK x \in T : \A y \in T : <<y, x>> \notin R
  BY <1>2
<1>4. \A y \in T : x <= y
  <2> TAKE y \in T
  <2>1. x \in Nat /\ y \in Nat
    OBVIOUS
  <2>2. <<y, x>> \in R <=> y < x
    BY <1>1, <2>1
  <2>3. QED
    BY <1>3, <2>1, <2>2
<1>5. QED
  BY <1>4 DEF Min

LEMMA HeadEndWithin ==
    ASSUME NEW bytes \in Seq(Bytes)
    PROVE  HeadEnd(bytes) \in Nat /\ HeadEnd(bytes) <= Len(bytes)
<1> DEFINE ends == {i \in 4 .. Len(bytes) : SubSeq(bytes, i - 3, i) = Crlf \o Crlf}
<1>1. Len(bytes) \in Nat /\ ends \in SUBSET Nat /\ \A i \in ends : i <= Len(bytes)
  OBVIOUS
<1>2. HeadEnd(bytes) = IF ends = {} THEN 0 ELSE Min(ends)
  BY DEF HeadEnd
<1> HIDE DEF ends
<1>3. CASE ends = {}
  BY <1>1, <1>2, <1>3
<1>4. CASE ends # {}
  <2>1. Min(ends) \in ends
    BY <1>1, <1>4, SmallestOf
  <2>2. Min(ends) \in Nat /\ Min(ends) <= Len(bytes)
    BY <1>1, <2>1
  <2>3. QED
    BY <1>2, <1>4, <2>2
<1>5. QED
  BY <1>3, <1>4

LEMMA Piece ==
    ASSUME NEW S, NEW s \in Seq(S), NEW m \in Nat, NEW n \in Nat, m <= n, n <= Len(s)
    PROVE  SubSeq(s, m + 1, n) \in Seq(S) /\ Len(SubSeq(s, m + 1, n)) = n - m
<1>1. Len(s) \in Nat
  OBVIOUS
<1>2. m + 1 \in Int /\ n \in Int
  OBVIOUS
<1>3. \A i \in m + 1 .. n : s[i] \in S
  <2> TAKE i \in m + 1 .. n
  <2>1. i \in 1 .. Len(s)
    BY <1>1
  <2>2. QED
    BY <2>1, ElementOfSeq
<1>4. /\ SubSeq(s, m + 1, n) \in Seq(S)
      /\ Len(SubSeq(s, m + 1, n)) = IF m + 1 <= n THEN n - (m + 1) + 1 ELSE 0
  BY <1>2, <1>3, SubSeqProperties
<1>5. QED
  BY <1>4

\* The head ends in the read that completes it.
LEMMA HeadEndsInRead ==
    ASSUME NEW s \in Seq(Bytes), NEW t \in Seq(Bytes), HeadEnd(s) = 0, HeadEnd(s \o t) # 0
    PROVE  Len(s) < HeadEnd(s \o t)
<1> DEFINE both == s \o t
           ends(bytes) == {i \in 4 .. Len(bytes) : SubSeq(bytes, i - 3, i) = Crlf \o Crlf}
           before == ends(s)
           all == ends(both)
<1>1. /\ both \in Seq(Bytes) /\ Len(both) = Len(s) + Len(t) /\ Len(s) \in Nat /\ Len(t) \in Nat
  BY ConcatProperties
<1>2. before \in SUBSET Nat /\ all \in SUBSET Nat /\ \A i \in before : i # 0
  OBVIOUS
<1>3. HeadEnd(s) = IF before = {} THEN 0 ELSE Min(before)
  BY DEF HeadEnd
<1>4. HeadEnd(both) = IF all = {} THEN 0 ELSE Min(all)
  BY DEF HeadEnd
<1>5. \A i \in 4 .. Len(s) : SubSeq(s, i - 3, i) = SubSeq(both, i - 3, i)
  <2> TAKE i \in 4 .. Len(s)
  <2>1. i - 3 \in 1 .. Len(s) /\ i \in 1 .. Len(s)
    BY <1>1
  <2>2. QED
    BY <2>1, SubSeqOfConcat1
<1> HIDE DEF both
<1>6. \A i \in all : i <= Len(s) => i \in before
  <2> SUFFICES ASSUME NEW i \in all, i <= Len(s) PROVE i \in before
    OBVIOUS
  <2>1. i \in 4 .. Len(s) /\ SubSeq(both, i - 3, i) = Crlf \o Crlf
    BY <1>1
  <2>2. SubSeq(s, i - 3, i) = Crlf \o Crlf
    BY <1>5, <2>1
  <2>3. QED
    BY <2>1, <2>2
<1> HIDE DEF before, all
<1>7. before = {}
  <2> SUFFICES ASSUME before # {} PROVE FALSE
    OBVIOUS
  <2>1. Min(before) \in before
    BY <1>2, SmallestOf
  <2>2. QED
    BY <1>2, <1>3, <2>1
<1>8. all # {} /\ HeadEnd(both) = Min(all)
  BY <1>4 DEF both
<1>9. Min(all) \in all
  BY <1>2, <1>8, SmallestOf
<1>10. Min(all) \in Nat /\ ~(Min(all) <= Len(s))
  BY <1>2, <1>6, <1>7, <1>9
<1>11. QED
  BY <1>1, <1>8, <1>10 DEF both

\* The phases of parse_chunk_metadata end in one of three errors or in a size.
LEMMA ChunkMetaIsSized ==
    ASSUME NEW input, NEW line, NEW collected,
           collected.fault.tag \in {"none", "InvalidChunk", "LimitExceeded"}
    PROVE  LET meta == ChunkMeta(BoundedLine(input), line, collected)
           IN  \/ meta.tag \in {"InvalidChunk", "LimitExceeded", "Incomplete"}
               \/ meta.tag = "ChunkMeta" /\ meta.n \in 0 .. MAX_CHUNK_SIZE
<1> DEFINE framed == BoundedLine(input)
           size == ParseSize(SubSeq(line, 1, SizeEnd(line) - 1))
           meta == ChunkMeta(framed, line, collected)
<1> SUFFICES \/ meta.tag \in {"InvalidChunk", "LimitExceeded", "Incomplete"}
             \/ meta.tag = "ChunkMeta" /\ meta.n \in 0 .. MAX_CHUNK_SIZE
  OBVIOUS
<1>1. framed.tag \in {"line", "InvalidChunk", "LimitExceeded", "Incomplete"}
  BY DEF BoundedLine, InvalidChunk, ChunkLimit, ChunkOutcome
<1>2. \/ size.tag \in {"InvalidChunk", "LimitExceeded"}
      \/ size.tag = "size" /\ size.n \in 0 .. MAX_CHUNK_SIZE
  BY DEF ParseSize, InvalidChunk, ChunkLimit, ChunkOutcome
<1>3. CASE framed.tag # "line"
  BY <1>1, <1>3 DEF ChunkMeta
<1>4. CASE framed.tag = "line" /\ size.tag # "size"
  <2>1. meta = size
    BY <1>4 DEF ChunkMeta
  <2>2. QED
    BY <1>2, <1>4, <2>1
<1>5. CASE framed.tag = "line" /\ size.tag = "size" /\ collected.fault.tag # "none"
  <2>1. meta = collected.fault
    BY <1>5 DEF ChunkMeta
  <2>2. QED
    BY <1>5, <2>1
<1>6. CASE framed.tag = "line" /\ size.tag = "size" /\ collected.fault.tag = "none"
  <2>1. meta = [tag |-> "ChunkMeta", what |-> "", n |-> size.n,
                extensions |-> collected.list, bytes_consumed |-> framed.bytes_consumed]
    BY <1>6 DEF ChunkMeta
  <2>2. size.n \in 0 .. MAX_CHUNK_SIZE
    BY <1>2, <1>6
  <2> HIDE DEF meta, size, framed
  <2>3. meta.tag = "ChunkMeta" /\ meta.n = size.n
    BY <2>1
  <2>4. QED
    BY <2>2, <2>3
<1>7. QED
  BY <1>3, <1>4, <1>5, <1>6

LEMMA ComposableIsSized ==
    ASSUME NEW input
    PROVE  LET meta == ComposableSegments(input)
           IN  \/ meta.tag \in {"InvalidChunk", "LimitExceeded", "Incomplete"}
               \/ meta.tag = "ChunkMeta" /\ meta.n \in 0 .. MAX_CHUNK_SIZE
<1>1. \A reason : InvalidChunk(reason).tag = "InvalidChunk"
  BY DEF InvalidChunk, ChunkOutcome
<1>2. \A limit, actual : ChunkLimit(limit, actual).tag = "LimitExceeded"
  BY DEF ChunkLimit, ChunkOutcome
<1>3. ChunkOutcome("none", "", 0).tag = "none"
  BY DEF ChunkOutcome
<1>4. \A line : CollectSegments(line).fault.tag \in {"none", "InvalidChunk", "LimitExceeded"}
  <2> TAKE line
  <2>1. PICK parsed : CollectSegments(line).fault = SegmentFault(parsed)
    BY DEF CollectSegments
  <2>2. QED
    BY <1>1, <1>2, <1>3, <2>1 DEF SegmentFault
<1>5. PICK line :
        ComposableSegments(input) = ChunkMeta(BoundedLine(input), line, CollectSegments(line))
  BY DEF ComposableSegments
<1>6. QED
  BY <1>4, <1>5, ChunkMetaIsSized

\* The size of a chunk on which the parsers agree is a number, and a chunk that
\* read_chunked accepts fits into what is left of the maximum.
LEMMA ChunkSize ==
    ASSUME NEW meta, meta = Agreed(ChunkMetadatas(output), "guarded_parts"),
           ChunkFault(meta) = "none"
    PROVE  meta.n \in Nat /\ ~(Len(decoded) + meta.n > MAX_BODY_BYTES)
<1> DEFINE metas == ChunkMetadatas(output)
<1>1. meta = metas.guarded_parts /\ metas.guarded_parts = metas.composable_segments
  <2>1. \A v \in DOMAIN metas : metas[v] = metas["guarded_parts"]
    BY DEF Agreed, ChunkFault
  <2>2. "composable_segments" \in DOMAIN metas
    BY DEF ChunkMetadatas
  <2>3. QED
    BY <2>1, <2>2 DEF Agreed
<1>2. meta = ComposableSegments(output)
  BY <1>1 DEF ChunkMetadatas
<1>3. meta.tag = "ChunkMeta" /\ meta.n \in 0 .. MAX_CHUNK_SIZE
  BY <1>2, ComposableIsSized DEF ChunkFault
<1>4. meta.n \in Nat
  BY <1>3, ChunkAssumption
<1>5. QED
  BY <1>3, <1>4 DEF ChunkFault

-----------------------------------------------------------------------------
(* The steps. *)

LEMMA Limits ==
    /\ MAX_BODY_BYTES \in Nat /\ CHUNK_LINE_LIMIT \in Nat /\ SECTION_LIMIT \in Nat
    /\ MAX_HEAD_BYTES \in Nat /\ SCRATCH_BYTES \in Nat
  BY BodyReaderAssumption, TrailersAssumption

LEMMA Lengths ==
    ASSUME TypeInv
    PROVE  /\ wire \in Seq(Bytes) /\ Len(wire) \in Nat
           /\ message.framing.length \in Nat
           /\ Len(head) \in Nat /\ Len(buffer) \in Nat /\ Len(output) \in Nat
           /\ Len(section) \in Nat /\ Len(decoded) \in Nat
           /\ taken \in Nat /\ offset \in Nat
           /\ buffered_len \in Nat
<1>1. message \in Messages
  BY DEF TypeInv
<1>2. wire \in Seq(Bytes) /\ message.framing.length \in Nat
  BY <1>1, BodyReaderAssumption DEF wire
<1>3. Len(wire) \in Nat
  BY <1>2
<1>4. QED
  BY <1>2, <1>3 DEF TypeInv, buffered_len

LEMMA EmptyIsSeq == <<>> \in Seq(Bytes) /\ Len(<<>>) = 0
  BY EmptySeq

LEMMA InitIInv == Init => IInv
<1> SUFFICES ASSUME Init PROVE IInv
  OBVIOUS
<1>1. message \in Messages /\ wire \in Seq(Bytes)
  BY BodyReaderAssumption DEF Init, wire
<1>2. Len(wire) \in Nat
  BY <1>1
<1>3. TypeInv
  BY <1>1, <1>2, EmptyIsSeq DEF Init, TypeInv
<1>4. Charged
  BY EmptyIsSeq, Limits DEF Init, Charged
<1>5. Bounded
  <2>1. PICK empty \in Seq(Bytes) : empty = <<>> /\ Len(empty) = 0
    BY EmptyIsSeq
  <2>2. HeadEnd(empty) \in Nat /\ HeadEnd(empty) <= 0
    BY <2>1, HeadEndWithin
  <2>3. HeadEnd(head) = 0
    BY <2>1, <2>2 DEF Init
  <2>4. QED
    BY <2>3, EmptyIsSeq, LongestBounds DEF Init, Bounded
<1>6. QED
  BY <1>3, <1>4, <1>5 DEF IInv

\* Whatever the reader returns, what it holds is charged; the Ok of a body
\* comes after the whole of it is decoded.
LEMMA Returns ==
    ASSUME IInv, NEW answer, Return(answer), pc \notin {"done", "remainder"},
           answer = "Ok" => pc \in {"extra", "eof"},
           UNCHANGED <<message, source, head, output, need, body>>
    PROVE  IInv'
<1>1. UNCHANGED <<message, taken, buffer, offset, head, output, need, section, decoded, permit>>
  BY DEF source, body
<1>2. TypeInv'
  BY <1>1 DEF IInv, TypeInv, Return, wire
<1>3. Charged'
  <2>1. Len(decoded) <= permit
    BY Lengths, EmptyIsSeq DEF IInv, Charged, TypeInv
  <2>2. answer = "Ok" => permit = Len(decoded)
    BY DEF IInv, Charged
  <2>3. QED
    BY <1>1, <2>1, <2>2 DEF IInv, Charged, Return
<1>4. Bounded'
  BY <1>1 DEF IInv, Bounded, Return, Longest
<1>5. QED
  BY <1>2, <1>3, <1>4 DEF IInv

LEMMA RefusalSteps ==
    ASSUME IInv,
           \/ BeginBusy \/ BeginTooLong \/ LineTooLong \/ ImmediateExtra \/ NoImmediateExtra
           \/ EndOfFile \/ ReadTimeout \/ StreamFails
    PROVE  IInv'
<1>1. CASE BeginBusy
  BY <1>1, Returns DEF BeginBusy
<1>2. CASE BeginTooLong
  BY <1>2, Returns DEF BeginTooLong
<1>3. CASE LineTooLong
  BY <1>3, Returns DEF LineTooLong, Reading
<1>4. CASE ImmediateExtra
  BY <1>4, Returns DEF ImmediateExtra
<1>5. CASE NoImmediateExtra
  BY <1>5, Returns DEF NoImmediateExtra
<1>6. CASE EndOfFile
  BY <1>6, Returns DEF EndOfFile
<1>7. CASE ReadTimeout
  BY <1>7, Returns DEF ReadTimeout, Blocked, Reading
<1>8. CASE StreamFails
  BY <1>8, Returns DEF StreamFails, Blocked, Reading
<1>9. QED
  BY <1>1, <1>2, <1>3, <1>4, <1>5, <1>6, <1>7, <1>8

LEMMA StutterStep ==
    ASSUME IInv, UNCHANGED vars
    PROVE  IInv'
<1>1. UNCHANGED <<message, taken, buffer, offset, head, pc, output, need, section, decoded, permit, result>>
  BY DEF vars, source, body
<1>2. TypeInv'
  BY <1>1 DEF IInv, TypeInv, wire
<1>3. Charged'
  BY <1>1 DEF IInv, Charged, CopiedAhead
<1>4. Bounded'
  BY <1>1 DEF IInv, Bounded, Longest
<1>5. QED
  BY <1>2, <1>3, <1>4 DEF IInv

LEMMA ReadHeadStep ==
    ASSUME IInv, NEW count \in 1 .. SCRATCH_BYTES, ReadHead(count)
    PROVE  IInv'
<1> DEFINE piece == SubSeq(wire, taken + 1, taken + count)
           bytes == head \o piece
           end == HeadEnd(bytes)
<1>1. /\ pc = "head" /\ taken + count <= Len(wire) /\ taken' = taken + count
      /\ UNCHANGED <<message, offset, output, need, section, decoded, permit>>
  BY DEF ReadHead, body
<1>2. /\ taken \in Nat /\ Len(wire) \in Nat /\ wire \in Seq(Bytes) /\ head \in Seq(Bytes)
      /\ Len(buffer) \in Nat /\ offset \in Nat /\ count \in Nat
  BY Lengths, Limits DEF IInv, TypeInv
<1>3. piece \in Seq(Bytes)
  <2>1. taken + count \in Nat /\ taken <= taken + count
    BY <1>2
  <2>2. QED
    BY <1>1, <1>2, <2>1, Piece
<1>4. bytes \in Seq(Bytes)
  BY <1>2, <1>3, ConcatProperties
<1>5. end \in Nat /\ end <= Len(bytes)
  BY <1>4, HeadEndWithin
<1>6. Len(bytes) \in Nat
  BY <1>4
<1>7. taken' \in 0 .. Len(wire)' /\ offset' = 0
  BY <1>1, <1>2 DEF wire, IInv, Bounded
<1>8. pc' \in {"head", "begin", "done"} /\ (pc' = "done" => result' = "TooLarge")
      /\ (pc' # "done" => result' = "none")
  BY <1>1 DEF ReadHead, Return, IInv, Charged
<1>9. head' \in Seq(Bytes) /\ buffer' \in Seq(Bytes)
  <2>1. \/ head' = bytes /\ buffer' = buffer
        \/ head' = SubSeq(bytes, 1, end) /\ buffer' = SubSeq(bytes, end + 1, Len(bytes))
    BY DEF ReadHead
  <2>2. buffer \in Seq(Bytes)
    BY DEF IInv, TypeInv
  <2> HIDE DEF bytes, end
  <2>3. SubSeq(bytes, 0 + 1, end) \in Seq(Bytes)
    BY <1>4, <1>5, Piece
  <2>4. SubSeq(bytes, end + 1, Len(bytes)) \in Seq(Bytes)
    BY <1>4, <1>5, <1>6, Piece
  <2>5. SubSeq(bytes, 1, end) \in Seq(Bytes)
    BY <2>3
  <2>6. CASE head' = bytes /\ buffer' = buffer
    BY <1>4, <2>2, <2>6
  <2>7. CASE head' = SubSeq(bytes, 1, end) /\ buffer' = SubSeq(bytes, end + 1, Len(bytes))
    BY <2>4, <2>5, <2>7
  <2>8. QED
    BY <2>1, <2>6, <2>7
<1>10. TypeInv'
  <2>1. Len(buffer)' \in Nat
    BY <1>9
  <2>2. QED
    BY <1>1, <1>7, <1>8, <1>9, <2>1 DEF TypeInv, IInv
<1>11. Charged'
  BY <1>1, <1>8, EmptyIsSeq DEF Charged, IInv
<1>12. pc' = "begin" => Len(buffer') < SCRATCH_BYTES
  <2> SUFFICES ASSUME pc' = "begin" PROVE Len(buffer') < SCRATCH_BYTES
    OBVIOUS
  <2>1. end \in 1 .. MAX_HEAD_BYTES /\ buffer' = SubSeq(bytes, end + 1, Len(bytes))
    BY <1>1 DEF ReadHead, Return
  <2>2. Len(head) < end
    <3>1. HeadEnd(head) = 0
      BY <1>1 DEF IInv, Bounded
    <3>2. HeadEnd(head \o piece) # 0
      BY <2>1
    <3>3. head \in Seq(Bytes) /\ piece \in Seq(Bytes)
      BY <1>2, <1>3
    <3> HIDE DEF piece
    <3>4. QED
      BY <3>1, <3>2, <3>3, HeadEndsInRead
  <2>3. Len(bytes) = Len(head) + count /\ Len(head) \in Nat
    <3>1. Len(bytes) = Len(head) + Len(piece)
      BY <1>2, <1>3, ConcatProperties
    <3>2. PICK upto \in Nat : upto = taken + count
      BY <1>2
    <3>3. Len(SubSeq(wire, taken + 1, upto)) = upto - taken
      <4>1. taken <= upto /\ upto <= Len(wire)
        BY <1>1, <1>2, <3>2
      <4>2. QED
        BY <1>2, <4>1, Piece
    <3>4. Len(piece) = upto - taken
      BY <3>2, <3>3
    <3>5. Len(piece) = count
      BY <1>2, <3>2, <3>4
    <3>6. QED
      BY <1>2, <3>1, <3>5
  <2> HIDE DEF bytes, end
  <2>4. Len(buffer') = Len(bytes) - end
    BY <1>4, <1>5, <1>6, <2>1, Piece
  <2>5. QED
    BY <1>2, <1>5, <2>2, <2>3, <2>4, Limits
<1>13. pc' = "head" => HeadEnd(head') = 0
  BY <1>1 DEF ReadHead, Return
<1>14. Bounded'
  BY <1>1, <1>7, <1>8, <1>12, <1>13, EmptyIsSeq DEF Bounded, IInv, Longest
<1>15. QED
  BY <1>10, <1>11, <1>14 DEF IInv

\* The buffer's part of an exact read is no longer than what is asked for.
LEMMA ExactFromBuffer ==
    ASSUME TypeInv, NEW length \in Nat, NEW goal, StartExact(length, goal)
    PROVE  /\ output' \in Seq(Bytes) /\ Len(output') <= length
           /\ offset' \in 0 .. Len(buffer)
           /\ need' = length /\ pc' = goal /\ UNCHANGED <<buffer, taken>>
           /\ output' = SubSeq(buffer, offset + 1, offset') /\ Len(output') = offset' - offset
           /\ Len(output') < length => offset' = Len(buffer)
<1> DEFINE available == Min({buffered_len, length})
<1>1. /\ output' = SubSeq(buffer, offset + 1, offset + available)
      /\ offset' = offset + available /\ need' = length /\ pc' = goal /\ UNCHANGED <<buffer, taken>>
  BY DEF StartExact
<1>2. /\ buffered_len \in Nat /\ offset \in Nat /\ Len(buffer) \in Nat /\ buffer \in Seq(Bytes)
      /\ buffered_len = Len(buffer) - offset
  BY Lengths DEF TypeInv, buffered_len
<1>3. /\ available \in Nat /\ available <= buffered_len /\ available <= length
      /\ available = buffered_len \/ available = length
  BY <1>2, MinOfTwo
<1> HIDE DEF available
<1>4. PICK upto \in Nat : upto = offset + available
  BY <1>2, <1>3
<1>5. /\ offset <= upto /\ upto <= Len(buffer) /\ upto - offset <= length
      /\ upto - offset < length => upto = Len(buffer)
  BY <1>2, <1>3, <1>4
<1>6. /\ SubSeq(buffer, offset + 1, upto) \in Seq(Bytes)
      /\ Len(SubSeq(buffer, offset + 1, upto)) = upto - offset
  BY <1>2, <1>5, Piece
<1>7. output' = SubSeq(buffer, offset + 1, upto) /\ offset' = upto
  BY <1>1, <1>4
<1>8. output' \in Seq(Bytes) /\ Len(output') = offset' - offset
  BY <1>6, <1>7
<1>9. offset' - offset <= length /\ offset' \in 0 .. Len(buffer)
  BY <1>2, <1>5, <1>7
<1>10. offset' - offset < length => offset' = Len(buffer)
  BY <1>5, <1>7
<1>11. output' = SubSeq(buffer, offset + 1, offset')
  BY <1>7
<1>12. Len(output') <= length /\ (Len(output') < length => offset' = Len(buffer))
  BY <1>8, <1>9, <1>10
<1>13. QED
  BY <1>1, <1>8, <1>9, <1>11, <1>12

LEMMA BeginSteps ==
    ASSUME IInv, BeginNone \/ BeginLength \/ BeginChunked
    PROVE  IInv'
<1>1. CASE BeginNone
  <2>1. /\ pc = "begin" /\ pc' = "extra"
        /\ UNCHANGED <<message, taken, buffer, offset, head, output, need, section, decoded, permit, result>>
    BY <1>1 DEF BeginNone, source, body
  <2>2. TypeInv'
    BY <2>1 DEF IInv, TypeInv, wire
  <2>3. Charged'
    BY <2>1, EmptyIsSeq DEF IInv, Charged
  <2>4. Bounded'
    BY <2>1 DEF IInv, Bounded, Longest
  <2>5. QED
    BY <2>2, <2>3, <2>4 DEF IInv
<1>2. CASE BeginChunked
  <2>1. /\ pc = "begin" /\ pc' = "line" /\ output' = <<>>
        /\ UNCHANGED <<message, taken, buffer, offset, head, need, section, decoded, permit, result>>
    BY <1>2 DEF BeginChunked, source, body
  <2>2. TypeInv'
    BY <2>1, EmptyIsSeq DEF IInv, TypeInv, wire
  <2>3. Charged'
    BY <2>1, EmptyIsSeq DEF IInv, Charged
  <2>4. Bounded'
    BY <2>1, EmptyIsSeq, LongestBounds, Limits DEF IInv, Bounded, Longest
  <2>5. QED
    BY <2>2, <2>3, <2>4 DEF IInv
<1>3. CASE BeginLength
  <2> DEFINE length == message.framing.length
  <2>1. length \in Nat
    BY Lengths DEF IInv
  <2>2. /\ pc = "begin" /\ length <= MAX_BODY_BYTES /\ permit' = length
        /\ StartExact(length, "length")
        /\ UNCHANGED <<message, head, section, decoded, result>>
    BY <1>3 DEF BeginLength
  <2> HIDE DEF length
  <2>3. /\ output' \in Seq(Bytes) /\ Len(output') <= length
        /\ offset' \in 0 .. Len(buffer)
        /\ need' = length /\ pc' = "length" /\ UNCHANGED <<buffer, taken>>
    BY <2>1, <2>2, ExactFromBuffer DEF IInv
  <2>4. TypeInv'
    BY <2>1, <2>2, <2>3 DEF IInv, TypeInv, wire
  <2>5. Charged'
    BY <2>2, <2>3 DEF IInv, Charged
  <2>6. section = <<>> /\ Len(output') \in Nat
    BY <2>2, <2>3 DEF IInv, Bounded
  <2>7. Len(section') + Len(output') <= Longest
    BY <2>1, <2>2, <2>3, <2>6, LongestBounds, Limits, EmptyIsSeq
  <2>8. Bounded'
    BY <2>2, <2>3, <2>6, <2>7 DEF Bounded, Longest
  <2>9. QED
    BY <2>4, <2>5, <2>8 DEF IInv
<1>4. QED
  BY <1>1, <1>2, <1>3

LEMMA LineByteStep ==
    ASSUME IInv, LineByte
    PROVE  IInv'
<1>1. PICK byte \in ToSet(wire) : NextByte(byte) /\ output' = Append(output, byte)
  BY DEF LineByte
<1>2. /\ pc \in {"line", "trailers"} /\ Len(output) <= LineMax
      /\ UNCHANGED <<message, head, pc, need, section, decoded, permit, result>>
  BY DEF LineByte, Reading, body
<1>3. /\ wire \in Seq(Bytes) /\ Len(wire) \in Nat /\ Len(buffer) \in Nat /\ taken \in Nat
      /\ offset \in Nat /\ Len(output) \in Nat /\ Len(section) \in Nat
      /\ output \in Seq(Bytes) /\ buffer \in Seq(Bytes)
  BY Lengths DEF IInv, TypeInv
<1>4. byte \in Bytes
  <2>1. PICK i \in 1 .. Len(wire) : byte = wire[i]
    BY <1>1, <1>3, LenProperties DEF ToSet
  <2>2. QED
    BY <1>3, <2>1, ElementOfSeq
<1>5. output' \in Seq(Bytes) /\ Len(output') = Len(output) + 1
  BY <1>1, <1>3, <1>4, AppendProperties
<1>6. /\ buffer' \in Seq(Bytes) /\ offset' \in 0 .. Len(buffer') /\ taken' \in 0 .. Len(wire)
  <2>1. CASE offset < Len(buffer) /\ offset' = offset + 1 /\ UNCHANGED <<buffer, taken>>
    <3>1. offset' \in 0 .. Len(buffer)
      BY <1>3, <2>1
    <3>2. QED
      BY <1>3, <2>1, <3>1 DEF IInv, TypeInv
  <2>2. CASE taken < Len(wire) /\ taken' = taken + 1 /\ buffer' = <<>> /\ offset' = 0
    <3>1. taken' \in 0 .. Len(wire)
      BY <1>3, <2>2
    <3>2. QED
      BY <2>2, <3>1, EmptyIsSeq
  <2>3. QED
    BY <1>1, <2>1, <2>2 DEF NextByte
<1>7. TypeInv'
  BY <1>2, <1>5, <1>6 DEF IInv, TypeInv, wire
<1>8. Charged'
  BY <1>2 DEF IInv, Charged
<1>9. CASE pc = "line"
  <2>1. Len(output') <= CHUNK_LINE_LIMIT + 1
    BY <1>2, <1>3, <1>5, <1>9, Limits DEF LineMax
  <2>2. section = <<>>
    BY <1>9 DEF IInv, Bounded
  <2>3. Len(section') + Len(output') <= Longest
    BY <1>2, <1>3, <1>5, <2>1, <2>2, LongestBounds, Limits, EmptyIsSeq
  <2>4. Bounded'
    BY <1>2, <1>9, <2>1, <2>2, <2>3 DEF Bounded, Longest
  <2>5. QED
    BY <1>7, <1>8, <2>4 DEF IInv
<1>10. CASE pc = "trailers"
  <2>1. Len(section) <= SECTION_LIMIT
    BY <1>10 DEF IInv, Bounded
  <2>2. LineMax = SECTION_LIMIT - Len(section)
    <3>1. LineMax = Max({SECTION_LIMIT - Len(section), 0})
      BY <1>10 DEF LineMax
    <3>2. SECTION_LIMIT - Len(section) \in Int /\ 0 <= SECTION_LIMIT - Len(section)
      BY <1>3, <2>1, Limits
    <3>3. PICK left \in Int : left = SECTION_LIMIT - Len(section)
      BY <3>2
    <3>4. left <= Max({left, 0}) /\ (Max({left, 0}) = left \/ Max({left, 0}) = 0)
      <4>1. 0 \in Int
        OBVIOUS
      <4>2. QED
        BY <4>1, MaxOfTwo, Zenon
    <3>5. Max({left, 0}) = left
      BY <3>2, <3>3, <3>4
    <3>6. QED
      BY <3>1, <3>3, <3>5
  <2>3. Len(section') + Len(output') <= SECTION_LIMIT + 1
    BY <1>2, <1>3, <1>5, <2>2, Limits
  <2>4. Len(section') + Len(output') <= Longest
    BY <1>2, <1>3, <1>5, <2>3, LongestBounds, Limits
  <2>5. Bounded'
    BY <1>2, <1>10, <2>1, <2>3, <2>4 DEF Bounded, Longest
  <2>6. QED
    BY <1>7, <1>8, <2>5 DEF IInv
<1>11. QED
  BY <1>2, <1>9, <1>10

\* The data of a chunk is read only after its size fits and is charged.
LEMMA ChunkLineStep ==
    ASSUME IInv, ChunkLine
    PROVE  IInv'
<1>1. PICK meta :
        /\ meta = Agreed(ChunkMetadatas(output), "guarded_parts")
        /\ \/ /\ ChunkFault(meta) # "none" /\ Return(ChunkFault(meta))
              /\ UNCHANGED <<source, output, need, body>>
           \/ /\ ChunkFault(meta) = "none"
              /\ pc' = "trailers" /\ output' = <<>>
              /\ UNCHANGED <<source, need, body, result>>
           \/ Return("Busy") /\ UNCHANGED <<source, output, need, body>>
           \/ /\ ChunkFault(meta) = "none" /\ permit' = permit + meta.n
              /\ StartExact(meta.n, "data") /\ UNCHANGED <<section, decoded, result>>
  BY DEF ChunkLine
<1>2. pc = "line" /\ UNCHANGED <<message, head>>
  BY DEF ChunkLine
<1>3. CASE ChunkFault(meta) # "none" /\ Return(ChunkFault(meta)) /\ UNCHANGED <<source, output, need, body>>
  <2>1. ChunkFault(meta) # "Ok"
    BY <1>3 DEF ChunkFault
  <2>2. QED
    BY <1>2, <1>3, <2>1, Returns
<1>4. CASE Return("Busy") /\ UNCHANGED <<source, output, need, body>>
  BY <1>2, <1>4, Returns
<1>5. CASE pc' = "trailers" /\ output' = <<>> /\ UNCHANGED <<source, need, body, result>>
  <2>1. UNCHANGED <<message, taken, buffer, offset, head, need, section, decoded, permit, result>>
    BY <1>2, <1>5 DEF source, body
  <2>2. TypeInv'
    BY <1>5, <2>1, EmptyIsSeq DEF IInv, TypeInv, wire
  <2>3. Charged'
    BY <1>2, <1>5, <2>1 DEF IInv, Charged
  <2>4. section = <<>>
    BY <1>2 DEF IInv, Bounded
  <2>5. Bounded'
    BY <1>5, <2>1, <2>4, EmptyIsSeq, LongestBounds, Limits DEF Bounded, Longest
  <2>6. QED
    BY <2>2, <2>3, <2>5 DEF IInv
<1>6. CASE /\ ChunkFault(meta) = "none" /\ permit' = permit + meta.n
           /\ StartExact(meta.n, "data") /\ UNCHANGED <<section, decoded, result>>
  <2>1. PICK n : n = meta.n
    OBVIOUS
  <2>2. n \in Nat /\ ~(Len(decoded) + n > MAX_BODY_BYTES)
    BY <1>1, <1>6, <2>1, ChunkSize
  <2>3. /\ output' \in Seq(Bytes) /\ Len(output') <= n
        /\ offset' \in 0 .. Len(buffer)
        /\ need' = n /\ pc' = "data" /\ UNCHANGED <<buffer, taken>>
    BY <1>6, <2>1, <2>2, ExactFromBuffer DEF IInv
  <2>4. permit' = permit + n /\ UNCHANGED <<message, head, section, decoded, result>>
    BY <1>2, <1>6, <2>1
  <2>5. permit \in Nat /\ Len(decoded) \in Nat /\ permit = Len(decoded)
    BY <1>2, Lengths DEF IInv, TypeInv, Charged
  <2>6. TypeInv'
    BY <2>2, <2>3, <2>4, <2>5 DEF IInv, TypeInv, wire
  <2>7. Charged'
    BY <1>2, <2>2, <2>3, <2>4, <2>5, Limits DEF IInv, Charged
  <2>8. section = <<>> /\ Len(output') \in Nat
    BY <1>2, <2>3 DEF IInv, Bounded
  <2>9. Len(section') + Len(output') <= Longest
    BY <2>2, <2>3, <2>4, <2>5, <2>8, LongestBounds, Limits, EmptyIsSeq
  <2>10. Bounded'
    BY <2>3, <2>4, <2>8, <2>9 DEF Bounded, Longest
  <2>11. QED
    BY <2>6, <2>7, <2>10 DEF IInv
<1>7. QED
  BY <1>1, <1>3, <1>4, <1>5, <1>6

LEMMA StreamBytesStep ==
    ASSUME IInv, NEW count \in 1 .. MAX_BODY_BYTES, StreamBytes(count)
    PROVE  IInv'
<1>1. /\ pc \in {"length", "data", "terminator"} /\ Len(output) + count <= need
      /\ taken + count <= Len(wire)
      /\ output' = output \o SubSeq(wire, taken + 1, taken + count)
      /\ taken' = taken + count
      /\ UNCHANGED <<message, buffer, offset, head, pc, need, section, decoded, permit, result>>
  BY DEF StreamBytes, body
<1>2. /\ taken \in Nat /\ count \in Nat /\ Len(wire) \in Nat /\ wire \in Seq(Bytes)
      /\ output \in Seq(Bytes) /\ Len(output) \in Nat /\ need \in Nat /\ permit \in Nat
      /\ Len(decoded) \in Nat
  BY Lengths, Limits DEF IInv, TypeInv
<1>3. PICK upto \in Nat : upto = taken + count
  BY <1>2
<1>4. /\ SubSeq(wire, taken + 1, upto) \in Seq(Bytes)
      /\ Len(SubSeq(wire, taken + 1, upto)) = upto - taken
  <2>1. taken <= upto /\ upto <= Len(wire)
    BY <1>1, <1>2, <1>3
  <2>2. QED
    BY <1>2, <2>1, Piece
<1>5. output' \in Seq(Bytes) /\ Len(output') = Len(output) + (upto - taken)
  BY <1>1, <1>2, <1>3, <1>4, ConcatProperties
<1>6. Len(output') = Len(output) + count
  BY <1>2, <1>3, <1>5
<1>7. taken' \in 0 .. Len(wire)
  BY <1>1, <1>2
<1>8. TypeInv'
  BY <1>1, <1>5, <1>7 DEF IInv, TypeInv, wire
<1>9. Charged'
  BY <1>1 DEF IInv, Charged
<1>10. section = <<>> /\ need <= Longest
  <2>1. section = <<>> /\ (pc = "terminator" => need = 2)
    BY <1>1 DEF IInv, Bounded
  <2>2. pc # "terminator" => need <= permit
    BY <1>1, <1>2 DEF IInv, Charged
  <2>3. permit <= MAX_BODY_BYTES
    BY DEF IInv, Charged
  <2>4. QED
    BY <1>2, <2>1, <2>2, <2>3, LongestBounds, Limits
<1>11. Len(section') + Len(output') <= Longest
  BY <1>1, <1>2, <1>6, <1>10, LongestBounds, EmptyIsSeq
<1>12. Bounded'
  BY <1>1, <1>6, <1>10, <1>11 DEF IInv, Bounded, Longest
<1>13. QED
  BY <1>8, <1>9, <1>12 DEF IInv

LEMMA ReadSteps ==
    ASSUME IInv, LengthRead \/ DataRead \/ TerminatorRead
    PROVE  IInv'
<1>1. CASE LengthRead
  <2>1. /\ pc = "length" /\ Len(output) = need /\ decoded' = output /\ pc' = "extra"
        /\ UNCHANGED <<message, taken, buffer, offset, head, output, need, section, permit, result>>
    BY <1>1 DEF LengthRead, source
  <2>2. TypeInv'
    BY <2>1 DEF IInv, TypeInv, wire
  <2>3. Charged'
    BY <2>1 DEF IInv, Charged
  <2>4. Bounded'
    BY <2>1 DEF IInv, Bounded, Longest
  <2>5. QED
    BY <2>2, <2>3, <2>4 DEF IInv
<1>2. CASE DataRead
  <2>1. /\ pc = "data" /\ Len(output) = need /\ decoded' = decoded \o output
        /\ StartExact(2, "terminator")
        /\ UNCHANGED <<message, head, section, permit, result>>
    BY <1>2 DEF DataRead
  <2>2. /\ output' \in Seq(Bytes) /\ Len(output') <= 2 /\ offset' \in 0 .. Len(buffer)
        /\ need' = 2 /\ pc' = "terminator" /\ UNCHANGED <<buffer, taken>>
    BY <2>1, ExactFromBuffer DEF IInv
  <2>3. decoded' \in Seq(Bytes) /\ Len(decoded') = Len(decoded) + Len(output)
    BY <2>1, ConcatProperties DEF IInv, TypeInv
  <2>4. TypeInv'
    BY <2>1, <2>2, <2>3 DEF IInv, TypeInv, wire
  <2>5. Charged'
    BY <2>1, <2>2, <2>3 DEF IInv, Charged
  <2>6. section = <<>> /\ Len(output') \in Nat
    BY <2>1, <2>2 DEF IInv, Bounded
  <2>7. Len(section') + Len(output') <= Longest
    BY <2>1, <2>2, <2>6, LongestBounds, EmptyIsSeq
  <2>8. Bounded'
    BY <2>1, <2>2, <2>6, <2>7 DEF Bounded, Longest
  <2>9. QED
    BY <2>4, <2>5, <2>8 DEF IInv
<1>3. CASE TerminatorRead
  <2>1. /\ pc = "terminator"
        /\ UNCHANGED <<message, taken, buffer, offset, head, need, section, decoded, permit>>
    BY <1>3 DEF TerminatorRead, source, body
  <2>2. CASE pc' = "line" /\ output' = <<>> /\ UNCHANGED result
    <3>1. TypeInv'
      BY <2>1, <2>2, EmptyIsSeq DEF IInv, TypeInv, wire
    <3>2. Charged'
      BY <2>1, <2>2 DEF IInv, Charged
    <3>3. section = <<>>
      BY <2>1 DEF IInv, Bounded
    <3>4. Bounded'
      BY <2>1, <2>2, <3>3, EmptyIsSeq, LongestBounds, Limits DEF Bounded, Longest
    <3>5. QED
      BY <3>1, <3>2, <3>4 DEF IInv
  <2>3. CASE Return("Protocol") /\ UNCHANGED output
    BY <2>1, <2>3, Returns DEF source, body
  <2>4. QED
    BY <1>3, <2>2, <2>3 DEF TerminatorRead
<1>4. QED
  BY <1>1, <1>2, <1>3

LEMMA TrailerLineStep ==
    ASSUME IInv, TrailerLine
    PROVE  IInv'
<1> DEFINE lines == section \o output
<1>1. /\ pc = "trailers" /\ section' = lines /\ output' = <<>>
      /\ UNCHANGED <<message, taken, buffer, offset, head, need, decoded, permit>>
  BY DEF TrailerLine, source
<1>2. \/ pc' = "done" /\ result' # "Ok"
      \/ pc' \in {"trailers", "extra"} /\ result' = result /\ Len(lines) <= SECTION_LIMIT
  BY <1>1 DEF TrailerLine, Return, TrailerFault
<1>3. /\ section \in Seq(Bytes) /\ output \in Seq(Bytes)
      /\ Len(section) \in Nat /\ Len(output) \in Nat
  BY Lengths DEF IInv, TypeInv
<1>4. lines \in Seq(Bytes) /\ Len(lines) = Len(section) + Len(output)
  BY <1>3, ConcatProperties
<1>5. Len(section) + Len(output) <= SECTION_LIMIT + 1
  BY <1>1 DEF IInv, Bounded
<1> HIDE DEF lines
<1>6. TypeInv'
  BY <1>1, <1>2, <1>4, EmptyIsSeq DEF IInv, TypeInv, wire
<1>7. Charged'
  BY <1>1, <1>2, Lengths DEF IInv, Charged
<1>8. Len(section') + Len(output') <= Longest /\ Len(section') + Len(output') = Len(lines)
  BY <1>1, <1>3, <1>4, <1>5, LongestBounds, Limits, EmptyIsSeq
<1>9. Bounded'
  BY <1>1, <1>2, <1>3, <1>4, <1>8, LongestBounds, Limits DEF IInv, Bounded, Longest
<1>10. QED
  BY <1>6, <1>7, <1>9 DEF IInv

\* A body that ends with its stream: what the head's read left over, then any
\* number of reads, each charged before its bytes are kept.
LEMMA EofSteps ==
    ASSUME IInv,
           BeginEof \/ ChargeRemainder \/ \E count \in 1 .. SCRATCH_BYTES : EofBytes(count)
    PROVE  IInv'
<1>1. CASE BeginEof
  <2>1. /\ pc = "begin" /\ pc' = "remainder" /\ message.framing.kind = "Close"
        /\ decoded' = SubSeq(buffer, offset + 1, Len(buffer))
        /\ UNCHANGED <<message, taken, buffer, offset, head, output, need, section, permit, result>>
    BY <1>1 DEF BeginEof, source
  <2>2. /\ buffer \in Seq(Bytes) /\ offset \in Nat /\ Len(buffer) \in Nat /\ offset <= Len(buffer)
    BY Lengths DEF IInv, TypeInv
  <2>3. decoded' \in Seq(Bytes) /\ Len(decoded') = Len(buffer) - offset
    BY <2>1, <2>2, Piece
  <2>4. permit = 0 /\ result = "none" /\ Len(buffer) < SCRATCH_BYTES
    BY <2>1 DEF IInv, Charged, Bounded
  <2>5. TypeInv'
    BY <2>1, <2>2, <2>3 DEF IInv, TypeInv, wire
  <2>6. Charged'
    BY <2>1, <2>4, Limits DEF Charged
  <2>7. Len(decoded') < SCRATCH_BYTES
    BY <2>2, <2>3, <2>4, Limits
  <2>8. Bounded'
    BY <2>1, <2>7 DEF IInv, Bounded, Longest
  <2>9. QED
    BY <2>5, <2>6, <2>8 DEF IInv
<1>2. CASE ChargeRemainder
  <2>1. /\ pc = "remainder"
        /\ UNCHANGED <<message, taken, buffer, offset, head, output, need, section, decoded>>
    BY <1>2 DEF ChargeRemainder, source
  <2>2. /\ permit = 0 /\ result = "none" /\ Len(decoded) \in Nat
        /\ message.framing.kind = "Close" /\ Len(decoded) < SCRATCH_BYTES
    BY <2>1, Lengths DEF IInv, Charged, Bounded
  <2>3. CASE /\ Len(decoded) <= MAX_BODY_BYTES /\ permit' = permit + Len(decoded)
             /\ pc' = "eof" /\ UNCHANGED result
    <3>1. TypeInv'
      BY <2>1, <2>2, <2>3 DEF IInv, TypeInv, wire
    <3>2. Charged'
      BY <2>1, <2>2, <2>3, Limits DEF Charged
    <3>3. Bounded'
      BY <2>1, <2>3 DEF IInv, Bounded, Longest
    <3>4. QED
      BY <3>1, <3>2, <3>3 DEF IInv
  <2>4. CASE pc' = "done" /\ result' \in {"Busy", "Upstream"} /\ UNCHANGED permit
    <3>1. TypeInv'
      BY <2>1, <2>4 DEF IInv, TypeInv, wire
    <3>2. CopiedAhead'
      BY <2>1, <2>2, <2>4 DEF CopiedAhead
    <3>3. Charged'
      BY <2>1, <2>2, <2>4, <3>2, Limits DEF Charged
    <3>4. Bounded'
      BY <2>1, <2>4 DEF IInv, Bounded, Longest
    <3>5. QED
      BY <3>1, <3>3, <3>4 DEF IInv
  <2>5. QED
    BY <1>2, <2>3, <2>4 DEF ChargeRemainder, Return
<1>3. ASSUME NEW count \in 1 .. SCRATCH_BYTES, EofBytes(count)
      PROVE  IInv'
  <2>1. /\ pc = "eof" /\ taken + count <= Len(wire) /\ taken' = taken + count
        /\ UNCHANGED <<message, buffer, offset, head, output, need, section>>
    BY <1>3 DEF EofBytes
  <2>2. /\ taken \in Nat /\ count \in Nat /\ Len(wire) \in Nat /\ wire \in Seq(Bytes)
        /\ decoded \in Seq(Bytes) /\ Len(decoded) \in Nat /\ permit \in Nat
    BY Lengths, Limits DEF IInv, TypeInv
  <2>3. permit = Len(decoded) /\ result = "none" /\ permit <= MAX_BODY_BYTES
    BY <2>1 DEF IInv, Charged
  <2>4. taken' \in 0 .. Len(wire)
    BY <2>1, <2>2
  <2>5. CASE /\ Len(decoded) + count <= MAX_BODY_BYTES /\ permit' = permit + count
             /\ decoded' = decoded \o SubSeq(wire, taken + 1, taken + count)
             /\ UNCHANGED <<pc, result>>
    <3>1. PICK upto \in Nat : upto = taken + count
      BY <2>2
    <3>2. taken <= upto /\ upto <= Len(wire)
      BY <2>1, <2>2, <3>1
    <3>3. /\ SubSeq(wire, taken + 1, upto) \in Seq(Bytes)
          /\ Len(SubSeq(wire, taken + 1, upto)) = upto - taken
      BY <2>2, <3>2, Piece
    <3>4. decoded' \in Seq(Bytes) /\ Len(decoded') = Len(decoded) + (upto - taken)
      BY <2>2, <2>5, <3>1, <3>3, ConcatProperties
    <3>5. Len(decoded') = Len(decoded) + count
      BY <2>2, <3>1, <3>4
    <3>6. TypeInv'
      BY <2>1, <2>2, <2>4, <2>5, <3>4 DEF IInv, TypeInv, wire
    <3>7. Charged'
      BY <2>1, <2>2, <2>3, <2>5, <3>5 DEF Charged
    <3>8. Bounded'
      BY <2>1, <2>5 DEF IInv, Bounded, Longest
    <3>9. QED
      BY <3>6, <3>7, <3>8 DEF IInv
  <2>6. CASE pc' = "done" /\ result' \in {"Busy", "Upstream"} /\ UNCHANGED <<permit, decoded>>
    <3>1. TypeInv'
      BY <2>1, <2>4, <2>6 DEF IInv, TypeInv, wire
    <3>2. Charged'
      BY <2>2, <2>3, <2>6 DEF Charged
    <3>3. Bounded'
      BY <2>1, <2>6 DEF IInv, Bounded, Longest
    <3>4. QED
      BY <3>1, <3>2, <3>3 DEF IInv
  <2>7. QED
    BY <1>3, <2>5, <2>6 DEF EofBytes, Return
<1>4. QED
  BY <1>1, <1>2, <1>3

LEMMA NextKeepsIInv == IInv /\ [Next]_vars => IInv'
<1> SUFFICES ASSUME IInv, [Next]_vars
             PROVE  IInv'
  OBVIOUS
<1>1. CASE UNCHANGED vars
  BY <1>1, StutterStep
<1>2. CASE \E count \in 1 .. SCRATCH_BYTES : ReadHead(count)
  BY <1>2, ReadHeadStep
<1>3. CASE BeginNone \/ BeginLength \/ BeginChunked
  BY <1>3, BeginSteps
<1>4. CASE \/ BeginBusy \/ BeginTooLong \/ LineTooLong \/ ImmediateExtra \/ NoImmediateExtra
           \/ EndOfFile \/ ReadTimeout \/ StreamFails
  BY <1>4, RefusalSteps
<1>5. CASE LineByte
  BY <1>5, LineByteStep
<1>6. CASE ChunkLine
  BY <1>6, ChunkLineStep
<1>7. CASE \E count \in 1 .. MAX_BODY_BYTES : StreamBytes(count)
  BY <1>7, StreamBytesStep
<1>8. CASE LengthRead \/ DataRead \/ TerminatorRead
  BY <1>8, ReadSteps
<1>9. CASE TrailerLine
  BY <1>9, TrailerLineStep
<1>10. CASE BeginEof \/ ChargeRemainder \/ \E count \in 1 .. SCRATCH_BYTES : EofBytes(count)
  BY <1>10, EofSteps
<1>11. CASE Returned
  BY <1>11, StutterStep DEF Returned
<1>12. QED
  BY <1>1, <1>2, <1>3, <1>4, <1>5, <1>6, <1>7, <1>8, <1>9, <1>10, <1>11 DEF Next

LEMMA IInvAlways == Spec => []IInv
  BY InitIInv, NextKeepsIInv, PTL DEF Spec

\* Of every message and however it arrives: read_request_body, read_chunked and
\* read_to_eof_bounded charge the budget for every byte of a body before they
\* hold it, but for the copy of what came with the head of a body that ends with
\* its stream, which is made before grow, is shorter than one read and stays
\* uncharged when grow or the maximum refuses it; they charge no more than the
\* maximum, return a body charged with exactly its length, and no line or trailer
\* section outgrows its limit by more than the byte that is over it.
THEOREM ChargedOrCopiedAheadAlways == Spec => []ChargedOrCopiedAhead
<1>1. IInv => ChargedOrCopiedAhead
  <2> SUFFICES ASSUME IInv PROVE ChargedOrCopiedAhead
    OBVIOUS
  <2>1. /\ Len(decoded) \in Nat /\ need \in Nat /\ permit \in Nat
    BY Lengths DEF IInv, TypeInv
  <2>2. Held <= permit \/ CopiedAhead
    <3>1. CASE pc = "remainder"
      BY <3>1 DEF IInv, Charged, Bounded, CopiedAhead
    <3>2. CASE pc = "done"
      BY <2>1, <3>2 DEF IInv, Charged, Held
    <3>3. CASE pc \notin {"remainder", "done"}
      BY <2>1, <3>3, EmptyIsSeq DEF IInv, Charged, TypeInv, Held
    <3>4. QED
      BY <3>1, <3>2, <3>3
  <2>3. permit <= MAX_BODY_BYTES /\ (result = "Ok" => permit = Len(decoded))
    BY DEF IInv, Charged
  <2>4. Len(section) + Len(output) <= Longest
    BY DEF IInv, Bounded
  <2>5. QED
    BY <2>2, <2>3, <2>4 DEF ChargedOrCopiedAhead, Longest
<1>2. QED
  BY <1>1, IInvAlways, PTL

-----------------------------------------------------------------------------
(* Where the reader stands on the wire, for bodies that are not chunked.   *)

\* Two adjacent pieces, and a piece of a piece.
LEMMA Join ==
    ASSUME NEW S, NEW s \in Seq(S), NEW a \in Nat, NEW b \in Nat, NEW c \in Nat,
           a <= b, b <= c, c <= Len(s)
    PROVE  SubSeq(s, a + 1, b) \o SubSeq(s, b + 1, c) = SubSeq(s, a + 1, c)
<1>1. Len(s) \in Nat
  OBVIOUS
<1>2. a + 1 \in 1 .. Len(s) + 1 /\ b \in (a + 1) - 1 .. Len(s) /\ c \in b .. Len(s)
  BY <1>1
<1>3. QED
  BY <1>2, ConcatAdjacentSubSeq

LEMMA Slice ==
    ASSUME NEW S, NEW s \in Seq(S), NEW a \in Nat, NEW b \in Nat, NEW c \in Nat, NEW d \in Nat,
           a <= b, b <= Len(s), c <= d, a + d <= b
    PROVE  SubSeq(SubSeq(s, a + 1, b), c + 1, d) = SubSeq(s, a + c + 1, a + d)
<1>1. Len(s) \in Nat
  OBVIOUS
<1>2. CASE c = d
  <2>1. SubSeq(SubSeq(s, a + 1, b), c + 1, d) = <<>>
    BY <1>2, SubSeqEmpty
  <2>2. SubSeq(s, a + c + 1, a + d) = <<>>
    BY <1>2, SubSeqEmpty
  <2>3. QED
    BY <2>1, <2>2
<1>3. CASE c < d
  <2>1. /\ a + 1 \in 1 .. Len(s) /\ b \in 1 .. Len(s)
        /\ c + 1 \in 1 .. b - (a + 1) + 1 /\ d \in 1 .. b - (a + 1) + 1
    BY <1>1, <1>3
  <2>2. SubSeq(SubSeq(s, a + 1, b), c + 1, d) = SubSeq(s, (a + 1) + (c + 1) - 1, (a + 1) + d - 1)
    BY <2>1, SubSeqOfSubSeq
  <2>3. (a + 1) + (c + 1) - 1 = a + c + 1 /\ (a + 1) + d - 1 = a + d
    OBVIOUS
  <2>4. QED
    BY <2>2, <2>3
<1>4. QED
  BY <1>2, <1>3

\* The end of the head does not depend on how much of the wire has come.
LEMMA HeadEndOfPrefix ==
    ASSUME NEW s \in Seq(Bytes), NEW n \in Nat, n <= Len(s), HeadEnd(SubSeq(s, 1, n)) # 0
    PROVE  HeadEnd(s) = HeadEnd(SubSeq(s, 1, n))
<1> DEFINE p == SubSeq(s, 1, n)
           ends(bytes) == {i \in 4 .. Len(bytes) : SubSeq(bytes, i - 3, i) = Crlf \o Crlf}
           first == ends(p)
           all == ends(s)
<1>1. Len(s) \in Nat /\ first \in SUBSET Nat /\ all \in SUBSET Nat
  OBVIOUS
<1>2. Len(p) = n
  <2>1. Len(SubSeq(s, 0 + 1, n)) = n - 0
    BY Piece
  <2>2. QED
    BY <2>1
<1>3. \A i \in 4 .. n : SubSeq(p, i - 3, i) = SubSeq(s, i - 3, i)
  <2> TAKE i \in 4 .. n
  <2>1. i - 4 \in Nat /\ i \in Nat /\ i - 4 <= i /\ 0 + i <= n /\ 0 <= n
    OBVIOUS
  <2>2. SubSeq(SubSeq(s, 0 + 1, n), (i - 4) + 1, i) = SubSeq(s, 0 + (i - 4) + 1, 0 + i)
    BY <2>1, Slice
  <2>3. (i - 4) + 1 = i - 3 /\ 0 + (i - 4) + 1 = i - 3 /\ 0 + i = i /\ 0 + 1 = 1
    BY <2>1
  <2>4. QED
    BY <2>2, <2>3
<1> HIDE DEF p
<1>4. \A i : i \in first <=> i \in all /\ i <= n
  <2>1. ASSUME NEW i \in first PROVE i \in all /\ i <= n
    <3>1. i \in 4 .. n /\ SubSeq(p, i - 3, i) = Crlf \o Crlf
      BY <1>2
    <3>2. i \in 4 .. Len(s) /\ i <= n
      BY <1>1, <3>1
    <3>3. SubSeq(s, i - 3, i) = Crlf \o Crlf
      BY <1>3, <3>1
    <3>4. QED
      BY <3>2, <3>3
  <2>2. ASSUME NEW i \in all, i <= n PROVE i \in first
    <3>1. i \in 4 .. n /\ SubSeq(s, i - 3, i) = Crlf \o Crlf
      BY <1>1, <2>2
    <3>2. SubSeq(p, i - 3, i) = Crlf \o Crlf
      BY <1>3, <3>1
    <3>3. QED
      BY <1>2, <3>1, <3>2
  <2>3. QED
    BY <2>1, <2>2
<1>5. HeadEnd(p) = IF first = {} THEN 0 ELSE Min(first)
  BY DEF HeadEnd
<1>6. HeadEnd(s) = IF all = {} THEN 0 ELSE Min(all)
  BY DEF HeadEnd
<1> HIDE DEF first, all
<1>7. first # {}
  BY <1>5 DEF p
<1>8. Min(first) \in first /\ \A i \in first : Min(first) <= i
  BY <1>1, <1>7, SmallestOf
<1>9. all # {}
  BY <1>4, <1>7
<1>10. Min(all) \in all /\ \A i \in all : Min(all) <= i
  BY <1>1, <1>9, SmallestOf
<1>11. Min(all) <= Min(first) /\ Min(all) \in Nat /\ Min(first) \in Nat /\ Min(first) <= n
  BY <1>1, <1>4, <1>8, <1>10
<1>12. Min(all) \in first
  BY <1>4, <1>10, <1>11
<1>13. Min(first) <= Min(all)
  BY <1>8, <1>12
<1>14. Min(first) = Min(all)
  BY <1>11, <1>13
<1>15. QED
  BY <1>5, <1>6, <1>7, <1>9, <1>14 DEF p

\* Where the head of the message ends, and how many bytes of body follow when
\* the framing says so.
HeadLength == HeadEnd(wire)
BodyLength ==
    CASE message.framing.kind = "None" -> 0
      [] message.framing.kind = "ContentLength" -> message.framing.length
      [] OTHER -> Len(wire) - HeadLength

Chunked == message.framing.kind = "Chunked"
Sent(length) == SubSeq(wire, HeadLength + 1, HeadLength + length)

\* How far the reader is, stage by stage: what is taken is the head, the part of
\* the body that is read, and what is still in the buffer.
Position ==
    /\ pc = "head" => head = SubSeq(wire, 1, taken)
    /\ pc \notin {"head", "done"} => HeadLength <= taken /\ head = SubSeq(wire, 1, HeadLength)
    /\ pc = "begin" => offset = 0 /\ buffer = SubSeq(wire, HeadLength + 1, taken)
    /\ pc \in {"line", "data", "terminator", "trailers"} => Chunked
    /\ pc = "length" =>
         /\ message.framing.kind = "ContentLength" /\ need = BodyLength
         /\ output = Sent(Len(output)) /\ taken = HeadLength + Len(output) + buffered_len
         /\ Len(output) < need => buffered_len = 0
    /\ pc = "extra" /\ ~Chunked =>
         /\ message.framing.kind \in {"None", "ContentLength"}
         /\ decoded = Sent(BodyLength) /\ taken = HeadLength + BodyLength + buffered_len
    /\ pc \in {"remainder", "eof"} =>
         message.framing.kind = "Close" /\ decoded = SubSeq(wire, HeadLength + 1, taken)

\* What the reader returned.
Settled ==
    pc = "done" /\ ~Chunked =>
        /\ result # "Disagreement"
        /\ result \in {"Ok", "Protocol"} =>
             /\ HeadLength <= Len(wire) /\ head = SubSeq(wire, 1, HeadLength)
             /\ message.framing.kind \in {"None", "ContentLength", "Close"}
        /\ result = "Ok" => decoded = Sent(BodyLength) /\ taken = HeadLength + BodyLength
        /\ result = "Protocol" =>
             message.framing.kind # "Close" /\ Len(wire) > HeadLength + BodyLength

PInv ==
    /\ IInv
    /\ Position
    /\ Settled

\* An answer that is neither the body nor a complaint about it settles nothing.
LEMMA OtherAnswers ==
    ASSUME PInv, NEW answer, Return(answer), answer \notin {"Ok", "Protocol", "Disagreement"}
    PROVE  Position' /\ Settled'
  BY DEF Return, Position, Settled

\* The stages of a chunked body lead to one another.
LEMMA ChunkedStages ==
    ASSUME PInv, pc \in {"line", "data", "terminator", "trailers"},
           pc' \in {"line", "data", "terminator", "trailers", "extra", "done"},
           UNCHANGED <<message, head>>, taken' \in Nat, taken <= taken'
    PROVE  Position' /\ Settled'
<1>1. Chunked /\ HeadLength <= taken /\ head = SubSeq(wire, 1, HeadLength)
  BY DEF PInv, Position
<1>2. Chunked' /\ HeadLength' = HeadLength /\ wire' = wire
  BY <1>1 DEF Chunked, HeadLength, wire
<1>3. wire \in Seq(Bytes) /\ taken \in Nat
  BY Lengths DEF PInv, IInv
<1>4. HeadLength \in Nat
  BY <1>3, HeadEndWithin DEF HeadLength
<1>5. HeadLength' <= taken' /\ head' = SubSeq(wire', 1, HeadLength')
  BY <1>1, <1>2, <1>3, <1>4
<1>6. QED
  BY <1>2, <1>5 DEF Position, Settled

LEMMA ChunkedPosition ==
    ASSUME PInv,
           \/ LineByte \/ LineTooLong \/ ChunkLine \/ DataRead \/ TerminatorRead \/ TrailerLine
           \/ pc # "length" /\ \E count \in 1 .. MAX_BODY_BYTES : StreamBytes(count)
    PROVE  Position' /\ Settled'
<1>1. taken \in Nat /\ Len(buffer) \in Nat
  BY Lengths DEF PInv, IInv
<1>2. UNCHANGED <<message, head>>
  BY DEF LineByte, LineTooLong, ChunkLine, DataRead, TerminatorRead, TrailerLine, StreamBytes
<1>3. taken' = taken \/ taken' = taken + 1 \/ \E count \in 1 .. MAX_BODY_BYTES : taken' = taken + count
  BY DEF LineByte, NextByte, LineTooLong, ChunkLine, StartExact, DataRead, TerminatorRead, TrailerLine,
         StreamBytes, source
<1>4. taken' \in Nat /\ taken <= taken'
  BY <1>1, <1>3, Limits
<1>5. pc \in {"line", "data", "terminator", "trailers"}
  BY DEF LineByte, Reading, LineTooLong, ChunkLine, DataRead, TerminatorRead, TrailerLine, StreamBytes
<1>6. pc' \in {"line", "data", "terminator", "trailers", "extra", "done"}
  BY <1>5 DEF LineByte, LineTooLong, Return, ChunkLine, StartExact, DataRead, TerminatorRead,
              TrailerLine, StreamBytes
<1>7. QED
  BY <1>2, <1>4, <1>5, <1>6, ChunkedStages

LEMMA ReadHeadPosition ==
    ASSUME PInv, NEW count \in 1 .. SCRATCH_BYTES, ReadHead(count)
    PROVE  Position' /\ Settled'
<1> DEFINE bytes == head \o SubSeq(wire, taken + 1, taken + count)
           end == HeadEnd(bytes)
<1>1. /\ pc = "head" /\ taken + count <= Len(wire) /\ taken' = taken + count
      /\ UNCHANGED <<message, offset>> /\ offset = 0
  BY DEF ReadHead, PInv, IInv, Bounded
<1>2. /\ taken \in Nat /\ count \in Nat /\ Len(wire) \in Nat /\ wire \in Seq(Bytes)
  BY Lengths, Limits DEF PInv, IInv
<1>3. PICK upto \in Nat : upto = taken + count
  BY <1>2
<1>4. bytes = SubSeq(wire, 1, upto)
  <2>1. 0 <= taken /\ taken <= upto /\ upto <= Len(wire)
    BY <1>1, <1>2, <1>3
  <2>2. SubSeq(wire, 0 + 1, taken) \o SubSeq(wire, taken + 1, upto) = SubSeq(wire, 0 + 1, upto)
    BY <1>2, <2>1, Join
  <2>3. SubSeq(wire, 1, taken) \o SubSeq(wire, taken + 1, upto) = SubSeq(wire, 1, upto)
    <3>1. 0 + 1 = 1
      OBVIOUS
    <3>2. QED
      BY <2>2, <3>1, Zenon
  <2>4. head = SubSeq(wire, 1, taken)
    BY <1>1 DEF PInv, Position
  <2>5. QED
    BY <1>3, <2>3, <2>4
<1>5. \/ head' = bytes /\ pc' = "head"
      \/ /\ end \in 1 .. MAX_HEAD_BYTES
         /\ head' = SubSeq(bytes, 1, end) /\ buffer' = SubSeq(bytes, end + 1, Len(bytes))
         /\ pc' = "begin"
      \/ Return("TooLarge")
  BY <1>1 DEF ReadHead
<1> HIDE DEF bytes
<1>6. CASE head' = bytes /\ pc' = "head"
  BY <1>1, <1>3, <1>4, <1>6 DEF Position, Settled, wire
<1>7. CASE /\ end \in 1 .. MAX_HEAD_BYTES
           /\ head' = SubSeq(bytes, 1, end) /\ buffer' = SubSeq(bytes, end + 1, Len(bytes))
           /\ pc' = "begin"
  <2>1. HeadLength = end
    <3>1. HeadEnd(SubSeq(wire, 1, upto)) # 0
      BY <1>4, <1>7
    <3>2. upto <= Len(wire)
      BY <1>1, <1>3
    <3>3. QED
      BY <1>2, <1>4, <3>1, <3>2, HeadEndOfPrefix DEF HeadLength
  <2>2. bytes \in Seq(Bytes) /\ Len(bytes) = upto
    <3>1. /\ SubSeq(wire, 0 + 1, upto) \in Seq(Bytes) /\ Len(SubSeq(wire, 0 + 1, upto)) = upto - 0
      BY <1>1, <1>2, <1>3, Piece
    <3>2. QED
      BY <1>4, <3>1
  <2>3. end \in Nat /\ end <= upto
    BY <2>2, HeadEndWithin
  <2> HIDE DEF end
  <2>4. SubSeq(bytes, 1, end) = SubSeq(wire, 1, end)
    <3>1. SubSeq(SubSeq(wire, 0 + 1, upto), 0 + 1, end) = SubSeq(wire, 0 + 0 + 1, 0 + end)
      BY <1>1, <1>2, <1>3, <2>3, Slice
    <3>2. QED
      BY <1>4, <2>3, <3>1
  <2>5. SubSeq(bytes, end + 1, upto) = SubSeq(wire, end + 1, upto)
    <3>1. SubSeq(SubSeq(wire, 0 + 1, upto), end + 1, upto) = SubSeq(wire, 0 + end + 1, 0 + upto)
      BY <1>1, <1>2, <1>3, <2>3, Slice
    <3>2. QED
      BY <1>4, <2>3, <3>1
  <2>6. /\ HeadLength' = HeadLength /\ wire' = wire /\ taken' = upto
    BY <1>1, <1>3 DEF HeadLength, wire
  <2>7. QED
    BY <1>1, <1>7, <2>1, <2>2, <2>3, <2>4, <2>5, <2>6 DEF Position, Settled
<1>8. CASE Return("TooLarge")
  BY <1>8, OtherAnswers
<1>9. QED
  BY <1>5, <1>6, <1>7, <1>8

LEMMA Places ==
    ASSUME PInv
    PROVE  /\ wire \in Seq(Bytes) /\ Len(wire) \in Nat /\ taken \in Nat /\ taken <= Len(wire)
           /\ HeadLength \in Nat /\ HeadLength <= Len(wire)
           /\ buffered_len \in Nat /\ Len(buffer) \in Nat /\ Len(output) \in Nat
           /\ message.framing.kind \in {"None", "ContentLength"} => BodyLength \in Nat
<1>1. /\ wire \in Seq(Bytes) /\ Len(wire) \in Nat /\ taken \in Nat /\ taken <= Len(wire)
      /\ message.framing.length \in Nat
      /\ buffered_len \in Nat /\ Len(buffer) \in Nat /\ Len(output) \in Nat
  BY Lengths DEF PInv, IInv, TypeInv
<1>2. HeadLength \in Nat /\ HeadLength <= Len(wire)
  BY <1>1, HeadEndWithin DEF HeadLength
<1>3. QED
  BY <1>1, <1>2 DEF BodyLength

\* While the message is the same one, so are its parts.
LEMMA SameMessage ==
    ASSUME UNCHANGED message
    PROVE  /\ wire' = wire /\ HeadLength' = HeadLength /\ BodyLength' = BodyLength
           /\ Chunked' = Chunked /\ message'.framing = message.framing
  BY DEF wire, HeadLength, BodyLength, Chunked

\* What came with the head is the beginning of the body.
LEMMA BeginPosition ==
    ASSUME PInv, BeginNone \/ BeginLength \/ BeginChunked \/ BeginEof
    PROVE  Position' /\ Settled'
<1>1. /\ pc = "begin" /\ UNCHANGED <<message, head, taken, buffer>>
  BY DEF BeginNone, BeginLength, BeginChunked, BeginEof, StartExact, source
<1>2. /\ wire' = wire /\ HeadLength' = HeadLength /\ BodyLength' = BodyLength
      /\ Chunked' = Chunked /\ message'.framing = message.framing
  BY <1>1, SameMessage
<1>3. /\ HeadLength <= taken /\ head = SubSeq(wire, 1, HeadLength)
      /\ offset = 0 /\ buffer = SubSeq(wire, HeadLength + 1, taken)
  BY <1>1 DEF PInv, Position
<1>4. Len(buffer) = taken - HeadLength /\ offset = 0
  BY <1>3, Places, Piece
<1>5. HeadLength' <= taken' /\ head' = SubSeq(wire', 1, HeadLength')
  BY <1>1, <1>2, <1>3
<1>6. CASE BeginNone
  <2>1. /\ pc' = "extra" /\ message.framing.kind = "None" /\ offset' = offset /\ decoded' = decoded
    BY <1>6 DEF BeginNone, source, body
  <2>2. BodyLength = 0 /\ ~Chunked
    BY <2>1 DEF BodyLength, Chunked
  <2>3. decoded = <<>>
    BY <1>1 DEF PInv, IInv, Charged
  <2>4. SubSeq(wire, HeadLength + 1, HeadLength + 0) = <<>>
    BY Places, SubSeqEmpty
  <2>5. decoded' = SubSeq(wire', HeadLength' + 1, HeadLength' + BodyLength')
    BY <1>2, <2>1, <2>2, <2>3, <2>4
  <2>6. taken' = HeadLength' + BodyLength' + buffered_len'
    BY <1>1, <1>2, <1>3, <1>4, <2>1, <2>2, Places DEF buffered_len
  <2>7. QED
    BY <1>2, <1>5, <2>1, <2>2, <2>5, <2>6 DEF Position, Settled, Sent
<1>7. CASE BeginLength
  <2>1. /\ message.framing.kind = "ContentLength" /\ BodyLength = message.framing.length
        /\ StartExact(BodyLength, "length")
    BY <1>7 DEF BeginLength, BodyLength
  <2>2. BodyLength \in Nat
    BY <2>1, Places
  <2>3. /\ need' = BodyLength /\ pc' = "length" /\ output' = SubSeq(buffer, offset + 1, offset')
        /\ Len(output') = offset' - offset /\ offset' \in 0 .. Len(buffer)
        /\ Len(output') < BodyLength => offset' = Len(buffer)
    BY <2>1, <2>2, ExactFromBuffer DEF PInv, IInv
  <2>4. PICK upto \in Nat : upto = offset' /\ upto <= Len(buffer)
    <3>1. offset' \in 0 .. Len(buffer) /\ Len(buffer) \in Nat
      BY <2>3, Places
    <3>2. QED
      BY <3>1
  <2>5. Len(output') = upto
    <3>1. Len(output') = offset' - offset
      BY <2>3
    <3>2. offset = 0
      BY <1>3, Zenon
    <3>3. offset' = upto
      BY <2>4, Zenon
    <3>4. upto - 0 = upto
      OBVIOUS
    <3>5. QED
      BY <3>1, <3>2, <3>3, <3>4, Zenon
  <2>6. output' = SubSeq(wire, HeadLength + 1, HeadLength + upto)
    <3>1. SubSeq(SubSeq(wire, HeadLength + 1, taken), 0 + 1, upto)
            = SubSeq(wire, HeadLength + 0 + 1, HeadLength + upto)
      <4>1. HeadLength \in Nat /\ taken \in Nat /\ taken <= Len(wire) /\ wire \in Seq(Bytes)
        BY Places
      <4>2. HeadLength <= taken /\ HeadLength + upto <= taken /\ 0 <= upto
        <5>1. upto <= taken - HeadLength
          <6>1. upto <= Len(buffer)
            BY <2>4, Zenon
          <6>2. Len(buffer) = taken - HeadLength
            BY <1>4, Zenon
          <6>3. QED
            BY <6>1, <6>2, Zenon
        <5>2. QED
          BY <4>1, <5>1
      <4>3. QED
        BY <4>1, <4>2, Slice
    <3>2. output' = SubSeq(SubSeq(wire, HeadLength + 1, taken), 0 + 1, upto)
      BY <1>3, <2>3, <2>4
    <3>3. HeadLength + 0 + 1 = HeadLength + 1
      BY Places
    <3>4. QED
      BY <3>1, <3>2, <3>3, Zenon
  <2>7. output' = SubSeq(wire', HeadLength' + 1, HeadLength' + Len(output'))
    BY <1>2, <2>5, <2>6
  <2>8. buffered_len' = Len(buffer) - upto
    BY <1>1, <2>4 DEF buffered_len
  <2>9. /\ taken' = HeadLength' + Len(output') + buffered_len'
        /\ Len(output') < need' => buffered_len' = 0
    <3>1. taken = HeadLength + upto + (Len(buffer) - upto)
      BY <1>4, <2>4, Places
    <3>2. taken' = HeadLength' + Len(output') + buffered_len'
      BY <1>1, <1>2, <2>5, <2>8, <3>1
    <3>3. Len(output') < need' => upto = Len(buffer)
      BY <2>3, <2>4
    <3>4. upto = Len(buffer) => buffered_len' = 0
      BY <2>4, <2>8
    <3>5. QED
      BY <3>2, <3>3, <3>4
  <2>10. message'.framing.kind = "ContentLength" /\ need' = BodyLength'
    BY <1>2, <2>1, <2>3
  <2>11. QED
    BY <1>5, <2>3, <2>7, <2>9, <2>10 DEF Position, Settled, Sent
<1>8. CASE BeginChunked
  <2>1. pc' = "line" /\ Chunked
    BY <1>8 DEF BeginChunked, Chunked
  <2>2. QED
    BY <1>2, <1>5, <2>1 DEF Position, Settled
<1>9. CASE BeginEof
  <2>1. /\ message.framing.kind = "Close" /\ decoded' = SubSeq(buffer, offset + 1, Len(buffer))
        /\ pc' = "remainder"
    BY <1>9 DEF BeginEof
  <2>2. buffer \in Seq(Bytes)
    BY DEF PInv, IInv, TypeInv
  <2>3. decoded' = buffer
    <3>1. decoded' = SubSeq(buffer, 1, Len(buffer))
      BY <1>3, <2>1
    <3>2. QED
      BY <2>2, <3>1, SubSeqFull
  <2>4. message'.framing.kind = "Close" /\ decoded' = SubSeq(wire', HeadLength' + 1, taken')
    BY <1>1, <1>2, <1>3, <2>1, <2>3
  <2>5. QED
    BY <1>5, <2>1, <2>4 DEF Position, Settled
<1>10. QED
  BY <1>6, <1>7, <1>8, <1>9

\* An exact read goes to the stream only when the buffer is used up, so that
\* its bytes follow those it has.
LEMMA LengthPosition ==
    ASSUME PInv, pc = "length",
           LengthRead \/ \E count \in 1 .. MAX_BODY_BYTES : StreamBytes(count)
    PROVE  Position' /\ Settled'
<1>1. UNCHANGED <<message, head, buffer, offset, need>>
  BY DEF LengthRead, StreamBytes, source
<1>2. /\ wire' = wire /\ HeadLength' = HeadLength /\ BodyLength' = BodyLength
      /\ Chunked' = Chunked /\ message'.framing = message.framing
  BY <1>1, SameMessage
<1>3. /\ HeadLength <= taken /\ head = SubSeq(wire, 1, HeadLength)
      /\ message.framing.kind = "ContentLength" /\ need = BodyLength
      /\ output = SubSeq(wire, HeadLength + 1, HeadLength + Len(output))
      /\ taken = HeadLength + Len(output) + buffered_len
      /\ Len(output) < need => buffered_len = 0
  BY DEF PInv, Position, Sent
<1>4. need \in Nat /\ buffered_len' = buffered_len
  BY <1>1 DEF PInv, IInv, TypeInv, buffered_len
<1>5. CASE LengthRead
  <2>1. /\ Len(output) = need /\ decoded' = output /\ pc' = "extra" /\ taken' = taken
    BY <1>5 DEF LengthRead, source
  <2>2. decoded' = SubSeq(wire', HeadLength' + 1, HeadLength' + BodyLength')
    BY <1>2, <1>3, <2>1
  <2>3. taken' = HeadLength' + BodyLength' + buffered_len'
    BY <1>2, <1>3, <1>4, <2>1
  <2>4. HeadLength' <= taken' /\ head' = SubSeq(wire', 1, HeadLength')
    BY <1>1, <1>2, <1>3, <2>1
  <2>5. QED
    BY <1>2, <1>3, <2>1, <2>2, <2>3, <2>4 DEF Position, Settled, Sent
<1>6. ASSUME NEW count \in 1 .. MAX_BODY_BYTES, StreamBytes(count)
      PROVE  Position' /\ Settled'
  <2>1. /\ Len(output) + count <= need /\ taken + count <= Len(wire)
        /\ output' = output \o SubSeq(wire, taken + 1, taken + count)
        /\ taken' = taken + count /\ pc' = pc
    BY <1>6 DEF StreamBytes
  <2>2. /\ wire \in Seq(Bytes) /\ Len(wire) \in Nat /\ taken \in Nat /\ HeadLength \in Nat
        /\ Len(output) \in Nat /\ count \in Nat /\ count > 0 /\ buffered_len \in Nat
    BY Places, Limits
  <2>3. Len(output) < need
    BY <1>4, <2>1, <2>2
  <2>4. buffered_len = 0
    BY <1>3, <2>3
  <2>5. taken = HeadLength + Len(output)
    BY <1>3, <2>2, <2>4
  <2>6. PICK upto \in Nat : upto = taken + count
    BY <2>2
  <2>7. HeadLength <= taken /\ taken <= upto /\ upto <= Len(wire)
    BY <1>3, <2>1, <2>2, <2>6
  <2>8. SubSeq(wire, HeadLength + 1, taken) \o SubSeq(wire, taken + 1, upto)
          = SubSeq(wire, HeadLength + 1, upto)
    BY <2>2, <2>7, Join
  <2>9. output' = SubSeq(wire, HeadLength + 1, upto)
    <3>1. output = SubSeq(wire, HeadLength + 1, taken)
      BY <1>3, <2>5, Zenon
    <3>2. output' = output \o SubSeq(wire, taken + 1, upto)
      BY <2>1, <2>6, Zenon
    <3>3. QED
      BY <2>8, <3>1, <3>2, Zenon
  <2>10. Len(output') = upto - HeadLength
    <3>1. Len(SubSeq(wire, HeadLength + 1, upto)) = upto - HeadLength
      <4>1. HeadLength <= upto
        BY <2>2, <2>7
      <4>2. QED
        BY <2>2, <2>7, <4>1, Piece
    <3>2. QED
      BY <2>9, <3>1, Zenon
  <2>11. HeadLength + Len(output') = upto
    BY <2>2, <2>10
  <2>12. output' = SubSeq(wire', HeadLength' + 1, HeadLength' + Len(output'))
    BY <1>2, <2>9, <2>11, Zenon
  <2>13. buffered_len' = 0
    BY <1>4, <2>4
  <2>14. taken' = upto /\ upto + 0 = upto
    BY <2>1, <2>6
  <2>15. taken' = HeadLength' + Len(output') + buffered_len'
    BY <1>2, <2>11, <2>13, <2>14, Zenon
  <2>16. HeadLength' <= taken' /\ head' = SubSeq(wire', 1, HeadLength')
    <3>1. HeadLength <= upto
      BY <2>2, <2>7
    <3>2. QED
      BY <1>1, <1>2, <1>3, <2>14, <3>1, Zenon
  <2>17. pc' = "length" /\ message'.framing.kind = "ContentLength" /\ need' = BodyLength'
    BY <1>1, <1>2, <1>3, <2>1
  <2>18. QED
    BY <2>12, <2>13, <2>15, <2>16, <2>17 DEF Position, Settled, Sent
<1>7. QED
  BY <1>5, <1>6

LEMMA ExtraPosition ==
    ASSUME PInv, ImmediateExtra \/ NoImmediateExtra
    PROVE  Position' /\ Settled'
<1>1. /\ pc = "extra" /\ pc' = "done" /\ UNCHANGED <<message, taken, buffer, offset, head, decoded>>
      /\ \/ result' = "Protocol" /\ (buffered_len # 0 \/ taken < Len(wire))
         \/ result' = "Ok" /\ buffered_len = 0
  BY DEF ImmediateExtra, NoImmediateExtra, Return, source, body
<1>2. /\ wire' = wire /\ HeadLength' = HeadLength /\ BodyLength' = BodyLength
      /\ Chunked' = Chunked /\ message'.framing = message.framing
  BY <1>1, SameMessage
<1>3. CASE Chunked
  BY <1>1, <1>2, <1>3 DEF Position, Settled
<1>4. CASE ~Chunked
  <2>1. /\ message.framing.kind \in {"None", "ContentLength"}
        /\ decoded = SubSeq(wire, HeadLength + 1, HeadLength + BodyLength)
        /\ taken = HeadLength + BodyLength + buffered_len
        /\ head = SubSeq(wire, 1, HeadLength)
    BY <1>1, <1>4 DEF PInv, Position, Sent
  <2>2. /\ HeadLength \in Nat /\ BodyLength \in Nat /\ buffered_len \in Nat
        /\ taken <= Len(wire) /\ Len(wire) \in Nat /\ HeadLength <= Len(wire)
    BY <2>1, Places
  <2>3. result' = "Ok" => taken = HeadLength + BodyLength
    BY <1>1, <2>1, <2>2
  <2>4. result' = "Protocol" => Len(wire) > HeadLength + BodyLength
    BY <1>1, <2>1, <2>2
  <2>5. QED
    BY <1>1, <1>2, <2>1, <2>2, <2>3, <2>4 DEF Position, Settled, Sent
<1>5. QED
  BY <1>3, <1>4

LEMMA EofPosition ==
    ASSUME PInv,
           ChargeRemainder \/ EndOfFile \/ \E count \in 1 .. SCRATCH_BYTES : EofBytes(count)
    PROVE  Position' /\ Settled'
<1>1. pc \in {"remainder", "eof"} /\ UNCHANGED <<message, head>>
  BY DEF ChargeRemainder, EndOfFile, EofBytes
<1>2. /\ wire' = wire /\ HeadLength' = HeadLength /\ BodyLength' = BodyLength
      /\ Chunked' = Chunked /\ message'.framing = message.framing
  BY <1>1, SameMessage
<1>3. /\ HeadLength <= taken /\ head = SubSeq(wire, 1, HeadLength)
      /\ message.framing.kind = "Close" /\ decoded = SubSeq(wire, HeadLength + 1, taken)
  BY <1>1 DEF PInv, Position
<1>4. /\ wire \in Seq(Bytes) /\ Len(wire) \in Nat /\ taken \in Nat /\ HeadLength \in Nat
      /\ HeadLength <= Len(wire)
  BY Places
<1>5. CASE EndOfFile
  <2>1. /\ taken = Len(wire) /\ pc' = "done" /\ result' = "Ok" /\ UNCHANGED <<taken, decoded>>
    BY <1>5 DEF EndOfFile, Return, source, body
  <2>2. HeadLength + BodyLength = taken
    BY <1>3, <1>4, <2>1 DEF BodyLength
  <2>3. decoded' = SubSeq(wire', HeadLength' + 1, HeadLength' + BodyLength')
    BY <1>2, <1>3, <2>1, <2>2, Zenon
  <2>4. taken' = HeadLength' + BodyLength'
    BY <1>2, <2>1, <2>2, Zenon
  <2>5. HeadLength' <= Len(wire') /\ head' = SubSeq(wire', 1, HeadLength')
    BY <1>1, <1>2, <1>3, <1>4, Zenon
  <2>6. QED
    BY <1>2, <1>3, <2>1, <2>3, <2>4, <2>5 DEF Position, Settled, Sent
<1>6. ASSUME NEW count \in 1 .. SCRATCH_BYTES, EofBytes(count)
      PROVE  Position' /\ Settled'
  <2>1. CASE Return("Busy") \/ Return("Upstream")
    BY <2>1, OtherAnswers
  <2>2. CASE /\ decoded' = decoded \o SubSeq(wire, taken + 1, taken + count)
             /\ UNCHANGED <<pc, result>>
    <3>1. taken' = taken + count /\ taken + count <= Len(wire)
      BY <1>6 DEF EofBytes
    <3>2. PICK upto \in Nat : upto = taken + count
      BY <1>4, Limits
    <3>3. taken <= upto /\ upto <= Len(wire) /\ HeadLength <= upto
      BY <1>3, <1>4, <3>1, <3>2, Limits
    <3>4. SubSeq(wire, HeadLength + 1, taken) \o SubSeq(wire, taken + 1, upto)
            = SubSeq(wire, HeadLength + 1, upto)
      BY <1>3, <1>4, <3>3, Join
    <3>5. taken' = upto
      BY <3>1, <3>2
    <3>6. decoded' = SubSeq(wire', HeadLength' + 1, taken')
      <4>1. decoded' = SubSeq(wire, HeadLength + 1, taken) \o SubSeq(wire, taken + 1, upto)
        BY <1>3, <2>2, <3>2, Zenon
      <4>2. QED
        BY <1>2, <3>4, <3>5, <4>1, Zenon
    <3>7. HeadLength' <= taken' /\ head' = SubSeq(wire', 1, HeadLength')
      BY <1>1, <1>2, <1>3, <3>3, <3>5, Zenon
    <3>8. QED
      BY <1>1, <1>2, <1>3, <2>2, <3>6, <3>7 DEF Position, Settled
  <2>3. QED
    BY <1>6, <2>1, <2>2 DEF EofBytes
<1>7. CASE ChargeRemainder
  <2>1. CASE Return("Busy") \/ Return("Upstream")
    BY <2>1, OtherAnswers
  <2>2. CASE pc' = "eof"
    <3>1. UNCHANGED <<taken, decoded>>
      BY <1>7 DEF ChargeRemainder, source
    <3>2. decoded' = SubSeq(wire', HeadLength' + 1, taken')
      BY <1>2, <1>3, <3>1, Zenon
    <3>3. HeadLength' <= taken' /\ head' = SubSeq(wire', 1, HeadLength')
      BY <1>1, <1>2, <1>3, <3>1, Zenon
    <3>4. QED
      BY <1>2, <1>3, <2>2, <3>2, <3>3 DEF Position, Settled
  <2>3. QED
    BY <1>7, <2>1, <2>2 DEF ChargeRemainder
<1>8. QED
  BY <1>5, <1>6, <1>7

LEMMA InitPInv == Init => PInv
<1> SUFFICES ASSUME Init PROVE PInv
  OBVIOUS
<1>1. IInv
  BY InitIInv
<1>2. SubSeq(wire, 1, 0) = <<>>
  BY SubSeqEmpty
<1>3. Position /\ Settled
  BY <1>2 DEF Init, Position, Settled
<1>4. QED
  BY <1>1, <1>3 DEF PInv

LEMMA NextKeepsPInv == PInv /\ [Next]_vars => PInv'
<1> SUFFICES ASSUME PInv, [Next]_vars
             PROVE  PInv'
  OBVIOUS
<1>1. IInv'
  BY NextKeepsIInv DEF PInv
<1> SUFFICES Position' /\ Settled'
  BY <1>1 DEF PInv
<1>2. CASE UNCHANGED vars
  BY <1>2 DEF vars, source, body, PInv, Position, Settled, Sent, HeadLength, BodyLength, Chunked, wire,
              buffered_len
<1>3. CASE \E count \in 1 .. SCRATCH_BYTES : ReadHead(count)
  BY <1>3, ReadHeadPosition
<1>4. CASE BeginNone \/ BeginLength \/ BeginChunked \/ BeginEof
  BY <1>4, BeginPosition
<1>5. CASE BeginBusy \/ BeginTooLong \/ LineTooLong \/ ReadTimeout \/ StreamFails
  BY <1>5, OtherAnswers DEF BeginBusy, BeginTooLong, LineTooLong, ReadTimeout, StreamFails
<1>6. CASE LineByte \/ ChunkLine \/ DataRead \/ TerminatorRead \/ TrailerLine
  BY <1>6, ChunkedPosition
<1>7. CASE LengthRead \/ \E count \in 1 .. MAX_BODY_BYTES : StreamBytes(count)
  <2>1. CASE pc = "length"
    BY <1>7, <2>1, LengthPosition
  <2>2. CASE pc # "length"
    <3>1. \E count \in 1 .. MAX_BODY_BYTES : StreamBytes(count)
      BY <1>7, <2>2 DEF LengthRead
    <3>2. QED
      BY <2>2, <3>1, ChunkedPosition
  <2>3. QED
    BY <2>1, <2>2
<1>8. CASE ImmediateExtra \/ NoImmediateExtra
  BY <1>8, ExtraPosition
<1>9. CASE ChargeRemainder \/ EndOfFile \/ \E count \in 1 .. SCRATCH_BYTES : EofBytes(count)
  BY <1>9, EofPosition
<1>10. CASE Returned
  BY <1>2, <1>10 DEF Returned
<1>11. QED
  BY <1>2, <1>3, <1>4, <1>5, <1>6, <1>7, <1>8, <1>9, <1>10 DEF Next

\* What the coding says of a message that is not chunked.
LEMMA TransmittedUnchunked ==
    ASSUME PInv, message.framing.kind \in {"None", "ContentLength", "Close"}
    PROVE  /\ Transmitted.end = BodyLength
           /\ HeadLength + BodyLength <= Len(wire) => Transmitted.content = Sent(BodyLength)
<1> DEFINE text == SubSeq(wire, HeadLength + 1, Len(wire))
           length == message.framing.length
<1>1. /\ wire \in Seq(Bytes) /\ Len(wire) \in Nat /\ HeadLength \in Nat /\ HeadLength <= Len(wire)
      /\ length \in Nat
  BY Places, Lengths DEF PInv, IInv
<1>2. text \in Seq(Bytes) /\ Len(text) = Len(wire) - HeadLength
  BY <1>1, Piece
<1>3. CASE message.framing.kind = "None"
  <2>1. Transmitted = [end |-> 0, content |-> <<>>] /\ BodyLength = 0
    BY <1>3 DEF Transmitted, BodyLength
  <2>2. SubSeq(wire, HeadLength + 1, HeadLength + 0) = <<>>
    BY <1>1, SubSeqEmpty
  <2>3. QED
    BY <2>1, <2>2 DEF Sent
<1>4. CASE message.framing.kind = "ContentLength"
  <2>1. /\ Transmitted = [end |-> length, content |-> SubSeq(text, 1, Min({length, Len(text)}))]
        /\ BodyLength = length
    BY <1>4 DEF Transmitted, BodyLength, HeadLength
  <2>2. ASSUME HeadLength + length <= Len(wire)
        PROVE  SubSeq(text, 1, Min({length, Len(text)})) = Sent(length)
    <3>1. Len(text) \in Nat /\ length <= Len(text)
      BY <1>1, <1>2, <2>2
    <3> HIDE DEF text, length
    <3>2. Min({length, Len(text)}) = length
      <4>1. length \in Nat /\ Len(text) \in Nat
        BY <1>1, <3>1
      <4>2. /\ Min({length, Len(text)}) \in Nat /\ Min({length, Len(text)}) <= length
            /\ Min({length, Len(text)}) = length \/ Min({length, Len(text)}) = Len(text)
        BY <4>1, MinOfTwo, Zenon
      <4>3. PICK least : least = Min({length, Len(text)})
        OBVIOUS
      <4>4. least \in Nat /\ least <= length /\ (least = length \/ least = Len(text))
        BY <4>2, <4>3, Zenon
      <4>5. least = length
        BY <3>1, <4>1, <4>4
      <4>6. QED
        BY <4>3, <4>5, Zenon
    <3>3. SubSeq(SubSeq(wire, HeadLength + 1, Len(wire)), 0 + 1, length)
            = SubSeq(wire, HeadLength + 0 + 1, HeadLength + length)
      BY <1>1, <2>2, Slice
    <3>4. 0 + 1 = 1 /\ HeadLength + 0 + 1 = HeadLength + 1
      BY <1>1
    <3>5. SubSeq(text, 1, length) = SubSeq(wire, HeadLength + 1, HeadLength + length)
      BY <3>3, <3>4, Zenon DEF text
    <3>6. QED
      BY <3>2, <3>5, Zenon DEF Sent
  <2> HIDE DEF text, length
  <2>3. Transmitted.end = length /\ Transmitted.content = SubSeq(text, 1, Min({length, Len(text)}))
    BY <2>1
  <2>4. QED
    BY <2>1, <2>2, <2>3
<1>5. CASE message.framing.kind = "Close"
  <2>1. Transmitted = [end |-> Len(text), content |-> text] /\ BodyLength = Len(wire) - HeadLength
    BY <1>5 DEF Transmitted, BodyLength, HeadLength
  <2>2. HeadLength + BodyLength = Len(wire)
    BY <1>1, <2>1
  <2>3. text = Sent(BodyLength)
    BY <2>2, Zenon DEF Sent
  <2> HIDE DEF text
  <2>4. Transmitted.end = Len(text) /\ Transmitted.content = text
    BY <2>1
  <2>5. QED
    BY <1>2, <2>1, <2>3, <2>4, Zenon
<1>6. QED
  BY <1>3, <1>4, <1>5

\* However the wire is cut into reads and wherever the read of the head ended,
\* a message without a body, with a length, or ended by its stream is taken off
\* the wire as one message: head and body are exactly its bytes, and nothing of
\* what follows is taken; it is refused as malformed only if more bytes follow.
THEOREM TakesOneUnchunkedMessage ==
    Spec => [](message.framing.kind \in {"None", "ContentLength", "Close"} => TakesOneMessage)
<1>1. PInv => (message.framing.kind \in {"None", "ContentLength", "Close"} => TakesOneMessage)
  <2> SUFFICES ASSUME PInv, message.framing.kind \in {"None", "ContentLength", "Close"},
                      result \in {"Ok", "Protocol", "Disagreement"}
               PROVE  IF result = "Ok"
                      THEN /\ head = SubSeq(wire, 1, HeadEnd(wire))
                           /\ decoded = Transmitted.content
                           /\ message.framing.kind = "Chunked" => Transmitted.end > 0
                           /\ taken = Len(head) + Transmitted.end
                      ELSE \/ message.framing.kind = "Chunked" /\ Transmitted.end = 0
                           \/ Len(wire) > Len(head) + Transmitted.end
    BY DEF TakesOneMessage
  <2>1. pc = "done" /\ ~Chunked
    BY DEF PInv, IInv, Charged, Chunked
  <2>2. /\ result # "Disagreement" /\ head = SubSeq(wire, 1, HeadLength)
        /\ result = "Ok" => decoded = Sent(BodyLength) /\ taken = HeadLength + BodyLength
        /\ result = "Protocol" => Len(wire) > HeadLength + BodyLength
    BY <2>1 DEF PInv, Settled
  <2>3. /\ wire \in Seq(Bytes) /\ HeadLength \in Nat /\ HeadLength <= Len(wire) /\ taken <= Len(wire)
    BY Places
  <2>4. Len(head) = HeadLength
    <3>1. Len(SubSeq(wire, 0 + 1, HeadLength)) = HeadLength - 0
      BY <2>3, Piece
    <3>2. QED
      BY <2>2, <2>3, <3>1
  <2>5. Transmitted.end = BodyLength
    BY TransmittedUnchunked
  <2>6. CASE result = "Ok"
    <3>1. Transmitted.content = Sent(BodyLength)
      BY <2>2, <2>3, <2>6, TransmittedUnchunked
    <3>2. QED
      BY <2>1, <2>2, <2>4, <2>5, <2>6, <3>1 DEF HeadLength, Chunked
  <2>7. CASE result = "Protocol"
    BY <2>2, <2>4, <2>5, <2>7
  <2>8. QED
    BY <2>2, <2>6, <2>7
<1>2. QED
  BY <1>1, InitPInv, NextKeepsPInv, PTL DEF Spec

=============================================================================
