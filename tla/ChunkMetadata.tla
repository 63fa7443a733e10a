--------------------------- MODULE ChunkMetadata ---------------------------
(***************************************************************************)
(* parse_chunk_metadata of specs/polyform.toml, and its five               *)
(* implementations under src/src/implementations/chunk_*.rs.               *)
(*                                                                         *)
(* A byte is a hexadecimal digit 0 .. 15 (a token byte as well), Letter    *)
(* (another token byte, lower case), Capital (its upper case), Semicolon,  *)
(* Equals, Quote, Escape, Plain (printable, none of these), Control, CR,   *)
(* LF, Wide (one valid non-ASCII character) or Broken (a byte that is not  *)
(* UTF-8).                                                                 *)
(***************************************************************************)
EXTENDS Integers, Sequences, SequencesExt

CONSTANTS
    MAX_LINE_BYTES,       \* 1024
    MAX_CHUNK_SIZE,       \* 16777216
    MAX_SIZE_DIGITS,      \* 16
    MAX_EXTENSIONS,       \* 16
    MAX_EXTENSION_NAME    \* 64

ASSUME ChunkAssumption ==
    {MAX_LINE_BYTES, MAX_CHUNK_SIZE, MAX_SIZE_DIGITS, MAX_EXTENSIONS, MAX_EXTENSION_NAME}
        \subseteq Nat \ {0}

Letter == 16
Capital == 17
Semicolon == 18
Equals == 19
Quote == 20
Escape == 21
Plain == 22
Control == 23
CR == 24
LF == 25
Wide == 26
Broken == 27

IsTokenByte(byte) == byte \in 0 .. Capital
Lowercase(name) == [i \in DOMAIN name |-> IF name[i] = Capital THEN Letter ELSE name[i]]

\* What the function returns: what is the reason, or the name of the limit, n
\* the actual of LimitExceeded, or the size.
ChunkOutcome(tag, what, n) ==
    [tag |-> tag, what |-> what, n |-> n, extensions |-> <<>>, bytes_consumed |-> 0]
InvalidChunk(reason) == ChunkOutcome("InvalidChunk", reason, 0)
ChunkLimit(limit, actual) == ChunkOutcome("LimitExceeded", limit, actual)

\* The first index from which on no byte of the line is a token byte.
TokenEnd(line, from) ==
    CHOOSE end \in from .. Len(line) + 1 :
        /\ \A i \in from .. end - 1 : IsTokenByte(line[i])
        /\ end <= Len(line) => ~IsTokenByte(line[end])

\* The first offset that is a CRLF, a control byte or over the limit decides.
BoundedLine(input) ==
    LET complete(i) == input[i] = CR /\ i < Len(input) /\ input[i + 1] = LF
        events == {i \in DOMAIN input : \/ input[i] \in {CR, LF, Control}
                                        \/ i = MAX_LINE_BYTES + 1}
        first == Min(events)
    IN  CASE events = {} -> ChunkOutcome("Incomplete", "", 0)
          [] events # {} /\ complete(first) -> [ChunkOutcome("line", "", 0) EXCEPT !.bytes_consumed = first + 1]
          [] events # {} /\ ~complete(first) /\ input[first] \in {CR, LF, Control} ->
                InvalidChunk("invalid_line_ending_or_control")
          [] OTHER -> ChunkLimit("chunk_line_bytes", first)

\* The line before the CRLF, and the index of its first semicolon.
LineOf(input, framed) == SubSeq(input, 1, framed.bytes_consumed - 2)
SizeEnd(line) ==
    LET separators == {i \in DOMAIN line : line[i] = Semicolon}
    IN  IF separators = {} THEN Len(line) + 1 ELSE Min(separators)

ParseSize(digits) ==
    LET size == FoldLeft(LAMBDA value, digit : value * 16 + digit, 0, digits)
    IN  IF Len(digits) \notin 1 .. MAX_SIZE_DIGITS \/ \E i \in DOMAIN digits : digits[i] \notin 0 .. 15
        THEN InvalidChunk("invalid_size")
        ELSE IF size \in 0 .. MAX_CHUNK_SIZE THEN ChunkOutcome("size", "", size)
        ELSE ChunkLimit("chunk_size", size)

\* An extension as parsed: fault is a reason or empty, value <<>> or
\* <<bytes>>, next the index of the semicolon behind it or past the end.
Extension(name, value, next) == [fault |-> "", name |-> name, value |-> value, next |-> next]
Faulty(reason) == [fault |-> reason, name |-> <<>>, value |-> <<>>, next |-> 0]

\* Whether an extension may end before the index.
EndsAt(line, index) == index > Len(line) \/ line[index] = Semicolon

\* The closing quote of the string opened before from, 0 when there is none.
ClosingQuote(line, from) ==
    LET step(state, i) ==
            CASE state.closing # 0 \/ i < from -> state
              [] state.closing = 0 /\ i >= from /\ state.escaped -> [state EXCEPT !.escaped = FALSE]
              [] OTHER -> [escaped |-> line[i] = Escape, closing |-> IF line[i] = Quote THEN i ELSE 0]
    IN  FoldLeftDomain(step, [escaped |-> FALSE, closing |-> 0], line).closing

\* The bytes of a quoted string without the slash of each quoted pair.
Unescape(raw) ==
    LET step(state, byte) ==
            IF byte = Escape /\ ~state.escaped THEN [state EXCEPT !.escaped = TRUE]
            ELSE [escaped |-> FALSE, output |-> Append(state.output, byte)]
    IN  FoldLeft(step, [escaped |-> FALSE, output |-> <<>>], raw).output

ValidUtf8(bytes) == \A i \in DOMAIN bytes : bytes[i] # Broken

\* The extension whose name starts at the index; quoted is what the variant
\* makes of a quoted value: its fault, its bytes, and the index behind it.
ExtensionAt(line, start, quoted) ==
    LET nameEnd == TokenEnd(line, start)
        name == SubSeq(line, start, nameEnd - 1)
        valueEnd == TokenEnd(line, nameEnd + 1)
    IN  IF \/ Len(name) \notin 1 .. MAX_EXTENSION_NAME
           \/ ~EndsAt(line, nameEnd) /\ line[nameEnd] # Equals
        THEN Faulty("invalid_extension_name")
        ELSE IF EndsAt(line, nameEnd) THEN Extension(Lowercase(name), <<>>, nameEnd)
        ELSE IF nameEnd < Len(line) /\ line[nameEnd + 1] = Quote
        THEN IF quoted.fault # "" THEN Faulty(quoted.fault)
             ELSE Extension(Lowercase(name), <<quoted.value>>, quoted.next)
        ELSE IF valueEnd = nameEnd + 1 \/ ~EndsAt(line, valueEnd) THEN Faulty("invalid_extension_value")
        ELSE Extension(Lowercase(name), <<SubSeq(line, nameEnd + 1, valueEnd - 1)>>, valueEnd)

\* Where the bytes of a quoted value of the extension begin.
QuotedStart(line, start) == TokenEnd(line, start) + 2

\* The loop over the extensions, parsed[i] being the one that starts at i: the
\* limit is checked before an extension's own fault.
CollectExtensions(line, parsed) ==
    LET step(state, i) ==
            LET extension == parsed[state.next + 1]
            IN  CASE state.fault.tag # "none" \/ state.next > Len(line) -> state
                  [] state.fault.tag = "none" /\ state.next <= Len(line) /\ Len(state.list) = MAX_EXTENSIONS ->
                        [state EXCEPT !.fault = ChunkLimit("chunk_extensions", MAX_EXTENSIONS + 1)]
                  [] OTHER -> IF extension.fault # ""
                              THEN [state EXCEPT !.fault = InvalidChunk(extension.fault)]
                              ELSE [state EXCEPT !.next = extension.next,
                                                 !.list = Append(@, [name |-> extension.name,
                                                                     value |-> extension.value])]
    IN  FoldLeft(step, [fault |-> ChunkOutcome("none", "", 0), next |-> SizeEnd(line), list |-> <<>>],
                 [i \in 1 .. MAX_EXTENSIONS + 1 |-> i])

\* The order of the phases: the line, its size, its extensions.
ChunkMeta(framed, line, collected) ==
    LET size == ParseSize(SubSeq(line, 1, SizeEnd(line) - 1))
    IN  CASE framed.tag # "line" -> framed
          [] framed.tag = "line" /\ size.tag # "size" -> size
          [] OTHER -> IF collected.fault.tag # "none" THEN collected.fault
                      ELSE [tag |-> "ChunkMeta", what |-> "", n |-> size.n,
                            extensions |-> collected.list, bytes_consumed |-> framed.bytes_consumed]

-----------------------------------------------------------------------------
\* composable_segments: the separators of the whole line first, then each
\* segment by itself.

ValidName(name) == Len(name) \in 1 .. MAX_EXTENSION_NAME /\ \A i \in DOMAIN name : IsTokenByte(name[i])

\* Semicolons outside a quoted value; one more than MAX_EXTENSIONS is an error
\* whatever the segments before it hold.
ExtensionSeparators(line) ==
    LET opens(state, i) == /\ line[i] = Quote
                           /\ i > state.start
                           /\ line[i - 1] = Equals
                           /\ ValidName(SubSeq(line, state.start, i - 2))
        inside(state, i) ==
            IF state.escaped THEN [state EXCEPT !.escaped = FALSE]
            ELSE [state EXCEPT !.escaped = (line[i] = Escape), !.quoted = (line[i] # Quote)]
        step(state, i) ==
            CASE i < SizeEnd(line) \/ Len(state.separators) > MAX_EXTENSIONS -> state
              [] i >= SizeEnd(line) /\ Len(state.separators) <= MAX_EXTENSIONS /\ state.quoted -> inside(state, i)
              [] OTHER -> IF opens(state, i) THEN [state EXCEPT !.quoted = TRUE]
                          ELSE IF line[i] # Semicolon THEN state
                          ELSE [state EXCEPT !.separators = Append(@, i), !.start = i + 1]
    IN  FoldLeftDomain(step, [separators |-> <<>>, start |-> Len(line) + 1, quoted |-> FALSE,
                              escaped |-> FALSE], line).separators

\* unquote: the closing quote must be the last byte of the segment.
UnquoteSegment(value) ==
    LET closing == ClosingQuote(value, 2)
        decoded == Unescape(SubSeq(value, 2, closing - 1))
    IN  IF closing = 0 THEN Faulty("invalid_quoted_string")
        ELSE IF closing # Len(value) THEN Faulty("invalid_extension_value")
        ELSE IF ~ValidUtf8(decoded) THEN Faulty("invalid_quoted_string")
        ELSE Extension(<<>>, <<decoded>>, 0)

TransformExtension(segment) ==
    LET equals == {i \in DOMAIN segment : segment[i] = Equals}
        nameEnd == IF equals = {} THEN Len(segment) + 1 ELSE Min(equals)
        name == SubSeq(segment, 1, nameEnd - 1)
        value == SubSeq(segment, nameEnd + 1, Len(segment))
        unquoted == UnquoteSegment(value)
    IN  IF ~ValidName(name) THEN Faulty("invalid_extension_name")
        ELSE IF equals = {} THEN Extension(Lowercase(name), <<>>, 0)
        ELSE IF value # <<>> /\ value[1] = Quote
        THEN IF unquoted.fault # "" THEN unquoted ELSE Extension(Lowercase(name), unquoted.value, 0)
        ELSE IF value = <<>> \/ \E i \in DOMAIN value : ~IsTokenByte(value[i])
        THEN Faulty("invalid_extension_value")
        ELSE Extension(Lowercase(name), <<value>>, 0)

\* The limit comes before what is wrong with the first faulty segment.
SegmentFault(parsed) ==
    LET faulty == {k \in DOMAIN parsed : parsed[k].fault # ""}
    IN  IF Len(parsed) > MAX_EXTENSIONS THEN ChunkLimit("chunk_extensions", MAX_EXTENSIONS + 1)
        ELSE IF faulty # {} THEN InvalidChunk(parsed[Min(faulty)].fault)
        ELSE ChunkOutcome("none", "", 0)

CollectSegments(line) ==
    LET separators == ExtensionSeparators(line)
        end(k) == IF k = Len(separators) THEN Len(line) ELSE separators[k + 1] - 1
        parsed == [k \in DOMAIN separators |-> TransformExtension(SubSeq(line, separators[k] + 1, end(k)))]
    IN  [fault |-> SegmentFault(parsed),
         list |-> [k \in DOMAIN parsed |-> [name |-> parsed[k].name, value |-> parsed[k].value]]]

ComposableSegments(input) ==
    LET framed == BoundedLine(input)
        line == LineOf(input, framed)
    IN  ChunkMeta(framed, line, CollectSegments(line))

-----------------------------------------------------------------------------
\* guarded_parts: the quoted value is decoded, then what follows is looked at.

GuardedQuoted(line, from) ==
    LET closing == ClosingQuote(line, from)
        decoded == Unescape(SubSeq(line, from, closing - 1))
    IN  IF closing = 0 \/ ~ValidUtf8(decoded) THEN Faulty("invalid_quoted_string")
        ELSE IF ~EndsAt(line, closing + 1) THEN Faulty("invalid_extension_value")
        ELSE Extension(<<>>, decoded, closing + 1)

GuardedParts(input) ==
    LET framed == BoundedLine(input)
        line == LineOf(input, framed)
        parsed == [start \in 1 .. Len(line) + 1 |->
                      ExtensionAt(line, start, GuardedQuoted(line, QuotedStart(line, start)))]
    IN  ChunkMeta(framed, line, CollectExtensions(line, parsed))

-----------------------------------------------------------------------------
\* invariant_spans: a descriptor of offsets per extension, all of them checked
\* before the first is read out.

\* valid_unescaped_utf8 reads the projection without the slashes.
SpanQuoted(line, from) ==
    LET closing == ClosingQuote(line, from)
    IN  IF closing = 0 THEN Faulty("invalid_quoted_string")
        ELSE IF ~ValidUtf8(Unescape(SubSeq(line, from, closing - 1))) THEN Faulty("invalid_quoted_string")
        ELSE IF ~EndsAt(line, closing + 1) THEN Faulty("invalid_extension_value")
        ELSE Extension(<<>>, <<from, closing - 1>>, closing + 1)

\* materialize_extensions: only a quoted value is a span of two offsets here.
Materialize(line, extension, from) ==
    IF extension.value # <<>> /\ from <= Len(line) + 1 /\ line[from - 1] = Quote
    THEN [extension EXCEPT !.value =
             <<Unescape(SubSeq(line, extension.value[1][1], extension.value[1][2]))>>]
    ELSE extension

InvariantSpans(input) ==
    LET framed == BoundedLine(input)
        line == LineOf(input, framed)
        parsed == [start \in 1 .. Len(line) + 1 |->
                      Materialize(line,
                                  ExtensionAt(line, start, SpanQuoted(line, QuotedStart(line, start))),
                                  QuotedStart(line, start))]
    IN  ChunkMeta(framed, line, CollectExtensions(line, parsed))

-----------------------------------------------------------------------------
\* rule_pipeline: raw extensions first, decoded by a later stage.

PipelineQuoted(line, from) ==
    LET closing == ClosingQuote(line, from)
        decoded == Unescape(SubSeq(line, from, closing - 1))
    IN  IF closing = 0 THEN Faulty("invalid_quoted_string")
        ELSE IF ~EndsAt(line, closing + 1) THEN Faulty("invalid_extension_value")
        ELSE IF ~ValidUtf8(decoded) THEN Faulty("invalid_quoted_string")
        ELSE Extension(<<>>, decoded, closing + 1)

RulePipeline(input) ==
    LET framed == BoundedLine(input)
        line == LineOf(input, framed)
        parsed == [start \in 1 .. Len(line) + 1 |->
                      ExtensionAt(line, start, PipelineQuoted(line, QuotedStart(line, start)))]
    IN  ChunkMeta(framed, line, CollectExtensions(line, parsed))

-----------------------------------------------------------------------------
\* symbol_rule_iterator: a QuotedUnit is printable ASCII, which no other
\* variant asks of a quoted value.

\* Faulty variant: the byte after an escape may close the string.
QuotedContentsUnescaped(line, from) ==
    LET quotes == {i \in from .. Len(line) : line[i] = Quote}
    IN  IF quotes = {} \/ \E i \in from .. Min(quotes) : line[i] \in {Wide, Broken}
        THEN Faulty("invalid_quoted_string")
        ELSE IF ~EndsAt(line, Min(quotes) + 1) THEN Faulty("invalid_extension_value")
        ELSE Extension(<<>>, Unescape(SubSeq(line, from, Min(quotes) - 1)), Min(quotes) + 1)

QuotedContents(line, from) ==
    LET closing == ClosingQuote(line, from)
    IN  IF closing = 0 \/ \E i \in from .. closing : line[i] \in {Wide, Broken}
        THEN Faulty("invalid_quoted_string")
        ELSE IF ~EndsAt(line, closing + 1) THEN Faulty("invalid_extension_value")
        ELSE Extension(<<>>, Unescape(SubSeq(line, from, closing - 1)), closing + 1)

SymbolRuleIterator(input) ==
    LET framed == BoundedLine(input)
        line == LineOf(input, framed)
        parsed == [start \in 1 .. Len(line) + 1 |->
                      ExtensionAt(line, start, QuotedContents(line, QuotedStart(line, start)))]
    IN  ChunkMeta(framed, line, CollectExtensions(line, parsed))

-----------------------------------------------------------------------------
\* The five, as the registry lists them.
ChunkMetadatas(input) ==
    [composable_segments |-> ComposableSegments(input),
     guarded_parts |-> GuardedParts(input),
     invariant_spans |-> InvariantSpans(input),
     rule_pipeline |-> RulePipeline(input),
     symbol_rule_iterator |-> SymbolRuleIterator(input)]

\* Bytes among which the variants read quoted values and limits alike.
PlainLine(input) ==
    /\ \A i \in DOMAIN input : input[i] \notin {Wide, Broken}
    /\ Cardinality({i \in DOMAIN input : input[i] = Semicolon}) <= MAX_EXTENSIONS
=============================================================================
