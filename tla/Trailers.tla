------------------------------ MODULE Trailers ------------------------------
(***************************************************************************)
(* parse_trailer_section of specs/polyform.toml, and its five              *)
(* implementations under src/src/implementations/trailer_*.rs.             *)
(*                                                                         *)
(* The bytes are those of module ChunkMetadata and five more: Colon,       *)
(* Padding (SP or HTAB), and three that stand for a run of token bytes:    *)
(* Reserved (one of the eleven forbidden names, in lower case), Titled     *)
(* (the same in another case) and Prefixed (x-forwarded-).  Plain, Wide    *)
(* and Broken may occur in a value only, Control not even there.  Sorting  *)
(* the declared names and searching the sorted list is membership.         *)
(***************************************************************************)
EXTENDS ChunkMetadata

CONSTANTS
    SECTION_LIMIT,    \* 8192, also MAX_TRAILER_BYTES of proxy.rs
    FIELD_LIMIT,      \* 32
    NAME_LIMIT        \* 128

ASSUME TrailersAssumption == {SECTION_LIMIT, FIELD_LIMIT, NAME_LIMIT} \subseteq Nat \ {0}

Colon == 28
Padding == 29
Reserved == 30
Titled == 31
Prefixed == 32

TrailerTokenByte(byte) == IsTokenByte(byte) \/ byte \in {Reserved, Titled, Prefixed}
TrailerValueByte(byte) == byte \notin {Control, CR, LF}

\* to_ascii_lowercase.
Canonical(name) == [i \in DOMAIN name |-> IF name[i] = Titled THEN Reserved ELSE Lowercase(name)[i]]

is_forbidden(name) ==
    Canonical(name) = <<Reserved>> \/ (name # <<>> /\ name[1] = Prefixed)

TrailerOutcome(tag, reason, actual) ==
    [tag |-> tag, reason |-> reason, actual |-> actual, fields |-> <<>>, bytes_consumed |-> 0]
InvalidTrailer(reason) == TrailerOutcome("InvalidTrailer", reason, 0)
TrailerLimit(actual) == TrailerOutcome("LimitExceeded", "trailer_bytes", actual)
TrailerBlock(fields, consumed) ==
    [TrailerOutcome("TrailerBlock", "", 0) EXCEPT !.fields = fields, !.bytes_consumed = consumed]

-----------------------------------------------------------------------------
\* The lines of the section.

\* The first byte from the index on that ends a line, or the place where there
\* is none within the limit.
LineStop(input, from) ==
    Min({i \in from .. Len(input) : input[i] \in {CR, LF} \/ i = SECTION_LIMIT + 1} \cup {Len(input) + 1})

\* Why the line from the index on cannot be read; stop is its LineStop.
LineFault(input, stop) ==
    LET complete == stop < Len(input) /\ input[stop] = CR /\ input[stop + 1] = LF
    IN  CASE stop > Len(input) -> TrailerOutcome("Incomplete", "", 0)
          [] stop <= Len(input) /\ stop > SECTION_LIMIT -> TrailerLimit(SECTION_LIMIT + 1)
          [] stop <= Len(input) /\ stop <= SECTION_LIMIT /\ ~complete -> InvalidTrailer("bare_line_ending")
          [] OTHER -> IF stop + 1 > SECTION_LIMIT THEN TrailerLimit(SECTION_LIMIT + 1)
                      ELSE TrailerOutcome("none", "", 0)

\* frame_section: the lines up to the empty one, or up to the first fault.
FrameSection(input) ==
    LET step(frame, i) ==
            LET stop == LineStop(input, frame.next)
                fault == LineFault(input, stop)
            IN  CASE frame.fault.tag # "none" \/ frame.done -> frame
                  [] frame.fault.tag = "none" /\ ~frame.done /\ fault.tag # "none" ->
                        [frame EXCEPT !.fault = fault]
                  [] OTHER -> [frame EXCEPT !.next = stop + 2,
                                            !.done = (stop = frame.next),
                                            !.lines = IF stop = frame.next THEN @
                                                      ELSE Append(@, SubSeq(input, frame.next, stop - 1))]
    IN  FoldLeft(step, [fault |-> TrailerOutcome("none", "", 0), done |-> FALSE, next |-> 1, lines |-> <<>>],
                 [i \in 1 .. Len(input) + 1 |-> i])

-----------------------------------------------------------------------------
\* The declared names; a reason, or empty.

DeclarationFault(name, limit) ==
    IF name = <<>> \/ Len(name) > limit \/ Canonical(name) # name \/ \E i \in DOMAIN name : ~TrailerTokenByte(name[i])
    THEN "invalid_declaration"
    ELSE IF is_forbidden(name) THEN "forbidden_field" ELSE ""

\* Every name is classified before repeats are looked for in the sorted list.
SortedDeclarations(declared) ==
    LET faulty == {i \in DOMAIN declared : DeclarationFault(declared[i], NAME_LIMIT) # ""}
    IN  IF faulty # {} THEN DeclarationFault(declared[Min(faulty)], NAME_LIMIT)
        ELSE IF \E i, j \in DOMAIN declared : i < j /\ declared[i] = declared[j]
        THEN "duplicate_declaration" ELSE ""

\* catalog_declarations: the earliest repeat wins if it precedes the first
\* faulty name, as when names are inserted one by one.
OrderedDeclarations(declared, limit) ==
    LET faulty == {i \in DOMAIN declared : DeclarationFault(declared[i], limit) # ""}
        repeats == {i \in DOMAIN declared : \E j \in 1 .. i - 1 : declared[j] = declared[i]}
    IN  CASE faulty \cup repeats = {} -> ""
          [] faulty \cup repeats # {} /\ Min(faulty \cup repeats) \in faulty ->
                DeclarationFault(declared[Min(faulty)], limit)
          [] OTHER -> "duplicate_declaration"

-----------------------------------------------------------------------------
\* One field line: its fault, or its name and its value without padding.

TrailerField(name, value) == [fault |-> "", name |-> Canonical(name), value |-> value]
BadField(reason) == [fault |-> reason, name |-> <<>>, value |-> <<>>]

\* take_while from both ends.
TrimPadding(raw) ==
    LET kept == {i \in DOMAIN raw : raw[i] # Padding}
    IN  IF kept = {} THEN <<>> ELSE SubSeq(raw, Min(kept), Max(kept))

\* validate_field_grammar and validate_line.
ValidateLine(line) ==
    LET colon == SelectInSeq(line, LAMBDA byte : byte = Colon)
        name == SubSeq(line, 1, colon - 1)
        value == SubSeq(line, colon + 1, Len(line))
    IN  CASE line[1] = Padding -> BadField("obs_fold")
          [] line[1] # Padding /\ (colon = 0 \/ Len(name) \notin 1 .. NAME_LIMIT) -> BadField("invalid_name")
          [] OTHER -> IF \E i \in DOMAIN name : name[i] = Padding THEN BadField("whitespace_before_colon")
                      ELSE IF \E i \in DOMAIN name : ~TrailerTokenByte(name[i]) THEN BadField("invalid_name")
                      ELSE IF \E i \in DOMAIN value : ~TrailerValueByte(value[i])
                      THEN BadField("invalid_value_byte")
                      ELSE TrailerField(name, TrimPadding(value))

\* parse_field of transition_phases: padding counts only right before the colon.
ParseField(line) ==
    LET colon == SelectInSeq(line, LAMBDA byte : byte = Colon)
        name == SubSeq(line, 1, colon - 1)
        value == SubSeq(line, colon + 1, Len(line))
    IN  CASE line[1] = Padding -> BadField("obs_fold")
          [] line[1] # Padding /\ colon > 1 /\ line[colon - 1] = Padding -> BadField("whitespace_before_colon")
          [] OTHER -> IF Len(name) \notin 1 .. NAME_LIMIT \/ \E i \in DOMAIN name : ~TrailerTokenByte(name[i])
                      THEN BadField("invalid_name")
                      ELSE IF \E i \in DOMAIN value : ~TrailerValueByte(value[i])
                      THEN BadField("invalid_value_byte")
                      ELSE TrailerField(name, TrimPadding(value))

\* consume_name and consume_value: the byte at the index noted in the facts of
\* the line, where first and last delimit the value without padding.
ConsumeName(facts, line, i) ==
    IF line[i] = Colon THEN [facts EXCEPT !.colon = i]
    ELSE [facts EXCEPT !.padded = @ \/ line[i] = Padding,
                       !.nonToken = @ \/ ~TrailerTokenByte(line[i])]

ConsumeValue(facts, line, i) ==
    IF line[i] = Padding THEN facts
    ELSE [facts EXCEPT !.badValue = @ \/ ~TrailerValueByte(line[i]),
                       !.first = IF @ = 0 THEN i ELSE @,
                       !.last = i]

\* The pass over a line that both the automaton and summarize_and_decide make.
SummarizeLine(line) ==
    FoldLeftDomain(LAMBDA facts, i : IF facts.colon = 0 THEN ConsumeName(facts, line, i)
                                     ELSE ConsumeValue(facts, line, i),
                   [colon |-> 0, padded |-> FALSE, nonToken |-> FALSE, badValue |-> FALSE,
                    first |-> 0, last |-> 0], line)

\* The precedence table over the summary; tooLong is the reason for a name
\* over the limit.
DecideOneField(line, tooLong) ==
    LET facts == SummarizeLine(line)
    IN  IF line[1] = Padding THEN BadField("obs_fold")
        ELSE IF facts.colon \in {0, 1} THEN BadField("invalid_name")
        ELSE IF facts.colon - 1 > NAME_LIMIT THEN BadField(tooLong)
        ELSE IF facts.padded THEN BadField("whitespace_before_colon")
        ELSE IF facts.nonToken THEN BadField("invalid_name")
        ELSE IF facts.badValue THEN BadField("invalid_value_byte")
        ELSE TrailerField(SubSeq(line, 1, facts.colon - 1),
                          IF facts.first = 0 THEN <<>> ELSE SubSeq(line, facts.first, facts.last))

-----------------------------------------------------------------------------
\* The fields that are declared, permitted and received once.

\* authorize_field, enforce_trailer_policy for one field.
AuthorizeField(name, declared, accepted) ==
    IF is_forbidden(name) THEN "forbidden_field"
    ELSE IF name \notin ToSet(declared) THEN "undeclared_field"
    ELSE IF \E i \in DOMAIN accepted : accepted[i].name = name THEN "duplicate_field"
    ELSE ""

\* The loop over the lines: the number of fields, the grammar of the line, then
\* the policy; fault is the reason at which it returns.
PermitFields(parsed, declared) ==
    LET next(state, field) ==
            IF Len(state.fields) = FIELD_LIMIT THEN "too_many_fields"
            ELSE IF field.fault # "" THEN field.fault
            ELSE AuthorizeField(field.name, declared, state.fields)
        step(state, field) ==
            IF state.fault # "" THEN state
            ELSE IF next(state, field) # "" THEN [state EXCEPT !.fault = next(state, field)]
            ELSE [state EXCEPT !.fields = Append(@, [name |-> field.name, value |-> field.value])]
    IN  FoldLeft(step, [fault |-> "", fields |-> <<>>], parsed)

\* The order of three of the variants: the frame, the declarations, the fields.
FrameFirst(frame, declaration, permitted) ==
    IF frame.fault.tag # "none" THEN frame.fault
    ELSE IF declaration # "" THEN InvalidTrailer(declaration)
    ELSE IF permitted.fault # "" THEN InvalidTrailer(permitted.fault)
    ELSE TrailerBlock(permitted.fields, frame.next - 1)

ValidatedInvariants(input, declared) ==
    LET frame == FrameSection(input)
        parsed == [i \in DOMAIN frame.lines |-> ValidateLine(frame.lines[i])]
    IN  FrameFirst(frame, SortedDeclarations(declared), PermitFields(parsed, declared))

-----------------------------------------------------------------------------
\* transition_phases: the length of the input is the actual of a limit, unless
\* the empty line itself crosses it.
ScanSection(input) ==
    LET frame == FrameSection(input)
        crossing == LineStop(input, frame.next) = frame.next /\ frame.next = SECTION_LIMIT
    IN  IF frame.fault.tag = "LimitExceeded" /\ ~crossing THEN [frame EXCEPT !.fault.actual = Len(input)]
        ELSE frame

TransitionPhases(input, declared) ==
    LET frame == ScanSection(input)
        parsed == [i \in DOMAIN frame.lines |-> ParseField(frame.lines[i])]
    IN  FrameFirst(frame, OrderedDeclarations(declared, NAME_LIMIT), PermitFields(parsed, declared))

-----------------------------------------------------------------------------
\* invariant_trie: declared names in a trie whose nodes also say whether the
\* name was received; a declared name has no length limit here.

DeclareName(trie, name) ==
    [trie EXCEPT !.nodes = @ \cup Prefixes(name), !.declared = @ \cup {name}]

\* Faulty variant: the beginning of a declared name is taken for declared.
AcceptReceivedPrefix(trie, name) ==
    IF is_forbidden(name) THEN "forbidden_field"
    ELSE IF name \notin trie.nodes THEN "undeclared_field"
    ELSE IF name \in trie.received THEN "duplicate_field" ELSE ""

AcceptReceived(trie, name) ==
    IF is_forbidden(name) THEN "forbidden_field"
    ELSE IF name \notin trie.nodes \/ name \notin trie.declared THEN "undeclared_field"
    ELSE IF name \in trie.received THEN "duplicate_field" ELSE ""

ReceiveFields(parsed, trie) ==
    LET next(state, field) ==
            IF Len(state.fields) = FIELD_LIMIT THEN "too_many_fields"
            ELSE IF field.fault # "" THEN field.fault
            ELSE AcceptReceived(state.trie, field.name)
        step(state, field) ==
            IF state.fault # "" THEN state
            ELSE IF next(state, field) # "" THEN [state EXCEPT !.fault = next(state, field)]
            ELSE [state EXCEPT !.fields = Append(@, [name |-> field.name, value |-> field.value]),
                               !.trie.received = @ \cup {field.name}]
    IN  FoldLeft(step, [fault |-> "", fields |-> <<>>, trie |-> trie], parsed)

InvariantTrie(input, declared) ==
    LET frame == FrameSection(input)
        parsed == [i \in DOMAIN frame.lines |-> ValidateLine(frame.lines[i])]
        trie == FoldLeft(DeclareName, [nodes |-> {<<>>}, declared |-> {}, received |-> {}], declared)
        longest == Len(FlattenSeq(declared)) + 1
    IN  FrameFirst(frame, OrderedDeclarations(declared, longest), ReceiveFields(parsed, trie))

-----------------------------------------------------------------------------
\* direct_table: the declarations first, then line by line, so that a bad field
\* is met before a broken line behind it.

DirectTable(input, declared) ==
    LET frame == FrameSection(input)
        parsed == [i \in DOMAIN frame.lines |-> DecideOneField(frame.lines[i], "name_too_long")]
        permitted == PermitFields(parsed, declared)
        declaration == SortedDeclarations(declared)
    IN  IF declaration # "" THEN InvalidTrailer(declaration)
        ELSE IF permitted.fault # "" THEN InvalidTrailer(permitted.fault)
        ELSE IF frame.fault.tag # "none" THEN frame.fault
        ELSE TrailerBlock(permitted.fields, frame.next - 1)

-----------------------------------------------------------------------------
\* event_automaton: the declarations, the wire with the number of its lines, the
\* grammar of all lines, the policy of all fields.

\* A CR that is the last byte within the limit is not looked behind.
RunWireAutomaton(input) ==
    LET frame == FrameSection(input)
    IN  IF Len(frame.lines) > FIELD_LIMIT THEN [frame EXCEPT !.fault = InvalidTrailer("too_many_fields")]
        ELSE IF frame.fault.reason = "bare_line_ending" /\ Len(input) > SECTION_LIMIT
                /\ LineStop(input, frame.next) = SECTION_LIMIT /\ input[SECTION_LIMIT] = CR
        THEN [frame EXCEPT !.fault = TrailerLimit(SECTION_LIMIT + 1)]
        ELSE frame

EventAutomaton(input, declared) ==
    LET envelope == RunWireAutomaton(input)
        parsed == [i \in DOMAIN envelope.lines |-> DecideOneField(envelope.lines[i], "invalid_name")]
        faulty == SelectInSeq(parsed, LAMBDA field : field.fault # "")
        permitted == PermitFields(parsed, declared)
        declaration == SortedDeclarations(declared)
    IN  IF declaration # "" THEN InvalidTrailer(declaration)
        ELSE IF envelope.fault.tag # "none" THEN envelope.fault
        ELSE IF faulty # 0 THEN InvalidTrailer(parsed[faulty].fault)
        ELSE IF permitted.fault # "" THEN InvalidTrailer(permitted.fault)
        ELSE TrailerBlock(permitted.fields, envelope.next - 1)

-----------------------------------------------------------------------------
\* The five, as the registry lists them.
TrailerSections(input, declared) ==
    [direct_table |-> DirectTable(input, declared),
     event_automaton |-> EventAutomaton(input, declared),
     invariant_trie |-> InvariantTrie(input, declared),
     transition_phases |-> TransitionPhases(input, declared),
     validated_invariants |-> ValidatedInvariants(input, declared)]

\* The requirements of specs/polyform.toml without an algorithm: the section
\* ends with its first empty line, every line before it is a token, a colon and
\* a value, and every name is declared, permitted and there once.
TrailerEnd(input) ==
    LET crlf(i) == i \in 1 .. Len(input) - 1 /\ SubSeq(input, i, i + 1) = <<CR, LF>>
        ends == {i \in 2 .. Len(input) : crlf(i - 1) /\ (i = 2 \/ crlf(i - 3))}
    IN  IF ends = {} THEN 0 ELSE Min(ends)

TrailerRule(input, declared) ==
    LET end == TrailerEnd(input)
        starts == ({1} \cup {i + 1 : i \in {j \in 1 .. end : input[j] = LF}}) \ {end - 1, end + 1}
        colon(i) == Min({j \in i .. end : input[j] \in {Colon, CR}})
        stop(i) == Min({j \in i .. end : input[j] = CR})
        name(i) == Canonical(SubSeq(input, i, colon(i) - 1))
        wellFormed(i) == /\ input[colon(i)] = Colon /\ colon(i) - i \in 1 .. NAME_LIMIT
                         /\ \A j \in i .. colon(i) - 1 : TrailerTokenByte(input[j])
                         /\ \A j \in colon(i) .. stop(i) - 1 : TrailerValueByte(input[j])
        field(i) == [name |-> name(i), value |-> TrimPadding(SubSeq(input, colon(i) + 1, stop(i) - 1))]
        valid ==
            /\ \A i \in DOMAIN declared : DeclarationFault(declared[i], NAME_LIMIT) = ""
            /\ IsInjective(declared)
            /\ end \in 2 .. SECTION_LIMIT
            /\ \A i \in 1 .. end : (input[i] = CR => input[i + 1] = LF) /\ (input[i] = LF => i > 1 /\ input[i - 1] = CR)
            /\ Cardinality(starts) <= FIELD_LIMIT
            /\ \A i \in starts : wellFormed(i) /\ name(i) \in ToSet(declared) /\ ~is_forbidden(name(i))
            /\ \A i, j \in starts : name(i) = name(j) => i = j
        fields == SetToSortSeq(starts, <)
    IN  IF valid THEN TrailerBlock([k \in DOMAIN fields |-> field(fields[k])], end)
        ELSE TrailerOutcome("rejected", "", 0)
=============================================================================
