---------------------------- MODULE BodyFraming ----------------------------
(***************************************************************************)
(* determine_body_framing of specs/polyform.toml, and its five             *)
(* implementations under src/src/implementations/body_framing_*.rs.        *)
(*                                                                         *)
(* A header block is a sequence of fields [name, value]; a value is the    *)
(* nonempty sequence of its comma-separated members, each a sequence of    *)
(* bytes.  A byte is a decimal digit, Space (SP or HTAB), Coding (the      *)
(* token chunked in some letter case, taken as one byte) or Junk.          *)
(***************************************************************************)
EXTENDS Integers, Sequences, SequencesExt

CONSTANTS
    CONTENT_LENGTH_LIMIT,   \* 16777216
    MAX_U64                 \* the largest u64

ASSUME FramingAssumption ==
    /\ CONTENT_LENGTH_LIMIT \in Nat
    /\ MAX_U64 \in Nat
    /\ CONTENT_LENGTH_LIMIT < MAX_U64

Space == 10
Coding == 11
Junk == 12

\* What the function returns; n is the length, or the actual of LimitExceeded.
Outcome(tag, n) == [tag |-> tag, n |-> n]

FixedLength(n) == IF n = 0 THEN Outcome("None", 0) ELSE Outcome("ContentLength", n)

\* The fields of a name, and their members, pushed in the order of the block.
Fields(fields, name) ==
    FoldLeft(LAMBDA found, field : IF field.name = name THEN Append(found, field) ELSE found, <<>>, fields)

Members(fields, name) ==
    FoldLeft(LAMBDA found, field : IF field.name = name THEN found \o field.value ELSE found, <<>>, fields)

-----------------------------------------------------------------------------
\* Trimming and parsing of one member; every file has its own copy.

TrimOws(raw) ==
    LET kept == {i \in DOMAIN raw : raw[i] # Space}
    IN  IF kept = {} THEN <<>> ELSE SubSeq(raw, Min(kept), Max(kept))

Overflow == -1

\* checked_mul and checked_add over the digits; Overflow also for a byte that
\* is no digit, which is the same error.
DecimalValue(digits) ==
    IF digits = <<>> THEN Overflow
    ELSE FoldLeft(LAMBDA value, byte :
                      IF value = Overflow \/ byte \notin 0 .. 9 \/ value * 10 + byte > MAX_U64
                      THEN Overflow ELSE value * 10 + byte,
                  0, digits)

\* parse_decimal_length: LimitExceeded only for what fits a u64.
ParseLength(raw) ==
    LET value == DecimalValue(TrimOws(raw))
    IN  CASE value = Overflow -> Outcome("InvalidContentLength", 0)
          [] value > CONTENT_LENGTH_LIMIT -> Outcome("LimitExceeded", value)
          [] OTHER -> Outcome("length", value)

\* LengthConsensus: one more member, given the length agreed so far.
NoLength == Outcome("absent", 0)

AcceptLength(agreed, raw) ==
    LET parsed == ParseLength(raw)
    IN  CASE agreed.tag \notin {"absent", "length"} -> agreed
          [] agreed.tag \in {"absent", "length"} /\ parsed.tag # "length" -> parsed
          [] agreed.tag = "length" /\ parsed.tag = "length" /\ agreed.n # parsed.n ->
                Outcome("ConflictingContentLength", 0)
          [] OTHER -> parsed

\* What the length agreed over all members makes of the request.
LengthResult(agreed) ==
    CASE agreed.tag = "length" -> FixedLength(agreed.n)
      [] agreed.tag = "absent" -> Outcome("InvalidContentLength", 0)
      [] OTHER -> agreed

ChunkedIf(valid) == Outcome(IF valid THEN "Chunked" ELSE "InvalidTransferEncoding", 0)

-----------------------------------------------------------------------------
\* direct: one scan that stops at the second kind of framing field.

DirectMetadata(fields) ==
    FoldLeft(LAMBDA seen, field :
                 IF seen = {"content-length", "transfer-encoding"} \/ field.name = "other"
                 THEN seen ELSE seen \cup {field.name},
             {}, fields)

\* validate_chunked counts the members and refuses the second.
DirectChunked(fields) ==
    LET step(seen, raw) ==
            IF seen # 0 \/ TrimOws(raw) # <<Coding>> THEN Overflow ELSE seen + 1
    IN  FoldLeft(step, 0, Members(fields, "transfer-encoding")) = 1

DirectFraming(fields) ==
    LET metadata == DirectMetadata(fields)
    IN  CASE metadata = {} -> Outcome("None", 0)
          [] metadata = {"content-length"} ->
                LengthResult(FoldLeft(AcceptLength, NoLength, Members(fields, "content-length")))
          [] metadata = {"transfer-encoding"} -> ChunkedIf(DirectChunked(fields))
          [] OTHER -> Outcome("AmbiguousFraming", 0)

\* bounded_domain: field counts; the one Transfer-Encoding value is compared whole.
BoundedDomainFraming(fields) ==
    LET lengths == Fields(fields, "content-length")
        codings == Fields(fields, "transfer-encoding")
    IN  CASE lengths # <<>> /\ codings # <<>> -> Outcome("AmbiguousFraming", 0)
          [] lengths = <<>> /\ codings # <<>> ->
                ChunkedIf(/\ Len(codings) = 1
                          /\ Len(codings[1].value) = 1
                          /\ TrimOws(codings[1].value[1]) = <<Coding>>)
          [] lengths # <<>> /\ codings = <<>> ->
                LengthResult(FoldLeft(AcceptLength, NoLength, Members(fields, "content-length")))
          [] OTHER -> Outcome("None", 0)

-----------------------------------------------------------------------------
\* rule_matrix: the presence key selects a row; lengths are agreed per field.

RULE_MATRIX ==
    [key \in BOOLEAN \X BOOLEAN |->
        CASE key = <<FALSE, FALSE>> -> "NoMetadata"
          [] key = <<TRUE, FALSE>> -> "ContentLength"
          [] key = <<FALSE, TRUE>> -> "TransferEncoding"
          [] key = <<TRUE, TRUE>> -> "Ambiguous"]

\* validate_content_length_field, given the length agreed by earlier fields.
RuleMatrixField(agreed, field) == FoldLeft(AcceptLength, agreed, field.value)

RuleMatrixFraming(fields) ==
    LET lengths == Fields(fields, "content-length")
        codings == Fields(fields, "transfer-encoding")
        rule == RULE_MATRIX[<<Len(lengths) # 0, Len(codings) # 0>>]
    IN  CASE rule = "NoMetadata" -> Outcome("None", 0)
          [] rule = "Ambiguous" -> Outcome("AmbiguousFraming", 0)
          [] rule = "ContentLength" -> LengthResult(FoldLeft(RuleMatrixField, NoLength, lengths))
          [] rule = "TransferEncoding" ->
                ChunkedIf(/\ Len(codings) = 1
                          /\ Len(codings[1].value) = 1
                          /\ TrimOws(codings[1].value[1]) = <<Coding>>)

-----------------------------------------------------------------------------
\* stream_machine: one pass that goes on after a fault and remembers the first.

\* Faulty variant: a later fault takes the place of the first.
RememberLastFault(machine, fault, actual) == [machine EXCEPT !.fault = Outcome(fault, actual)]

RememberFault(machine, fault, actual) ==
    IF machine.fault.tag = "none" THEN [machine EXCEPT !.fault = Outcome(fault, actual)] ELSE machine

ObserveLength(machine, raw) ==
    LET parsed == ParseLength(raw)
    IN  CASE parsed.tag # "length" -> RememberFault(machine, parsed.tag, parsed.n)
          [] parsed.tag = "length" /\ machine.has /\ machine.agreed # parsed.n ->
                RememberFault(machine, "ConflictingContentLength", 0)
          [] OTHER -> [machine EXCEPT !.agreed = parsed.n, !.has = TRUE]

ObserveCoding(machine, raw) ==
    LET counted == [machine EXCEPT !.members = @ + 1]
    IN  IF counted.members # 1 \/ TrimOws(raw) # <<Coding>>
        THEN RememberFault(counted, "InvalidTransferEncoding", 0) ELSE counted

TransitionField(machine, field) ==
    LET present == [machine EXCEPT !.presence = @ \cup {field.name}]
    IN  CASE field.name = "content-length" -> FoldLeft(ObserveLength, present, field.value)
          [] field.name = "transfer-encoding" -> FoldLeft(ObserveCoding, present, field.value)
          [] OTHER -> machine

StreamMachineFraming(fields) ==
    LET start == [presence |-> {}, agreed |-> 0, has |-> FALSE, members |-> 0,
                  fault |-> Outcome("none", 0)]
        machine == FoldLeft(TransitionField, start, fields)
    IN  CASE machine.presence = {"content-length", "transfer-encoding"} ->
                Outcome("AmbiguousFraming", 0)
          [] machine.presence # {"content-length", "transfer-encoding"}
             /\ machine.fault.tag # "none" -> machine.fault
          [] machine.fault.tag = "none" /\ machine.presence = {"transfer-encoding"} ->
                ChunkedIf(machine.members = 1)
          [] machine.fault.tag = "none" /\ machine.presence = {"content-length"} ->
                IF machine.has THEN FixedLength(machine.agreed) ELSE Outcome("None", 0)
          [] OTHER -> Outcome("None", 0)

-----------------------------------------------------------------------------
\* transition: presence bits by a fold, then try_fold over the members.

TransitionPresence(fields) ==
    FoldLeft(LAMBDA state, field :
                 state \cup (IF field.name = "other" THEN {} ELSE {field.name}), {}, fields)

TransitionFraming(fields) ==
    LET state == TransitionPresence(fields)
        lengths == FoldLeft(AcceptLength, NoLength, Members(fields, "content-length"))
        count(n, raw) == IF TrimOws(raw) # <<Coding>> \/ n # 0 THEN Overflow ELSE n + 1
    IN  CASE state = {"content-length", "transfer-encoding"} -> Outcome("AmbiguousFraming", 0)
          [] state = {"transfer-encoding"} ->
                ChunkedIf(FoldLeft(count, 0, Members(fields, "transfer-encoding")) = 1)
          [] state = {"content-length"} ->
                IF lengths.tag = "absent" THEN Outcome("None", 0) ELSE LengthResult(lengths)
          [] OTHER -> Outcome("None", 0)

-----------------------------------------------------------------------------
\* The five, as the registry lists them.
BodyFramings(fields) ==
    [direct |-> DirectFraming(fields),
     bounded_domain |-> BoundedDomainFraming(fields),
     rule_matrix |-> RuleMatrixFraming(fields),
     stream_machine |-> StreamMachineFraming(fields),
     transition |-> TransitionFraming(fields)]

\* The requirements of specs/polyform.toml lines 88-92, said without an
\* algorithm: presence first, then the earliest member that is at fault.
FramingRule(fields) ==
    LET lengths == Members(fields, "content-length")
        codings == Members(fields, "transfer-encoding")
        value(i) == DecimalValue(TrimOws(lengths[i]))
        faulty == {i \in DOMAIN lengths :
                      \/ value(i) = Overflow
                      \/ value(i) > CONTENT_LENGTH_LIMIT
                      \/ value(i) # value(1)}
    IN  IF lengths # <<>> /\ codings # <<>> THEN Outcome("AmbiguousFraming", 0)
        ELSE IF codings # <<>>
        THEN ChunkedIf(Len(codings) = 1 /\ TrimOws(codings[1]) = <<Coding>>)
        ELSE IF lengths = <<>> THEN Outcome("None", 0)
        ELSE IF faulty = {} THEN FixedLength(value(1))
        ELSE LET first == Min(faulty)
             IN  IF value(first) = Overflow THEN Outcome("InvalidContentLength", 0)
                 ELSE IF value(first) > CONTENT_LENGTH_LIMIT
                 THEN Outcome("LimitExceeded", value(first))
                 ELSE Outcome("ConflictingContentLength", 0)
=============================================================================
