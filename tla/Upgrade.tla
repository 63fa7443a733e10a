------------------------------ MODULE Upgrade ------------------------------
(***************************************************************************)
(* decide_upgrade of specs/polyform.toml, and its five implementations     *)
(* under src/src/implementations/upgrade_*.rs.                             *)
(*                                                                         *)
(* A block is made of the fields of module HopByHop, their values of its   *)
(* symbols.  A Sec-WebSocket-Key is one symbol, and what the decoders look *)
(* at in it is in KEYS.  A request is [method, target], its target given   *)
(* by its form; the framing is what determine_body_framing returned.       *)
(***************************************************************************)
EXTENDS HopByHop

\* The kinds of field the function looks at; the others are passed over.
REQUIRED_ONCE ==
    {Connection, <<"upgrade">>, <<"sec-websocket-version">>, <<"sec-websocket-key">>}
PROTOCOL == <<"sec-websocket-protocol">>
CONTENT_LENGTH == <<"content-length">>
TRANSFER_ENCODING == <<"transfer-encoding">>
FORBIDDEN_FIELDS == {<<"sec-websocket-extensions">>, CONTENT_LENGTH, TRANSFER_ENCODING}
KINDS == REQUIRED_ONCE \cup {PROTOCOL} \cup FORBIDDEN_FIELDS

\* Keys: their length, whether they end in ==, whether the other bytes are
\* base64 digits, and the four low bits of the last digit.
KEYS ==
    [canonical |-> [length |-> 24, padded |-> TRUE, digits |-> TRUE, low |-> 0],
     trailing |-> [length |-> 24, padded |-> TRUE, digits |-> TRUE, low |-> 1],
     short |-> [length |-> 20, padded |-> TRUE, digits |-> TRUE, low |-> 0]]

CanonicalKey(value) ==
    LET key == TrimSymbols(value)
    IN  /\ Len(key) = 1
        /\ key[1] \in DOMAIN KEYS
        /\ KEYS[key[1]] = [length |-> 24, padded |-> TRUE, digits |-> TRUE, low |-> 0]

TrimmedMembers(value) ==
    LET members == SplitMembers(value)
    IN  [i \in DOMAIN members |-> TrimSymbols(members[i])]

\* Unique nonempty tokens; letter case tells protocols apart.
ValidProtocols(value) ==
    LET members == TrimmedMembers(value)
    IN  /\ \A i \in DOMAIN members : IsToken(members[i])
        /\ IsInjective(members)

\* What the members of a Connection value say, the scan ending at a bad one.
InspectConnection(value) ==
    LET step(evidence, token) ==
            CASE evidence = "Invalid" \/ ~IsToken(token) -> "Invalid"
              [] evidence # "Invalid" /\ IsToken(token) /\ LowercaseToken(token) = <<"upgrade">> -> "Upgrade"
              [] OTHER -> evidence
    IN  FoldLeft(step, "NoUpgrade", TrimmedMembers(value))

\* The check of one value, by the kind of its field.
FieldValid(field) ==
    CASE field.name = Connection -> InspectConnection(field.value) # "Invalid"
      [] field.name = <<"upgrade">> -> LowercaseToken(TrimSymbols(field.value)) = <<"websocket">>
      [] field.name = <<"sec-websocket-version">> -> TrimSymbols(field.value) = <<"13">>
      [] field.name = <<"sec-websocket-key">> -> CanonicalKey(field.value)
      [] field.name = PROTOCOL -> ValidProtocols(field.value)
      [] OTHER -> TRUE

Observed(fields) == SelectSeq(fields, LAMBDA field : field.name \in KINDS)

IsOriginOrAbsolute(target) == target \in {"Origin", "Absolute"}

\* The two sides of the intent, and the three states of the framing.
Intent(upgradeField, connectionToken) ==
    CASE ~upgradeField /\ ~connectionToken -> "Absent"
      [] upgradeField /\ connectionToken -> "Paired"
      [] OTHER -> "OneSided"

FramingSafety(contentLength, transferEncoding, framing) ==
    CASE contentLength /\ transferEncoding -> "Ambiguous"
      [] ~contentLength /\ ~transferEncoding /\ framing = "None" -> "Clear"
      [] OTHER -> "Body"

-----------------------------------------------------------------------------
\* composable_table: one occurrence per kind, recorded in one pass.

Record(occurrence, valid) ==
    IF occurrence # "Missing" THEN "Repeated" ELSE IF valid THEN "Valid" ELSE "Invalid"

ReadFields(fields) ==
    FoldLeft(LAMBDA read, field : [read EXCEPT ![field.name] = Record(@, FieldValid(field))],
             [kind \in KINDS |-> "Missing"], Observed(fields))

RequestsUpgrade(fields) ==
    \E i \in DOMAIN fields :
        fields[i].name = Connection /\ InspectConnection(fields[i].value) = "Upgrade"

ComposableHandshake(read, request) ==
    /\ \A kind \in REQUIRED_ONCE : read[kind] = "Valid"
    /\ read[PROTOCOL] \in {"Missing", "Valid"}
    /\ read[<<"sec-websocket-extensions">>] = "Missing"
    /\ request.method = "get"
    /\ IsOriginOrAbsolute(request.target)

ComposableUpgrade(request, fields, framing) ==
    LET read == ReadFields(fields)
        exists(kind) == read[kind] # "Missing"
        intent == Intent(exists(<<"upgrade">>), RequestsUpgrade(fields))
        safety == FramingSafety(exists(CONTENT_LENGTH), exists(TRANSFER_ENCODING), framing)
    IN  CASE intent = "Absent" -> "None"
          [] intent # "Absent" /\ safety = "Ambiguous" -> "AmbiguousFraming"
          [] intent = "Paired" /\ safety = "Clear" /\ ComposableHandshake(read, request) -> "WebSocket"
          [] OTHER -> "UnsupportedUpgrade"

-----------------------------------------------------------------------------
\* transformation_matrix: each concern by itself, then one matrix.

DECISIONS ==
    [state \in {"Absent", "OneSided", "Paired"} \X {"Clear", "Body", "Ambiguous"} \X BOOLEAN |->
        IF state[1] = "Absent" THEN "None"
        ELSE IF state[2] = "Ambiguous" THEN "AmbiguousFraming"
        ELSE IF state = <<"Paired", "Clear", TRUE>> THEN "WebSocket" ELSE "UnsupportedUpgrade"]

\* transform_one: the value of the only field of the name.
TransformOne(fields, name) ==
    LET named == SelectSeq(fields, LAMBDA field : field.name = name)
    IN  CASE named = <<>> -> "Missing"
          [] Len(named) > 1 -> "Duplicate"
          [] OTHER -> IF FieldValid(named[1]) THEN "Valid" ELSE "Invalid"

\* parse_connection goes on after a malformed member, so an upgrade token next
\* to one still counts.
HasUpgradeToken(value) ==
    LET members == TrimmedMembers(value)
    IN  \E i \in DOMAIN members : IsToken(members[i]) /\ LowercaseToken(members[i]) = <<"upgrade">>

HasHeader(fields, name) == \E i \in DOMAIN fields : fields[i].name = name

MatrixHandshake(request, fields, intended) ==
    /\ \A kind \in REQUIRED_ONCE : TransformOne(fields, kind) = "Valid"
    /\ intended
    /\ TransformOne(fields, PROTOCOL) \in {"Missing", "Valid"}
    /\ \A kind \in FORBIDDEN_FIELDS : ~HasHeader(fields, kind)
    /\ request.method = "get"
    /\ IsOriginOrAbsolute(request.target)

TransformationMatrixUpgrade(request, fields, framing) ==
    LET intended == \E i \in DOMAIN fields :
                        fields[i].name = Connection /\ HasUpgradeToken(fields[i].value)
    IN  DECISIONS[<<Intent(HasHeader(fields, <<"upgrade">>), intended),
                    FramingSafety(HasHeader(fields, CONTENT_LENGTH),
                                  HasHeader(fields, TRANSFER_ENCODING), framing),
                    MatrixHandshake(request, fields, intended)>>]

-----------------------------------------------------------------------------
\* invariant_signature: the kinds seen, seen again and seen with a bad value.

Signature(fields) ==
    LET step(signature, field) ==
            [seen |-> signature.seen \cup {field.name},
             duplicates |-> signature.duplicates \cup (signature.seen \cap {field.name}),
             invalid |-> signature.invalid \cup (IF FieldValid(field) THEN {} ELSE {field.name}),
             upgrade |-> \/ signature.upgrade
                         \/ field.name = Connection /\ InspectConnection(field.value) = "Upgrade"]
    IN  FoldLeft(step, [seen |-> {}, duplicates |-> {}, invalid |-> {}, upgrade |-> FALSE],
                 Observed(fields))

\* Faulty variant: a repeated field is not noticed.
RepeatedIsComplete(signature, request) ==
    /\ REQUIRED_ONCE \subseteq signature.seen
    /\ signature.invalid = {}
    /\ signature.seen \cap FORBIDDEN_FIELDS = {}
    /\ signature.upgrade
    /\ request.method = "get"
    /\ IsOriginOrAbsolute(request.target)

IsComplete(signature, request) ==
    /\ REQUIRED_ONCE \subseteq signature.seen
    /\ signature.duplicates \cap (REQUIRED_ONCE \cup {PROTOCOL}) = {}
    /\ signature.invalid \cap (REQUIRED_ONCE \cup {PROTOCOL}) = {}
    /\ signature.seen \cap FORBIDDEN_FIELDS = {}
    /\ signature.upgrade
    /\ request.method = "get"
    /\ IsOriginOrAbsolute(request.target)

InvariantSignatureUpgrade(request, fields, framing) ==
    LET signature == Signature(fields)
        intent == Intent(<<"upgrade">> \in signature.seen, signature.upgrade)
        state == FramingSafety(CONTENT_LENGTH \in signature.seen,
                               TRANSFER_ENCODING \in signature.seen, framing)
    IN  CASE intent = "Absent" -> "None"
          [] intent # "Absent" /\ state = "Ambiguous" -> "AmbiguousFraming"
          [] intent = "Paired" /\ state = "Clear" /\ IsComplete(signature, request) -> "WebSocket"
          [] OTHER -> "UnsupportedUpgrade"

-----------------------------------------------------------------------------
\* obligation_algebra: each required field discharges an obligation once; a
\* Connection without the upgrade token contradicts its own.

Supply(obligation, valid) ==
    IF obligation = "Open" /\ valid THEN "Discharged" ELSE "Contradicted"

Discharges(field) ==
    FieldValid(field) /\ (field.name = Connection => InspectConnection(field.value) = "Upgrade")

BoundaryFacts(fields) ==
    FoldLeft(LAMBDA facts, field : [facts EXCEPT ![field.name] = Supply(@, Discharges(field))],
             [kind \in KINDS |-> "Open"], Observed(fields))

ObligationHandshake(facts, request) ==
    /\ \A kind \in REQUIRED_ONCE : facts[kind] = "Discharged"
    /\ facts[PROTOCOL] \in {"Open", "Discharged"}
    /\ \A kind \in FORBIDDEN_FIELDS : facts[kind] = "Open"
    /\ request.method = "get"
    /\ IsOriginOrAbsolute(request.target)

ObligationAlgebraUpgrade(request, fields, framing) ==
    LET facts == BoundaryFacts(fields)
        present(kind) == facts[kind] # "Open"
        intent == Intent(present(<<"upgrade">>), RequestsUpgrade(fields))
        evidence == FramingSafety(present(CONTENT_LENGTH), present(TRANSFER_ENCODING), framing)
    IN  CASE intent = "Absent" -> "None"
          [] intent # "Absent" /\ evidence = "Ambiguous" -> "AmbiguousFraming"
          [] intent = "Paired" /\ evidence = "Clear" /\ ObligationHandshake(facts, request) -> "WebSocket"
          [] OTHER -> "UnsupportedUpgrade"

-----------------------------------------------------------------------------
\* observation_policy: the first row of a table of patterns that applies.

DecisionRow(intents, framings, handshakes, result) ==
    [intents |-> intents, framings |-> framings, handshakes |-> handshakes, result |-> result]

DECISION_TABLE ==
    LET present == {"OneSided", "Paired"}
        any == {"Clear", "Body", "Ambiguous"}
    IN  <<DecisionRow({"Absent"}, any, BOOLEAN, "None"),
          DecisionRow(present, {"Ambiguous"}, BOOLEAN, "AmbiguousFraming"),
          DecisionRow({"Paired"}, {"Clear"}, {TRUE}, "WebSocket"),
          DecisionRow(present, any, BOOLEAN, "UnsupportedUpgrade")>>

Applies(row, intent, framing, handshake) ==
    intent \in row.intents /\ framing \in row.framings /\ handshake \in row.handshakes

\* exactly_one over the observations of a kind.
ExactlyOne(observations, kind) ==
    LET ofKind == SelectSeq(observations, LAMBDA field : field.name = kind)
    IN  Len(ofKind) = 1 /\ Discharges(ofKind[1])

ClassifyHandshake(request, observations) ==
    /\ \A kind \in REQUIRED_ONCE : ExactlyOne(observations, kind)
    /\ HasHeader(observations, PROTOCOL) => ExactlyOne(observations, PROTOCOL)
    /\ \A kind \in FORBIDDEN_FIELDS : ~HasHeader(observations, kind)
    /\ request.method = "get"
    /\ IsOriginOrAbsolute(request.target)

ObservationPolicyUpgrade(request, fields, framing) ==
    LET observations == Observed(fields)
        intent == Intent(HasHeader(observations, <<"upgrade">>), RequestsUpgrade(observations))
        state == FramingSafety(HasHeader(observations, CONTENT_LENGTH),
                               HasHeader(observations, TRANSFER_ENCODING), framing)
        handshake == ClassifyHandshake(request, observations)
        row == SelectInSeq(DECISION_TABLE, LAMBDA r : Applies(r, intent, state, handshake))
    IN  DECISION_TABLE[row].result

-----------------------------------------------------------------------------
\* The five, as the registry lists them.
Upgrades(request, fields, framing) ==
    [composable_table |-> ComposableUpgrade(request, fields, framing),
     transformation_matrix |-> TransformationMatrixUpgrade(request, fields, framing),
     invariant_signature |-> InvariantSignatureUpgrade(request, fields, framing),
     obligation_algebra |-> ObligationAlgebraUpgrade(request, fields, framing),
     observation_policy |-> ObservationPolicyUpgrade(request, fields, framing)]

\* The requirements of specs/polyform.toml for this function, as sets of the
\* places in the block; the block's Connection values are well formed.
UpgradeRule(request, fields, framing) ==
    LET at(kind) == {i \in DOMAIN fields : fields[i].name = kind}
        one(kind) == Cardinality(at(kind)) = 1 /\ \A i \in at(kind) : FieldValid(fields[i])
        token == \E i \in at(Connection) :
                    <<"upgrade">> \in {LowercaseToken(m) : m \in ToSet(TrimmedMembers(fields[i].value))}
    IN  IF at(<<"upgrade">>) = {} /\ ~token THEN "None"
        ELSE IF at(CONTENT_LENGTH) # {} /\ at(TRANSFER_ENCODING) # {} THEN "AmbiguousFraming"
        ELSE IF /\ token
                /\ \A kind \in REQUIRED_ONCE : one(kind)
                /\ at(PROTOCOL) # {} => one(PROTOCOL)
                /\ \A kind \in FORBIDDEN_FIELDS : at(kind) = {}
                /\ framing = "None" /\ request.method = "get" /\ IsOriginOrAbsolute(request.target)
             THEN "WebSocket" ELSE "UnsupportedUpgrade"
=============================================================================
