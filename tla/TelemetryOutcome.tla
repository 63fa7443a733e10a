-------------------------- MODULE TelemetryOutcome --------------------------
(***************************************************************************)
(* classify_telemetry_outcome of specs/polyform.toml, and its five         *)
(* implementations under src/src/implementations/telemetry_*.rs.           *)
(*                                                                         *)
(* A code is the sequence of its words between underscores; of a word the  *)
(* implementations look at its length and its first and last letter as     *)
(* well as at the word itself.                                             *)
(***************************************************************************)
EXTENDS Integers, Sequences, SequencesExt

\* Length, first and last letter (a = 1) of the words the codes are made of, of
\* those of the other two codes Fault::code gives, and of a word that has the
\* fingerprint of accepted.
Spelling ==
    [accepted |-> <<8, 1, 4>>, ambiguous |-> <<9, 1, 19>>, client |-> <<6, 3, 20>>,
     disagreement |-> <<12, 4, 20>>, failure |-> <<7, 6, 5>>, framing |-> <<7, 6, 7>>,
     implementation |-> <<14, 9, 14>>, internal |-> <<8, 9, 12>>, missing |-> <<7, 13, 7>>,
     policy |-> <<6, 16, 25>>, rejected |-> <<8, 18, 4>>, route |-> <<5, 18, 5>>,
     syntax |-> <<6, 19, 24>>, timeout |-> <<7, 20, 20>>, upstream |-> <<8, 21, 13>>,
     closed |-> <<6, 3, 4>>, overloaded |-> <<10, 15, 4>>, affected |-> <<8, 1, 4>>]

CodeLength(code) ==
    FoldLeft(LAMBDA n, word : n + Spelling[word][1] + (IF n = 0 THEN 0 ELSE 1), 0, code)

MAX_CODE_BYTES == CodeLength(<<"implementation", "disagreement">>)

Unclassified == "SerializationInvariant"

\* release, emit, validate_upstream: some categories exclude upstream bytes.
Emit(category, either, upstream_reached) ==
    IF upstream_reached /\ ~either THEN [category |-> Unclassified, success |-> FALSE]
    ELSE [category |-> category, success |-> category = "Accepted"]

Unknown == [category |-> Unclassified, success |-> FALSE]

-----------------------------------------------------------------------------
\* rule_table: RULES, searched for an equal code.  symbol_phases has the same
\* table as two matches, decode_boundary and permits_upstream.
Row(code, category, either) == [code |-> code, category |-> category, either |-> either]

RULES ==
    <<Row(<<"accepted">>, "Accepted", TRUE),
      Row(<<"client", "syntax">>, "ClientSyntax", FALSE),
      Row(<<"ambiguous", "framing">>, "AmbiguousFraming", FALSE),
      Row(<<"policy", "rejected">>, "PolicyRejected", FALSE),
      Row(<<"route", "missing">>, "RouteMissing", FALSE),
      Row(<<"upstream", "failure">>, "UpstreamFailure", TRUE),
      Row(<<"timeout">>, "Timeout", TRUE),
      Row(<<"implementation", "disagreement">>, "ImplementationDisagreement", FALSE),
      Row(<<"internal", "failure">>, "InternalFailure", TRUE)>>

RuleTableOutcome(code, upstream_reached) ==
    LET found == {i \in DOMAIN RULES : RULES[i].code = code}
    IN  IF CodeLength(code) > MAX_CODE_BYTES \/ found = {} THEN Unknown
        ELSE LET rule == RULES[Min(found)] IN Emit(rule.category, rule.either, upstream_reached)

SymbolOf(code) ==
    CASE code = <<"accepted">> -> "Accepted"
      [] code = <<"client", "syntax">> -> "ClientSyntax"
      [] code = <<"ambiguous", "framing">> -> "AmbiguousFraming"
      [] code = <<"policy", "rejected">> -> "PolicyRejected"
      [] code = <<"route", "missing">> -> "RouteMissing"
      [] code = <<"upstream", "failure">> -> "UpstreamFailure"
      [] code = <<"timeout">> -> "Timeout"
      [] code = <<"implementation", "disagreement">> -> "ImplementationDisagreement"
      [] code = <<"internal", "failure">> -> "InternalFailure"
      [] OTHER -> Unclassified

SymbolPhasesOutcome(code, upstream_reached) ==
    IF SymbolOf(code) = Unclassified THEN Unknown
    ELSE Emit(SymbolOf(code),
              SymbolOf(code) \in {"Accepted", "UpstreamFailure", "Timeout", "InternalFailure"},
              upstream_reached)

-----------------------------------------------------------------------------
\* length_dispatch: the codes of each length, each with its own comparison.
LENGTH_RULES ==
    [n \in {7, 8, 13, 15, 16, 17, 27} |->
        CASE n = 7 -> <<Row(<<"timeout">>, "Timeout", TRUE)>>
          [] n = 8 -> <<Row(<<"accepted">>, "Accepted", TRUE)>>
          [] n = 13 -> <<Row(<<"client", "syntax">>, "ClientSyntax", FALSE),
                         Row(<<"route", "missing">>, "RouteMissing", FALSE)>>
          [] n = 15 -> <<Row(<<"policy", "rejected">>, "PolicyRejected", FALSE)>>
          [] n = 16 -> <<Row(<<"upstream", "failure">>, "UpstreamFailure", TRUE),
                         Row(<<"internal", "failure">>, "InternalFailure", TRUE)>>
          [] n = 17 -> <<Row(<<"ambiguous", "framing">>, "AmbiguousFraming", FALSE)>>
          [] n = 27 -> <<Row(<<"implementation", "disagreement">>,
                             "ImplementationDisagreement", FALSE)>>]

LengthDispatchOutcome(code, upstream_reached) ==
    IF CodeLength(code) \notin DOMAIN LENGTH_RULES THEN Unknown
    ELSE LET rows == LENGTH_RULES[CodeLength(code)]
             found == {i \in DOMAIN rows : rows[i].code = code}
         IN  IF found = {} THEN Unknown
             ELSE LET row == rows[Min(found)] IN Emit(row.category, row.either, upstream_reached)

-----------------------------------------------------------------------------
\* fingerprint_index: a table sorted by length, first and last letter.
CodeKey(code) == <<CodeLength(code), Spelling[Head(code)][2], Spelling[Last(code)][3]>>

KeyBelow(left, right) ==
    \E i \in 1 .. 3 : left[i] < right[i] /\ \A j \in 1 .. i - 1 : left[j] = right[j]

Keyed(key, row) == [key |-> key, row |-> row]

FINGERPRINTS ==
    <<Keyed(<<7, 20, 20>>, Row(<<"timeout">>, "Timeout", TRUE)),
      Keyed(<<8, 1, 4>>, Row(<<"accepted">>, "Accepted", TRUE)),
      Keyed(<<13, 3, 24>>, Row(<<"client", "syntax">>, "ClientSyntax", FALSE)),
      Keyed(<<13, 18, 7>>, Row(<<"route", "missing">>, "RouteMissing", FALSE)),
      Keyed(<<15, 16, 4>>, Row(<<"policy", "rejected">>, "PolicyRejected", FALSE)),
      Keyed(<<16, 9, 5>>, Row(<<"internal", "failure">>, "InternalFailure", TRUE)),
      Keyed(<<16, 21, 5>>, Row(<<"upstream", "failure">>, "UpstreamFailure", TRUE)),
      Keyed(<<17, 1, 7>>, Row(<<"ambiguous", "framing">>, "AmbiguousFraming", FALSE)),
      Keyed(<<27, 9, 20>>, Row(<<"implementation", "disagreement">>,
                               "ImplementationDisagreement", FALSE))>>

\* binary_search_by_key finds a key only where the table is sorted around it.
Locate(code) ==
    {i \in DOMAIN FINGERPRINTS :
        /\ FINGERPRINTS[i].key = CodeKey(code)
        /\ \A j \in 1 .. i - 1 : KeyBelow(FINGERPRINTS[j].key, CodeKey(code))
        /\ \A j \in i + 1 .. Len(FINGERPRINTS) : KeyBelow(CodeKey(code), FINGERPRINTS[j].key)
        /\ FINGERPRINTS[i].row.code = code}

FingerprintIndexOutcome(code, upstream_reached) ==
    IF code = <<>> \/ CodeLength(code) > MAX_CODE_BYTES THEN Unknown
    ELSE IF Locate(code) = {} THEN Unknown
    ELSE LET row == FINGERPRINTS[Min(Locate(code))].row
         IN  Emit(row.category, row.either, upstream_reached)

-----------------------------------------------------------------------------
\* word_composition: each word is parsed alone, then the pair is composed.
Vocabulary == DOMAIN Spelling \ {"closed", "overloaded", "affected"}

Composed ==
    [accepted |-> [none |-> <<"Accepted", TRUE>>], timeout |-> [none |-> <<"Timeout", TRUE>>],
     client |-> [syntax |-> <<"ClientSyntax", FALSE>>],
     ambiguous |-> [framing |-> <<"AmbiguousFraming", FALSE>>],
     policy |-> [rejected |-> <<"PolicyRejected", FALSE>>],
     route |-> [missing |-> <<"RouteMissing", FALSE>>],
     upstream |-> [failure |-> <<"UpstreamFailure", TRUE>>],
     internal |-> [failure |-> <<"InternalFailure", TRUE>>],
     implementation |-> [disagreement |-> <<"ImplementationDisagreement", FALSE>>]]

WordCompositionOutcome(code, upstream_reached) ==
    LET second == IF Len(code) = 1 THEN "none" ELSE code[2]
    IN  IF code = <<>> \/ CodeLength(code) > MAX_CODE_BYTES THEN Unknown
        ELSE IF Len(code) > 2 \/ ~(ToSet(code) \subseteq Vocabulary) THEN Unknown
        ELSE IF code[1] \notin DOMAIN Composed THEN Unknown
        ELSE IF second \notin DOMAIN Composed[code[1]] THEN Unknown
        ELSE LET composed == Composed[code[1]][second]
             IN  Emit(composed[1], composed[2], upstream_reached)

-----------------------------------------------------------------------------
TelemetryOutcomes(code, upstream_reached) ==
    [rule_table |-> RuleTableOutcome(code, upstream_reached),
     symbol_phases |-> SymbolPhasesOutcome(code, upstream_reached),
     length_dispatch |-> LengthDispatchOutcome(code, upstream_reached),
     fingerprint_index |-> FingerprintIndexOutcome(code, upstream_reached),
     word_composition |-> WordCompositionOutcome(code, upstream_reached)]
=============================================================================
