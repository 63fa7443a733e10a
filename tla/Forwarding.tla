----------------------------- MODULE Forwarding -----------------------------
(***************************************************************************)
(* apply_forwarding_policy of specs/polyform.toml, and its five            *)
(* implementations under src/src/implementations/forwarding_*.rs.          *)
(*                                                                         *)
(* A policy is [trust_incoming, client, proto, host, host_valid], all but  *)
(* the first from the listener: client is [text, family, canonical], host  *)
(* one symbol that validate_authority accepts or not.  Values are          *)
(* sequences of symbols, a symbol being Comma, Blank (SP), Bad (a control  *)
(* or non-ASCII byte) or any other; their length is counted in symbols.    *)
(***************************************************************************)
EXTENDS HopByHop

CONSTANT VALUE_LIMIT    \* 1024

ASSUME ForwardingAssumption == VALUE_LIMIT \in Nat \ {0}

Blank == "blank"

SLOTS == <<<<"forwarded">>, <<"x-forwarded-for">>, <<"x-forwarded-proto">>, <<"x-forwarded-host">>>>

\* The slot a field belongs to, 0 for a field that is passed over.
SlotOf(field) == SelectInSeq(SLOTS, LAMBDA name : name = field.name)

\* What the function returns: values are the four texts, actual the length
\* LimitExceeded reports.
ForwardingOutcome(tag, actual, values) == [tag |-> tag, actual |-> actual, values |-> values]
InvalidForwardingInput == ForwardingOutcome("InvalidForwardingInput", 0, <<>>)
OverLimit(actual) == ForwardingOutcome("LimitExceeded", actual, <<>>)

\* Values gathered per slot: <<>> for None, <<value>> for Some(value).
Collected(prior) == ForwardingOutcome("collected", 0, prior)
NoPrior == [slot \in DOMAIN SLOTS |-> <<>>]

\* The hop of this listener: for=IPv4 or quoted bracketed IPv6, proto, host.
Hop(policy) ==
    <<"for=">> \o (IF policy.client.family = "V6"
                   THEN <<"quote", policy.client.text, "quote">> ELSE <<policy.client.text>>)
               \o <<";proto=", policy.proto, ";host=", policy.host>>

Additions(policy) == <<Hop(policy), <<policy.client.text>>, <<policy.proto>>, <<policy.host>>>>

\* The proto and the host, checked after the address and with the same error.
ValidListener(policy) == policy.proto \in {"http", "https"} /\ policy.host_valid

\* An IPv4 address must be in canonical text; some variants ask that of IPv6.
CanonicalClient(policy) == policy.client.canonical
CanonicalIfV4(policy) == policy.client.family = "V4" => policy.client.canonical

Combine(prior, addition) ==
    IF prior = <<>> THEN addition ELSE prior[1] \o <<Comma, Blank>> \o addition

\* The limits of the four results, checked in the order of the slots.
ExtendAll(prior, additions) ==
    LET values == [slot \in DOMAIN SLOTS |-> Combine(prior[slot], additions[slot])]
        over == {slot \in DOMAIN SLOTS : Len(values[slot]) > VALUE_LIMIT}
    IN  IF over # {} THEN OverLimit(Len(values[Min(over)]))
        ELSE ForwardingOutcome("ForwardingResult", 0, values)

-----------------------------------------------------------------------------
\* The two checks of an incoming value: one scan that tracks whether the
\* member has content, or a test of the bytes and one of the split members.

ScanValue(value) ==
    LET step(state, symbol) ==
            CASE state = "invalid" \/ symbol = Bad -> "invalid"
              [] state # "invalid" /\ symbol = Comma -> IF state = "content" THEN "empty" ELSE "invalid"
              [] state # "invalid" /\ symbol = Blank -> state
              [] OTHER -> "content"
    IN  CASE Len(value) > VALUE_LIMIT -> OverLimit(Len(value))
          [] Len(value) <= VALUE_LIMIT /\ FoldLeft(step, "empty", value) = "content" -> Collected(<<value>>)
          [] OTHER -> InvalidForwardingInput

SplitValue(value) ==
    LET members == SplitMembers(value)
    IN  CASE Len(value) > VALUE_LIMIT -> OverLimit(Len(value))
          [] Len(value) <= VALUE_LIMIT
             /\ (\/ \E i \in DOMAIN value : value[i] = Bad
                 \/ \E i \in DOMAIN members : ToSet(members[i]) \subseteq {Blank}) -> InvalidForwardingInput
          [] OTHER -> Collected(<<value>>)

\* A pass that refuses a repeated field before it looks at its value.
DuplicateFirst(gathered, field, checked) ==
    LET slot == SlotOf(field)
    IN  CASE gathered.tag # "collected" \/ slot = 0 -> gathered
          [] gathered.tag = "collected" /\ slot # 0 /\ gathered.values[slot] # <<>> -> InvalidForwardingInput
          [] OTHER -> IF checked.tag # "collected" THEN checked
                      ELSE [gathered EXCEPT !.values[slot] = checked.values]

\* A pass that looks at the value before it refuses a repeated field.
ValueFirst(gathered, field, checked) ==
    LET slot == SlotOf(field)
    IN  CASE gathered.tag # "collected" \/ slot = 0 -> gathered
          [] gathered.tag = "collected" /\ slot # 0 /\ checked.tag # "collected" -> checked
          [] OTHER -> IF gathered.values[slot] # <<>> THEN InvalidForwardingInput
                      ELSE [gathered EXCEPT !.values[slot] = checked.values]

-----------------------------------------------------------------------------
\* direct_match: prior values, then the hop alone, then the combined lengths.

InspectPriorValues(fields) ==
    FoldLeft(LAMBDA gathered, field : DuplicateFirst(gathered, field, ScanValue(field.value)),
             Collected(NoPrior), fields)

DirectMatchForwarding(policy, fields) ==
    LET prior == IF policy.trust_incoming THEN InspectPriorValues(fields) ELSE Collected(NoPrior)
        hop == Len(Hop(policy))
    IN  CASE ~(CanonicalClient(policy) /\ ValidListener(policy)) -> InvalidForwardingInput
          [] CanonicalClient(policy) /\ ValidListener(policy) /\ prior.tag # "collected" -> prior
          [] OTHER -> IF hop > VALUE_LIMIT THEN OverLimit(hop)
                      ELSE ExtendAll(prior.values, Additions(policy))

\* transition_model: nothing is read from an untrusted block.

IncomingValues(fields) ==
    FoldLeft(LAMBDA gathered, field : ValueFirst(gathered, field, SplitValue(field.value)),
             Collected(NoPrior), fields)

TransitionModelForwarding(policy, fields) ==
    LET incoming == IncomingValues(fields)
    IN  IF ~(CanonicalIfV4(policy) /\ ValidListener(policy)) THEN InvalidForwardingInput
        ELSE IF ~policy.trust_incoming THEN ExtendAll(NoPrior, Additions(policy))
        ELSE IF incoming.tag # "collected" THEN incoming
        ELSE ExtendAll(incoming.values, Additions(policy))

\* central_transition: the state is Replace, or Extend with the old values.

CollectForwardingHeaders(fields) ==
    FoldLeft(LAMBDA gathered, field : ValueFirst(gathered, field, SplitValue(field.value)),
             Collected(NoPrior), fields)

CentralTransitionForwarding(policy, fields) ==
    LET extend == CollectForwardingHeaders(fields)
    IN  IF ~(CanonicalClient(policy) /\ ValidListener(policy)) THEN InvalidForwardingInput
        ELSE IF policy.trust_incoming /\ extend.tag # "collected" THEN extend
        ELSE ExtendAll(IF policy.trust_incoming THEN extend.values ELSE NoPrior, Additions(policy))

-----------------------------------------------------------------------------
\* primitive_boundary: positions of the old fields, 0 for ABSENT.

\* Faulty variant: the last of repeated fields is taken.
LastTrustedHeaders(fields) ==
    [tag |-> "collected", actual |-> 0,
     values |-> [slot \in DOMAIN SLOTS |->
                    SelectLastInSeq(fields, LAMBDA field : field.name = SLOTS[slot])]]

TrustedHeaders(fields) ==
    LET step(positions, index) ==
            LET field == fields[index]
                slot == SlotOf(field)
                checked == ScanValue(field.value)
            IN  CASE positions.tag # "collected" \/ slot = 0 -> positions
                  [] positions.tag = "collected" /\ slot # 0 /\ checked.tag # "collected" -> checked
                  [] OTHER -> IF positions.values[slot] # 0 THEN InvalidForwardingInput
                              ELSE [positions EXCEPT !.values[slot] = index]
    IN  FoldLeftDomain(step, Collected([slot \in DOMAIN SLOTS |-> 0]), fields)

PrimitiveBoundaryForwarding(policy, fields) ==
    LET positions == IF policy.trust_incoming THEN TrustedHeaders(fields)
                     ELSE Collected([slot \in DOMAIN SLOTS |-> 0])
        old == [slot \in DOMAIN SLOTS |->
                   IF positions.values[slot] = 0 THEN <<>> ELSE <<fields[positions.values[slot]].value>>]
    IN  IF ~(CanonicalIfV4(policy) /\ ValidListener(policy)) THEN InvalidForwardingInput
        ELSE IF positions.tag # "collected" THEN positions
        ELSE IF Len(Hop(policy)) > VALUE_LIMIT THEN OverLimit(Len(Hop(policy)))
        ELSE ExtendAll(old, Additions(policy))

-----------------------------------------------------------------------------
\* decision_table: one transition for all slots decides whether the previous
\* value is used.

CollectTrustedValues(fields) ==
    FoldLeft(LAMBDA gathered, field : DuplicateFirst(gathered, field, SplitValue(field.value)),
             Collected(NoPrior), fields)

DecisionTableForwarding(policy, fields) ==
    LET previous == IF policy.trust_incoming THEN CollectTrustedValues(fields) ELSE Collected(NoPrior)
        transition == IF policy.trust_incoming THEN "Extend" ELSE "Replace"
        prefix == [slot \in DOMAIN SLOTS |->
                      IF transition = "Replace" THEN <<>> ELSE previous.values[slot]]
    IN  IF ~(CanonicalIfV4(policy) /\ ValidListener(policy)) THEN InvalidForwardingInput
        ELSE IF previous.tag # "collected" THEN previous
        ELSE IF Len(Hop(policy)) > VALUE_LIMIT THEN OverLimit(Len(Hop(policy)))
        ELSE ExtendAll(prefix, Additions(policy))

-----------------------------------------------------------------------------
\* The five, as the registry lists them.
Forwardings(policy, fields) ==
    [direct_match |-> DirectMatchForwarding(policy, fields),
     transition_model |-> TransitionModelForwarding(policy, fields),
     central_transition |-> CentralTransitionForwarding(policy, fields),
     primitive_boundary |-> PrimitiveBoundaryForwarding(policy, fields),
     decision_table |-> DecisionTableForwarding(policy, fields)]

\* The field at the index repeats an earlier one.
Repeats(fields, index) == \E earlier \in 1 .. index - 1 : fields[earlier].name = fields[index].name

\* The requirements of specs/polyform.toml for this function: the first field
\* at fault decides, and otherwise each result is what came before, if it was
\* trusted, and then what this listener knows.
ForwardingRule(policy, fields) ==
    LET slots == {i \in DOMAIN fields : SlotOf(fields[i]) # 0}
        faulty == {i \in slots : Repeats(fields, i) \/ ScanValue(fields[i].value).tag # "collected"}
        prior(slot) == {fields[i].value : i \in {j \in slots : SlotOf(fields[j]) = slot}}
    IN  IF ~ValidListener(policy) THEN InvalidForwardingInput
        ELSE IF ~policy.trust_incoming THEN ExtendAll(NoPrior, Additions(policy))
        ELSE IF faulty # {}
        THEN IF Repeats(fields, Min(faulty)) THEN InvalidForwardingInput
             ELSE ScanValue(fields[Min(faulty)].value)
        ELSE ExtendAll([slot \in DOMAIN SLOTS |-> SetToSeq(prior(slot))], Additions(policy))
=============================================================================
