----------------------------- MODULE MatchRoute -----------------------------
(***************************************************************************)
(* match_route of specs/polyform.toml, and its five implementations under  *)
(* src/src/implementations/route_*.rs.                                     *)
(*                                                                         *)
(* A rule is [host, path_prefix, upstream, declaration_order, bad], where  *)
(* bad names the part whose spelling is not canonical, if any: the grammar *)
(* of hosts, prefixes and names is not modelled.  Paths are sequences of   *)
(* bytes; all that matters of a byte is whether it is Slash.               *)
(***************************************************************************)
EXTENDS Integers, Sequences, SequencesExt

CONSTANTS
    MAX_ROUTES,     \* 256
    PATH_LIMIT      \* 8192

ASSUME MatchRouteAssumption == MAX_ROUTES \in Nat \ {0} /\ PATH_LIMIT \in Nat \ {0}

Slash == 0

\* What the function returns; a refusal has no upstream and order -1.
Refused(reason) == [tag |-> reason, upstream |-> "none", order |-> -1]

Matched(rule) == [tag |-> "match", upstream |-> rule.upstream, order |-> rule.declaration_order]

-----------------------------------------------------------------------------
\* The checks before any rule is looked at, the same in all five.
BoundaryFault(target, routes) ==
    IF Len(routes) > MAX_ROUTES THEN "LimitExceeded"
    ELSE IF \/ target.form \notin {"Origin", "Absolute"}
            \/ target.routing_path = <<>>
            \/ target.routing_path[1] # Slash
    THEN "invalid_target" ELSE "ok"

PrefixMatches(prefix, path) ==
    \/ prefix = <<Slash>>
    \/ /\ IsPrefix(prefix, path)
       /\ \/ Len(path) = Len(prefix)
          \/ path[Len(prefix) + 1] = Slash

Eligible(rule, authority, target) ==
    /\ rule.host = authority
    /\ PrefixMatches(rule.path_prefix, target.routing_path)

\* Host, prefix and upstream are validated in this order.
RuleFault(rule, limited) ==
    IF rule.bad = "host" THEN "invalid_host"
    ELSE IF rule.bad = "prefix" \/ (limited /\ Len(rule.path_prefix) > PATH_LIMIT)
    THEN "invalid_path_prefix"
    ELSE IF rule.bad = "upstream" THEN "invalid_upstream" ELSE "ok"

DirectRuleFault(rule) == RuleFault(rule, TRUE)
BoundedMatchRuleFault(rule) == RuleFault(rule, TRUE)
RulePipelineRuleFault(rule) == RuleFault(rule, TRUE)
ImmutableTableRuleFault(rule) == RuleFault(rule, FALSE)
TypedArithmeticRuleFault(rule) == RuleFault(rule, FALSE)

\* precedes, choose, and the keys of max_by_key.
Precedes(challenger, incumbent) ==
    \/ Len(challenger.path_prefix) > Len(incumbent.path_prefix)
    \/ /\ Len(challenger.path_prefix) = Len(incumbent.path_prefix)
       /\ challenger.declaration_order < incumbent.declaration_order

-----------------------------------------------------------------------------
\* The set of declaration orders of bounded_match: open addressing with linear
\* probing.  185 is 0x9e3779b9 modulo 256, all that the mask of a table of at
\* most 256 slots keeps of it.
FreeSlot == -1

Probe(order, i) == (order * 185 + i) % MAX_ROUTES

\* Faulty variant: only the first slot is looked at, a collision is a duplicate.
InsertWithoutProbing(slots, order) ==
    IF slots[Probe(order, 0)] = FreeSlot
    THEN [fresh |-> TRUE, slots |-> [slots EXCEPT ![Probe(order, 0)] = order]]
    ELSE [fresh |-> FALSE, slots |-> slots]

Insert(slots, order) ==
    LET stops == {i \in 0 .. MAX_ROUTES - 1 : slots[Probe(order, i)] \in {FreeSlot, order}}
        slot == Probe(order, Min(stops))
    IN  IF stops = {} THEN [fresh |-> TRUE, slots |-> slots]
        ELSE [fresh |-> slots[slot] = FreeSlot, slots |-> [slots EXCEPT ![slot] = order]]

\* A HashSet, for the others.
InsertInSet(seen, order) == [fresh |-> order \notin seen, slots |-> seen \cup {order}]

-----------------------------------------------------------------------------
\* One pass that validates, checks the order and keeps the winner: direct,
\* bounded_match and typed_arithmetic.
OnePass(authority, target, routes, Fault(_), Put(_, _), empty) ==
    LET step(s, rule) ==
            LET put == Put(s.seen, rule.declaration_order)
                wins == /\ Eligible(rule, authority, target)
                        /\ s.winner = <<>> \/ Precedes(rule, s.winner[1])
            IN  IF s.fault # "ok" THEN s
                ELSE IF Fault(rule) # "ok" THEN [s EXCEPT !.fault = Fault(rule)]
                ELSE IF ~put.fresh THEN [s EXCEPT !.fault = "duplicate_declaration_order"]
                ELSE [s EXCEPT !.seen = put.slots, !.winner = IF wins THEN <<rule>> ELSE @]
        end == FoldLeft(step, [fault |-> "ok", seen |-> empty, winner |-> <<>>], routes)
    IN  IF BoundaryFault(target, routes) # "ok" THEN Refused(BoundaryFault(target, routes))
        ELSE IF end.fault # "ok" THEN Refused(end.fault)
        ELSE IF end.winner = <<>> THEN Refused("NoRoute") ELSE Matched(end.winner[1])

DirectRoute(authority, target, routes) ==
    OnePass(authority, target, routes, DirectRuleFault, InsertInSet, {})

BoundedMatchRoute(authority, target, routes) ==
    OnePass(authority, target, routes, BoundedMatchRuleFault, Insert,
            [slot \in 0 .. MAX_ROUTES - 1 |-> FreeSlot])

TypedArithmeticRoute(authority, target, routes) ==
    OnePass(authority, target, routes, TypedArithmeticRuleFault, InsertInSet, {})

-----------------------------------------------------------------------------
\* max_by_key over the eligible rules; only a table without duplicates gets here.
Greatest(authority, target, routes) ==
    LET eligible == {rule \in ToSet(routes) : Eligible(rule, authority, target)}
    IN  IF eligible = {} THEN Refused("NoRoute")
        ELSE Matched(CHOOSE rule \in eligible : \A other \in eligible \ {rule} : Precedes(rule, other))

\* The fault of the first rule that has one.
FirstFault(routes, Fault(_, _)) ==
    LET faulty == {i \in DOMAIN routes : Fault(routes, i) # "ok"}
    IN  IF faulty = {} THEN "ok" ELSE Fault(routes, Min(faulty))

DuplicateFault(routes, i) ==
    IF \E j \in 1 .. i - 1 : routes[j].declaration_order = routes[i].declaration_order
    THEN "duplicate_declaration_order" ELSE "ok"

\* immutable_table: validate_rule checks a rule, then its order.
ImmutableTableRoute(authority, target, routes) ==
    LET validate(rules, i) ==
            IF ImmutableTableRuleFault(rules[i]) # "ok" THEN ImmutableTableRuleFault(rules[i])
            ELSE DuplicateFault(rules, i)
        fault == FirstFault(routes, validate)
    IN  IF BoundaryFault(target, routes) # "ok" THEN Refused(BoundaryFault(target, routes))
        ELSE IF fault # "ok" THEN Refused(fault) ELSE Greatest(authority, target, routes)

\* rule_pipeline: every rule is checked before any order is.
RulePipelineRoute(authority, target, routes) ==
    LET check(rules, i) == RulePipelineRuleFault(rules[i])
        fault == FirstFault(routes, check)
        repeated == FirstFault(routes, DuplicateFault)
    IN  IF BoundaryFault(target, routes) # "ok" THEN Refused(BoundaryFault(target, routes))
        ELSE IF fault # "ok" THEN Refused(fault)
        ELSE IF repeated # "ok" THEN Refused(repeated)
        ELSE Greatest(authority, target, routes)

-----------------------------------------------------------------------------
MatchRoutes(authority, target, routes) ==
    [direct |-> DirectRoute(authority, target, routes),
     bounded_match |-> BoundedMatchRoute(authority, target, routes),
     typed_arithmetic |-> TypedArithmeticRoute(authority, target, routes),
     immutable_table |-> ImmutableTableRoute(authority, target, routes),
     rule_pipeline |-> RulePipelineRoute(authority, target, routes)]

\* route_rules gives every rule the order of its place in the table.
DistinctOrders(routes) ==
    \A i, j \in DOMAIN routes :
        i # j => routes[i].declaration_order # routes[j].declaration_order

\* The requirements of specs/polyform.toml lines 284-288 for a table of
\* canonical rules with distinct orders.
ValidTable(target, routes) ==
    /\ BoundaryFault(target, routes) = "ok"
    /\ \A i \in DOMAIN routes : RuleFault(routes[i], TRUE) = "ok"
    /\ DistinctOrders(routes)

IsRouteChoice(match, authority, target, routes) ==
    LET eligible == {i \in DOMAIN routes : Eligible(routes[i], authority, target)}
    IN  IF eligible = {} THEN match = Refused("NoRoute")
        ELSE \E i \in eligible :
                /\ match = Matched(routes[i])
                /\ \A j \in eligible :
                      /\ Len(routes[j].path_prefix) <= Len(routes[i].path_prefix)
                      /\ Len(routes[j].path_prefix) = Len(routes[i].path_prefix) =>
                            routes[i].declaration_order <= routes[j].declaration_order
=============================================================================
