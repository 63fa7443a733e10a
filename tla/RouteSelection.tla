--------------------------- MODULE RouteSelection ---------------------------
(***************************************************************************)
(* The route a request is served by: compile_runtime_routes,               *)
(* select_route_fold and select_route_sorted of src/src/proxy.rs, whose    *)
(* disagreement would end the request.                                     *)
(*                                                                         *)
(* A host is a sequence of labels of one length, a path a sequence of      *)
(* bytes.  A route's host is [kind, name] with kind any ("*"), wildcard    *)
(* ("*.name") or exact; declaration orders are places in the table, from 1 *)
(* on.  A request is [host, path, method, scheme].                         *)
(***************************************************************************)
EXTENDS Integers, Sequences, SequencesExt

Separator == 0      \* the byte "/"

runtime_host_matches(pattern, host) ==
    CASE pattern.kind = "any" -> TRUE
      [] pattern.kind = "wildcard" -> IsStrictSuffix(pattern.name, host)
      [] pattern.kind = "exact" -> pattern.name = host

runtime_host_specificity(pattern) ==
    CASE pattern.kind = "any" -> <<0, 0>>
      [] pattern.kind = "wildcard" -> <<1, Len(pattern.name)>>
      [] pattern.kind = "exact" -> <<2, Len(pattern.name)>>

runtime_path_matches(route, path) ==
    CASE route.match_kind = "Exact" -> path = route.path
      [] route.match_kind = "Prefix" -> IsPrefix(route.path, path)
      [] route.match_kind = "BoundaryPrefix" ->
            \/ route.path = <<Separator>>
            \/ path = route.path
            \/ IsStrictPrefix(route.path, path) /\ path[Len(route.path) + 1] = Separator

runtime_route_eligible(route, request) ==
    /\ runtime_host_matches(route.host, request.host)
    /\ runtime_path_matches(route, request.path)
    /\ route.methods = {} \/ request.method \in route.methods
    /\ route.schemes = {} \/ request.scheme \in route.schemes

-----------------------------------------------------------------------------
\* Lexicographic order on pairs, as Rust compares tuples.
Above(left, right) ==
    \/ left[1] > right[1]
    \/ left[1] = right[1] /\ left[2] > right[2]

\* Faulty variant: wildcards are not told apart by the length of their suffix.
FoldPrefersByHostKind(routes, index, current) ==
    LET route == routes[index]
        rival == routes[current]
        specificity == runtime_host_specificity(route.host)[1]
        exact == route.match_kind = "Exact"
    IN  IF specificity # runtime_host_specificity(rival.host)[1]
        THEN specificity > runtime_host_specificity(rival.host)[1]
        ELSE IF exact # (rival.match_kind = "Exact") THEN exact
        ELSE IF Len(route.path) # Len(rival.path) THEN Len(route.path) > Len(rival.path)
        ELSE route.declaration_order < rival.declaration_order

\* The nested comparison of select_route_fold: does index replace current?
FoldPrefers(routes, index, current) ==
    LET route == routes[index]
        rival == routes[current]
        specificity == runtime_host_specificity(route.host)
        exact == route.match_kind = "Exact"
    IN  IF specificity # runtime_host_specificity(rival.host)
        THEN Above(specificity, runtime_host_specificity(rival.host))
        ELSE IF exact # (rival.match_kind = "Exact") THEN exact
        ELSE IF Len(route.path) # Len(rival.path) THEN Len(route.path) > Len(rival.path)
        ELSE route.declaration_order < rival.declaration_order

\* The index of the winner, 0 for None.
select_route_fold(routes, request) ==
    FoldLeft(LAMBDA winner, index :
                 CASE ~runtime_route_eligible(routes[index], request) -> winner
                   [] OTHER -> IF winner = 0 \/ FoldPrefers(routes, index, winner)
                               THEN index ELSE winner,
             0, [i \in DOMAIN routes |-> i])

\* The comparator of select_route_sorted, as a key to sort by in ascending order.
SortKey(route) ==
    <<-runtime_host_specificity(route.host)[1], -runtime_host_specificity(route.host)[2],
      IF route.match_kind = "Exact" THEN 0 ELSE 1, -Len(route.path), route.declaration_order>>

Before(left, right) ==
    \E i \in DOMAIN left : left[i] < right[i] /\ \A j \in 1 .. i - 1 : left[j] = right[j]

\* What sort_unstable_by leaves: every candidate once, none behind one it comes before.
SortedCandidates(routes, candidates) ==
    CHOOSE sorted \in [1 .. Cardinality(candidates) -> candidates] :
        /\ IsInjective(sorted)
        /\ \A i, j \in DOMAIN sorted :
              i < j => ~Before(SortKey(routes[sorted[j]]), SortKey(routes[sorted[i]]))

\* The first of the sorted candidates.
select_route_sorted(routes, request) ==
    LET candidates == {i \in DOMAIN routes : runtime_route_eligible(routes[i], request)}
    IN  IF candidates = {} THEN 0 ELSE SortedCandidates(routes, candidates)[1]

-----------------------------------------------------------------------------
\* compile_runtime_routes pushes a route, with its place as its order.
PushRoute(routes, route) ==
    Append(routes, [host |-> route.host, path |-> route.path, match_kind |-> route.match_kind,
                    methods |-> route.methods, schemes |-> route.schemes,
                    declaration_order |-> Len(routes) + 1])

\* One route answers for a narrower set of hosts or paths than another.
MoreSpecific(route, rival) ==
    LET own == runtime_host_specificity(route.host)
        other == runtime_host_specificity(rival.host)
        exact(r) == r.match_kind = "Exact"
    IN  \/ Above(own, other)
        \/ own = other /\ exact(route) /\ ~exact(rival)
        \/ own = other /\ exact(route) = exact(rival) /\ Len(route.path) > Len(rival.path)

\* The most specific of the eligible routes, the earliest of several.
IsSelection(index, routes, request) ==
    LET eligible == {i \in DOMAIN routes : runtime_route_eligible(routes[i], request)}
    IN  \/ index = 0 /\ eligible = {}
        \/ /\ index \in eligible
           /\ \A i \in eligible : ~MoreSpecific(routes[i], routes[index])
           /\ \A i \in eligible : i < index => MoreSpecific(routes[index], routes[i])
=============================================================================
