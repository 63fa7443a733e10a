---------------------- MODULE CriticalFunctionsProofs ----------------------
(***************************************************************************)
(* Proofs about module CriticalFunctions, for tables, header blocks and    *)
(* codes of every length: the two selections of a site route agree, and so *)
(* do the variants of match_route (the open addressing of bounded_match    *)
(* included), of apply_forwarding_policy, of determine_body_framing and of *)
(* classify_telemetry_outcome.                                             *)
(*                                                                         *)
(* Induction over a table is a set of its places that holds 0 and is       *)
(* closed under the next place (Induction); a fold over a table is the     *)
(* last value of a function of the places (FoldExists).                    *)
(***************************************************************************)
EXTENDS CriticalFunctions, FiniteSetTheorems, WellFoundedInduction, TLAPS

\* The natural numbers are well-founded, so every set of them has a minimum.
LEMMA SmallestOf ==
    ASSUME NEW T \in SUBSET Nat, T # {}
    PROVE  Min(T) \in T /\ \A y \in T : Min(T) <= y
<1>1. PICK R : /\ IsWellFoundedOn(R, Nat)
               /\ R = {ss \in Nat \X Nat : ss[1] < ss[2]}
  BY NatLessThanWellFounded DEF OpToRel
<1>2. PICK x \in T : \A y \in T : <<y, x>> \notin R
  BY <1>1, WFMin
<1>3. \A y \in T : x <= y
  <2> TAKE y \in T
  <2>1. <<y, x>> \in R <=> y < x
    BY <1>1
  <2>2. QED
    BY <1>2, <2>1
<1>4. QED
  BY <1>3 DEF Min

\* What holds of 0 and goes from each place to the next holds of every place.
LEMMA Induction ==
    ASSUME NEW N \in Nat, NEW P, 0 \in P, \A i \in 1 .. N : i - 1 \in P => i \in P
    PROVE  0 .. N \subseteq P
<1> DEFINE T == {i \in 0 .. N : i \notin P}
<1>1. SUFFICES ASSUME T # {} PROVE FALSE
  OBVIOUS
<1>2. Min(T) \in T /\ \A y \in T : Min(T) <= y
  BY <1>1, SmallestOf
<1>3. PICK m \in T : \A y \in T : m <= y
  BY <1>2
<1>4. m \in 1 .. N /\ m - 1 \in 0 .. N /\ m - 1 \notin T
  BY <1>3
<1>5. QED
  BY <1>3, <1>4

\* The greatest of the numbers up to k.
LEMMA MaxUpTo ==
    ASSUME NEW k \in Nat, NEW t \in SUBSET (1 .. k), k \in t
    PROVE  Max(t) = k
<1>1. \A x \in t : (\A y \in t : x >= y) => x = k
  OBVIOUS
<1>2. \A y \in t : k >= y
  OBVIOUS
<1>3. QED
  BY <1>1, <1>2 DEF Max

LEMMA MaxIn ==
    ASSUME NEW N \in Nat, NEW t \in SUBSET (1 .. N), t # {}
    PROVE  Max(t) \in t /\ \A y \in t : Max(t) >= y
<1> DEFINE T == {k \in Nat : \A y \in t : k >= y}
<1>1. N \in T
  OBVIOUS
<1>2. Min(T) \in T /\ \A y \in T : Min(T) <= y
  BY <1>1, SmallestOf
<1>3. PICK m \in T : \A y \in T : m <= y
  BY <1>2
<1>4. m \in t
  <2>1. SUFFICES ASSUME m \notin t PROVE FALSE
    OBVIOUS
  <2>2. \A y \in t : m > y /\ y >= 1
    BY <1>3, <2>1
  <2>3. m - 1 \in T
    <3>1. PICK y \in t : m > y /\ y >= 1
      BY <2>2
    <3>2. m >= 1
      BY <3>1
    <3>3. QED
      BY <1>3, <2>2, <3>2
  <2>4. QED
    BY <1>3, <2>3
<1>5. QED
  BY <1>3, <1>4 DEF Max

\* The values of a fold over the sets of places up to N, where step is given the
\* value so far and a place.
FoldsTo(h, V, base, N, step) ==
    /\ h \in [SUBSET (1 .. N) -> V]
    /\ \A t \in SUBSET (1 .. N) :
          h[t] = IF t = {} THEN base ELSE step[<<h[t \ {Max(t)}], Max(t)>>]

\* The recursion of MapThenFoldSet, which takes the greatest place of a set of
\* places off, has a solution, whatever the step does with a value and a place.
LEMMA FoldExists ==
    ASSUME NEW V, NEW base \in V, NEW N \in Nat, NEW step \in [V \X (1 .. N) -> V]
    PROVE  \E h : FoldsTo(h, V, base, N, step)
<1> DEFINE Solves(h, k) ==
              /\ h \in [SUBSET (1 .. k) -> V]
              /\ \A t \in SUBSET (1 .. k) :
                    h[t] = IF t = {} THEN base ELSE step[<<h[t \ {Max(t)}], Max(t)>>]
           P == {k \in 0 .. N : \E h : Solves(h, k)}
<1>1. 0 \in P
  <2> DEFINE h == [t \in SUBSET (1 .. 0) |-> base]
  <2>1. SUBSET (1 .. 0) = {{}}
    OBVIOUS
  <2>2. Solves(h, 0)
    BY <2>1
  <2> HIDE DEF h, Solves
  <2>3. \E x : Solves(x, 0)
    BY <2>2
  <2>4. QED
    BY <2>3
<1>2. ASSUME NEW k \in 1 .. N, k - 1 \in P
      PROVE  k \in P
  <2>1. PICK g : Solves(g, k - 1)
    BY <1>2
  <2> DEFINE h == [t \in SUBSET (1 .. k) |->
                     IF k \in t THEN step[<<g[t \ {k}], k>>] ELSE g[t]]
  <2>2. ASSUME NEW t \in SUBSET (1 .. k)
        PROVE  /\ t \ {k} \in SUBSET (1 .. k - 1)
               /\ k \notin t => t \in SUBSET (1 .. k - 1)
    <3>1. \A x \in 1 .. k : x # k => x \in 1 .. k - 1
      OBVIOUS
    <3>2. QED
      BY <3>1
  <2>3. ASSUME NEW t \in SUBSET (1 .. k)
        PROVE  h[t] \in V
    BY <2>1, <2>2
  <2>4. ASSUME NEW t \in SUBSET (1 .. k)
        PROVE  h[t] = IF t = {} THEN base ELSE step[<<h[t \ {Max(t)}], Max(t)>>]
    <3>1. CASE k \in t
      <4>1. Max(t) = k
        BY <3>1, MaxUpTo
      <4>2. h[t] = step[<<g[t \ {k}], k>>]
        BY <3>1
      <4>3. h[t \ {k}] = g[t \ {k}]
        OBVIOUS
      <4>4. QED
        BY <3>1, <4>1, <4>2, <4>3
    <3>2. CASE k \notin t
      <4>1. t \in SUBSET (1 .. k - 1) /\ h[t] = g[t]
        BY <2>2, <3>2
      <4>2. t # {} => t \ {Max(t)} \in SUBSET (1 .. k) /\ k \notin t \ {Max(t)}
        BY <3>2
      <4>3. t # {} => h[t \ {Max(t)}] = g[t \ {Max(t)}]
        BY <4>2
      <4>4. QED
        BY <2>1, <4>1, <4>3
    <3>3. QED
      BY <3>1, <3>2
  <2>5. h \in [SUBSET (1 .. k) -> V]
    BY <2>3
  <2> HIDE DEF h
  <2>6. Solves(h, k)
    BY <2>4, <2>5
  <2> HIDE DEF Solves
  <2>7. \E x : Solves(x, k)
    BY <2>6
  <2>8. QED
    BY <2>7
<1>3. N \in P
  <2> HIDE DEF P
  <2>1. 0 .. N \subseteq P
    BY <1>1, <1>2, Induction
  <2>2. QED
    BY <2>1
<1>4. PICK h : Solves(h, N)
  BY <1>3
<1>5. FoldsTo(h, V, base, N, step)
  BY <1>4 DEF FoldsTo
<1>6. QED
  BY <1>5

\* Initial segments, as a fold leaves them behind.
LEMMA Segments ==
    ASSUME NEW i \in Nat, i # 0
    PROVE  /\ 1 .. i # {}
           /\ Max(1 .. i) = i
           /\ (1 .. i) \ {i} = 1 .. i - 1
<1>1. Max(1 .. i) = i
  BY MaxUpTo
<1>2. QED
  BY <1>1

\* The same values place after place, up to the last.
Runs(g, V, base, N, step, last) ==
    /\ g \in [0 .. N -> V]
    /\ g[0] = base
    /\ \A i \in 1 .. N : g[i] = step[<<g[i - 1], i>>]
    /\ g[N] = last

\* A function that obeys the recursion as far as its values are in V.
Obeys(h, V, base, N, step) ==
    /\ h[{}] = base
    /\ \A s \in SUBSET (1 .. N) :
          s # {} /\ h[s \ {Max(s)}] \in V => h[s] = step[<<h[s \ {Max(s)}], Max(s)>>]

LEMMA FoldValues ==
    ASSUME NEW V, NEW base \in V, NEW N \in Nat, NEW step \in [V \X (1 .. N) -> V],
           NEW h, Obeys(h, V, base, N, step)
    PROVE  \E g : Runs(g, V, base, N, step, h[1 .. N])
<1> DEFINE g == [i \in 0 .. N |-> h[1 .. i]]
           P == {i \in 0 .. N : h[1 .. i] \in V}
<1>1. g[0] = base
  <2>1. 1 .. 0 = {}
    OBVIOUS
  <2>2. QED
    BY <2>1 DEF Obeys
<1>2. ASSUME NEW i \in 1 .. N, h[1 .. i - 1] \in V
      PROVE  h[1 .. i] = step[<<h[1 .. i - 1], i>>] /\ h[1 .. i] \in V
  <2>1. i \in Nat /\ i # 0 /\ 1 .. i \in SUBSET (1 .. N)
    OBVIOUS
  <2>2. 1 .. i # {} /\ Max(1 .. i) = i /\ (1 .. i) \ {i} = 1 .. i - 1
    BY <2>1, Segments
  <2>3. h[1 .. i] = step[<<h[1 .. i - 1], i>>]
    BY <1>2, <2>1, <2>2 DEF Obeys
  <2>4. QED
    BY <1>2, <2>3
<1>3. 0 .. N \subseteq P
  <2>1. 0 \in P
    BY <1>1
  <2>2. ASSUME NEW i \in 1 .. N, i - 1 \in P
        PROVE  i \in P
    <3>1. h[1 .. i - 1] \in V
      BY <2>2
    <3>2. h[1 .. i] \in V
      BY <1>2, <3>1
    <3>3. QED
      BY <3>2
  <2> HIDE DEF P
  <2>3. QED
    BY <2>1, <2>2, Induction
<1>4. g \in [0 .. N -> V]
  BY <1>3
<1>5. ASSUME NEW i \in 1 .. N
      PROVE  g[i] = step[<<g[i - 1], i>>]
  <2>1. i \in 0 .. N /\ i - 1 \in 0 .. N
    OBVIOUS
  <2>2. h[1 .. i - 1] \in V
    BY <1>3, <2>1
  <2>3. h[1 .. i] = step[<<h[1 .. i - 1], i>>]
    BY <1>2, <2>2
  <2>4. QED
    BY <2>1, <2>3
<1>6. h[1 .. N] = g[N]
  OBVIOUS
<1> HIDE DEF g
<1>7. QED
  BY <1>1, <1>4, <1>5, <1>6 DEF Runs

-----------------------------------------------------------------------------
\* The order of the site routes.

TypedRoute(route) ==
    /\ route.host.kind \in {"any", "wildcard", "exact"}
    /\ route.host.name \in Seq(STRING)
    /\ route.path \in Seq(Nat)

\* The four numbers a route is ranked by, the larger the more specific.
Kind(route) == runtime_host_specificity(route.host)[1]
Suffix(route) == runtime_host_specificity(route.host)[2]
Exactness(route) == IF route.match_kind = "Exact" THEN 1 ELSE 0

Outranks(route, rival) ==
    \/ Kind(route) > Kind(rival)
    \/ /\ Kind(route) = Kind(rival)
       /\ \/ Suffix(route) > Suffix(rival)
          \/ /\ Suffix(route) = Suffix(rival)
             /\ \/ Exactness(route) > Exactness(rival)
                \/ /\ Exactness(route) = Exactness(rival)
                   /\ Len(route.path) > Len(rival.path)

SameRank(route, rival) ==
    /\ Kind(route) = Kind(rival)
    /\ Suffix(route) = Suffix(rival)
    /\ Exactness(route) = Exactness(rival)
    /\ Len(route.path) = Len(rival.path)

LEMMA RankType ==
    ASSUME NEW route, TypedRoute(route)
    PROVE  /\ Kind(route) \in Nat
           /\ Suffix(route) \in Nat
           /\ Exactness(route) \in Nat
           /\ Len(route.path) \in Nat
           /\ runtime_host_specificity(route.host) = <<Kind(route), Suffix(route)>>
<1>1. Len(route.host.name) \in Nat /\ Len(route.path) \in Nat
  BY DEF TypedRoute
<1>2. CASE route.host.kind = "any"
  <2>1. runtime_host_specificity(route.host) = <<0, 0>>
    BY <1>2 DEF runtime_host_specificity
  <2>2. QED
    BY <1>1, <2>1 DEF Kind, Suffix, Exactness
<1>3. CASE route.host.kind = "wildcard"
  <2>1. runtime_host_specificity(route.host) = <<1, Len(route.host.name)>>
    BY <1>3 DEF runtime_host_specificity
  <2>2. QED
    BY <1>1, <2>1 DEF Kind, Suffix, Exactness
<1>4. CASE route.host.kind = "exact"
  <2>1. runtime_host_specificity(route.host) = <<2, Len(route.host.name)>>
    BY <1>4 DEF runtime_host_specificity
  <2>2. QED
    BY <1>1, <2>1 DEF Kind, Suffix, Exactness
<1>5. QED
  BY <1>2, <1>3, <1>4 DEF TypedRoute

\* Ranks are a total preorder.
LEMMA RankOrder ==
    ASSUME NEW a, TypedRoute(a), NEW b, TypedRoute(b), NEW c, TypedRoute(c)
    PROVE  /\ ~(Outranks(a, b) /\ Outranks(b, a))
           /\ Outranks(a, b) \/ Outranks(b, a) \/ SameRank(a, b)
           /\ SameRank(a, b) => ~Outranks(a, b) /\ ~Outranks(b, a) /\ SameRank(b, a)
           /\ Outranks(a, b) /\ Outranks(b, c) => Outranks(a, c)
           /\ Outranks(a, b) /\ SameRank(b, c) => Outranks(a, c)
           /\ SameRank(a, b) /\ Outranks(b, c) => Outranks(a, c)
           /\ SameRank(a, b) /\ SameRank(b, c) => SameRank(a, c)
<1>1. \A r \in {a, b, c} : /\ Kind(r) \in Nat
                           /\ Suffix(r) \in Nat
                           /\ Exactness(r) \in Nat
                           /\ Len(r.path) \in Nat
  BY RankType
<1>2. QED
  BY <1>1 DEF Outranks, SameRank

LEMMA MoreSpecificIsRank ==
    ASSUME NEW a, TypedRoute(a), NEW b, TypedRoute(b)
    PROVE  MoreSpecific(a, b) <=> Outranks(a, b)
<1>1. \A r \in {a, b} : /\ Kind(r) \in Nat
                        /\ Suffix(r) \in Nat
                        /\ runtime_host_specificity(r.host) = <<Kind(r), Suffix(r)>>
  BY RankType
<1>2. Above(<<Kind(a), Suffix(a)>>, <<Kind(b), Suffix(b)>>) <=>
        Kind(a) > Kind(b) \/ (Kind(a) = Kind(b) /\ Suffix(a) > Suffix(b))
  BY <1>1 DEF Above
<1>3. <<Kind(a), Suffix(a)>> = <<Kind(b), Suffix(b)>> <=>
        Kind(a) = Kind(b) /\ Suffix(a) = Suffix(b)
  OBVIOUS
<1>4. MoreSpecific(a, b) <=>
        \/ Above(<<Kind(a), Suffix(a)>>, <<Kind(b), Suffix(b)>>)
        \/ /\ <<Kind(a), Suffix(a)>> = <<Kind(b), Suffix(b)>>
           /\ a.match_kind = "Exact" /\ b.match_kind # "Exact"
        \/ /\ <<Kind(a), Suffix(a)>> = <<Kind(b), Suffix(b)>>
           /\ (a.match_kind = "Exact") = (b.match_kind = "Exact")
           /\ Len(a.path) > Len(b.path)
  BY <1>1, Zenon DEF MoreSpecific
<1>5. /\ Exactness(a) > Exactness(b) <=> a.match_kind = "Exact" /\ b.match_kind # "Exact"
      /\ Exactness(a) = Exactness(b) <=> ((a.match_kind = "Exact") = (b.match_kind = "Exact"))
  BY DEF Exactness
<1>6. QED
  BY <1>1, <1>2, <1>3, <1>4, <1>5 DEF Outranks

\* The order of both selections: rank, then declaration.
Ahead(routes, i, j) ==
    \/ Outranks(routes[i], routes[j])
    \/ SameRank(routes[i], routes[j]) /\ i < j

LEMMA FoldPrefersAhead ==
    ASSUME NEW routes, NEW i \in Nat, NEW j \in Nat, TypedRoute(routes[i]), TypedRoute(routes[j]),
           routes[i].declaration_order = i, routes[j].declaration_order = j
    PROVE  FoldPrefers(routes, i, j) <=> Ahead(routes, i, j)
<1> DEFINE a == routes[i]
           b == routes[j]
<1>1. \A r \in {a, b} : /\ Kind(r) \in Nat
                        /\ Suffix(r) \in Nat
                        /\ Len(r.path) \in Nat
                        /\ runtime_host_specificity(r.host) = <<Kind(r), Suffix(r)>>
  BY RankType
<1>2. Above(<<Kind(a), Suffix(a)>>, <<Kind(b), Suffix(b)>>) <=>
        Kind(a) > Kind(b) \/ (Kind(a) = Kind(b) /\ Suffix(a) > Suffix(b))
  BY <1>1 DEF Above
<1>3. <<Kind(a), Suffix(a)>> = <<Kind(b), Suffix(b)>> <=>
        Kind(a) = Kind(b) /\ Suffix(a) = Suffix(b)
  OBVIOUS
<1>4. FoldPrefers(routes, i, j) =
        IF <<Kind(a), Suffix(a)>> # <<Kind(b), Suffix(b)>>
        THEN Above(<<Kind(a), Suffix(a)>>, <<Kind(b), Suffix(b)>>)
        ELSE IF (a.match_kind = "Exact") # (b.match_kind = "Exact") THEN a.match_kind = "Exact"
        ELSE IF Len(a.path) # Len(b.path) THEN Len(a.path) > Len(b.path) ELSE i < j
  BY <1>1, Zenon DEF FoldPrefers
<1>5. /\ Exactness(a) > Exactness(b) <=> a.match_kind = "Exact" /\ b.match_kind # "Exact"
      /\ Exactness(a) = Exactness(b) <=> ((a.match_kind = "Exact") = (b.match_kind = "Exact"))
  BY DEF Exactness
<1> HIDE DEF a, b
<1>6. FoldPrefers(routes, i, j) <=> Outranks(a, b) \/ (SameRank(a, b) /\ i < j)
  <2> DEFINE same == <<Kind(a), Suffix(a)>> = <<Kind(b), Suffix(b)>>
             above == Above(<<Kind(a), Suffix(a)>>, <<Kind(b), Suffix(b)>>)
             exact == a.match_kind = "Exact"
             rivalled == b.match_kind = "Exact"
  <2>1. CASE ~same
    <3>1. FoldPrefers(routes, i, j) <=> above
      BY <1>4, <2>1, Zenon
    <3>2. QED
      BY <1>1, <1>2, <1>3, <2>1, <3>1 DEF Outranks, SameRank
  <2>2. CASE same /\ exact # rivalled
    <3>1. FoldPrefers(routes, i, j) <=> exact
      BY <1>4, <2>2, Zenon
    <3>2. Exactness(a) # Exactness(b) /\ (exact <=> Exactness(a) > Exactness(b))
      BY <2>2 DEF Exactness
    <3>3. QED
      BY <1>1, <1>3, <2>2, <3>1, <3>2 DEF Outranks, SameRank
  <2>3. CASE same /\ exact = rivalled
    <3>1. FoldPrefers(routes, i, j) <=>
             IF Len(a.path) # Len(b.path) THEN Len(a.path) > Len(b.path) ELSE i < j
      BY <1>4, <2>3, Zenon
    <3>2. Exactness(a) = Exactness(b) /\ Exactness(a) \in Nat
      BY <2>3 DEF Exactness
    <3>3. QED
      BY <1>1, <1>3, <2>3, <3>1, <3>2 DEF Outranks, SameRank
  <2>4. QED
    BY <2>1, <2>2, <2>3
<1>7. QED
  BY <1>6, Zenon DEF Ahead, a, b

LEMMA SortKeyAhead ==
    ASSUME NEW routes, NEW i \in Nat, NEW j \in Nat, TypedRoute(routes[i]), TypedRoute(routes[j]),
           routes[i].declaration_order = i, routes[j].declaration_order = j
    PROVE  Before(SortKey(routes[i]), SortKey(routes[j])) <=> Ahead(routes, i, j)
<1> DEFINE a == routes[i]
           b == routes[j]
           late(r) == IF r.match_kind = "Exact" THEN 0 ELSE 1
<1>1. /\ Kind(a) \in Nat /\ Suffix(a) \in Nat /\ Len(a.path) \in Nat
      /\ Kind(b) \in Nat /\ Suffix(b) \in Nat /\ Len(b.path) \in Nat
  BY RankType
<1>2. /\ SortKey(a) = <<-Kind(a), -Suffix(a), late(a), -Len(a.path), i>>
      /\ SortKey(b) = <<-Kind(b), -Suffix(b), late(b), -Len(b.path), j>>
  BY DEF SortKey, Kind, Suffix
<1>3. /\ (late(a) < late(b)) <=> (Exactness(a) > Exactness(b))
      /\ (late(a) = late(b)) <=> (Exactness(a) = Exactness(b))
      /\ late(a) \in Int /\ late(b) \in Int
  BY DEF Exactness
<1> HIDE DEF a, b, late
<1>4. /\ -Kind(a) \in Int /\ -Suffix(a) \in Int /\ -Len(a.path) \in Int /\ i \in Int
      /\ -Kind(b) \in Int /\ -Suffix(b) \in Int /\ -Len(b.path) \in Int /\ j \in Int
  BY <1>1
<1>5. PICK a1 \in Int, a2 \in Int, a3 \in Int, a4 \in Int,
           b1 \in Int, b2 \in Int, b3 \in Int, b4 \in Int :
        /\ a1 = -Kind(a)
        /\ a2 = -Suffix(a)
        /\ a3 = late(a)
        /\ a4 = -Len(a.path)
        /\ b1 = -Kind(b)
        /\ b2 = -Suffix(b)
        /\ b3 = late(b)
        /\ b4 = -Len(b.path)
  BY <1>3, <1>4
<1>6. Before(SortKey(a), SortKey(b)) <=> Before(<<a1, a2, a3, a4, i>>, <<b1, b2, b3, b4, j>>)
  BY <1>2, <1>5, Zenon
<1>7. Before(<<a1, a2, a3, a4, i>>, <<b1, b2, b3, b4, j>>) <=>
         \/ a1 < b1
         \/ a1 = b1 /\ a2 < b2
         \/ a1 = b1 /\ a2 = b2 /\ a3 < b3
         \/ a1 = b1 /\ a2 = b2 /\ a3 = b3 /\ a4 < b4
         \/ a1 = b1 /\ a2 = b2 /\ a3 = b3 /\ a4 = b4 /\ i < j
  <2> DEFINE s == <<a1, a2, a3, a4, i>>
             t == <<b1, b2, b3, b4, j>>
             First(k) == s[k] < t[k] /\ \A l \in 1 .. k - 1 : s[l] = t[l]
  <2>1. Before(s, t) <=> \E k \in DOMAIN s : First(k)
    BY DEF Before
  <2>2. DOMAIN s = {1, 2, 3, 4, 5}
    OBVIOUS
  <2>3. /\ s[1] = a1 /\ s[2] = a2 /\ s[3] = a3 /\ s[4] = a4 /\ s[5] = i
        /\ t[1] = b1 /\ t[2] = b2 /\ t[3] = b3 /\ t[4] = b4 /\ t[5] = j
    OBVIOUS
  <2> HIDE DEF s, t
  <2>4. First(1) <=> a1 < b1
    BY <2>3
  <2>5. First(2) <=> a1 = b1 /\ a2 < b2
    BY <2>3
  <2>6. First(3) <=> a1 = b1 /\ a2 = b2 /\ a3 < b3
    BY <2>3
  <2>7. First(4) <=> a1 = b1 /\ a2 = b2 /\ a3 = b3 /\ a4 < b4
    BY <2>3
  <2>8. First(5) <=> a1 = b1 /\ a2 = b2 /\ a3 = b3 /\ a4 = b4 /\ i < j
    BY <2>3
  <2> HIDE DEF First
  <2>9. Before(s, t) <=> First(1) \/ First(2) \/ First(3) \/ First(4) \/ First(5)
    BY <2>1, <2>2
  <2>10. QED
    BY <2>4, <2>5, <2>6, <2>7, <2>8, <2>9 DEF s, t
<1>8. /\ (a1 < b1) <=> (Kind(a) > Kind(b))
      /\ (a1 = b1) <=> (Kind(a) = Kind(b))
      /\ (a2 < b2) <=> (Suffix(a) > Suffix(b))
      /\ (a2 = b2) <=> (Suffix(a) = Suffix(b))
      /\ (a3 < b3) <=> (Exactness(a) > Exactness(b))
      /\ (a3 = b3) <=> (Exactness(a) = Exactness(b))
      /\ (a4 < b4) <=> (Len(a.path) > Len(b.path))
      /\ (a4 = b4) <=> (Len(a.path) = Len(b.path))
  <2>1. ((a1 < b1) <=> (Kind(a) > Kind(b))) /\ ((a1 = b1) <=> (Kind(a) = Kind(b)))
    <3>1. Kind(a) \in Nat /\ Kind(b) \in Nat
      BY <1>1
    <3>2. /\ (-Kind(a) < -Kind(b)) <=> (Kind(a) > Kind(b))
          /\ (-Kind(a) = -Kind(b)) <=> (Kind(a) = Kind(b))
      BY <3>1
    <3>3. a1 = -Kind(a) /\ b1 = -Kind(b)
      BY <1>5
    <3>4. QED
      BY <3>2, <3>3, Zenon
  <2>2. ((a2 < b2) <=> (Suffix(a) > Suffix(b))) /\ ((a2 = b2) <=> (Suffix(a) = Suffix(b)))
    <3>1. Suffix(a) \in Nat /\ Suffix(b) \in Nat
      BY <1>1
    <3>2. /\ (-Suffix(a) < -Suffix(b)) <=> (Suffix(a) > Suffix(b))
          /\ (-Suffix(a) = -Suffix(b)) <=> (Suffix(a) = Suffix(b))
      BY <3>1
    <3>3. a2 = -Suffix(a) /\ b2 = -Suffix(b)
      BY <1>5
    <3>4. QED
      BY <3>2, <3>3, Zenon
  <2>3. ((a4 < b4) <=> (Len(a.path) > Len(b.path))) /\ ((a4 = b4) <=> (Len(a.path) = Len(b.path)))
    <3>1. Len(a.path) \in Nat /\ Len(b.path) \in Nat
      BY <1>1
    <3>2. /\ (-Len(a.path) < -Len(b.path)) <=> (Len(a.path) > Len(b.path))
          /\ (-Len(a.path) = -Len(b.path)) <=> (Len(a.path) = Len(b.path))
      BY <3>1
    <3>3. a4 = -Len(a.path) /\ b4 = -Len(b.path)
      BY <1>5
    <3>4. QED
      BY <3>2, <3>3, Zenon
  <2>4. (a3 < b3) <=> (Exactness(a) > Exactness(b))
    BY <1>3, <1>5, Zenon
  <2>5. (a3 = b3) <=> (Exactness(a) = Exactness(b))
    BY <1>3, <1>5, Zenon
  <2>6. QED
    BY <2>1, <2>2, <2>3, <2>4, <2>5, Zenon
<1>9. Before(SortKey(a), SortKey(b)) <=> Outranks(a, b) \/ (SameRank(a, b) /\ i < j)
  BY <1>6, <1>7, <1>8, Zenon DEF Outranks, SameRank
<1>10. QED
  BY <1>9, Zenon DEF Ahead, a, b

\* What compile_runtime_routes makes of the configured routes.
Compiled(route, n) ==
    [host |-> route.host, path |-> route.path, match_kind |-> route.match_kind,
     methods |-> route.methods, schemes |-> route.schemes, declaration_order |-> n]

CompiledRoutes == {Compiled(p[1], p[2]) : p \in SiteRoutes \X Nat}

RouteTable(routes) ==
    /\ routes \in Seq(CompiledRoutes)
    /\ \A i \in 1 .. Len(routes) : routes[i].declaration_order = i

LEMMA RouteTableTyped ==
    ASSUME NEW routes, RouteTable(routes)
    PROVE  /\ Len(routes) \in Nat
           /\ DOMAIN routes = 1 .. Len(routes)
           /\ \A i \in 1 .. Len(routes) : /\ TypedRoute(routes[i])
                                          /\ routes[i].declaration_order = i
<1>1. Len(routes) \in Nat /\ DOMAIN routes = 1 .. Len(routes)
  BY DEF RouteTable
<1>2. ASSUME NEW i \in 1 .. Len(routes)
      PROVE  TypedRoute(routes[i])
  <2>1. routes[i] \in CompiledRoutes
    BY <1>1 DEF RouteTable
  <2>2. PICK route \in SiteRoutes, n \in Nat : routes[i] = Compiled(route, n)
    BY <2>1 DEF CompiledRoutes
  <2>3. routes[i].host = route.host /\ routes[i].path = route.path
    BY <2>2 DEF Compiled
  <2>4. QED
    BY <2>3, TablesAssumption DEF TypedRoute
<1>3. QED
  BY <1>1, <1>2 DEF RouteTable

LEMMA PushedTable ==
    ASSUME NEW routes, RouteTable(routes), NEW route \in SiteRoutes
    PROVE  RouteTable(PushRoute(routes, route))
<1> DEFINE pushed == Compiled(route, Len(routes) + 1)
<1>1. Len(routes) \in Nat /\ routes \in Seq(CompiledRoutes)
  BY DEF RouteTable
<1>2. pushed \in CompiledRoutes
  <2>1. <<route, Len(routes) + 1>> \in SiteRoutes \X Nat
    BY <1>1
  <2>2. QED
    BY <2>1 DEF CompiledRoutes
<1>3. pushed.declaration_order = Len(routes) + 1
  BY DEF Compiled
<1>4. PushRoute(routes, route) = Append(routes, pushed)
  BY DEF PushRoute, Compiled
<1> HIDE DEF pushed
<1>5. /\ Append(routes, pushed) \in Seq(CompiledRoutes)
      /\ Len(Append(routes, pushed)) = Len(routes) + 1
      /\ \A i \in 1 .. Len(routes) : Append(routes, pushed)[i] = routes[i]
      /\ Append(routes, pushed)[Len(routes) + 1] = pushed
  BY <1>1, <1>2
<1>6. QED
  BY <1>1, <1>3, <1>4, <1>5 DEF RouteTable

\* The winner among the first i routes, as select_route_fold goes from i - 1 to i.
FoldStep(routes, request, winner, i) ==
    IF runtime_route_eligible(routes[i], request) /\ (winner = 0 \/ FoldPrefers(routes, i, winner))
    THEN i ELSE winner

LEMMA SelectionFold ==
    ASSUME NEW routes, RouteTable(routes), NEW request
    PROVE  \E g \in [0 .. Len(routes) -> 0 .. Len(routes)] :
              /\ g[0] = 0
              /\ \A i \in 1 .. Len(routes) : g[i] = FoldStep(routes, request, g[i - 1], i)
              /\ select_route_fold(routes, request) = g[Len(routes)]
<1> DEFINE N == Len(routes)
           places == [i \in DOMAIN routes |-> i]
           op(winner, index) ==
               CASE ~runtime_route_eligible(routes[index], request) -> winner
                 [] OTHER -> IF winner = 0 \/ FoldPrefers(routes, index, winner)
                             THEN index ELSE winner
           Body(f) == [s \in SUBSET DOMAIN places |->
                         IF s = {} THEN 0 ELSE op(f[s \ {Max(s)}], places[Max(s)])]
           iter == CHOOSE f : f = Body(f)
           step == [p \in (0 .. N) \X (1 .. N) |-> FoldStep(routes, request, p[1], p[2])]
<1>1. select_route_fold(routes, request) = iter[DOMAIN places]
  BY DEF select_route_fold, FoldLeft, MapThenFoldSet
<1>2. N \in Nat /\ DOMAIN routes = 1 .. N /\ DOMAIN places = 1 .. N
  BY RouteTableTyped
<1>3. \A i \in 1 .. N : places[i] = i
  BY <1>2
<1>4. \A winner, i : op(winner, i) = FoldStep(routes, request, winner, i)
  BY DEF FoldStep
<1>5. step \in [(0 .. N) \X (1 .. N) -> 0 .. N]
  BY <1>2 DEF FoldStep
<1>6. ASSUME NEW s \in SUBSET (1 .. N), s # {}
      PROVE  Max(s) \in s /\ s \ {Max(s)} \in SUBSET (1 .. N)
  BY <1>2, <1>6, MaxIn
<1>7. \E f : f = Body(f)
  <2>1. PICK h : FoldsTo(h, 0 .. N, 0, N, step)
    <3> HIDE DEF N, step
    <3>1. 0 \in 0 .. N
      BY <1>2
    <3>2. QED
      BY <1>2, <1>5, <3>1, FoldExists
  <2>2. ASSUME NEW s \in SUBSET (1 .. N)
        PROVE  h[s] = IF s = {} THEN 0 ELSE op(h[s \ {Max(s)}], places[Max(s)])
    <3> HIDE DEF op, places
    <3>1. CASE s = {}
      BY <2>1, <3>1 DEF FoldsTo
    <3>2. CASE s # {}
      <4>1. Max(s) \in 1 .. N /\ h[s \ {Max(s)}] \in 0 .. N
        BY <1>6, <2>1, <3>2 DEF FoldsTo
      <4>2. h[s] = FoldStep(routes, request, h[s \ {Max(s)}], Max(s))
        BY <2>1, <3>2, <4>1 DEF FoldsTo
      <4>3. QED
        BY <1>3, <1>4, <3>2, <4>1, <4>2
    <3>3. QED
      BY <3>1, <3>2
  <2>3. h = Body(h)
    <3> HIDE DEF op, places
    <3>1. QED
      BY <1>2, <2>1, <2>2 DEF FoldsTo
  <2> HIDE DEF Body
  <2>4. QED
    BY <2>3
<1> HIDE DEF op, places
<1>8. iter = Body(iter)
  <2> HIDE DEF Body
  <2>1. QED
    BY <1>7
<1> HIDE DEF iter
<1>9. ASSUME NEW s \in SUBSET (1 .. N)
      PROVE  iter[s] = IF s = {} THEN 0 ELSE op(iter[s \ {Max(s)}], places[Max(s)])
  <2>1. Body(iter)[s] = IF s = {} THEN 0 ELSE op(iter[s \ {Max(s)}], places[Max(s)])
    BY <1>2
  <2> HIDE DEF Body
  <2>2. QED
    BY <1>8, <2>1
<1>10. iter[{}] = 0
  BY <1>9
<1>11. ASSUME NEW s \in SUBSET (1 .. N), s # {}, iter[s \ {Max(s)}] \in 0 .. N
       PROVE  iter[s] = step[<<iter[s \ {Max(s)}], Max(s)>>]
  <2>1. Max(s) \in 1 .. N
    BY <1>6, <1>11
  <2>2. iter[s] = FoldStep(routes, request, iter[s \ {Max(s)}], Max(s))
    BY <1>3, <1>4, <1>9, <1>11, <2>1
  <2>3. QED
    BY <1>11, <2>1, <2>2
<1>12. PICK g : Runs(g, 0 .. N, 0, N, step, iter[1 .. N])
  <2> HIDE DEF N, step
  <2>1. 0 \in 0 .. N
    BY <1>2
  <2>2. Obeys(iter, 0 .. N, 0, N, step)
    BY <1>10, <1>11 DEF Obeys
  <2>3. QED
    BY <1>2, <1>5, <2>1, <2>2, FoldValues
<1>13. ASSUME NEW i \in 1 .. N
       PROVE  g[i] = FoldStep(routes, request, g[i - 1], i)
  <2>1. g[i] = step[<<g[i - 1], i>>] /\ g[i - 1] \in 0 .. N
    <3> HIDE DEF step
    <3>1. QED
      BY <1>2, <1>12 DEF Runs
  <2>2. QED
    BY <2>1
<1>14. g \in [0 .. N -> 0 .. N] /\ g[0] = 0 /\ g[N] = iter[1 .. N]
  BY <1>12 DEF Runs
<1>15. QED
  BY <1>1, <1>2, <1>13, <1>14

Candidates(routes, request) ==
    {i \in DOMAIN routes : runtime_route_eligible(routes[i], request)}

\* The winner is ahead of every other candidate among the first n routes.
Leads(routes, request, winner, n) ==
    \/ winner = 0 /\ \A i \in 1 .. n : i \notin Candidates(routes, request)
    \/ /\ winner \in 1 .. n
       /\ winner \in Candidates(routes, request)
       /\ \A i \in 1 .. n : i \in Candidates(routes, request) /\ i # winner => Ahead(routes, winner, i)

LEMMA AheadOrder ==
    ASSUME NEW routes, RouteTable(routes),
           NEW i \in 1 .. Len(routes), NEW j \in 1 .. Len(routes), NEW k \in 1 .. Len(routes)
    PROVE  /\ i # j => Ahead(routes, i, j) \/ Ahead(routes, j, i)
           /\ ~Ahead(routes, i, i)
           /\ ~(Ahead(routes, i, j) /\ Ahead(routes, j, i))
           /\ Ahead(routes, i, j) /\ Ahead(routes, j, k) => Ahead(routes, i, k)
<1>1. Len(routes) \in Nat /\ TypedRoute(routes[i]) /\ TypedRoute(routes[j]) /\ TypedRoute(routes[k])
  BY RouteTableTyped
<1>2. i \in Nat /\ j \in Nat /\ k \in Nat
  BY <1>1
<1> DEFINE a == routes[i]
           b == routes[j]
           c == routes[k]
<1>3. /\ ~(Outranks(a, b) /\ Outranks(b, a))
      /\ Outranks(a, b) \/ Outranks(b, a) \/ SameRank(a, b)
      /\ SameRank(a, b) => ~Outranks(a, b) /\ ~Outranks(b, a) /\ SameRank(b, a)
      /\ SameRank(b, a) => SameRank(a, b)
      /\ ~Outranks(a, a)
      /\ Outranks(a, b) /\ Outranks(b, c) => Outranks(a, c)
      /\ Outranks(a, b) /\ SameRank(b, c) => Outranks(a, c)
      /\ SameRank(a, b) /\ Outranks(b, c) => Outranks(a, c)
      /\ SameRank(a, b) /\ SameRank(b, c) => SameRank(a, c)
  BY <1>1, RankOrder
<1> HIDE DEF a, b, c
<1>4. /\ Ahead(routes, i, j) <=> Outranks(a, b) \/ (SameRank(a, b) /\ i < j)
      /\ Ahead(routes, j, i) <=> Outranks(b, a) \/ (SameRank(b, a) /\ j < i)
      /\ Ahead(routes, i, i) <=> Outranks(a, a) \/ (SameRank(a, a) /\ i < i)
      /\ Ahead(routes, j, k) <=> Outranks(b, c) \/ (SameRank(b, c) /\ j < k)
      /\ Ahead(routes, i, k) <=> Outranks(a, c) \/ (SameRank(a, c) /\ i < k)
  BY Zenon DEF Ahead, a, b, c
<1>5. QED
  BY <1>2, <1>3, <1>4

LEMMA LeadIsSelection ==
    ASSUME NEW routes, RouteTable(routes), NEW request, NEW winner,
           Leads(routes, request, winner, Len(routes))
    PROVE  IsSelection(winner, routes, request)
<1> DEFINE eligible == Candidates(routes, request)
<1>1. Len(routes) \in Nat /\ DOMAIN routes = 1 .. Len(routes)
  BY RouteTableTyped
<1>2. eligible \in SUBSET (1 .. Len(routes))
  BY <1>1 DEF Candidates
<1>3. IsSelection(winner, routes, request) <=>
         \/ winner = 0 /\ eligible = {}
         \/ /\ winner \in eligible
            /\ \A i \in eligible : ~MoreSpecific(routes[i], routes[winner])
            /\ \A i \in eligible : i < winner => MoreSpecific(routes[winner], routes[i])
  BY Zenon DEF IsSelection, Candidates
<1> HIDE DEF eligible
<1>4. CASE winner = 0 /\ \A i \in 1 .. Len(routes) : i \notin eligible
  BY <1>2, <1>3, <1>4
<1>5. CASE /\ winner \in 1 .. Len(routes)
           /\ winner \in eligible
           /\ \A i \in 1 .. Len(routes) : i \in eligible /\ i # winner => Ahead(routes, winner, i)
  <2>1. ASSUME NEW i \in eligible
        PROVE  /\ ~MoreSpecific(routes[i], routes[winner])
               /\ i < winner => MoreSpecific(routes[winner], routes[i])
    <3>1. i \in 1 .. Len(routes) /\ TypedRoute(routes[i]) /\ TypedRoute(routes[winner])
      BY <1>2, <1>5, RouteTableTyped
    <3>2. /\ MoreSpecific(routes[i], routes[winner]) <=> Outranks(routes[i], routes[winner])
          /\ MoreSpecific(routes[winner], routes[i]) <=> Outranks(routes[winner], routes[i])
      BY <3>1, MoreSpecificIsRank
    <3>3. /\ ~(Outranks(routes[winner], routes[i]) /\ Outranks(routes[i], routes[winner]))
          /\ SameRank(routes[winner], routes[i]) => ~Outranks(routes[i], routes[winner])
          /\ i = winner => ~Outranks(routes[i], routes[winner])
      BY <3>1, RankOrder
    <3>4. CASE i = winner
      BY <1>1, <3>1, <3>2, <3>3, <3>4
    <3>5. CASE i # winner
      <4>1. \/ Outranks(routes[winner], routes[i])
            \/ SameRank(routes[winner], routes[i]) /\ winner < i
        BY <1>5, <3>1, <3>5 DEF Ahead
      <4>2. winner < i => ~(i < winner)
        BY <1>1, <1>5, <3>1
      <4>3. QED
        BY <3>2, <3>3, <4>1, <4>2, Zenon
    <3>6. QED
      BY <3>4, <3>5
  <2>2. QED
    BY <1>3, <1>5, <2>1
<1>6. QED
  BY <1>4, <1>5 DEF Leads, eligible

\* select_route_fold leads at every step of its fold.
LEMMA FoldSelects ==
    ASSUME NEW routes, RouteTable(routes), NEW request
    PROVE  IsSelection(select_route_fold(routes, request), routes, request)
<1> DEFINE N == Len(routes)
<1>1. N \in Nat /\ DOMAIN routes = 1 .. N
  BY RouteTableTyped
<1>2. PICK g \in [0 .. N -> 0 .. N] :
         /\ g[0] = 0
         /\ \A i \in 1 .. N : g[i] = FoldStep(routes, request, g[i - 1], i)
         /\ select_route_fold(routes, request) = g[N]
  BY SelectionFold
<1> DEFINE P == {i \in 0 .. N : Leads(routes, request, g[i], i)}
<1>3. 0 \in P
  BY <1>1, <1>2 DEF Leads
<1>4. ASSUME NEW i \in 1 .. N, i - 1 \in P
      PROVE  i \in P
  <2> DEFINE w == g[i - 1]
  <2>1. /\ g[i] = FoldStep(routes, request, w, i)
        /\ Leads(routes, request, w, i - 1)
        /\ i - 1 \in 0 .. N
        /\ w \in 0 .. N
    BY <1>1, <1>2, <1>4
  <2>2. runtime_route_eligible(routes[i], request) <=> i \in Candidates(routes, request)
    BY <1>1 DEF Candidates
  <2>3. \A j \in 1 .. i : j = i \/ j \in 1 .. i - 1
    BY <1>1
  <2>4. i \in 1 .. i /\ \A j \in 1 .. i - 1 : j \in 1 .. i /\ j \in 1 .. N /\ j # i
    BY <1>1
  <2> HIDE DEF w
  <2>5. CASE i \notin Candidates(routes, request)
    <3>1. g[i] = w
      BY <2>1, <2>2, <2>5 DEF FoldStep
    <3>2. Leads(routes, request, w, i)
      BY <2>1, <2>3, <2>4, <2>5 DEF Leads
    <3>3. QED
      BY <1>1, <3>1, <3>2
  <2>6. CASE i \in Candidates(routes, request) /\ w = 0
    <3>1. g[i] = i
      BY <2>1, <2>2, <2>6 DEF FoldStep
    <3>2. \A j \in 1 .. i - 1 : j \notin Candidates(routes, request)
      BY <2>1, <2>6 DEF Leads
    <3>3. Leads(routes, request, i, i)
      BY <2>3, <2>4, <2>6, <3>2 DEF Leads
    <3>4. QED
      BY <1>1, <3>1, <3>3
  <2>7. CASE i \in Candidates(routes, request) /\ w # 0
    <3>1. /\ w \in 1 .. i - 1
          /\ w \in Candidates(routes, request)
          /\ \A j \in 1 .. i - 1 : j \in Candidates(routes, request) /\ j # w => Ahead(routes, w, j)
      BY <2>1, <2>7 DEF Leads
    <3>2. w \in 1 .. N /\ w \in Nat /\ i \in Nat /\ i # w
      BY <1>1, <2>4, <3>1
    <3>3. FoldPrefers(routes, i, w) <=> Ahead(routes, i, w)
      <4>1. /\ TypedRoute(routes[i]) /\ TypedRoute(routes[w])
            /\ routes[i].declaration_order = i /\ routes[w].declaration_order = w
        BY <3>2, RouteTableTyped
      <4>2. QED
        BY <3>2, <4>1, FoldPrefersAhead
    <3>4. CASE Ahead(routes, i, w)
      <4>1. g[i] = i
        BY <2>1, <2>2, <2>7, <3>3, <3>4 DEF FoldStep
      <4>2. \A j \in 1 .. i - 1 : j \in Candidates(routes, request) => Ahead(routes, i, j)
        <5> TAKE j \in 1 .. i - 1
        <5>1. j \in 1 .. N
          BY <2>4
        <5>2. Ahead(routes, w, j) => Ahead(routes, i, j)
          BY <3>2, <3>4, <5>1, AheadOrder
        <5>3. QED
          BY <3>1, <3>4, <5>2
      <4>3. Leads(routes, request, i, i)
        BY <2>3, <2>4, <2>7, <4>2 DEF Leads
      <4>4. QED
        BY <1>1, <4>1, <4>3
    <3>5. CASE ~Ahead(routes, i, w)
      <4>1. g[i] = w
        BY <2>1, <2>2, <2>7, <3>3, <3>5 DEF FoldStep
      <4>2. Ahead(routes, w, i)
        BY <3>2, <3>5, AheadOrder
      <4>3. Leads(routes, request, w, i)
        BY <2>3, <2>4, <3>1, <4>2 DEF Leads
      <4>4. QED
        BY <1>1, <4>1, <4>3
    <3>6. QED
      BY <3>4, <3>5
  <2>8. QED
    BY <2>5, <2>6, <2>7
<1> HIDE DEF P
<1>5. 0 .. N \subseteq P
  BY <1>1, <1>3, <1>4, Induction
<1>6. Leads(routes, request, g[N], N)
  BY <1>1, <1>5 DEF P
<1>7. QED
  BY <1>2, <1>6, LeadIsSelection

-----------------------------------------------------------------------------
\* Sorting: a set of places can be listed along any strict order.

StrictOrder(R) ==
    /\ \A x \in Nat : <<x, x>> \notin R
    /\ \A x, y, z \in Nat : <<x, y>> \in R /\ <<y, z>> \in R => <<x, z>> \in R

LEMMA LastOf ==
    ASSUME NEW R, StrictOrder(R), NEW N \in Nat, NEW T \in SUBSET (1 .. N), T # {}
    PROVE  \E m \in T : \A x \in T : <<m, x>> \notin R
<1> DEFINE P == {k \in 0 .. N : \A U \in SUBSET (1 .. k) :
                    U # {} => \E m \in U : \A x \in U : <<m, x>> \notin R}
<1>1. 0 \in P
  <2>1. ASSUME NEW U \in SUBSET (1 .. 0)
        PROVE  U = {}
    OBVIOUS
  <2>2. \A U \in SUBSET (1 .. 0) : U # {} => \E m \in U : \A x \in U : <<m, x>> \notin R
    BY <2>1, Zenon
  <2>3. 0 \in 0 .. N
    OBVIOUS
  <2>4. QED
    BY <2>2, <2>3, Zenon
<1>2. ASSUME NEW k \in 1 .. N, k - 1 \in P
      PROVE  k \in P
  <2>1. SUFFICES ASSUME NEW U \in SUBSET (1 .. k), U # {}
                 PROVE  \E m \in U : \A x \in U : <<m, x>> \notin R
    OBVIOUS
  <2>2. U \ {k} \in SUBSET (1 .. k - 1)
    <3>1. \A x \in 1 .. k : x # k => x \in 1 .. k - 1
      OBVIOUS
    <3>2. QED
      BY <3>1
  <2>3. U \subseteq Nat /\ k \in Nat
    OBVIOUS
  <2>4. CASE U \ {k} = {}
    <3>1. U = {k}
      BY <2>1, <2>4
    <3>2. QED
      BY <2>3, <3>1 DEF StrictOrder
  <2>5. CASE U \ {k} # {}
    <3>1. PICK m \in U \ {k} : \A x \in U \ {k} : <<m, x>> \notin R
      BY <1>2, <2>2, <2>5
    <3>2. CASE k \in U /\ <<m, k>> \in R
      <4>1. ASSUME NEW x \in U, <<k, x>> \in R
            PROVE  FALSE
        <5>1. x # k
          BY <2>3, <4>1 DEF StrictOrder
        <5>2. <<m, x>> \in R
          BY <2>3, <3>1, <3>2, <4>1 DEF StrictOrder
        <5>3. QED
          BY <3>1, <5>1, <5>2
      <4>2. QED
        BY <3>2, <4>1
    <3>3. CASE ~(k \in U /\ <<m, k>> \in R)
      BY <3>1, <3>3
    <3>4. QED
      BY <3>2, <3>3
  <2>6. QED
    BY <2>4, <2>5
<1>3. N \in P
  <2> HIDE DEF P
  <2>1. 0 .. N \subseteq P
    BY <1>1, <1>2, Induction
  <2>2. QED
    BY <2>1
<1>4. QED
  BY <1>3

\* The list has every element of T once, none behind one it comes before.
Arranges(s, n, T, R) ==
    /\ s \in [1 .. n -> T]
    /\ \A i, j \in 1 .. n : s[i] = s[j] => i = j
    /\ \A i, j \in 1 .. n : i < j => <<s[j], s[i]>> \notin R

LEMMA Arrangement ==
    ASSUME NEW R, StrictOrder(R), NEW N \in Nat, NEW T \in SUBSET (1 .. N)
    PROVE  /\ IsFiniteSet(T) /\ Cardinality(T) \in Nat
           /\ \E s : Arranges(s, Cardinality(T), T, R)
<1> DEFINE P == {n \in 0 .. N : \A U \in SUBSET (1 .. N) :
                    Cardinality(U) = n => \E s : Arranges(s, n, U, R)}
<1>1. /\ IsFiniteSet(1 .. N)
      /\ Cardinality(1 .. N) = N
  BY FS_Interval
<1>2. ASSUME NEW U \in SUBSET (1 .. N)
      PROVE  IsFiniteSet(U) /\ Cardinality(U) \in 0 .. N
  <2>1. IsFiniteSet(U) /\ Cardinality(U) <= N
    BY <1>1, FS_Subset
  <2>2. Cardinality(U) \in Nat
    BY <2>1, FS_CardinalityType
  <2>3. QED
    BY <2>1, <2>2
<1>3. 0 \in P
  <2>1. ASSUME NEW U \in SUBSET (1 .. N), Cardinality(U) = 0
        PROVE  \E s : Arranges(s, 0, U, R)
    <3> DEFINE s == [i \in 1 .. 0 |-> 1]
    <3>1. 1 .. 0 = {}
      OBVIOUS
    <3>2. s \in [1 .. 0 -> U]
      BY <3>1
    <3> HIDE DEF s
    <3>3. Arranges(s, 0, U, R)
      BY <3>1, <3>2 DEF Arranges
    <3>4. QED
      BY <3>3
  <2>2. QED
    BY <2>1
<1>4. ASSUME NEW n \in 1 .. N, n - 1 \in P
      PROVE  n \in P
  <2>1. ASSUME NEW U \in SUBSET (1 .. N), Cardinality(U) = n
        PROVE  \E s : Arranges(s, n, U, R)
    <3>1. IsFiniteSet(U) /\ U # {}
      BY <1>2, <2>1, FS_EmptySet
    <3>2. PICK m \in U : \A x \in U : <<m, x>> \notin R
      BY <3>1, LastOf
    <3>3. Cardinality(U \ {m}) = n - 1 /\ U \ {m} \in SUBSET (1 .. N)
      BY <2>1, <3>1, FS_RemoveElement
    <3>4. PICK r : Arranges(r, n - 1, U \ {m}, R)
      BY <1>4, <3>3
    <3> DEFINE s == [i \in 1 .. n |-> IF i = n THEN m ELSE r[i]]
    <3>5. \A i \in 1 .. n : i = n \/ i \in 1 .. n - 1
      OBVIOUS
    <3>6. /\ r \in [1 .. n - 1 -> U \ {m}]
          /\ \A i, j \in 1 .. n - 1 : r[i] = r[j] => i = j
          /\ \A i, j \in 1 .. n - 1 : i < j => <<r[j], r[i]>> \notin R
      BY <3>4 DEF Arranges
    <3>7. /\ s[n] = m
          /\ \A i \in 1 .. n - 1 : s[i] = r[i] /\ r[i] \in U /\ r[i] # m
      BY <3>6
    <3>8. s \in [1 .. n -> U]
      BY <3>5, <3>7
    <3> HIDE DEF s
    <3>9. \A i, j \in 1 .. n : s[i] = s[j] => i = j
      BY <3>5, <3>6, <3>7
    <3>10. \A i, j \in 1 .. n : i < j => <<s[j], s[i]>> \notin R
      <4> SUFFICES ASSUME NEW i \in 1 .. n, NEW j \in 1 .. n, i < j
                   PROVE  <<s[j], s[i]>> \notin R
        OBVIOUS
      <4>1. i \in 1 .. n - 1 /\ s[i] \in U
        BY <3>7
      <4>2. CASE j = n
        BY <3>2, <3>7, <4>1, <4>2
      <4>3. CASE j \in 1 .. n - 1
        BY <3>6, <3>7, <4>1, <4>3
      <4>4. QED
        BY <3>5, <4>2, <4>3
    <3>11. Arranges(s, n, U, R)
      BY <3>8, <3>9, <3>10 DEF Arranges
    <3>12. QED
      BY <3>11
  <2>2. QED
    BY <2>1
<1>5. 0 .. N \subseteq P
  <2> HIDE DEF P
  <2>1. QED
    BY <1>3, <1>4, Induction
<1>6. Cardinality(T) \in P
  <2> HIDE DEF P
  <2>1. QED
    BY <1>2, <1>5
<1>7. QED
  BY <1>2, <1>6

\* A list without repeats of as many places as the set has meets all of them.
LEMMA ArrangesAll ==
    ASSUME NEW N \in Nat, NEW T \in SUBSET (1 .. N), NEW s \in [1 .. Cardinality(T) -> T],
           \A i, j \in 1 .. Cardinality(T) : s[i] = s[j] => i = j
    PROVE  \A x \in T : \E i \in 1 .. Cardinality(T) : s[i] = x
<1> DEFINE n == Cardinality(T)
<1>1. IsFiniteSet(1 .. N)
  BY FS_Interval
<1>2. IsFiniteSet(T) /\ n \in Nat
  BY <1>1, FS_Subset, FS_CardinalityType
<1>3. Cardinality(1 .. n) = n
  <2> HIDE DEF n
  <2>1. QED
    BY <1>2, FS_Interval
<1>4. s \in Injection(1 .. n, T)
  BY DEF Injection, IsInjective
<1>5. s \in Surjection(1 .. n, T)
  BY <1>2, <1>3, <1>4, FS_Injection
<1>6. QED
  BY <1>5 DEF Surjection

\* select_route_sorted takes the first of a list that can be made.
LEMMA SortSelects ==
    ASSUME NEW routes, RouteTable(routes), NEW request
    PROVE  IsSelection(select_route_sorted(routes, request), routes, request)
<1> DEFINE N == Len(routes)
           T == Candidates(routes, request)
           n == Cardinality(T)
           R == {p \in (1 .. N) \X (1 .. N) : Ahead(routes, p[1], p[2])}
           Sorted(s) == /\ IsInjective(s)
                        /\ \A i, j \in DOMAIN s :
                              i < j => ~Before(SortKey(routes[s[j]]), SortKey(routes[s[i]]))
           sorted == SortedCandidates(routes, T)
<1>1. N \in Nat /\ DOMAIN routes = 1 .. N
  BY RouteTableTyped
<1>2. T \in SUBSET (1 .. N)
  BY <1>1 DEF Candidates
<1>3. ASSUME NEW x \in 1 .. N, NEW y \in 1 .. N
      PROVE  /\ <<x, y>> \in R <=> Ahead(routes, x, y)
             /\ Before(SortKey(routes[x]), SortKey(routes[y])) <=> Ahead(routes, x, y)
  <2>1. <<x, y>> \in R <=> Ahead(routes, x, y)
    OBVIOUS
  <2>2. /\ TypedRoute(routes[x]) /\ routes[x].declaration_order = x
        /\ TypedRoute(routes[y]) /\ routes[y].declaration_order = y
    BY RouteTableTyped
  <2>3. x \in Nat /\ y \in Nat
    BY <1>1
  <2>4. Before(SortKey(routes[x]), SortKey(routes[y])) <=> Ahead(routes, x, y)
    BY <2>2, <2>3, SortKeyAhead
  <2>5. QED
    BY <2>1, <2>4
<1>4. StrictOrder(R)
  <2>1. ASSUME NEW x, NEW y, <<x, y>> \in R
        PROVE  x \in 1 .. N /\ y \in 1 .. N /\ Ahead(routes, x, y)
    BY <2>1
  <2>2. \A x \in Nat : <<x, x>> \notin R
    BY <2>1, AheadOrder
  <2>3. ASSUME NEW x, NEW y, NEW z, <<x, y>> \in R, <<y, z>> \in R
        PROVE  <<x, z>> \in R
    <3>1. /\ x \in 1 .. N /\ y \in 1 .. N /\ z \in 1 .. N
          /\ Ahead(routes, x, y) /\ Ahead(routes, y, z)
      BY <2>1, <2>3
    <3>2. Ahead(routes, x, z)
      BY <3>1, AheadOrder
    <3>3. QED
      BY <3>1, <3>2
  <2> HIDE DEF R
  <2>4. QED
    BY <2>2, <2>3 DEF StrictOrder
<1> HIDE DEF R
<1>5. n \in Nat /\ IsFiniteSet(T) /\ \E s : Arranges(s, n, T, R)
  <2> HIDE DEF N, T
  <2>1. QED
    BY <1>1, <1>2, <1>4, Arrangement
<1>6. \E s \in [1 .. n -> T] : Sorted(s)
  <2>1. PICK s : Arranges(s, n, T, R)
    BY <1>5
  <2>2. s \in [1 .. n -> T] /\ DOMAIN s = 1 .. n
    BY <2>1 DEF Arranges
  <2>3. IsInjective(s)
    BY <2>1, <2>2 DEF Arranges, IsInjective
  <2>4. ASSUME NEW i \in 1 .. n, NEW j \in 1 .. n, i < j
        PROVE  ~Before(SortKey(routes[s[j]]), SortKey(routes[s[i]]))
    <3>1. s[i] \in 1 .. N /\ s[j] \in 1 .. N
      BY <1>2, <2>2
    <3>2. <<s[j], s[i]>> \notin R
      BY <2>1, <2>4 DEF Arranges
    <3>3. QED
      BY <1>3, <3>1, <3>2
  <2>5. QED
    BY <2>2, <2>3, <2>4
<1>7. sorted \in [1 .. n -> T] /\ Sorted(sorted)
  <2>1. sorted = CHOOSE s \in [1 .. n -> T] : Sorted(s)
    BY DEF SortedCandidates
  <2> HIDE DEF Sorted, sorted, n, T
  <2>2. QED
    BY <1>6, <2>1
<1>8. select_route_sorted(routes, request) = IF T = {} THEN 0 ELSE sorted[1]
  BY DEF select_route_sorted, Candidates
<1>9. CASE T = {}
  <2>1. Leads(routes, request, 0, N)
    BY <1>9 DEF Leads
  <2>2. QED
    BY <1>8, <1>9, <2>1, LeadIsSelection
<1>10. CASE T # {}
  <2> DEFINE w == sorted[1]
  <2>1. n # 0
    BY <1>5, <1>10, FS_EmptySet
  <2>2. 1 \in 1 .. n
    BY <1>5, <2>1
  <2>3. w \in T /\ w \in 1 .. N /\ DOMAIN sorted = 1 .. n
    <3> HIDE DEF T, n, sorted, Sorted
    <3>1. QED
      BY <1>2, <1>7, <2>2
  <2>4. \A i, j \in 1 .. n : sorted[i] = sorted[j] => i = j
    <3> HIDE DEF T, n, sorted
    <3>1. QED
      BY <1>7, <2>3 DEF IsInjective
  <2>5. ASSUME NEW x \in T, x # w
        PROVE  Ahead(routes, w, x)
    <3>1. \A y \in T : \E i \in 1 .. n : sorted[i] = y
      <4> HIDE DEF T, N, sorted, Sorted
      <4>1. QED
        BY <1>1, <1>2, <1>7, <2>4, ArrangesAll
    <3>2. PICK i \in 1 .. n : sorted[i] = x
      BY <3>1
    <3>3. 1 < i
      BY <1>5, <2>5, <3>2
    <3>4. ~Before(SortKey(routes[sorted[i]]), SortKey(routes[sorted[1]]))
      <4> HIDE DEF T, n, sorted
      <4>1. QED
        BY <1>7, <2>2, <2>3, <3>3
    <3>5. x \in 1 .. N
      BY <1>2
    <3>6. ~Ahead(routes, x, w)
      <4> HIDE DEF T, n, sorted
      <4>1. QED
        BY <1>3, <2>3, <3>2, <3>4, <3>5
    <3> HIDE DEF w
    <3>7. QED
      BY <2>3, <2>5, <3>5, <3>6, AheadOrder
  <2> HIDE DEF w, sorted
  <2>6. Leads(routes, request, w, N)
    BY <2>3, <2>5 DEF Leads
  <2>7. QED
    BY <1>8, <1>10, <2>6, LeadIsSelection DEF w
<1>11. QED
  BY <1>9, <1>10

-----------------------------------------------------------------------------
\* The open addressing of bounded_match: the probes of an order meet every slot.

Slots == 0 .. MAX_ROUTES - 1

LEMMA NoMultipleBetween ==
    ASSUME NEW M \in Nat \ {0}, NEW k \in Int, NEW d \in Int, d = M * k, d < M, -M < d
    PROVE  d = 0
<1>1. CASE k >= 1
  <2>1. M * k >= M
    BY <1>1
  <2>2. QED
    BY <2>1
<1>2. CASE k <= -1
  <2>1. M * k <= -M
    BY <1>2
  <2>2. QED
    BY <2>1
<1>3. CASE k = 0
  BY <1>3
<1>4. QED
  BY <1>1, <1>2, <1>3

LEMMA Division ==
    ASSUME NEW M \in Nat \ {0}, NEW x \in Nat
    PROVE  /\ x % M \in 0 .. M - 1
           /\ x \div M \in Int
           /\ x = M * (x \div M) + (x % M)
<1>1. x % M \in 0 .. M - 1
  OBVIOUS
<1>2. x \div M \in Int
  OBVIOUS
<1>3. x = M * (x \div M) + (x % M)
  BY SMTT(30)
<1>4. QED
  BY <1>1, <1>2, <1>3

LEMMA ModInjective ==
    ASSUME NEW M \in Nat \ {0}, NEW a \in Nat, NEW i \in 0 .. M - 1, NEW j \in 0 .. M - 1,
           (a + i) % M = (a + j) % M
    PROVE  i = j
<1>1. PICK q \in Int : a + i = M * q + ((a + i) % M)
  <2>1. a + i \in Nat
    OBVIOUS
  <2>2. QED
    BY <2>1, Division
<1>2. PICK r \in Int : a + j = M * r + ((a + j) % M)
  <2>1. a + j \in Nat
    OBVIOUS
  <2>2. QED
    BY <2>1, Division
<1>3. PICK rest \in Int : rest = (a + i) % M /\ rest = (a + j) % M
  <2>1. a + i \in Nat
    OBVIOUS
  <2>2. (a + i) % M \in 0 .. M - 1
    BY <2>1, Division
  <2>3. (a + i) % M \in Int
    BY <2>2
  <2>4. QED
    BY <2>3
<1>4. a + i = M * q + rest /\ a + j = M * r + rest
  BY <1>1, <1>2, <1>3, Zenon
<1>5. PICK x \in Int, y \in Int : x = M * q /\ y = M * r
  OBVIOUS
<1>6. i - j = x - y
  BY <1>4, <1>5
<1>7. M * (q - r) = x - y
  BY <1>5
<1>8. i - j = M * (q - r) /\ q - r \in Int /\ i - j \in Int /\ i - j < M /\ -M < i - j
  <2>1. i - j \in Int /\ i - j < M /\ -M < i - j
    OBVIOUS
  <2>2. QED
    BY <1>6, <1>7, <2>1
<1>9. i - j = 0
  BY <1>8, NoMultipleBetween
<1>10. QED
  BY <1>9

LEMMA Probes ==
    ASSUME NEW order \in Nat
    PROVE  /\ \A i \in Slots : Probe(order, i) \in Slots
           /\ \A k \in Slots : \E i \in Slots : Probe(order, i) = k
<1> DEFINE f == [i \in Slots |-> Probe(order, i)]
<1>1. MAX_ROUTES \in Nat \ {0} /\ order * 185 \in Nat
  BY MatchRouteAssumption
<1>2. PICK a \in Nat : a = order * 185
  BY <1>1
<1>3. \A i \in Slots : Probe(order, i) = (a + i) % MAX_ROUTES
  BY <1>2, Zenon DEF Probe
<1>4. ASSUME NEW i \in Slots
      PROVE  Probe(order, i) \in Slots
  <2>1. a + i \in Nat
    BY <1>1 DEF Slots
  <2>2. (a + i) % MAX_ROUTES \in 0 .. MAX_ROUTES - 1
    BY <1>1, <2>1, Division
  <2>3. QED
    BY <1>3, <2>2 DEF Slots
<1>5. ASSUME NEW i \in Slots, NEW j \in Slots, Probe(order, i) = Probe(order, j)
      PROVE  i = j
  <2>1. (a + i) % MAX_ROUTES = (a + j) % MAX_ROUTES
    BY <1>3, <1>5
  <2>2. QED
    BY <1>1, <2>1, ModInjective DEF Slots
<1>6. IsFiniteSet(Slots)
  BY <1>1, FS_Interval DEF Slots
<1>7. f \in Injection(Slots, Slots)
  BY <1>4, <1>5 DEF Injection, IsInjective
<1>8. f \in Surjection(Slots, Slots)
  BY <1>6, <1>7, FS_Injection
<1>9. \A k \in Slots : \E i \in Slots : f[i] = k
  BY <1>8 DEF Surjection
<1>10. QED
  BY <1>4, <1>9

\* An order is found along its probes before any free slot.
Reaches(slots, order) ==
    \E i \in Slots : /\ slots[Probe(order, i)] = order
                     /\ \A j \in 0 .. i - 1 : slots[Probe(order, j)] # FreeSlot

\* The table holds the orders seen, each once and within reach.
Stores(slots, seen) ==
    /\ slots \in [Slots -> Nat \cup {FreeSlot}]
    /\ \A order \in seen : Reaches(slots, order)
    /\ \A k \in Slots : slots[k] # FreeSlot => slots[k] \in seen
    /\ \A k, l \in Slots : slots[k] = slots[l] /\ slots[k] # FreeSlot => k = l

LEMMA SlotLeft ==
    ASSUME NEW slots, NEW seen, Stores(slots, seen), IsFiniteSet(seen),
           Cardinality(seen) < MAX_ROUTES
    PROVE  \E k \in Slots : slots[k] = FreeSlot
<1>1. SUFFICES ASSUME \A k \in Slots : slots[k] # FreeSlot
               PROVE  FALSE
  OBVIOUS
<1>2. slots \in [Slots -> seen]
  BY <1>1 DEF Stores
<1>3. MAX_ROUTES \in Nat \ {0}
  BY MatchRouteAssumption
<1>4. IsFiniteSet(Slots) /\ Cardinality(Slots) = MAX_ROUTES
  BY <1>3, FS_Interval DEF Slots
<1>5. Cardinality(seen) < Cardinality(Slots)
  BY <1>4
<1>6. \E x, y \in Slots : x # y /\ slots[x] = slots[y]
  BY <1>2, <1>4, <1>5, FS_PigeonHole
<1>7. QED
  BY <1>1, <1>6 DEF Stores

LEMMA InsertStores ==
    ASSUME NEW slots, NEW seen \in SUBSET Nat, Stores(slots, seen), NEW order \in Nat,
           \E k \in Slots : slots[k] = FreeSlot
    PROVE  /\ Insert(slots, order).fresh = (order \notin seen)
           /\ Stores(Insert(slots, order).slots, seen \cup {order})
<1> DEFINE stops == {i \in 0 .. MAX_ROUTES - 1 : slots[Probe(order, i)] \in {FreeSlot, order}}
           slot == Probe(order, Min(stops))
           after == [slots EXCEPT ![slot] = order]
<1>1. stops \in SUBSET Slots /\ Slots \in SUBSET Nat
  BY MatchRouteAssumption DEF Slots
<1>2. stops # {}
  <2>1. PICK k \in Slots : slots[k] = FreeSlot
    OBVIOUS
  <2>2. PICK i \in Slots : Probe(order, i) = k
    BY Probes
  <2>3. QED
    BY <2>1, <2>2 DEF Slots
<1>3. Insert(slots, order) = [fresh |-> slots[slot] = FreeSlot, slots |-> after]
  BY <1>2, Zenon DEF Insert
<1>4. Min(stops) \in stops /\ \A i \in stops : Min(stops) <= i
  <2> HIDE DEF stops
  <2>1. QED
    BY <1>1, <1>2, SmallestOf
<1>5. PICK m \in Slots : /\ m = Min(stops)
                        /\ slots[Probe(order, m)] \in {FreeSlot, order}
                        /\ \A i \in Slots : slots[Probe(order, i)] \in {FreeSlot, order} => m <= i
  BY <1>1, <1>4 DEF Slots
<1>6. slot = Probe(order, m) /\ slot \in Slots
  BY <1>5, Probes
<1>7. slots \in [Slots -> Nat \cup {FreeSlot}] /\ FreeSlot \notin Nat /\ order # FreeSlot
  BY DEF Stores, FreeSlot
<1> HIDE DEF stops, slot
<1>8. slots[slot] = FreeSlot \/ slots[slot] = order
  BY <1>5, <1>6
<1>9. (slots[slot] = FreeSlot) <=> (order \notin seen)
  <2>1. ASSUME order \in seen
        PROVE  slots[slot] # FreeSlot
    <3>1. PICK i \in Slots : /\ slots[Probe(order, i)] = order
                            /\ \A j \in 0 .. i - 1 : slots[Probe(order, j)] # FreeSlot
      BY <2>1 DEF Stores, Reaches
    <3>2. m <= i
      BY <1>5, <3>1
    <3>3. CASE m = i
      BY <1>6, <1>7, <3>1, <3>3
    <3>4. CASE m < i
      <4>1. m \in 0 .. i - 1
        BY <1>1, <3>4
      <4>2. QED
        BY <1>6, <3>1, <4>1
    <3>5. QED
      BY <1>1, <3>2, <3>3, <3>4
  <2>2. ASSUME order \notin seen
        PROVE  slots[slot] = FreeSlot
    <3>1. slots[slot] # order
      BY <1>6, <1>7, <2>2 DEF Stores
    <3>2. QED
      BY <1>8, <3>1
  <2>3. QED
    BY <2>1, <2>2
<1>10. /\ after \in [Slots -> Nat \cup {FreeSlot}]
       /\ after[slot] = order
       /\ \A k \in Slots : k # slot => after[k] = slots[k]
       /\ \A k \in Slots : slots[k] # FreeSlot => after[k] # FreeSlot
  BY <1>6, <1>7
<1> HIDE DEF after
<1>11. ASSUME NEW o \in seen \cup {order}
       PROVE  Reaches(after, o)
  <2>1. o \in Nat
    OBVIOUS
  <2>2. CASE o = order
    <3>1. \A j \in 0 .. m - 1 : j \in Slots /\ ~(m <= j)
      BY MatchRouteAssumption DEF Slots
    <3>2. \A j \in 0 .. m - 1 : slots[Probe(order, j)] # FreeSlot /\ Probe(order, j) \in Slots
      BY <1>5, <3>1, Probes
    <3>3. \A j \in 0 .. m - 1 : after[Probe(order, j)] # FreeSlot
      BY <1>10, <3>2
    <3>4. QED
      BY <1>6, <1>10, <2>2, <3>3 DEF Reaches
  <2>3. CASE o # order
    <3>1. o \in seen
      BY <2>3
    <3>2. PICK i \in Slots : /\ slots[Probe(o, i)] = o
                            /\ \A j \in 0 .. i - 1 : slots[Probe(o, j)] # FreeSlot
      BY <3>1 DEF Stores, Reaches
    <3>3. \A j \in 0 .. i : j \in Slots /\ Probe(o, j) \in Slots
      <4>1. \A j \in 0 .. i : j \in Slots
        BY MatchRouteAssumption DEF Slots
      <4>2. QED
        BY <2>1, <4>1, Probes
    <3>4. Probe(o, i) # slot /\ Probe(o, i) \in Slots
      <4>1. o # FreeSlot
        BY <1>7, <2>1
      <4>2. Probe(o, i) \in Slots
        BY <2>1, Probes
      <4>3. QED
        BY <1>8, <2>3, <3>2, <4>1, <4>2
    <3>5. after[Probe(o, i)] = o
      BY <1>10, <3>2, <3>4
    <3>6. \A j \in 0 .. i - 1 : after[Probe(o, j)] # FreeSlot
      <4> TAKE j \in 0 .. i - 1
      <4>1. j \in 0 .. i
        BY <1>1
      <4>2. QED
        BY <1>10, <3>2, <3>3, <4>1
    <3>7. QED
      BY <3>5, <3>6 DEF Reaches
  <2>4. QED
    BY <2>2, <2>3
<1>12. \A k \in Slots : after[k] # FreeSlot => after[k] \in seen \cup {order}
  BY <1>10 DEF Stores
<1>13. ASSUME NEW k \in Slots, NEW l \in Slots, after[k] = after[l], after[k] # FreeSlot
       PROVE  k = l
  <2>1. ASSUME NEW x \in Slots, x # slot, slots[x] = order
        PROVE  FALSE
    <3>1. order \in seen
      BY <1>7, <2>1 DEF Stores
    <3>2. slots[slot] = order
      BY <1>8, <1>9, <3>1
    <3>3. QED
      BY <1>6, <1>7, <2>1, <3>2 DEF Stores
  <2>2. CASE k = slot \/ l = slot
    BY <1>10, <1>13, <2>1, <2>2
  <2>3. CASE k # slot /\ l # slot
    BY <1>10, <1>13, <2>3 DEF Stores
  <2>4. QED
    BY <2>2, <2>3
<1>14. Stores(after, seen \cup {order})
  BY <1>10, <1>11, <1>12, <1>13 DEF Stores
<1>15. /\ Insert(slots, order).fresh = (slots[slot] = FreeSlot)
       /\ Insert(slots, order).slots = after
  BY <1>3
<1>16. Insert(slots, order).fresh = (order \notin seen)
  BY <1>9, <1>15, Zenon
<1>17. QED
  BY <1>14, <1>15, <1>16, Zenon

-----------------------------------------------------------------------------
\* The pass of direct, typed_arithmetic and bounded_match over a table.

RuleFaults == {"ok", "invalid_host", "invalid_path_prefix", "invalid_upstream"}

\* What a pass remembers, where Seen are the values of its set of orders.
PassState(Seen) ==
    [fault : RuleFaults \cup {"duplicate_declaration_order"}, seen : Seen,
     winner : {<<>>} \cup {<<rule>> : rule \in Rules}]

\* One rule of the pass: its fault, what the set of orders answers, and whether
\* it is eligible are given.
PassStep(s, rule, fault, put, eligible) ==
    IF s.fault # "ok" THEN s
    ELSE IF fault # "ok" THEN [s EXCEPT !.fault = fault]
    ELSE IF ~put.fresh THEN [s EXCEPT !.fault = "duplicate_declaration_order"]
    ELSE [s EXCEPT !.seen = put.slots,
                   !.winner = IF eligible /\ (s.winner = <<>> \/ Precedes(rule, s.winner[1]))
                              THEN <<rule>> ELSE @]

PassResult(target, routes, end) ==
    IF BoundaryFault(target, routes) # "ok" THEN Refused(BoundaryFault(target, routes))
    ELSE IF end.fault # "ok" THEN Refused(end.fault)
    ELSE IF end.winner = <<>> THEN Refused("NoRoute") ELSE Matched(end.winner[1])

DirectStep(s, rule, authority, target) ==
    PassStep(s, rule, DirectRuleFault(rule), InsertInSet(s.seen, rule.declaration_order),
             Eligible(rule, authority, target))

TypedArithmeticStep(s, rule, authority, target) ==
    PassStep(s, rule, TypedArithmeticRuleFault(rule), InsertInSet(s.seen, rule.declaration_order),
             Eligible(rule, authority, target))

BoundedMatchStep(s, rule, authority, target) ==
    PassStep(s, rule, BoundedMatchRuleFault(rule), Insert(s.seen, rule.declaration_order),
             Eligible(rule, authority, target))

LEMMA PassStepType ==
    ASSUME NEW Seen, NEW s \in PassState(Seen), NEW rule \in Rules, NEW fault \in RuleFaults,
           NEW put, put.slots \in Seen, NEW eligible
    PROVE  PassStep(s, rule, fault, put, eligible) \in PassState(Seen)
<1> DEFINE next == PassStep(s, rule, fault, put, eligible)
           w == IF eligible /\ (s.winner = <<>> \/ Precedes(rule, s.winner[1]))
                THEN <<rule>> ELSE s.winner
<1>1. /\ s.fault \in RuleFaults \cup {"duplicate_declaration_order"}
      /\ s.seen \in Seen
      /\ s.winner \in {<<>>} \cup {<<r>> : r \in Rules}
  BY DEF PassState
<1>2. w \in {<<>>} \cup {<<r>> : r \in Rules}
  <2>1. <<rule>> \in {<<r>> : r \in Rules}
    OBVIOUS
  <2>2. QED
    BY <1>1, <2>1
<1>3. next = IF s.fault # "ok" THEN s
             ELSE IF fault # "ok" THEN [s EXCEPT !.fault = fault]
             ELSE IF ~put.fresh THEN [s EXCEPT !.fault = "duplicate_declaration_order"]
             ELSE [s EXCEPT !.seen = put.slots, !.winner = w]
  BY DEF PassStep, PassState
<1> HIDE DEF w, next
<1>4. QED
  BY <1>1, <1>2, <1>3 DEF PassState, next

LEMMA RuleFaultType ==
    ASSUME NEW rule, NEW limited \in BOOLEAN
    PROVE  RuleFault(rule, limited) \in RuleFaults
BY DEF RuleFault, RuleFaults

LEMMA InsertType ==
    ASSUME NEW slots \in [Slots -> Nat \cup {FreeSlot}], NEW order \in Nat
    PROVE  Insert(slots, order).slots \in [Slots -> Nat \cup {FreeSlot}]
<1> DEFINE stops == {i \in 0 .. MAX_ROUTES - 1 : slots[Probe(order, i)] \in {FreeSlot, order}}
           slot == Probe(order, Min(stops))
<1>1. CASE stops = {}
  <2>1. Insert(slots, order) = [fresh |-> TRUE, slots |-> slots]
    BY <1>1, Zenon DEF Insert
  <2>2. QED
    BY <2>1
<1>2. CASE stops # {}
  <2>1. Insert(slots, order) = [fresh |-> slots[slot] = FreeSlot, slots |-> [slots EXCEPT ![slot] = order]]
    BY <1>2, Zenon DEF Insert
  <2>2. [slots EXCEPT ![slot] = order] \in [Slots -> Nat \cup {FreeSlot}]
    OBVIOUS
  <2>3. QED
    BY <2>1, <2>2
<1>3. QED
  BY <1>1, <1>2

LEMMA DirectPass ==
    ASSUME NEW routes \in Seq(Rules), NEW authority, NEW target
    PROVE  \E g \in [0 .. Len(routes) -> PassState(SUBSET Nat)] :
              /\ g[0] = [fault |-> "ok", seen |-> {}, winner |-> <<>>]
              /\ \A i \in 1 .. Len(routes) : g[i] = DirectStep(g[i - 1], routes[i], authority, target)
              /\ DirectRoute(authority, target, routes) = PassResult(target, routes, g[Len(routes)])
<1> DEFINE N == Len(routes)
           V == PassState(SUBSET Nat)
           start == [fault |-> "ok", seen |-> {}, winner |-> <<>>]
           op(s, rule) == DirectStep(s, rule, authority, target)
           Body(f) == [t \in SUBSET DOMAIN routes |->
                         IF t = {} THEN start ELSE op(f[t \ {Max(t)}], routes[Max(t)])]
           iter == CHOOSE f : f = Body(f)
           step == [p \in V \X (1 .. N) |-> op(p[1], routes[p[2]])]
<1>1. DirectRoute(authority, target, routes) = PassResult(target, routes, iter[DOMAIN routes])
  BY DEF DirectRoute, OnePass, FoldLeft, MapThenFoldSet, PassResult, DirectStep, PassStep
<1>2. N \in Nat /\ DOMAIN routes = 1 .. N /\ \A i \in 1 .. N : routes[i] \in Rules
  OBVIOUS
<1>3. start \in V
  BY DEF PassState, RuleFaults
<1>4. ASSUME NEW s \in V, NEW i \in 1 .. N
      PROVE  op(s, routes[i]) \in V
  <2>1. /\ routes[i].declaration_order \in Nat
        /\ s.seen \in SUBSET Nat
    BY <1>2, TablesAssumption DEF PassState
  <2>2. InsertInSet(s.seen, routes[i].declaration_order).slots \in SUBSET Nat
    BY <2>1 DEF InsertInSet
  <2>3. DirectRuleFault(routes[i]) \in RuleFaults
    BY RuleFaultType DEF DirectRuleFault
  <2>4. routes[i] \in Rules
    BY <1>2
  <2>5. QED
    BY <2>2, <2>3, <2>4, PassStepType DEF DirectStep
<1> HIDE DEF V, start, op
<1>5. step \in [V \X (1 .. N) -> V]
  BY <1>4
<1>6. ASSUME NEW t \in SUBSET (1 .. N), t # {}
      PROVE  Max(t) \in 1 .. N
  BY <1>2, <1>6, MaxIn
<1>7. ASSUME NEW h, FoldsTo(h, V, start, N, step)
      PROVE  h = Body(h)
  <2>1. ASSUME NEW t \in SUBSET (1 .. N)
        PROVE  h[t] = IF t = {} THEN start ELSE op(h[t \ {Max(t)}], routes[Max(t)])
    BY <1>6, <1>7 DEF FoldsTo
  <2>2. QED
    BY <1>2, <1>7, <2>1 DEF FoldsTo
<1>8. ASSUME NEW h, h = Body(h)
      PROVE  Obeys(h, V, start, N, step)
  <2>1. ASSUME NEW t \in SUBSET (1 .. N)
        PROVE  h[t] = IF t = {} THEN start ELSE op(h[t \ {Max(t)}], routes[Max(t)])
    BY <1>2, <1>8
  <2>2. QED
    BY <1>6, <2>1 DEF Obeys
<1>9. iter = Body(iter)
  <2>1. PICK h : FoldsTo(h, V, start, N, step)
    BY <1>2, <1>3, <1>5, FoldExists
  <2>2. h = Body(h)
    BY <1>7, <2>1
  <2> HIDE DEF Body
  <2>3. QED
    BY <2>2
<1> HIDE DEF iter, Body
<1>10. Obeys(iter, V, start, N, step)
  BY <1>8, <1>9
<1>11. PICK g : Runs(g, V, start, N, step, iter[1 .. N])
  BY <1>2, <1>3, <1>5, <1>10, FoldValues
<1>12. /\ g \in [0 .. N -> V] /\ g[0] = start /\ g[N] = iter[1 .. N]
       /\ \A i \in 1 .. N : g[i] = op(g[i - 1], routes[i])
  <2>1. /\ g \in [0 .. N -> V] /\ g[0] = start /\ g[N] = iter[1 .. N]
        /\ \A i \in 1 .. N : g[i] = step[<<g[i - 1], i>>]
    <3> HIDE DEF step, N
    <3>1. QED
      BY <1>11 DEF Runs
  <2>2. \A i \in 1 .. N : i - 1 \in 0 .. N
    BY <1>2
  <2>3. QED
    BY <2>1, <2>2
<1>13. QED
  BY <1>1, <1>2, <1>12 DEF V, start, op

LEMMA TypedArithmeticPass ==
    ASSUME NEW routes \in Seq(Rules), NEW authority, NEW target
    PROVE  \E g \in [0 .. Len(routes) -> PassState(SUBSET Nat)] :
              /\ g[0] = [fault |-> "ok", seen |-> {}, winner |-> <<>>]
              /\ \A i \in 1 .. Len(routes) : g[i] = TypedArithmeticStep(g[i - 1], routes[i], authority, target)
              /\ TypedArithmeticRoute(authority, target, routes) = PassResult(target, routes, g[Len(routes)])
<1> DEFINE N == Len(routes)
           V == PassState(SUBSET Nat)
           start == [fault |-> "ok", seen |-> {}, winner |-> <<>>]
           op(s, rule) == TypedArithmeticStep(s, rule, authority, target)
           Body(f) == [t \in SUBSET DOMAIN routes |->
                         IF t = {} THEN start ELSE op(f[t \ {Max(t)}], routes[Max(t)])]
           iter == CHOOSE f : f = Body(f)
           step == [p \in V \X (1 .. N) |-> op(p[1], routes[p[2]])]
<1>1. TypedArithmeticRoute(authority, target, routes) = PassResult(target, routes, iter[DOMAIN routes])
  BY DEF TypedArithmeticRoute, OnePass, FoldLeft, MapThenFoldSet, PassResult, TypedArithmeticStep, PassStep
<1>2. N \in Nat /\ DOMAIN routes = 1 .. N /\ \A i \in 1 .. N : routes[i] \in Rules
  OBVIOUS
<1>3. start \in V
  BY DEF PassState, RuleFaults
<1>4. ASSUME NEW s \in V, NEW i \in 1 .. N
      PROVE  op(s, routes[i]) \in V
  <2>1. /\ routes[i].declaration_order \in Nat
        /\ s.seen \in SUBSET Nat
    BY <1>2, TablesAssumption DEF PassState
  <2>2. InsertInSet(s.seen, routes[i].declaration_order).slots \in SUBSET Nat
    BY <2>1 DEF InsertInSet
  <2>3. TypedArithmeticRuleFault(routes[i]) \in RuleFaults
    BY RuleFaultType DEF TypedArithmeticRuleFault
  <2>4. routes[i] \in Rules
    BY <1>2
  <2>5. QED
    BY <2>2, <2>3, <2>4, PassStepType DEF TypedArithmeticStep
<1> HIDE DEF V, start, op
<1>5. step \in [V \X (1 .. N) -> V]
  BY <1>4
<1>6. ASSUME NEW t \in SUBSET (1 .. N), t # {}
      PROVE  Max(t) \in 1 .. N
  BY <1>2, <1>6, MaxIn
<1>7. ASSUME NEW h, FoldsTo(h, V, start, N, step)
      PROVE  h = Body(h)
  <2>1. ASSUME NEW t \in SUBSET (1 .. N)
        PROVE  h[t] = IF t = {} THEN start ELSE op(h[t \ {Max(t)}], routes[Max(t)])
    BY <1>6, <1>7 DEF FoldsTo
  <2>2. QED
    BY <1>2, <1>7, <2>1 DEF FoldsTo
<1>8. ASSUME NEW h, h = Body(h)
      PROVE  Obeys(h, V, start, N, step)
  <2>1. ASSUME NEW t \in SUBSET (1 .. N)
        PROVE  h[t] = IF t = {} THEN start ELSE op(h[t \ {Max(t)}], routes[Max(t)])
    BY <1>2, <1>8
  <2>2. QED
    BY <1>6, <2>1 DEF Obeys
<1>9. iter = Body(iter)
  <2>1. PICK h : FoldsTo(h, V, start, N, step)
    BY <1>2, <1>3, <1>5, FoldExists
  <2>2. h = Body(h)
    BY <1>7, <2>1
  <2> HIDE DEF Body
  <2>3. QED
    BY <2>2
<1> HIDE DEF iter, Body
<1>10. Obeys(iter, V, start, N, step)
  BY <1>8, <1>9
<1>11. PICK g : Runs(g, V, start, N, step, iter[1 .. N])
  BY <1>2, <1>3, <1>5, <1>10, FoldValues
<1>12. /\ g \in [0 .. N -> V] /\ g[0] = start /\ g[N] = iter[1 .. N]
       /\ \A i \in 1 .. N : g[i] = op(g[i - 1], routes[i])
  <2>1. /\ g \in [0 .. N -> V] /\ g[0] = start /\ g[N] = iter[1 .. N]
        /\ \A i \in 1 .. N : g[i] = step[<<g[i - 1], i>>]
    <3> HIDE DEF step, N
    <3>1. QED
      BY <1>11 DEF Runs
  <2>2. \A i \in 1 .. N : i - 1 \in 0 .. N
    BY <1>2
  <2>3. QED
    BY <2>1, <2>2
<1>13. QED
  BY <1>1, <1>2, <1>12 DEF V, start, op

\* The empty set of orders of bounded_match.
NoSlots == [slot \in 0 .. MAX_ROUTES - 1 |-> FreeSlot]

LEMMA BoundedMatchPass ==
    ASSUME NEW routes \in Seq(Rules), NEW authority, NEW target
    PROVE  \E g \in [0 .. Len(routes) -> PassState([Slots -> Nat \cup {FreeSlot}])] :
              /\ g[0] = [fault |-> "ok", seen |-> NoSlots, winner |-> <<>>]
              /\ \A i \in 1 .. Len(routes) : g[i] = BoundedMatchStep(g[i - 1], routes[i], authority, target)
              /\ BoundedMatchRoute(authority, target, routes) = PassResult(target, routes, g[Len(routes)])
<1> DEFINE N == Len(routes)
           V == PassState([Slots -> Nat \cup {FreeSlot}])
           start == [fault |-> "ok", seen |-> NoSlots, winner |-> <<>>]
           op(s, rule) == BoundedMatchStep(s, rule, authority, target)
           Body(f) == [t \in SUBSET DOMAIN routes |->
                         IF t = {} THEN start ELSE op(f[t \ {Max(t)}], routes[Max(t)])]
           iter == CHOOSE f : f = Body(f)
           step == [p \in V \X (1 .. N) |-> op(p[1], routes[p[2]])]
<1>1. BoundedMatchRoute(authority, target, routes) = PassResult(target, routes, iter[DOMAIN routes])
  BY DEF BoundedMatchRoute, OnePass, FoldLeft, MapThenFoldSet, PassResult, BoundedMatchStep, PassStep, NoSlots
<1>2. N \in Nat /\ DOMAIN routes = 1 .. N /\ \A i \in 1 .. N : routes[i] \in Rules
  OBVIOUS
<1>3. start \in V
  BY DEF PassState, RuleFaults, Slots, NoSlots
<1>4. ASSUME NEW s \in V, NEW i \in 1 .. N
      PROVE  op(s, routes[i]) \in V
  <2>1. /\ routes[i].declaration_order \in Nat
        /\ s.seen \in [Slots -> Nat \cup {FreeSlot}]
    BY <1>2, TablesAssumption DEF PassState
  <2>2. Insert(s.seen, routes[i].declaration_order).slots \in [Slots -> Nat \cup {FreeSlot}]
    BY <2>1, InsertType
  <2>3. BoundedMatchRuleFault(routes[i]) \in RuleFaults
    BY RuleFaultType DEF BoundedMatchRuleFault
  <2>4. routes[i] \in Rules
    BY <1>2
  <2>5. QED
    BY <2>2, <2>3, <2>4, PassStepType DEF BoundedMatchStep
<1> HIDE DEF V, start, op
<1>5. step \in [V \X (1 .. N) -> V]
  BY <1>4
<1>6. ASSUME NEW t \in SUBSET (1 .. N), t # {}
      PROVE  Max(t) \in 1 .. N
  BY <1>2, <1>6, MaxIn
<1>7. ASSUME NEW h, FoldsTo(h, V, start, N, step)
      PROVE  h = Body(h)
  <2>1. ASSUME NEW t \in SUBSET (1 .. N)
        PROVE  h[t] = IF t = {} THEN start ELSE op(h[t \ {Max(t)}], routes[Max(t)])
    BY <1>6, <1>7 DEF FoldsTo
  <2>2. QED
    BY <1>2, <1>7, <2>1 DEF FoldsTo
<1>8. ASSUME NEW h, h = Body(h)
      PROVE  Obeys(h, V, start, N, step)
  <2>1. ASSUME NEW t \in SUBSET (1 .. N)
        PROVE  h[t] = IF t = {} THEN start ELSE op(h[t \ {Max(t)}], routes[Max(t)])
    BY <1>2, <1>8
  <2>2. QED
    BY <1>6, <2>1 DEF Obeys
<1>9. iter = Body(iter)
  <2>1. PICK h : FoldsTo(h, V, start, N, step)
    BY <1>2, <1>3, <1>5, FoldExists
  <2>2. h = Body(h)
    BY <1>7, <2>1
  <2> HIDE DEF Body
  <2>3. QED
    BY <2>2
<1> HIDE DEF iter, Body
<1>10. Obeys(iter, V, start, N, step)
  BY <1>8, <1>9
<1>11. PICK g : Runs(g, V, start, N, step, iter[1 .. N])
  BY <1>2, <1>3, <1>5, <1>10, FoldValues
<1>12. /\ g \in [0 .. N -> V] /\ g[0] = start /\ g[N] = iter[1 .. N]
       /\ \A i \in 1 .. N : g[i] = op(g[i - 1], routes[i])
  <2>1. /\ g \in [0 .. N -> V] /\ g[0] = start /\ g[N] = iter[1 .. N]
        /\ \A i \in 1 .. N : g[i] = step[<<g[i - 1], i>>]
    <3> HIDE DEF step, N
    <3>1. QED
      BY <1>11 DEF Runs
  <2>2. \A i \in 1 .. N : i - 1 \in 0 .. N
    BY <1>2
  <2>3. QED
    BY <2>1, <2>2
<1>13. QED
  BY <1>1, <1>2, <1>12 DEF V, start, op

-----------------------------------------------------------------------------
\* The three passes agree.

\* A prefix within the limit is the same to those that check it and those that
\* do not.
LEMMA SameRuleFault ==
    ASSUME NEW rule, Len(rule.path_prefix) \in Nat, Len(rule.path_prefix) <= PATH_LIMIT
    PROVE  RuleFault(rule, FALSE) = RuleFault(rule, TRUE)
<1>1. ~(Len(rule.path_prefix) > PATH_LIMIT)
  BY MatchRouteAssumption
<1>2. QED
  BY <1>1 DEF RuleFault

LEMMA PassStepCases ==
    ASSUME NEW Seen, NEW s \in PassState(Seen), NEW rule, NEW fault, NEW put, NEW eligible
    PROVE  LET next == PassStep(s, rule, fault, put, eligible)
           IN  /\ s.fault # "ok" => next = s
               /\ s.fault = "ok" /\ fault # "ok" =>
                     next.fault = fault /\ next.seen = s.seen /\ next.winner = s.winner
               /\ s.fault = "ok" /\ fault = "ok" /\ ~put.fresh =>
                     /\ next.fault = "duplicate_declaration_order"
                     /\ next.seen = s.seen
                     /\ next.winner = s.winner
               /\ s.fault = "ok" /\ fault = "ok" /\ put.fresh =>
                     /\ next.fault = "ok"
                     /\ next.seen = put.slots
                     /\ next.winner = IF eligible /\ (s.winner = <<>> \/ Precedes(rule, s.winner[1]))
                                      THEN <<rule>> ELSE s.winner
<1> DEFINE w == IF eligible /\ (s.winner = <<>> \/ Precedes(rule, s.winner[1]))
                THEN <<rule>> ELSE s.winner
<1>1. PassStep(s, rule, fault, put, eligible) =
        IF s.fault # "ok" THEN s
        ELSE IF fault # "ok" THEN [s EXCEPT !.fault = fault]
        ELSE IF ~put.fresh THEN [s EXCEPT !.fault = "duplicate_declaration_order"]
        ELSE [s EXCEPT !.seen = put.slots, !.winner = w]
  BY DEF PassStep, PassState
<1> HIDE DEF w
<1>2. /\ s.fault # "ok" => PassStep(s, rule, fault, put, eligible) = s
      /\ s.fault = "ok" /\ fault # "ok" =>
            PassStep(s, rule, fault, put, eligible) = [s EXCEPT !.fault = fault]
      /\ s.fault = "ok" /\ fault = "ok" /\ ~put.fresh =>
            PassStep(s, rule, fault, put, eligible) = [s EXCEPT !.fault = "duplicate_declaration_order"]
      /\ s.fault = "ok" /\ fault = "ok" /\ put.fresh =>
            PassStep(s, rule, fault, put, eligible) = [s EXCEPT !.seen = put.slots, !.winner = w]
  BY <1>1, Zenon
<1>3. /\ [s EXCEPT !.fault = fault].fault = fault
      /\ [s EXCEPT !.fault = fault].seen = s.seen
      /\ [s EXCEPT !.fault = fault].winner = s.winner
  BY DEF PassState
<1>4. /\ [s EXCEPT !.fault = "duplicate_declaration_order"].fault = "duplicate_declaration_order"
      /\ [s EXCEPT !.fault = "duplicate_declaration_order"].seen = s.seen
      /\ [s EXCEPT !.fault = "duplicate_declaration_order"].winner = s.winner
  BY DEF PassState
<1>5. /\ [s EXCEPT !.seen = put.slots, !.winner = w].fault = s.fault
      /\ [s EXCEPT !.seen = put.slots, !.winner = w].seen = put.slots
      /\ [s EXCEPT !.seen = put.slots, !.winner = w].winner = w
  BY DEF PassState
<1>6. QED
  BY <1>2, <1>3, <1>4, <1>5, Zenon DEF w

\* The prefixes of a table that the invariant MatchRouteAgrees is about.
WithinLimit(routes) == \A i \in DOMAIN routes : Len(routes[i].path_prefix) <= PATH_LIMIT

LEMMA TypedArithmeticIsDirect ==
    ASSUME NEW routes \in Seq(Rules), WithinLimit(routes), NEW authority, NEW target
    PROVE  TypedArithmeticRoute(authority, target, routes) = DirectRoute(authority, target, routes)
<1> DEFINE N == Len(routes)
<1>1. N \in Nat /\ DOMAIN routes = 1 .. N /\ \A i \in 1 .. N : routes[i] \in Rules
  OBVIOUS
<1>2. PICK d \in [0 .. N -> PassState(SUBSET Nat)] :
         /\ d[0] = [fault |-> "ok", seen |-> {}, winner |-> <<>>]
         /\ \A i \in 1 .. N : d[i] = DirectStep(d[i - 1], routes[i], authority, target)
         /\ DirectRoute(authority, target, routes) = PassResult(target, routes, d[N])
  BY DirectPass
<1>3. PICK t \in [0 .. N -> PassState(SUBSET Nat)] :
         /\ t[0] = [fault |-> "ok", seen |-> {}, winner |-> <<>>]
         /\ \A i \in 1 .. N : t[i] = TypedArithmeticStep(t[i - 1], routes[i], authority, target)
         /\ TypedArithmeticRoute(authority, target, routes) = PassResult(target, routes, t[N])
  BY TypedArithmeticPass
<1> DEFINE P == {i \in 0 .. N : t[i] = d[i]}
<1>4. 0 \in P
  <2>1. 0 \in 0 .. N
    BY <1>1
  <2>2. t[0] = d[0]
    BY <1>2, <1>3
  <2>3. QED
    BY <2>1, <2>2, Zenon
<1>5. ASSUME NEW i \in 1 .. N, i - 1 \in P
      PROVE  i \in P
  <2>1. Len(routes[i].path_prefix) \in Nat /\ Len(routes[i].path_prefix) <= PATH_LIMIT
    <3>1. routes[i].path_prefix \in Seq(Nat)
      BY <1>1, TablesAssumption
    <3>2. i \in DOMAIN routes
      BY <1>1
    <3>3. Len(routes[i].path_prefix) <= PATH_LIMIT
      BY <3>2 DEF WithinLimit
    <3>4. QED
      BY <3>1, <3>3
  <2>2. TypedArithmeticRuleFault(routes[i]) = DirectRuleFault(routes[i])
    BY <2>1, SameRuleFault DEF TypedArithmeticRuleFault, DirectRuleFault
  <2>3. TypedArithmeticStep(t[i - 1], routes[i], authority, target) =
          DirectStep(d[i - 1], routes[i], authority, target)
    BY <1>5, <2>2, Zenon DEF TypedArithmeticStep, DirectStep
  <2>4. i \in 0 .. N
    OBVIOUS
  <2>5. QED
    BY <1>2, <1>3, <2>3, <2>4
<1>6. 0 .. N \subseteq P
  <2> HIDE DEF P, N
  <2>1. QED
    BY <1>1, <1>4, <1>5, Induction
<1>7. t[N] = d[N]
  BY <1>1, <1>6
<1>8. QED
  BY <1>2, <1>3, <1>7, Zenon

\* The states of bounded_match and of direct after n rules.
Mirrors(b, d, n) ==
    /\ b.fault = d.fault
    /\ b.winner = d.winner
    /\ b.fault = "ok" => /\ Stores(b.seen, d.seen)
                         /\ IsFiniteSet(d.seen)
                         /\ Cardinality(d.seen) <= n

LEMMA MirrorStep ==
    ASSUME NEW n \in 1 .. MAX_ROUTES, NEW b \in PassState([Slots -> Nat \cup {FreeSlot}]),
           NEW d \in PassState(SUBSET Nat), Mirrors(b, d, n - 1), NEW rule \in Rules,
           NEW authority, NEW target
    PROVE  Mirrors(BoundedMatchStep(b, rule, authority, target),
                   DirectStep(d, rule, authority, target), n)
<1> DEFINE order == rule.declaration_order
           fault == RuleFault(rule, TRUE)
           into == Insert(b.seen, order)
           put == InsertInSet(d.seen, order)
           b2 == BoundedMatchStep(b, rule, authority, target)
           d2 == DirectStep(d, rule, authority, target)
           can == Eligible(rule, authority, target)
           w(s) == IF can /\ (s.winner = <<>> \/ Precedes(rule, s.winner[1]))
                   THEN <<rule>> ELSE s.winner
<1> SUFFICES Mirrors(b2, d2, n)
  OBVIOUS
<1>1. order \in Nat /\ d.seen \in SUBSET Nat /\ n \in Nat
  BY MatchRouteAssumption, TablesAssumption DEF PassState
<1>2. b2 = PassStep(b, rule, fault, into, can) /\ d2 = PassStep(d, rule, fault, put, can)
  BY DEF BoundedMatchStep, DirectStep, BoundedMatchRuleFault, DirectRuleFault
<1>3. /\ b.fault # "ok" => b2 = b
      /\ b.fault = "ok" /\ fault # "ok" => b2.fault = fault /\ b2.winner = b.winner
      /\ b.fault = "ok" /\ fault = "ok" /\ ~into.fresh =>
            b2.fault = "duplicate_declaration_order" /\ b2.winner = b.winner
      /\ b.fault = "ok" /\ fault = "ok" /\ into.fresh =>
            b2.fault = "ok" /\ b2.seen = into.slots /\ b2.winner = w(b)
  <2> HIDE DEF b2, fault, into, can
  <2>1. QED
    BY <1>2, PassStepCases
<1>4. /\ d.fault # "ok" => d2 = d
      /\ d.fault = "ok" /\ fault # "ok" => d2.fault = fault /\ d2.winner = d.winner
      /\ d.fault = "ok" /\ fault = "ok" /\ ~put.fresh =>
            d2.fault = "duplicate_declaration_order" /\ d2.winner = d.winner
      /\ d.fault = "ok" /\ fault = "ok" /\ put.fresh =>
            d2.fault = "ok" /\ d2.seen = put.slots /\ d2.winner = w(d)
  <2> HIDE DEF d2, fault, put, can
  <2>1. QED
    BY <1>2, PassStepCases
<1>5. put.fresh = (order \notin d.seen) /\ put.slots = d.seen \cup {order}
  BY DEF InsertInSet
<1>6. b.fault = d.fault /\ b.winner = d.winner
  BY DEF Mirrors
<1>7. w(b) = w(d)
  BY <1>6, Zenon
<1> HIDE DEF b2, d2, fault, into, put, can, w, order
<1>8. CASE b.fault # "ok"
  BY <1>3, <1>4, <1>6, <1>8 DEF Mirrors
<1>9. CASE b.fault = "ok" /\ fault # "ok"
  BY <1>3, <1>4, <1>6, <1>9 DEF Mirrors
<1>10. CASE b.fault = "ok" /\ fault = "ok"
  <2>1. /\ Stores(b.seen, d.seen)
        /\ IsFiniteSet(d.seen)
        /\ Cardinality(d.seen) <= n - 1
    BY <1>10 DEF Mirrors
  <2>2. Cardinality(d.seen) \in Nat
    BY <2>1, FS_CardinalityType
  <2>3. Cardinality(d.seen) < MAX_ROUTES
    BY <1>1, <2>1, <2>2, MatchRouteAssumption
  <2>4. \E k \in Slots : b.seen[k] = FreeSlot
    BY <2>1, <2>3, SlotLeft
  <2>5. into.fresh = (order \notin d.seen) /\ Stores(into.slots, d.seen \cup {order})
    BY <1>1, <2>1, <2>4, InsertStores DEF into
  <2>6. CASE order \in d.seen
    BY <1>3, <1>4, <1>5, <1>6, <1>10, <2>5, <2>6 DEF Mirrors
  <2>7. CASE order \notin d.seen
    <3>1. IsFiniteSet(d.seen \cup {order}) /\ Cardinality(d.seen \cup {order}) = Cardinality(d.seen) + 1
      BY <2>1, <2>7, FS_AddElement
    <3>2. Cardinality(d.seen \cup {order}) <= n
      BY <1>1, <2>1, <2>2, <3>1
    <3>3. /\ b2.fault = "ok" /\ b2.seen = into.slots /\ b2.winner = w(b)
          /\ d2.fault = "ok" /\ d2.seen = d.seen \cup {order} /\ d2.winner = w(d)
      BY <1>3, <1>4, <1>5, <1>6, <1>10, <2>5, <2>7
    <3>4. QED
      BY <1>7, <2>5, <3>1, <3>2, <3>3 DEF Mirrors
  <2>8. QED
    BY <2>6, <2>7
<1>11. QED
  BY <1>8, <1>9, <1>10

LEMMA BoundedMatchIsDirect ==
    ASSUME NEW routes \in Seq(Rules), NEW authority, NEW target
    PROVE  BoundedMatchRoute(authority, target, routes) = DirectRoute(authority, target, routes)
<1> DEFINE N == Len(routes)
<1>1. N \in Nat /\ DOMAIN routes = 1 .. N /\ \A i \in 1 .. N : routes[i] \in Rules
  OBVIOUS
<1>2. PICK d \in [0 .. N -> PassState(SUBSET Nat)] :
         /\ d[0] = [fault |-> "ok", seen |-> {}, winner |-> <<>>]
         /\ \A i \in 1 .. N : d[i] = DirectStep(d[i - 1], routes[i], authority, target)
         /\ DirectRoute(authority, target, routes) = PassResult(target, routes, d[N])
  BY DirectPass
<1>3. PICK b \in [0 .. N -> PassState([Slots -> Nat \cup {FreeSlot}])] :
         /\ b[0] = [fault |-> "ok", seen |-> NoSlots, winner |-> <<>>]
         /\ \A i \in 1 .. N : b[i] = BoundedMatchStep(b[i - 1], routes[i], authority, target)
         /\ BoundedMatchRoute(authority, target, routes) = PassResult(target, routes, b[N])
  BY BoundedMatchPass
<1>4. CASE N > MAX_ROUTES
  <2>1. BoundaryFault(target, routes) = "LimitExceeded"
    BY <1>4 DEF BoundaryFault
  <2>2. QED
    BY <1>2, <1>3, <2>1 DEF PassResult
<1>5. CASE ~(N > MAX_ROUTES)
  <2> DEFINE P == {i \in 0 .. N : Mirrors(b[i], d[i], i)}
  <2>1. 0 \in P
    <3>1. Stores(NoSlots, {})
      <4>1. NoSlots \in [Slots -> Nat \cup {FreeSlot}] /\ \A k \in Slots : NoSlots[k] = FreeSlot
        BY DEF Slots, NoSlots
      <4>2. QED
        BY <4>1 DEF Stores
    <3>2. IsFiniteSet({}) /\ Cardinality({}) = 0
      BY FS_EmptySet
    <3>3. Mirrors(b[0], d[0], 0)
      <4>1. b[0].fault = "ok" /\ b[0].seen = NoSlots /\ b[0].winner = <<>>
        BY <1>3
      <4>2. d[0].fault = "ok" /\ d[0].seen = {} /\ d[0].winner = <<>>
        BY <1>2
      <4>3. QED
        BY <3>1, <3>2, <4>1, <4>2 DEF Mirrors
    <3>4. 0 \in 0 .. N
      BY <1>1
    <3>5. QED
      BY <3>3, <3>4, Zenon
  <2>2. ASSUME NEW i \in 1 .. N, i - 1 \in P
        PROVE  i \in P
    <3>1. i \in 1 .. MAX_ROUTES /\ i \in 0 .. N /\ i - 1 \in 0 .. N
      BY <1>1, <1>5, MatchRouteAssumption
    <3>2. /\ b[i - 1] \in PassState([Slots -> Nat \cup {FreeSlot}])
          /\ d[i - 1] \in PassState(SUBSET Nat)
          /\ Mirrors(b[i - 1], d[i - 1], i - 1)
          /\ routes[i] \in Rules
      BY <1>1, <2>2, <3>1
    <3>3. Mirrors(BoundedMatchStep(b[i - 1], routes[i], authority, target),
                  DirectStep(d[i - 1], routes[i], authority, target), i)
      BY <3>1, <3>2, MirrorStep
    <3>4. Mirrors(b[i], d[i], i)
      BY <1>2, <1>3, <3>3
    <3>5. QED
      BY <3>1, <3>4, Zenon
  <2>3. 0 .. N \subseteq P
    <3> HIDE DEF P, N
    <3>1. QED
      BY <1>1, <2>1, <2>2, Induction
  <2>4. b[N].fault = d[N].fault /\ b[N].winner = d[N].winner
    BY <1>1, <2>3 DEF Mirrors
  <2>5. PassResult(target, routes, b[N]) = PassResult(target, routes, d[N])
    BY <2>4, Zenon DEF PassResult
  <2>6. QED
    BY <1>2, <1>3, <2>5
<1>6. QED
  BY <1>4, <1>5

-----------------------------------------------------------------------------
\* What a pass has found out after n rules.

\* The fault at which a pass stops, at rule i.
StopFault(routes, i) ==
    IF RuleFault(routes[i], TRUE) # "ok" THEN RuleFault(routes[i], TRUE)
    ELSE DuplicateFault(routes, i)

FirstStop(routes, n, fault) ==
    \E k \in 1 .. n : /\ StopFault(routes, k) # "ok"
                      /\ fault = StopFault(routes, k)
                      /\ \A j \in 1 .. k - 1 : StopFault(routes, j) = "ok"

Winning(winner, routes, n, authority, target) ==
    \/ winner = <<>> /\ \A k \in 1 .. n : ~Eligible(routes[k], authority, target)
    \/ \E k \in 1 .. n :
          /\ winner = <<routes[k]>>
          /\ Eligible(routes[k], authority, target)
          /\ \A j \in 1 .. n :
                Eligible(routes[j], authority, target) /\ j # k => Precedes(routes[k], routes[j])

Clean(routes, n) == \A k \in 1 .. n : StopFault(routes, k) = "ok"

Passed(s, routes, n, authority, target) ==
    \/ FirstStop(routes, n, s.fault)
    \/ /\ Clean(routes, n)
       /\ s.fault = "ok"
       /\ s.seen = {routes[k].declaration_order : k \in 1 .. n}
       /\ Winning(s.winner, routes, n, authority, target)

\* The order of the rules, for those whose declaration orders differ.
LEMMA PrecedesOrder ==
    ASSUME NEW a \in Rules, NEW b \in Rules, NEW c \in Rules
    PROVE  /\ ~(Precedes(a, b) /\ Precedes(b, a))
           /\ a.declaration_order # b.declaration_order => Precedes(a, b) \/ Precedes(b, a)
           /\ Precedes(a, b) /\ Precedes(b, c) => Precedes(a, c)
<1>1. \A r \in {a, b, c} : r.declaration_order \in Nat /\ Len(r.path_prefix) \in Nat
  <2>1. \A r \in {a, b, c} : r.declaration_order \in Nat /\ r.path_prefix \in Seq(Nat)
    BY TablesAssumption
  <2>2. QED
    BY <2>1
<1>2. QED
  BY <1>1 DEF Precedes

LEMMA WinnerStep ==
    ASSUME NEW routes \in Seq(Rules), NEW n \in 1 .. Len(routes), NEW authority, NEW target,
           NEW winner, Winning(winner, routes, n - 1, authority, target),
           \A k \in 1 .. n - 1 : routes[k].declaration_order # routes[n].declaration_order
    PROVE  Winning(IF Eligible(routes[n], authority, target)
                        /\ (winner = <<>> \/ Precedes(routes[n], winner[1]))
                   THEN <<routes[n]>> ELSE winner, routes, n, authority, target)
<1> DEFINE can(k) == Eligible(routes[k], authority, target)
<1>1. /\ \A k \in 1 .. n : routes[k] \in Rules
      /\ n \in 1 .. n
      /\ \A k \in 1 .. n : k = n \/ k \in 1 .. n - 1
      /\ \A k \in 1 .. n - 1 : k \in 1 .. n /\ k # n
  OBVIOUS
<1> HIDE DEF can
<1>2. /\ \A w : Winning(w, routes, n, authority, target) <=>
            \/ w = <<>> /\ \A k \in 1 .. n : ~can(k)
            \/ \E k \in 1 .. n : /\ w = <<routes[k]>>
                                 /\ can(k)
                                 /\ \A j \in 1 .. n : can(j) /\ j # k => Precedes(routes[k], routes[j])
  BY Zenon DEF Winning, can
<1>3. CASE winner = <<>> /\ \A k \in 1 .. n - 1 : ~can(k)
  <2>1. CASE can(n)
    <3>1. Winning(<<routes[n]>>, routes, n, authority, target)
      BY <1>1, <1>2, <1>3, <2>1
    <3>2. QED
      BY <1>3, <2>1, <3>1, Zenon DEF can
  <2>2. CASE ~can(n)
    <3>1. Winning(winner, routes, n, authority, target)
      BY <1>1, <1>2, <1>3, <2>2
    <3>2. QED
      BY <2>2, <3>1, Zenon DEF can
  <2>3. QED
    BY <2>1, <2>2
<1>4. ASSUME NEW k \in 1 .. n - 1, winner = <<routes[k]>>, can(k),
             \A j \in 1 .. n - 1 : can(j) /\ j # k => Precedes(routes[k], routes[j])
      PROVE  Winning(IF Eligible(routes[n], authority, target)
                          /\ (winner = <<>> \/ Precedes(routes[n], winner[1]))
                     THEN <<routes[n]>> ELSE winner, routes, n, authority, target)
  <2>1. winner # <<>> /\ winner[1] = routes[k]
    BY <1>4
  <2>2. CASE can(n) /\ Precedes(routes[n], routes[k])
    <3>1. \A j \in 1 .. n : can(j) /\ j # n => Precedes(routes[n], routes[j])
      <4> SUFFICES ASSUME NEW j \in 1 .. n, can(j), j # n
                   PROVE  Precedes(routes[n], routes[j])
        OBVIOUS
      <4>1. j = k \/ Precedes(routes[k], routes[j])
        BY <1>1, <1>4
      <4>2. QED
        BY <1>1, <2>2, <4>1, PrecedesOrder
    <3>2. Winning(<<routes[n]>>, routes, n, authority, target)
      BY <1>1, <1>2, <2>2, <3>1
    <3>3. QED
      BY <2>1, <2>2, <3>2, Zenon DEF can
  <2>3. CASE ~(can(n) /\ Precedes(routes[n], routes[k]))
    <3>1. can(n) => Precedes(routes[k], routes[n])
      BY <1>1, <2>3, PrecedesOrder
    <3>2. \A j \in 1 .. n : can(j) /\ j # k => Precedes(routes[k], routes[j])
      BY <1>1, <1>4, <3>1
    <3>3. Winning(winner, routes, n, authority, target)
      BY <1>1, <1>2, <1>4, <3>2
    <3>4. QED
      BY <2>1, <2>3, <3>3, Zenon DEF can
  <2>4. QED
    BY <2>2, <2>3
<1>5. QED
  BY <1>3, <1>4, Zenon DEF Winning, can

LEMMA DirectFinds ==
    ASSUME NEW routes \in Seq(Rules), NEW authority, NEW target
    PROVE  \E end : /\ Passed(end, routes, Len(routes), authority, target)
                    /\ DirectRoute(authority, target, routes) = PassResult(target, routes, end)
<1> DEFINE N == Len(routes)
<1>1. N \in Nat /\ DOMAIN routes = 1 .. N /\ \A i \in 1 .. N : routes[i] \in Rules
  OBVIOUS
<1>2. PICK d \in [0 .. N -> PassState(SUBSET Nat)] :
         /\ d[0] = [fault |-> "ok", seen |-> {}, winner |-> <<>>]
         /\ \A i \in 1 .. N : d[i] = DirectStep(d[i - 1], routes[i], authority, target)
         /\ DirectRoute(authority, target, routes) = PassResult(target, routes, d[N])
  BY DirectPass
<1> DEFINE P == {i \in 0 .. N : Passed(d[i], routes, i, authority, target)}
<1>3. 0 \in P
  <2>1. 1 .. 0 = {} /\ 0 \in 0 .. N
    BY <1>1
  <2>2. d[0].fault = "ok" /\ d[0].seen = {} /\ d[0].winner = <<>>
    BY <1>2
  <2>3. {routes[k].declaration_order : k \in 1 .. 0} = {}
    BY <2>1
  <2>4. Winning(d[0].winner, routes, 0, authority, target) /\ Clean(routes, 0)
    BY <2>1, <2>2 DEF Winning, Clean
  <2>5. Passed(d[0], routes, 0, authority, target)
    BY <2>2, <2>3, <2>4 DEF Passed
  <2>6. QED
    BY <2>1, <2>5, Zenon
<1>4. ASSUME NEW i \in 1 .. N, i - 1 \in P
      PROVE  i \in P
  <2> DEFINE s == d[i - 1]
             next == d[i]
             fault == RuleFault(routes[i], TRUE)
             put == InsertInSet(s.seen, routes[i].declaration_order)
             can == Eligible(routes[i], authority, target)
             w == IF can /\ (s.winner = <<>> \/ Precedes(routes[i], s.winner[1]))
                  THEN <<routes[i]>> ELSE s.winner
  <2>1. i \in 0 .. N /\ i - 1 \in 0 .. N /\ i \in 1 .. i /\ 1 .. i = (1 .. i - 1) \cup {i}
    BY <1>1
  <2>2. s \in PassState(SUBSET Nat) /\ Passed(s, routes, i - 1, authority, target)
    BY <1>4, <2>1
  <2>3. next = PassStep(s, routes[i], fault, put, can)
    BY <1>2 DEF DirectStep, DirectRuleFault
  <2>4. put.fresh = (routes[i].declaration_order \notin s.seen)
        /\ put.slots = s.seen \cup {routes[i].declaration_order}
    BY DEF InsertInSet
  <2>5. /\ s.fault # "ok" => next = s
        /\ s.fault = "ok" /\ fault # "ok" => next.fault = fault
        /\ s.fault = "ok" /\ fault = "ok" /\ ~put.fresh => next.fault = "duplicate_declaration_order"
        /\ s.fault = "ok" /\ fault = "ok" /\ put.fresh =>
              next.fault = "ok" /\ next.seen = put.slots /\ next.winner = w
    <3> HIDE DEF s, next, fault, put, can
    <3>1. QED
      BY <2>2, <2>3, PassStepCases
  <2>6. Passed(next, routes, i, authority, target)
    <3> HIDE DEF s, next, fault, put, can, w
    <3>1. CASE FirstStop(routes, i - 1, s.fault)
      <4>1. s.fault # "ok" /\ FirstStop(routes, i, s.fault)
        BY <2>1, <3>1 DEF FirstStop
      <4>2. QED
        BY <2>5, <4>1 DEF Passed
    <3>2. CASE /\ Clean(routes, i - 1)
               /\ s.fault = "ok"
               /\ s.seen = {routes[k].declaration_order : k \in 1 .. i - 1}
               /\ Winning(s.winner, routes, i - 1, authority, target)
      <4>1. ASSUME StopFault(routes, i) # "ok", next.fault = StopFault(routes, i)
            PROVE  Passed(next, routes, i, authority, target)
        BY <2>1, <3>2, <4>1 DEF Passed, FirstStop, Clean
      <4>2. CASE fault # "ok"
        <5>1. StopFault(routes, i) = fault
          BY <4>2 DEF StopFault, fault
        <5>2. QED
          BY <2>5, <3>2, <4>1, <4>2, <5>1
      <4>3. CASE fault = "ok"
        <5>1. StopFault(routes, i) = DuplicateFault(routes, i)
          BY <4>3 DEF StopFault, fault
        <5>2. DuplicateFault(routes, i) = IF routes[i].declaration_order \in s.seen
                                          THEN "duplicate_declaration_order" ELSE "ok"
          BY <3>2 DEF DuplicateFault
        <5>3. CASE routes[i].declaration_order \in s.seen
          <6>1. next.fault = "duplicate_declaration_order"
            BY <2>4, <2>5, <3>2, <4>3, <5>3
          <6>2. QED
            BY <4>1, <5>1, <5>2, <5>3, <6>1
        <5>4. CASE routes[i].declaration_order \notin s.seen
          <6>1. next.fault = "ok" /\ next.seen = put.slots /\ next.winner = w
            BY <2>4, <2>5, <3>2, <4>3, <5>4
          <6>2. Clean(routes, i)
            BY <2>1, <3>2, <5>1, <5>2, <5>4 DEF Clean
          <6>3. next.seen = {routes[k].declaration_order : k \in 1 .. i}
            BY <2>1, <2>4, <3>2, <6>1
          <6>4. \A k \in 1 .. i - 1 : routes[k].declaration_order # routes[i].declaration_order
            BY <3>2, <5>4
          <6>5. Winning(w, routes, i, authority, target)
            BY <3>2, <6>4, WinnerStep DEF w, can
          <6>6. QED
            BY <6>1, <6>2, <6>3, <6>5 DEF Passed
        <5>5. QED
          BY <5>3, <5>4
      <4>4. QED
        BY <4>2, <4>3
    <3>3. QED
      BY <2>2, <3>1, <3>2 DEF Passed
  <2>7. QED
    BY <2>1, <2>6, Zenon
<1>5. 0 .. N \subseteq P
  <2> HIDE DEF P, N
  <2>1. QED
    BY <1>1, <1>3, <1>4, Induction
<1>6. Passed(d[N], routes, N, authority, target)
  BY <1>1, <1>5
<1>7. QED
  BY <1>2, <1>6

\* The result of a table without a fault.
Answer(winner) == IF winner = <<>> THEN Refused("NoRoute") ELSE Matched(winner[1])

LEMMA GreatestAnswers ==
    ASSUME NEW routes \in Seq(Rules), NEW authority, NEW target, NEW winner,
           Winning(winner, routes, Len(routes), authority, target)
    PROVE  Greatest(authority, target, routes) = Answer(winner)
<1> DEFINE N == Len(routes)
           can(rule) == Eligible(rule, authority, target)
           eligible == {rule \in ToSet(routes) : can(rule)}
<1>1. N \in Nat /\ DOMAIN routes = 1 .. N /\ \A i \in 1 .. N : routes[i] \in Rules
  OBVIOUS
<1>2. /\ \A i \in 1 .. N : can(routes[i]) => routes[i] \in eligible
      /\ \A rule \in eligible : can(rule) /\ \E i \in 1 .. N : rule = routes[i]
  BY <1>1 DEF ToSet
<1>3. Greatest(authority, target, routes) =
        IF eligible = {} THEN Refused("NoRoute")
        ELSE Matched(CHOOSE rule \in eligible : \A other \in eligible \ {rule} : Precedes(rule, other))
  BY Zenon DEF Greatest
<1> HIDE DEF eligible
<1>4. CASE winner = <<>> /\ \A k \in 1 .. N : ~can(routes[k])
  <2>1. eligible = {}
    BY <1>2, <1>4
  <2>2. QED
    BY <1>3, <1>4, <2>1 DEF Answer
<1>5. ASSUME NEW k \in 1 .. N, winner = <<routes[k]>>, can(routes[k]),
             \A j \in 1 .. N : can(routes[j]) /\ j # k => Precedes(routes[k], routes[j])
      PROVE  Greatest(authority, target, routes) = Answer(winner)
  <2> DEFINE top == routes[k]
  <2>1. top \in eligible /\ top \in Rules
    BY <1>1, <1>2, <1>5
  <2>2. \A other \in eligible \ {top} : Precedes(top, other)
    BY <1>2, <1>5
  <2>3. ASSUME NEW rule \in eligible, \A other \in eligible \ {rule} : Precedes(rule, other)
        PROVE  rule = top
    <3>1. SUFFICES ASSUME rule # top PROVE FALSE
      OBVIOUS
    <3>2. rule \in Rules
      BY <1>1, <1>2
    <3> HIDE DEF top
    <3>3. Precedes(rule, top) /\ Precedes(top, rule)
      BY <2>1, <2>2, <2>3, <3>1
    <3>4. QED
      BY <2>1, <3>2, <3>3, PrecedesOrder
  <2> HIDE DEF top
  <2>4. (CHOOSE rule \in eligible : \A other \in eligible \ {rule} : Precedes(rule, other)) = top
    <3> DEFINE Top(rule) == rule \in eligible /\ \A other \in eligible \ {rule} : Precedes(rule, other)
    <3>1. Top(top) /\ \A rule : Top(rule) => rule = top
      BY <2>1, <2>2, <2>3
    <3> HIDE DEF Top
    <3>2. (CHOOSE rule : Top(rule)) = top
      BY <3>1
    <3>3. QED
      BY <3>2, Zenon DEF Top
  <2>5. eligible # {}
    BY <2>1
  <2>6. Greatest(authority, target, routes) = Matched(top)
    BY <1>3, <2>4, <2>5, Zenon
  <2>7. winner # <<>> /\ winner[1] = top
    BY <1>5 DEF top
  <2>8. QED
    BY <2>6, <2>7, Zenon DEF Answer
<1>6. QED
  BY <1>4, <1>5, Zenon DEF Winning

\* immutable_table stops where the passes stop.
LEMMA ImmutableTableIsDirect ==
    ASSUME NEW routes \in Seq(Rules), WithinLimit(routes), NEW authority, NEW target
    PROVE  ImmutableTableRoute(authority, target, routes) = DirectRoute(authority, target, routes)
<1> DEFINE N == Len(routes)
           validate(rules, i) ==
               IF ImmutableTableRuleFault(rules[i]) # "ok" THEN ImmutableTableRuleFault(rules[i])
               ELSE DuplicateFault(rules, i)
           faulty == {i \in DOMAIN routes : validate(routes, i) # "ok"}
           fault == IF faulty = {} THEN "ok" ELSE validate(routes, Min(faulty))
<1>1. N \in Nat /\ DOMAIN routes = 1 .. N /\ \A i \in 1 .. N : routes[i] \in Rules
  OBVIOUS
<1>2. ImmutableTableRoute(authority, target, routes) =
        IF BoundaryFault(target, routes) # "ok" THEN Refused(BoundaryFault(target, routes))
        ELSE IF fault # "ok" THEN Refused(fault) ELSE Greatest(authority, target, routes)
  BY Zenon DEF ImmutableTableRoute, FirstFault
<1>3. \A i \in 1 .. N : validate(routes, i) = StopFault(routes, i)
  <2> TAKE i \in 1 .. N
  <2>1. routes[i].path_prefix \in Seq(Nat)
    BY <1>1, TablesAssumption
  <2>2. Len(routes[i].path_prefix) <= PATH_LIMIT
    BY <1>1 DEF WithinLimit
  <2>3. ImmutableTableRuleFault(routes[i]) = RuleFault(routes[i], TRUE)
    <3>1. Len(routes[i].path_prefix) \in Nat
      BY <2>1
    <3>2. QED
      BY <2>2, <3>1, SameRuleFault DEF ImmutableTableRuleFault
  <2>4. QED
    BY <2>3, Zenon DEF StopFault
<1>4. PICK end : /\ Passed(end, routes, N, authority, target)
                 /\ DirectRoute(authority, target, routes) = PassResult(target, routes, end)
  BY DirectFinds
<1> HIDE DEF validate
<1>5. faulty = {i \in 1 .. N : StopFault(routes, i) # "ok"}
  BY <1>1, <1>3
<1>6. CASE FirstStop(routes, N, end.fault)
  <2>1. PICK k \in 1 .. N : /\ StopFault(routes, k) # "ok"
                            /\ end.fault = StopFault(routes, k)
                            /\ \A j \in 1 .. k - 1 : StopFault(routes, j) = "ok"
    BY <1>6 DEF FirstStop
  <2>2. k \in faulty /\ faulty \in SUBSET Nat
    BY <1>5, <2>1
  <2>3. \A j \in faulty : k <= j
    BY <1>5, <2>1
  <2>4. Min(faulty) \in faulty /\ \A y \in faulty : Min(faulty) <= y
    <3> HIDE DEF faulty
    <3>1. QED
      BY <2>2, SmallestOf
  <2>5. Min(faulty) = k
    <3> HIDE DEF faulty
    <3>1. PICK m \in Nat : m = Min(faulty) /\ m <= k /\ k <= m
      BY <2>2, <2>3, <2>4
    <3>2. QED
      BY <3>1
  <2>6. fault = end.fault /\ fault # "ok"
    <3> HIDE DEF faulty
    <3>1. fault = validate(routes, k)
      BY <2>2, <2>5
    <3>2. QED
      BY <1>3, <2>1, <3>1
  <2> HIDE DEF fault
  <2>7. QED
    BY <1>2, <1>4, <2>6, Zenon DEF PassResult
<1>7. CASE /\ Clean(routes, N)
           /\ end.fault = "ok"
           /\ Winning(end.winner, routes, N, authority, target)
  <2>1. faulty = {}
    BY <1>5, <1>7 DEF Clean
  <2>2. fault = "ok"
    BY <2>1, Zenon
  <2>3. Greatest(authority, target, routes) = Answer(end.winner)
    BY <1>7, GreatestAnswers
  <2> HIDE DEF fault
  <2>4. QED
    BY <1>2, <1>4, <1>7, <2>2, <2>3, Zenon DEF PassResult, Answer
<1>8. QED
  BY <1>4, <1>6, <1>7 DEF Passed

\* What DuplicateFault finds is what DistinctOrders rules out.
LEMMA DuplicatesFound ==
    ASSUME NEW routes \in Seq(Rules)
    PROVE  /\ \A i : DuplicateFault(routes, i) \in {"ok", "duplicate_declaration_order"}
           /\ DistinctOrders(routes) <=> \A i \in 1 .. Len(routes) : DuplicateFault(routes, i) = "ok"
<1>1. Len(routes) \in Nat /\ DOMAIN routes = 1 .. Len(routes)
  OBVIOUS
<1>2. \A i : DuplicateFault(routes, i) \in {"ok", "duplicate_declaration_order"}
  BY DEF DuplicateFault
<1>3. ASSUME DistinctOrders(routes), NEW i \in 1 .. Len(routes)
      PROVE  DuplicateFault(routes, i) = "ok"
  <2>1. \A j \in 1 .. i - 1 : j \in DOMAIN routes /\ j # i
    BY <1>1
  <2>2. i \in DOMAIN routes
    BY <1>1
  <2>3. ~\E j \in 1 .. i - 1 : routes[j].declaration_order = routes[i].declaration_order
    BY <1>3, <2>1, <2>2, Zenon DEF DistinctOrders
  <2>4. QED
    BY <2>3, Zenon DEF DuplicateFault
<1>4. ASSUME \A i \in 1 .. Len(routes) : DuplicateFault(routes, i) = "ok",
             NEW i \in 1 .. Len(routes), NEW j \in 1 .. Len(routes), i # j
      PROVE  routes[i].declaration_order # routes[j].declaration_order
  <2>1. ASSUME NEW k \in 1 .. Len(routes), NEW l \in 1 .. Len(routes), l < k
        PROVE  routes[l].declaration_order # routes[k].declaration_order
    <3>1. DuplicateFault(routes, k) # "duplicate_declaration_order"
      BY <1>4
    <3>2. l \in 1 .. k - 1
      BY <2>1
    <3>3. QED
      BY <3>1, <3>2, Zenon DEF DuplicateFault
  <2>2. i < j \/ j < i
    BY <1>4
  <2>3. QED
    BY <2>1, <2>2
<1>5. QED
  BY <1>1, <1>2, <1>3, <1>4 DEF DistinctOrders

\* The two passes of rule_pipeline.
LEMMA RulePipelineAnswers ==
    ASSUME NEW routes \in Seq(Rules), NEW authority, NEW target,
           BoundaryFault(target, routes) = "ok"
    PROVE  /\ Clean(routes, Len(routes)) =>
                 RulePipelineRoute(authority, target, routes) = Greatest(authority, target, routes)
           /\ ~Clean(routes, Len(routes)) =>
                 \E fault \in (RuleFaults \ {"ok"}) \cup {"duplicate_declaration_order"} :
                    RulePipelineRoute(authority, target, routes) = Refused(fault)
           /\ DistinctOrders(routes) =>
                 \A fault : FirstStop(routes, Len(routes), fault) =>
                    RulePipelineRoute(authority, target, routes) = Refused(fault)
<1> DEFINE N == Len(routes)
           check(rules, i) == RulePipelineRuleFault(rules[i])
           faulty == {i \in DOMAIN routes : check(routes, i) # "ok"}
           twice == {i \in DOMAIN routes : DuplicateFault(routes, i) # "ok"}
           fault == IF faulty = {} THEN "ok" ELSE check(routes, Min(faulty))
           repeated == IF twice = {} THEN "ok" ELSE DuplicateFault(routes, Min(twice))
<1>1. N \in Nat /\ DOMAIN routes = 1 .. N /\ \A i \in 1 .. N : routes[i] \in Rules
  OBVIOUS
<1>2. RulePipelineRoute(authority, target, routes) =
        IF fault # "ok" THEN Refused(fault)
        ELSE IF repeated # "ok" THEN Refused(repeated) ELSE Greatest(authority, target, routes)
  BY Zenon DEF RulePipelineRoute, FirstFault
<1>3. \A i : check(routes, i) = RuleFault(routes[i], TRUE) /\ check(routes, i) \in RuleFaults
  BY RuleFaultType DEF RulePipelineRuleFault
<1> HIDE DEF check
<1>4. /\ faulty \in SUBSET Nat /\ twice \in SUBSET Nat
      /\ faulty = {i \in 1 .. N : RuleFault(routes[i], TRUE) # "ok"}
      /\ twice = {i \in 1 .. N : DuplicateFault(routes, i) # "ok"}
  <2>1. /\ faulty = {i \in 1 .. N : RuleFault(routes[i], TRUE) # "ok"}
        /\ twice = {i \in 1 .. N : DuplicateFault(routes, i) # "ok"}
    <3>1. \A i : i \in faulty <=> i \in 1 .. N /\ RuleFault(routes[i], TRUE) # "ok"
      BY <1>1, <1>3
    <3>2. \A i : i \in twice <=> i \in 1 .. N /\ DuplicateFault(routes, i) # "ok"
      BY <1>1
    <3> HIDE DEF faulty, twice
    <3>3. QED
      BY <3>1, <3>2
  <2>2. 1 .. N \subseteq Nat
    OBVIOUS
  <2> HIDE DEF faulty, twice
  <2>3. faulty \in SUBSET Nat /\ twice \in SUBSET Nat
    BY <2>1, <2>2
  <2>4. QED
    BY <2>1, <2>3
<1> HIDE DEF faulty, twice
<1>5. /\ faulty # {} => Min(faulty) \in faulty /\ \A y \in faulty : Min(faulty) <= y
      /\ twice # {} => Min(twice) \in twice
  BY <1>4, SmallestOf
<1>6. /\ faulty = {} => fault = "ok"
      /\ faulty # {} => fault = check(routes, Min(faulty)) /\ fault \in RuleFaults /\ fault # "ok"
  BY <1>3, <1>4, <1>5
<1>7. /\ twice = {} => repeated = "ok"
      /\ twice # {} => repeated = "duplicate_declaration_order"
  BY <1>4, <1>5, DuplicatesFound
<1> HIDE DEF fault, repeated
<1>8. Clean(routes, N) <=> faulty = {} /\ twice = {}
  BY <1>4 DEF Clean, StopFault
<1>9. Clean(routes, N) =>
        RulePipelineRoute(authority, target, routes) = Greatest(authority, target, routes)
  BY <1>2, <1>6, <1>7, <1>8
<1>10. ASSUME ~Clean(routes, N)
       PROVE  \E f \in (RuleFaults \ {"ok"}) \cup {"duplicate_declaration_order"} :
                 RulePipelineRoute(authority, target, routes) = Refused(f)
  <2>1. CASE faulty # {}
    BY <1>2, <1>6, <2>1
  <2>2. CASE faulty = {} /\ twice # {}
    BY <1>2, <1>6, <1>7, <2>2
  <2>3. QED
    BY <1>8, <1>10, <2>1, <2>2
<1>11. ASSUME DistinctOrders(routes), NEW f, FirstStop(routes, N, f)
       PROVE  RulePipelineRoute(authority, target, routes) = Refused(f)
  <2>1. PICK k \in 1 .. N : /\ StopFault(routes, k) # "ok"
                            /\ f = StopFault(routes, k)
                            /\ \A j \in 1 .. k - 1 : StopFault(routes, j) = "ok"
    BY <1>11 DEF FirstStop
  <2>2. \A i \in 1 .. N : StopFault(routes, i) = RuleFault(routes[i], TRUE)
    <3>1. \A i \in 1 .. N : DuplicateFault(routes, i) = "ok"
      BY <1>11, DuplicatesFound
    <3>2. QED
      BY <3>1 DEF StopFault
  <2>3. k \in faulty /\ k \in Nat
    BY <1>4, <2>1, <2>2
  <2>4. \A j \in faulty : k <= j
    <3> SUFFICES ASSUME NEW j \in faulty, ~(k <= j)
                 PROVE  FALSE
      OBVIOUS
    <3>1. j \in 1 .. N /\ StopFault(routes, j) # "ok"
      BY <1>4, <2>2
    <3>2. j \in 1 .. k - 1
      BY <3>1
    <3>3. QED
      BY <2>1, <3>1, <3>2
  <2>5. Min(faulty) = k
    <3>1. PICK m \in Nat : m = Min(faulty) /\ m <= k /\ k <= m
      BY <1>4, <1>5, <2>3, <2>4
    <3>2. QED
      BY <2>3, <3>1
  <2>6. fault = f /\ fault # "ok"
    BY <1>3, <1>6, <2>1, <2>2, <2>3, <2>5
  <2>7. QED
    BY <1>2, <2>6
<1>12. QED
  BY <1>9, <1>10, <1>11

LEMMA WinnerIsChoice ==
    ASSUME NEW routes \in Seq(Rules), NEW authority, NEW target, NEW winner,
           Winning(winner, routes, Len(routes), authority, target)
    PROVE  IsRouteChoice(Answer(winner), authority, target, routes)
<1> DEFINE N == Len(routes)
           eligible == {i \in DOMAIN routes : Eligible(routes[i], authority, target)}
<1>1. DOMAIN routes = 1 .. N /\ \A i \in 1 .. N : routes[i] \in Rules
  OBVIOUS
<1>2. \A i : i \in eligible <=> i \in 1 .. N /\ Eligible(routes[i], authority, target)
  BY <1>1
<1>3. IsRouteChoice(Answer(winner), authority, target, routes) =
        IF eligible = {} THEN Answer(winner) = Refused("NoRoute")
        ELSE \E i \in eligible :
                /\ Answer(winner) = Matched(routes[i])
                /\ \A j \in eligible :
                      /\ Len(routes[j].path_prefix) <= Len(routes[i].path_prefix)
                      /\ Len(routes[j].path_prefix) = Len(routes[i].path_prefix) =>
                            routes[i].declaration_order <= routes[j].declaration_order
  BY Zenon DEF IsRouteChoice
<1> HIDE DEF eligible
<1>4. CASE winner = <<>> /\ \A k \in 1 .. N : ~Eligible(routes[k], authority, target)
  <2>1. eligible = {} /\ Answer(winner) = Refused("NoRoute")
    BY <1>2, <1>4 DEF Answer
  <2>2. QED
    BY <1>3, <2>1, Zenon
<1>5. ASSUME NEW k \in 1 .. N, winner = <<routes[k]>>, Eligible(routes[k], authority, target),
             \A j \in 1 .. N : Eligible(routes[j], authority, target) /\ j # k =>
                                  Precedes(routes[k], routes[j])
      PROVE  IsRouteChoice(Answer(winner), authority, target, routes)
  <2>1. k \in eligible /\ eligible # {}
    BY <1>2, <1>5
  <2>2. winner # <<>> /\ winner[1] = routes[k]
    BY <1>5
  <2>3. Answer(winner) = Matched(routes[k])
    BY <2>2, Zenon DEF Answer
  <2>4. ASSUME NEW j \in eligible
        PROVE  /\ Len(routes[j].path_prefix) <= Len(routes[k].path_prefix)
               /\ Len(routes[j].path_prefix) = Len(routes[k].path_prefix) =>
                     routes[k].declaration_order <= routes[j].declaration_order
    <3>1. j \in 1 .. N /\ (j = k \/ Precedes(routes[k], routes[j]))
      BY <1>2, <1>5
    <3>2. /\ routes[j].path_prefix \in Seq(Nat) /\ routes[j].declaration_order \in Nat
          /\ routes[k].path_prefix \in Seq(Nat) /\ routes[k].declaration_order \in Nat
      BY <1>1, <3>1, TablesAssumption
    <3>3. Len(routes[j].path_prefix) \in Nat /\ Len(routes[k].path_prefix) \in Nat
      BY <3>2
    <3>4. CASE j = k
      BY <3>2, <3>3, <3>4
    <3>5. CASE Precedes(routes[k], routes[j])
      BY <3>2, <3>3, <3>5 DEF Precedes
    <3>6. QED
      BY <3>1, <3>4, <3>5
  <2>5. QED
    BY <1>3, <2>1, <2>3, <2>4, Zenon
<1>6. QED
  BY <1>4, <1>5, Zenon DEF Winning

\* A refusal for its table: no route, and no lack of one.
Refusal(match) == \E reason : match = Refused(reason) /\ reason \notin {"match", "NoRoute"}

LEMMA RefusalTag ==
    ASSUME NEW match, Refusal(match)
    PROVE  match.tag \notin {"match", "NoRoute"}
<1>1. PICK reason : match = Refused(reason) /\ reason \notin {"match", "NoRoute"}
  BY DEF Refusal
<1>2. match.tag = reason
  BY <1>1 DEF Refused
<1>3. QED
  BY <1>1, <1>2

\* What the variants return, direct for the four that stop alike.
LEMMA TwoAnswers ==
    ASSUME NEW routes \in Seq(Rules), NEW authority, NEW target
    PROVE  LET direct == DirectRoute(authority, target, routes)
               pipeline == RulePipelineRoute(authority, target, routes)
           IN  /\ ValidTable(target, routes) =>
                     /\ IsRouteChoice(direct, authority, target, routes)
                     /\ pipeline = direct
               /\ ~ValidTable(target, routes) => Refusal(direct) /\ Refusal(pipeline)
               /\ DistinctOrders(routes) => pipeline = direct
<1> DEFINE N == Len(routes)
           direct == DirectRoute(authority, target, routes)
           pipeline == RulePipelineRoute(authority, target, routes)
           boundary == BoundaryFault(target, routes)
<1>1. PICK end : Passed(end, routes, N, authority, target) /\ direct = PassResult(target, routes, end)
  BY DirectFinds
<1>2. DOMAIN routes = 1 .. N
  OBVIOUS
<1>3. ValidTable(target, routes) <=> boundary = "ok" /\ Clean(routes, N)
  <2>1. DistinctOrders(routes) <=> \A i \in 1 .. N : DuplicateFault(routes, i) = "ok"
    BY DuplicatesFound
  <2>2. QED
    BY <1>2, <2>1 DEF ValidTable, Clean, StopFault
<1>4. CASE boundary # "ok"
  <2>1. boundary \in {"LimitExceeded", "invalid_target"}
    BY <1>4 DEF BoundaryFault
  <2>2. direct = Refused(boundary)
    BY <1>1, <1>4, Zenon DEF PassResult
  <2>3. pipeline = Refused(boundary)
    BY <1>4, Zenon DEF RulePipelineRoute
  <2> HIDE DEF boundary, direct, pipeline
  <2>4. Refusal(direct) /\ Refusal(pipeline)
    BY <2>1, <2>2, <2>3 DEF Refusal
  <2>5. ~ValidTable(target, routes) /\ pipeline = direct
    BY <1>3, <1>4, <2>2, <2>3
  <2>6. QED
    BY <2>4, <2>5, Zenon DEF direct, pipeline
<1>5. CASE boundary = "ok" /\ FirstStop(routes, N, end.fault)
  <2>1. ~Clean(routes, N) /\ end.fault # "ok"
    BY <1>5 DEF FirstStop, Clean
  <2>2. direct = Refused(end.fault)
    BY <1>1, <1>5, <2>1, Zenon DEF PassResult
  <2>3. end.fault \in (RuleFaults \ {"ok"}) \cup {"duplicate_declaration_order"}
    <3>1. PICK k \in 1 .. N : end.fault = StopFault(routes, k)
      BY <1>5 DEF FirstStop
    <3>2. StopFault(routes, k) \in RuleFaults \cup {"duplicate_declaration_order"}
      <4>1. RuleFault(routes[k], TRUE) \in RuleFaults
        BY RuleFaultType
      <4>2. DuplicateFault(routes, k) \in {"ok", "duplicate_declaration_order"}
        BY DuplicatesFound
      <4>3. "ok" \in RuleFaults
        BY DEF RuleFaults
      <4>4. QED
        BY <4>1, <4>2, <4>3 DEF StopFault
    <3>3. QED
      BY <2>1, <3>1, <3>2
  <2>4. PICK fault \in (RuleFaults \ {"ok"}) \cup {"duplicate_declaration_order"} :
           pipeline = Refused(fault)
    BY <1>5, <2>1, RulePipelineAnswers
  <2>5. DistinctOrders(routes) => pipeline = Refused(end.fault)
    BY <1>5, RulePipelineAnswers
  <2> HIDE DEF direct, pipeline, boundary
  <2>6. Refusal(direct) /\ Refusal(pipeline)
    <3>1. \A f \in (RuleFaults \ {"ok"}) \cup {"duplicate_declaration_order"} : f \notin {"match", "NoRoute"}
      BY DEF RuleFaults
    <3>2. QED
      BY <2>2, <2>3, <2>4, <3>1, Zenon DEF Refusal
  <2>7. ~ValidTable(target, routes) /\ (DistinctOrders(routes) => pipeline = direct)
    BY <1>3, <2>1, <2>2, <2>5
  <2>8. QED
    BY <2>6, <2>7, Zenon DEF direct, pipeline
<1>6. CASE /\ boundary = "ok"
           /\ Clean(routes, N)
           /\ end.fault = "ok"
           /\ Winning(end.winner, routes, N, authority, target)
  <2>1. direct = Answer(end.winner)
    BY <1>1, <1>6, Zenon DEF PassResult, Answer
  <2>2. pipeline = Greatest(authority, target, routes)
    BY <1>6, RulePipelineAnswers
  <2>3. Greatest(authority, target, routes) = Answer(end.winner)
    BY <1>6, GreatestAnswers
  <2>4. IsRouteChoice(Answer(end.winner), authority, target, routes)
    BY <1>6, WinnerIsChoice
  <2>5. ValidTable(target, routes)
    BY <1>3, <1>6
  <2>6. pipeline = direct
    BY <2>1, <2>2, <2>3
  <2>7. IsRouteChoice(direct, authority, target, routes)
    BY <2>1, <2>4, Zenon
  <2> HIDE DEF direct, pipeline, boundary
  <2>8. QED
    BY <2>5, <2>6, <2>7, Zenon DEF direct, pipeline
<1>7. QED
  <2> HIDE DEF direct, pipeline
  <2>1. boundary # "ok" \/ FirstStop(routes, N, end.fault)
        \/ (/\ Clean(routes, N)
            /\ end.fault = "ok"
            /\ Winning(end.winner, routes, N, authority, target))
    BY <1>1 DEF Passed
  <2>2. QED
    BY <1>4, <1>5, <1>6, <2>1, Zenon

\* The five variants of match_route answer a table of any length, of any rules
\* whose prefixes are within the limit, alike: the longest matching prefix and
\* the lowest order when the table is valid, a refusal when it is not, and the
\* same one unless orders are repeated.
THEOREM MatchRouteVariants ==
    ASSUME NEW routes \in Seq(Rules), WithinLimit(routes), NEW authority, NEW target,
           NEW matches, matches = Range(MatchRoutes(authority, target, routes))
    PROVE  /\ \A match \in matches :
                 IF ValidTable(target, routes)
                 THEN IsRouteChoice(match, authority, target, routes)
                 ELSE match.tag \notin {"match", "NoRoute"}
           /\ DistinctOrders(routes) => Cardinality(matches) = 1
<1> DEFINE direct == DirectRoute(authority, target, routes)
           bounded == BoundedMatchRoute(authority, target, routes)
           typed == TypedArithmeticRoute(authority, target, routes)
           immutable == ImmutableTableRoute(authority, target, routes)
           pipeline == RulePipelineRoute(authority, target, routes)
<1>1. bounded = direct /\ typed = direct /\ immutable = direct
  BY BoundedMatchIsDirect, TypedArithmeticIsDirect, ImmutableTableIsDirect
<1>2. /\ ValidTable(target, routes) =>
            IsRouteChoice(direct, authority, target, routes) /\ pipeline = direct
      /\ ~ValidTable(target, routes) => Refusal(direct) /\ Refusal(pipeline)
      /\ DistinctOrders(routes) => pipeline = direct
  BY TwoAnswers
<1>3. MatchRoutes(authority, target, routes) =
        [direct |-> direct, bounded_match |-> bounded, typed_arithmetic |-> typed,
         immutable_table |-> immutable, rule_pipeline |-> pipeline]
  BY DEF MatchRoutes
<1> HIDE DEF direct, bounded, typed, immutable, pipeline
<1>4. matches = {direct, bounded, typed, immutable, pipeline}
  BY <1>3 DEF Range
<1>5. matches = {direct, pipeline}
  BY <1>1, <1>4
<1>6. ASSUME NEW match \in matches
      PROVE  IF ValidTable(target, routes)
             THEN IsRouteChoice(match, authority, target, routes)
             ELSE match.tag \notin {"match", "NoRoute"}
  <2>1. match = direct \/ match = pipeline
    BY <1>5
  <2>2. CASE ValidTable(target, routes)
    <3>1. match = direct
      BY <1>2, <2>1, <2>2
    <3>2. QED
      BY <1>2, <2>2, <3>1, Zenon
  <2>3. CASE ~ValidTable(target, routes)
    <3>1. Refusal(match)
      BY <1>2, <2>1, <2>3
    <3>2. match.tag \notin {"match", "NoRoute"}
      BY <3>1, RefusalTag
    <3>3. QED
      BY <2>3, <3>2
  <2>4. QED
    BY <2>2, <2>3
<1>7. ASSUME DistinctOrders(routes)
      PROVE  Cardinality(matches) = 1
  <2>1. matches = {direct}
    BY <1>2, <1>5, <1>7
  <2>2. QED
    BY <2>1, FS_Singleton
<1>8. QED
  BY <1>6, <1>7

-----------------------------------------------------------------------------
\* The two checks of a forwarding value, a scan and a split, are one.

ScanStates == {"invalid", "empty", "content"}

ScanStep(state, symbol) ==
    CASE state = "invalid" \/ symbol = Bad -> "invalid"
      [] state # "invalid" /\ symbol = Comma -> IF state = "content" THEN "empty" ELSE "invalid"
      [] state # "invalid" /\ symbol = Blank -> state
      [] OTHER -> "content"

ScanVerdict(value, end) ==
    CASE Len(value) > VALUE_LIMIT -> OverLimit(Len(value))
      [] Len(value) <= VALUE_LIMIT /\ end = "content" -> Collected(<<value>>)
      [] OTHER -> InvalidForwardingInput

LEMMA ScanFold ==
    ASSUME NEW value \in Seq(STRING)
    PROVE  \E g \in [0 .. Len(value) -> ScanStates] :
              /\ g[0] = "empty"
              /\ \A i \in 1 .. Len(value) : g[i] = ScanStep(g[i - 1], value[i])
              /\ ScanValue(value) = ScanVerdict(value, g[Len(value)])
<1> DEFINE N == Len(value)
           V == ScanStates
           start == "empty"
           op(state, symbol) == ScanStep(state, symbol)
           Body(f) == [t \in SUBSET DOMAIN value |->
                         IF t = {} THEN start ELSE op(f[t \ {Max(t)}], value[Max(t)])]
           iter == CHOOSE f : f = Body(f)
           step == [p \in V \X (1 .. N) |-> op(p[1], value[p[2]])]
<1>1. ScanValue(value) = ScanVerdict(value, iter[DOMAIN value])
  BY DEF ScanValue, FoldLeft, MapThenFoldSet, ScanStep, ScanVerdict
<1>2. N \in Nat /\ DOMAIN value = 1 .. N
  OBVIOUS
<1>3. start \in V
  BY DEF ScanStates
<1>4. ASSUME NEW s \in V, NEW i \in 1 .. N
      PROVE  op(s, value[i]) \in V
  BY DEF ScanStep, ScanStates
<1> HIDE DEF V, start, op
<1>5. step \in [V \X (1 .. N) -> V]
  BY <1>4
<1>6. ASSUME NEW t \in SUBSET (1 .. N), t # {}
      PROVE  Max(t) \in 1 .. N
  BY <1>2, <1>6, MaxIn
<1>7. ASSUME NEW h, FoldsTo(h, V, start, N, step)
      PROVE  h = Body(h)
  <2>1. ASSUME NEW t \in SUBSET (1 .. N)
        PROVE  h[t] = IF t = {} THEN start ELSE op(h[t \ {Max(t)}], value[Max(t)])
    BY <1>6, <1>7 DEF FoldsTo
  <2>2. QED
    BY <1>2, <1>7, <2>1 DEF FoldsTo
<1>8. ASSUME NEW h, h = Body(h)
      PROVE  Obeys(h, V, start, N, step)
  <2>1. ASSUME NEW t \in SUBSET (1 .. N)
        PROVE  h[t] = IF t = {} THEN start ELSE op(h[t \ {Max(t)}], value[Max(t)])
    BY <1>2, <1>8
  <2>2. QED
    BY <1>6, <2>1 DEF Obeys
<1>9. iter = Body(iter)
  <2>1. PICK h : FoldsTo(h, V, start, N, step)
    BY <1>2, <1>3, <1>5, FoldExists
  <2>2. h = Body(h)
    BY <1>7, <2>1
  <2> HIDE DEF Body
  <2>3. QED
    BY <2>2
<1> HIDE DEF iter, Body
<1>10. Obeys(iter, V, start, N, step)
  BY <1>8, <1>9
<1>11. PICK g : Runs(g, V, start, N, step, iter[1 .. N])
  BY <1>2, <1>3, <1>5, <1>10, FoldValues
<1>12. /\ g \in [0 .. N -> V] /\ g[0] = start /\ g[N] = iter[1 .. N]
       /\ \A i \in 1 .. N : g[i] = op(g[i - 1], value[i])
  <2>1. /\ g \in [0 .. N -> V] /\ g[0] = start /\ g[N] = iter[1 .. N]
        /\ \A i \in 1 .. N : g[i] = step[<<g[i - 1], i>>]
    <3> HIDE DEF step, N
    <3>1. QED
      BY <1>11 DEF Runs
  <2>2. \A i \in 1 .. N : i - 1 \in 0 .. N
    BY <1>2
  <2>3. QED
    BY <2>1, <2>2
<1>13. QED
  BY <1>1, <1>2, <1>12 DEF V, start, op

\* What SplitMembers returns: one member at least.
MemberLists == {members \in Seq(Seq(STRING)) : members # <<>>}

SplitStep(members, symbol) ==
    IF symbol = Comma THEN Append(members, <<>>)
    ELSE [members EXCEPT ![Len(members)] = Append(@, symbol)]

LEMMA AppendFacts ==
    ASSUME NEW S, NEW s \in Seq(S), NEW e \in S
    PROVE  /\ Append(s, e) \in Seq(S)
           /\ Len(Append(s, e)) = Len(s) + 1
           /\ Append(s, e)[Len(s) + 1] = e
           /\ \A k \in 1 .. Len(s) : Append(s, e)[k] = s[k]
OBVIOUS

LEMMA SplitStepType ==
    ASSUME NEW members \in MemberLists, NEW symbol \in STRING
    PROVE  LET next == SplitStep(members, symbol)
               last == Len(members)
           IN  /\ next \in MemberLists
               /\ last \in Nat \ {0}
               /\ \A j \in 1 .. last - 1 : next[j] = members[j]
               /\ symbol = Comma => /\ Len(next) = last + 1
                                    /\ next[last] = members[last]
                                    /\ next[last + 1] = <<>>
               /\ symbol # Comma => /\ Len(next) = last
                                    /\ next[last] = Append(members[last], symbol)
<1> DEFINE last == Len(members)
<1>1. members \in Seq(Seq(STRING)) /\ members # <<>> /\ last \in Nat \ {0}
  BY DEF MemberLists
<1>2. CASE symbol = Comma
  <2>1. SplitStep(members, symbol) = Append(members, <<>>)
    BY <1>2 DEF SplitStep
  <2>2. <<>> \in Seq(STRING)
    OBVIOUS
  <2>3. Append(members, <<>>) \in Seq(Seq(STRING)) /\ Append(members, <<>>) # <<>>
    BY <1>1, <2>2
  <2>4. /\ Len(Append(members, <<>>)) = last + 1
        /\ Append(members, <<>>)[last + 1] = <<>>
        /\ \A j \in 1 .. last : Append(members, <<>>)[j] = members[j]
    BY <1>1
  <2>5. \A j \in 1 .. last - 1 : j \in 1 .. last
    BY <1>1
  <2>6. last \in 1 .. last
    BY <1>1
  <2>7. QED
    BY <1>1, <1>2, <2>1, <2>3, <2>4, <2>5, <2>6 DEF MemberLists
<1>3. CASE symbol # Comma
  <2> DEFINE longer == Append(members[last], symbol)
             next == [members EXCEPT ![last] = longer]
  <2>1. SplitStep(members, symbol) = next
    BY <1>3 DEF SplitStep
  <2>2. last \in 1 .. last /\ longer \in Seq(STRING)
    <3>1. last \in 1 .. last
      BY <1>1
    <3>2. members[last] \in Seq(STRING)
      BY <1>1, <3>1
    <3>3. longer \in Seq(STRING)
      BY <3>2, AppendFacts
    <3>4. QED
      BY <3>1, <3>3
  <2> HIDE DEF longer
  <2>3. members \in [1 .. last -> Seq(STRING)]
    BY <1>1
  <2>4. /\ next \in [1 .. last -> Seq(STRING)]
        /\ next[last] = longer
        /\ \A j \in 1 .. last - 1 : next[j] = members[j]
    <3>1. next \in [1 .. last -> Seq(STRING)] /\ next[last] = longer
      BY <2>2, <2>3
    <3>2. \A j \in 1 .. last - 1 : j \in 1 .. last /\ j # last
      BY <1>1
    <3>3. \A j \in 1 .. last - 1 : next[j] = members[j]
      BY <2>2, <2>3, <3>2
    <3>4. QED
      BY <3>1, <3>3
  <2> HIDE DEF next
  <2>5. next \in Seq(Seq(STRING)) /\ Len(next) = last
    BY <1>1, <2>4
  <2>6. next # <<>>
    BY <1>1, <2>5
  <2>7. QED
    BY <1>1, <1>3, <2>1, <2>4, <2>5, <2>6 DEF MemberLists, longer
<1>4. QED
  BY <1>2, <1>3

LEMMA SplitFold ==
    ASSUME NEW value \in Seq(STRING)
    PROVE  \E g \in [0 .. Len(value) -> MemberLists] :
              /\ g[0] = <<<<>>>>
              /\ \A i \in 1 .. Len(value) : g[i] = SplitStep(g[i - 1], value[i])
              /\ SplitMembers(value) = g[Len(value)]
<1> DEFINE N == Len(value)
           V == MemberLists
           start == <<<<>>>>
           op(members, symbol) == SplitStep(members, symbol)
           Body(f) == [t \in SUBSET DOMAIN value |->
                         IF t = {} THEN start ELSE op(f[t \ {Max(t)}], value[Max(t)])]
           iter == CHOOSE f : f = Body(f)
           step == [p \in V \X (1 .. N) |-> op(p[1], value[p[2]])]
<1>1. SplitMembers(value) = iter[DOMAIN value]
  BY DEF SplitMembers, FoldLeft, MapThenFoldSet, SplitStep
<1>2. N \in Nat /\ DOMAIN value = 1 .. N /\ \A i \in 1 .. N : value[i] \in STRING
  OBVIOUS
<1>3. start \in V
  BY DEF MemberLists
<1>4. ASSUME NEW s \in V, NEW i \in 1 .. N
      PROVE  op(s, value[i]) \in V
  BY <1>2, SplitStepType
<1> HIDE DEF V, start, op
<1>5. step \in [V \X (1 .. N) -> V]
  BY <1>4
<1>6. ASSUME NEW t \in SUBSET (1 .. N), t # {}
      PROVE  Max(t) \in 1 .. N
  BY <1>2, <1>6, MaxIn
<1>7. ASSUME NEW h, FoldsTo(h, V, start, N, step)
      PROVE  h = Body(h)
  <2>1. ASSUME NEW t \in SUBSET (1 .. N)
        PROVE  h[t] = IF t = {} THEN start ELSE op(h[t \ {Max(t)}], value[Max(t)])
    BY <1>6, <1>7 DEF FoldsTo
  <2>2. QED
    BY <1>2, <1>7, <2>1 DEF FoldsTo
<1>8. ASSUME NEW h, h = Body(h)
      PROVE  Obeys(h, V, start, N, step)
  <2>1. ASSUME NEW t \in SUBSET (1 .. N)
        PROVE  h[t] = IF t = {} THEN start ELSE op(h[t \ {Max(t)}], value[Max(t)])
    BY <1>2, <1>8
  <2>2. QED
    BY <1>6, <2>1 DEF Obeys
<1>9. iter = Body(iter)
  <2>1. PICK h : FoldsTo(h, V, start, N, step)
    BY <1>2, <1>3, <1>5, FoldExists
  <2>2. h = Body(h)
    BY <1>7, <2>1
  <2> HIDE DEF Body
  <2>3. QED
    BY <2>2
<1> HIDE DEF iter, Body
<1>10. Obeys(iter, V, start, N, step)
  BY <1>8, <1>9
<1>11. PICK g : Runs(g, V, start, N, step, iter[1 .. N])
  BY <1>2, <1>3, <1>5, <1>10, FoldValues
<1>12. /\ g \in [0 .. N -> V] /\ g[0] = start /\ g[N] = iter[1 .. N]
       /\ \A i \in 1 .. N : g[i] = op(g[i - 1], value[i])
  <2>1. /\ g \in [0 .. N -> V] /\ g[0] = start /\ g[N] = iter[1 .. N]
        /\ \A i \in 1 .. N : g[i] = step[<<g[i - 1], i>>]
    <3> HIDE DEF step, N
    <3>1. QED
      BY <1>11 DEF Runs
  <2>2. \A i \in 1 .. N : i - 1 \in 0 .. N
    BY <1>2
  <2>3. QED
    BY <2>1, <2>2
<1>13. QED
  BY <1>1, <1>2, <1>12 DEF V, start, op

\* A member without content.
AllBlank(member) == \A k \in DOMAIN member : member[k] = Blank

LEMMA BlankSet ==
    ASSUME NEW member
    PROVE  (ToSet(member) \subseteq {Blank}) <=> AllBlank(member)
BY DEF ToSet, AllBlank

LEMMA AppendBlank ==
    ASSUME NEW member \in Seq(STRING), NEW symbol \in STRING
    PROVE  AllBlank(Append(member, symbol)) <=> AllBlank(member) /\ symbol = Blank
<1> DEFINE n == Len(member)
           longer == Append(member, symbol)
<1>1. n \in Nat /\ DOMAIN member = 1 .. n
  OBVIOUS
<1>2. /\ DOMAIN longer = 1 .. n + 1
      /\ longer[n + 1] = symbol
      /\ \A k \in 1 .. n : longer[k] = member[k]
  <2>1. longer \in Seq(STRING) /\ Len(longer) = n + 1 /\ longer[n + 1] = symbol
    BY AppendFacts
  <2>2. DOMAIN longer = 1 .. n + 1
    BY <2>1
  <2>3. \A k \in 1 .. n : longer[k] = member[k]
    OBVIOUS
  <2>4. QED
    BY <2>1, <2>2, <2>3
<1>3. \A k \in 1 .. n + 1 : k = n + 1 \/ k \in 1 .. n
  BY <1>1
<1>4. n + 1 \in 1 .. n + 1 /\ \A k \in 1 .. n : k \in 1 .. n + 1
  BY <1>1
<1> HIDE DEF n, longer
<1>5. QED
  BY <1>1, <1>2, <1>3, <1>4 DEF AllBlank, longer

\* The state of the scan after i symbols, and the members split off so far.
ScanTells(state, members, value, i) ==
    /\ (state = "invalid") <=> \/ \E k \in 1 .. i : value[k] = Bad
                               \/ \E j \in 1 .. Len(members) - 1 : AllBlank(members[j])
    /\ state = "content" => ~AllBlank(members[Len(members)])
    /\ state = "empty" => AllBlank(members[Len(members)])

LEMMA ScanTellsStep ==
    ASSUME NEW value \in Seq(STRING), NEW i \in 1 .. Len(value), NEW state \in ScanStates,
           NEW members \in MemberLists, ScanTells(state, members, value, i - 1)
    PROVE  ScanTells(ScanStep(state, value[i]), SplitStep(members, value[i]), value, i)
<1> DEFINE symbol == value[i]
           last == Len(members)
           next == SplitStep(members, symbol)
           bad(n) == \E k \in 1 .. n : value[k] = Bad
           empty(m, n) == \E j \in 1 .. n : AllBlank(m[j])
<1> SUFFICES ScanTells(ScanStep(state, symbol), next, value, i)
  OBVIOUS
<1>1. symbol \in STRING
  OBVIOUS
<1>2. /\ next \in MemberLists
      /\ last \in Nat \ {0}
      /\ \A j \in 1 .. last - 1 : next[j] = members[j]
      /\ symbol = Comma => Len(next) = last + 1 /\ next[last] = members[last] /\ next[last + 1] = <<>>
      /\ symbol # Comma => Len(next) = last /\ next[last] = Append(members[last], symbol)
  <2> HIDE DEF symbol
  <2>1. QED
    BY <1>1, SplitStepType
<1>3. bad(i) <=> bad(i - 1) \/ symbol = Bad
  <2>1. \A k \in 1 .. i : k = i \/ k \in 1 .. i - 1
    OBVIOUS
  <2>2. i \in 1 .. i /\ \A k \in 1 .. i - 1 : k \in 1 .. i
    OBVIOUS
  <2>3. QED
    BY <2>1, <2>2
<1>4. /\ (state = "invalid") <=> bad(i - 1) \/ empty(members, last - 1)
      /\ state = "content" => ~AllBlank(members[last])
      /\ state = "empty" => AllBlank(members[last])
  BY DEF ScanTells
<1>5. Comma # Bad /\ Blank # Bad /\ Blank # Comma
  BY DEF Comma, Bad, Blank
<1>6. ScanTells(ScanStep(state, symbol), next, value, i) <=>
        /\ (ScanStep(state, symbol) = "invalid") <=> bad(i) \/ empty(next, Len(next) - 1)
        /\ ScanStep(state, symbol) = "content" => ~AllBlank(next[Len(next)])
        /\ ScanStep(state, symbol) = "empty" => AllBlank(next[Len(next)])
  BY DEF ScanTells
<1>7. /\ state = "invalid" \/ symbol = Bad => ScanStep(state, symbol) = "invalid"
      /\ state # "invalid" /\ symbol = Comma =>
            ScanStep(state, symbol) = IF state = "content" THEN "empty" ELSE "invalid"
      /\ state # "invalid" /\ symbol = Blank => ScanStep(state, symbol) = state
      /\ state # "invalid" /\ symbol \notin {Bad, Comma, Blank} => ScanStep(state, symbol) = "content"
  BY <1>5 DEF ScanStep
<1> HIDE DEF next, bad, symbol
<1>8. CASE symbol = Comma
  <2>1. empty(next, Len(next) - 1) <=> empty(members, last - 1) \/ AllBlank(members[last])
    <3>1. Len(next) - 1 = last
      BY <1>2, <1>8
    <3>2. \A j \in 1 .. last : j = last \/ j \in 1 .. last - 1
      BY <1>2
    <3>3. last \in 1 .. last /\ \A j \in 1 .. last - 1 : j \in 1 .. last
      BY <1>2
    <3>4. QED
      BY <1>2, <1>8, <3>1, <3>2, <3>3
  <2>2. AllBlank(next[Len(next)])
    BY <1>2, <1>8 DEF AllBlank
  <2> HIDE DEF empty
  <2>3. QED
    BY <1>3, <1>4, <1>5, <1>6, <1>7, <1>8, <2>1, <2>2 DEF ScanStates
<1>9. CASE symbol # Comma
  <2>1. Len(next) = last /\ next[last] = Append(members[last], symbol)
    BY <1>2, <1>9
  <2>2. empty(next, Len(next) - 1) <=> empty(members, last - 1)
    BY <1>2, <2>1
  <2>3. members[last] \in Seq(STRING)
    <3>1. members \in Seq(Seq(STRING)) /\ last \in 1 .. Len(members)
      BY <1>2 DEF MemberLists
    <3>2. QED
      BY <3>1
  <2>4. AllBlank(next[Len(next)]) <=> AllBlank(members[last]) /\ symbol = Blank
    BY <1>1, <2>1, <2>3, AppendBlank
  <2> HIDE DEF empty
  <2>5. QED
    BY <1>3, <1>4, <1>5, <1>6, <1>7, <1>9, <2>2, <2>4 DEF ScanStates
<1>10. QED
  BY <1>8, <1>9

\* The scan of direct_match and primitive_boundary, and the split of the other
\* three, say the same of every value.
LEMMA SplitIsScan ==
    ASSUME NEW value \in Seq(STRING)
    PROVE  SplitValue(value) = ScanValue(value)
<1> DEFINE N == Len(value)
<1>1. PICK g \in [0 .. N -> ScanStates] :
         /\ g[0] = "empty"
         /\ \A i \in 1 .. N : g[i] = ScanStep(g[i - 1], value[i])
         /\ ScanValue(value) = ScanVerdict(value, g[N])
  BY ScanFold
<1>2. PICK m \in [0 .. N -> MemberLists] :
         /\ m[0] = <<<<>>>>
         /\ \A i \in 1 .. N : m[i] = SplitStep(m[i - 1], value[i])
         /\ SplitMembers(value) = m[N]
  BY SplitFold
<1>3. N \in Nat /\ DOMAIN value = 1 .. N
  OBVIOUS
<1> DEFINE P == {i \in 0 .. N : ScanTells(g[i], m[i], value, i)}
<1>4. 0 \in P
  <2>1. 0 \in 0 .. N
    BY <1>3
  <2>2. Len(m[0]) = 1 /\ AllBlank(m[0][1])
    BY <1>2 DEF AllBlank
  <2>3. ScanTells(g[0], m[0], value, 0)
    BY <1>1, <2>2 DEF ScanTells
  <2>4. QED
    BY <2>1, <2>3, Zenon
<1>5. ASSUME NEW i \in 1 .. N, i - 1 \in P
      PROVE  i \in P
  <2>1. i \in 0 .. N /\ i - 1 \in 0 .. N
    BY <1>3
  <2>2. g[i - 1] \in ScanStates /\ m[i - 1] \in MemberLists /\ ScanTells(g[i - 1], m[i - 1], value, i - 1)
    BY <1>5, <2>1
  <2>3. ScanTells(ScanStep(g[i - 1], value[i]), SplitStep(m[i - 1], value[i]), value, i)
    BY <2>2, ScanTellsStep
  <2>4. ScanTells(g[i], m[i], value, i)
    BY <1>1, <1>2, <2>3
  <2>5. QED
    BY <2>1, <2>4, Zenon
<1>6. ScanTells(g[N], m[N], value, N)
  <2>1. 0 .. N \subseteq P
    <3> HIDE DEF P, N
    <3>1. QED
      BY <1>3, <1>4, <1>5, Induction
  <2>2. QED
    BY <1>3, <2>1
<1> DEFINE end == g[N]
           members == m[N]
           last == Len(members)
           fault == \/ \E i \in DOMAIN value : value[i] = Bad
                    \/ \E i \in DOMAIN members : ToSet(members[i]) \subseteq {Blank}
<1>7. end \in ScanStates /\ members \in Seq(Seq(STRING)) /\ last \in Nat \ {0} /\ DOMAIN members = 1 .. last
  <2>1. N \in 0 .. N
    BY <1>3
  <2>2. end \in ScanStates /\ members \in MemberLists
    BY <1>1, <1>2, <2>1
  <2> HIDE DEF members
  <2>3. members \in Seq(Seq(STRING)) /\ members # <<>>
    BY <2>2 DEF MemberLists
  <2>4. QED
    BY <2>2, <2>3
<1>8. fault <=> (end # "content")
  <2>1. fault <=> \/ \E i \in 1 .. N : value[i] = Bad
                  \/ \E i \in 1 .. last : AllBlank(members[i])
    BY <1>3, <1>7, BlankSet
  <2>2. \A j \in 1 .. last : j = last \/ j \in 1 .. last - 1
    BY <1>7
  <2>3. last \in 1 .. last /\ \A j \in 1 .. last - 1 : j \in 1 .. last
    BY <1>7
  <2> HIDE DEF end, members, last, fault
  <2>4. (\E i \in 1 .. last : AllBlank(members[i])) <=>
            (\E j \in 1 .. last - 1 : AllBlank(members[j])) \/ AllBlank(members[last])
    BY <2>2, <2>3
  <2>5. /\ (end = "invalid") <=> \/ \E k \in 1 .. N : value[k] = Bad
                                 \/ \E j \in 1 .. last - 1 : AllBlank(members[j])
        /\ end = "content" => ~AllBlank(members[last])
        /\ end = "empty" => AllBlank(members[last])
    BY <1>6 DEF ScanTells, end, members, last
  <2>6. QED
    BY <1>7, <2>1, <2>4, <2>5 DEF ScanStates
<1>9. SplitValue(value) =
        CASE Len(value) > VALUE_LIMIT -> OverLimit(Len(value))
          [] Len(value) <= VALUE_LIMIT /\ fault -> InvalidForwardingInput
          [] OTHER -> Collected(<<value>>)
  BY <1>2, Zenon DEF SplitValue
<1>10. (N > VALUE_LIMIT) <=> ~(N <= VALUE_LIMIT)
  BY <1>3, ForwardingAssumption
<1> HIDE DEF fault, end
<1>11. ScanValue(value) =
         CASE Len(value) > VALUE_LIMIT -> OverLimit(Len(value))
           [] Len(value) <= VALUE_LIMIT /\ end = "content" -> Collected(<<value>>)
           [] OTHER -> InvalidForwardingInput
  BY <1>1, Zenon DEF ScanVerdict, end
<1>12. CASE N > VALUE_LIMIT
  BY <1>9, <1>10, <1>11, <1>12
<1>13. CASE N <= VALUE_LIMIT /\ fault
  BY <1>8, <1>9, <1>10, <1>11, <1>13
<1>14. CASE N <= VALUE_LIMIT /\ ~fault
  BY <1>8, <1>9, <1>10, <1>11, <1>14
<1>15. QED
  BY <1>10, <1>12, <1>13, <1>14

-----------------------------------------------------------------------------
\* The passes over the fields of a block.

\* Values are gathered per slot, or the pass has stopped at a fault.
Priors == [DOMAIN SLOTS -> {<<>>} \cup {<<v>> : v \in Seq(STRING)}]

Faults == {InvalidForwardingInput} \cup {OverLimit(n) : n \in Nat}

GatherStates == {Collected(p) : p \in Priors} \cup Faults

LEMMA CollectedFacts ==
    ASSUME NEW p
    PROVE  Collected(p).tag = "collected" /\ Collected(p).values = p
BY DEF Collected, ForwardingOutcome

LEMMA FaultFacts ==
    ASSUME NEW s \in Faults
    PROVE  /\ s.tag \in {"InvalidForwardingInput", "LimitExceeded"}
           /\ s.tag # "collected"
BY DEF Faults, InvalidForwardingInput, OverLimit, ForwardingOutcome

LEMMA GatherCases ==
    ASSUME NEW s \in GatherStates
    PROVE  /\ s.tag = "collected" => s.values \in Priors /\ s = Collected(s.values)
           /\ s.tag # "collected" => s \in Faults
<1>1. CASE s \in Faults
  BY <1>1, FaultFacts
<1>2. CASE s \in {Collected(p) : p \in Priors}
  <2>1. PICK p \in Priors : s = Collected(p)
    BY <1>2
  <2>2. QED
    BY <2>1, CollectedFacts
<1>3. QED
  BY <1>1, <1>2 DEF GatherStates

LEMMA NoPriorGathered == NoPrior \in Priors /\ Collected(NoPrior) \in GatherStates
BY DEF NoPrior, Priors, GatherStates

\* What a value is found to be.
LEMMA ScanOutcomes ==
    ASSUME NEW value \in Seq(STRING)
    PROVE  \/ ScanValue(value) = Collected(<<value>>)
           \/ ScanValue(value) = InvalidForwardingInput
           \/ ScanValue(value) = OverLimit(Len(value)) /\ Len(value) > VALUE_LIMIT
<1>1. PICK end : ScanValue(value) = ScanVerdict(value, end)
  BY ScanFold
<1>2. ScanValue(value) =
         CASE Len(value) > VALUE_LIMIT -> OverLimit(Len(value))
           [] Len(value) <= VALUE_LIMIT /\ end = "content" -> Collected(<<value>>)
           [] OTHER -> InvalidForwardingInput
  BY <1>1, Zenon DEF ScanVerdict
<1>3. QED
  BY <1>2, Zenon

LEMMA ScanTypes ==
    ASSUME NEW value \in Seq(STRING)
    PROVE  /\ ScanValue(value).tag = "collected" => ScanValue(value) = Collected(<<value>>)
           /\ ScanValue(value).tag # "collected" => ScanValue(value) \in Faults
<1>1. InvalidForwardingInput \in Faults /\ OverLimit(Len(value)) \in Faults
  BY DEF Faults
<1>2. QED
  BY <1>1, ScanOutcomes, CollectedFacts, FaultFacts

\* The slots are told apart by their names.
LEMMA SlotFacts ==
    /\ DOMAIN SLOTS = 1 .. 4
    /\ \A field : SlotOf(field) \in 0 .. 4
    /\ \A field : SlotOf(field) # 0 => SLOTS[SlotOf(field)] = field.name
    /\ \A field, other : field.name = other.name => SlotOf(field) = SlotOf(other)
<1>1. DOMAIN SLOTS = 1 .. 4 /\ Len(SLOTS) = 4
  BY DEF SLOTS
<1>2. ASSUME NEW field
      PROVE  SlotOf(field) \in 0 .. 4 /\ (SlotOf(field) # 0 => SLOTS[SlotOf(field)] = field.name)
  <2> DEFINE I == {i \in 1 .. Len(SLOTS) : SLOTS[i] = field.name}
  <2>1. SlotOf(field) = IF I # {} THEN Min(I) ELSE 0
    BY Zenon DEF SlotOf, SelectInSeq
  <2>2. I \in SUBSET Nat /\ \A i \in I : i \in 1 .. 4 /\ SLOTS[i] = field.name
    BY <1>1
  <2> HIDE DEF I
  <2>3. CASE I = {}
    BY <2>1, <2>3
  <2>4. CASE I # {}
    <3>1. Min(I) \in I
      BY <2>2, <2>4, SmallestOf
    <3>2. SlotOf(field) = Min(I)
      BY <2>1, <2>4
    <3>3. PICK i \in I : SlotOf(field) = i
      BY <3>1, <3>2
    <3>4. i \in 1 .. 4 /\ SLOTS[i] = field.name
      BY <2>2
    <3>5. QED
      BY <3>3, <3>4
  <2>5. QED
    BY <2>3, <2>4
<1>3. \A field, other : field.name = other.name => SlotOf(field) = SlotOf(other)
  BY DEF SlotOf, SelectInSeq
<1>4. QED
  BY <1>1, <1>2, <1>3

LEMMA Filled ==
    ASSUME NEW p \in Priors, NEW slot \in 1 .. 4, NEW value \in Seq(STRING)
    PROVE  /\ [p EXCEPT ![slot] = <<value>>] \in Priors
           /\ [Collected(p) EXCEPT !.values[slot] = <<value>>] = Collected([p EXCEPT ![slot] = <<value>>])
<1>1. DOMAIN SLOTS = 1 .. 4
  BY SlotFacts
<1>2. [p EXCEPT ![slot] = <<value>>] \in Priors
  BY <1>1 DEF Priors
<1>3. [Collected(p) EXCEPT !.values[slot] = <<value>>] = Collected([p EXCEPT ![slot] = <<value>>])
  BY DEF Collected, ForwardingOutcome
<1>4. QED
  BY <1>2, <1>3

LEMMA DuplicateFirstCases ==
    ASSUME NEW s \in GatherStates, NEW field, field.value \in Seq(STRING)
    PROVE  LET slot == SlotOf(field)
               checked == ScanValue(field.value)
               next == DuplicateFirst(s, field, checked)
           IN  /\ next \in GatherStates
               /\ s.tag # "collected" \/ slot = 0 => next = s
               /\ s.tag = "collected" /\ slot # 0 /\ s.values[slot] # <<>> => next = InvalidForwardingInput
               /\ s.tag = "collected" /\ slot # 0 /\ s.values[slot] = <<>> /\ checked.tag # "collected" =>
                     next = checked
               /\ s.tag = "collected" /\ slot # 0 /\ s.values[slot] = <<>> /\ checked.tag = "collected" =>
                     next = Collected([s.values EXCEPT ![slot] = <<field.value>>])
<1> DEFINE slot == SlotOf(field)
           checked == ScanValue(field.value)
           next == DuplicateFirst(s, field, checked)
<1>1. next = CASE s.tag # "collected" \/ slot = 0 -> s
               [] s.tag = "collected" /\ slot # 0 /\ s.values[slot] # <<>> -> InvalidForwardingInput
               [] OTHER -> IF checked.tag # "collected" THEN checked
                           ELSE [s EXCEPT !.values[slot] = checked.values]
  BY Zenon DEF DuplicateFirst
<1>2. slot \in 0 .. 4
  BY SlotFacts
<1>3. checked.tag = "collected" => checked = Collected(<<field.value>>) /\ checked.values = <<field.value>>
  BY ScanTypes, CollectedFacts
<1>4. checked.tag # "collected" => checked \in Faults
  BY ScanTypes
<1>5. s.tag = "collected" => s.values \in Priors /\ s = Collected(s.values)
  BY GatherCases
<1>6. InvalidForwardingInput \in Faults
  BY DEF Faults
<1> HIDE DEF slot, checked, next
<1>7. CASE s.tag # "collected" \/ slot = 0
  <2>1. next = s
    BY <1>1, <1>7, Zenon
  <2>2. QED
    BY <1>7, <2>1 DEF slot, checked, next
<1>8. CASE s.tag = "collected" /\ slot # 0 /\ s.values[slot] # <<>>
  <2>1. next = InvalidForwardingInput
    BY <1>1, <1>8, Zenon
  <2>2. QED
    BY <1>6, <1>8, <2>1, Zenon DEF slot, checked, next, GatherStates
<1>9. CASE s.tag = "collected" /\ slot # 0 /\ s.values[slot] = <<>> /\ checked.tag # "collected"
  <2>1. next = checked
    BY <1>1, <1>9, Zenon
  <2>2. QED
    BY <1>4, <1>9, <2>1, Zenon DEF slot, checked, next, GatherStates
<1>10. CASE s.tag = "collected" /\ slot # 0 /\ s.values[slot] = <<>> /\ checked.tag = "collected"
  <2>1. next = [s EXCEPT !.values[slot] = checked.values]
    BY <1>1, <1>10, Zenon
  <2>2. slot \in 1 .. 4
    BY <1>2, <1>10
  <2>3. [s.values EXCEPT ![slot] = <<field.value>>] \in Priors
    BY <1>5, <1>10, <2>2, Filled
  <2>4. [Collected(s.values) EXCEPT !.values[slot] = <<field.value>>] =
           Collected([s.values EXCEPT ![slot] = <<field.value>>])
    <3>1. ASSUME NEW p \in Priors
          PROVE  [Collected(p) EXCEPT !.values[slot] = <<field.value>>] = Collected([p EXCEPT ![slot] = <<field.value>>])
      BY <2>2, Filled
    <3>2. QED
      BY <1>5, <1>10, <3>1, Zenon
  <2>5. next = Collected([s.values EXCEPT ![slot] = <<field.value>>])
    BY <1>3, <1>5, <1>10, <2>1, <2>4, Zenon
  <2>6. next \in GatherStates
    BY <2>3, <2>5 DEF GatherStates
  <2>7. QED
    BY <1>10, <2>5, <2>6, Zenon DEF slot, checked, next
<1>11. QED
  BY <1>7, <1>8, <1>9, <1>10, Zenon

LEMMA ValueFirstCases ==
    ASSUME NEW s \in GatherStates, NEW field, field.value \in Seq(STRING)
    PROVE  LET slot == SlotOf(field)
               checked == ScanValue(field.value)
               next == ValueFirst(s, field, checked)
           IN  /\ next \in GatherStates
               /\ s.tag # "collected" \/ slot = 0 => next = s
               /\ s.tag = "collected" /\ slot # 0 /\ checked.tag # "collected" => next = checked
               /\ s.tag = "collected" /\ slot # 0 /\ checked.tag = "collected" /\ s.values[slot] # <<>> =>
                     next = InvalidForwardingInput
               /\ s.tag = "collected" /\ slot # 0 /\ checked.tag = "collected" /\ s.values[slot] = <<>> =>
                     next = Collected([s.values EXCEPT ![slot] = <<field.value>>])
<1> DEFINE slot == SlotOf(field)
           checked == ScanValue(field.value)
           next == ValueFirst(s, field, checked)
<1>1. next = CASE s.tag # "collected" \/ slot = 0 -> s
               [] s.tag = "collected" /\ slot # 0 /\ checked.tag # "collected" -> checked
               [] OTHER -> IF s.values[slot] # <<>> THEN InvalidForwardingInput
                           ELSE [s EXCEPT !.values[slot] = checked.values]
  BY Zenon DEF ValueFirst
<1>2. slot \in 0 .. 4
  BY SlotFacts
<1>3. checked.tag = "collected" => checked = Collected(<<field.value>>) /\ checked.values = <<field.value>>
  BY ScanTypes, CollectedFacts
<1>4. checked.tag # "collected" => checked \in Faults
  BY ScanTypes
<1>5. s.tag = "collected" => s.values \in Priors /\ s = Collected(s.values)
  BY GatherCases
<1>6. InvalidForwardingInput \in Faults
  BY DEF Faults
<1> HIDE DEF slot, checked, next
<1>7. CASE s.tag # "collected" \/ slot = 0
  <2>1. next = s
    BY <1>1, <1>7, Zenon
  <2>2. QED
    BY <1>7, <2>1 DEF slot, checked, next
<1>8. CASE s.tag = "collected" /\ slot # 0 /\ checked.tag # "collected"
  <2>1. next = checked
    BY <1>1, <1>8, Zenon
  <2>2. QED
    BY <1>4, <1>8, <2>1, Zenon DEF slot, checked, next, GatherStates
<1>9. CASE s.tag = "collected" /\ slot # 0 /\ checked.tag = "collected" /\ s.values[slot] # <<>>
  <2>1. next = InvalidForwardingInput
    BY <1>1, <1>9, Zenon
  <2>2. QED
    BY <1>6, <1>9, <2>1, Zenon DEF slot, checked, next, GatherStates
<1>10. CASE s.tag = "collected" /\ slot # 0 /\ checked.tag = "collected" /\ s.values[slot] = <<>>
  <2>1. next = [s EXCEPT !.values[slot] = checked.values]
    BY <1>1, <1>10, Zenon
  <2>2. slot \in 1 .. 4
    BY <1>2, <1>10
  <2>3. [s.values EXCEPT ![slot] = <<field.value>>] \in Priors
    BY <1>5, <1>10, <2>2, Filled
  <2>4. [Collected(s.values) EXCEPT !.values[slot] = <<field.value>>] =
           Collected([s.values EXCEPT ![slot] = <<field.value>>])
    <3>1. ASSUME NEW p \in Priors
          PROVE  [Collected(p) EXCEPT !.values[slot] = <<field.value>>] = Collected([p EXCEPT ![slot] = <<field.value>>])
      BY <2>2, Filled
    <3>2. QED
      BY <1>5, <1>10, <3>1, Zenon
  <2>5. next = Collected([s.values EXCEPT ![slot] = <<field.value>>])
    BY <1>3, <1>5, <1>10, <2>1, <2>4, Zenon
  <2>6. next \in GatherStates
    BY <2>3, <2>5 DEF GatherStates
  <2>7. QED
    BY <1>10, <2>5, <2>6, Zenon DEF slot, checked, next
<1>11. QED
  BY <1>7, <1>8, <1>9, <1>10, Zenon

LEMMA InspectFold ==
    ASSUME NEW fields \in Seq(ForwardingFields)
    PROVE  \E g \in [0 .. Len(fields) -> GatherStates] :
              /\ g[0] = Collected(NoPrior)
              /\ \A i \in 1 .. Len(fields) : g[i] = DuplicateFirst(g[i - 1], fields[i], ScanValue(fields[i].value))
              /\ InspectPriorValues(fields) = g[Len(fields)]
<1> DEFINE N == Len(fields)
           V == GatherStates
           start == Collected(NoPrior)
           op(gathered, field) == DuplicateFirst(gathered, field, ScanValue(field.value))
           Body(f) == [t \in SUBSET DOMAIN fields |->
                         IF t = {} THEN start ELSE op(f[t \ {Max(t)}], fields[Max(t)])]
           iter == CHOOSE f : f = Body(f)
           step == [p \in V \X (1 .. N) |-> op(p[1], fields[p[2]])]
<1>1. InspectPriorValues(fields) = iter[DOMAIN fields]
  BY DEF InspectPriorValues, FoldLeft, MapThenFoldSet
<1>2. N \in Nat /\ DOMAIN fields = 1 .. N /\ \A i \in 1 .. N : fields[i].value \in Seq(STRING)
  BY ForwardingInputs
<1>3. start \in V
  BY NoPriorGathered
<1>4. ASSUME NEW s \in V, NEW i \in 1 .. N
      PROVE  op(s, fields[i]) \in V
  BY <1>2, DuplicateFirstCases
<1> HIDE DEF V, start, op
<1>5. step \in [V \X (1 .. N) -> V]
  BY <1>4
<1>6. ASSUME NEW t \in SUBSET (1 .. N), t # {}
      PROVE  Max(t) \in 1 .. N
  BY <1>2, <1>6, MaxIn
<1>7. ASSUME NEW h, FoldsTo(h, V, start, N, step)
      PROVE  h = Body(h)
  <2>1. ASSUME NEW t \in SUBSET (1 .. N)
        PROVE  h[t] = IF t = {} THEN start ELSE op(h[t \ {Max(t)}], fields[Max(t)])
    BY <1>6, <1>7 DEF FoldsTo
  <2>2. QED
    BY <1>2, <1>7, <2>1 DEF FoldsTo
<1>8. ASSUME NEW h, h = Body(h)
      PROVE  Obeys(h, V, start, N, step)
  <2>1. ASSUME NEW t \in SUBSET (1 .. N)
        PROVE  h[t] = IF t = {} THEN start ELSE op(h[t \ {Max(t)}], fields[Max(t)])
    BY <1>2, <1>8
  <2>2. QED
    BY <1>6, <2>1 DEF Obeys
<1>9. iter = Body(iter)
  <2>1. PICK h : FoldsTo(h, V, start, N, step)
    BY <1>2, <1>3, <1>5, FoldExists
  <2>2. h = Body(h)
    BY <1>7, <2>1
  <2> HIDE DEF Body
  <2>3. QED
    BY <2>2
<1> HIDE DEF iter, Body
<1>10. Obeys(iter, V, start, N, step)
  BY <1>8, <1>9
<1>11. PICK g : Runs(g, V, start, N, step, iter[1 .. N])
  BY <1>2, <1>3, <1>5, <1>10, FoldValues
<1>12. /\ g \in [0 .. N -> V] /\ g[0] = start /\ g[N] = iter[1 .. N]
       /\ \A i \in 1 .. N : g[i] = op(g[i - 1], fields[i])
  <2>1. /\ g \in [0 .. N -> V] /\ g[0] = start /\ g[N] = iter[1 .. N]
        /\ \A i \in 1 .. N : g[i] = step[<<g[i - 1], i>>]
    <3> HIDE DEF step, N
    <3>1. QED
      BY <1>11 DEF Runs
  <2>2. \A i \in 1 .. N : i - 1 \in 0 .. N
    BY <1>2
  <2>3. QED
    BY <2>1, <2>2
<1>13. QED
  BY <1>1, <1>2, <1>12 DEF V, start, op

LEMMA CollectFold ==
    ASSUME NEW fields \in Seq(ForwardingFields)
    PROVE  \E g \in [0 .. Len(fields) -> GatherStates] :
              /\ g[0] = Collected(NoPrior)
              /\ \A i \in 1 .. Len(fields) : g[i] = DuplicateFirst(g[i - 1], fields[i], ScanValue(fields[i].value))
              /\ CollectTrustedValues(fields) = g[Len(fields)]
<1> DEFINE N == Len(fields)
           V == GatherStates
           start == Collected(NoPrior)
           op(gathered, field) == DuplicateFirst(gathered, field, SplitValue(field.value))
           Body(f) == [t \in SUBSET DOMAIN fields |->
                         IF t = {} THEN start ELSE op(f[t \ {Max(t)}], fields[Max(t)])]
           iter == CHOOSE f : f = Body(f)
           step == [p \in V \X (1 .. N) |-> op(p[1], fields[p[2]])]
<1>1. CollectTrustedValues(fields) = iter[DOMAIN fields]
  BY DEF CollectTrustedValues, FoldLeft, MapThenFoldSet
<1>2. N \in Nat /\ DOMAIN fields = 1 .. N /\ \A i \in 1 .. N : fields[i].value \in Seq(STRING)
  BY ForwardingInputs
<1>3. start \in V
  BY NoPriorGathered
<1>4. ASSUME NEW s \in V, NEW i \in 1 .. N
      PROVE  op(s, fields[i]) \in V
  BY <1>2, DuplicateFirstCases, SplitIsScan
<1> HIDE DEF V, start, op
<1>5. step \in [V \X (1 .. N) -> V]
  BY <1>4
<1>6. ASSUME NEW t \in SUBSET (1 .. N), t # {}
      PROVE  Max(t) \in 1 .. N
  BY <1>2, <1>6, MaxIn
<1>7. ASSUME NEW h, FoldsTo(h, V, start, N, step)
      PROVE  h = Body(h)
  <2>1. ASSUME NEW t \in SUBSET (1 .. N)
        PROVE  h[t] = IF t = {} THEN start ELSE op(h[t \ {Max(t)}], fields[Max(t)])
    BY <1>6, <1>7 DEF FoldsTo
  <2>2. QED
    BY <1>2, <1>7, <2>1 DEF FoldsTo
<1>8. ASSUME NEW h, h = Body(h)
      PROVE  Obeys(h, V, start, N, step)
  <2>1. ASSUME NEW t \in SUBSET (1 .. N)
        PROVE  h[t] = IF t = {} THEN start ELSE op(h[t \ {Max(t)}], fields[Max(t)])
    BY <1>2, <1>8
  <2>2. QED
    BY <1>6, <2>1 DEF Obeys
<1>9. iter = Body(iter)
  <2>1. PICK h : FoldsTo(h, V, start, N, step)
    BY <1>2, <1>3, <1>5, FoldExists
  <2>2. h = Body(h)
    BY <1>7, <2>1
  <2> HIDE DEF Body
  <2>3. QED
    BY <2>2
<1> HIDE DEF iter, Body
<1>10. Obeys(iter, V, start, N, step)
  BY <1>8, <1>9
<1>11. PICK g : Runs(g, V, start, N, step, iter[1 .. N])
  BY <1>2, <1>3, <1>5, <1>10, FoldValues
<1>12. /\ g \in [0 .. N -> V] /\ g[0] = start /\ g[N] = iter[1 .. N]
       /\ \A i \in 1 .. N : g[i] = op(g[i - 1], fields[i])
  <2>1. /\ g \in [0 .. N -> V] /\ g[0] = start /\ g[N] = iter[1 .. N]
        /\ \A i \in 1 .. N : g[i] = step[<<g[i - 1], i>>]
    <3> HIDE DEF step, N
    <3>1. QED
      BY <1>11 DEF Runs
  <2>2. \A i \in 1 .. N : i - 1 \in 0 .. N
    BY <1>2
  <2>3. QED
    BY <2>1, <2>2
<1>13. QED
  BY <1>1, <1>2, <1>12, SplitIsScan DEF V, start, op

LEMMA IncomingFold ==
    ASSUME NEW fields \in Seq(ForwardingFields)
    PROVE  \E g \in [0 .. Len(fields) -> GatherStates] :
              /\ g[0] = Collected(NoPrior)
              /\ \A i \in 1 .. Len(fields) : g[i] = ValueFirst(g[i - 1], fields[i], ScanValue(fields[i].value))
              /\ IncomingValues(fields) = g[Len(fields)]
<1> DEFINE N == Len(fields)
           V == GatherStates
           start == Collected(NoPrior)
           op(gathered, field) == ValueFirst(gathered, field, SplitValue(field.value))
           Body(f) == [t \in SUBSET DOMAIN fields |->
                         IF t = {} THEN start ELSE op(f[t \ {Max(t)}], fields[Max(t)])]
           iter == CHOOSE f : f = Body(f)
           step == [p \in V \X (1 .. N) |-> op(p[1], fields[p[2]])]
<1>1. IncomingValues(fields) = iter[DOMAIN fields]
  BY DEF IncomingValues, FoldLeft, MapThenFoldSet
<1>2. N \in Nat /\ DOMAIN fields = 1 .. N /\ \A i \in 1 .. N : fields[i].value \in Seq(STRING)
  BY ForwardingInputs
<1>3. start \in V
  BY NoPriorGathered
<1>4. ASSUME NEW s \in V, NEW i \in 1 .. N
      PROVE  op(s, fields[i]) \in V
  BY <1>2, ValueFirstCases, SplitIsScan
<1> HIDE DEF V, start, op
<1>5. step \in [V \X (1 .. N) -> V]
  BY <1>4
<1>6. ASSUME NEW t \in SUBSET (1 .. N), t # {}
      PROVE  Max(t) \in 1 .. N
  BY <1>2, <1>6, MaxIn
<1>7. ASSUME NEW h, FoldsTo(h, V, start, N, step)
      PROVE  h = Body(h)
  <2>1. ASSUME NEW t \in SUBSET (1 .. N)
        PROVE  h[t] = IF t = {} THEN start ELSE op(h[t \ {Max(t)}], fields[Max(t)])
    BY <1>6, <1>7 DEF FoldsTo
  <2>2. QED
    BY <1>2, <1>7, <2>1 DEF FoldsTo
<1>8. ASSUME NEW h, h = Body(h)
      PROVE  Obeys(h, V, start, N, step)
  <2>1. ASSUME NEW t \in SUBSET (1 .. N)
        PROVE  h[t] = IF t = {} THEN start ELSE op(h[t \ {Max(t)}], fields[Max(t)])
    BY <1>2, <1>8
  <2>2. QED
    BY <1>6, <2>1 DEF Obeys
<1>9. iter = Body(iter)
  <2>1. PICK h : FoldsTo(h, V, start, N, step)
    BY <1>2, <1>3, <1>5, FoldExists
  <2>2. h = Body(h)
    BY <1>7, <2>1
  <2> HIDE DEF Body
  <2>3. QED
    BY <2>2
<1> HIDE DEF iter, Body
<1>10. Obeys(iter, V, start, N, step)
  BY <1>8, <1>9
<1>11. PICK g : Runs(g, V, start, N, step, iter[1 .. N])
  BY <1>2, <1>3, <1>5, <1>10, FoldValues
<1>12. /\ g \in [0 .. N -> V] /\ g[0] = start /\ g[N] = iter[1 .. N]
       /\ \A i \in 1 .. N : g[i] = op(g[i - 1], fields[i])
  <2>1. /\ g \in [0 .. N -> V] /\ g[0] = start /\ g[N] = iter[1 .. N]
        /\ \A i \in 1 .. N : g[i] = step[<<g[i - 1], i>>]
    <3> HIDE DEF step, N
    <3>1. QED
      BY <1>11 DEF Runs
  <2>2. \A i \in 1 .. N : i - 1 \in 0 .. N
    BY <1>2
  <2>3. QED
    BY <2>1, <2>2
<1>13. QED
  BY <1>1, <1>2, <1>12, SplitIsScan DEF V, start, op

-----------------------------------------------------------------------------
\* What a pass has after n fields: the value of each slot met, or the fault of
\* the first field at fault, told in the order in which the pass checks.

FieldFault(fields, i) ==
    SlotOf(fields[i]) # 0 /\ (Repeats(fields, i) \/ ScanValue(fields[i].value).tag # "collected")

FaultAt(order, fields, i) ==
    IF order = "duplicate"
    THEN IF Repeats(fields, i) THEN InvalidForwardingInput ELSE ScanValue(fields[i].value)
    ELSE IF ScanValue(fields[i].value).tag # "collected" THEN ScanValue(fields[i].value)
    ELSE InvalidForwardingInput

GatherStep(order, s, field) ==
    IF order = "duplicate" THEN DuplicateFirst(s, field, ScanValue(field.value))
    ELSE ValueFirst(s, field, ScanValue(field.value))

FillsSlot(p, fields, n, slot) ==
    \/ p[slot] = <<>> /\ \A i \in 1 .. n : SlotOf(fields[i]) # slot
    \/ \E i \in 1 .. n : /\ SlotOf(fields[i]) = slot
                         /\ p[slot] = <<fields[i].value>>
                         /\ \A j \in 1 .. n : SlotOf(fields[j]) = slot => j = i

Fills(p, fields, n) == p \in Priors /\ \A slot \in 1 .. 4 : FillsSlot(p, fields, n, slot)

FaultOfField(s, fields, n, order) ==
    \E k \in 1 .. n : /\ FieldFault(fields, k)
                      /\ \A i \in 1 .. k - 1 : ~FieldFault(fields, i)
                      /\ s = FaultAt(order, fields, k)

Gathered(s, fields, n, order) ==
    \/ /\ \A i \in 1 .. n : ~FieldFault(fields, i)
       /\ \E p \in Priors : s = Collected(p) /\ Fills(p, fields, n)
    \/ FaultOfField(s, fields, n, order)

LEMMA FieldFacts ==
    ASSUME NEW fields \in Seq(ForwardingFields), NEW i \in 1 .. Len(fields)
    PROVE  fields[i].value \in Seq(STRING)
BY ForwardingInputs

LEMMA FaultAtFault ==
    ASSUME NEW fields \in Seq(ForwardingFields), NEW i \in 1 .. Len(fields), NEW order, FieldFault(fields, i)
    PROVE  FaultAt(order, fields, i) \in Faults
<1>1. InvalidForwardingInput \in Faults
  BY DEF Faults
<1>2. fields[i].value \in Seq(STRING)
  BY FieldFacts
<1>3. ScanValue(fields[i].value).tag # "collected" => ScanValue(fields[i].value) \in Faults
  BY <1>2, ScanTypes
<1>4. QED
  BY <1>1, <1>3 DEF FaultAt, FieldFault

\* A repeated field finds its slot filled.
LEMMA RepeatIsFilled ==
    ASSUME NEW fields \in Seq(ForwardingFields), NEW n \in 1 .. Len(fields), NEW p \in Priors,
           Fills(p, fields, n - 1), SlotOf(fields[n]) # 0
    PROVE  Repeats(fields, n) <=> p[SlotOf(fields[n])] # <<>>
<1> DEFINE slot == SlotOf(fields[n])
<1>1. slot \in 1 .. 4
  BY SlotFacts
<1>2. FillsSlot(p, fields, n - 1, slot)
  BY <1>1 DEF Fills
<1>3. ASSUME NEW i \in 1 .. n - 1
      PROVE  (fields[i].name = fields[n].name) <=> (SlotOf(fields[i]) = slot)
  BY SlotFacts
<1> SUFFICES Repeats(fields, n) <=> p[slot] # <<>>
  OBVIOUS
<1> HIDE DEF slot
<1>4. Repeats(fields, n) <=> \E i \in 1 .. n - 1 : SlotOf(fields[i]) = slot
  BY <1>3 DEF Repeats
<1>5. CASE p[slot] = <<>> /\ \A i \in 1 .. n - 1 : SlotOf(fields[i]) # slot
  BY <1>4, <1>5
<1>6. CASE \E i \in 1 .. n - 1 : SlotOf(fields[i]) = slot /\ p[slot] = <<fields[i].value>>
  BY <1>4, <1>6
<1>7. QED
  BY <1>2, <1>5, <1>6 DEF FillsSlot

LEMMA FillsNext ==
    ASSUME NEW fields \in Seq(ForwardingFields), NEW n \in 1 .. Len(fields), NEW p \in Priors,
           Fills(p, fields, n - 1)
    PROVE  LET slot == SlotOf(fields[n])
           IN  /\ slot = 0 => Fills(p, fields, n)
               /\ slot # 0 /\ p[slot] = <<>> => Fills([p EXCEPT ![slot] = <<fields[n].value>>], fields, n)
<1> DEFINE slot == SlotOf(fields[n])
           q == [p EXCEPT ![slot] = <<fields[n].value>>]
<1>1. slot \in 0 .. 4 /\ DOMAIN SLOTS = 1 .. 4
  BY SlotFacts
<1>2. \A i \in 1 .. n : i = n \/ i \in 1 .. n - 1
  OBVIOUS
<1>3. n \in 1 .. n /\ \A i \in 1 .. n - 1 : i \in 1 .. n
  OBVIOUS
<1>4. \A other \in 1 .. 4 : FillsSlot(p, fields, n - 1, other)
  BY DEF Fills
<1>5. ASSUME NEW other \in 1 .. 4, other # slot
      PROVE  FillsSlot(p, fields, n, other)
  <2>1. FillsSlot(p, fields, n - 1, other) /\ SlotOf(fields[n]) # other
    BY <1>4, <1>5
  <2>2. CASE p[other] = <<>> /\ \A i \in 1 .. n - 1 : SlotOf(fields[i]) # other
    BY <1>2, <2>1, <2>2 DEF FillsSlot
  <2>3. CASE \E i \in 1 .. n - 1 : /\ SlotOf(fields[i]) = other
                                   /\ p[other] = <<fields[i].value>>
                                   /\ \A j \in 1 .. n - 1 : SlotOf(fields[j]) = other => j = i
    <3>1. PICK i \in 1 .. n - 1 : /\ SlotOf(fields[i]) = other
                                  /\ p[other] = <<fields[i].value>>
                                  /\ \A j \in 1 .. n - 1 : SlotOf(fields[j]) = other => j = i
      BY <2>3
    <3>2. i \in 1 .. n /\ \A j \in 1 .. n : SlotOf(fields[j]) = other => j = i
      BY <1>2, <1>3, <2>1, <3>1
    <3>3. QED
      BY <3>1, <3>2 DEF FillsSlot
  <2>4. QED
    BY <2>1, <2>2, <2>3 DEF FillsSlot
<1> HIDE DEF slot
<1>6. CASE slot = 0
  <2>1. \A other \in 1 .. 4 : other # slot
    BY <1>6
  <2>2. Fills(p, fields, n)
    BY <1>5, <2>1 DEF Fills
  <2>3. QED
    BY <1>6, <2>2 DEF slot
<1>7. CASE slot # 0 /\ p[slot] # <<>>
  BY <1>7 DEF slot
<1>8. CASE slot # 0 /\ p[slot] = <<>>
  <2>1. slot \in 1 .. 4 /\ fields[n].value \in Seq(STRING)
    BY <1>1, <1>8, FieldFacts
  <2>2. q \in Priors
    BY <2>1, Filled
  <2>3. q[slot] = <<fields[n].value>> /\ \A other \in 1 .. 4 : other # slot => q[other] = p[other]
    BY <1>1, <2>1 DEF Priors
  <2>4. \A i \in 1 .. n - 1 : SlotOf(fields[i]) # slot
    <3>1. FillsSlot(p, fields, n - 1, slot)
      BY <1>4, <2>1
    <3>2. QED
      BY <1>8, <3>1 DEF FillsSlot
  <2> HIDE DEF q
  <2>5. FillsSlot(q, fields, n, slot)
    <3>1. \A j \in 1 .. n : SlotOf(fields[j]) = slot => j = n
      BY <1>2, <2>4
    <3>2. QED
      BY <1>3, <2>3, <3>1 DEF FillsSlot, slot
  <2>6. ASSUME NEW other \in 1 .. 4, other # slot
        PROVE  FillsSlot(q, fields, n, other)
    <3>1. FillsSlot(p, fields, n, other) /\ q[other] = p[other]
      BY <1>5, <2>3, <2>6
    <3>2. QED
      BY <3>1 DEF FillsSlot
  <2>7. Fills(q, fields, n)
    BY <2>2, <2>5, <2>6 DEF Fills
  <2>8. QED
    BY <1>8, <2>7 DEF slot, q
<1>9. QED
  BY <1>6, <1>7, <1>8

\* A field to a pass that has values: passed over, a fault, or one value more.
GatherMoves(order, p, fields, n) ==
    LET slot == SlotOf(fields[n])
        next == GatherStep(order, Collected(p), fields[n])
    IN  /\ slot = 0 => next = Collected(p)
        /\ FieldFault(fields, n) => next = FaultAt(order, fields, n)
        /\ slot # 0 /\ ~FieldFault(fields, n) =>
              p[slot] = <<>> /\ next = Collected([p EXCEPT ![slot] = <<fields[n].value>>])

LEMMA GatherStepCases ==
    ASSUME NEW fields \in Seq(ForwardingFields), NEW n \in 1 .. Len(fields), NEW order, NEW p \in Priors,
           Fills(p, fields, n - 1)
    PROVE  GatherMoves(order, p, fields, n)
<1> DEFINE slot == SlotOf(fields[n])
           s == Collected(p)
           checked == ScanValue(fields[n].value)
<1>1. fields[n].value \in Seq(STRING)
  BY FieldFacts
<1>2. s \in GatherStates /\ s.tag = "collected" /\ s.values = p
  BY CollectedFacts DEF GatherStates
<1>3. slot # 0 => (Repeats(fields, n) <=> p[slot] # <<>>)
  BY RepeatIsFilled
<1>4. FieldFault(fields, n) <=> (slot # 0 /\ (p[slot] # <<>> \/ checked.tag # "collected"))
  BY <1>3 DEF FieldFault
<1> HIDE DEF s
<1>5. CASE order = "duplicate"
  <2> DEFINE next == DuplicateFirst(s, fields[n], checked)
  <2>1. GatherStep(order, s, fields[n]) = next
    BY <1>5 DEF GatherStep
  <2>2. /\ slot = 0 => next = s
        /\ slot # 0 /\ p[slot] # <<>> => next = InvalidForwardingInput
        /\ slot # 0 /\ p[slot] = <<>> /\ checked.tag # "collected" => next = checked
        /\ slot # 0 /\ p[slot] = <<>> /\ checked.tag = "collected" =>
              next = Collected([p EXCEPT ![slot] = <<fields[n].value>>])
    BY <1>1, <1>2, DuplicateFirstCases
  <2>3. slot # 0 => FaultAt(order, fields, n) = IF p[slot] # <<>> THEN InvalidForwardingInput ELSE checked
    BY <1>3, <1>5 DEF FaultAt
  <2> HIDE DEF slot, checked, next
  <2>4. QED
    BY <1>4, <2>1, <2>2, <2>3 DEF GatherMoves, slot, s
<1>6. CASE order # "duplicate"
  <2> DEFINE next == ValueFirst(s, fields[n], checked)
  <2>1. GatherStep(order, s, fields[n]) = next
    BY <1>6 DEF GatherStep
  <2>2. /\ slot = 0 => next = s
        /\ slot # 0 /\ checked.tag # "collected" => next = checked
        /\ slot # 0 /\ checked.tag = "collected" /\ p[slot] # <<>> => next = InvalidForwardingInput
        /\ slot # 0 /\ checked.tag = "collected" /\ p[slot] = <<>> =>
              next = Collected([p EXCEPT ![slot] = <<fields[n].value>>])
    BY <1>1, <1>2, ValueFirstCases
  <2>3. FaultAt(order, fields, n) = IF checked.tag # "collected" THEN checked ELSE InvalidForwardingInput
    BY <1>6 DEF FaultAt
  <2> HIDE DEF slot, checked, next
  <2>4. QED
    BY <1>4, <2>1, <2>2, <2>3 DEF GatherMoves, slot, s
<1>7. QED
  BY <1>5, <1>6

LEMMA GatherStepStops ==
    ASSUME NEW s \in Faults, NEW field, field.value \in Seq(STRING), NEW order
    PROVE  GatherStep(order, s, field) = s
<1>1. s \in GatherStates /\ s.tag # "collected"
  BY FaultFacts DEF GatherStates
<1>2. /\ DuplicateFirst(s, field, ScanValue(field.value)) = s
      /\ ValueFirst(s, field, ScanValue(field.value)) = s
  BY <1>1, DuplicateFirstCases, ValueFirstCases
<1>3. QED
  BY <1>2 DEF GatherStep

LEMMA GatheredStep ==
    ASSUME NEW fields \in Seq(ForwardingFields), NEW n \in 1 .. Len(fields), NEW order, NEW s,
           Gathered(s, fields, n - 1, order)
    PROVE  Gathered(GatherStep(order, s, fields[n]), fields, n, order)
<1> DEFINE next == GatherStep(order, s, fields[n])
           slot == SlotOf(fields[n])
<1>1. fields[n].value \in Seq(STRING)
  BY FieldFacts
<1>2. \A i \in 1 .. n : i = n \/ i \in 1 .. n - 1
  OBVIOUS
<1>3. n \in 1 .. n /\ \A i \in 1 .. n - 1 : i \in 1 .. n /\ i \in 1 .. Len(fields)
  OBVIOUS
<1>4. CASE FaultOfField(s, fields, n - 1, order)
  <2>1. PICK k \in 1 .. n - 1 : /\ FieldFault(fields, k)
                                /\ \A i \in 1 .. k - 1 : ~FieldFault(fields, i)
                                /\ s = FaultAt(order, fields, k)
    BY <1>4 DEF FaultOfField
  <2>2. s \in Faults
    BY <1>3, <2>1, FaultAtFault
  <2>3. next = s
    BY <1>1, <2>2, GatherStepStops
  <2> HIDE DEF next
  <2>4. FaultOfField(next, fields, n, order)
    BY <1>3, <2>1, <2>3 DEF FaultOfField
  <2>5. QED
    BY <2>4 DEF Gathered, next
<1>5. CASE /\ \A i \in 1 .. n - 1 : ~FieldFault(fields, i)
           /\ \E p \in Priors : s = Collected(p) /\ Fills(p, fields, n - 1)
  <2>1. PICK p \in Priors : s = Collected(p) /\ Fills(p, fields, n - 1)
    BY <1>5
  <2>2. /\ slot = 0 => next = Collected(p)
        /\ FieldFault(fields, n) => next = FaultAt(order, fields, n)
        /\ slot # 0 /\ ~FieldFault(fields, n) =>
              p[slot] = <<>> /\ next = Collected([p EXCEPT ![slot] = <<fields[n].value>>])
    <3> DEFINE now == GatherStep(order, Collected(p), fields[n])
    <3>1. /\ slot = 0 => now = Collected(p)
          /\ FieldFault(fields, n) => now = FaultAt(order, fields, n)
          /\ slot # 0 /\ ~FieldFault(fields, n) =>
                p[slot] = <<>> /\ now = Collected([p EXCEPT ![slot] = <<fields[n].value>>])
      <4>1. Fills(p, fields, n - 1)
        BY <2>1
      <4>2. GatherMoves(order, p, fields, n)
        BY <4>1, GatherStepCases
      <4>3. QED
        BY <4>2 DEF GatherMoves
    <3>2. next = now
      BY <2>1
    <3> HIDE DEF next, now
    <3>3. QED
      BY <3>1, <3>2
  <2>3. /\ slot = 0 => Fills(p, fields, n)
        /\ slot # 0 /\ p[slot] = <<>> => Fills([p EXCEPT ![slot] = <<fields[n].value>>], fields, n)
    BY <2>1, FillsNext
  <2>4. slot = 0 => ~FieldFault(fields, n)
    BY DEF FieldFault
  <2> HIDE DEF next, slot
  <2>5. CASE FieldFault(fields, n)
    <3>1. FaultOfField(next, fields, n, order)
      BY <1>3, <1>5, <2>2, <2>5 DEF FaultOfField
    <3>2. QED
      BY <3>1 DEF Gathered, next
  <2>6. CASE ~FieldFault(fields, n)
    <3>1. \A i \in 1 .. n : ~FieldFault(fields, i)
      BY <1>2, <1>5, <2>6
    <3>2. \E r \in Priors : next = Collected(r) /\ Fills(r, fields, n)
      <4>1. CASE slot = 0
        BY <2>2, <2>3, <4>1
      <4>2. CASE slot # 0
        <5>1. /\ next = Collected([p EXCEPT ![slot] = <<fields[n].value>>])
              /\ Fills([p EXCEPT ![slot] = <<fields[n].value>>], fields, n)
          BY <2>2, <2>3, <2>6, <4>2
        <5>2. QED
          BY <5>1, Zenon DEF Fills
      <4>3. QED
        BY <4>1, <4>2
    <3>3. QED
      BY <3>1, <3>2 DEF Gathered, next
  <2>7. QED
    BY <2>5, <2>6
<1>6. QED
  BY <1>4, <1>5 DEF Gathered

\* So every pass ends.
LEMMA GatheredRun ==
    ASSUME NEW fields \in Seq(ForwardingFields), NEW order, NEW g,
           g[0] = Collected(NoPrior),
           \A i \in 1 .. Len(fields) : g[i] = GatherStep(order, g[i - 1], fields[i])
    PROVE  Gathered(g[Len(fields)], fields, Len(fields), order)
<1> DEFINE N == Len(fields)
           P == {i \in 0 .. N : Gathered(g[i], fields, i, order)}
<1>1. N \in Nat
  OBVIOUS
<1>2. 0 \in P
  <2>1. Fills(NoPrior, fields, 0)
    <3>1. NoPrior \in Priors /\ DOMAIN SLOTS = 1 .. 4
      BY NoPriorGathered, SlotFacts
    <3>2. \A slot \in 1 .. 4 : NoPrior[slot] = <<>>
      BY <3>1 DEF NoPrior
    <3>3. \A slot \in 1 .. 4 : FillsSlot(NoPrior, fields, 0, slot)
      BY <3>2 DEF FillsSlot
    <3>4. QED
      BY <3>1, <3>3 DEF Fills
  <2>2. Gathered(g[0], fields, 0, order)
    <3>1. \E p \in Priors : g[0] = Collected(p) /\ Fills(p, fields, 0)
      BY <2>1, NoPriorGathered
    <3>2. QED
      BY <3>1 DEF Gathered
  <2>3. 0 \in 0 .. N
    BY <1>1
  <2>4. QED
    BY <2>2, <2>3, Zenon
<1>3. ASSUME NEW i \in 1 .. N, i - 1 \in P
      PROVE  i \in P
  <2>1. i \in 0 .. N
    BY <1>1
  <2>2. Gathered(g[i - 1], fields, i - 1, order)
    BY <1>3, Zenon
  <2>3. Gathered(GatherStep(order, g[i - 1], fields[i]), fields, i, order)
    BY <2>2, GatheredStep
  <2>4. Gathered(g[i], fields, i, order)
    BY <2>3
  <2>5. QED
    BY <2>1, <2>4, Zenon
<1>4. 0 .. N \subseteq P
  <2> HIDE DEF P, N
  <2>1. QED
    BY <1>1, <1>2, <1>3, Induction
<1>5. QED
  BY <1>1, <1>4

-----------------------------------------------------------------------------
\* primitive_boundary keeps positions where the others keep values.

PlaceStates(N) == {Collected(q) : q \in [DOMAIN SLOTS -> 0 .. N]} \cup Faults

PlaceStep(fields, positions, index) ==
    LET field == fields[index]
        slot == SlotOf(field)
        checked == ScanValue(field.value)
    IN  CASE positions.tag # "collected" \/ slot = 0 -> positions
          [] positions.tag = "collected" /\ slot # 0 /\ checked.tag # "collected" -> checked
          [] OTHER -> IF positions.values[slot] # 0 THEN InvalidForwardingInput
                      ELSE [positions EXCEPT !.values[slot] = index]

PlaceMoves(fields, s, i) ==
    LET slot == SlotOf(fields[i])
        checked == ScanValue(fields[i].value)
        next == PlaceStep(fields, s, i)
    IN  /\ next \in PlaceStates(Len(fields))
        /\ s.tag # "collected" \/ slot = 0 => next = s
        /\ s.tag = "collected" /\ slot # 0 /\ checked.tag # "collected" => next = checked
        /\ s.tag = "collected" /\ slot # 0 /\ checked.tag = "collected" /\ s.values[slot] # 0 =>
              next = InvalidForwardingInput
        /\ s.tag = "collected" /\ slot # 0 /\ checked.tag = "collected" /\ s.values[slot] = 0 =>
              next = Collected([s.values EXCEPT ![slot] = i])

LEMMA PlaceCases ==
    ASSUME NEW N \in Nat, NEW s \in PlaceStates(N)
    PROVE  /\ s.tag = "collected" => s.values \in [1 .. 4 -> 0 .. N] /\ s = Collected(s.values)
           /\ s.tag # "collected" => s \in Faults
<1>1. CASE s \in Faults
  BY <1>1, FaultFacts
<1>2. CASE s \in {Collected(q) : q \in [DOMAIN SLOTS -> 0 .. N]}
  <2>1. PICK q \in [DOMAIN SLOTS -> 0 .. N] : s = Collected(q)
    BY <1>2
  <2>2. DOMAIN SLOTS = 1 .. 4
    BY SlotFacts
  <2>3. QED
    BY <2>1, <2>2, CollectedFacts
<1>3. QED
  BY <1>1, <1>2 DEF PlaceStates

LEMMA PlaceStepCases ==
    ASSUME NEW fields \in Seq(ForwardingFields), NEW i \in 1 .. Len(fields), NEW s \in PlaceStates(Len(fields))
    PROVE  PlaceMoves(fields, s, i) /\ PlaceStep(fields, s, i) \in PlaceStates(Len(fields))
<1> DEFINE N == Len(fields)
           slot == SlotOf(fields[i])
           checked == ScanValue(fields[i].value)
           next == PlaceStep(fields, s, i)
<1>1. next = CASE s.tag # "collected" \/ slot = 0 -> s
               [] s.tag = "collected" /\ slot # 0 /\ checked.tag # "collected" -> checked
               [] OTHER -> IF s.values[slot] # 0 THEN InvalidForwardingInput
                           ELSE [s EXCEPT !.values[slot] = i]
  BY Zenon DEF PlaceStep
<1>2. slot \in 0 .. 4 /\ DOMAIN SLOTS = 1 .. 4 /\ N \in Nat
  BY SlotFacts
<1>3. checked.tag # "collected" => checked \in Faults
  BY FieldFacts, ScanTypes
<1>4. s.tag = "collected" => s.values \in [1 .. 4 -> 0 .. N] /\ s = Collected(s.values)
  BY PlaceCases
<1>5. InvalidForwardingInput \in Faults
  BY DEF Faults
<1>6. Faults \subseteq PlaceStates(N)
  BY DEF PlaceStates
<1> SUFFICES /\ next \in PlaceStates(N)
             /\ s.tag # "collected" \/ slot = 0 => next = s
             /\ s.tag = "collected" /\ slot # 0 /\ checked.tag # "collected" => next = checked
             /\ s.tag = "collected" /\ slot # 0 /\ checked.tag = "collected" /\ s.values[slot] # 0 =>
                   next = InvalidForwardingInput
             /\ s.tag = "collected" /\ slot # 0 /\ checked.tag = "collected" /\ s.values[slot] = 0 =>
                   next = Collected([s.values EXCEPT ![slot] = i])
  BY Zenon DEF PlaceMoves
<1> HIDE DEF slot, checked, next
<1>7. CASE s.tag # "collected" \/ slot = 0
  <2>1. next = s
    BY <1>1, <1>7, Zenon
  <2>2. QED
    BY <1>7, <2>1, Zenon
<1>8. CASE s.tag = "collected" /\ slot # 0 /\ checked.tag # "collected"
  <2>1. next = checked
    BY <1>1, <1>8, Zenon
  <2>2. QED
    BY <1>3, <1>6, <1>8, <2>1, Zenon
<1>9. CASE s.tag = "collected" /\ slot # 0 /\ checked.tag = "collected" /\ s.values[slot] # 0
  <2>1. next = InvalidForwardingInput
    BY <1>1, <1>9, Zenon
  <2>2. QED
    BY <1>5, <1>6, <1>9, <2>1, Zenon
<1>10. CASE s.tag = "collected" /\ slot # 0 /\ checked.tag = "collected" /\ s.values[slot] = 0
  <2>1. next = [s EXCEPT !.values[slot] = i]
    BY <1>1, <1>10, Zenon
  <2>2. slot \in 1 .. 4 /\ i \in 0 .. N
    BY <1>2, <1>10
  <2>3. [s.values EXCEPT ![slot] = i] \in [1 .. 4 -> 0 .. N]
    BY <1>4, <1>10, <2>2
  <2>4. [Collected(s.values) EXCEPT !.values[slot] = i] = Collected([s.values EXCEPT ![slot] = i])
    <3>1. ASSUME NEW q \in [1 .. 4 -> 0 .. N]
          PROVE  [Collected(q) EXCEPT !.values[slot] = i] = Collected([q EXCEPT ![slot] = i])
      BY DEF Collected, ForwardingOutcome
    <3>2. QED
      BY <1>4, <1>10, <3>1, Zenon
  <2>5. next = Collected([s.values EXCEPT ![slot] = i])
    BY <1>4, <1>10, <2>1, <2>4, Zenon
  <2>6. next \in PlaceStates(N)
    BY <1>2, <2>3, <2>5 DEF PlaceStates
  <2>7. QED
    BY <1>10, <2>5, <2>6, Zenon
<1>11. QED
  BY <1>7, <1>8, <1>9, <1>10, Zenon

LEMMA TrustedFold ==
    ASSUME NEW fields \in Seq(ForwardingFields)
    PROVE  \E g \in [0 .. Len(fields) -> PlaceStates(Len(fields))] :
              /\ g[0] = Collected([slot \in DOMAIN SLOTS |-> 0])
              /\ \A i \in 1 .. Len(fields) : g[i] = PlaceStep(fields, g[i - 1], i)
              /\ TrustedHeaders(fields) = g[Len(fields)]
<1> DEFINE N == Len(fields)
           V == PlaceStates(N)
           places == [i \in DOMAIN fields |-> i]
           start == Collected([slot \in DOMAIN SLOTS |-> 0])
           op(positions, index) == PlaceStep(fields, positions, index)
           Body(f) == [t \in SUBSET DOMAIN places |->
                         IF t = {} THEN start ELSE op(f[t \ {Max(t)}], places[Max(t)])]
           iter == CHOOSE f : f = Body(f)
           step == [p \in V \X (1 .. N) |-> op(p[1], places[p[2]])]
<1>1. TrustedHeaders(fields) = iter[DOMAIN places]
  BY DEF TrustedHeaders, FoldLeftDomain, FoldLeft, MapThenFoldSet, PlaceStep
<1>2. N \in Nat /\ DOMAIN fields = 1 .. N /\ DOMAIN places = 1 .. N /\ \A i \in 1 .. N : places[i] = i
  OBVIOUS
<1>3. start \in V
  BY <1>2 DEF PlaceStates
<1>4. ASSUME NEW s \in V, NEW i \in 1 .. N
      PROVE  op(s, places[i]) \in V
  BY <1>2, PlaceStepCases
<1> HIDE DEF V, start, op, places
<1>5. step \in [V \X (1 .. N) -> V]
  BY <1>4
<1>6. ASSUME NEW t \in SUBSET (1 .. N), t # {}
      PROVE  Max(t) \in 1 .. N
  BY <1>2, <1>6, MaxIn
<1>7. ASSUME NEW h, FoldsTo(h, V, start, N, step)
      PROVE  h = Body(h)
  <2>1. ASSUME NEW t \in SUBSET (1 .. N)
        PROVE  h[t] = IF t = {} THEN start ELSE op(h[t \ {Max(t)}], places[Max(t)])
    BY <1>6, <1>7 DEF FoldsTo
  <2>2. QED
    BY <1>2, <1>7, <2>1 DEF FoldsTo
<1>8. ASSUME NEW h, h = Body(h)
      PROVE  Obeys(h, V, start, N, step)
  <2>1. ASSUME NEW t \in SUBSET (1 .. N)
        PROVE  h[t] = IF t = {} THEN start ELSE op(h[t \ {Max(t)}], places[Max(t)])
    BY <1>2, <1>8
  <2>2. QED
    BY <1>6, <2>1 DEF Obeys
<1>9. iter = Body(iter)
  <2>1. PICK h : FoldsTo(h, V, start, N, step)
    BY <1>2, <1>3, <1>5, FoldExists
  <2>2. h = Body(h)
    BY <1>7, <2>1
  <2> HIDE DEF Body
  <2>3. QED
    BY <2>2
<1> HIDE DEF iter, Body
<1>10. Obeys(iter, V, start, N, step)
  BY <1>8, <1>9
<1>11. PICK g : Runs(g, V, start, N, step, iter[1 .. N])
  BY <1>2, <1>3, <1>5, <1>10, FoldValues
<1>12. /\ g \in [0 .. N -> V] /\ g[0] = start /\ g[N] = iter[1 .. N]
       /\ \A i \in 1 .. N : g[i] = op(g[i - 1], places[i])
  <2>1. /\ g \in [0 .. N -> V] /\ g[0] = start /\ g[N] = iter[1 .. N]
        /\ \A i \in 1 .. N : g[i] = step[<<g[i - 1], i>>]
    <3> HIDE DEF step, N
    <3>1. QED
      BY <1>11 DEF Runs
  <2>2. \A i \in 1 .. N : i - 1 \in 0 .. N
    BY <1>2
  <2>3. QED
    BY <2>1, <2>2
<1>13. QED
  BY <1>1, <1>2, <1>12 DEF V, start, op

\* The values at the positions.
ValuesAt(fields, q) ==
    [slot \in DOMAIN SLOTS |-> IF q[slot] = 0 THEN <<>> ELSE <<fields[q[slot]].value>>]

\* Positions s stand for the values t.
StandsFor(s, t, fields) ==
    \/ s \in Faults /\ t = s
    \/ \E q \in [1 .. 4 -> 0 .. Len(fields)] : s = Collected(q) /\ t = Collected(ValuesAt(fields, q))

ValueMoves(fields, q, slot, i) ==
    ValuesAt(fields, [q EXCEPT ![slot] = i]) = [ValuesAt(fields, q) EXCEPT ![slot] = <<fields[i].value>>]

LEMMA ValuesAtFacts ==
    ASSUME NEW fields \in Seq(ForwardingFields), NEW q \in [1 .. 4 -> 0 .. Len(fields)]
    PROVE  /\ ValuesAt(fields, q) \in Priors
           /\ \A slot \in 1 .. 4 : (ValuesAt(fields, q)[slot] = <<>>) <=> (q[slot] = 0)
           /\ \A slot \in 1 .. 4, i \in 1 .. Len(fields) : ValueMoves(fields, q, slot, i)
<1>1. DOMAIN SLOTS = 1 .. 4
  BY SlotFacts
<1>2. ASSUME NEW slot \in 1 .. 4, q[slot] # 0
      PROVE  fields[q[slot]].value \in Seq(STRING)
  <2>1. q[slot] \in 1 .. Len(fields)
    BY <1>2
  <2>2. QED
    BY <2>1, FieldFacts
<1>3. ValuesAt(fields, q) \in Priors
  BY <1>1, <1>2 DEF ValuesAt, Priors
<1>4. \A slot \in 1 .. 4 : (ValuesAt(fields, q)[slot] = <<>>) <=> (q[slot] = 0)
  BY <1>1 DEF ValuesAt
<1>5. ASSUME NEW slot \in 1 .. 4, NEW i \in 1 .. Len(fields)
      PROVE  ValueMoves(fields, q, slot, i)
  <2> DEFINE r == [q EXCEPT ![slot] = i]
             p == ValuesAt(fields, q)
             v == ValuesAt(fields, r)
             w == [p EXCEPT ![slot] = <<fields[i].value>>]
  <2>1. r[slot] = i /\ i # 0 /\ \A other \in 1 .. 4 : other # slot => r[other] = q[other]
    OBVIOUS
  <2> HIDE DEF r
  <2>2. /\ v = [other \in 1 .. 4 |-> IF r[other] = 0 THEN <<>> ELSE <<fields[r[other]].value>>]
        /\ p = [other \in 1 .. 4 |-> IF q[other] = 0 THEN <<>> ELSE <<fields[q[other]].value>>]
    BY <1>1 DEF ValuesAt
  <2> HIDE DEF v, p
  <2>3. w = [other \in 1 .. 4 |-> IF other = slot THEN <<fields[i].value>> ELSE p[other]]
    BY <2>2
  <2> HIDE DEF w
  <2>4. \A other \in 1 .. 4 : v[other] = w[other]
    BY <2>1, <2>2, <2>3
  <2>5. v = w
    BY <2>2, <2>3, <2>4
  <2>6. QED
    BY <2>5 DEF ValueMoves, v, w, p, r
<1>6. QED
  BY <1>3, <1>4, <1>5

LEMMA StandsForStep ==
    ASSUME NEW fields \in Seq(ForwardingFields), NEW i \in 1 .. Len(fields), NEW s, NEW t,
           StandsFor(s, t, fields)
    PROVE  StandsFor(PlaceStep(fields, s, i), ValueFirst(t, fields[i], ScanValue(fields[i].value)), fields)
<1> DEFINE N == Len(fields)
           slot == SlotOf(fields[i])
           checked == ScanValue(fields[i].value)
           next == PlaceStep(fields, s, i)
           then == ValueFirst(t, fields[i], checked)
<1>1. fields[i].value \in Seq(STRING) /\ slot \in 0 .. 4 /\ DOMAIN SLOTS = 1 .. 4
  BY FieldFacts, SlotFacts
<1>2. CASE s \in Faults /\ t = s
  <2>1. s.tag # "collected" /\ s \in PlaceStates(N) /\ t \in GatherStates
    BY <1>2, FaultFacts DEF PlaceStates, GatherStates
  <2>2. next = s
    <3>1. PlaceMoves(fields, s, i)
      BY <2>1, PlaceStepCases
    <3>2. QED
      BY <2>1, <3>1 DEF PlaceMoves
  <2>3. then = t
    BY <1>1, <1>2, <2>1, ValueFirstCases
  <2>4. QED
    BY <1>2, <2>2, <2>3 DEF StandsFor
<1>3. CASE \E q \in [1 .. 4 -> 0 .. N] : s = Collected(q) /\ t = Collected(ValuesAt(fields, q))
  <2>1. PICK q \in [1 .. 4 -> 0 .. N] : s = Collected(q) /\ t = Collected(ValuesAt(fields, q))
    BY <1>3
  <2> DEFINE p == ValuesAt(fields, q)
  <2>2. p \in Priors /\ \A other \in 1 .. 4 : (p[other] = <<>>) <=> (q[other] = 0)
    BY ValuesAtFacts
  <2> HIDE DEF p
  <2>3. s.tag = "collected" /\ s.values = q /\ t.tag = "collected" /\ t.values = p /\ t = Collected(p)
    BY <2>1, CollectedFacts DEF p
  <2>4. s \in PlaceStates(N) /\ t \in GatherStates
    BY <1>1, <2>1, <2>2, <2>3 DEF PlaceStates, GatherStates
  <2>5. /\ slot = 0 => next = s
        /\ slot # 0 /\ checked.tag # "collected" => next = checked
        /\ slot # 0 /\ checked.tag = "collected" /\ q[slot] # 0 => next = InvalidForwardingInput
        /\ slot # 0 /\ checked.tag = "collected" /\ q[slot] = 0 => next = Collected([q EXCEPT ![slot] = i])
    <3>1. PlaceMoves(fields, s, i)
      BY <2>4, PlaceStepCases
    <3>2. QED
      BY <2>3, <3>1 DEF PlaceMoves
  <2>6. /\ slot = 0 => then = t
        /\ slot # 0 /\ checked.tag # "collected" => then = checked
        /\ slot # 0 /\ checked.tag = "collected" /\ p[slot] # <<>> => then = InvalidForwardingInput
        /\ slot # 0 /\ checked.tag = "collected" /\ p[slot] = <<>> =>
              then = Collected([p EXCEPT ![slot] = <<fields[i].value>>])
    BY <1>1, <2>3, <2>4, ValueFirstCases
  <2>7. checked.tag # "collected" => checked \in Faults
    BY <1>1, ScanTypes
  <2>8. InvalidForwardingInput \in Faults
    BY DEF Faults
  <2> SUFFICES StandsFor(next, then, fields)
    OBVIOUS
  <2> HIDE DEF slot, checked, next, then
  <2>9. CASE slot = 0
    BY <2>1, <2>5, <2>6, <2>9 DEF StandsFor
  <2>10. CASE slot # 0 /\ checked.tag # "collected"
    BY <2>5, <2>6, <2>7, <2>10 DEF StandsFor
  <2>11. CASE slot # 0 /\ checked.tag = "collected" /\ q[slot] # 0
    <3>1. p[slot] # <<>>
      BY <1>1, <2>2, <2>11
    <3>2. QED
      BY <2>5, <2>6, <2>8, <2>11, <3>1 DEF StandsFor
  <2>12. CASE slot # 0 /\ checked.tag = "collected" /\ q[slot] = 0
    <3>1. slot \in 1 .. 4
      BY <1>1, <2>12
    <3>2. p[slot] = <<>>
      BY <2>2, <2>12, <3>1
    <3>3. next = Collected([q EXCEPT ![slot] = i])
      BY <2>5, <2>12
    <3>4. then = Collected([p EXCEPT ![slot] = <<fields[i].value>>])
      BY <2>6, <2>12, <3>2
    <3>5. ValuesAt(fields, [q EXCEPT ![slot] = i]) = [p EXCEPT ![slot] = <<fields[i].value>>]
      <4>1. ValueMoves(fields, q, slot, i)
        BY <3>1, ValuesAtFacts
      <4>2. QED
        BY <4>1 DEF ValueMoves, p
    <3>6. [q EXCEPT ![slot] = i] \in [1 .. 4 -> 0 .. N]
      BY <3>1
    <3>7. QED
      BY <3>3, <3>4, <3>5, <3>6, Zenon DEF StandsFor
  <2>13. QED
    BY <2>9, <2>10, <2>11, <2>12
<1>4. QED
  BY <1>2, <1>3 DEF StandsFor

LEMMA TrustedIsIncoming ==
    ASSUME NEW fields \in Seq(ForwardingFields)
    PROVE  StandsFor(TrustedHeaders(fields), IncomingValues(fields), fields)
<1> DEFINE N == Len(fields)
<1>1. PICK g \in [0 .. N -> PlaceStates(N)] :
         /\ g[0] = Collected([slot \in DOMAIN SLOTS |-> 0])
         /\ \A i \in 1 .. N : g[i] = PlaceStep(fields, g[i - 1], i)
         /\ TrustedHeaders(fields) = g[N]
  BY TrustedFold
<1>2. PICK h \in [0 .. N -> GatherStates] :
         /\ h[0] = Collected(NoPrior)
         /\ \A i \in 1 .. N : h[i] = ValueFirst(h[i - 1], fields[i], ScanValue(fields[i].value))
         /\ IncomingValues(fields) = h[N]
  BY IncomingFold
<1>3. N \in Nat
  OBVIOUS
<1> DEFINE P == {i \in 0 .. N : StandsFor(g[i], h[i], fields)}
<1>4. 0 \in P
  <2> DEFINE q == [slot \in 1 .. 4 |-> 0]
  <2>1. DOMAIN SLOTS = 1 .. 4
    BY SlotFacts
  <2>2. q \in [1 .. 4 -> 0 .. N]
    BY <1>3
  <2>3. g[0] = Collected(q)
    BY <1>1, <2>1
  <2>4. ValuesAt(fields, q) = NoPrior
    BY <2>1 DEF ValuesAt, NoPrior
  <2> HIDE DEF q
  <2>5. StandsFor(g[0], h[0], fields)
    BY <1>2, <2>2, <2>3, <2>4 DEF StandsFor
  <2>6. 0 \in 0 .. N
    BY <1>3
  <2>7. QED
    BY <2>5, <2>6, Zenon
<1>5. ASSUME NEW i \in 1 .. N, i - 1 \in P
      PROVE  i \in P
  <2>1. i \in 0 .. N
    BY <1>3
  <2>2. StandsFor(g[i - 1], h[i - 1], fields)
    BY <1>5, Zenon
  <2>3. StandsFor(PlaceStep(fields, g[i - 1], i),
                  ValueFirst(h[i - 1], fields[i], ScanValue(fields[i].value)), fields)
    BY <2>2, StandsForStep
  <2>4. StandsFor(g[i], h[i], fields)
    BY <1>1, <1>2, <2>3
  <2>5. QED
    BY <2>1, <2>4, Zenon
<1>6. 0 .. N \subseteq P
  <2> HIDE DEF P, N
  <2>1. QED
    BY <1>3, <1>4, <1>5, Induction
<1>7. QED
  BY <1>1, <1>2, <1>3, <1>6

-----------------------------------------------------------------------------
\* The answers of the five, and of the rule.

AnswerTo(policy, s) ==
    IF ~ValidListener(policy) THEN InvalidForwardingInput
    ELSE IF s.tag # "collected" THEN s
    ELSE ExtendAll(s.values, Additions(policy))

Read(policy, pass) == IF policy.trust_incoming THEN pass ELSE Collected(NoPrior)

LEMMA HopLength ==
    ASSUME NEW policy
    PROVE  Len(Hop(policy)) \in Nat
BY DEF Hop

LEMMA PolicyFacts ==
    ASSUME NEW policy \in Policies
    PROVE  /\ policy.trust_incoming \in BOOLEAN
           /\ CanonicalClient(policy) /\ CanonicalIfV4(policy)
           /\ ~(Len(Hop(policy)) > VALUE_LIMIT)
<1>1. policy.client.canonical /\ policy.trust_incoming \in BOOLEAN /\ Len(Hop(policy)) <= VALUE_LIMIT
  BY ForwardingInputs
<1>2. Len(Hop(policy)) \in Nat
  BY <1>1, ForwardingAssumption, HopLength
<1>3. QED
  BY <1>1, <1>2, ForwardingAssumption DEF CanonicalClient, CanonicalIfV4

LEMMA DirectMatchAnswers ==
    ASSUME NEW policy \in Policies, NEW fields
    PROVE  DirectMatchForwarding(policy, fields) = AnswerTo(policy, Read(policy, InspectPriorValues(fields)))
<1> DEFINE prior == Read(policy, InspectPriorValues(fields))
           listens == ValidListener(policy)
           refused == prior.tag # "collected"
<1>1. CanonicalClient(policy) /\ ~(Len(Hop(policy)) > VALUE_LIMIT)
  BY PolicyFacts
<1>2. DirectMatchForwarding(policy, fields) =
         CASE ~(CanonicalClient(policy) /\ listens) -> InvalidForwardingInput
           [] CanonicalClient(policy) /\ listens /\ refused -> prior
           [] OTHER -> IF Len(Hop(policy)) > VALUE_LIMIT THEN OverLimit(Len(Hop(policy)))
                       ELSE ExtendAll(prior.values, Additions(policy))
  BY Zenon DEF DirectMatchForwarding, Read
<1>3. AnswerTo(policy, prior) = IF ~listens THEN InvalidForwardingInput
                                ELSE IF refused THEN prior ELSE ExtendAll(prior.values, Additions(policy))
  BY Zenon DEF AnswerTo
<1> HIDE DEF prior, listens, refused
<1>4. CASE ~listens
  BY <1>1, <1>2, <1>3, <1>4, Zenon DEF prior
<1>5. CASE listens /\ refused
  BY <1>1, <1>2, <1>3, <1>5, Zenon DEF prior
<1>6. CASE listens /\ ~refused
  BY <1>1, <1>2, <1>3, <1>6, Zenon DEF prior
<1>7. QED
  BY <1>4, <1>5, <1>6, Zenon

LEMMA TransitionModelAnswers ==
    ASSUME NEW policy \in Policies, NEW fields
    PROVE  TransitionModelForwarding(policy, fields) = AnswerTo(policy, Read(policy, IncomingValues(fields)))
<1>1. CanonicalIfV4(policy)
  BY PolicyFacts
<1>2. Collected(NoPrior).tag = "collected" /\ Collected(NoPrior).values = NoPrior
  BY CollectedFacts
<1>3. QED
  BY <1>1, <1>2, Zenon DEF TransitionModelForwarding, AnswerTo, Read

LEMMA CentralTransitionAnswers ==
    ASSUME NEW policy \in Policies, NEW fields
    PROVE  CentralTransitionForwarding(policy, fields) = AnswerTo(policy, Read(policy, IncomingValues(fields)))
<1>1. CanonicalClient(policy)
  BY PolicyFacts
<1>2. Collected(NoPrior).tag = "collected" /\ Collected(NoPrior).values = NoPrior
  BY CollectedFacts
<1>3. CollectForwardingHeaders(fields) = IncomingValues(fields)
  BY Zenon DEF CollectForwardingHeaders, IncomingValues
<1>4. QED
  BY <1>1, <1>2, <1>3, Zenon DEF CentralTransitionForwarding, AnswerTo, Read

LEMMA DecisionTableAnswers ==
    ASSUME NEW policy \in Policies, NEW fields \in Seq(ForwardingFields)
    PROVE  DecisionTableForwarding(policy, fields) = AnswerTo(policy, Read(policy, CollectTrustedValues(fields)))
<1> DEFINE previous == Read(policy, CollectTrustedValues(fields))
           prefix == [slot \in DOMAIN SLOTS |->
                         IF (IF policy.trust_incoming THEN "Extend" ELSE "Replace") = "Replace" THEN <<>>
                         ELSE previous.values[slot]]
<1>1. CanonicalIfV4(policy) /\ ~(Len(Hop(policy)) > VALUE_LIMIT)
  BY PolicyFacts
<1>2. DecisionTableForwarding(policy, fields) =
         IF ~(CanonicalIfV4(policy) /\ ValidListener(policy)) THEN InvalidForwardingInput
         ELSE IF previous.tag # "collected" THEN previous
         ELSE IF Len(Hop(policy)) > VALUE_LIMIT THEN OverLimit(Len(Hop(policy)))
         ELSE ExtendAll(prefix, Additions(policy))
  BY Zenon DEF DecisionTableForwarding, Read
<1>3. previous \in GatherStates
  <2>1. \E g \in [0 .. Len(fields) -> GatherStates] : CollectTrustedValues(fields) = g[Len(fields)]
    BY CollectFold
  <2>2. Len(fields) \in 0 .. Len(fields)
    OBVIOUS
  <2>3. QED
    BY <2>1, <2>2, NoPriorGathered DEF Read
<1>4. previous.tag = "collected" => prefix = previous.values
  <2>1. CASE policy.trust_incoming
    <3>1. previous.tag = "collected" => previous.values \in Priors
      BY <1>3, GatherCases
    <3> HIDE DEF previous
    <3>2. prefix = [slot \in DOMAIN SLOTS |-> previous.values[slot]]
      BY <2>1
    <3>3. QED
      BY <3>1, <3>2 DEF Priors
  <2>2. CASE ~policy.trust_incoming
    <3>1. previous.values = NoPrior
      BY <2>2, CollectedFacts DEF Read
    <3> HIDE DEF previous
    <3>2. prefix = [slot \in DOMAIN SLOTS |-> <<>>]
      BY <2>2
    <3>3. QED
      BY <3>1, <3>2 DEF NoPrior
  <2>3. QED
    BY <2>1, <2>2, PolicyFacts
<1> HIDE DEF previous, prefix
<1>5. QED
  BY <1>1, <1>2, <1>4, Zenon DEF AnswerTo, previous

LEMMA PrimitiveBoundaryAnswers ==
    ASSUME NEW policy \in Policies, NEW fields \in Seq(ForwardingFields)
    PROVE  PrimitiveBoundaryForwarding(policy, fields) = AnswerTo(policy, Read(policy, IncomingValues(fields)))
<1> DEFINE none == [slot \in DOMAIN SLOTS |-> 0]
           positions == IF policy.trust_incoming THEN TrustedHeaders(fields) ELSE Collected(none)
           incoming == Read(policy, IncomingValues(fields))
<1>1. CanonicalIfV4(policy) /\ ~(Len(Hop(policy)) > VALUE_LIMIT)
  BY PolicyFacts
<1>2. PrimitiveBoundaryForwarding(policy, fields) =
         IF ~(CanonicalIfV4(policy) /\ ValidListener(policy)) THEN InvalidForwardingInput
         ELSE IF positions.tag # "collected" THEN positions
         ELSE IF Len(Hop(policy)) > VALUE_LIMIT THEN OverLimit(Len(Hop(policy)))
         ELSE ExtendAll(ValuesAt(fields, positions.values), Additions(policy))
  BY Zenon DEF PrimitiveBoundaryForwarding, ValuesAt
<1>3. /\ positions.tag # "collected" => incoming = positions
      /\ positions.tag = "collected" => incoming = Collected(ValuesAt(fields, positions.values))
  <2>1. CASE policy.trust_incoming
    <3>1. positions = TrustedHeaders(fields) /\ incoming = IncomingValues(fields)
      BY <2>1 DEF Read
    <3> HIDE DEF positions, incoming
    <3>2. StandsFor(positions, incoming, fields)
      BY <3>1, TrustedIsIncoming
    <3>3. CASE positions \in Faults /\ incoming = positions
      BY <3>3, FaultFacts
    <3>4. CASE \E q \in [1 .. 4 -> 0 .. Len(fields)] :
                  positions = Collected(q) /\ incoming = Collected(ValuesAt(fields, q))
      BY <3>4, CollectedFacts
    <3>5. QED
      BY <3>2, <3>3, <3>4 DEF StandsFor
  <2>2. CASE ~policy.trust_incoming
    <3>1. positions = Collected(none) /\ incoming = Collected(NoPrior)
      BY <2>2 DEF Read
    <3>2. ValuesAt(fields, none) = NoPrior
      BY DEF ValuesAt, NoPrior
    <3> HIDE DEF positions, incoming, none
    <3>3. QED
      BY <3>1, <3>2, CollectedFacts
  <2>3. QED
    BY <2>1, <2>2, PolicyFacts
<1>4. positions.tag = "collected" => incoming.tag = "collected" /\ incoming.values = ValuesAt(fields, positions.values)
  <2> HIDE DEF positions, incoming
  <2>1. QED
    BY <1>3, CollectedFacts
<1> HIDE DEF positions, incoming
<1>5. AnswerTo(policy, incoming) =
         IF ~ValidListener(policy) THEN InvalidForwardingInput
         ELSE IF incoming.tag # "collected" THEN incoming
         ELSE ExtendAll(incoming.values, Additions(policy))
  BY Zenon DEF AnswerTo
<1> SUFFICES PrimitiveBoundaryForwarding(policy, fields) = AnswerTo(policy, incoming)
  BY DEF incoming
<1>6. CASE positions.tag # "collected"
  <2>1. incoming = positions
    BY <1>3, <1>6
  <2>2. QED
    BY <1>1, <1>2, <1>5, <1>6, <2>1, Zenon
<1>7. CASE positions.tag = "collected"
  <2>1. incoming.tag = "collected" /\ incoming.values = ValuesAt(fields, positions.values)
    BY <1>4, <1>7
  <2>2. QED
    BY <1>1, <1>2, <1>5, <1>7, <2>1, Zenon
<1>8. QED
  BY <1>6, <1>7, Zenon

\* A set of one value, or of none, as a sequence.
LEMMA SetToSeqEmpty == SetToSeq({}) = <<>>
<1>1. Cardinality({}) = 0
  BY FS_EmptySet
<1>2. \A f \in [1 .. 0 -> {}] : f = <<>>
  OBVIOUS
<1>3. <<>> \in [1 .. 0 -> {}] /\ IsInjective(<<>>)
  BY DEF IsInjective
<1>4. QED
  BY <1>1, <1>2, <1>3 DEF SetToSeq

LEMMA SetToSeqOne ==
    ASSUME NEW v
    PROVE  SetToSeq({v}) = <<v>>
<1>1. Cardinality({v}) = 1
  BY FS_Singleton
<1>2. \A f \in [1 .. 1 -> {v}] : f = <<v>>
  <2> TAKE f \in [1 .. 1 -> {v}]
  <2>1. f = [i \in 1 .. 1 |-> v]
    OBVIOUS
  <2>2. <<v>> = [i \in 1 .. 1 |-> v]
    OBVIOUS
  <2>3. QED
    BY <2>1, <2>2
<1>3. <<v>> \in [1 .. 1 -> {v}] /\ IsInjective(<<v>>)
  BY DEF IsInjective
<1>4. QED
  BY <1>1, <1>2, <1>3 DEF SetToSeq

\* The rule's values of a block without a fault.
RulePrior(fields) ==
    [slot \in DOMAIN SLOTS |->
        SetToSeq({fields[i].value : i \in {j \in {k \in DOMAIN fields : SlotOf(fields[k]) # 0} :
                                              SlotOf(fields[j]) = slot}})]

LEMMA RulePriorFilled ==
    ASSUME NEW fields \in Seq(ForwardingFields), NEW p \in Priors, Fills(p, fields, Len(fields))
    PROVE  RulePrior(fields) = p
<1> DEFINE N == Len(fields)
           met(slot) == {j \in {k \in DOMAIN fields : SlotOf(fields[k]) # 0} : SlotOf(fields[j]) = slot}
           held(slot) == {fields[i].value : i \in met(slot)}
<1>1. DOMAIN SLOTS = 1 .. 4 /\ DOMAIN fields = 1 .. N
  BY SlotFacts
<1>2. ASSUME NEW slot \in 1 .. 4
      PROVE  SetToSeq(held(slot)) = p[slot]
  <2>1. met(slot) = {j \in 1 .. N : SlotOf(fields[j]) = slot}
    BY <1>1
  <2> HIDE DEF met
  <2>2. FillsSlot(p, fields, N, slot)
    BY DEF Fills
  <2>3. CASE p[slot] = <<>> /\ \A i \in 1 .. N : SlotOf(fields[i]) # slot
    <3>1. held(slot) = {}
      BY <2>1, <2>3
    <3> HIDE DEF held
    <3>2. QED
      BY <2>3, <3>1, SetToSeqEmpty, Zenon
  <2>4. CASE \E i \in 1 .. N : /\ SlotOf(fields[i]) = slot
                               /\ p[slot] = <<fields[i].value>>
                               /\ \A j \in 1 .. N : SlotOf(fields[j]) = slot => j = i
    <3>1. PICK i \in 1 .. N : /\ SlotOf(fields[i]) = slot
                              /\ p[slot] = <<fields[i].value>>
                              /\ \A j \in 1 .. N : SlotOf(fields[j]) = slot => j = i
      BY <2>4
    <3>2. met(slot) = {i}
      BY <2>1, <3>1
    <3>3. held(slot) = {fields[i].value}
      BY <3>2
    <3> HIDE DEF held
    <3>4. QED
      BY <3>1, <3>3, SetToSeqOne, Zenon
  <2>5. QED
    BY <2>2, <2>3, <2>4 DEF FillsSlot
<1>3. RulePrior(fields) = [slot \in 1 .. 4 |-> SetToSeq(held(slot))]
  BY <1>1, Zenon DEF RulePrior
<1>4. p = [slot \in 1 .. 4 |-> p[slot]]
  BY <1>1 DEF Priors
<1> HIDE DEF held
<1>5. QED
  BY <1>2, <1>3, <1>4

LEMMA RuleAnswers ==
    ASSUME NEW policy \in Policies, NEW fields \in Seq(ForwardingFields), NEW s,
           Gathered(s, fields, Len(fields), "duplicate")
    PROVE  ForwardingRule(policy, fields) = AnswerTo(policy, Read(policy, s))
<1> DEFINE N == Len(fields)
           slots == {i \in DOMAIN fields : SlotOf(fields[i]) # 0}
           faulty == {i \in slots : Repeats(fields, i) \/ ScanValue(fields[i].value).tag # "collected"}
<1>1. ForwardingRule(policy, fields) =
         IF ~ValidListener(policy) THEN InvalidForwardingInput
         ELSE IF ~policy.trust_incoming THEN ExtendAll(NoPrior, Additions(policy))
         ELSE IF faulty # {}
         THEN IF Repeats(fields, Min(faulty)) THEN InvalidForwardingInput
              ELSE ScanValue(fields[Min(faulty)].value)
         ELSE ExtendAll(RulePrior(fields), Additions(policy))
  BY Zenon DEF ForwardingRule, RulePrior
<1>2. N \in Nat /\ DOMAIN fields = 1 .. N
  OBVIOUS
<1>3. faulty = {i \in 1 .. N : FieldFault(fields, i)}
  BY <1>2 DEF FieldFault
<1> HIDE DEF faulty
<1>4. CASE ~ValidListener(policy)
  BY <1>1, <1>4, Zenon DEF AnswerTo
<1>5. CASE ValidListener(policy) /\ ~policy.trust_incoming
  <2>1. Collected(NoPrior).tag = "collected" /\ Collected(NoPrior).values = NoPrior
    BY CollectedFacts
  <2>2. QED
    BY <1>1, <1>5, <2>1, Zenon DEF AnswerTo, Read
<1>6. CASE ValidListener(policy) /\ policy.trust_incoming
  <2>1. AnswerTo(policy, Read(policy, s)) =
           IF s.tag # "collected" THEN s ELSE ExtendAll(s.values, Additions(policy))
    BY <1>6, Zenon DEF AnswerTo, Read
  <2>2. CASE /\ \A i \in 1 .. N : ~FieldFault(fields, i)
             /\ \E p \in Priors : s = Collected(p) /\ Fills(p, fields, N)
    <3>1. PICK p \in Priors : s = Collected(p) /\ Fills(p, fields, N)
      BY <2>2
    <3>2. faulty = {}
      BY <1>3, <2>2
    <3>3. RulePrior(fields) = p /\ s.tag = "collected" /\ s.values = p
      BY <3>1, RulePriorFilled, CollectedFacts
    <3>4. QED
      BY <1>1, <1>6, <2>1, <3>2, <3>3, Zenon
  <2>3. CASE FaultOfField(s, fields, N, "duplicate")
    <3>1. PICK k \in 1 .. N : /\ FieldFault(fields, k)
                              /\ \A i \in 1 .. k - 1 : ~FieldFault(fields, i)
                              /\ s = FaultAt("duplicate", fields, k)
      BY <2>3 DEF FaultOfField
    <3>2. k \in faulty /\ faulty \in SUBSET Nat
      BY <1>3, <3>1
    <3>3. Min(faulty) = k
      <4>1. Min(faulty) \in faulty /\ Min(faulty) <= k
        BY <3>2, SmallestOf
      <4>2. PICK m \in 1 .. N : m = Min(faulty) /\ m <= k /\ FieldFault(fields, m)
        BY <1>3, <4>1
      <4>3. m \notin 1 .. k - 1
        BY <3>1, <4>2
      <4>4. m = k
        BY <4>2, <4>3
      <4>5. QED
        BY <4>2, <4>4
    <3>4. s \in Faults
      BY <3>1, FaultAtFault
    <3>5. s.tag # "collected"
      BY <3>4, FaultFacts
    <3>6. s = IF Repeats(fields, k) THEN InvalidForwardingInput ELSE ScanValue(fields[k].value)
      BY <3>1 DEF FaultAt
    <3>7. faulty # {}
      BY <3>2
    <3>8. QED
      BY <1>1, <1>6, <2>1, <3>3, <3>5, <3>6, <3>7, Zenon
  <2>4. QED
    BY <2>2, <2>3 DEF Gathered
<1>7. QED
  BY <1>4, <1>5, <1>6, PolicyFacts

\* The two orders end alike, but for a repeated field over the limit.
LongRepeat(fields) == \E i \in DOMAIN fields : Repeats(fields, i) /\ Len(fields[i].value) > VALUE_LIMIT

LEMMA OrdersAgree ==
    ASSUME NEW fields \in Seq(ForwardingFields), NEW s, NEW t, NEW order,
           Gathered(s, fields, Len(fields), "duplicate"), Gathered(t, fields, Len(fields), order)
    PROVE  t = s \/ (s \in Faults /\ t \in Faults /\ LongRepeat(fields))
<1> DEFINE N == Len(fields)
<1>1. CASE \A i \in 1 .. N : ~FieldFault(fields, i)
  <2>1. PICK p \in Priors : s = Collected(p) /\ Fills(p, fields, N)
    BY <1>1 DEF Gathered, FaultOfField
  <2>2. PICK q \in Priors : t = Collected(q) /\ Fills(q, fields, N)
    BY <1>1 DEF Gathered, FaultOfField
  <2>3. p = q
    BY <2>1, <2>2, RulePriorFilled
  <2>4. QED
    BY <2>1, <2>2, <2>3
<1>2. CASE ~(\A i \in 1 .. N : ~FieldFault(fields, i))
  <2>1. PICK k \in 1 .. N : /\ FieldFault(fields, k)
                            /\ \A i \in 1 .. k - 1 : ~FieldFault(fields, i)
                            /\ s = FaultAt("duplicate", fields, k)
    BY <1>2 DEF Gathered, FaultOfField
  <2>2. PICK m \in 1 .. N : /\ FieldFault(fields, m)
                            /\ \A i \in 1 .. m - 1 : ~FieldFault(fields, i)
                            /\ t = FaultAt(order, fields, m)
    BY <1>2 DEF Gathered, FaultOfField
  <2>3. m = k
    <3>1. m \notin 1 .. k - 1 /\ k \notin 1 .. m - 1
      BY <2>1, <2>2
    <3>2. QED
      BY <3>1
  <2>4. s \in Faults /\ t \in Faults
    BY <2>1, <2>2, FaultAtFault
  <2> DEFINE checked == ScanValue(fields[k].value)
  <2>5. s = IF Repeats(fields, k) THEN InvalidForwardingInput ELSE checked
    BY <2>1 DEF FaultAt
  <2>6. t = s \/ t = IF checked.tag # "collected" THEN checked ELSE InvalidForwardingInput
    BY <2>1, <2>2, <2>3 DEF FaultAt
  <2>7. Repeats(fields, k) \/ checked.tag # "collected"
    BY <2>1 DEF FieldFault
  <2>8. \/ checked = Collected(<<fields[k].value>>)
        \/ checked = InvalidForwardingInput
        \/ Len(fields[k].value) > VALUE_LIMIT
    BY FieldFacts, ScanOutcomes
  <2>9. checked = Collected(<<fields[k].value>>) => checked.tag = "collected"
    BY CollectedFacts
  <2> HIDE DEF checked
  <2>10. t = s \/ (Repeats(fields, k) /\ Len(fields[k].value) > VALUE_LIMIT)
    BY <2>5, <2>6, <2>7, <2>8, <2>9
  <2>11. k \in DOMAIN fields
    OBVIOUS
  <2>12. QED
    BY <2>4, <2>10, <2>11 DEF LongRepeat
<1>3. QED
  BY <1>1, <1>2

LEMMA FaultAnswer ==
    ASSUME NEW policy, NEW s \in Faults
    PROVE  AnswerTo(policy, s).tag # "ForwardingResult"
<1>1. InvalidForwardingInput \in Faults
  BY DEF Faults
<1>2. AnswerTo(policy, s) \in Faults
  BY <1>1, FaultFacts DEF AnswerTo
<1>3. QED
  BY <1>2, FaultFacts

ForwardsAlike(outcome, policy, fields) ==
    \/ outcome = ForwardingRule(policy, fields)
    \/ /\ policy.trust_incoming
       /\ LongRepeat(fields)
       /\ "ForwardingResult" \notin {outcome.tag, ForwardingRule(policy, fields).tag}

LEMMA AnswersAgree ==
    ASSUME NEW policy \in Policies, NEW fields \in Seq(ForwardingFields), NEW s, NEW t, NEW order,
           Gathered(s, fields, Len(fields), "duplicate"), Gathered(t, fields, Len(fields), order)
    PROVE  ForwardsAlike(AnswerTo(policy, Read(policy, t)), policy, fields)
<1>1. ForwardingRule(policy, fields) = AnswerTo(policy, Read(policy, s))
  BY RuleAnswers
<1>2. CASE t = s
  BY <1>1, <1>2 DEF ForwardsAlike
<1>3. CASE ~policy.trust_incoming
  BY <1>1, <1>3 DEF ForwardsAlike, Read
<1>4. CASE policy.trust_incoming /\ s \in Faults /\ t \in Faults /\ LongRepeat(fields)
  <2>1. Read(policy, s) = s /\ Read(policy, t) = t
    BY <1>4 DEF Read
  <2>2. AnswerTo(policy, s).tag # "ForwardingResult" /\ AnswerTo(policy, t).tag # "ForwardingResult"
    BY <1>4, FaultAnswer
  <2>3. QED
    BY <1>1, <1>4, <2>1, <2>2 DEF ForwardsAlike
<1>5. QED
  BY <1>2, <1>3, <1>4, OrdersAgree, PolicyFacts

\* What each pass ends with.
LEMMA PassesGathered ==
    ASSUME NEW fields \in Seq(ForwardingFields)
    PROVE  /\ Gathered(InspectPriorValues(fields), fields, Len(fields), "duplicate")
           /\ Gathered(CollectTrustedValues(fields), fields, Len(fields), "duplicate")
           /\ Gathered(IncomingValues(fields), fields, Len(fields), "value")
<1> DEFINE N == Len(fields)
<1>1. ASSUME NEW g, g[0] = Collected(NoPrior),
             \A i \in 1 .. N : g[i] = DuplicateFirst(g[i - 1], fields[i], ScanValue(fields[i].value))
      PROVE  Gathered(g[N], fields, N, "duplicate")
  <2>1. \A i \in 1 .. N : g[i] = GatherStep("duplicate", g[i - 1], fields[i])
    BY <1>1 DEF GatherStep
  <2>2. QED
    BY <1>1, <2>1, GatheredRun
<1>2. ASSUME NEW g, g[0] = Collected(NoPrior),
             \A i \in 1 .. N : g[i] = ValueFirst(g[i - 1], fields[i], ScanValue(fields[i].value))
      PROVE  Gathered(g[N], fields, N, "value")
  <2>1. \A i \in 1 .. N : g[i] = GatherStep("value", g[i - 1], fields[i])
    BY <1>2 DEF GatherStep
  <2>2. QED
    BY <1>2, <2>1, GatheredRun
<1>3. Gathered(InspectPriorValues(fields), fields, N, "duplicate")
  BY <1>1, InspectFold
<1>4. Gathered(CollectTrustedValues(fields), fields, N, "duplicate")
  BY <1>1, CollectFold
<1>5. Gathered(IncomingValues(fields), fields, N, "value")
  BY <1>2, IncomingFold
<1>6. QED
  BY <1>3, <1>4, <1>5

\* The five variants of apply_forwarding_policy return what the specification
\* asks for of any block and any policy process_request can make: two check the
\* value before the repeat, and so differ in the reason alone, and only where a
\* repeated field is itself over the limit.
THEOREM ForwardingVariants ==
    ASSUME NEW policy \in Policies, NEW fields \in Seq(ForwardingFields),
           NEW outcome \in Range(Forwardings(policy, fields))
    PROVE  ForwardsAlike(outcome, policy, fields)
<1> DEFINE inspected == InspectPriorValues(fields)
           trusted == CollectTrustedValues(fields)
           incoming == IncomingValues(fields)
<1>1. /\ Gathered(inspected, fields, Len(fields), "duplicate")
      /\ Gathered(trusted, fields, Len(fields), "duplicate")
      /\ Gathered(incoming, fields, Len(fields), "value")
  BY PassesGathered
<1>2. outcome \in {AnswerTo(policy, Read(policy, inspected)), AnswerTo(policy, Read(policy, trusted)),
                   AnswerTo(policy, Read(policy, incoming))}
  <2>1. outcome \in {DirectMatchForwarding(policy, fields), TransitionModelForwarding(policy, fields),
                     CentralTransitionForwarding(policy, fields), PrimitiveBoundaryForwarding(policy, fields),
                     DecisionTableForwarding(policy, fields)}
    BY DEF Range, Forwardings
  <2>2. QED
    BY <2>1, DirectMatchAnswers, TransitionModelAnswers, CentralTransitionAnswers, PrimitiveBoundaryAnswers,
       DecisionTableAnswers
<1> HIDE DEF inspected, trusted, incoming
<1>3. QED
  BY <1>1, <1>2, AnswersAgree

-----------------------------------------------------------------------------
\* The length that a sequence of Content-Length members agrees on.

Raws == Seq(Nat)

Conflict == Outcome("ConflictingContentLength", 0)

Lengths == {NoLength, Conflict} \cup {ParseLength(raw) : raw \in Raws}

LEMMA OutcomeFacts ==
    ASSUME NEW tag, NEW n
    PROVE  Outcome(tag, n).tag = tag /\ Outcome(tag, n).n = n
BY DEF Outcome

\* The value of a member and what parse_decimal_length makes of it.
ValueOf(raw) == DecimalValue(TrimOws(raw))
Over(raw) == ValueOf(raw) > CONTENT_LENGTH_LIMIT

LEMMA ParseCases ==
    ASSUME NEW raw
    PROVE  LET parsed == ParseLength(raw)
           IN  \/ ValueOf(raw) = Overflow /\ parsed = Outcome("InvalidContentLength", 0)
               \/ ValueOf(raw) # Overflow /\ Over(raw) /\ parsed = Outcome("LimitExceeded", ValueOf(raw))
               \/ ValueOf(raw) # Overflow /\ ~Over(raw) /\ parsed = Outcome("length", ValueOf(raw))
<1> DEFINE value == ValueOf(raw)
<1>1. ~(Overflow > CONTENT_LENGTH_LIMIT)
  BY FramingAssumption DEF Overflow
<1>2. ParseLength(raw) = CASE value = Overflow -> Outcome("InvalidContentLength", 0)
                           [] value > CONTENT_LENGTH_LIMIT -> Outcome("LimitExceeded", value)
                           [] OTHER -> Outcome("length", value)
  BY Zenon DEF ParseLength, ValueOf
<1>3. Over(raw) <=> value > CONTENT_LENGTH_LIMIT
  BY DEF Over
<1> HIDE DEF value
<1>4. CASE value = Overflow
  <2>1. ~(value > CONTENT_LENGTH_LIMIT)
    BY <1>1, <1>4, Zenon
  <2>2. QED
    BY <1>2, <1>4, <2>1, Zenon DEF value
<1>5. CASE value # Overflow /\ value > CONTENT_LENGTH_LIMIT
  BY <1>2, <1>3, <1>5, Zenon DEF value
<1>6. CASE value # Overflow /\ ~(value > CONTENT_LENGTH_LIMIT)
  BY <1>2, <1>3, <1>6, Zenon DEF value
<1>7. QED
  BY <1>4, <1>5, <1>6, Zenon

LEMMA ParseTags ==
    ASSUME NEW raw
    PROVE  /\ ParseLength(raw).tag \in {"InvalidContentLength", "LimitExceeded", "length"}
           /\ (ParseLength(raw).tag = "length") <=> (ValueOf(raw) # Overflow /\ ~Over(raw))
           /\ ParseLength(raw).tag = "length" => ParseLength(raw).n = ValueOf(raw)
           /\ ParseLength(raw) = Outcome(ParseLength(raw).tag, ParseLength(raw).n)
BY ParseCases, OutcomeFacts

LEMMA AcceptCases ==
    ASSUME NEW s, NEW raw
    PROVE  LET parsed == ParseLength(raw)
               next == AcceptLength(s, raw)
           IN  /\ s.tag \notin {"absent", "length"} => next = s
               /\ s.tag \in {"absent", "length"} /\ parsed.tag # "length" => next = parsed
               /\ s.tag = "length" /\ parsed.tag = "length" /\ s.n # parsed.n => next = Conflict
               /\ s.tag = "length" /\ parsed.tag = "length" /\ s.n = parsed.n => next = parsed
               /\ s.tag = "absent" /\ parsed.tag = "length" => next = parsed
<1> DEFINE parsed == ParseLength(raw)
           next == AcceptLength(s, raw)
<1>1. next = CASE s.tag \notin {"absent", "length"} -> s
               [] s.tag \in {"absent", "length"} /\ parsed.tag # "length" -> parsed
               [] s.tag = "length" /\ parsed.tag = "length" /\ s.n # parsed.n -> Conflict
               [] OTHER -> parsed
  BY Zenon DEF AcceptLength, Conflict
<1>2. "absent" # "length"
  OBVIOUS
<1> HIDE DEF parsed, next
<1>3. s.tag \notin {"absent", "length"} => next = s
  BY <1>1, Zenon
<1>4. s.tag \in {"absent", "length"} /\ parsed.tag # "length" => next = parsed
  BY <1>1, Zenon
<1>5. s.tag = "length" /\ parsed.tag = "length" /\ s.n # parsed.n => next = Conflict
  BY <1>1, Zenon
<1>6. s.tag = "length" /\ parsed.tag = "length" /\ s.n = parsed.n => next = parsed
  BY <1>1, Zenon
<1>7. s.tag = "absent" /\ parsed.tag = "length" => next = parsed
  BY <1>1, <1>2, Zenon
<1>8. QED
  BY <1>3, <1>4, <1>5, <1>6, <1>7, Zenon DEF parsed, next

LEMMA AcceptType ==
    ASSUME NEW s \in Lengths, NEW raw \in Raws
    PROVE  AcceptLength(s, raw) \in Lengths
<1>1. ParseLength(raw) \in Lengths /\ Conflict \in Lengths
  BY DEF Lengths
<1>2. s.tag \in {"absent", "length"} \/ s.tag \notin {"absent", "length"}
  OBVIOUS
<1>3. AcceptLength(s, raw) \in {s, ParseLength(raw), Conflict}
  BY <1>2, AcceptCases
<1>4. QED
  BY <1>1, <1>3

LEMMA AcceptFold ==
    ASSUME NEW s \in Lengths, NEW v \in Seq(Raws)
    PROVE  \E g \in [0 .. Len(v) -> Lengths] :
              /\ g[0] = s
              /\ \A i \in 1 .. Len(v) : g[i] = AcceptLength(g[i - 1], v[i])
              /\ FoldLeft(AcceptLength, s, v) = g[Len(v)]
<1> DEFINE N == Len(v)
           V == Lengths
           start == s
           op(agreed, raw) == AcceptLength(agreed, raw)
           Body(f) == [t \in SUBSET DOMAIN v |->
                         IF t = {} THEN start ELSE op(f[t \ {Max(t)}], v[Max(t)])]
           iter == CHOOSE f : f = Body(f)
           step == [p \in V \X (1 .. N) |-> op(p[1], v[p[2]])]
<1>1. FoldLeft(AcceptLength, s, v) = iter[DOMAIN v]
  BY DEF FoldLeft, MapThenFoldSet
<1>2. N \in Nat /\ DOMAIN v = 1 .. N /\ \A i \in 1 .. N : v[i] \in Raws
  OBVIOUS
<1>3. start \in V
  OBVIOUS
<1>4. ASSUME NEW a \in V, NEW i \in 1 .. N
      PROVE  op(a, v[i]) \in V
  BY <1>2, AcceptType
<1> HIDE DEF V, start, op
<1>5. step \in [V \X (1 .. N) -> V]
  BY <1>4
<1>6. ASSUME NEW t \in SUBSET (1 .. N), t # {}
      PROVE  Max(t) \in 1 .. N
  BY <1>2, <1>6, MaxIn
<1>7. ASSUME NEW h, FoldsTo(h, V, start, N, step)
      PROVE  h = Body(h)
  <2>1. ASSUME NEW t \in SUBSET (1 .. N)
        PROVE  h[t] = IF t = {} THEN start ELSE op(h[t \ {Max(t)}], v[Max(t)])
    BY <1>6, <1>7 DEF FoldsTo
  <2>2. QED
    BY <1>2, <1>7, <2>1 DEF FoldsTo
<1>8. ASSUME NEW h, h = Body(h)
      PROVE  Obeys(h, V, start, N, step)
  <2>1. ASSUME NEW t \in SUBSET (1 .. N)
        PROVE  h[t] = IF t = {} THEN start ELSE op(h[t \ {Max(t)}], v[Max(t)])
    BY <1>2, <1>8
  <2>2. QED
    BY <1>6, <2>1 DEF Obeys
<1>9. iter = Body(iter)
  <2>1. PICK h : FoldsTo(h, V, start, N, step)
    BY <1>2, <1>3, <1>5, FoldExists
  <2>2. h = Body(h)
    BY <1>7, <2>1
  <2> HIDE DEF Body
  <2>3. QED
    BY <2>2
<1> HIDE DEF iter, Body
<1>10. Obeys(iter, V, start, N, step)
  BY <1>8, <1>9
<1>11. PICK g : Runs(g, V, start, N, step, iter[1 .. N])
  BY <1>2, <1>3, <1>5, <1>10, FoldValues
<1>12. /\ g \in [0 .. N -> V] /\ g[0] = start /\ g[N] = iter[1 .. N]
       /\ \A i \in 1 .. N : g[i] = op(g[i - 1], v[i])
  <2>1. /\ g \in [0 .. N -> V] /\ g[0] = start /\ g[N] = iter[1 .. N]
        /\ \A i \in 1 .. N : g[i] = step[<<g[i - 1], i>>]
    <3> HIDE DEF step, N
    <3>1. QED
      BY <1>11 DEF Runs
  <2>2. \A i \in 1 .. N : i - 1 \in 0 .. N
    BY <1>2
  <2>3. QED
    BY <2>1, <2>2
<1>13. QED
  BY <1>1, <1>2, <1>12 DEF V, start, op

LengthFault(M, i) ==
    ParseLength(M[i]).tag # "length" \/ ParseLength(M[i]).n # ParseLength(M[1]).n

LengthVerdict(M, i) == IF ParseLength(M[i]).tag # "length" THEN ParseLength(M[i]) ELSE Conflict

\* The first member at fault.
FaultFirst(M, k) == LengthFault(M, k) /\ \A i \in 1 .. k - 1 : ~LengthFault(M, i)

NoFault(M) == \A i \in 1 .. Len(M) : ~LengthFault(M, i)

Agreed(s, M) ==
    \/ Len(M) = 0 /\ s = NoLength
    \/ Len(M) # 0 /\ NoFault(M) /\ s = ParseLength(M[1])
    \/ \E k \in 1 .. Len(M) : FaultFirst(M, k) /\ s = LengthVerdict(M, k)

LEMMA OneMore ==
    ASSUME NEW M \in Seq(Raws), NEW raw \in Raws
    PROVE  LET more == Append(M, raw)
               n == Len(M)
           IN  /\ more \in Seq(Raws) /\ Len(more) = n + 1 /\ n \in Nat /\ more[n + 1] = raw
               /\ n # 0 => more[1] = M[1]
               /\ \A i \in 1 .. n : more[i] = M[i]
               /\ \A i \in 1 .. n : (LengthFault(more, i) <=> LengthFault(M, i)) /\ LengthVerdict(more, i) = LengthVerdict(M, i)
               /\ \A i \in 1 .. n : FaultFirst(M, i) => FaultFirst(more, i)
               /\ NoFault(M) /\ ~LengthFault(more, n + 1) => NoFault(more)
               /\ NoFault(M) /\ LengthFault(more, n + 1) => FaultFirst(more, n + 1)
<1> DEFINE more == Append(M, raw)
           n == Len(M)
<1>1. /\ more \in Seq(Raws) /\ Len(more) = n + 1 /\ n \in Nat /\ more[n + 1] = raw
      /\ \A i \in 1 .. n : more[i] = M[i]
  BY AppendFacts
<1> HIDE DEF more
<1>2. n # 0 => more[1] = M[1]
  <2>1. n # 0 => 1 \in 1 .. n
    BY <1>1
  <2>2. QED
    BY <1>1, <2>1
<1>3. ASSUME NEW i \in 1 .. n
      PROVE  (LengthFault(more, i) <=> LengthFault(M, i)) /\ LengthVerdict(more, i) = LengthVerdict(M, i)
  <2>1. n # 0 /\ more[i] = M[i]
    BY <1>1
  <2>2. QED
    BY <1>2, <2>1 DEF LengthFault, LengthVerdict
<1>4. ASSUME NEW i \in 1 .. n, FaultFirst(M, i)
      PROVE  FaultFirst(more, i)
  <2>1. \A j \in 1 .. i - 1 : j \in 1 .. n
    BY <1>1
  <2>2. QED
    BY <1>3, <1>4, <2>1 DEF FaultFirst
<1>5. NoFault(M) /\ ~LengthFault(more, n + 1) => NoFault(more)
  <2>1. \A i \in 1 .. n + 1 : i = n + 1 \/ i \in 1 .. n
    BY <1>1
  <2>2. QED
    BY <1>1, <1>3, <2>1 DEF NoFault
<1>6. NoFault(M) /\ LengthFault(more, n + 1) => FaultFirst(more, n + 1)
  <2>1. \A i \in 1 .. (n + 1) - 1 : i \in 1 .. n
    BY <1>1
  <2>2. QED
    BY <1>3, <2>1 DEF NoFault, FaultFirst
<1>7. QED
  BY <1>1, <1>2, <1>3, <1>4, <1>5, <1>6 DEF more

LEMMA VerdictTag ==
    ASSUME NEW M, NEW k
    PROVE  LengthVerdict(M, k).tag \notin {"absent", "length", "none"}
<1>1. Conflict.tag = "ConflictingContentLength"
  BY OutcomeFacts DEF Conflict
<1>2. QED
  BY <1>1, ParseTags DEF LengthVerdict

LEMMA AgreedStep ==
    ASSUME NEW M \in Seq(Raws), NEW raw \in Raws, NEW s, Agreed(s, M)
    PROVE  Agreed(AcceptLength(s, raw), Append(M, raw))
<1> DEFINE more == Append(M, raw)
           n == Len(M)
           next == AcceptLength(s, raw)
           parsed == ParseLength(raw)
<1>1. /\ Len(more) = n + 1 /\ n \in Nat /\ more[n + 1] = raw
      /\ n # 0 => more[1] = M[1]
      /\ \A i \in 1 .. n : LengthVerdict(more, i) = LengthVerdict(M, i)
      /\ \A i \in 1 .. n : FaultFirst(M, i) => FaultFirst(more, i)
      /\ NoFault(M) /\ ~LengthFault(more, n + 1) => NoFault(more)
      /\ NoFault(M) /\ LengthFault(more, n + 1) => FaultFirst(more, n + 1)
  BY OneMore
<1>2. /\ s.tag \notin {"absent", "length"} => next = s
      /\ s.tag \in {"absent", "length"} /\ parsed.tag # "length" => next = parsed
      /\ s.tag = "length" /\ parsed.tag = "length" /\ s.n # parsed.n => next = Conflict
      /\ s.tag = "length" /\ parsed.tag = "length" /\ s.n = parsed.n => next = parsed
      /\ s.tag = "absent" /\ parsed.tag = "length" => next = parsed
  BY AcceptCases
<1>3. Len(more) # 0 /\ n + 1 \in 1 .. Len(more) /\ \A i \in 1 .. n : i \in 1 .. Len(more)
  BY <1>1
<1> SUFFICES Agreed(next, more)
  OBVIOUS
<1> HIDE DEF more, next
<1>4. CASE n = 0 /\ s = NoLength
  <2>1. s.tag = "absent" /\ NoFault(M)
    BY <1>4, OutcomeFacts DEF NoLength, NoFault
  <2>2. next = parsed
    BY <1>2, <2>1
  <2>3. more[1] = raw
    BY <1>1, <1>4
  <2>4. CASE parsed.tag = "length"
    <3>1. ~LengthFault(more, n + 1)
      BY <1>1, <1>4, <2>4 DEF LengthFault
    <3>2. QED
      BY <1>1, <1>3, <2>1, <2>2, <2>3, <3>1 DEF Agreed
  <2>5. CASE parsed.tag # "length"
    <3>1. LengthFault(more, n + 1) /\ LengthVerdict(more, n + 1) = parsed
      BY <1>1, <2>5 DEF LengthFault, LengthVerdict
    <3>2. QED
      BY <1>1, <1>3, <2>1, <2>2, <3>1 DEF Agreed
  <2>6. QED
    BY <2>4, <2>5
<1>5. CASE n # 0 /\ NoFault(M) /\ s = ParseLength(M[1])
  <2>1. s.tag = "length" /\ more[1] = M[1]
    <3>1. 1 \in 1 .. n
      BY <1>1, <1>5
    <3>2. QED
      BY <1>1, <1>5, <3>1 DEF NoFault, LengthFault
  <2>2. CASE parsed.tag = "length" /\ s.n = parsed.n
    <3>1. ~LengthFault(more, n + 1)
      BY <1>1, <1>5, <2>1, <2>2 DEF LengthFault
    <3>2. parsed = s
      <4>1. parsed = Outcome("length", parsed.n)
        BY <2>2, ParseTags
      <4>2. s = Outcome("length", s.n)
        BY <1>5, <2>1, ParseTags
      <4>3. QED
        BY <2>2, <4>1, <4>2
    <3>3. next = ParseLength(more[1])
      BY <1>2, <1>5, <2>1, <2>2, <3>2
    <3>4. QED
      BY <1>1, <1>3, <1>5, <3>1, <3>3 DEF Agreed
  <2>3. CASE parsed.tag = "length" /\ s.n # parsed.n
    <3>1. LengthFault(more, n + 1) /\ LengthVerdict(more, n + 1) = Conflict
      BY <1>1, <1>5, <2>1, <2>3 DEF LengthFault, LengthVerdict
    <3>2. next = Conflict
      BY <1>2, <2>1, <2>3
    <3>3. QED
      BY <1>1, <1>3, <1>5, <3>1, <3>2 DEF Agreed
  <2>4. CASE parsed.tag # "length"
    <3>1. LengthFault(more, n + 1) /\ LengthVerdict(more, n + 1) = parsed
      BY <1>1, <2>4 DEF LengthFault, LengthVerdict
    <3>2. next = parsed
      BY <1>2, <2>1, <2>4
    <3>3. QED
      BY <1>1, <1>3, <1>5, <3>1, <3>2 DEF Agreed
  <2>5. QED
    BY <2>2, <2>3, <2>4
<1>6. CASE \E k \in 1 .. n : FaultFirst(M, k) /\ s = LengthVerdict(M, k)
  <2>1. PICK k \in 1 .. n : FaultFirst(M, k) /\ s = LengthVerdict(M, k)
    BY <1>6
  <2>2. next = s
    BY <1>2, <2>1, VerdictTag
  <2>3. QED
    BY <1>1, <1>3, <2>1, <2>2 DEF Agreed
<1>7. QED
  BY <1>4, <1>5, <1>6 DEF Agreed

\* A sequence that grows by the elements of another.
Grown(M, v, i) == M \o SubSeq(v, 1, i)

LEMMA Growth ==
    ASSUME NEW S, NEW M \in Seq(S), NEW v \in Seq(S)
    PROVE  /\ Grown(M, v, 0) = M
           /\ \A i \in 1 .. Len(v) : /\ Grown(M, v, i - 1) \in Seq(S)
                                     /\ Grown(M, v, i) = Append(Grown(M, v, i - 1), v[i])
           /\ Grown(M, v, Len(v)) = M \o v
<1>1. M \o SubSeq(v, 1, 0) = M
  OBVIOUS
<1>2. SubSeq(v, 1, Len(v)) = v
  OBVIOUS
<1>3. ASSUME NEW i \in 1 .. Len(v)
      PROVE  /\ M \o SubSeq(v, 1, i - 1) \in Seq(S)
             /\ M \o SubSeq(v, 1, i) = Append(M \o SubSeq(v, 1, i - 1), v[i])
  <2>1. SubSeq(v, 1, i - 1) \in Seq(S) /\ v[i] \in S
    OBVIOUS
  <2>2. SubSeq(v, 1, i) = Append(SubSeq(v, 1, i - 1), v[i])
    OBVIOUS
  <2>3. \A w \in Seq(S), e \in S : M \o Append(w, e) = Append(M \o w, e)
    OBVIOUS
  <2>4. QED
    BY <2>1, <2>2, <2>3
<1>4. QED
  BY <1>1, <1>2, <1>3 DEF Grown

LEMMA AgreedRun ==
    ASSUME NEW M \in Seq(Raws), NEW v \in Seq(Raws), NEW s \in Lengths, Agreed(s, M)
    PROVE  /\ Agreed(FoldLeft(AcceptLength, s, v), M \o v)
           /\ FoldLeft(AcceptLength, s, v) \in Lengths
<1> DEFINE N == Len(v)
           seen(i) == Grown(M, v, i)
<1>1. PICK g \in [0 .. N -> Lengths] :
         /\ g[0] = s
         /\ \A i \in 1 .. N : g[i] = AcceptLength(g[i - 1], v[i])
         /\ FoldLeft(AcceptLength, s, v) = g[N]
  BY AcceptFold
<1>2. N \in Nat /\ \A i \in 1 .. N : v[i] \in Raws
  OBVIOUS
<1>3. /\ seen(0) = M /\ seen(N) = M \o v
      /\ \A i \in 1 .. N : seen(i - 1) \in Seq(Raws) /\ seen(i) = Append(seen(i - 1), v[i])
  BY Growth
<1> DEFINE P == {i \in 0 .. N : Agreed(g[i], seen(i))}
<1> HIDE DEF seen
<1>4. 0 \in P
  <2>1. 0 \in 0 .. N /\ Agreed(g[0], seen(0))
    BY <1>1, <1>2, <1>3
  <2>2. QED
    BY <2>1, Zenon
<1>5. ASSUME NEW i \in 1 .. N, i - 1 \in P
      PROVE  i \in P
  <2>1. i \in 0 .. N
    BY <1>2
  <2>2. Agreed(g[i - 1], seen(i - 1))
    BY <1>5, Zenon
  <2>3. Agreed(AcceptLength(g[i - 1], v[i]), Append(seen(i - 1), v[i]))
    BY <1>2, <1>3, <2>2, AgreedStep
  <2>4. Agreed(g[i], seen(i))
    BY <1>1, <1>3, <2>3
  <2>5. QED
    BY <2>1, <2>4, Zenon
<1>6. 0 .. N \subseteq P
  <2> HIDE DEF P, N
  <2>1. QED
    BY <1>2, <1>4, <1>5, Induction
<1>7. N \in 0 .. N
  BY <1>2
<1>8. Agreed(g[N], seen(N)) /\ g[N] \in Lengths
  BY <1>6, <1>7
<1>9. QED
  BY <1>1, <1>3, <1>8, Zenon

-----------------------------------------------------------------------------
\* The fields and the members of a name, as the block is read.

FRAMING_NAMES == {"content-length", "transfer-encoding"}

LEMMA HeaderFacts ==
    ASSUME NEW fields \in Seq(HeaderFields), NEW i \in 1 .. Len(fields)
    PROVE  /\ fields[i].name \in FRAMING_NAMES \cup {"other"}
           /\ fields[i].value \in Seq(Raws)
           /\ Len(fields[i].value) \in Nat \ {0}
<1>1. fields[i] \in HeaderFields
  OBVIOUS
<1>2. /\ fields[i].name \in {"content-length", "transfer-encoding", "other"}
      /\ fields[i].value \in Seq(Seq(Nat)) /\ fields[i].value # <<>>
  BY <1>1, HeaderInputs
<1>3. QED
  BY <1>2 DEF FRAMING_NAMES, Raws

JoinStep(name, found, field) == IF field.name = name THEN found \o field.value ELSE found

PickStep(name, found, field) == IF field.name = name THEN Append(found, field) ELSE found

PresenceStep(seen, field) == IF field.name = "other" THEN seen ELSE seen \cup {field.name}

LEMMA MembersFold ==
    ASSUME NEW fields \in Seq(HeaderFields), NEW name
    PROVE  \E g \in [0 .. Len(fields) -> Seq(Raws)] :
              /\ g[0] = <<>>
              /\ \A i \in 1 .. Len(fields) : g[i] = JoinStep(name, g[i - 1], fields[i])
              /\ Members(fields, name) = g[Len(fields)]
<1> DEFINE N == Len(fields)
           V == Seq(Raws)
           start == <<>>
           op(found, field) == JoinStep(name, found, field)
           Body(f) == [t \in SUBSET DOMAIN fields |->
                         IF t = {} THEN start ELSE op(f[t \ {Max(t)}], fields[Max(t)])]
           iter == CHOOSE f : f = Body(f)
           step == [p \in V \X (1 .. N) |-> op(p[1], fields[p[2]])]
<1>1. Members(fields, name) = iter[DOMAIN fields]
  BY DEF Members, FoldLeft, MapThenFoldSet, JoinStep
<1>2. N \in Nat /\ DOMAIN fields = 1 .. N
  OBVIOUS
<1>3. start \in V
  OBVIOUS
<1>4. ASSUME NEW s \in V, NEW i \in 1 .. N
      PROVE  op(s, fields[i]) \in V
  <2>1. fields[i].value \in Seq(Raws)
    BY HeaderFacts
  <2>2. QED
    BY <2>1 DEF JoinStep
<1> HIDE DEF V, start, op
<1>5. step \in [V \X (1 .. N) -> V]
  BY <1>4
<1>6. ASSUME NEW t \in SUBSET (1 .. N), t # {}
      PROVE  Max(t) \in 1 .. N
  BY <1>2, <1>6, MaxIn
<1>7. ASSUME NEW h, FoldsTo(h, V, start, N, step)
      PROVE  h = Body(h)
  <2>1. ASSUME NEW t \in SUBSET (1 .. N)
        PROVE  h[t] = IF t = {} THEN start ELSE op(h[t \ {Max(t)}], fields[Max(t)])
    BY <1>6, <1>7 DEF FoldsTo
  <2>2. QED
    BY <1>2, <1>7, <2>1 DEF FoldsTo
<1>8. ASSUME NEW h, h = Body(h)
      PROVE  Obeys(h, V, start, N, step)
  <2>1. ASSUME NEW t \in SUBSET (1 .. N)
        PROVE  h[t] = IF t = {} THEN start ELSE op(h[t \ {Max(t)}], fields[Max(t)])
    BY <1>2, <1>8
  <2>2. QED
    BY <1>6, <2>1 DEF Obeys
<1>9. iter = Body(iter)
  <2>1. PICK h : FoldsTo(h, V, start, N, step)
    BY <1>2, <1>3, <1>5, FoldExists
  <2>2. h = Body(h)
    BY <1>7, <2>1
  <2> HIDE DEF Body
  <2>3. QED
    BY <2>2
<1> HIDE DEF iter, Body
<1>10. Obeys(iter, V, start, N, step)
  BY <1>8, <1>9
<1>11. PICK g : Runs(g, V, start, N, step, iter[1 .. N])
  BY <1>2, <1>3, <1>5, <1>10, FoldValues
<1>12. /\ g \in [0 .. N -> V] /\ g[0] = start /\ g[N] = iter[1 .. N]
       /\ \A i \in 1 .. N : g[i] = op(g[i - 1], fields[i])
  <2>1. /\ g \in [0 .. N -> V] /\ g[0] = start /\ g[N] = iter[1 .. N]
        /\ \A i \in 1 .. N : g[i] = step[<<g[i - 1], i>>]
    <3> HIDE DEF step, N
    <3>1. QED
      BY <1>11 DEF Runs
  <2>2. \A i \in 1 .. N : i - 1 \in 0 .. N
    BY <1>2
  <2>3. QED
    BY <2>1, <2>2
<1>13. QED
  BY <1>1, <1>2, <1>12 DEF V, start, op

LEMMA FieldsFold ==
    ASSUME NEW fields \in Seq(HeaderFields), NEW name
    PROVE  \E g \in [0 .. Len(fields) -> Seq(HeaderFields)] :
              /\ g[0] = <<>>
              /\ \A i \in 1 .. Len(fields) : g[i] = PickStep(name, g[i - 1], fields[i])
              /\ Fields(fields, name) = g[Len(fields)]
<1> DEFINE N == Len(fields)
           V == Seq(HeaderFields)
           start == <<>>
           op(found, field) == PickStep(name, found, field)
           Body(f) == [t \in SUBSET DOMAIN fields |->
                         IF t = {} THEN start ELSE op(f[t \ {Max(t)}], fields[Max(t)])]
           iter == CHOOSE f : f = Body(f)
           step == [p \in V \X (1 .. N) |-> op(p[1], fields[p[2]])]
<1>1. Fields(fields, name) = iter[DOMAIN fields]
  BY DEF Fields, FoldLeft, MapThenFoldSet, PickStep
<1>2. N \in Nat /\ DOMAIN fields = 1 .. N
  OBVIOUS
<1>3. start \in V
  OBVIOUS
<1>4. ASSUME NEW s \in V, NEW i \in 1 .. N
      PROVE  op(s, fields[i]) \in V
  <2>1. fields[i] \in HeaderFields
    OBVIOUS
  <2>2. QED
    BY <2>1 DEF PickStep
<1> HIDE DEF V, start, op
<1>5. step \in [V \X (1 .. N) -> V]
  BY <1>4
<1>6. ASSUME NEW t \in SUBSET (1 .. N), t # {}
      PROVE  Max(t) \in 1 .. N
  BY <1>2, <1>6, MaxIn
<1>7. ASSUME NEW h, FoldsTo(h, V, start, N, step)
      PROVE  h = Body(h)
  <2>1. ASSUME NEW t \in SUBSET (1 .. N)
        PROVE  h[t] = IF t = {} THEN start ELSE op(h[t \ {Max(t)}], fields[Max(t)])
    BY <1>6, <1>7 DEF FoldsTo
  <2>2. QED
    BY <1>2, <1>7, <2>1 DEF FoldsTo
<1>8. ASSUME NEW h, h = Body(h)
      PROVE  Obeys(h, V, start, N, step)
  <2>1. ASSUME NEW t \in SUBSET (1 .. N)
        PROVE  h[t] = IF t = {} THEN start ELSE op(h[t \ {Max(t)}], fields[Max(t)])
    BY <1>2, <1>8
  <2>2. QED
    BY <1>6, <2>1 DEF Obeys
<1>9. iter = Body(iter)
  <2>1. PICK h : FoldsTo(h, V, start, N, step)
    BY <1>2, <1>3, <1>5, FoldExists
  <2>2. h = Body(h)
    BY <1>7, <2>1
  <2> HIDE DEF Body
  <2>3. QED
    BY <2>2
<1> HIDE DEF iter, Body
<1>10. Obeys(iter, V, start, N, step)
  BY <1>8, <1>9
<1>11. PICK g : Runs(g, V, start, N, step, iter[1 .. N])
  BY <1>2, <1>3, <1>5, <1>10, FoldValues
<1>12. /\ g \in [0 .. N -> V] /\ g[0] = start /\ g[N] = iter[1 .. N]
       /\ \A i \in 1 .. N : g[i] = op(g[i - 1], fields[i])
  <2>1. /\ g \in [0 .. N -> V] /\ g[0] = start /\ g[N] = iter[1 .. N]
        /\ \A i \in 1 .. N : g[i] = step[<<g[i - 1], i>>]
    <3> HIDE DEF step, N
    <3>1. QED
      BY <1>11 DEF Runs
  <2>2. \A i \in 1 .. N : i - 1 \in 0 .. N
    BY <1>2
  <2>3. QED
    BY <2>1, <2>2
<1>13. QED
  BY <1>1, <1>2, <1>12 DEF V, start, op

LEMMA MetadataFold ==
    ASSUME NEW fields \in Seq(HeaderFields)
    PROVE  \E g \in [0 .. Len(fields) -> SUBSET FRAMING_NAMES] :
              /\ g[0] = {}
              /\ \A i \in 1 .. Len(fields) : g[i] = PresenceStep(g[i - 1], fields[i])
              /\ DirectMetadata(fields) = g[Len(fields)]
<1> DEFINE N == Len(fields)
           V == SUBSET FRAMING_NAMES
           start == {}
           op(seen, field) == IF seen = {"content-length", "transfer-encoding"} \/ field.name = "other"
                              THEN seen ELSE seen \cup {field.name}
           Body(f) == [t \in SUBSET DOMAIN fields |->
                         IF t = {} THEN start ELSE op(f[t \ {Max(t)}], fields[Max(t)])]
           iter == CHOOSE f : f = Body(f)
           step == [p \in V \X (1 .. N) |-> op(p[1], fields[p[2]])]
<1>1. DirectMetadata(fields) = iter[DOMAIN fields]
  BY DEF DirectMetadata, FoldLeft, MapThenFoldSet
<1>2. N \in Nat /\ DOMAIN fields = 1 .. N
  OBVIOUS
<1>3. start \in V
  OBVIOUS
<1>4. ASSUME NEW s \in V, NEW i \in 1 .. N
      PROVE  op(s, fields[i]) \in V
  <2>1. fields[i].name \in FRAMING_NAMES \cup {"other"}
    BY HeaderFacts
  <2>2. QED
    BY <2>1
<1> HIDE DEF V, start, op
<1>5. step \in [V \X (1 .. N) -> V]
  BY <1>4
<1>6. ASSUME NEW t \in SUBSET (1 .. N), t # {}
      PROVE  Max(t) \in 1 .. N
  BY <1>2, <1>6, MaxIn
<1>7. ASSUME NEW h, FoldsTo(h, V, start, N, step)
      PROVE  h = Body(h)
  <2>1. ASSUME NEW t \in SUBSET (1 .. N)
        PROVE  h[t] = IF t = {} THEN start ELSE op(h[t \ {Max(t)}], fields[Max(t)])
    BY <1>6, <1>7 DEF FoldsTo
  <2>2. QED
    BY <1>2, <1>7, <2>1 DEF FoldsTo
<1>8. ASSUME NEW h, h = Body(h)
      PROVE  Obeys(h, V, start, N, step)
  <2>1. ASSUME NEW t \in SUBSET (1 .. N)
        PROVE  h[t] = IF t = {} THEN start ELSE op(h[t \ {Max(t)}], fields[Max(t)])
    BY <1>2, <1>8
  <2>2. QED
    BY <1>6, <2>1 DEF Obeys
<1>9. iter = Body(iter)
  <2>1. PICK h : FoldsTo(h, V, start, N, step)
    BY <1>2, <1>3, <1>5, FoldExists
  <2>2. h = Body(h)
    BY <1>7, <2>1
  <2> HIDE DEF Body
  <2>3. QED
    BY <2>2
<1> HIDE DEF iter, Body
<1>10. Obeys(iter, V, start, N, step)
  BY <1>8, <1>9
<1>11. PICK g : Runs(g, V, start, N, step, iter[1 .. N])
  BY <1>2, <1>3, <1>5, <1>10, FoldValues
<1>12. /\ g \in [0 .. N -> V] /\ g[0] = start /\ g[N] = iter[1 .. N]
       /\ \A i \in 1 .. N : g[i] = op(g[i - 1], fields[i])
  <2>1. /\ g \in [0 .. N -> V] /\ g[0] = start /\ g[N] = iter[1 .. N]
        /\ \A i \in 1 .. N : g[i] = step[<<g[i - 1], i>>]
    <3> HIDE DEF step, N
    <3>1. QED
      BY <1>11 DEF Runs
  <2>2. \A i \in 1 .. N : i - 1 \in 0 .. N
    BY <1>2
  <2>3. QED
    BY <2>1, <2>2
<1>13. \A seen \in SUBSET FRAMING_NAMES, i \in 1 .. N : op(seen, fields[i]) = PresenceStep(seen, fields[i])
  <2>1. \A i \in 1 .. N : fields[i].name \in FRAMING_NAMES \cup {"other"}
    BY HeaderFacts
  <2>2. QED
    BY <2>1 DEF op, PresenceStep, FRAMING_NAMES
<1>14. \A i \in 1 .. N : g[i - 1] \in SUBSET FRAMING_NAMES /\ g[i] = op(g[i - 1], fields[i])
  BY <1>2, <1>12 DEF V
<1>15. \A i \in 1 .. N : g[i] = PresenceStep(g[i - 1], fields[i])
  BY <1>13, <1>14
<1>16. g \in [0 .. N -> SUBSET FRAMING_NAMES] /\ g[0] = {}
  BY <1>12 DEF V, start
<1>17. QED
  BY <1>1, <1>2, <1>12, <1>15, <1>16

LEMMA PresenceFold ==
    ASSUME NEW fields \in Seq(HeaderFields)
    PROVE  \E g \in [0 .. Len(fields) -> SUBSET FRAMING_NAMES] :
              /\ g[0] = {}
              /\ \A i \in 1 .. Len(fields) : g[i] = PresenceStep(g[i - 1], fields[i])
              /\ TransitionPresence(fields) = g[Len(fields)]
<1> DEFINE N == Len(fields)
           V == SUBSET FRAMING_NAMES
           start == {}
           op(seen, field) == seen \cup (IF field.name = "other" THEN {} ELSE {field.name})
           Body(f) == [t \in SUBSET DOMAIN fields |->
                         IF t = {} THEN start ELSE op(f[t \ {Max(t)}], fields[Max(t)])]
           iter == CHOOSE f : f = Body(f)
           step == [p \in V \X (1 .. N) |-> op(p[1], fields[p[2]])]
<1>1. TransitionPresence(fields) = iter[DOMAIN fields]
  BY DEF TransitionPresence, FoldLeft, MapThenFoldSet
<1>2. N \in Nat /\ DOMAIN fields = 1 .. N
  OBVIOUS
<1>3. start \in V
  OBVIOUS
<1>4. ASSUME NEW s \in V, NEW i \in 1 .. N
      PROVE  op(s, fields[i]) \in V
  <2>1. fields[i].name \in FRAMING_NAMES \cup {"other"}
    BY HeaderFacts
  <2>2. QED
    BY <2>1
<1> HIDE DEF V, start, op
<1>5. step \in [V \X (1 .. N) -> V]
  BY <1>4
<1>6. ASSUME NEW t \in SUBSET (1 .. N), t # {}
      PROVE  Max(t) \in 1 .. N
  BY <1>2, <1>6, MaxIn
<1>7. ASSUME NEW h, FoldsTo(h, V, start, N, step)
      PROVE  h = Body(h)
  <2>1. ASSUME NEW t \in SUBSET (1 .. N)
        PROVE  h[t] = IF t = {} THEN start ELSE op(h[t \ {Max(t)}], fields[Max(t)])
    BY <1>6, <1>7 DEF FoldsTo
  <2>2. QED
    BY <1>2, <1>7, <2>1 DEF FoldsTo
<1>8. ASSUME NEW h, h = Body(h)
      PROVE  Obeys(h, V, start, N, step)
  <2>1. ASSUME NEW t \in SUBSET (1 .. N)
        PROVE  h[t] = IF t = {} THEN start ELSE op(h[t \ {Max(t)}], fields[Max(t)])
    BY <1>2, <1>8
  <2>2. QED
    BY <1>6, <2>1 DEF Obeys
<1>9. iter = Body(iter)
  <2>1. PICK h : FoldsTo(h, V, start, N, step)
    BY <1>2, <1>3, <1>5, FoldExists
  <2>2. h = Body(h)
    BY <1>7, <2>1
  <2> HIDE DEF Body
  <2>3. QED
    BY <2>2
<1> HIDE DEF iter, Body
<1>10. Obeys(iter, V, start, N, step)
  BY <1>8, <1>9
<1>11. PICK g : Runs(g, V, start, N, step, iter[1 .. N])
  BY <1>2, <1>3, <1>5, <1>10, FoldValues
<1>12. /\ g \in [0 .. N -> V] /\ g[0] = start /\ g[N] = iter[1 .. N]
       /\ \A i \in 1 .. N : g[i] = op(g[i - 1], fields[i])
  <2>1. /\ g \in [0 .. N -> V] /\ g[0] = start /\ g[N] = iter[1 .. N]
        /\ \A i \in 1 .. N : g[i] = step[<<g[i - 1], i>>]
    <3> HIDE DEF step, N
    <3>1. QED
      BY <1>11 DEF Runs
  <2>2. \A i \in 1 .. N : i - 1 \in 0 .. N
    BY <1>2
  <2>3. QED
    BY <2>1, <2>2
<1>13. \A seen \in SUBSET FRAMING_NAMES, i \in 1 .. N : op(seen, fields[i]) = PresenceStep(seen, fields[i])
  <2>1. \A i \in 1 .. N : fields[i].name \in FRAMING_NAMES \cup {"other"}
    BY HeaderFacts
  <2>2. QED
    BY <2>1 DEF op, PresenceStep, FRAMING_NAMES
<1>14. \A i \in 1 .. N : g[i - 1] \in SUBSET FRAMING_NAMES /\ g[i] = op(g[i - 1], fields[i])
  BY <1>2, <1>12 DEF V
<1>15. \A i \in 1 .. N : g[i] = PresenceStep(g[i - 1], fields[i])
  BY <1>13, <1>14
<1>16. g \in [0 .. N -> SUBSET FRAMING_NAMES] /\ g[0] = {}
  BY <1>12 DEF V, start
<1>17. QED
  BY <1>1, <1>2, <1>12, <1>15, <1>16

\* Every field has a member, and one field has its own members.
MembersOf(L, M) ==
    /\ Len(M) >= Len(L)
    /\ Len(L) = 0 => M = <<>>
    /\ Len(L) = 1 => M = L[1].value

LEMMA MembersOfFields ==
    ASSUME NEW fields \in Seq(HeaderFields), NEW name
    PROVE  /\ Fields(fields, name) \in Seq(HeaderFields)
           /\ Members(fields, name) \in Seq(Raws)
           /\ MembersOf(Fields(fields, name), Members(fields, name))
<1> DEFINE N == Len(fields)
<1>1. PICK m \in [0 .. N -> Seq(Raws)] :
         /\ m[0] = <<>>
         /\ \A i \in 1 .. N : m[i] = JoinStep(name, m[i - 1], fields[i])
         /\ Members(fields, name) = m[N]
  BY MembersFold
<1>2. PICK l \in [0 .. N -> Seq(HeaderFields)] :
         /\ l[0] = <<>>
         /\ \A i \in 1 .. N : l[i] = PickStep(name, l[i - 1], fields[i])
         /\ Fields(fields, name) = l[N]
  BY FieldsFold
<1>3. N \in Nat
  OBVIOUS
<1> DEFINE P == {i \in 0 .. N : MembersOf(l[i], m[i])}
<1>4. 0 \in P
  <2>1. MembersOf(l[0], m[0]) /\ 0 \in 0 .. N
    BY <1>1, <1>2, <1>3 DEF MembersOf
  <2>2. QED
    BY <2>1, Zenon
<1>5. ASSUME NEW i \in 1 .. N, i - 1 \in P
      PROVE  i \in P
  <2>1. i \in 0 .. N /\ i - 1 \in 0 .. N
    BY <1>3
  <2>2. MembersOf(l[i - 1], m[i - 1]) /\ l[i - 1] \in Seq(HeaderFields) /\ m[i - 1] \in Seq(Raws)
    BY <1>5, <2>1
  <2>3. fields[i] \in HeaderFields /\ fields[i].value \in Seq(Raws) /\ Len(fields[i].value) \in Nat \ {0}
    BY HeaderFacts
  <2>4. MembersOf(PickStep(name, l[i - 1], fields[i]), JoinStep(name, m[i - 1], fields[i]))
    <3>1. CASE fields[i].name # name
      BY <2>2, <3>1 DEF PickStep, JoinStep
    <3>2. CASE fields[i].name = name
      <4> DEFINE L == l[i - 1]
                 M == m[i - 1]
                 f == fields[i]
                 v == f.value
      <4>1. PickStep(name, L, f) = Append(L, f) /\ JoinStep(name, M, f) = M \o v
        BY <3>2 DEF PickStep, JoinStep
      <4>2. Len(L) \in Nat /\ Len(M) \in Nat /\ Len(M) >= Len(L)
        BY <2>2 DEF MembersOf
      <4>3. Len(Append(L, f)) = Len(L) + 1 /\ Len(M \o v) = Len(M) + Len(v)
        BY <2>2, <2>3
      <4>4. Len(L) = 0 => M \o v = v /\ Append(L, f)[1] = f
        <5>1. Len(L) = 0 => M = <<>>
          BY <2>2 DEF MembersOf
        <5>2. Append(L, f)[Len(L) + 1] = f
          BY <2>2, <2>3, AppendFacts
        <5>3. <<>> \o v = v
          BY <2>3
        <5>4. Len(L) = 0 => M \o v = v
          BY <5>1, <5>3, Zenon
        <5>5. Len(L) = 0 => Len(L) + 1 = 1
          BY <4>2
        <5>6. QED
          BY <5>2, <5>4, <5>5, Zenon
      <4> HIDE DEF L, M, f, v
      <4>5. Len(v) \in Nat \ {0}
        BY <2>3 DEF v, f
      <4>6. Len(M \o v) >= Len(Append(L, f)) /\ Len(Append(L, f)) # 0
        BY <4>2, <4>3, <4>5
      <4>7. Len(Append(L, f)) = 1 => M \o v = Append(L, f)[1].value
        <5>1. Len(Append(L, f)) = 1 => Len(L) = 0
          BY <4>2, <4>3
        <5>2. QED
          BY <4>4, <5>1 DEF v
      <4>8. QED
        BY <4>1, <4>6, <4>7 DEF MembersOf, L, M, f
    <3>3. QED
      BY <3>1, <3>2
  <2>5. MembersOf(l[i], m[i])
    BY <1>1, <1>2, <2>4
  <2>6. QED
    BY <2>1, <2>5, Zenon
<1>6. 0 .. N \subseteq P
  <2> HIDE DEF P, N
  <2>1. QED
    BY <1>3, <1>4, <1>5, Induction
<1>7. N \in 0 .. N
  BY <1>3
<1>8. MembersOf(l[N], m[N]) /\ l[N] \in Seq(HeaderFields) /\ m[N] \in Seq(Raws)
  BY <1>6, <1>7
<1>9. QED
  BY <1>1, <1>2, <1>8, Zenon

\* The names present are those with members.
PresentOf(lengths, codings) ==
    (IF Len(lengths) = 0 THEN {} ELSE {"content-length"})
    \cup (IF Len(codings) = 0 THEN {} ELSE {"transfer-encoding"})

LEMMA PresentStep ==
    ASSUME NEW fields \in Seq(HeaderFields), NEW i \in 1 .. Len(fields),
           NEW lengths \in Seq(Raws), NEW codings \in Seq(Raws)
    PROVE  PresenceStep(PresentOf(lengths, codings), fields[i]) =
              PresentOf(JoinStep("content-length", lengths, fields[i]),
                        JoinStep("transfer-encoding", codings, fields[i]))
<1> DEFINE field == fields[i]
           v == field.value
<1>1. /\ field.name \in {"content-length", "transfer-encoding", "other"}
      /\ v \in Seq(Raws) /\ Len(v) \in Nat \ {0}
  BY HeaderFacts DEF FRAMING_NAMES
<1>2. ASSUME NEW M \in Seq(Raws)
      PROVE  Len(M \o v) # 0
  <2>1. Len(M \o v) = Len(M) + Len(v) /\ Len(M) \in Nat
    BY <1>1
  <2>2. QED
    BY <1>1, <2>1
<1>3. Len(lengths \o v) # 0 /\ Len(codings \o v) # 0
  BY <1>2
<1> HIDE DEF field, v
<1>4. CASE field.name = "content-length"
  BY <1>3, <1>4 DEF PresenceStep, JoinStep, PresentOf, field, v
<1>5. CASE field.name = "transfer-encoding"
  BY <1>3, <1>5 DEF PresenceStep, JoinStep, PresentOf, field, v
<1>6. CASE field.name = "other"
  BY <1>6 DEF PresenceStep, JoinStep, PresentOf, field, v
<1>7. QED
  BY <1>1, <1>4, <1>5, <1>6

LEMMA PresentRun ==
    ASSUME NEW fields \in Seq(HeaderFields), NEW g, g[0] = {},
           \A i \in 1 .. Len(fields) : g[i] = PresenceStep(g[i - 1], fields[i])
    PROVE  g[Len(fields)] = PresentOf(Members(fields, "content-length"), Members(fields, "transfer-encoding"))
<1> DEFINE N == Len(fields)
<1>1. PICK l \in [0 .. N -> Seq(Raws)] :
         /\ l[0] = <<>>
         /\ \A i \in 1 .. N : l[i] = JoinStep("content-length", l[i - 1], fields[i])
         /\ Members(fields, "content-length") = l[N]
  BY MembersFold
<1>2. PICK c \in [0 .. N -> Seq(Raws)] :
         /\ c[0] = <<>>
         /\ \A i \in 1 .. N : c[i] = JoinStep("transfer-encoding", c[i - 1], fields[i])
         /\ Members(fields, "transfer-encoding") = c[N]
  BY MembersFold
<1>3. N \in Nat
  OBVIOUS
<1> DEFINE P == {i \in 0 .. N : g[i] = PresentOf(l[i], c[i])}
<1>4. 0 \in P
  <2>1. g[0] = PresentOf(l[0], c[0]) /\ 0 \in 0 .. N
    BY <1>1, <1>2, <1>3 DEF PresentOf
  <2>2. QED
    BY <2>1, Zenon
<1>5. ASSUME NEW i \in 1 .. N, i - 1 \in P
      PROVE  i \in P
  <2>1. i \in 0 .. N /\ i - 1 \in 0 .. N
    BY <1>3
  <2>2. g[i - 1] = PresentOf(l[i - 1], c[i - 1]) /\ l[i - 1] \in Seq(Raws) /\ c[i - 1] \in Seq(Raws)
    BY <1>5, <2>1
  <2>3. PresenceStep(PresentOf(l[i - 1], c[i - 1]), fields[i]) =
           PresentOf(JoinStep("content-length", l[i - 1], fields[i]), JoinStep("transfer-encoding", c[i - 1], fields[i]))
    BY <2>2, PresentStep
  <2>4. g[i] = PresentOf(l[i], c[i])
    BY <1>1, <1>2, <2>2, <2>3
  <2>5. QED
    BY <2>1, <2>4, Zenon
<1>6. 0 .. N \subseteq P
  <2> HIDE DEF P, N
  <2>1. QED
    BY <1>3, <1>4, <1>5, Induction
<1>7. N \in 0 .. N
  BY <1>3
<1>8. g[N] = PresentOf(l[N], c[N])
  BY <1>6, <1>7
<1>9. QED
  BY <1>1, <1>2, <1>8

LEMMA BothPresences ==
    ASSUME NEW fields \in Seq(HeaderFields)
    PROVE  LET present == PresentOf(Members(fields, "content-length"), Members(fields, "transfer-encoding"))
           IN  DirectMetadata(fields) = present /\ TransitionPresence(fields) = present
BY MetadataFold, PresenceFold, PresentRun

-----------------------------------------------------------------------------
\* rule_matrix agrees on a length field by field.

LEMMA RuleMatrixFold ==
    ASSUME NEW L \in Seq(HeaderFields)
    PROVE  \E g \in [0 .. Len(L) -> Lengths] :
              /\ g[0] = NoLength
              /\ \A i \in 1 .. Len(L) : g[i] = RuleMatrixField(g[i - 1], L[i])
              /\ FoldLeft(RuleMatrixField, NoLength, L) = g[Len(L)]
<1> DEFINE N == Len(L)
           V == Lengths
           start == NoLength
           op(agreed, field) == RuleMatrixField(agreed, field)
           Body(f) == [t \in SUBSET DOMAIN L |->
                         IF t = {} THEN start ELSE op(f[t \ {Max(t)}], L[Max(t)])]
           iter == CHOOSE f : f = Body(f)
           step == [p \in V \X (1 .. N) |-> op(p[1], L[p[2]])]
<1>1. FoldLeft(RuleMatrixField, NoLength, L) = iter[DOMAIN L]
  BY DEF FoldLeft, MapThenFoldSet
<1>2. N \in Nat /\ DOMAIN L = 1 .. N
  OBVIOUS
<1>3. start \in V
  BY DEF Lengths
<1>4. ASSUME NEW s \in V, NEW i \in 1 .. N
      PROVE  op(s, L[i]) \in V
  <2>1. L[i].value \in Seq(Raws)
    BY HeaderFacts
  <2>2. FoldLeft(AcceptLength, s, L[i].value) \in Lengths
    <3>1. PICK h \in [0 .. Len(L[i].value) -> Lengths] : FoldLeft(AcceptLength, s, L[i].value) = h[Len(L[i].value)]
      BY <2>1, AcceptFold
    <3>2. Len(L[i].value) \in 0 .. Len(L[i].value)
      BY <2>1
    <3>3. QED
      BY <3>1, <3>2
  <2>3. QED
    BY <2>2 DEF RuleMatrixField
<1> HIDE DEF V, start, op
<1>5. step \in [V \X (1 .. N) -> V]
  BY <1>4
<1>6. ASSUME NEW t \in SUBSET (1 .. N), t # {}
      PROVE  Max(t) \in 1 .. N
  BY <1>2, <1>6, MaxIn
<1>7. ASSUME NEW h, FoldsTo(h, V, start, N, step)
      PROVE  h = Body(h)
  <2>1. ASSUME NEW t \in SUBSET (1 .. N)
        PROVE  h[t] = IF t = {} THEN start ELSE op(h[t \ {Max(t)}], L[Max(t)])
    BY <1>6, <1>7 DEF FoldsTo
  <2>2. QED
    BY <1>2, <1>7, <2>1 DEF FoldsTo
<1>8. ASSUME NEW h, h = Body(h)
      PROVE  Obeys(h, V, start, N, step)
  <2>1. ASSUME NEW t \in SUBSET (1 .. N)
        PROVE  h[t] = IF t = {} THEN start ELSE op(h[t \ {Max(t)}], L[Max(t)])
    BY <1>2, <1>8
  <2>2. QED
    BY <1>6, <2>1 DEF Obeys
<1>9. iter = Body(iter)
  <2>1. PICK h : FoldsTo(h, V, start, N, step)
    BY <1>2, <1>3, <1>5, FoldExists
  <2>2. h = Body(h)
    BY <1>7, <2>1
  <2> HIDE DEF Body
  <2>3. QED
    BY <2>2
<1> HIDE DEF iter, Body
<1>10. Obeys(iter, V, start, N, step)
  BY <1>8, <1>9
<1>11. PICK g : Runs(g, V, start, N, step, iter[1 .. N])
  BY <1>2, <1>3, <1>5, <1>10, FoldValues
<1>12. /\ g \in [0 .. N -> V] /\ g[0] = start /\ g[N] = iter[1 .. N]
       /\ \A i \in 1 .. N : g[i] = op(g[i - 1], L[i])
  <2>1. /\ g \in [0 .. N -> V] /\ g[0] = start /\ g[N] = iter[1 .. N]
        /\ \A i \in 1 .. N : g[i] = step[<<g[i - 1], i>>]
    <3> HIDE DEF step, N
    <3>1. QED
      BY <1>11 DEF Runs
  <2>2. \A i \in 1 .. N : i - 1 \in 0 .. N
    BY <1>2
  <2>3. QED
    BY <2>1, <2>2
<1>13. QED
  BY <1>1, <1>2, <1>12 DEF V, start, op

LEMMA RuleMatrixAgreed ==
    ASSUME NEW fields \in Seq(HeaderFields)
    PROVE  Agreed(FoldLeft(RuleMatrixField, NoLength, Fields(fields, "content-length")),
                  Members(fields, "content-length"))
<1> DEFINE N == Len(fields)
           name == "content-length"
<1>1. PICK m \in [0 .. N -> Seq(Raws)] :
         /\ m[0] = <<>>
         /\ \A i \in 1 .. N : m[i] = JoinStep(name, m[i - 1], fields[i])
         /\ Members(fields, name) = m[N]
  BY MembersFold
<1>2. PICK l \in [0 .. N -> Seq(HeaderFields)] :
         /\ l[0] = <<>>
         /\ \A i \in 1 .. N : l[i] = PickStep(name, l[i - 1], fields[i])
         /\ Fields(fields, name) = l[N]
  BY FieldsFold
<1>3. N \in Nat /\ N \in 0 .. N
  OBVIOUS
<1> DEFINE L == l[N]
           Starts(k, i) == Len(l[k]) <= Len(l[i]) /\ \A j \in 1 .. Len(l[k]) : l[i][j] = l[k][j]
<1>4. L \in Seq(HeaderFields)
  BY <1>2, <1>3
<1>5. PICK r \in [0 .. Len(L) -> Lengths] :
         /\ r[0] = NoLength
         /\ \A i \in 1 .. Len(L) : r[i] = RuleMatrixField(r[i - 1], L[i])
         /\ FoldLeft(RuleMatrixField, NoLength, L) = r[Len(L)]
  BY <1>4, RuleMatrixFold
<1> HIDE DEF name
<1>6. ASSUME NEW i \in 1 .. N
      PROVE  /\ i \in 0 .. N /\ i - 1 \in 0 .. N
             /\ l[i - 1] \in Seq(HeaderFields) /\ l[i] \in Seq(HeaderFields) /\ m[i - 1] \in Seq(Raws)
             /\ Len(l[i - 1]) \in Nat
             /\ fields[i].name # name => l[i] = l[i - 1] /\ m[i] = m[i - 1]
             /\ fields[i].name = name => /\ Len(l[i]) = Len(l[i - 1]) + 1
                                         /\ l[i][Len(l[i])] = fields[i]
                                         /\ m[i] = m[i - 1] \o fields[i].value
             /\ Starts(i - 1, i)
  <2>1. i \in 0 .. N /\ i - 1 \in 0 .. N /\ fields[i] \in HeaderFields
    BY <1>3
  <2>2. l[i - 1] \in Seq(HeaderFields) /\ l[i] \in Seq(HeaderFields) /\ m[i - 1] \in Seq(Raws)
    BY <2>1
  <2>3. Len(l[i - 1]) \in Nat
    BY <2>2
  <2>4. CASE fields[i].name # name
    <3>1. l[i] = l[i - 1] /\ m[i] = m[i - 1]
      BY <1>1, <1>2, <2>4 DEF JoinStep, PickStep
    <3>2. Len(l[i - 1]) <= Len(l[i])
      BY <2>3, <3>1
    <3>3. \A j \in 1 .. Len(l[i - 1]) : l[i][j] = l[i - 1][j]
      BY <3>1, Zenon
    <3>4. Starts(i - 1, i)
      BY <3>2, <3>3, Zenon
    <3> HIDE DEF Starts
    <3>5. QED
      BY <2>1, <2>2, <2>3, <2>4, <3>1, <3>4, Zenon
  <2>5. CASE fields[i].name = name
    <3>1. l[i] = Append(l[i - 1], fields[i]) /\ m[i] = m[i - 1] \o fields[i].value
      BY <1>1, <1>2, <2>5 DEF JoinStep, PickStep
    <3>2. ASSUME NEW w \in Seq(HeaderFields), NEW e \in HeaderFields
          PROVE  /\ Len(Append(w, e)) = Len(w) + 1 /\ Append(w, e)[Len(w) + 1] = e
                 /\ \A j \in 1 .. Len(w) : Append(w, e)[j] = w[j]
      BY AppendFacts
    <3>3. /\ Len(l[i]) = Len(l[i - 1]) + 1 /\ l[i][Len(l[i - 1]) + 1] = fields[i]
          /\ \A j \in 1 .. Len(l[i - 1]) : l[i][j] = l[i - 1][j]
      BY <2>1, <2>2, <3>1, <3>2
    <3>4. QED
      BY <2>1, <2>2, <2>3, <2>5, <3>1, <3>3
  <2>6. QED
    BY <2>4, <2>5
<1>7. ASSUME NEW k \in 0 .. N
      PROVE  Starts(k, N)
  <2> DEFINE P == {i \in 0 .. N : i >= k => Starts(k, i)}
  <2>1. l[k] \in Seq(HeaderFields) /\ Len(l[k]) \in Nat
    OBVIOUS
  <2>2. Starts(k, k)
    BY <2>1
  <2>3. 0 \in P
    <3>1. 0 >= k => k = 0
      BY <1>3
    <3>2. 0 >= k => Starts(k, 0)
      BY <2>2, <3>1, Zenon
    <3>3. QED
      BY <1>3, <3>2
  <2>4. ASSUME NEW i \in 1 .. N, i - 1 \in P
        PROVE  i \in P
    <3>1. CASE i = k
      <4>1. Starts(k, i)
        BY <2>2, <3>1, Zenon
      <4>2. QED
        BY <1>6, <4>1
    <3>2. CASE ~(i >= k)
      BY <1>6, <3>2
    <3>3. CASE i # k /\ i >= k
      <4>1. i - 1 >= k
        BY <1>3, <3>3
      <4>2. Starts(k, i - 1)
        BY <2>4, <4>1, Zenon
      <4>3. Starts(i - 1, i) /\ Len(l[i - 1]) \in Nat /\ Len(l[i]) \in Nat
        <5>1. Starts(i - 1, i) /\ l[i - 1] \in Seq(HeaderFields) /\ l[i] \in Seq(HeaderFields)
          BY <1>6, Zenon
        <5> HIDE DEF Starts
        <5>2. QED
          BY <5>1
      <4>4. \A j \in 1 .. Len(l[k]) : j \in 1 .. Len(l[i - 1])
        BY <2>1, <4>2, <4>3
      <4>5. Starts(k, i)
        <5>1. Len(l[k]) <= Len(l[i])
          BY <2>1, <4>2, <4>3
        <5>2. \A j \in 1 .. Len(l[k]) : l[i][j] = l[k][j]
          BY <4>2, <4>3, <4>4
        <5>3. QED
          BY <5>1, <5>2
      <4>6. QED
        BY <1>6, <4>5, Zenon
    <3>4. QED
      BY <3>1, <3>2, <3>3
  <2>5. 0 .. N \subseteq P
    <3> HIDE DEF P, N
    <3>1. QED
      BY <1>3, <2>3, <2>4, Induction
  <2>6. N >= k
    BY <1>3
  <2>7. QED
    BY <1>3, <2>5, <2>6, Zenon
<1> DEFINE P == {i \in 0 .. N : Agreed(r[Len(l[i])], m[i])}
<1>8. 0 \in P
  <2>1. Len(l[0]) = 0 /\ Len(m[0]) = 0
    BY <1>1, <1>2
  <2>2. Agreed(r[Len(l[0])], m[0])
    BY <1>5, <2>1 DEF Agreed
  <2>3. QED
    BY <1>3, <2>2
<1>9. ASSUME NEW i \in 1 .. N, i - 1 \in P
      PROVE  i \in P
  <2>1. i \in 0 .. N /\ i - 1 \in 0 .. N /\ m[i - 1] \in Seq(Raws) /\ Len(l[i - 1]) \in Nat
    BY <1>6
  <2>2. Agreed(r[Len(l[i - 1])], m[i - 1])
    BY <1>9, Zenon
  <2>3. Agreed(r[Len(l[i])], m[i])
    <3>1. CASE fields[i].name # name
      <4>1. l[i] = l[i - 1] /\ m[i] = m[i - 1]
        BY <1>6, <3>1
      <4>2. QED
        BY <2>2, <4>1
    <3>2. CASE fields[i].name = name
      <4> DEFINE j == Len(l[i])
      <4>1. j = Len(l[i - 1]) + 1 /\ l[i][j] = fields[i] /\ m[i] = m[i - 1] \o fields[i].value
        BY <1>6, <3>2
      <4>2. j <= Len(L) /\ \A x \in 1 .. j : L[x] = l[i][x]
        BY <1>7, <2>1
      <4> HIDE DEF j
      <4>3. Len(L) \in Nat /\ j \in 1 .. j /\ j \in 1 .. Len(L) /\ j - 1 = Len(l[i - 1]) /\ j - 1 \in 0 .. Len(L)
        BY <1>4, <2>1, <4>1, <4>2
      <4>4. L[j] = fields[i]
        BY <4>1, <4>2, <4>3
      <4>5. r[j] = FoldLeft(AcceptLength, r[j - 1], fields[i].value)
        <5>1. r[j] = RuleMatrixField(r[j - 1], fields[i])
          BY <1>5, <4>3, <4>4
        <5>2. QED
          BY <5>1 DEF RuleMatrixField
      <4>6. r[j - 1] \in Lengths /\ Agreed(r[j - 1], m[i - 1]) /\ fields[i].value \in Seq(Raws)
        <5>1. r[j - 1] \in Lengths
          BY <1>5, <4>3
        <5>2. fields[i].value \in Seq(Raws)
          BY HeaderFacts
        <5>3. QED
          BY <2>2, <4>3, <5>1, <5>2
      <4>7. Agreed(FoldLeft(AcceptLength, r[j - 1], fields[i].value), m[i - 1] \o fields[i].value)
        BY <2>1, <4>6, AgreedRun
      <4>8. QED
        BY <4>1, <4>5, <4>7 DEF j
    <3>3. QED
      BY <3>1, <3>2
  <2>4. QED
    BY <2>1, <2>3, Zenon
<1>10. 0 .. N \subseteq P
  <2> HIDE DEF P, N
  <2>1. QED
    BY <1>3, <1>8, <1>9, Induction
<1>11. Agreed(r[Len(L)], m[N])
  BY <1>3, <1>10, Zenon
<1>12. QED
  BY <1>1, <1>2, <1>5, <1>11 DEF name

-----------------------------------------------------------------------------
\* The counts of the Transfer-Encoding members.

OneCoding(M) == Len(M) = 1 /\ TrimOws(M[1]) = <<Coding>>

DirectCount(seen, raw) == IF seen # 0 \/ TrimOws(raw) # <<Coding>> THEN Overflow ELSE seen + 1

TransitionCount(n, raw) == IF TrimOws(raw) # <<Coding>> \/ n # 0 THEN Overflow ELSE n + 1

LEMMA DirectCountsFold ==
    ASSUME NEW M \in Seq(Raws)
    PROVE  \E g \in [0 .. Len(M) -> {0, 1, Overflow}] :
              /\ g[0] = 0
              /\ \A i \in 1 .. Len(M) : g[i] = DirectCount(g[i - 1], M[i])
              /\ FoldLeft(DirectCount, 0, M) = g[Len(M)]
<1> DEFINE N == Len(M)
           V == {0, 1, Overflow}
           start == 0
           op(seen, raw) == DirectCount(seen, raw)
           Body(f) == [t \in SUBSET DOMAIN M |->
                         IF t = {} THEN start ELSE op(f[t \ {Max(t)}], M[Max(t)])]
           iter == CHOOSE f : f = Body(f)
           step == [p \in V \X (1 .. N) |-> op(p[1], M[p[2]])]
<1>1. FoldLeft(DirectCount, 0, M) = iter[DOMAIN M]
  BY DEF FoldLeft, MapThenFoldSet
<1>2. N \in Nat /\ DOMAIN M = 1 .. N
  OBVIOUS
<1>3. start \in V
  OBVIOUS
<1>4. ASSUME NEW s \in V, NEW i \in 1 .. N
      PROVE  op(s, M[i]) \in V
  BY DEF DirectCount, Overflow
<1> HIDE DEF V, start, op
<1>5. step \in [V \X (1 .. N) -> V]
  BY <1>4
<1>6. ASSUME NEW t \in SUBSET (1 .. N), t # {}
      PROVE  Max(t) \in 1 .. N
  BY <1>2, <1>6, MaxIn
<1>7. ASSUME NEW h, FoldsTo(h, V, start, N, step)
      PROVE  h = Body(h)
  <2>1. ASSUME NEW t \in SUBSET (1 .. N)
        PROVE  h[t] = IF t = {} THEN start ELSE op(h[t \ {Max(t)}], M[Max(t)])
    BY <1>6, <1>7 DEF FoldsTo
  <2>2. QED
    BY <1>2, <1>7, <2>1 DEF FoldsTo
<1>8. ASSUME NEW h, h = Body(h)
      PROVE  Obeys(h, V, start, N, step)
  <2>1. ASSUME NEW t \in SUBSET (1 .. N)
        PROVE  h[t] = IF t = {} THEN start ELSE op(h[t \ {Max(t)}], M[Max(t)])
    BY <1>2, <1>8
  <2>2. QED
    BY <1>6, <2>1 DEF Obeys
<1>9. iter = Body(iter)
  <2>1. PICK h : FoldsTo(h, V, start, N, step)
    BY <1>2, <1>3, <1>5, FoldExists
  <2>2. h = Body(h)
    BY <1>7, <2>1
  <2> HIDE DEF Body
  <2>3. QED
    BY <2>2
<1> HIDE DEF iter, Body
<1>10. Obeys(iter, V, start, N, step)
  BY <1>8, <1>9
<1>11. PICK g : Runs(g, V, start, N, step, iter[1 .. N])
  BY <1>2, <1>3, <1>5, <1>10, FoldValues
<1>12. /\ g \in [0 .. N -> V] /\ g[0] = start /\ g[N] = iter[1 .. N]
       /\ \A i \in 1 .. N : g[i] = op(g[i - 1], M[i])
  <2>1. /\ g \in [0 .. N -> V] /\ g[0] = start /\ g[N] = iter[1 .. N]
        /\ \A i \in 1 .. N : g[i] = step[<<g[i - 1], i>>]
    <3> HIDE DEF step, N
    <3>1. QED
      BY <1>11 DEF Runs
  <2>2. \A i \in 1 .. N : i - 1 \in 0 .. N
    BY <1>2
  <2>3. QED
    BY <2>1, <2>2
<1>13. QED
  BY <1>1, <1>2, <1>12 DEF V, start, op

LEMMA DirectCounts ==
    ASSUME NEW M \in Seq(Raws)
    PROVE  (FoldLeft(DirectCount, 0, M) = 1) <=> OneCoding(M)
<1> DEFINE N == Len(M)
           good == TrimOws(M[1]) = <<Coding>>
           expect(i) == IF i = 0 THEN 0 ELSE IF i = 1 /\ good THEN 1 ELSE Overflow
<1>1. PICK g \in [0 .. N -> {0, 1, Overflow}] :
         /\ g[0] = 0
         /\ \A i \in 1 .. N : g[i] = DirectCount(g[i - 1], M[i])
         /\ FoldLeft(DirectCount, 0, M) = g[N]
  BY DirectCountsFold
<1>2. N \in Nat
  OBVIOUS
<1> DEFINE P == {i \in 0 .. N : g[i] = expect(i)}
<1>3. 0 \in P
  BY <1>1, <1>2
<1>4. ASSUME NEW i \in 1 .. N, i - 1 \in P
      PROVE  i \in P
  <2>1. i \in 0 .. N /\ g[i - 1] = expect(i - 1)
    BY <1>2, <1>4
  <2>2. g[i] = IF g[i - 1] # 0 \/ TrimOws(M[i]) # <<Coding>> THEN Overflow ELSE g[i - 1] + 1
    BY <1>1 DEF DirectCount
  <2>3. g[i] = expect(i)
    <3>1. CASE i = 1
      BY <2>1, <2>2, <3>1
    <3>2. CASE i # 1
      <4>1. i - 1 # 0 /\ i # 0
        BY <3>2
      <4>2. g[i - 1] # 0
        BY <2>1, <4>1 DEF Overflow
      <4>3. QED
        BY <2>2, <3>2, <4>1, <4>2
    <3>3. QED
      BY <3>1, <3>2
  <2>4. QED
    BY <2>1, <2>3
<1>5. 0 .. N \subseteq P
  <2> HIDE DEF P, N
  <2>1. QED
    BY <1>2, <1>3, <1>4, Induction
<1>6. g[N] = expect(N)
  BY <1>2, <1>5
<1>7. QED
  BY <1>1, <1>2, <1>6 DEF OneCoding, Overflow

LEMMA TransitionCountsFold ==
    ASSUME NEW M \in Seq(Raws)
    PROVE  \E g \in [0 .. Len(M) -> {0, 1, Overflow}] :
              /\ g[0] = 0
              /\ \A i \in 1 .. Len(M) : g[i] = TransitionCount(g[i - 1], M[i])
              /\ FoldLeft(TransitionCount, 0, M) = g[Len(M)]
<1> DEFINE N == Len(M)
           V == {0, 1, Overflow}
           start == 0
           op(seen, raw) == TransitionCount(seen, raw)
           Body(f) == [t \in SUBSET DOMAIN M |->
                         IF t = {} THEN start ELSE op(f[t \ {Max(t)}], M[Max(t)])]
           iter == CHOOSE f : f = Body(f)
           step == [p \in V \X (1 .. N) |-> op(p[1], M[p[2]])]
<1>1. FoldLeft(TransitionCount, 0, M) = iter[DOMAIN M]
  BY DEF FoldLeft, MapThenFoldSet
<1>2. N \in Nat /\ DOMAIN M = 1 .. N
  OBVIOUS
<1>3. start \in V
  OBVIOUS
<1>4. ASSUME NEW s \in V, NEW i \in 1 .. N
      PROVE  op(s, M[i]) \in V
  BY DEF TransitionCount, Overflow
<1> HIDE DEF V, start, op
<1>5. step \in [V \X (1 .. N) -> V]
  BY <1>4
<1>6. ASSUME NEW t \in SUBSET (1 .. N), t # {}
      PROVE  Max(t) \in 1 .. N
  BY <1>2, <1>6, MaxIn
<1>7. ASSUME NEW h, FoldsTo(h, V, start, N, step)
      PROVE  h = Body(h)
  <2>1. ASSUME NEW t \in SUBSET (1 .. N)
        PROVE  h[t] = IF t = {} THEN start ELSE op(h[t \ {Max(t)}], M[Max(t)])
    BY <1>6, <1>7 DEF FoldsTo
  <2>2. QED
    BY <1>2, <1>7, <2>1 DEF FoldsTo
<1>8. ASSUME NEW h, h = Body(h)
      PROVE  Obeys(h, V, start, N, step)
  <2>1. ASSUME NEW t \in SUBSET (1 .. N)
        PROVE  h[t] = IF t = {} THEN start ELSE op(h[t \ {Max(t)}], M[Max(t)])
    BY <1>2, <1>8
  <2>2. QED
    BY <1>6, <2>1 DEF Obeys
<1>9. iter = Body(iter)
  <2>1. PICK h : FoldsTo(h, V, start, N, step)
    BY <1>2, <1>3, <1>5, FoldExists
  <2>2. h = Body(h)
    BY <1>7, <2>1
  <2> HIDE DEF Body
  <2>3. QED
    BY <2>2
<1> HIDE DEF iter, Body
<1>10. Obeys(iter, V, start, N, step)
  BY <1>8, <1>9
<1>11. PICK g : Runs(g, V, start, N, step, iter[1 .. N])
  BY <1>2, <1>3, <1>5, <1>10, FoldValues
<1>12. /\ g \in [0 .. N -> V] /\ g[0] = start /\ g[N] = iter[1 .. N]
       /\ \A i \in 1 .. N : g[i] = op(g[i - 1], M[i])
  <2>1. /\ g \in [0 .. N -> V] /\ g[0] = start /\ g[N] = iter[1 .. N]
        /\ \A i \in 1 .. N : g[i] = step[<<g[i - 1], i>>]
    <3> HIDE DEF step, N
    <3>1. QED
      BY <1>11 DEF Runs
  <2>2. \A i \in 1 .. N : i - 1 \in 0 .. N
    BY <1>2
  <2>3. QED
    BY <2>1, <2>2
<1>13. QED
  BY <1>1, <1>2, <1>12 DEF V, start, op

LEMMA TransitionCounts ==
    ASSUME NEW M \in Seq(Raws)
    PROVE  (FoldLeft(TransitionCount, 0, M) = 1) <=> OneCoding(M)
<1> DEFINE N == Len(M)
           good == TrimOws(M[1]) = <<Coding>>
           expect(i) == IF i = 0 THEN 0 ELSE IF i = 1 /\ good THEN 1 ELSE Overflow
<1>1. PICK g \in [0 .. N -> {0, 1, Overflow}] :
         /\ g[0] = 0
         /\ \A i \in 1 .. N : g[i] = TransitionCount(g[i - 1], M[i])
         /\ FoldLeft(TransitionCount, 0, M) = g[N]
  BY TransitionCountsFold
<1>2. N \in Nat
  OBVIOUS
<1> DEFINE P == {i \in 0 .. N : g[i] = expect(i)}
<1>3. 0 \in P
  BY <1>1, <1>2
<1>4. ASSUME NEW i \in 1 .. N, i - 1 \in P
      PROVE  i \in P
  <2>1. i \in 0 .. N /\ g[i - 1] = expect(i - 1)
    BY <1>2, <1>4
  <2>2. g[i] = IF g[i - 1] # 0 \/ TrimOws(M[i]) # <<Coding>> THEN Overflow ELSE g[i - 1] + 1
    BY <1>1 DEF TransitionCount
  <2>3. g[i] = expect(i)
    <3>1. CASE i = 1
      BY <2>1, <2>2, <3>1
    <3>2. CASE i # 1
      <4>1. i - 1 # 0 /\ i # 0
        BY <3>2
      <4>2. g[i - 1] # 0
        BY <2>1, <4>1 DEF Overflow
      <4>3. QED
        BY <2>2, <3>2, <4>1, <4>2
    <3>3. QED
      BY <3>1, <3>2
  <2>4. QED
    BY <2>1, <2>3
<1>5. 0 .. N \subseteq P
  <2> HIDE DEF P, N
  <2>1. QED
    BY <1>2, <1>3, <1>4, Induction
<1>6. g[N] = expect(N)
  BY <1>2, <1>5
<1>7. QED
  BY <1>1, <1>2, <1>6 DEF OneCoding, Overflow

-----------------------------------------------------------------------------
\* stream_machine goes on after a fault and remembers the first.

NoneYet == Outcome("none", 0)
BadCoding == Outcome("InvalidTransferEncoding", 0)

StreamFaults == {NoneYet, Conflict, BadCoding} \cup {ParseLength(raw) : raw \in Raws}

Machines == [presence : SUBSET FRAMING_NAMES, agreed : {0} \cup {ParseLength(raw).n : raw \in Raws},
             has : BOOLEAN, members : Nat, fault : StreamFaults]

LEMMA RememberCases ==
    ASSUME NEW machine \in Machines, NEW fault, Outcome(fault.tag, fault.n) \in StreamFaults
    PROVE  LET next == RememberFault(machine, fault.tag, fault.n)
           IN  /\ next \in Machines
               /\ next.presence = machine.presence
               /\ next.members = machine.members
               /\ machine.fault.tag = "none" => next.fault = Outcome(fault.tag, fault.n)
               /\ machine.fault.tag # "none" => next = machine
BY DEF RememberFault, Machines

LEMMA FaultParts ==
    /\ NoneYet.tag = "none"
    /\ Conflict = Outcome(Conflict.tag, Conflict.n) /\ Conflict.tag = "ConflictingContentLength" /\ Conflict.n = 0
    /\ BadCoding = Outcome(BadCoding.tag, BadCoding.n) /\ BadCoding.tag = "InvalidTransferEncoding" /\ BadCoding.n = 0
BY DEF NoneYet, Conflict, BadCoding, Outcome

LEMMA ObserveLengthCases ==
    ASSUME NEW machine \in Machines, NEW raw \in Raws
    PROVE  LET parsed == ParseLength(raw)
               next == ObserveLength(machine, raw)
               conflicts == machine.has /\ machine.agreed # parsed.n
           IN  /\ next \in Machines /\ next.presence = machine.presence
               /\ machine.fault.tag = "none" /\ parsed.tag # "length" => next.fault = parsed
               /\ machine.fault.tag = "none" /\ parsed.tag = "length" /\ conflicts => next.fault = Conflict
               /\ parsed.tag = "length" /\ ~conflicts =>
                     next.fault = machine.fault /\ next.has /\ next.agreed = parsed.n
               /\ machine.fault.tag # "none" => next.fault = machine.fault
<1> DEFINE parsed == ParseLength(raw)
           next == ObserveLength(machine, raw)
           conflicts == machine.has /\ machine.agreed # parsed.n
<1>1. next = CASE parsed.tag # "length" -> RememberFault(machine, parsed.tag, parsed.n)
               [] parsed.tag = "length" /\ machine.has /\ machine.agreed # parsed.n ->
                     RememberFault(machine, "ConflictingContentLength", 0)
               [] OTHER -> [machine EXCEPT !.agreed = parsed.n, !.has = TRUE]
  BY Zenon DEF ObserveLength
<1>2. parsed = Outcome(parsed.tag, parsed.n) /\ parsed \in StreamFaults /\ Conflict \in StreamFaults
  BY ParseTags DEF StreamFaults
<1>3. parsed.n \in {0} \cup {ParseLength(x).n : x \in Raws}
  OBVIOUS
<1> SUFFICES /\ next \in Machines /\ next.presence = machine.presence
             /\ machine.fault.tag = "none" /\ parsed.tag # "length" => next.fault = parsed
             /\ machine.fault.tag = "none" /\ parsed.tag = "length" /\ conflicts => next.fault = Conflict
             /\ parsed.tag = "length" /\ ~conflicts =>
                   next.fault = machine.fault /\ next.has /\ next.agreed = parsed.n
             /\ machine.fault.tag # "none" => next.fault = machine.fault
  BY Zenon
<1> HIDE DEF parsed, next
<1>4. CASE parsed.tag # "length"
  <2>1. next = RememberFault(machine, parsed.tag, parsed.n)
    BY <1>1, <1>4, Zenon
  <2>2. QED
    BY <1>2, <1>4, <2>1, RememberCases
<1>5. CASE parsed.tag = "length" /\ conflicts
  <2>1. next = RememberFault(machine, "ConflictingContentLength", 0)
    BY <1>1, <1>5, Zenon
  <2>2. next = RememberFault(machine, Conflict.tag, Conflict.n) /\ Conflict = Outcome(Conflict.tag, Conflict.n)
    BY <2>1, FaultParts
  <2>3. QED
    BY <1>2, <1>5, <2>2, RememberCases
<1>6. CASE parsed.tag = "length" /\ ~conflicts
  <2>1. next = [machine EXCEPT !.agreed = parsed.n, !.has = TRUE]
    BY <1>1, <1>6, Zenon
  <2>2. QED
    BY <1>3, <1>6, <2>1 DEF Machines
<1>7. QED
  BY <1>4, <1>5, <1>6, Zenon

\* What the machine knows of the lengths M, and of the codings M.
LengthTells(machine, M) ==
    \/ /\ NoFault(M) /\ machine.fault = NoneYet
       /\ machine.has <=> Len(M) # 0
       /\ Len(M) # 0 => machine.agreed = ParseLength(M[1]).n
    \/ \E k \in 1 .. Len(M) : FaultFirst(M, k) /\ machine.fault = LengthVerdict(M, k)

CodingTells(machine, M) ==
    /\ machine.members = Len(M)
    /\ machine.fault = IF Len(M) = 0 \/ OneCoding(M) THEN NoneYet ELSE BadCoding

LEMMA LengthTellsStep ==
    ASSUME NEW machine \in Machines, NEW M \in Seq(Raws), NEW raw \in Raws, LengthTells(machine, M)
    PROVE  LET next == ObserveLength(machine, raw)
           IN  next.presence = machine.presence /\ LengthTells(next, Append(M, raw))
<1> DEFINE more == Append(M, raw)
           n == Len(M)
           next == ObserveLength(machine, raw)
           parsed == ParseLength(raw)
           conflicts == machine.has /\ machine.agreed # parsed.n
<1>1. /\ Len(more) = n + 1 /\ n \in Nat /\ more[n + 1] = raw
      /\ n # 0 => more[1] = M[1]
      /\ \A i \in 1 .. n : LengthVerdict(more, i) = LengthVerdict(M, i)
      /\ \A i \in 1 .. n : FaultFirst(M, i) => FaultFirst(more, i)
      /\ NoFault(M) /\ ~LengthFault(more, n + 1) => NoFault(more)
      /\ NoFault(M) /\ LengthFault(more, n + 1) => FaultFirst(more, n + 1)
  BY OneMore
<1>2. /\ next.presence = machine.presence
      /\ machine.fault.tag = "none" /\ parsed.tag # "length" => next.fault = parsed
      /\ machine.fault.tag = "none" /\ parsed.tag = "length" /\ conflicts => next.fault = Conflict
      /\ parsed.tag = "length" /\ ~conflicts =>
            next.fault = machine.fault /\ next.has /\ next.agreed = parsed.n
      /\ machine.fault.tag # "none" => next.fault = machine.fault
  BY ObserveLengthCases
<1>3. Len(more) # 0 /\ n + 1 \in 1 .. Len(more) /\ \A i \in 1 .. n : i \in 1 .. Len(more)
  BY <1>1
<1> SUFFICES LengthTells(next, more)
  BY <1>2
<1> HIDE DEF more, next
<1>4. CASE \E k \in 1 .. n : FaultFirst(M, k) /\ machine.fault = LengthVerdict(M, k)
  <2>1. PICK k \in 1 .. n : FaultFirst(M, k) /\ machine.fault = LengthVerdict(M, k)
    BY <1>4
  <2>2. next.fault = machine.fault
    BY <1>2, <2>1, VerdictTag
  <2>3. QED
    BY <1>1, <1>3, <2>1, <2>2 DEF LengthTells
<1>5. CASE /\ NoFault(M) /\ machine.fault = NoneYet
           /\ machine.has <=> n # 0
           /\ n # 0 => machine.agreed = ParseLength(M[1]).n
  <2>1. machine.fault.tag = "none"
    BY <1>5, FaultParts
  <2>2. CASE parsed.tag # "length"
    <3>1. LengthFault(more, n + 1) /\ LengthVerdict(more, n + 1) = parsed
      BY <1>1, <2>2 DEF LengthFault, LengthVerdict
    <3>2. next.fault = parsed
      BY <1>2, <2>1, <2>2
    <3>3. QED
      BY <1>1, <1>3, <1>5, <3>1, <3>2 DEF LengthTells
  <2>3. CASE parsed.tag = "length" /\ conflicts
    <3>1. n # 0 /\ more[1] = M[1] /\ parsed.n # ParseLength(more[1]).n
      BY <1>1, <1>5, <2>3
    <3>2. LengthFault(more, n + 1) /\ LengthVerdict(more, n + 1) = Conflict
      BY <1>1, <2>3, <3>1 DEF LengthFault, LengthVerdict
    <3>3. next.fault = Conflict
      BY <1>2, <2>1, <2>3
    <3>4. QED
      BY <1>1, <1>3, <1>5, <3>2, <3>3 DEF LengthTells
  <2>4. CASE parsed.tag = "length" /\ ~conflicts
    <3>1. parsed.n = ParseLength(more[1]).n
      <4>1. CASE n = 0
        BY <1>1, <4>1
      <4>2. CASE n # 0
        BY <1>1, <1>5, <2>4, <4>2
      <4>3. QED
        BY <4>1, <4>2
    <3>2. ~LengthFault(more, n + 1)
      BY <1>1, <2>4, <3>1 DEF LengthFault
    <3>3. next.fault = NoneYet /\ next.has /\ next.agreed = parsed.n
      BY <1>2, <1>5, <2>4
    <3>4. NoFault(more)
      BY <1>1, <1>5, <3>2
    <3>5. QED
      BY <1>3, <3>1, <3>3, <3>4 DEF LengthTells
  <2>5. QED
    BY <2>2, <2>3, <2>4
<1>6. QED
  BY <1>4, <1>5 DEF LengthTells

LEMMA CodingTellsStep ==
    ASSUME NEW machine \in Machines, NEW M \in Seq(Raws), NEW raw \in Raws, CodingTells(machine, M)
    PROVE  LET next == ObserveCoding(machine, raw)
           IN  next.presence = machine.presence /\ CodingTells(next, Append(M, raw))
<1> DEFINE more == Append(M, raw)
           n == Len(M)
           good == TrimOws(raw) = <<Coding>>
           counted == [machine EXCEPT !.members = @ + 1]
           next == ObserveCoding(machine, raw)
<1>1. Len(more) = n + 1 /\ n \in Nat /\ more[n + 1] = raw
  BY OneMore
<1>2. /\ counted \in Machines /\ counted.members = n + 1
      /\ counted.presence = machine.presence /\ counted.fault = machine.fault
  <2>1. machine.members = n /\ n \in Nat
    BY <1>1 DEF CodingTells
  <2>2. QED
    BY <2>1 DEF Machines
<1>3. next = IF counted.members # 1 \/ ~good THEN RememberFault(counted, "InvalidTransferEncoding", 0) ELSE counted
  BY Zenon DEF ObserveCoding
<1>4. machine.fault = IF n = 0 \/ OneCoding(M) THEN NoneYet ELSE BadCoding
  BY DEF CodingTells
<1>5. OneCoding(more) <=> n = 0 /\ good
  <2>1. n = 0 => more[1] = raw
    BY <1>1
  <2> HIDE DEF more
  <2>2. QED
    BY <1>1, <2>1 DEF OneCoding
<1>6. BadCoding \in StreamFaults /\ BadCoding = Outcome("InvalidTransferEncoding", 0)
  BY DEF BadCoding, StreamFaults
<1> SUFFICES next.presence = machine.presence /\ CodingTells(next, more)
  OBVIOUS
<1> HIDE DEF more, counted, next, good
<1>7. CASE n = 0 /\ good
  <2>1. next = counted /\ machine.fault = NoneYet /\ OneCoding(more)
    BY <1>2, <1>3, <1>4, <1>5, <1>7
  <2>2. QED
    BY <1>1, <1>2, <2>1 DEF CodingTells
<1>8. CASE ~(n = 0 /\ good)
  <2>1. counted.members # 1 \/ ~good
    BY <1>1, <1>2, <1>8
  <2>2. next = RememberFault(counted, BadCoding.tag, BadCoding.n)
    <3>1. next = RememberFault(counted, "InvalidTransferEncoding", 0)
      BY <1>3, <2>1, Zenon
    <3>2. QED
      BY <3>1, FaultParts
  <2>3. /\ next.presence = counted.presence /\ next.members = counted.members
        /\ counted.fault.tag = "none" => next.fault = BadCoding
        /\ counted.fault.tag # "none" => next = counted
    <3>1. Outcome(BadCoding.tag, BadCoding.n) = BadCoding
      BY FaultParts
    <3>2. QED
      BY <1>2, <1>6, <2>2, <3>1, RememberCases
  <2>4. counted.fault = NoneYet \/ counted.fault = BadCoding
    BY <1>2, <1>4
  <2>5. next.fault = BadCoding
    BY <2>3, <2>4, FaultParts
  <2>6. Len(more) # 0 /\ ~OneCoding(more)
    BY <1>1, <1>5, <1>8
  <2>7. QED
    BY <1>1, <1>2, <2>3, <2>5, <2>6 DEF CodingTells
<1>9. QED
  BY <1>7, <1>8

LEMMA ObserveTypes ==
    ASSUME NEW machine \in Machines, NEW raw \in Raws
    PROVE  ObserveLength(machine, raw) \in Machines /\ ObserveCoding(machine, raw) \in Machines
<1> DEFINE counted == [machine EXCEPT !.members = @ + 1]
<1>1. counted \in Machines
  BY DEF Machines
<1>2. RememberFault(counted, "InvalidTransferEncoding", 0) \in Machines
  <2>1. BadCoding \in StreamFaults
    BY DEF StreamFaults
  <2>2. RememberFault(counted, BadCoding.tag, BadCoding.n) \in Machines
    <3> HIDE DEF counted
    <3>1. QED
      BY <1>1, <2>1, FaultParts, RememberCases
  <2>3. QED
    BY <2>2, FaultParts
<1>3. ObserveCoding(machine, raw) \in {counted, RememberFault(counted, "InvalidTransferEncoding", 0)}
  BY Zenon DEF ObserveCoding
<1>4. ObserveLength(machine, raw) \in Machines
  BY ObserveLengthCases
<1> HIDE DEF counted
<1>5. QED
  BY <1>1, <1>2, <1>3, <1>4

LEMMA ObserveLengthFold ==
    ASSUME NEW start \in Machines, NEW v \in Seq(Raws)
    PROVE  \E g \in [0 .. Len(v) -> Machines] :
              /\ g[0] = start
              /\ \A i \in 1 .. Len(v) : g[i] = ObserveLength(g[i - 1], v[i])
              /\ FoldLeft(ObserveLength, start, v) = g[Len(v)]
<1> DEFINE N == Len(v)
           V == Machines
           op(machine, raw) == ObserveLength(machine, raw)
           Body(f) == [t \in SUBSET DOMAIN v |->
                         IF t = {} THEN start ELSE op(f[t \ {Max(t)}], v[Max(t)])]
           iter == CHOOSE f : f = Body(f)
           step == [p \in V \X (1 .. N) |-> op(p[1], v[p[2]])]
<1>1. FoldLeft(ObserveLength, start, v) = iter[DOMAIN v]
  BY DEF FoldLeft, MapThenFoldSet
<1>2. N \in Nat /\ DOMAIN v = 1 .. N /\ \A i \in 1 .. N : v[i] \in Raws
  OBVIOUS
<1>3. start \in V
  OBVIOUS
<1>4. ASSUME NEW s \in V, NEW i \in 1 .. N
      PROVE  op(s, v[i]) \in V
  BY <1>2, ObserveTypes
<1> HIDE DEF V, op
<1>5. step \in [V \X (1 .. N) -> V]
  BY <1>4
<1>6. ASSUME NEW t \in SUBSET (1 .. N), t # {}
      PROVE  Max(t) \in 1 .. N
  BY <1>2, <1>6, MaxIn
<1>7. ASSUME NEW h, FoldsTo(h, V, start, N, step)
      PROVE  h = Body(h)
  <2>1. ASSUME NEW t \in SUBSET (1 .. N)
        PROVE  h[t] = IF t = {} THEN start ELSE op(h[t \ {Max(t)}], v[Max(t)])
    BY <1>6, <1>7 DEF FoldsTo
  <2>2. QED
    BY <1>2, <1>7, <2>1 DEF FoldsTo
<1>8. ASSUME NEW h, h = Body(h)
      PROVE  Obeys(h, V, start, N, step)
  <2>1. ASSUME NEW t \in SUBSET (1 .. N)
        PROVE  h[t] = IF t = {} THEN start ELSE op(h[t \ {Max(t)}], v[Max(t)])
    BY <1>2, <1>8
  <2>2. QED
    BY <1>6, <2>1 DEF Obeys
<1>9. iter = Body(iter)
  <2>1. PICK h : FoldsTo(h, V, start, N, step)
    BY <1>2, <1>3, <1>5, FoldExists
  <2>2. h = Body(h)
    BY <1>7, <2>1
  <2> HIDE DEF Body
  <2>3. QED
    BY <2>2
<1> HIDE DEF iter, Body
<1>10. Obeys(iter, V, start, N, step)
  BY <1>8, <1>9
<1>11. PICK g : Runs(g, V, start, N, step, iter[1 .. N])
  BY <1>2, <1>3, <1>5, <1>10, FoldValues
<1>12. /\ g \in [0 .. N -> V] /\ g[0] = start /\ g[N] = iter[1 .. N]
       /\ \A i \in 1 .. N : g[i] = op(g[i - 1], v[i])
  <2>1. /\ g \in [0 .. N -> V] /\ g[0] = start /\ g[N] = iter[1 .. N]
        /\ \A i \in 1 .. N : g[i] = step[<<g[i - 1], i>>]
    <3> HIDE DEF step, N
    <3>1. QED
      BY <1>11 DEF Runs
  <2>2. \A i \in 1 .. N : i - 1 \in 0 .. N
    BY <1>2
  <2>3. QED
    BY <2>1, <2>2
<1>13. QED
  BY <1>1, <1>2, <1>12 DEF V, op

LEMMA ObserveCodingFold ==
    ASSUME NEW start \in Machines, NEW v \in Seq(Raws)
    PROVE  \E g \in [0 .. Len(v) -> Machines] :
              /\ g[0] = start
              /\ \A i \in 1 .. Len(v) : g[i] = ObserveCoding(g[i - 1], v[i])
              /\ FoldLeft(ObserveCoding, start, v) = g[Len(v)]
<1> DEFINE N == Len(v)
           V == Machines
           op(machine, raw) == ObserveCoding(machine, raw)
           Body(f) == [t \in SUBSET DOMAIN v |->
                         IF t = {} THEN start ELSE op(f[t \ {Max(t)}], v[Max(t)])]
           iter == CHOOSE f : f = Body(f)
           step == [p \in V \X (1 .. N) |-> op(p[1], v[p[2]])]
<1>1. FoldLeft(ObserveCoding, start, v) = iter[DOMAIN v]
  BY DEF FoldLeft, MapThenFoldSet
<1>2. N \in Nat /\ DOMAIN v = 1 .. N /\ \A i \in 1 .. N : v[i] \in Raws
  OBVIOUS
<1>3. start \in V
  OBVIOUS
<1>4. ASSUME NEW s \in V, NEW i \in 1 .. N
      PROVE  op(s, v[i]) \in V
  BY <1>2, ObserveTypes
<1> HIDE DEF V, op
<1>5. step \in [V \X (1 .. N) -> V]
  BY <1>4
<1>6. ASSUME NEW t \in SUBSET (1 .. N), t # {}
      PROVE  Max(t) \in 1 .. N
  BY <1>2, <1>6, MaxIn
<1>7. ASSUME NEW h, FoldsTo(h, V, start, N, step)
      PROVE  h = Body(h)
  <2>1. ASSUME NEW t \in SUBSET (1 .. N)
        PROVE  h[t] = IF t = {} THEN start ELSE op(h[t \ {Max(t)}], v[Max(t)])
    BY <1>6, <1>7 DEF FoldsTo
  <2>2. QED
    BY <1>2, <1>7, <2>1 DEF FoldsTo
<1>8. ASSUME NEW h, h = Body(h)
      PROVE  Obeys(h, V, start, N, step)
  <2>1. ASSUME NEW t \in SUBSET (1 .. N)
        PROVE  h[t] = IF t = {} THEN start ELSE op(h[t \ {Max(t)}], v[Max(t)])
    BY <1>2, <1>8
  <2>2. QED
    BY <1>6, <2>1 DEF Obeys
<1>9. iter = Body(iter)
  <2>1. PICK h : FoldsTo(h, V, start, N, step)
    BY <1>2, <1>3, <1>5, FoldExists
  <2>2. h = Body(h)
    BY <1>7, <2>1
  <2> HIDE DEF Body
  <2>3. QED
    BY <2>2
<1> HIDE DEF iter, Body
<1>10. Obeys(iter, V, start, N, step)
  BY <1>8, <1>9
<1>11. PICK g : Runs(g, V, start, N, step, iter[1 .. N])
  BY <1>2, <1>3, <1>5, <1>10, FoldValues
<1>12. /\ g \in [0 .. N -> V] /\ g[0] = start /\ g[N] = iter[1 .. N]
       /\ \A i \in 1 .. N : g[i] = op(g[i - 1], v[i])
  <2>1. /\ g \in [0 .. N -> V] /\ g[0] = start /\ g[N] = iter[1 .. N]
        /\ \A i \in 1 .. N : g[i] = step[<<g[i - 1], i>>]
    <3> HIDE DEF step, N
    <3>1. QED
      BY <1>11 DEF Runs
  <2>2. \A i \in 1 .. N : i - 1 \in 0 .. N
    BY <1>2
  <2>3. QED
    BY <2>1, <2>2
<1>13. QED
  BY <1>1, <1>2, <1>12 DEF V, op

LEMMA ObserveLengthRun ==
    ASSUME NEW start \in Machines, NEW M \in Seq(Raws), NEW v \in Seq(Raws), LengthTells(start, M)
    PROVE  LET end == FoldLeft(ObserveLength, start, v)
           IN  end \in Machines /\ end.presence = start.presence /\ LengthTells(end, M \o v)
<1> DEFINE N == Len(v)
           seen(i) == Grown(M, v, i)
<1>1. PICK g \in [0 .. N -> Machines] :
         /\ g[0] = start
         /\ \A i \in 1 .. N : g[i] = ObserveLength(g[i - 1], v[i])
         /\ FoldLeft(ObserveLength, start, v) = g[N]
  BY ObserveLengthFold
<1>2. N \in Nat /\ \A i \in 1 .. N : v[i] \in Raws
  OBVIOUS
<1>3. /\ seen(0) = M /\ seen(N) = M \o v
      /\ \A i \in 1 .. N : seen(i - 1) \in Seq(Raws) /\ seen(i) = Append(seen(i - 1), v[i])
  BY Growth
<1> DEFINE Holds(i) == g[i].presence = start.presence /\ LengthTells(g[i], seen(i))
           P == {i \in 0 .. N : Holds(i)}
<1> HIDE DEF seen
<1>4. 0 \in P
  <2>1. 0 \in 0 .. N /\ Holds(0)
    BY <1>1, <1>2, <1>3
  <2>2. QED
    BY <2>1, Zenon
<1>5. ASSUME NEW i \in 1 .. N, i - 1 \in P
      PROVE  i \in P
  <2>1. i \in 0 .. N /\ i - 1 \in 0 .. N /\ g[i - 1] \in Machines
    BY <1>2
  <2>2. g[i - 1].presence = start.presence /\ LengthTells(g[i - 1], seen(i - 1))
    BY <1>5, Zenon
  <2> DEFINE next == ObserveLength(g[i - 1], v[i])
  <2>3. next.presence = g[i - 1].presence /\ LengthTells(next, Append(seen(i - 1), v[i]))
    BY <1>2, <1>3, <2>1, <2>2, LengthTellsStep
  <2>4. g[i] = next /\ seen(i) = Append(seen(i - 1), v[i])
    BY <1>1, <1>3
  <2> HIDE DEF next
  <2>5. Holds(i)
    BY <2>2, <2>3, <2>4
  <2>6. QED
    BY <2>1, <2>5, Zenon
<1>6. 0 .. N \subseteq P
  <2> HIDE DEF P, N
  <2>1. QED
    BY <1>2, <1>4, <1>5, Induction
<1>7. N \in 0 .. N
  BY <1>2
<1>8. Holds(N) /\ g[N] \in Machines
  BY <1>6, <1>7, Zenon
<1>9. QED
  BY <1>1, <1>3, <1>8

LEMMA ObserveCodingRun ==
    ASSUME NEW start \in Machines, NEW M \in Seq(Raws), NEW v \in Seq(Raws), CodingTells(start, M)
    PROVE  LET end == FoldLeft(ObserveCoding, start, v)
           IN  end \in Machines /\ end.presence = start.presence /\ CodingTells(end, M \o v)
<1> DEFINE N == Len(v)
           seen(i) == Grown(M, v, i)
<1>1. PICK g \in [0 .. N -> Machines] :
         /\ g[0] = start
         /\ \A i \in 1 .. N : g[i] = ObserveCoding(g[i - 1], v[i])
         /\ FoldLeft(ObserveCoding, start, v) = g[N]
  BY ObserveCodingFold
<1>2. N \in Nat /\ \A i \in 1 .. N : v[i] \in Raws
  OBVIOUS
<1>3. /\ seen(0) = M /\ seen(N) = M \o v
      /\ \A i \in 1 .. N : seen(i - 1) \in Seq(Raws) /\ seen(i) = Append(seen(i - 1), v[i])
  BY Growth
<1> DEFINE Holds(i) == g[i].presence = start.presence /\ CodingTells(g[i], seen(i))
           P == {i \in 0 .. N : Holds(i)}
<1> HIDE DEF seen
<1>4. 0 \in P
  <2>1. 0 \in 0 .. N /\ Holds(0)
    BY <1>1, <1>2, <1>3
  <2>2. QED
    BY <2>1, Zenon
<1>5. ASSUME NEW i \in 1 .. N, i - 1 \in P
      PROVE  i \in P
  <2>1. i \in 0 .. N /\ i - 1 \in 0 .. N /\ g[i - 1] \in Machines
    BY <1>2
  <2>2. g[i - 1].presence = start.presence /\ CodingTells(g[i - 1], seen(i - 1))
    BY <1>5, Zenon
  <2> DEFINE next == ObserveCoding(g[i - 1], v[i])
  <2>3. next.presence = g[i - 1].presence /\ CodingTells(next, Append(seen(i - 1), v[i]))
    BY <1>2, <1>3, <2>1, <2>2, CodingTellsStep
  <2>4. g[i] = next /\ seen(i) = Append(seen(i - 1), v[i])
    BY <1>1, <1>3
  <2> HIDE DEF next
  <2>5. Holds(i)
    BY <2>2, <2>3, <2>4
  <2>6. QED
    BY <2>1, <2>5, Zenon
<1>6. 0 .. N \subseteq P
  <2> HIDE DEF P, N
  <2>1. QED
    BY <1>2, <1>4, <1>5, Induction
<1>7. N \in 0 .. N
  BY <1>2
<1>8. Holds(N) /\ g[N] \in Machines
  BY <1>6, <1>7, Zenon
<1>9. QED
  BY <1>1, <1>3, <1>8

LEMMA ObserveKeeps ==
    ASSUME NEW machine \in Machines, NEW raw \in Raws
    PROVE  /\ ObserveLength(machine, raw).presence = machine.presence
           /\ ObserveCoding(machine, raw).presence = machine.presence
<1> DEFINE counted == [machine EXCEPT !.members = @ + 1]
           faulted == RememberFault(counted, "InvalidTransferEncoding", 0)
<1>1. counted \in Machines /\ counted.presence = machine.presence
  BY DEF Machines
<1>2. faulted.presence = machine.presence
  BY <1>1 DEF RememberFault, Machines
<1>3. ObserveCoding(machine, raw) \in {counted, faulted}
  BY Zenon DEF ObserveCoding
<1>4. ObserveLength(machine, raw).presence = machine.presence
  BY ObserveLengthCases
<1> HIDE DEF counted, faulted
<1>5. QED
  BY <1>1, <1>2, <1>3, <1>4

LEMMA PresenceKept ==
    ASSUME NEW n \in Nat, NEW g, \A i \in 1 .. n : g[i].presence = g[i - 1].presence
    PROVE  g[n].presence = g[0].presence
<1> DEFINE P == {i \in 0 .. n : g[i].presence = g[0].presence}
<1>1. 0 \in P
  OBVIOUS
<1>2. ASSUME NEW i \in 1 .. n, i - 1 \in P
      PROVE  i \in P
  <2>1. g[i - 1].presence = g[0].presence /\ i \in 0 .. n
    BY <1>2
  <2>2. QED
    BY <2>1
<1>3. 0 .. n \subseteq P
  <2> HIDE DEF P
  <2>1. QED
    BY <1>1, <1>2, Induction
<1>4. QED
  BY <1>3

LEMMA ObserveEnds ==
    ASSUME NEW start \in Machines, NEW v \in Seq(Raws)
    PROVE  /\ FoldLeft(ObserveLength, start, v) \in Machines
           /\ FoldLeft(ObserveLength, start, v).presence = start.presence
           /\ FoldLeft(ObserveCoding, start, v) \in Machines
           /\ FoldLeft(ObserveCoding, start, v).presence = start.presence
<1> DEFINE N == Len(v)
<1>1. N \in Nat /\ N \in 0 .. N /\ \A i \in 1 .. N : v[i] \in Raws /\ i - 1 \in 0 .. N
  OBVIOUS
<1>2. PICK g \in [0 .. N -> Machines] :
         /\ g[0] = start
         /\ \A i \in 1 .. N : g[i] = ObserveLength(g[i - 1], v[i])
         /\ FoldLeft(ObserveLength, start, v) = g[N]
  BY ObserveLengthFold
<1>3. PICK h \in [0 .. N -> Machines] :
         /\ h[0] = start
         /\ \A i \in 1 .. N : h[i] = ObserveCoding(h[i - 1], v[i])
         /\ FoldLeft(ObserveCoding, start, v) = h[N]
  BY ObserveCodingFold
<1>4. g[N].presence = start.presence
  <2>1. \A i \in 1 .. N : g[i].presence = g[i - 1].presence
    BY <1>1, <1>2, ObserveKeeps
  <2>2. QED
    BY <1>1, <1>2, <2>1, PresenceKept
<1>5. h[N].presence = start.presence
  <2>1. \A i \in 1 .. N : h[i].presence = h[i - 1].presence
    BY <1>1, <1>3, ObserveKeeps
  <2>2. QED
    BY <1>1, <1>3, <2>1, PresenceKept
<1>6. QED
  BY <1>1, <1>2, <1>3, <1>4, <1>5

\* The machine with one more name present.
Marked(machine, name) == [machine EXCEPT !.presence = @ \cup {name}]

LEMMA MarkedFacts ==
    ASSUME NEW machine \in Machines, NEW name \in FRAMING_NAMES
    PROVE  /\ Marked(machine, name) \in Machines
           /\ Marked(machine, name).presence = machine.presence \cup {name}
           /\ \A M : LengthTells(machine, M) => LengthTells(Marked(machine, name), M)
           /\ \A M : CodingTells(machine, M) => CodingTells(Marked(machine, name), M)
<1> DEFINE next == Marked(machine, name)
<1>1. /\ next \in Machines /\ next.presence = machine.presence \cup {name}
      /\ next.fault = machine.fault /\ next.has = machine.has /\ next.agreed = machine.agreed
      /\ next.members = machine.members
  BY DEF Marked, Machines
<1> HIDE DEF next
<1>2. \A M : LengthTells(machine, M) => LengthTells(next, M)
  BY <1>1 DEF LengthTells
<1>3. \A M : CodingTells(machine, M) => CodingTells(next, M)
  BY <1>1 DEF CodingTells
<1>4. QED
  BY <1>1, <1>2, <1>3 DEF next

LEMMA TransitionFieldCases ==
    ASSUME NEW machine, NEW field
    PROVE  /\ field.name = "content-length" =>
                 TransitionField(machine, field) = FoldLeft(ObserveLength, Marked(machine, field.name), field.value)
           /\ field.name = "transfer-encoding" =>
                 TransitionField(machine, field) = FoldLeft(ObserveCoding, Marked(machine, field.name), field.value)
           /\ field.name = "other" => TransitionField(machine, field) = machine
<1> DEFINE present == Marked(machine, field.name)
           next == TransitionField(machine, field)
           one == FoldLeft(ObserveLength, present, field.value)
           two == FoldLeft(ObserveCoding, present, field.value)
<1>1. next = CASE field.name = "content-length" -> one
               [] field.name = "transfer-encoding" -> two
               [] OTHER -> machine
  BY Zenon DEF TransitionField, Marked
<1>2. "content-length" # "transfer-encoding" /\ "other" # "content-length" /\ "other" # "transfer-encoding"
  OBVIOUS
<1> HIDE DEF next, one, two
<1>3. field.name = "content-length" => next = one
  BY <1>1, <1>2, Zenon
<1>4. field.name = "transfer-encoding" => next = two
  BY <1>1, <1>2, Zenon
<1>5. field.name = "other" => next = machine
  BY <1>1, <1>2, Zenon
<1>6. QED
  BY <1>3, <1>4, <1>5, Zenon DEF next, one, two, present

LEMMA TransitionFieldType ==
    ASSUME NEW machine \in Machines, NEW fields \in Seq(HeaderFields), NEW i \in 1 .. Len(fields)
    PROVE  /\ TransitionField(machine, fields[i]) \in Machines
           /\ TransitionField(machine, fields[i]).presence = PresenceStep(machine.presence, fields[i])
<1> DEFINE field == fields[i]
           next == TransitionField(machine, field)
<1>1. field.name \in {"content-length", "transfer-encoding", "other"} /\ field.value \in Seq(Raws)
  BY HeaderFacts DEF FRAMING_NAMES
<1> HIDE DEF field
<1>2. CASE field.name = "content-length"
  <2>1. /\ Marked(machine, field.name) \in Machines
        /\ Marked(machine, field.name).presence = machine.presence \cup {field.name}
    BY <1>2, MarkedFacts DEF FRAMING_NAMES
  <2>2. next = FoldLeft(ObserveLength, Marked(machine, field.name), field.value)
    BY <1>2, TransitionFieldCases
  <2>3. next \in Machines /\ next.presence = machine.presence \cup {field.name}
    BY <1>1, <2>1, <2>2, ObserveEnds
  <2>4. PresenceStep(machine.presence, field) = machine.presence \cup {field.name}
    BY <1>2 DEF PresenceStep
  <2>5. QED
    BY <2>3, <2>4 DEF field
<1>3. CASE field.name = "transfer-encoding"
  <2>1. /\ Marked(machine, field.name) \in Machines
        /\ Marked(machine, field.name).presence = machine.presence \cup {field.name}
    BY <1>3, MarkedFacts DEF FRAMING_NAMES
  <2>2. next = FoldLeft(ObserveCoding, Marked(machine, field.name), field.value)
    BY <1>3, TransitionFieldCases
  <2>3. next \in Machines /\ next.presence = machine.presence \cup {field.name}
    BY <1>1, <2>1, <2>2, ObserveEnds
  <2>4. PresenceStep(machine.presence, field) = machine.presence \cup {field.name}
    BY <1>3 DEF PresenceStep
  <2>5. QED
    BY <2>3, <2>4 DEF field
<1>4. CASE field.name = "other"
  <2>1. next = machine
    BY <1>4, TransitionFieldCases
  <2>2. PresenceStep(machine.presence, field) = machine.presence
    BY <1>4 DEF PresenceStep
  <2>3. QED
    BY <2>1, <2>2 DEF field
<1>5. QED
  BY <1>1, <1>2, <1>3, <1>4

StreamStart == [presence |-> {}, agreed |-> 0, has |-> FALSE, members |-> 0, fault |-> NoneYet]

LEMMA StreamFold ==
    ASSUME NEW fields \in Seq(HeaderFields)
    PROVE  \E g \in [0 .. Len(fields) -> Machines] :
              /\ g[0] = StreamStart
              /\ \A i \in 1 .. Len(fields) : g[i] = TransitionField(g[i - 1], fields[i])
              /\ FoldLeft(TransitionField, StreamStart, fields) = g[Len(fields)]
<1> DEFINE N == Len(fields)
           V == Machines
           start == StreamStart
           op(machine, field) == TransitionField(machine, field)
           Body(f) == [t \in SUBSET DOMAIN fields |->
                         IF t = {} THEN start ELSE op(f[t \ {Max(t)}], fields[Max(t)])]
           iter == CHOOSE f : f = Body(f)
           step == [p \in V \X (1 .. N) |-> op(p[1], fields[p[2]])]
<1>1. FoldLeft(TransitionField, StreamStart, fields) = iter[DOMAIN fields]
  BY DEF FoldLeft, MapThenFoldSet
<1>2. N \in Nat /\ DOMAIN fields = 1 .. N
  OBVIOUS
<1>3. start \in V
  BY DEF StreamStart, Machines, StreamFaults
<1>4. ASSUME NEW s \in V, NEW i \in 1 .. N
      PROVE  op(s, fields[i]) \in V
  BY <1>2, TransitionFieldType
<1> HIDE DEF V, start, op
<1>5. step \in [V \X (1 .. N) -> V]
  BY <1>4
<1>6. ASSUME NEW t \in SUBSET (1 .. N), t # {}
      PROVE  Max(t) \in 1 .. N
  BY <1>2, <1>6, MaxIn
<1>7. ASSUME NEW h, FoldsTo(h, V, start, N, step)
      PROVE  h = Body(h)
  <2>1. ASSUME NEW t \in SUBSET (1 .. N)
        PROVE  h[t] = IF t = {} THEN start ELSE op(h[t \ {Max(t)}], fields[Max(t)])
    BY <1>6, <1>7 DEF FoldsTo
  <2>2. QED
    BY <1>2, <1>7, <2>1 DEF FoldsTo
<1>8. ASSUME NEW h, h = Body(h)
      PROVE  Obeys(h, V, start, N, step)
  <2>1. ASSUME NEW t \in SUBSET (1 .. N)
        PROVE  h[t] = IF t = {} THEN start ELSE op(h[t \ {Max(t)}], fields[Max(t)])
    BY <1>2, <1>8
  <2>2. QED
    BY <1>6, <2>1 DEF Obeys
<1>9. iter = Body(iter)
  <2>1. PICK h : FoldsTo(h, V, start, N, step)
    BY <1>2, <1>3, <1>5, FoldExists
  <2>2. h = Body(h)
    BY <1>7, <2>1
  <2> HIDE DEF Body
  <2>3. QED
    BY <2>2
<1> HIDE DEF iter, Body
<1>10. Obeys(iter, V, start, N, step)
  BY <1>8, <1>9
<1>11. PICK g : Runs(g, V, start, N, step, iter[1 .. N])
  BY <1>2, <1>3, <1>5, <1>10, FoldValues
<1>12. /\ g \in [0 .. N -> V] /\ g[0] = start /\ g[N] = iter[1 .. N]
       /\ \A i \in 1 .. N : g[i] = op(g[i - 1], fields[i])
  <2>1. /\ g \in [0 .. N -> V] /\ g[0] = start /\ g[N] = iter[1 .. N]
        /\ \A i \in 1 .. N : g[i] = step[<<g[i - 1], i>>]
    <3> HIDE DEF step, N
    <3>1. QED
      BY <1>11 DEF Runs
  <2>2. \A i \in 1 .. N : i - 1 \in 0 .. N
    BY <1>2
  <2>3. QED
    BY <2>1, <2>2
<1>13. QED
  BY <1>1, <1>2, <1>12 DEF V, start, op

\* What the machine has seen when the members so far are lengths and codings.
StreamTells(machine, lengths, codings) ==
    /\ machine.presence = PresentOf(lengths, codings)
    /\ Len(codings) = 0 => LengthTells(machine, lengths)
    /\ Len(lengths) = 0 => CodingTells(machine, codings)

LEMMA StreamTellsStep ==
    ASSUME NEW machine \in Machines, NEW fields \in Seq(HeaderFields), NEW i \in 1 .. Len(fields),
           NEW lengths \in Seq(Raws), NEW codings \in Seq(Raws), StreamTells(machine, lengths, codings)
    PROVE  StreamTells(TransitionField(machine, fields[i]),
                       JoinStep("content-length", lengths, fields[i]),
                       JoinStep("transfer-encoding", codings, fields[i]))
<1> DEFINE field == fields[i]
           v == field.value
           next == TransitionField(machine, field)
           present == Marked(machine, field.name)
           L == JoinStep("content-length", lengths, field)
           C == JoinStep("transfer-encoding", codings, field)
<1>1. field.name \in {"content-length", "transfer-encoding", "other"} /\ v \in Seq(Raws) /\ Len(v) \in Nat \ {0}
  BY HeaderFacts DEF FRAMING_NAMES
<1>2. next.presence = PresentOf(L, C)
  <2>1. next.presence = PresenceStep(machine.presence, field)
    BY TransitionFieldType
  <2>2. PresenceStep(PresentOf(lengths, codings), field) = PresentOf(L, C)
    BY PresentStep
  <2>3. QED
    BY <2>1, <2>2 DEF StreamTells
<1>3. ASSUME NEW M \in Seq(Raws)
      PROVE  Len(M \o v) # 0
  <2>1. Len(M \o v) = Len(M) + Len(v) /\ Len(M) \in Nat
    BY <1>1
  <2>2. QED
    BY <1>1, <2>1
<1>4. /\ Len(codings) = 0 => LengthTells(machine, lengths)
      /\ Len(lengths) = 0 => CodingTells(machine, codings)
  BY DEF StreamTells
<1> HIDE DEF field, v
<1>5. CASE field.name = "content-length"
  <2>1. L = lengths \o v /\ C = codings
    BY <1>5 DEF JoinStep, v
  <2>2. next = FoldLeft(ObserveLength, present, v)
    BY <1>5, TransitionFieldCases DEF v
  <2>3. present \in Machines /\ (LengthTells(machine, lengths) => LengthTells(present, lengths))
    BY <1>5, MarkedFacts DEF FRAMING_NAMES
  <2>4. Len(codings) = 0 => LengthTells(next, lengths \o v)
    <3> HIDE DEF present, next
    <3>1. QED
      BY <1>1, <1>4, <2>2, <2>3, ObserveLengthRun
  <2>5. Len(L) # 0
    BY <1>3, <2>1
  <2> HIDE DEF L, C, next
  <2>6. QED
    BY <1>2, <2>1, <2>4, <2>5 DEF StreamTells, L, C, next, field
<1>6. CASE field.name = "transfer-encoding"
  <2>1. L = lengths /\ C = codings \o v
    BY <1>6 DEF JoinStep, v
  <2>2. next = FoldLeft(ObserveCoding, present, v)
    BY <1>6, TransitionFieldCases DEF v
  <2>3. present \in Machines /\ (CodingTells(machine, codings) => CodingTells(present, codings))
    BY <1>6, MarkedFacts DEF FRAMING_NAMES
  <2>4. Len(lengths) = 0 => CodingTells(next, codings \o v)
    <3> HIDE DEF present, next
    <3>1. QED
      BY <1>1, <1>4, <2>2, <2>3, ObserveCodingRun
  <2>5. Len(C) # 0
    BY <1>3, <2>1
  <2> HIDE DEF L, C, next
  <2>6. QED
    BY <1>2, <2>1, <2>4, <2>5 DEF StreamTells, L, C, next, field
<1>7. CASE field.name = "other"
  <2>1. L = lengths /\ C = codings /\ next = machine
    BY <1>7, TransitionFieldCases DEF JoinStep
  <2> HIDE DEF L, C, next
  <2>2. QED
    BY <1>2, <1>4, <2>1 DEF StreamTells, L, C, next, field
<1>8. QED
  BY <1>1, <1>5, <1>6, <1>7

LEMMA StreamRun ==
    ASSUME NEW fields \in Seq(HeaderFields)
    PROVE  LET end == FoldLeft(TransitionField, StreamStart, fields)
           IN  end \in Machines /\ StreamTells(end, Members(fields, "content-length"), Members(fields, "transfer-encoding"))
<1> DEFINE N == Len(fields)
<1>1. PICK l \in [0 .. N -> Seq(Raws)] :
         /\ l[0] = <<>>
         /\ \A i \in 1 .. N : l[i] = JoinStep("content-length", l[i - 1], fields[i])
         /\ Members(fields, "content-length") = l[N]
  BY MembersFold
<1>2. PICK c \in [0 .. N -> Seq(Raws)] :
         /\ c[0] = <<>>
         /\ \A i \in 1 .. N : c[i] = JoinStep("transfer-encoding", c[i - 1], fields[i])
         /\ Members(fields, "transfer-encoding") = c[N]
  BY MembersFold
<1>3. PICK g \in [0 .. N -> Machines] :
         /\ g[0] = StreamStart
         /\ \A i \in 1 .. N : g[i] = TransitionField(g[i - 1], fields[i])
         /\ FoldLeft(TransitionField, StreamStart, fields) = g[N]
  BY StreamFold
<1>4. N \in Nat
  OBVIOUS
<1> DEFINE P == {i \in 0 .. N : StreamTells(g[i], l[i], c[i])}
<1>5. 0 \in P
  <2>1. StreamTells(StreamStart, <<>>, <<>>)
    <3>1. /\ StreamStart.presence = {} /\ StreamStart.has = FALSE /\ StreamStart.members = 0
          /\ StreamStart.fault = NoneYet
      BY DEF StreamStart
    <3>2. Len(<<>>) = 0
      OBVIOUS
    <3>3. PresentOf(<<>>, <<>>) = {}
      BY <3>2 DEF PresentOf
    <3>4. NoFault(<<>>)
      BY <3>2 DEF NoFault
    <3>5. QED
      BY <3>1, <3>2, <3>3, <3>4 DEF StreamTells, LengthTells, CodingTells
  <2>2. QED
    BY <1>1, <1>2, <1>3, <1>4, <2>1
<1>6. ASSUME NEW i \in 1 .. N, i - 1 \in P
      PROVE  i \in P
  <2>1. i \in 0 .. N /\ i - 1 \in 0 .. N
    BY <1>4
  <2>2. /\ StreamTells(g[i - 1], l[i - 1], c[i - 1])
        /\ g[i - 1] \in Machines /\ l[i - 1] \in Seq(Raws) /\ c[i - 1] \in Seq(Raws)
    BY <1>6, <2>1
  <2>3. StreamTells(TransitionField(g[i - 1], fields[i]),
                    JoinStep("content-length", l[i - 1], fields[i]),
                    JoinStep("transfer-encoding", c[i - 1], fields[i]))
    BY <2>2, StreamTellsStep
  <2>4. StreamTells(g[i], l[i], c[i])
    BY <1>1, <1>2, <1>3, <2>3
  <2>5. QED
    BY <2>1, <2>4, Zenon
<1>7. 0 .. N \subseteq P
  <2> HIDE DEF P, N
  <2>1. QED
    BY <1>4, <1>5, <1>6, Induction
<1>8. N \in 0 .. N
  BY <1>4
<1>9. StreamTells(g[N], l[N], c[N]) /\ g[N] \in Machines
  BY <1>7, <1>8
<1>10. QED
  BY <1>1, <1>2, <1>3, <1>9

-----------------------------------------------------------------------------
\* What the requirements say of the lengths, and of the whole block.

FaultyMembers(M) ==
    {i \in DOMAIN M : \/ ValueOf(M[i]) = Overflow
                      \/ ValueOf(M[i]) > CONTENT_LENGTH_LIMIT
                      \/ ValueOf(M[i]) # ValueOf(M[1])}

MemberFault(raw) ==
    IF ValueOf(raw) = Overflow THEN Outcome("InvalidContentLength", 0)
    ELSE IF ValueOf(raw) > CONTENT_LENGTH_LIMIT THEN Outcome("LimitExceeded", ValueOf(raw))
    ELSE Outcome("ConflictingContentLength", 0)

RuledLength(M) ==
    IF FaultyMembers(M) = {} THEN FixedLength(ValueOf(M[1])) ELSE MemberFault(M[Min(FaultyMembers(M))])

LEMMA FaultyFirst ==
    ASSUME NEW M \in Seq(Raws), Len(M) # 0, NEW i \in 1 .. Len(M), \A j \in 1 .. i - 1 : ~LengthFault(M, j)
    PROVE  (i \in FaultyMembers(M)) <=> LengthFault(M, i)
<1>1. Len(M) \in Nat /\ 1 \in 1 .. Len(M) /\ i \in DOMAIN M
  OBVIOUS
<1>2. ~(Overflow > CONTENT_LENGTH_LIMIT)
  BY FramingAssumption DEF Overflow
<1> DEFINE a == ParseLength(M[1])
           b == ParseLength(M[i])
<1>3. /\ (a.tag = "length") <=> (ValueOf(M[1]) # Overflow /\ ~Over(M[1]))
      /\ a.tag = "length" => a.n = ValueOf(M[1])
  BY ParseTags
<1>4. /\ (b.tag = "length") <=> (ValueOf(M[i]) # Overflow /\ ~Over(M[i]))
      /\ b.tag = "length" => b.n = ValueOf(M[i])
  BY ParseTags
<1>5. (i \in FaultyMembers(M)) <=> (ValueOf(M[i]) = Overflow \/ Over(M[i]) \/ ValueOf(M[i]) # ValueOf(M[1]))
  BY <1>1 DEF FaultyMembers, Over
<1>6. LengthFault(M, i) <=> (b.tag # "length" \/ b.n # a.n)
  BY DEF LengthFault
<1> HIDE DEF a, b
<1>7. CASE i = 1
  <2>1. a = b
    BY <1>7 DEF a, b
  <2>2. QED
    BY <1>4, <1>5, <1>6, <1>7, <2>1
<1>8. CASE i # 1
  <2>1. 1 \in 1 .. i - 1
    BY <1>1, <1>8
  <2>2. ~LengthFault(M, 1)
    BY <2>1
  <2>3. a.tag = "length"
    BY <2>2 DEF LengthFault, a
  <2>4. QED
    BY <1>3, <1>4, <1>5, <1>6, <2>3
<1>9. QED
  BY <1>7, <1>8

LEMMA RuledLengthAnswers ==
    ASSUME NEW M \in Seq(Raws), Len(M) # 0
    PROVE  /\ NoFault(M) => /\ RuledLength(M) = FixedLength(ParseLength(M[1]).n)
                            /\ ParseLength(M[1]).tag = "length"
           /\ \A k \in 1 .. Len(M) : FaultFirst(M, k) => RuledLength(M) = LengthVerdict(M, k)
<1>1. Len(M) \in Nat /\ 1 \in 1 .. Len(M) /\ DOMAIN M = 1 .. Len(M)
  OBVIOUS
<1>2. ASSUME NoFault(M)
      PROVE  /\ RuledLength(M) = FixedLength(ParseLength(M[1]).n)
             /\ ParseLength(M[1]).tag = "length"
  <2>1. ParseLength(M[1]).tag = "length"
    BY <1>1, <1>2 DEF NoFault, LengthFault
  <2>2. ParseLength(M[1]).n = ValueOf(M[1])
    BY <2>1, ParseTags
  <2>3. ASSUME NEW i \in FaultyMembers(M)
        PROVE  FALSE
    <3>1. i \in 1 .. Len(M)
      BY <1>1 DEF FaultyMembers
    <3>2. \A j \in 1 .. i - 1 : j \in 1 .. Len(M)
      BY <1>1, <3>1
    <3>3. ~LengthFault(M, i) /\ \A j \in 1 .. i - 1 : ~LengthFault(M, j)
      BY <1>2, <3>1, <3>2 DEF NoFault
    <3>4. QED
      BY <3>1, <3>3, FaultyFirst
  <2>4. FaultyMembers(M) = {}
    BY <2>3
  <2>5. QED
    BY <2>1, <2>2, <2>4 DEF RuledLength
<1>3. ASSUME NEW k \in 1 .. Len(M), FaultFirst(M, k)
      PROVE  RuledLength(M) = LengthVerdict(M, k)
  <2> DEFINE faulty == FaultyMembers(M)
  <2>1. k \in faulty
    BY <1>3, FaultyFirst DEF FaultFirst
  <2>2. ASSUME NEW i \in faulty
        PROVE  k <= i
    <3>1. i \in 1 .. Len(M)
      BY <1>1 DEF FaultyMembers
    <3>2. ASSUME i < k
          PROVE  FALSE
      <4>1. i \in 1 .. k - 1 /\ \A j \in 1 .. i - 1 : j \in 1 .. k - 1
        BY <1>1, <3>1, <3>2
      <4>2. ~LengthFault(M, i) /\ \A j \in 1 .. i - 1 : ~LengthFault(M, j)
        BY <1>3, <4>1 DEF FaultFirst
      <4>3. QED
        BY <3>1, <4>2, FaultyFirst
    <3>3. QED
      BY <1>1, <3>1, <3>2
  <2>3. Min(faulty) = k
    <3>1. faulty \subseteq 1 .. Len(M)
      BY <1>1 DEF FaultyMembers
    <3>2. faulty \in SUBSET Nat
      BY <1>1, <3>1
    <3> HIDE DEF faulty
    <3>3. Min(faulty) \in faulty /\ \A y \in faulty : Min(faulty) <= y
      BY <2>1, <3>2, SmallestOf
    <3>4. Min(faulty) <= k /\ k <= Min(faulty) /\ Min(faulty) \in Nat /\ k \in Nat
      BY <2>1, <2>2, <3>2, <3>3
    <3>5. QED
      BY <3>4
  <2>4. RuledLength(M) = MemberFault(M[k])
    BY <2>1, <2>3 DEF RuledLength
  <2>5. MemberFault(M[k]) = LengthVerdict(M, k)
    BY ParseCases, ParseTags, OutcomeFacts DEF MemberFault, LengthVerdict, Over, Conflict
  <2>6. QED
    BY <2>4, <2>5
<1>4. QED
  BY <1>2, <1>3

LEMMA ResultCases ==
    ASSUME NEW s
    PROVE  /\ s.tag = "length" => LengthResult(s) = FixedLength(s.n)
           /\ s.tag \notin {"absent", "length"} => LengthResult(s) = s
BY Zenon DEF LengthResult

LEMMA AgreedAnswers ==
    ASSUME NEW M \in Seq(Raws), Len(M) # 0, NEW s, Agreed(s, M)
    PROVE  LengthResult(s) = RuledLength(M) /\ s.tag # "absent"
<1>1. CASE NoFault(M) /\ s = ParseLength(M[1])
  BY <1>1, RuledLengthAnswers, ResultCases
<1>2. CASE \E k \in 1 .. Len(M) : FaultFirst(M, k) /\ s = LengthVerdict(M, k)
  <2>1. PICK k \in 1 .. Len(M) : FaultFirst(M, k) /\ s = LengthVerdict(M, k)
    BY <1>2
  <2>2. RuledLength(M) = s /\ s.tag \notin {"absent", "length"}
    BY <2>1, RuledLengthAnswers, VerdictTag
  <2>3. QED
    BY <2>2, ResultCases
<1>3. QED
  BY <1>1, <1>2 DEF Agreed

\* The requirements, by the members of the two names.
RuledFraming(lengths, codings) ==
    IF Len(lengths) # 0 /\ Len(codings) # 0 THEN Outcome("AmbiguousFraming", 0)
    ELSE IF Len(codings) # 0 THEN ChunkedIf(OneCoding(codings))
    ELSE IF Len(lengths) = 0 THEN Outcome("None", 0)
    ELSE RuledLength(lengths)

LEMMA EmptyMembers ==
    ASSUME NEW S, NEW M \in Seq(S)
    PROVE  (M = <<>>) <=> (Len(M) = 0)
OBVIOUS

LEMMA FramingRuled ==
    ASSUME NEW fields \in Seq(HeaderFields)
    PROVE  FramingRule(fields) =
              RuledFraming(Members(fields, "content-length"), Members(fields, "transfer-encoding"))
<1> DEFINE lengths == Members(fields, "content-length")
           codings == Members(fields, "transfer-encoding")
<1>1. lengths \in Seq(Raws) /\ codings \in Seq(Raws)
  BY MembersOfFields
<1>2. (lengths = <<>> <=> Len(lengths) = 0) /\ (codings = <<>> <=> Len(codings) = 0)
  BY <1>1, EmptyMembers
<1>3. FramingRule(fields) =
         IF lengths # <<>> /\ codings # <<>> THEN Outcome("AmbiguousFraming", 0)
         ELSE IF codings # <<>> THEN ChunkedIf(OneCoding(codings))
         ELSE IF lengths = <<>> THEN Outcome("None", 0)
         ELSE RuledLength(lengths)
  BY Zenon DEF FramingRule, OneCoding, RuledLength, MemberFault, FaultyMembers, ValueOf
<1> HIDE DEF lengths, codings
<1>4. QED
  BY <1>2, <1>3 DEF RuledFraming, lengths, codings

LEMMA AgreedMembers ==
    ASSUME NEW M \in Seq(Raws)
    PROVE  Agreed(FoldLeft(AcceptLength, NoLength, M), M)
<1>1. NoLength \in Lengths
  BY DEF Lengths
<1>2. <<>> \in Seq(Raws) /\ <<>> \o M = M
  OBVIOUS
<1>3. Agreed(NoLength, <<>>)
  BY DEF Agreed
<1>4. Agreed(FoldLeft(AcceptLength, NoLength, M), <<>> \o M)
  BY <1>1, <1>2, <1>3, AgreedRun
<1>5. QED
  BY <1>2, <1>4

LEMMA PresentCases ==
    ASSUME NEW lengths, NEW codings
    PROVE  LET present == PresentOf(lengths, codings)
               both == {"content-length", "transfer-encoding"}
           IN  /\ (present = {}) <=> (Len(lengths) = 0 /\ Len(codings) = 0)
               /\ (present = {"content-length"}) <=> (Len(lengths) # 0 /\ Len(codings) = 0)
               /\ (present = {"transfer-encoding"}) <=> (Len(lengths) = 0 /\ Len(codings) # 0)
               /\ (present = both) <=> (Len(lengths) # 0 /\ Len(codings) # 0)
<1> DEFINE present == PresentOf(lengths, codings)
           both == {"content-length", "transfer-encoding"}
<1>1. Len(lengths) = 0 /\ Len(codings) = 0 => present = {}
  BY DEF PresentOf
<1>2. Len(lengths) # 0 /\ Len(codings) = 0 => present = {"content-length"}
  BY DEF PresentOf
<1>3. Len(lengths) = 0 /\ Len(codings) # 0 => present = {"transfer-encoding"}
  BY DEF PresentOf
<1>4. Len(lengths) # 0 /\ Len(codings) # 0 => present = both
  BY DEF PresentOf
<1>5. /\ {} # {"content-length"} /\ {} # {"transfer-encoding"} /\ {} # both
      /\ {"content-length"} # {"transfer-encoding"} /\ {"content-length"} # both /\ {"transfer-encoding"} # both
  OBVIOUS
<1> HIDE DEF present, both
<1>6. QED
  BY <1>1, <1>2, <1>3, <1>4, <1>5, Zenon DEF present, both

LEMMA DirectAnswers ==
    ASSUME NEW fields \in Seq(HeaderFields)
    PROVE  DirectFraming(fields) =
              RuledFraming(Members(fields, "content-length"), Members(fields, "transfer-encoding"))
<1> DEFINE lengths == Members(fields, "content-length")
           codings == Members(fields, "transfer-encoding")
           metadata == DirectMetadata(fields)
           agreed == LengthResult(FoldLeft(AcceptLength, NoLength, lengths))
           chunked == DirectChunked(fields)
<1>1. lengths \in Seq(Raws) /\ codings \in Seq(Raws)
  BY MembersOfFields
<1>2. /\ (metadata = {}) <=> (Len(lengths) = 0 /\ Len(codings) = 0)
      /\ (metadata = {"content-length"}) <=> (Len(lengths) # 0 /\ Len(codings) = 0)
      /\ (metadata = {"transfer-encoding"}) <=> (Len(lengths) = 0 /\ Len(codings) # 0)
  BY BothPresences, PresentCases
<1>3. chunked <=> OneCoding(codings)
  <2>1. chunked <=> (FoldLeft(DirectCount, 0, codings) = 1)
    BY DEF DirectChunked, DirectCount, FoldLeft, MapThenFoldSet
  <2>2. QED
    BY <1>1, <2>1, DirectCounts
<1>4. Len(lengths) # 0 => agreed = RuledLength(lengths)
  BY <1>1, AgreedMembers, AgreedAnswers
<1>5. DirectFraming(fields) =
         CASE metadata = {} -> Outcome("None", 0)
           [] metadata = {"content-length"} -> agreed
           [] metadata = {"transfer-encoding"} -> ChunkedIf(chunked)
           [] OTHER -> Outcome("AmbiguousFraming", 0)
  BY Zenon DEF DirectFraming
<1>6. {} # {"content-length"} /\ {} # {"transfer-encoding"} /\ {"content-length"} # {"transfer-encoding"}
  OBVIOUS
<1>7. ChunkedIf(chunked) = ChunkedIf(OneCoding(codings))
  BY <1>3 DEF ChunkedIf
<1> HIDE DEF metadata, agreed, chunked, lengths, codings
<1>8. CASE metadata = {}
  <2>1. DirectFraming(fields) = Outcome("None", 0)
    BY <1>5, <1>6, <1>8, Zenon
  <2>2. QED
    BY <1>2, <1>8, <2>1 DEF RuledFraming, lengths, codings
<1>9. CASE metadata = {"content-length"}
  <2>1. DirectFraming(fields) = agreed
    BY <1>5, <1>6, <1>9, Zenon
  <2>2. QED
    BY <1>2, <1>4, <1>9, <2>1 DEF RuledFraming, lengths, codings
<1>10. CASE metadata = {"transfer-encoding"}
  <2>1. DirectFraming(fields) = ChunkedIf(OneCoding(codings))
    BY <1>5, <1>6, <1>7, <1>10, Zenon
  <2>2. QED
    BY <1>2, <1>10, <2>1 DEF RuledFraming, lengths, codings
<1>11. CASE metadata # {} /\ metadata # {"content-length"} /\ metadata # {"transfer-encoding"}
  <2>1. DirectFraming(fields) = Outcome("AmbiguousFraming", 0)
    BY <1>5, <1>11, Zenon
  <2>2. Len(lengths) # 0 /\ Len(codings) # 0
    BY <1>2, <1>11, Zenon
  <2>3. QED
    BY <2>1, <2>2 DEF RuledFraming, lengths, codings
<1>12. QED
  BY <1>8, <1>9, <1>10, <1>11

LEMMA FieldsTell ==
    ASSUME NEW fields \in Seq(HeaderFields), NEW name
    PROVE  LET found == Fields(fields, name)
               members == Members(fields, name)
           IN  /\ (found = <<>>) <=> (Len(members) = 0)
               /\ (Len(found) = 0) <=> (Len(members) = 0)
               /\ Len(found) # 0 =>
                     ((/\ Len(found) = 1
                       /\ Len(found[1].value) = 1
                       /\ TrimOws(found[1].value[1]) = <<Coding>>) <=> OneCoding(members))
<1> DEFINE found == Fields(fields, name)
           members == Members(fields, name)
<1>1. found \in Seq(HeaderFields) /\ members \in Seq(Raws) /\ MembersOf(found, members)
  BY MembersOfFields
<1> HIDE DEF found, members
<1>2. Len(found) \in Nat /\ Len(members) \in Nat /\ Len(members) >= Len(found)
  BY <1>1 DEF MembersOf
<1>3. Len(found) = 0 => Len(members) = 0
  <2>1. Len(found) = 0 => members = <<>>
    BY <1>1 DEF MembersOf
  <2>2. QED
    BY <1>1, <2>1, EmptyMembers
<1>4. Len(members) = 0 => Len(found) = 0
  BY <1>2
<1>5. (found = <<>>) <=> (Len(found) = 0)
  BY <1>1, EmptyMembers
<1>6. Len(found) = 1 => members = found[1].value
  BY <1>1 DEF MembersOf
<1>7. Len(found) # 0 /\ Len(members) = 1 => Len(found) = 1
  BY <1>2
<1>8. Len(found) # 0 =>
         ((Len(found) = 1 /\ Len(found[1].value) = 1 /\ TrimOws(found[1].value[1]) = <<Coding>>) <=> OneCoding(members))
  BY <1>6, <1>7 DEF OneCoding
<1>9. QED
  BY <1>3, <1>4, <1>5, <1>8, Zenon DEF found, members

LEMMA BoundedDomainAnswers ==
    ASSUME NEW fields \in Seq(HeaderFields)
    PROVE  BoundedDomainFraming(fields) =
              RuledFraming(Members(fields, "content-length"), Members(fields, "transfer-encoding"))
<1> DEFINE lengths == Members(fields, "content-length")
           codings == Members(fields, "transfer-encoding")
           L == Fields(fields, "content-length")
           C == Fields(fields, "transfer-encoding")
           agreed == LengthResult(FoldLeft(AcceptLength, NoLength, lengths))
           chunked == /\ Len(C) = 1
                      /\ Len(C[1].value) = 1
                      /\ TrimOws(C[1].value[1]) = <<Coding>>
           next == BoundedDomainFraming(fields)
<1>1. lengths \in Seq(Raws) /\ codings \in Seq(Raws)
  BY MembersOfFields
<1>2. ((L = <<>>) <=> (Len(lengths) = 0)) /\ ((C = <<>>) <=> (Len(codings) = 0))
  BY FieldsTell
<1>3. Len(codings) # 0 => (chunked <=> OneCoding(codings))
  BY FieldsTell
<1>4. Len(lengths) # 0 => agreed = RuledLength(lengths)
  BY <1>1, AgreedMembers, AgreedAnswers
<1>5. next = CASE L # <<>> /\ C # <<>> -> Outcome("AmbiguousFraming", 0)
               [] L = <<>> /\ C # <<>> -> ChunkedIf(chunked)
               [] L # <<>> /\ C = <<>> -> agreed
               [] OTHER -> Outcome("None", 0)
  BY Zenon DEF BoundedDomainFraming
<1>6. Len(codings) # 0 => ChunkedIf(chunked) = ChunkedIf(OneCoding(codings))
  BY <1>3 DEF ChunkedIf
<1> HIDE DEF L, C, agreed, chunked, lengths, codings, next
<1>7. CASE L # <<>> /\ C # <<>>
  <2>1. next = Outcome("AmbiguousFraming", 0)
    BY <1>5, <1>7, Zenon
  <2>2. QED
    BY <1>2, <1>7, <2>1 DEF RuledFraming, lengths, codings, next
<1>8. CASE L = <<>> /\ C # <<>>
  <2>1. next = ChunkedIf(chunked)
    BY <1>5, <1>8, Zenon
  <2>2. QED
    BY <1>2, <1>6, <1>8, <2>1 DEF RuledFraming, lengths, codings, next
<1>9. CASE L # <<>> /\ C = <<>>
  <2>1. next = agreed
    BY <1>5, <1>9, Zenon
  <2>2. QED
    BY <1>2, <1>4, <1>9, <2>1 DEF RuledFraming, lengths, codings, next
<1>10. CASE L = <<>> /\ C = <<>>
  <2>1. next = Outcome("None", 0)
    BY <1>5, <1>10, Zenon
  <2>2. QED
    BY <1>2, <1>10, <2>1 DEF RuledFraming, lengths, codings, next
<1>11. QED
  BY <1>7, <1>8, <1>9, <1>10

LEMMA MatrixRows ==
    ASSUME NEW a \in BOOLEAN, NEW b \in BOOLEAN
    PROVE  /\ ~a /\ ~b => RULE_MATRIX[<<a, b>>] = "NoMetadata"
           /\ a /\ ~b => RULE_MATRIX[<<a, b>>] = "ContentLength"
           /\ ~a /\ b => RULE_MATRIX[<<a, b>>] = "TransferEncoding"
           /\ a /\ b => RULE_MATRIX[<<a, b>>] = "Ambiguous"
<1> DEFINE row(key) == CASE key = <<FALSE, FALSE>> -> "NoMetadata"
                         [] key = <<TRUE, FALSE>> -> "ContentLength"
                         [] key = <<FALSE, TRUE>> -> "TransferEncoding"
                         [] key = <<TRUE, TRUE>> -> "Ambiguous"
<1>1. RULE_MATRIX = [key \in BOOLEAN \X BOOLEAN |-> row(key)]
  BY DEF RULE_MATRIX
<1>2. /\ <<FALSE, FALSE>> # <<TRUE, FALSE>> /\ <<FALSE, FALSE>> # <<FALSE, TRUE>> /\ <<FALSE, FALSE>> # <<TRUE, TRUE>>
      /\ <<TRUE, FALSE>> # <<FALSE, TRUE>> /\ <<TRUE, FALSE>> # <<TRUE, TRUE>> /\ <<FALSE, TRUE>> # <<TRUE, TRUE>>
  OBVIOUS
<1>3. /\ row(<<FALSE, FALSE>>) = "NoMetadata" /\ row(<<TRUE, FALSE>>) = "ContentLength"
      /\ row(<<FALSE, TRUE>>) = "TransferEncoding" /\ row(<<TRUE, TRUE>>) = "Ambiguous"
  <2>1. row(<<FALSE, FALSE>>) = "NoMetadata"
    BY <1>2, Zenon
  <2>2. row(<<TRUE, FALSE>>) = "ContentLength"
    BY <1>2, Zenon
  <2>3. row(<<FALSE, TRUE>>) = "TransferEncoding"
    BY <1>2, Zenon
  <2>4. row(<<TRUE, TRUE>>) = "Ambiguous"
    BY <1>2, Zenon
  <2>5. QED
    BY <2>1, <2>2, <2>3, <2>4, Zenon
<1> HIDE DEF row
<1>4. \A key \in BOOLEAN \X BOOLEAN : RULE_MATRIX[key] = row(key)
  BY <1>1
<1>5. /\ <<FALSE, FALSE>> \in BOOLEAN \X BOOLEAN /\ <<TRUE, FALSE>> \in BOOLEAN \X BOOLEAN
      /\ <<FALSE, TRUE>> \in BOOLEAN \X BOOLEAN /\ <<TRUE, TRUE>> \in BOOLEAN \X BOOLEAN
  OBVIOUS
<1>6. (a = TRUE \/ a = FALSE) /\ (b = TRUE \/ b = FALSE)
  OBVIOUS
<1>7. /\ RULE_MATRIX[<<FALSE, FALSE>>] = "NoMetadata" /\ RULE_MATRIX[<<TRUE, FALSE>>] = "ContentLength"
      /\ RULE_MATRIX[<<FALSE, TRUE>>] = "TransferEncoding" /\ RULE_MATRIX[<<TRUE, TRUE>>] = "Ambiguous"
  BY <1>3, <1>4, <1>5, Zenon
<1> HIDE DEF RULE_MATRIX
<1>8. QED
  BY <1>6, <1>7, Zenon

LEMMA RuleMatrixAnswers ==
    ASSUME NEW fields \in Seq(HeaderFields)
    PROVE  RuleMatrixFraming(fields) =
              RuledFraming(Members(fields, "content-length"), Members(fields, "transfer-encoding"))
<1> DEFINE lengths == Members(fields, "content-length")
           codings == Members(fields, "transfer-encoding")
           L == Fields(fields, "content-length")
           C == Fields(fields, "transfer-encoding")
           rule == RULE_MATRIX[<<Len(L) # 0, Len(C) # 0>>]
           agreed == LengthResult(FoldLeft(RuleMatrixField, NoLength, L))
           chunked == /\ Len(C) = 1
                      /\ Len(C[1].value) = 1
                      /\ TrimOws(C[1].value[1]) = <<Coding>>
           next == RuleMatrixFraming(fields)
<1>1. lengths \in Seq(Raws)
  BY MembersOfFields
<1>2. ((Len(L) = 0) <=> (Len(lengths) = 0)) /\ ((Len(C) = 0) <=> (Len(codings) = 0))
  BY FieldsTell
<1>3. Len(C) # 0 => (chunked <=> OneCoding(codings))
  BY FieldsTell
<1>4. Len(lengths) # 0 => agreed = RuledLength(lengths)
  BY <1>1, RuleMatrixAgreed, AgreedAnswers
<1>5. next = CASE rule = "NoMetadata" -> Outcome("None", 0)
               [] rule = "Ambiguous" -> Outcome("AmbiguousFraming", 0)
               [] rule = "ContentLength" -> agreed
               [] rule = "TransferEncoding" -> ChunkedIf(chunked)
  BY Zenon DEF RuleMatrixFraming
<1>6. Len(C) # 0 => ChunkedIf(chunked) = ChunkedIf(OneCoding(codings))
  BY <1>3 DEF ChunkedIf
<1>7. /\ Len(L) = 0 /\ Len(C) = 0 => rule = "NoMetadata"
      /\ Len(L) # 0 /\ Len(C) = 0 => rule = "ContentLength"
      /\ Len(L) = 0 /\ Len(C) # 0 => rule = "TransferEncoding"
      /\ Len(L) # 0 /\ Len(C) # 0 => rule = "Ambiguous"
  <2> DEFINE a == Len(L) # 0
             b == Len(C) # 0
  <2>1. a \in BOOLEAN /\ b \in BOOLEAN
    BY Zenon
  <2>2. /\ ~a /\ ~b => RULE_MATRIX[<<a, b>>] = "NoMetadata"
        /\ a /\ ~b => RULE_MATRIX[<<a, b>>] = "ContentLength"
        /\ ~a /\ b => RULE_MATRIX[<<a, b>>] = "TransferEncoding"
        /\ a /\ b => RULE_MATRIX[<<a, b>>] = "Ambiguous"
    <3> HIDE DEF a, b
    <3>1. QED
      BY <2>1, MatrixRows, Zenon
  <2>3. QED
    BY <2>2, Zenon
<1>8. /\ "NoMetadata" # "Ambiguous" /\ "NoMetadata" # "ContentLength" /\ "NoMetadata" # "TransferEncoding"
      /\ "Ambiguous" # "ContentLength" /\ "Ambiguous" # "TransferEncoding" /\ "ContentLength" # "TransferEncoding"
  OBVIOUS
<1> HIDE DEF L, C, rule, agreed, chunked, lengths, codings, next
<1>9. CASE Len(L) # 0 /\ Len(C) # 0
  <2>1. rule = "Ambiguous"
    BY <1>7, <1>9, Zenon
  <2>2. next = Outcome("AmbiguousFraming", 0)
    BY <1>5, <1>8, <2>1, Zenon
  <2>3. QED
    BY <1>2, <1>9, <2>2 DEF RuledFraming, lengths, codings, next
<1>10. CASE Len(L) = 0 /\ Len(C) # 0
  <2>1. rule = "TransferEncoding"
    BY <1>7, <1>10, Zenon
  <2>2. next = ChunkedIf(chunked)
    BY <1>5, <1>8, <2>1, Zenon
  <2>3. QED
    BY <1>2, <1>6, <1>10, <2>2 DEF RuledFraming, lengths, codings, next
<1>11. CASE Len(L) # 0 /\ Len(C) = 0
  <2>1. rule = "ContentLength"
    BY <1>7, <1>11, Zenon
  <2>2. next = agreed
    BY <1>5, <1>8, <2>1, Zenon
  <2>3. QED
    BY <1>2, <1>4, <1>11, <2>2 DEF RuledFraming, lengths, codings, next
<1>12. CASE Len(L) = 0 /\ Len(C) = 0
  <2>1. rule = "NoMetadata"
    BY <1>7, <1>12, Zenon
  <2>2. next = Outcome("None", 0)
    BY <1>5, <1>8, <2>1, Zenon
  <2>3. QED
    BY <1>2, <1>12, <2>2 DEF RuledFraming, lengths, codings, next
<1>13. QED
  BY <1>9, <1>10, <1>11, <1>12

LEMMA StreamMachineAnswers ==
    ASSUME NEW fields \in Seq(HeaderFields)
    PROVE  StreamMachineFraming(fields) =
              RuledFraming(Members(fields, "content-length"), Members(fields, "transfer-encoding"))
<1> DEFINE lengths == Members(fields, "content-length")
           codings == Members(fields, "transfer-encoding")
           both == {"content-length", "transfer-encoding"}
           machine == FoldLeft(TransitionField, StreamStart, fields)
           next == StreamMachineFraming(fields)
           kept == IF machine.has THEN FixedLength(machine.agreed) ELSE Outcome("None", 0)
<1>1. lengths \in Seq(Raws) /\ codings \in Seq(Raws)
  BY MembersOfFields
<1>2. StreamTells(machine, lengths, codings)
  BY StreamRun
<1>3. next =
         CASE machine.presence = both -> Outcome("AmbiguousFraming", 0)
           [] machine.presence # both /\ machine.fault.tag # "none" -> machine.fault
           [] machine.fault.tag = "none" /\ machine.presence = {"transfer-encoding"} -> ChunkedIf(machine.members = 1)
           [] machine.fault.tag = "none" /\ machine.presence = {"content-length"} -> kept
           [] OTHER -> Outcome("None", 0)
  BY Zenon DEF StreamMachineFraming, StreamStart, NoneYet
<1> HIDE DEF lengths, codings, machine, next
<1>4. /\ (machine.presence = {"content-length"}) <=> (Len(lengths) # 0 /\ Len(codings) = 0)
      /\ (machine.presence = {"transfer-encoding"}) <=> (Len(lengths) = 0 /\ Len(codings) # 0)
      /\ (machine.presence = both) <=> (Len(lengths) # 0 /\ Len(codings) # 0)
  BY <1>2, PresentCases DEF StreamTells
<1>5. CASE Len(lengths) # 0 /\ Len(codings) # 0
  <2>1. machine.presence = both /\ machine.presence # {"content-length"} /\ machine.presence # {"transfer-encoding"}
    BY <1>4, <1>5, Zenon
  <2> HIDE DEF both, kept
  <2>2. next = Outcome("AmbiguousFraming", 0)
    BY <1>3, <2>1, Zenon
  <2>3. QED
    BY <1>5, <2>2 DEF RuledFraming, lengths, codings, next
<1>6. CASE Len(lengths) = 0 /\ Len(codings) # 0
  <2>1. machine.presence # both /\ machine.presence = {"transfer-encoding"} /\ machine.presence # {"content-length"}
    BY <1>4, <1>6, Zenon
  <2>2. machine.members = Len(codings) /\ machine.fault = IF OneCoding(codings) THEN NoneYet ELSE BadCoding
    BY <1>2, <1>6 DEF StreamTells, CodingTells
  <2> HIDE DEF both, kept
  <2>3. CASE OneCoding(codings)
    <3>1. machine.fault.tag = "none" /\ machine.members = 1
      BY <2>2, <2>3, FaultParts DEF OneCoding
    <3>2. next = ChunkedIf(machine.members = 1)
      BY <1>3, <2>1, <3>1, Zenon
    <3>3. next = ChunkedIf(OneCoding(codings))
      BY <2>3, <3>1, <3>2 DEF ChunkedIf
    <3>4. QED
      BY <1>6, <3>3 DEF RuledFraming, lengths, codings, next
  <2>4. CASE ~OneCoding(codings)
    <3>1. machine.fault = BadCoding /\ machine.fault.tag # "none"
      BY <2>2, <2>4, FaultParts
    <3>2. next = machine.fault
      BY <1>3, <2>1, <3>1, Zenon
    <3>3. next = ChunkedIf(OneCoding(codings))
      BY <2>4, <3>1, <3>2 DEF ChunkedIf, BadCoding
    <3>4. QED
      BY <1>6, <3>3 DEF RuledFraming, lengths, codings, next
  <2>5. QED
    BY <2>3, <2>4
<1>7. CASE Len(lengths) # 0 /\ Len(codings) = 0
  <2>1. machine.presence # both /\ machine.presence # {"transfer-encoding"} /\ machine.presence = {"content-length"}
    BY <1>4, <1>7, Zenon
  <2>2. LengthTells(machine, lengths)
    BY <1>2, <1>7 DEF StreamTells
  <2>3. CASE /\ NoFault(lengths) /\ machine.fault = NoneYet /\ machine.has
             /\ machine.agreed = ParseLength(lengths[1]).n
    <3>1. machine.fault.tag = "none" /\ kept = FixedLength(ParseLength(lengths[1]).n)
      BY <2>3, FaultParts
    <3> HIDE DEF both, kept
    <3>2. next = kept
      BY <1>3, <2>1, <3>1, Zenon
    <3>3. next = RuledLength(lengths)
      BY <1>1, <1>7, <2>3, <3>1, <3>2, RuledLengthAnswers
    <3>4. QED
      BY <1>7, <3>3 DEF RuledFraming, lengths, codings, next
  <2>4. CASE \E k \in 1 .. Len(lengths) : FaultFirst(lengths, k) /\ machine.fault = LengthVerdict(lengths, k)
    <3>1. PICK k \in 1 .. Len(lengths) : FaultFirst(lengths, k) /\ machine.fault = LengthVerdict(lengths, k)
      BY <2>4
    <3>2. machine.fault.tag # "none" /\ machine.fault = RuledLength(lengths)
      BY <1>1, <1>7, <3>1, VerdictTag, RuledLengthAnswers
    <3> HIDE DEF both, kept
    <3>3. next = machine.fault
      BY <1>3, <2>1, <3>2, Zenon
    <3>4. QED
      BY <1>7, <3>2, <3>3 DEF RuledFraming, lengths, codings, next
  <2>5. QED
    BY <1>7, <2>2, <2>3, <2>4 DEF LengthTells
<1>8. CASE Len(lengths) = 0 /\ Len(codings) = 0
  <2>1. machine.presence # both /\ machine.presence # {"transfer-encoding"} /\ machine.presence # {"content-length"}
    BY <1>4, <1>8, Zenon
  <2>2. machine.fault.tag = "none"
    BY <1>2, <1>8, FaultParts DEF StreamTells, CodingTells
  <2> HIDE DEF both, kept
  <2>3. next = Outcome("None", 0)
    BY <1>3, <2>1, <2>2, Zenon
  <2>4. QED
    BY <1>8, <2>3 DEF RuledFraming, lengths, codings, next
<1>9. QED
  BY <1>5, <1>6, <1>7, <1>8

LEMMA TransitionAnswers ==
    ASSUME NEW fields \in Seq(HeaderFields)
    PROVE  TransitionFraming(fields) =
              RuledFraming(Members(fields, "content-length"), Members(fields, "transfer-encoding"))
<1> DEFINE lengths == Members(fields, "content-length")
           codings == Members(fields, "transfer-encoding")
           both == {"content-length", "transfer-encoding"}
           state == TransitionPresence(fields)
           agreed == FoldLeft(AcceptLength, NoLength, lengths)
           kept == IF agreed.tag = "absent" THEN Outcome("None", 0) ELSE LengthResult(agreed)
           chunked == FoldLeft(TransitionCount, 0, codings) = 1
           next == TransitionFraming(fields)
<1>1. lengths \in Seq(Raws) /\ codings \in Seq(Raws)
  BY MembersOfFields
<1>2. /\ (state = {"content-length"}) <=> (Len(lengths) # 0 /\ Len(codings) = 0)
      /\ (state = {"transfer-encoding"}) <=> (Len(lengths) = 0 /\ Len(codings) # 0)
      /\ (state = both) <=> (Len(lengths) # 0 /\ Len(codings) # 0)
  BY BothPresences, PresentCases
<1>3. chunked <=> OneCoding(codings)
  BY <1>1, TransitionCounts
<1>4. Len(lengths) # 0 => kept = RuledLength(lengths)
  <2>1. Len(lengths) # 0 => LengthResult(agreed) = RuledLength(lengths) /\ agreed.tag # "absent"
    BY <1>1, AgreedMembers, AgreedAnswers
  <2> HIDE DEF agreed
  <2>2. QED
    BY <2>1
<1>5. next = CASE state = both -> Outcome("AmbiguousFraming", 0)
               [] state = {"transfer-encoding"} -> ChunkedIf(chunked)
               [] state = {"content-length"} -> kept
               [] OTHER -> Outcome("None", 0)
  BY Zenon DEF TransitionFraming, TransitionCount, FoldLeft, MapThenFoldSet
<1>6. ChunkedIf(chunked) = ChunkedIf(OneCoding(codings))
  BY <1>3 DEF ChunkedIf
<1> HIDE DEF lengths, codings, state, kept, chunked, next, both
<1>7. CASE Len(lengths) # 0 /\ Len(codings) # 0
  <2>1. state = both /\ state # {"transfer-encoding"} /\ state # {"content-length"}
    BY <1>2, <1>7, Zenon
  <2>2. next = Outcome("AmbiguousFraming", 0)
    BY <1>5, <2>1, Zenon
  <2>3. QED
    BY <1>7, <2>2 DEF RuledFraming, lengths, codings, next
<1>8. CASE Len(lengths) = 0 /\ Len(codings) # 0
  <2>1. state # both /\ state = {"transfer-encoding"} /\ state # {"content-length"}
    BY <1>2, <1>8, Zenon
  <2>2. next = ChunkedIf(chunked)
    BY <1>5, <2>1, Zenon
  <2>3. QED
    BY <1>6, <1>8, <2>2 DEF RuledFraming, lengths, codings, next
<1>9. CASE Len(lengths) # 0 /\ Len(codings) = 0
  <2>1. state # both /\ state # {"transfer-encoding"} /\ state = {"content-length"}
    BY <1>2, <1>9, Zenon
  <2>2. next = kept
    BY <1>5, <2>1, Zenon
  <2>3. QED
    BY <1>4, <1>9, <2>2 DEF RuledFraming, lengths, codings, next
<1>10. CASE Len(lengths) = 0 /\ Len(codings) = 0
  <2>1. state # both /\ state # {"transfer-encoding"} /\ state # {"content-length"}
    BY <1>2, <1>10, Zenon
  <2>2. next = Outcome("None", 0)
    BY <1>5, <2>1, Zenon
  <2>3. QED
    BY <1>10, <2>2 DEF RuledFraming, lengths, codings, next
<1>11. QED
  BY <1>7, <1>8, <1>9, <1>10

\* The five variants of determine_body_framing return, for any header block,
\* what the specification's requirements say, errors included: whether they
\* stop at the second kind of framing field or go on, agree lengths over the
\* members or field by field, and count the codings or compare the one value.
THEOREM FramingVariants ==
    ASSUME NEW fields \in Seq(HeaderFields)
    PROVE  Range(BodyFramings(fields)) = {FramingRule(fields)}
<1> DEFINE rule == FramingRule(fields)
           all == BodyFramings(fields)
<1>1. /\ DirectFraming(fields) = rule /\ BoundedDomainFraming(fields) = rule
      /\ RuleMatrixFraming(fields) = rule /\ StreamMachineFraming(fields) = rule
      /\ TransitionFraming(fields) = rule
  BY FramingRuled, DirectAnswers, BoundedDomainAnswers, RuleMatrixAnswers, StreamMachineAnswers, TransitionAnswers
<1> HIDE DEF rule
<1>2. all = [direct |-> rule, bounded_domain |-> rule, rule_matrix |-> rule, stream_machine |-> rule,
             transition |-> rule]
  BY <1>1 DEF BodyFramings
<1> HIDE DEF all
<1>3. Range(all) = {rule}
  BY <1>2 DEF Range
<1>4. QED
  BY <1>3 DEF rule, all

-----------------------------------------------------------------------------
\* classify_telemetry_outcome: the nine codes, and everything else.

Words == DOMAIN Spelling

LEMMA WordFacts ==
    /\ Words = {"accepted", "ambiguous", "client", "disagreement", "failure", "framing", "implementation",
                "internal", "missing", "policy", "rejected", "route", "syntax", "timeout", "upstream",
                "closed", "overloaded", "affected"}
    /\ Spelling["accepted"][1] = 8
    /\ Spelling["ambiguous"][1] = 9
    /\ Spelling["client"][1] = 6
    /\ Spelling["disagreement"][1] = 12
    /\ Spelling["failure"][1] = 7
    /\ Spelling["framing"][1] = 7
    /\ Spelling["implementation"][1] = 14
    /\ Spelling["internal"][1] = 8
    /\ Spelling["missing"][1] = 7
    /\ Spelling["policy"][1] = 6
    /\ Spelling["rejected"][1] = 8
    /\ Spelling["route"][1] = 5
    /\ Spelling["syntax"][1] = 6
    /\ Spelling["timeout"][1] = 7
    /\ Spelling["upstream"][1] = 8
    /\ Spelling["closed"][1] = 6
    /\ Spelling["overloaded"][1] = 10
    /\ Spelling["affected"][1] = 8
BY DEF Words, Spelling

LEMMA WordLengths ==
    ASSUME NEW word \in Words
    PROVE  Spelling[word][1] \in Nat \ {0}
BY WordFacts, SMT

LengthStep(n, word) == n + Spelling[word][1] + (IF n = 0 THEN 0 ELSE 1)

LEMMA CodeLengthFold ==
    ASSUME NEW code \in Seq(Words)
    PROVE  \E g \in [0 .. Len(code) -> Nat] :
              /\ g[0] = 0
              /\ \A i \in 1 .. Len(code) : g[i] = LengthStep(g[i - 1], code[i])
              /\ CodeLength(code) = g[Len(code)]
<1> DEFINE N == Len(code)
           V == Nat
           start == 0
           op(n, word) == LengthStep(n, word)
           Body(f) == [t \in SUBSET DOMAIN code |->
                         IF t = {} THEN start ELSE op(f[t \ {Max(t)}], code[Max(t)])]
           iter == CHOOSE f : f = Body(f)
           step == [p \in V \X (1 .. N) |-> op(p[1], code[p[2]])]
<1>1. CodeLength(code) = iter[DOMAIN code]
  BY DEF CodeLength, LengthStep, FoldLeft, MapThenFoldSet
<1>2. N \in Nat /\ DOMAIN code = 1 .. N /\ \A i \in 1 .. N : code[i] \in Words
  OBVIOUS
<1>3. start \in V
  OBVIOUS
<1>4. ASSUME NEW s \in V, NEW i \in 1 .. N
      PROVE  op(s, code[i]) \in V
  <2>1. code[i] \in Words
    BY <1>2
  <2>2. Spelling[code[i]][1] \in Nat
    BY <2>1, WordLengths
  <2>3. QED
    BY <2>2 DEF LengthStep
<1> HIDE DEF V, start, op
<1>5. step \in [V \X (1 .. N) -> V]
  BY <1>4
<1>6. ASSUME NEW t \in SUBSET (1 .. N), t # {}
      PROVE  Max(t) \in 1 .. N
  BY <1>2, <1>6, MaxIn
<1>7. ASSUME NEW h, FoldsTo(h, V, start, N, step)
      PROVE  h = Body(h)
  <2>1. ASSUME NEW t \in SUBSET (1 .. N)
        PROVE  h[t] = IF t = {} THEN start ELSE op(h[t \ {Max(t)}], code[Max(t)])
    BY <1>6, <1>7 DEF FoldsTo
  <2>2. QED
    BY <1>2, <1>7, <2>1 DEF FoldsTo
<1>8. ASSUME NEW h, h = Body(h)
      PROVE  Obeys(h, V, start, N, step)
  <2>1. ASSUME NEW t \in SUBSET (1 .. N)
        PROVE  h[t] = IF t = {} THEN start ELSE op(h[t \ {Max(t)}], code[Max(t)])
    BY <1>2, <1>8
  <2>2. QED
    BY <1>6, <2>1 DEF Obeys
<1>9. iter = Body(iter)
  <2>1. PICK h : FoldsTo(h, V, start, N, step)
    BY <1>2, <1>3, <1>5, FoldExists
  <2>2. h = Body(h)
    BY <1>7, <2>1
  <2> HIDE DEF Body
  <2>3. QED
    BY <2>2
<1> HIDE DEF iter, Body
<1>10. Obeys(iter, V, start, N, step)
  BY <1>8, <1>9
<1>11. PICK g : Runs(g, V, start, N, step, iter[1 .. N])
  BY <1>2, <1>3, <1>5, <1>10, FoldValues
<1>12. /\ g \in [0 .. N -> V] /\ g[0] = start /\ g[N] = iter[1 .. N]
       /\ \A i \in 1 .. N : g[i] = op(g[i - 1], code[i])
  <2>1. /\ g \in [0 .. N -> V] /\ g[0] = start /\ g[N] = iter[1 .. N]
        /\ \A i \in 1 .. N : g[i] = step[<<g[i - 1], i>>]
    <3> HIDE DEF step, N
    <3>1. QED
      BY <1>11 DEF Runs
  <2>2. \A i \in 1 .. N : i - 1 \in 0 .. N
    BY <1>2
  <2>3. QED
    BY <2>1, <2>2
<1>13. QED
  BY <1>1, <1>2, <1>12 DEF V, start, op

LEMMA ShortLengths ==
    /\ \A a \in Words : CodeLength(<<a>>) = Spelling[a][1]
    /\ \A a, b \in Words : CodeLength(<<a, b>>) = Spelling[a][1] + Spelling[b][1] + 1
<1>1. ASSUME NEW a \in Words
      PROVE  CodeLength(<<a>>) = Spelling[a][1]
  <2> DEFINE code == <<a>>
  <2>1. code \in Seq(Words) /\ Len(code) = 1 /\ code[1] = a
    OBVIOUS
  <2> HIDE DEF code
  <2>2. PICK g \in [0 .. Len(code) -> Nat] :
           /\ g[0] = 0
           /\ \A i \in 1 .. Len(code) : g[i] = LengthStep(g[i - 1], code[i])
           /\ CodeLength(code) = g[Len(code)]
    BY <2>1, CodeLengthFold
  <2>3. g[1] = LengthStep(0, a)
    <3>1. 1 \in 1 .. Len(code) /\ 1 - 1 = 0
      BY <2>1
    <3>2. QED
      BY <2>1, <2>2, <3>1
  <2>4. LengthStep(0, a) = Spelling[a][1]
    BY WordLengths DEF LengthStep
  <2>5. QED
    BY <2>1, <2>2, <2>3, <2>4 DEF code
<1>2. ASSUME NEW a \in Words, NEW b \in Words
      PROVE  CodeLength(<<a, b>>) = Spelling[a][1] + Spelling[b][1] + 1
  <2> DEFINE code == <<a, b>>
  <2>1. code \in Seq(Words) /\ Len(code) = 2 /\ code[1] = a /\ code[2] = b
    OBVIOUS
  <2> HIDE DEF code
  <2>2. PICK g \in [0 .. Len(code) -> Nat] :
           /\ g[0] = 0
           /\ \A i \in 1 .. Len(code) : g[i] = LengthStep(g[i - 1], code[i])
           /\ CodeLength(code) = g[Len(code)]
    BY <2>1, CodeLengthFold
  <2>3. g[1] = LengthStep(0, a) /\ g[2] = LengthStep(g[1], b)
    <3>1. 1 \in 1 .. Len(code) /\ 2 \in 1 .. Len(code) /\ 1 - 1 = 0 /\ 2 - 1 = 1
      BY <2>1
    <3>2. QED
      BY <2>1, <2>2, <3>1
  <2>4. LengthStep(0, a) = Spelling[a][1]
    BY WordLengths DEF LengthStep
  <2>5. Spelling[a][1] \in Nat \ {0} /\ Spelling[b][1] \in Nat \ {0}
    BY WordLengths
  <2>6. LengthStep(Spelling[a][1], b) = Spelling[a][1] + Spelling[b][1] + 1
    BY <2>5 DEF LengthStep
  <2>7. QED
    BY <2>1, <2>2, <2>3, <2>4, <2>6 DEF code
<1>3. QED
  BY <1>1, <1>2

\* The codes, in the order of RULES, and what each is classified as.
CodeAt(i) == RULES[i].code

LEMMA RuleRows ==
    /\ DOMAIN RULES = 1 .. 9
    /\ RULES[1] = Row(<<"accepted">>, "Accepted", TRUE)
    /\ RULES[2] = Row(<<"client", "syntax">>, "ClientSyntax", FALSE)
    /\ RULES[3] = Row(<<"ambiguous", "framing">>, "AmbiguousFraming", FALSE)
    /\ RULES[4] = Row(<<"policy", "rejected">>, "PolicyRejected", FALSE)
    /\ RULES[5] = Row(<<"route", "missing">>, "RouteMissing", FALSE)
    /\ RULES[6] = Row(<<"upstream", "failure">>, "UpstreamFailure", TRUE)
    /\ RULES[7] = Row(<<"timeout">>, "Timeout", TRUE)
    /\ RULES[8] = Row(<<"implementation", "disagreement">>, "ImplementationDisagreement", FALSE)
    /\ RULES[9] = Row(<<"internal", "failure">>, "InternalFailure", TRUE)
BY DEF RULES

LEMMA RowFacts ==
    ASSUME NEW code, NEW category, NEW either
    PROVE  LET row == Row(code, category, either)
           IN  row.code = code /\ row.category = category /\ row.either = either
BY DEF Row

LEMMA CodesAre ==
    /\ CodeAt(1) = <<"accepted">>
    /\ CodeAt(2) = <<"client", "syntax">>
    /\ CodeAt(3) = <<"ambiguous", "framing">>
    /\ CodeAt(4) = <<"policy", "rejected">>
    /\ CodeAt(5) = <<"route", "missing">>
    /\ CodeAt(6) = <<"upstream", "failure">>
    /\ CodeAt(7) = <<"timeout">>
    /\ CodeAt(8) = <<"implementation", "disagreement">>
    /\ CodeAt(9) = <<"internal", "failure">>
<1>1. CodeAt(1) = <<"accepted">>
  <2>1. RULES[1] = Row(<<"accepted">>, "Accepted", TRUE)
    BY RuleRows, Zenon
  <2>2. QED
    BY <2>1 DEF CodeAt, Row
<1>2. CodeAt(2) = <<"client", "syntax">>
  <2>1. RULES[2] = Row(<<"client", "syntax">>, "ClientSyntax", FALSE)
    BY RuleRows, Zenon
  <2>2. QED
    BY <2>1 DEF CodeAt, Row
<1>3. CodeAt(3) = <<"ambiguous", "framing">>
  <2>1. RULES[3] = Row(<<"ambiguous", "framing">>, "AmbiguousFraming", FALSE)
    BY RuleRows, Zenon
  <2>2. QED
    BY <2>1 DEF CodeAt, Row
<1>4. CodeAt(4) = <<"policy", "rejected">>
  <2>1. RULES[4] = Row(<<"policy", "rejected">>, "PolicyRejected", FALSE)
    BY RuleRows, Zenon
  <2>2. QED
    BY <2>1 DEF CodeAt, Row
<1>5. CodeAt(5) = <<"route", "missing">>
  <2>1. RULES[5] = Row(<<"route", "missing">>, "RouteMissing", FALSE)
    BY RuleRows, Zenon
  <2>2. QED
    BY <2>1 DEF CodeAt, Row
<1>6. CodeAt(6) = <<"upstream", "failure">>
  <2>1. RULES[6] = Row(<<"upstream", "failure">>, "UpstreamFailure", TRUE)
    BY RuleRows, Zenon
  <2>2. QED
    BY <2>1 DEF CodeAt, Row
<1>7. CodeAt(7) = <<"timeout">>
  <2>1. RULES[7] = Row(<<"timeout">>, "Timeout", TRUE)
    BY RuleRows, Zenon
  <2>2. QED
    BY <2>1 DEF CodeAt, Row
<1>8. CodeAt(8) = <<"implementation", "disagreement">>
  <2>1. RULES[8] = Row(<<"implementation", "disagreement">>, "ImplementationDisagreement", FALSE)
    BY RuleRows, Zenon
  <2>2. QED
    BY <2>1 DEF CodeAt, Row
<1>9. CodeAt(9) = <<"internal", "failure">>
  <2>1. RULES[9] = Row(<<"internal", "failure">>, "InternalFailure", TRUE)
    BY RuleRows, Zenon
  <2>2. QED
    BY <2>1 DEF CodeAt, Row
<1>10. QED
  BY <1>1, <1>2, <1>3, <1>4, <1>5, <1>6, <1>7, <1>8, <1>9

LEMMA CodesDiffer ==
    ASSUME NEW i \in 1 .. 9, NEW j \in 1 .. 9, CodeAt(i) = CodeAt(j)
    PROVE  i = j
<1>1. \A k \in 1 .. 9 : k = 1 \/ k = 2 \/ k = 3 \/ k = 4 \/ k = 5 \/ k = 6 \/ k = 7 \/ k = 8 \/ k = 9
  OBVIOUS
<1> DEFINE first(k) == CodeAt(k)[1]
<1>2. first(1) = "accepted" /\ first(2) = "client" /\ first(3) = "ambiguous" /\ first(4) = "policy" /\ first(5) = "route" /\ first(6) = "upstream" /\ first(7) = "timeout" /\ first(8) = "implementation" /\ first(9) = "internal"
  BY CodesAre
<1>3. first(i) = first(j)
  OBVIOUS
<1> HIDE DEF first
<1>4. QED
  BY <1>1, <1>2, <1>3

LEMMA CodeLengths ==
    /\ MAX_CODE_BYTES = 27
    /\ CodeLength(CodeAt(1)) = 8
    /\ CodeLength(CodeAt(2)) = 13
    /\ CodeLength(CodeAt(3)) = 17
    /\ CodeLength(CodeAt(4)) = 15
    /\ CodeLength(CodeAt(5)) = 13
    /\ CodeLength(CodeAt(6)) = 16
    /\ CodeLength(CodeAt(7)) = 7
    /\ CodeLength(CodeAt(8)) = 27
    /\ CodeLength(CodeAt(9)) = 16
<1>1. "accepted" \in Words /\ "ambiguous" \in Words /\ "client" \in Words /\ "disagreement" \in Words /\ "failure" \in Words /\ "framing" \in Words /\ "implementation" \in Words /\ "internal" \in Words
      /\ "missing" \in Words /\ "policy" \in Words /\ "rejected" \in Words /\ "route" \in Words /\ "syntax" \in Words /\ "timeout" \in Words /\ "upstream" \in Words
  BY WordFacts
<1>2. CodeLength(<<"accepted">>) = 8
  <2>1. CodeLength(<<"accepted">>) = Spelling["accepted"][1]
    BY <1>1, ShortLengths, Zenon
  <2>2. QED
    BY <2>1, WordFacts
<1>3. CodeLength(<<"client", "syntax">>) = 13
  <2>1. CodeLength(<<"client", "syntax">>) = Spelling["client"][1] + Spelling["syntax"][1] + 1
    BY <1>1, ShortLengths, Zenon
  <2>2. QED
    BY <2>1, WordFacts
<1>4. CodeLength(<<"ambiguous", "framing">>) = 17
  <2>1. CodeLength(<<"ambiguous", "framing">>) = Spelling["ambiguous"][1] + Spelling["framing"][1] + 1
    BY <1>1, ShortLengths, Zenon
  <2>2. QED
    BY <2>1, WordFacts
<1>5. CodeLength(<<"policy", "rejected">>) = 15
  <2>1. CodeLength(<<"policy", "rejected">>) = Spelling["policy"][1] + Spelling["rejected"][1] + 1
    BY <1>1, ShortLengths, Zenon
  <2>2. QED
    BY <2>1, WordFacts
<1>6. CodeLength(<<"route", "missing">>) = 13
  <2>1. CodeLength(<<"route", "missing">>) = Spelling["route"][1] + Spelling["missing"][1] + 1
    BY <1>1, ShortLengths, Zenon
  <2>2. QED
    BY <2>1, WordFacts
<1>7. CodeLength(<<"upstream", "failure">>) = 16
  <2>1. CodeLength(<<"upstream", "failure">>) = Spelling["upstream"][1] + Spelling["failure"][1] + 1
    BY <1>1, ShortLengths, Zenon
  <2>2. QED
    BY <2>1, WordFacts
<1>8. CodeLength(<<"timeout">>) = 7
  <2>1. CodeLength(<<"timeout">>) = Spelling["timeout"][1]
    BY <1>1, ShortLengths, Zenon
  <2>2. QED
    BY <2>1, WordFacts
<1>9. CodeLength(<<"implementation", "disagreement">>) = 27
  <2>1. CodeLength(<<"implementation", "disagreement">>) = Spelling["implementation"][1] + Spelling["disagreement"][1] + 1
    BY <1>1, ShortLengths, Zenon
  <2>2. QED
    BY <2>1, WordFacts
<1>10. CodeLength(<<"internal", "failure">>) = 16
  <2>1. CodeLength(<<"internal", "failure">>) = Spelling["internal"][1] + Spelling["failure"][1] + 1
    BY <1>1, ShortLengths, Zenon
  <2>2. QED
    BY <2>1, WordFacts
<1>11. QED
  BY <1>2, <1>3, <1>4, <1>5, <1>6, <1>7, <1>8, <1>9, <1>10, CodesAre DEF MAX_CODE_BYTES

\* What the nine codes mean; any other is unclassified.
Classified(code, reached) ==
    IF \E i \in 1 .. 9 : code = CodeAt(i)
    THEN LET rule == RULES[CHOOSE i \in 1 .. 9 : code = CodeAt(i)]
         IN  Emit(rule.category, rule.either, reached)
    ELSE Unknown

LEMMA ClassifiedKnown ==
    ASSUME NEW i \in 1 .. 9, NEW reached
    PROVE  Classified(CodeAt(i), reached) = Emit(RULES[i].category, RULES[i].either, reached)
<1>1. (CHOOSE k \in 1 .. 9 : CodeAt(i) = CodeAt(k)) = i
  BY CodesDiffer
<1>2. QED
  BY <1>1 DEF Classified

LEMMA ClassifiedOther ==
    ASSUME NEW code, NEW reached, \A i \in 1 .. 9 : code # CodeAt(i)
    PROVE  Classified(code, reached) = Unknown
BY DEF Classified

LEMMA RuleTableClassifies ==
    ASSUME NEW code, NEW reached
    PROVE  RuleTableOutcome(code, reached) = Classified(code, reached)
<1> DEFINE found == {i \in DOMAIN RULES : RULES[i].code = code}
<1>1. found = {i \in 1 .. 9 : CodeAt(i) = code}
  BY RuleRows DEF CodeAt
<1>2. RuleTableOutcome(code, reached) =
         IF CodeLength(code) > MAX_CODE_BYTES \/ found = {} THEN Unknown
         ELSE Emit(RULES[Min(found)].category, RULES[Min(found)].either, reached)
  BY Zenon DEF RuleTableOutcome
<1> HIDE DEF found
<1>3. ASSUME NEW i \in 1 .. 9, code = CodeAt(i)
      PROVE  RuleTableOutcome(code, reached) = Classified(code, reached)
  <2>1. found = {i}
    BY <1>1, <1>3, CodesDiffer
  <2>2. Min(found) = i
    BY <2>1 DEF Min
  <2>3. ~(CodeLength(code) > MAX_CODE_BYTES)
    <3>1. i = 1 \/ i = 2 \/ i = 3 \/ i = 4 \/ i = 5 \/ i = 6 \/ i = 7 \/ i = 8 \/ i = 9
      OBVIOUS
    <3>2. QED
      BY <1>3, <3>1, CodeLengths
  <2>4. RuleTableOutcome(code, reached) = Emit(RULES[i].category, RULES[i].either, reached)
    BY <1>2, <2>1, <2>2, <2>3
  <2>5. QED
    BY <1>3, <2>4, ClassifiedKnown
<1>4. ASSUME \A i \in 1 .. 9 : code # CodeAt(i)
      PROVE  RuleTableOutcome(code, reached) = Classified(code, reached)
  <2>1. found = {}
    BY <1>1, <1>4
  <2>2. QED
    BY <1>2, <1>4, <2>1, ClassifiedOther
<1>5. QED
  BY <1>3, <1>4

LEMMA RuleCategories ==
    /\ RULES[1].category = "Accepted" /\ RULES[1].either = TRUE
    /\ RULES[2].category = "ClientSyntax" /\ RULES[2].either = FALSE
    /\ RULES[3].category = "AmbiguousFraming" /\ RULES[3].either = FALSE
    /\ RULES[4].category = "PolicyRejected" /\ RULES[4].either = FALSE
    /\ RULES[5].category = "RouteMissing" /\ RULES[5].either = FALSE
    /\ RULES[6].category = "UpstreamFailure" /\ RULES[6].either = TRUE
    /\ RULES[7].category = "Timeout" /\ RULES[7].either = TRUE
    /\ RULES[8].category = "ImplementationDisagreement" /\ RULES[8].either = FALSE
    /\ RULES[9].category = "InternalFailure" /\ RULES[9].either = TRUE
<1>1. RULES[1].category = "Accepted" /\ RULES[1].either = TRUE
  <2>1. RULES[1] = Row(<<"accepted">>, "Accepted", TRUE)
    BY RuleRows, Zenon
  <2>2. QED
    BY <2>1 DEF Row
<1>2. RULES[2].category = "ClientSyntax" /\ RULES[2].either = FALSE
  <2>1. RULES[2] = Row(<<"client", "syntax">>, "ClientSyntax", FALSE)
    BY RuleRows, Zenon
  <2>2. QED
    BY <2>1 DEF Row
<1>3. RULES[3].category = "AmbiguousFraming" /\ RULES[3].either = FALSE
  <2>1. RULES[3] = Row(<<"ambiguous", "framing">>, "AmbiguousFraming", FALSE)
    BY RuleRows, Zenon
  <2>2. QED
    BY <2>1 DEF Row
<1>4. RULES[4].category = "PolicyRejected" /\ RULES[4].either = FALSE
  <2>1. RULES[4] = Row(<<"policy", "rejected">>, "PolicyRejected", FALSE)
    BY RuleRows, Zenon
  <2>2. QED
    BY <2>1 DEF Row
<1>5. RULES[5].category = "RouteMissing" /\ RULES[5].either = FALSE
  <2>1. RULES[5] = Row(<<"route", "missing">>, "RouteMissing", FALSE)
    BY RuleRows, Zenon
  <2>2. QED
    BY <2>1 DEF Row
<1>6. RULES[6].category = "UpstreamFailure" /\ RULES[6].either = TRUE
  <2>1. RULES[6] = Row(<<"upstream", "failure">>, "UpstreamFailure", TRUE)
    BY RuleRows, Zenon
  <2>2. QED
    BY <2>1 DEF Row
<1>7. RULES[7].category = "Timeout" /\ RULES[7].either = TRUE
  <2>1. RULES[7] = Row(<<"timeout">>, "Timeout", TRUE)
    BY RuleRows, Zenon
  <2>2. QED
    BY <2>1 DEF Row
<1>8. RULES[8].category = "ImplementationDisagreement" /\ RULES[8].either = FALSE
  <2>1. RULES[8] = Row(<<"implementation", "disagreement">>, "ImplementationDisagreement", FALSE)
    BY RuleRows, Zenon
  <2>2. QED
    BY <2>1 DEF Row
<1>9. RULES[9].category = "InternalFailure" /\ RULES[9].either = TRUE
  <2>1. RULES[9] = Row(<<"internal", "failure">>, "InternalFailure", TRUE)
    BY RuleRows, Zenon
  <2>2. QED
    BY <2>1 DEF Row
<1>10. QED
  BY <1>1, <1>2, <1>3, <1>4, <1>5, <1>6, <1>7, <1>8, <1>9

LEMMA CodesApart ==
    /\ CodeAt(1) # CodeAt(2) /\ CodeAt(1) # CodeAt(3) /\ CodeAt(1) # CodeAt(4) /\ CodeAt(1) # CodeAt(5) /\ CodeAt(1) # CodeAt(6) /\ CodeAt(1) # CodeAt(7) /\ CodeAt(1) # CodeAt(8) /\ CodeAt(1) # CodeAt(9)
    /\ CodeAt(2) # CodeAt(3) /\ CodeAt(2) # CodeAt(4) /\ CodeAt(2) # CodeAt(5) /\ CodeAt(2) # CodeAt(6) /\ CodeAt(2) # CodeAt(7) /\ CodeAt(2) # CodeAt(8) /\ CodeAt(2) # CodeAt(9)
    /\ CodeAt(3) # CodeAt(4) /\ CodeAt(3) # CodeAt(5) /\ CodeAt(3) # CodeAt(6) /\ CodeAt(3) # CodeAt(7) /\ CodeAt(3) # CodeAt(8) /\ CodeAt(3) # CodeAt(9)
    /\ CodeAt(4) # CodeAt(5) /\ CodeAt(4) # CodeAt(6) /\ CodeAt(4) # CodeAt(7) /\ CodeAt(4) # CodeAt(8) /\ CodeAt(4) # CodeAt(9)
    /\ CodeAt(5) # CodeAt(6) /\ CodeAt(5) # CodeAt(7) /\ CodeAt(5) # CodeAt(8) /\ CodeAt(5) # CodeAt(9)
    /\ CodeAt(6) # CodeAt(7) /\ CodeAt(6) # CodeAt(8) /\ CodeAt(6) # CodeAt(9)
    /\ CodeAt(7) # CodeAt(8) /\ CodeAt(7) # CodeAt(9)
    /\ CodeAt(8) # CodeAt(9)
<1>1. \A i, j \in 1 .. 9 : CodeAt(i) = CodeAt(j) => i = j
  BY CodesDiffer
<1>2. /\ 1 \in 1 .. 9 /\ 2 \in 1 .. 9 /\ 3 \in 1 .. 9 /\ 4 \in 1 .. 9 /\ 5 \in 1 .. 9
      /\ 6 \in 1 .. 9 /\ 7 \in 1 .. 9 /\ 8 \in 1 .. 9 /\ 9 \in 1 .. 9
  OBVIOUS
<1>3. QED
  BY <1>1, <1>2

LEMMA SymbolCases ==
    ASSUME NEW code
    PROVE  /\ \A i \in 1 .. 9 : code = CodeAt(i) => SymbolOf(code) = RULES[i].category
           /\ (\A i \in 1 .. 9 : code # CodeAt(i)) => SymbolOf(code) = Unclassified
<1>1. SymbolOf(code) =
         CASE code = CodeAt(1) -> "Accepted"
           [] code = CodeAt(2) -> "ClientSyntax"
           [] code = CodeAt(3) -> "AmbiguousFraming"
           [] code = CodeAt(4) -> "PolicyRejected"
           [] code = CodeAt(5) -> "RouteMissing"
           [] code = CodeAt(6) -> "UpstreamFailure"
           [] code = CodeAt(7) -> "Timeout"
           [] code = CodeAt(8) -> "ImplementationDisagreement"
           [] code = CodeAt(9) -> "InternalFailure"
           [] OTHER -> Unclassified
  <2>1. SymbolOf(code) =
           CASE code = <<"accepted">> -> "Accepted"
             [] code = <<"client", "syntax">> -> "ClientSyntax"
             [] code = <<"ambiguous", "framing">> -> "AmbiguousFraming"
             [] code = <<"policy", "rejected">> -> "PolicyRejected"
             [] code = <<"route", "missing">> -> "RouteMissing"
             [] code = <<"upstream", "failure">> -> "UpstreamFailure"
             [] code = <<"timeout">> -> "Timeout"
             [] code = <<"implementation", "disagreement">> -> "ImplementationDisagreement"
             [] code = <<"internal", "failure">> -> "InternalFailure"
             [] OTHER -> Unclassified
    BY Zenon DEF SymbolOf
  <2>2. QED
    BY <2>1, CodesAre, Zenon
<1>2. code = CodeAt(1) => SymbolOf(code) = "Accepted"
  BY <1>1, CodesApart, Zenon
<1>3. code = CodeAt(2) => SymbolOf(code) = "ClientSyntax"
  BY <1>1, CodesApart, Zenon
<1>4. code = CodeAt(3) => SymbolOf(code) = "AmbiguousFraming"
  BY <1>1, CodesApart, Zenon
<1>5. code = CodeAt(4) => SymbolOf(code) = "PolicyRejected"
  BY <1>1, CodesApart, Zenon
<1>6. code = CodeAt(5) => SymbolOf(code) = "RouteMissing"
  BY <1>1, CodesApart, Zenon
<1>7. code = CodeAt(6) => SymbolOf(code) = "UpstreamFailure"
  BY <1>1, CodesApart, Zenon
<1>8. code = CodeAt(7) => SymbolOf(code) = "Timeout"
  BY <1>1, CodesApart, Zenon
<1>9. code = CodeAt(8) => SymbolOf(code) = "ImplementationDisagreement"
  BY <1>1, CodesApart, Zenon
<1>10. code = CodeAt(9) => SymbolOf(code) = "InternalFailure"
  BY <1>1, CodesApart, Zenon
<1>11. (\A i \in 1 .. 9 : code # CodeAt(i)) => SymbolOf(code) = Unclassified
  <2>1. /\ 1 \in 1 .. 9 /\ 2 \in 1 .. 9 /\ 3 \in 1 .. 9 /\ 4 \in 1 .. 9 /\ 5 \in 1 .. 9
        /\ 6 \in 1 .. 9 /\ 7 \in 1 .. 9 /\ 8 \in 1 .. 9 /\ 9 \in 1 .. 9
    OBVIOUS
  <2>2. QED
    BY <1>1, <2>1, Zenon
<1>12. ASSUME NEW i \in 1 .. 9, code = CodeAt(i)
       PROVE  SymbolOf(code) = RULES[i].category
  <2>1. i = 1 \/ i = 2 \/ i = 3 \/ i = 4 \/ i = 5 \/ i = 6 \/ i = 7 \/ i = 8 \/ i = 9
    OBVIOUS
  <2>2. QED
    BY <1>2, <1>3, <1>4, <1>5, <1>6, <1>7, <1>8, <1>9, <1>10, <1>12, <2>1, RuleCategories
<1>13. QED
  BY <1>11, <1>12

LEMMA SymbolPhasesClassifies ==
    ASSUME NEW code, NEW reached
    PROVE  SymbolPhasesOutcome(code, reached) = Classified(code, reached)
<1> DEFINE either == SymbolOf(code) \in {"Accepted", "UpstreamFailure", "Timeout", "InternalFailure"}
<1>1. SymbolPhasesOutcome(code, reached) =
         IF SymbolOf(code) = Unclassified THEN Unknown ELSE Emit(SymbolOf(code), either, reached)
  BY Zenon DEF SymbolPhasesOutcome
<1>2. ASSUME NEW i \in 1 .. 9, code = CodeAt(i)
      PROVE  SymbolPhasesOutcome(code, reached) = Classified(code, reached)
  <2>1. SymbolOf(code) = RULES[i].category
    BY <1>2, SymbolCases
  <2>2. i = 1 \/ i = 2 \/ i = 3 \/ i = 4 \/ i = 5 \/ i = 6 \/ i = 7 \/ i = 8 \/ i = 9
    OBVIOUS
  <2>3. SymbolOf(code) # Unclassified /\ (either <=> RULES[i].either)
    BY <2>1, <2>2, RuleCategories DEF Unclassified
  <2>4. Emit(SymbolOf(code), either, reached) = Emit(RULES[i].category, RULES[i].either, reached)
    BY <2>1, <2>3 DEF Emit
  <2>5. QED
    BY <1>1, <1>2, <2>3, <2>4, ClassifiedKnown
<1>3. ASSUME \A i \in 1 .. 9 : code # CodeAt(i)
      PROVE  SymbolPhasesOutcome(code, reached) = Classified(code, reached)
  BY <1>1, <1>3, SymbolCases, ClassifiedOther
<1>4. QED
  BY <1>2, <1>3

LEMMA LengthRows ==
    /\ DOMAIN LENGTH_RULES = {7, 8, 13, 15, 16, 17, 27}
    /\ LENGTH_RULES[7] = <<RULES[7]>>
    /\ LENGTH_RULES[8] = <<RULES[1]>>
    /\ LENGTH_RULES[13] = <<RULES[2], RULES[5]>>
    /\ LENGTH_RULES[15] = <<RULES[4]>>
    /\ LENGTH_RULES[16] = <<RULES[6], RULES[9]>>
    /\ LENGTH_RULES[17] = <<RULES[3]>>
    /\ LENGTH_RULES[27] = <<RULES[8]>>
<1> DEFINE rows(n) ==
             CASE n = 7 -> <<Row(<<"timeout">>, "Timeout", TRUE)>>
               [] n = 8 -> <<Row(<<"accepted">>, "Accepted", TRUE)>>
               [] n = 13 -> <<Row(<<"client", "syntax">>, "ClientSyntax", FALSE), Row(<<"route", "missing">>, "RouteMissing", FALSE)>>
               [] n = 15 -> <<Row(<<"policy", "rejected">>, "PolicyRejected", FALSE)>>
               [] n = 16 -> <<Row(<<"upstream", "failure">>, "UpstreamFailure", TRUE), Row(<<"internal", "failure">>, "InternalFailure", TRUE)>>
               [] n = 17 -> <<Row(<<"ambiguous", "framing">>, "AmbiguousFraming", FALSE)>>
               [] n = 27 -> <<Row(<<"implementation", "disagreement">>, "ImplementationDisagreement", FALSE)>>
<1>1. LENGTH_RULES = [n \in {7, 8, 13, 15, 16, 17, 27} |-> rows(n)]
  BY Zenon DEF LENGTH_RULES
<1>2. /\ rows(7) = <<Row(<<"timeout">>, "Timeout", TRUE)>>
      /\ rows(8) = <<Row(<<"accepted">>, "Accepted", TRUE)>>
      /\ rows(13) = <<Row(<<"client", "syntax">>, "ClientSyntax", FALSE), Row(<<"route", "missing">>, "RouteMissing", FALSE)>>
      /\ rows(15) = <<Row(<<"policy", "rejected">>, "PolicyRejected", FALSE)>>
      /\ rows(16) = <<Row(<<"upstream", "failure">>, "UpstreamFailure", TRUE), Row(<<"internal", "failure">>, "InternalFailure", TRUE)>>
      /\ rows(17) = <<Row(<<"ambiguous", "framing">>, "AmbiguousFraming", FALSE)>>
      /\ rows(27) = <<Row(<<"implementation", "disagreement">>, "ImplementationDisagreement", FALSE)>>
  <2>1. /\ 7 # 8 /\ 7 # 13 /\ 7 # 15 /\ 7 # 16 /\ 7 # 17 /\ 7 # 27
        /\ 8 # 13 /\ 8 # 15 /\ 8 # 16 /\ 8 # 17 /\ 8 # 27
        /\ 13 # 15 /\ 13 # 16 /\ 13 # 17 /\ 13 # 27
        /\ 15 # 16 /\ 15 # 17 /\ 15 # 27
        /\ 16 # 17 /\ 16 # 27
        /\ 17 # 27
    OBVIOUS
  <2>2. rows(7) = <<Row(<<"timeout">>, "Timeout", TRUE)>>
    BY <2>1, Zenon
  <2>3. rows(8) = <<Row(<<"accepted">>, "Accepted", TRUE)>>
    BY <2>1, Zenon
  <2>4. rows(13) = <<Row(<<"client", "syntax">>, "ClientSyntax", FALSE), Row(<<"route", "missing">>, "RouteMissing", FALSE)>>
    BY <2>1, Zenon
  <2>5. rows(15) = <<Row(<<"policy", "rejected">>, "PolicyRejected", FALSE)>>
    BY <2>1, Zenon
  <2>6. rows(16) = <<Row(<<"upstream", "failure">>, "UpstreamFailure", TRUE), Row(<<"internal", "failure">>, "InternalFailure", TRUE)>>
    BY <2>1, Zenon
  <2>7. rows(17) = <<Row(<<"ambiguous", "framing">>, "AmbiguousFraming", FALSE)>>
    BY <2>1, Zenon
  <2>8. rows(27) = <<Row(<<"implementation", "disagreement">>, "ImplementationDisagreement", FALSE)>>
    BY <2>1, Zenon
  <2>9. QED
    BY <2>2, <2>3, <2>4, <2>5, <2>6, <2>7, <2>8, Zenon
<1> HIDE DEF rows
<1>3. \A n \in {7, 8, 13, 15, 16, 17, 27} : LENGTH_RULES[n] = rows(n)
  BY <1>1, Zenon
<1>4. DOMAIN LENGTH_RULES = {7, 8, 13, 15, 16, 17, 27}
  BY <1>1, Zenon
<1>5. LENGTH_RULES[7] = <<RULES[7]>>
  BY <1>2, <1>3, RuleRows, Zenon
<1>6. LENGTH_RULES[8] = <<RULES[1]>>
  BY <1>2, <1>3, RuleRows, Zenon
<1>7. LENGTH_RULES[13] = <<RULES[2], RULES[5]>>
  BY <1>2, <1>3, RuleRows, Zenon
<1>8. LENGTH_RULES[15] = <<RULES[4]>>
  BY <1>2, <1>3, RuleRows, Zenon
<1>9. LENGTH_RULES[16] = <<RULES[6], RULES[9]>>
  BY <1>2, <1>3, RuleRows, Zenon
<1>10. LENGTH_RULES[17] = <<RULES[3]>>
  BY <1>2, <1>3, RuleRows, Zenon
<1>11. LENGTH_RULES[27] = <<RULES[8]>>
  BY <1>2, <1>3, RuleRows, Zenon
<1>12. QED
  BY <1>4, <1>5, <1>6, <1>7, <1>8, <1>9, <1>10, <1>11, Zenon

LEMMA LengthDispatchClassifies ==
    ASSUME NEW code, NEW reached
    PROVE  LengthDispatchOutcome(code, reached) = Classified(code, reached)
<1> DEFINE n == CodeLength(code)
           rows == LENGTH_RULES[n]
           found == {i \in DOMAIN rows : rows[i].code = code}
           next == LengthDispatchOutcome(code, reached)
<1>1. next = IF n \notin DOMAIN LENGTH_RULES \/ found = {} THEN Unknown
             ELSE Emit(rows[Min(found)].category, rows[Min(found)].either, reached)
  BY Zenon DEF LengthDispatchOutcome
<1> SUFFICES next = Classified(code, reached)
  OBVIOUS
<1> HIDE DEF next
<1>2. ASSUME NEW i \in 1 .. 9, NEW j \in DOMAIN rows, n \in DOMAIN LENGTH_RULES, rows[j] = RULES[i],
             code = CodeAt(i), \A k \in DOMAIN rows : rows[k].code = code => k = j
      PROVE  next = Classified(code, reached)
  <2>1. found = {j}
    BY <1>2 DEF CodeAt
  <2>2. Min(found) = j
    BY <2>1 DEF Min
  <2>3. next = Emit(RULES[i].category, RULES[i].either, reached)
    BY <1>1, <1>2, <2>1, <2>2
  <2>4. QED
    BY <1>2, <2>3, ClassifiedKnown
<1>3. CASE code = CodeAt(1)
  <2>1. n = 8
    BY <1>3, CodeLengths
  <2>2. rows = <<RULES[1]>> /\ n \in DOMAIN LENGTH_RULES
    BY <2>1, LengthRows
  <2>3. DOMAIN rows = 1 .. 1 /\ rows[1] = RULES[1]
    BY <2>2
  <2>4. \A m \in DOMAIN rows : m = 1
    BY <2>3
  <2> HIDE DEF n, rows
  <2>5. 1 \in 1 .. 9 /\ 1 \in DOMAIN rows
    BY <2>3
  <2>6. QED
    BY <1>2, <1>3, <2>2, <2>3, <2>4, <2>5
<1>4. CASE code = CodeAt(2)
  <2>1. n = 13
    BY <1>4, CodeLengths
  <2>2. rows = <<RULES[2], RULES[5]>> /\ n \in DOMAIN LENGTH_RULES
    BY <2>1, LengthRows
  <2>3. DOMAIN rows = 1 .. 2 /\ rows[1] = RULES[2] /\ rows[2] = RULES[5]
    BY <2>2
  <2>4. \A m \in DOMAIN rows : m = 1 \/ (m = 2 /\ rows[m].code # code)
    <3>1. CodeAt(5) # code
      BY <1>4, CodesApart
    <3>2. \A m \in DOMAIN rows : m = 1 \/ m = 2
      BY <2>3
    <3>3. QED
      BY <2>3, <3>1, <3>2 DEF CodeAt
  <2> HIDE DEF n, rows
  <2>5. 2 \in 1 .. 9 /\ 1 \in DOMAIN rows
    BY <2>3
  <2>6. QED
    BY <1>2, <1>4, <2>2, <2>3, <2>4, <2>5
<1>5. CASE code = CodeAt(3)
  <2>1. n = 17
    BY <1>5, CodeLengths
  <2>2. rows = <<RULES[3]>> /\ n \in DOMAIN LENGTH_RULES
    BY <2>1, LengthRows
  <2>3. DOMAIN rows = 1 .. 1 /\ rows[1] = RULES[3]
    BY <2>2
  <2>4. \A m \in DOMAIN rows : m = 1
    BY <2>3
  <2> HIDE DEF n, rows
  <2>5. 3 \in 1 .. 9 /\ 1 \in DOMAIN rows
    BY <2>3
  <2>6. QED
    BY <1>2, <1>5, <2>2, <2>3, <2>4, <2>5
<1>6. CASE code = CodeAt(4)
  <2>1. n = 15
    BY <1>6, CodeLengths
  <2>2. rows = <<RULES[4]>> /\ n \in DOMAIN LENGTH_RULES
    BY <2>1, LengthRows
  <2>3. DOMAIN rows = 1 .. 1 /\ rows[1] = RULES[4]
    BY <2>2
  <2>4. \A m \in DOMAIN rows : m = 1
    BY <2>3
  <2> HIDE DEF n, rows
  <2>5. 4 \in 1 .. 9 /\ 1 \in DOMAIN rows
    BY <2>3
  <2>6. QED
    BY <1>2, <1>6, <2>2, <2>3, <2>4, <2>5
<1>7. CASE code = CodeAt(5)
  <2>1. n = 13
    BY <1>7, CodeLengths
  <2>2. rows = <<RULES[2], RULES[5]>> /\ n \in DOMAIN LENGTH_RULES
    BY <2>1, LengthRows
  <2>3. DOMAIN rows = 1 .. 2 /\ rows[1] = RULES[2] /\ rows[2] = RULES[5]
    BY <2>2
  <2>4. \A m \in DOMAIN rows : m = 2 \/ (m = 1 /\ rows[m].code # code)
    <3>1. CodeAt(2) # code
      BY <1>7, CodesApart
    <3>2. \A m \in DOMAIN rows : m = 2 \/ m = 1
      BY <2>3
    <3>3. QED
      BY <2>3, <3>1, <3>2 DEF CodeAt
  <2> HIDE DEF n, rows
  <2>5. 5 \in 1 .. 9 /\ 2 \in DOMAIN rows
    BY <2>3
  <2>6. QED
    BY <1>2, <1>7, <2>2, <2>3, <2>4, <2>5
<1>8. CASE code = CodeAt(6)
  <2>1. n = 16
    BY <1>8, CodeLengths
  <2>2. rows = <<RULES[6], RULES[9]>> /\ n \in DOMAIN LENGTH_RULES
    BY <2>1, LengthRows
  <2>3. DOMAIN rows = 1 .. 2 /\ rows[1] = RULES[6] /\ rows[2] = RULES[9]
    BY <2>2
  <2>4. \A m \in DOMAIN rows : m = 1 \/ (m = 2 /\ rows[m].code # code)
    <3>1. CodeAt(9) # code
      BY <1>8, CodesApart
    <3>2. \A m \in DOMAIN rows : m = 1 \/ m = 2
      BY <2>3
    <3>3. QED
      BY <2>3, <3>1, <3>2 DEF CodeAt
  <2> HIDE DEF n, rows
  <2>5. 6 \in 1 .. 9 /\ 1 \in DOMAIN rows
    BY <2>3
  <2>6. QED
    BY <1>2, <1>8, <2>2, <2>3, <2>4, <2>5
<1>9. CASE code = CodeAt(7)
  <2>1. n = 7
    BY <1>9, CodeLengths
  <2>2. rows = <<RULES[7]>> /\ n \in DOMAIN LENGTH_RULES
    BY <2>1, LengthRows
  <2>3. DOMAIN rows = 1 .. 1 /\ rows[1] = RULES[7]
    BY <2>2
  <2>4. \A m \in DOMAIN rows : m = 1
    BY <2>3
  <2> HIDE DEF n, rows
  <2>5. 7 \in 1 .. 9 /\ 1 \in DOMAIN rows
    BY <2>3
  <2>6. QED
    BY <1>2, <1>9, <2>2, <2>3, <2>4, <2>5
<1>10. CASE code = CodeAt(8)
  <2>1. n = 27
    BY <1>10, CodeLengths
  <2>2. rows = <<RULES[8]>> /\ n \in DOMAIN LENGTH_RULES
    BY <2>1, LengthRows
  <2>3. DOMAIN rows = 1 .. 1 /\ rows[1] = RULES[8]
    BY <2>2
  <2>4. \A m \in DOMAIN rows : m = 1
    BY <2>3
  <2> HIDE DEF n, rows
  <2>5. 8 \in 1 .. 9 /\ 1 \in DOMAIN rows
    BY <2>3
  <2>6. QED
    BY <1>2, <1>10, <2>2, <2>3, <2>4, <2>5
<1>11. CASE code = CodeAt(9)
  <2>1. n = 16
    BY <1>11, CodeLengths
  <2>2. rows = <<RULES[6], RULES[9]>> /\ n \in DOMAIN LENGTH_RULES
    BY <2>1, LengthRows
  <2>3. DOMAIN rows = 1 .. 2 /\ rows[1] = RULES[6] /\ rows[2] = RULES[9]
    BY <2>2
  <2>4. \A m \in DOMAIN rows : m = 2 \/ (m = 1 /\ rows[m].code # code)
    <3>1. CodeAt(6) # code
      BY <1>11, CodesApart
    <3>2. \A m \in DOMAIN rows : m = 2 \/ m = 1
      BY <2>3
    <3>3. QED
      BY <2>3, <3>1, <3>2 DEF CodeAt
  <2> HIDE DEF n, rows
  <2>5. 9 \in 1 .. 9 /\ 2 \in DOMAIN rows
    BY <2>3
  <2>6. QED
    BY <1>2, <1>11, <2>2, <2>3, <2>4, <2>5
<1>12. CASE \A i \in 1 .. 9 : code # CodeAt(i)
  <2>1. ASSUME n \in DOMAIN LENGTH_RULES, NEW j \in DOMAIN rows, rows[j].code = code
        PROVE  FALSE
    <3>1. n \in {7, 8, 13, 15, 16, 17, 27}
      BY <2>1, LengthRows
    <3>2. \E i \in 1 .. 9 : rows[j] = RULES[i]
      <4> HIDE DEF n
      <4>1. CASE n \in {7, 8, 15, 17, 27}
        BY <2>1, <4>1, LengthRows
      <4>2. CASE n = 13
        BY <2>1, <4>2, LengthRows
      <4>3. CASE n = 16
        BY <2>1, <4>3, LengthRows
      <4>4. QED
        BY <3>1, <4>1, <4>2, <4>3
    <3>3. QED
      BY <1>12, <2>1, <3>2 DEF CodeAt
  <2>2. n \in DOMAIN LENGTH_RULES => found = {}
    BY <2>1
  <2>3. next = Unknown
    BY <1>1, <2>2, Zenon
  <2>4. QED
    BY <1>12, <2>3, ClassifiedOther
<1>13. QED
  <2>1. ASSUME NEW i \in 1 .. 9, code = CodeAt(i)
        PROVE  next = Classified(code, reached)
    <3>1. i = 1 \/ i = 2 \/ i = 3 \/ i = 4 \/ i = 5 \/ i = 6 \/ i = 7 \/ i = 8 \/ i = 9
      OBVIOUS
    <3>2. QED
      BY <1>3, <1>4, <1>5, <1>6, <1>7, <1>8, <1>9, <1>10, <1>11, <2>1, <3>1, Zenon
  <2>2. QED
    BY <1>12, <2>1, Zenon

KeyAt(p) == FINGERPRINTS[p].key
RowAt(p) == FINGERPRINTS[p].row

LEMMA FingerprintRows ==
    /\ DOMAIN FINGERPRINTS = 1 .. 9 /\ Len(FINGERPRINTS) = 9
    /\ KeyAt(1) = <<7, 20, 20>> /\ RowAt(1) = RULES[7]
    /\ KeyAt(2) = <<8, 1, 4>> /\ RowAt(2) = RULES[1]
    /\ KeyAt(3) = <<13, 3, 24>> /\ RowAt(3) = RULES[2]
    /\ KeyAt(4) = <<13, 18, 7>> /\ RowAt(4) = RULES[5]
    /\ KeyAt(5) = <<15, 16, 4>> /\ RowAt(5) = RULES[4]
    /\ KeyAt(6) = <<16, 9, 5>> /\ RowAt(6) = RULES[9]
    /\ KeyAt(7) = <<16, 21, 5>> /\ RowAt(7) = RULES[6]
    /\ KeyAt(8) = <<17, 1, 7>> /\ RowAt(8) = RULES[3]
    /\ KeyAt(9) = <<27, 9, 20>> /\ RowAt(9) = RULES[8]
<1>1. DOMAIN FINGERPRINTS = 1 .. 9 /\ Len(FINGERPRINTS) = 9
  BY DEF FINGERPRINTS
<1>2. /\ FINGERPRINTS[1] = Keyed(<<7, 20, 20>>, Row(<<"timeout">>, "Timeout", TRUE))
      /\ FINGERPRINTS[2] = Keyed(<<8, 1, 4>>, Row(<<"accepted">>, "Accepted", TRUE))
      /\ FINGERPRINTS[3] = Keyed(<<13, 3, 24>>, Row(<<"client", "syntax">>, "ClientSyntax", FALSE))
      /\ FINGERPRINTS[4] = Keyed(<<13, 18, 7>>, Row(<<"route", "missing">>, "RouteMissing", FALSE))
      /\ FINGERPRINTS[5] = Keyed(<<15, 16, 4>>, Row(<<"policy", "rejected">>, "PolicyRejected", FALSE))
      /\ FINGERPRINTS[6] = Keyed(<<16, 9, 5>>, Row(<<"internal", "failure">>, "InternalFailure", TRUE))
      /\ FINGERPRINTS[7] = Keyed(<<16, 21, 5>>, Row(<<"upstream", "failure">>, "UpstreamFailure", TRUE))
      /\ FINGERPRINTS[8] = Keyed(<<17, 1, 7>>, Row(<<"ambiguous", "framing">>, "AmbiguousFraming", FALSE))
      /\ FINGERPRINTS[9] = Keyed(<<27, 9, 20>>, Row(<<"implementation", "disagreement">>, "ImplementationDisagreement", FALSE))
  BY DEF FINGERPRINTS
<1>3. KeyAt(1) = <<7, 20, 20>> /\ RowAt(1) = RULES[7]
  <2>1. FINGERPRINTS[1] = Keyed(<<7, 20, 20>>, RULES[7])
    BY <1>2, RuleRows, Zenon
  <2>2. QED
    BY <2>1 DEF Keyed, KeyAt, RowAt
<1>4. KeyAt(2) = <<8, 1, 4>> /\ RowAt(2) = RULES[1]
  <2>1. FINGERPRINTS[2] = Keyed(<<8, 1, 4>>, RULES[1])
    BY <1>2, RuleRows, Zenon
  <2>2. QED
    BY <2>1 DEF Keyed, KeyAt, RowAt
<1>5. KeyAt(3) = <<13, 3, 24>> /\ RowAt(3) = RULES[2]
  <2>1. FINGERPRINTS[3] = Keyed(<<13, 3, 24>>, RULES[2])
    BY <1>2, RuleRows, Zenon
  <2>2. QED
    BY <2>1 DEF Keyed, KeyAt, RowAt
<1>6. KeyAt(4) = <<13, 18, 7>> /\ RowAt(4) = RULES[5]
  <2>1. FINGERPRINTS[4] = Keyed(<<13, 18, 7>>, RULES[5])
    BY <1>2, RuleRows, Zenon
  <2>2. QED
    BY <2>1 DEF Keyed, KeyAt, RowAt
<1>7. KeyAt(5) = <<15, 16, 4>> /\ RowAt(5) = RULES[4]
  <2>1. FINGERPRINTS[5] = Keyed(<<15, 16, 4>>, RULES[4])
    BY <1>2, RuleRows, Zenon
  <2>2. QED
    BY <2>1 DEF Keyed, KeyAt, RowAt
<1>8. KeyAt(6) = <<16, 9, 5>> /\ RowAt(6) = RULES[9]
  <2>1. FINGERPRINTS[6] = Keyed(<<16, 9, 5>>, RULES[9])
    BY <1>2, RuleRows, Zenon
  <2>2. QED
    BY <2>1 DEF Keyed, KeyAt, RowAt
<1>9. KeyAt(7) = <<16, 21, 5>> /\ RowAt(7) = RULES[6]
  <2>1. FINGERPRINTS[7] = Keyed(<<16, 21, 5>>, RULES[6])
    BY <1>2, RuleRows, Zenon
  <2>2. QED
    BY <2>1 DEF Keyed, KeyAt, RowAt
<1>10. KeyAt(8) = <<17, 1, 7>> /\ RowAt(8) = RULES[3]
  <2>1. FINGERPRINTS[8] = Keyed(<<17, 1, 7>>, RULES[3])
    BY <1>2, RuleRows, Zenon
  <2>2. QED
    BY <2>1 DEF Keyed, KeyAt, RowAt
<1>11. KeyAt(9) = <<27, 9, 20>> /\ RowAt(9) = RULES[8]
  <2>1. FINGERPRINTS[9] = Keyed(<<27, 9, 20>>, RULES[8])
    BY <1>2, RuleRows, Zenon
  <2>2. QED
    BY <2>1 DEF Keyed, KeyAt, RowAt
<1>12. QED
  BY <1>1, <1>3, <1>4, <1>5, <1>6, <1>7, <1>8, <1>9, <1>10, <1>11

LEMMA SpellingRows ==
    /\ Spelling["accepted"] = <<8, 1, 4>>
    /\ Spelling["ambiguous"] = <<9, 1, 19>>
    /\ Spelling["client"] = <<6, 3, 20>>
    /\ Spelling["disagreement"] = <<12, 4, 20>>
    /\ Spelling["failure"] = <<7, 6, 5>>
    /\ Spelling["framing"] = <<7, 6, 7>>
    /\ Spelling["implementation"] = <<14, 9, 14>>
    /\ Spelling["internal"] = <<8, 9, 12>>
    /\ Spelling["missing"] = <<7, 13, 7>>
    /\ Spelling["policy"] = <<6, 16, 25>>
    /\ Spelling["rejected"] = <<8, 18, 4>>
    /\ Spelling["route"] = <<5, 18, 5>>
    /\ Spelling["syntax"] = <<6, 19, 24>>
    /\ Spelling["timeout"] = <<7, 20, 20>>
    /\ Spelling["upstream"] = <<8, 21, 13>>
BY DEF Spelling

LEMMA CodeKeys ==
    /\ CodeKey(CodeAt(7)) = KeyAt(1)
    /\ CodeKey(CodeAt(1)) = KeyAt(2)
    /\ CodeKey(CodeAt(2)) = KeyAt(3)
    /\ CodeKey(CodeAt(5)) = KeyAt(4)
    /\ CodeKey(CodeAt(4)) = KeyAt(5)
    /\ CodeKey(CodeAt(9)) = KeyAt(6)
    /\ CodeKey(CodeAt(6)) = KeyAt(7)
    /\ CodeKey(CodeAt(3)) = KeyAt(8)
    /\ CodeKey(CodeAt(8)) = KeyAt(9)
<1>1. CodeKey(CodeAt(7)) = KeyAt(1)
  <2>1. CodeAt(7) = <<"timeout">> /\ CodeLength(CodeAt(7)) = 7
    BY CodesAre, CodeLengths, Zenon
  <2>2. Head(CodeAt(7)) = "timeout" /\ Last(CodeAt(7)) = "timeout"
    BY <2>1 DEF Last
  <2>3. Spelling["timeout"][2] = 20 /\ Spelling["timeout"][3] = 20
    <3>1. Spelling["timeout"] = <<7, 20, 20>> /\ Spelling["timeout"] = <<7, 20, 20>>
      BY SpellingRows, Zenon
    <3>2. QED
      BY <3>1
  <2>4. CodeKey(CodeAt(7)) = <<7, 20, 20>>
    BY <2>1, <2>2, <2>3 DEF CodeKey
  <2>5. QED
    BY <2>4, FingerprintRows, Zenon
<1>2. CodeKey(CodeAt(1)) = KeyAt(2)
  <2>1. CodeAt(1) = <<"accepted">> /\ CodeLength(CodeAt(1)) = 8
    BY CodesAre, CodeLengths, Zenon
  <2>2. Head(CodeAt(1)) = "accepted" /\ Last(CodeAt(1)) = "accepted"
    BY <2>1 DEF Last
  <2>3. Spelling["accepted"][2] = 1 /\ Spelling["accepted"][3] = 4
    <3>1. Spelling["accepted"] = <<8, 1, 4>> /\ Spelling["accepted"] = <<8, 1, 4>>
      BY SpellingRows, Zenon
    <3>2. QED
      BY <3>1
  <2>4. CodeKey(CodeAt(1)) = <<8, 1, 4>>
    BY <2>1, <2>2, <2>3 DEF CodeKey
  <2>5. QED
    BY <2>4, FingerprintRows, Zenon
<1>3. CodeKey(CodeAt(2)) = KeyAt(3)
  <2>1. CodeAt(2) = <<"client", "syntax">> /\ CodeLength(CodeAt(2)) = 13
    BY CodesAre, CodeLengths, Zenon
  <2>2. Head(CodeAt(2)) = "client" /\ Last(CodeAt(2)) = "syntax"
    BY <2>1 DEF Last
  <2>3. Spelling["client"][2] = 3 /\ Spelling["syntax"][3] = 24
    <3>1. Spelling["client"] = <<6, 3, 20>> /\ Spelling["syntax"] = <<6, 19, 24>>
      BY SpellingRows, Zenon
    <3>2. QED
      BY <3>1
  <2>4. CodeKey(CodeAt(2)) = <<13, 3, 24>>
    BY <2>1, <2>2, <2>3 DEF CodeKey
  <2>5. QED
    BY <2>4, FingerprintRows, Zenon
<1>4. CodeKey(CodeAt(5)) = KeyAt(4)
  <2>1. CodeAt(5) = <<"route", "missing">> /\ CodeLength(CodeAt(5)) = 13
    BY CodesAre, CodeLengths, Zenon
  <2>2. Head(CodeAt(5)) = "route" /\ Last(CodeAt(5)) = "missing"
    BY <2>1 DEF Last
  <2>3. Spelling["route"][2] = 18 /\ Spelling["missing"][3] = 7
    <3>1. Spelling["route"] = <<5, 18, 5>> /\ Spelling["missing"] = <<7, 13, 7>>
      BY SpellingRows, Zenon
    <3>2. QED
      BY <3>1
  <2>4. CodeKey(CodeAt(5)) = <<13, 18, 7>>
    BY <2>1, <2>2, <2>3 DEF CodeKey
  <2>5. QED
    BY <2>4, FingerprintRows, Zenon
<1>5. CodeKey(CodeAt(4)) = KeyAt(5)
  <2>1. CodeAt(4) = <<"policy", "rejected">> /\ CodeLength(CodeAt(4)) = 15
    BY CodesAre, CodeLengths, Zenon
  <2>2. Head(CodeAt(4)) = "policy" /\ Last(CodeAt(4)) = "rejected"
    BY <2>1 DEF Last
  <2>3. Spelling["policy"][2] = 16 /\ Spelling["rejected"][3] = 4
    <3>1. Spelling["policy"] = <<6, 16, 25>> /\ Spelling["rejected"] = <<8, 18, 4>>
      BY SpellingRows, Zenon
    <3>2. QED
      BY <3>1
  <2>4. CodeKey(CodeAt(4)) = <<15, 16, 4>>
    BY <2>1, <2>2, <2>3 DEF CodeKey
  <2>5. QED
    BY <2>4, FingerprintRows, Zenon
<1>6. CodeKey(CodeAt(9)) = KeyAt(6)
  <2>1. CodeAt(9) = <<"internal", "failure">> /\ CodeLength(CodeAt(9)) = 16
    BY CodesAre, CodeLengths, Zenon
  <2>2. Head(CodeAt(9)) = "internal" /\ Last(CodeAt(9)) = "failure"
    BY <2>1 DEF Last
  <2>3. Spelling["internal"][2] = 9 /\ Spelling["failure"][3] = 5
    <3>1. Spelling["internal"] = <<8, 9, 12>> /\ Spelling["failure"] = <<7, 6, 5>>
      BY SpellingRows, Zenon
    <3>2. QED
      BY <3>1
  <2>4. CodeKey(CodeAt(9)) = <<16, 9, 5>>
    BY <2>1, <2>2, <2>3 DEF CodeKey
  <2>5. QED
    BY <2>4, FingerprintRows, Zenon
<1>7. CodeKey(CodeAt(6)) = KeyAt(7)
  <2>1. CodeAt(6) = <<"upstream", "failure">> /\ CodeLength(CodeAt(6)) = 16
    BY CodesAre, CodeLengths, Zenon
  <2>2. Head(CodeAt(6)) = "upstream" /\ Last(CodeAt(6)) = "failure"
    BY <2>1 DEF Last
  <2>3. Spelling["upstream"][2] = 21 /\ Spelling["failure"][3] = 5
    <3>1. Spelling["upstream"] = <<8, 21, 13>> /\ Spelling["failure"] = <<7, 6, 5>>
      BY SpellingRows, Zenon
    <3>2. QED
      BY <3>1
  <2>4. CodeKey(CodeAt(6)) = <<16, 21, 5>>
    BY <2>1, <2>2, <2>3 DEF CodeKey
  <2>5. QED
    BY <2>4, FingerprintRows, Zenon
<1>8. CodeKey(CodeAt(3)) = KeyAt(8)
  <2>1. CodeAt(3) = <<"ambiguous", "framing">> /\ CodeLength(CodeAt(3)) = 17
    BY CodesAre, CodeLengths, Zenon
  <2>2. Head(CodeAt(3)) = "ambiguous" /\ Last(CodeAt(3)) = "framing"
    BY <2>1 DEF Last
  <2>3. Spelling["ambiguous"][2] = 1 /\ Spelling["framing"][3] = 7
    <3>1. Spelling["ambiguous"] = <<9, 1, 19>> /\ Spelling["framing"] = <<7, 6, 7>>
      BY SpellingRows, Zenon
    <3>2. QED
      BY <3>1
  <2>4. CodeKey(CodeAt(3)) = <<17, 1, 7>>
    BY <2>1, <2>2, <2>3 DEF CodeKey
  <2>5. QED
    BY <2>4, FingerprintRows, Zenon
<1>9. CodeKey(CodeAt(8)) = KeyAt(9)
  <2>1. CodeAt(8) = <<"implementation", "disagreement">> /\ CodeLength(CodeAt(8)) = 27
    BY CodesAre, CodeLengths, Zenon
  <2>2. Head(CodeAt(8)) = "implementation" /\ Last(CodeAt(8)) = "disagreement"
    BY <2>1 DEF Last
  <2>3. Spelling["implementation"][2] = 9 /\ Spelling["disagreement"][3] = 20
    <3>1. Spelling["implementation"] = <<14, 9, 14>> /\ Spelling["disagreement"] = <<12, 4, 20>>
      BY SpellingRows, Zenon
    <3>2. QED
      BY <3>1
  <2>4. CodeKey(CodeAt(8)) = <<27, 9, 20>>
    BY <2>1, <2>2, <2>3 DEF CodeKey
  <2>5. QED
    BY <2>4, FingerprintRows, Zenon
<1>10. QED
  BY <1>1, <1>2, <1>3, <1>4, <1>5, <1>6, <1>7, <1>8, <1>9, Zenon

LEMMA KeysSorted ==
    ASSUME NEW j \in 1 .. 9, NEW k \in 1 .. 9, j < k
    PROVE  KeyBelow(KeyAt(j), KeyAt(k)) /\ KeyAt(j) # KeyAt(k)
<1> DEFINE one(p) == KeyAt(p)[1]
           two(p) == KeyAt(p)[2]
<1>1. /\ one(1) = 7 /\ two(1) = 20
      /\ one(2) = 8 /\ two(2) = 1
      /\ one(3) = 13 /\ two(3) = 3
      /\ one(4) = 13 /\ two(4) = 18
      /\ one(5) = 15 /\ two(5) = 16
      /\ one(6) = 16 /\ two(6) = 9
      /\ one(7) = 16 /\ two(7) = 21
      /\ one(8) = 17 /\ two(8) = 1
      /\ one(9) = 27 /\ two(9) = 9
  BY FingerprintRows
<1> HIDE DEF one, two
<1>2. one(j) < one(k) \/ (one(j) = one(k) /\ two(j) < two(k))
  <2>1. j = 1 \/ j = 2 \/ j = 3 \/ j = 4 \/ j = 5 \/ j = 6 \/ j = 7 \/ j = 8
    OBVIOUS
  <2>2. k = 2 \/ k = 3 \/ k = 4 \/ k = 5 \/ k = 6 \/ k = 7 \/ k = 8 \/ k = 9
    OBVIOUS
  <2>3. QED
    BY <1>1, <2>1, <2>2
<1>3. one(j) # one(k) \/ two(j) # two(k)
  <2>1. one(j) \in Nat /\ two(j) \in Nat /\ one(k) \in Nat /\ two(k) \in Nat
    <3>1. \A p \in 1 .. 9 : p = 1 \/ p = 2 \/ p = 3 \/ p = 4 \/ p = 5 \/ p = 6 \/ p = 7 \/ p = 8 \/ p = 9
      OBVIOUS
    <3>2. QED
      BY <1>1, <3>1
  <2>2. QED
    BY <1>2, <2>1
<1>4. CASE one(j) < one(k)
  <2>1. 1 \in 1 .. 3 /\ \A m \in 1 .. 1 - 1 : FALSE
    OBVIOUS
  <2>2. QED
    BY <1>3, <1>4, <2>1 DEF KeyBelow, one, two
<1>5. CASE one(j) = one(k) /\ two(j) < two(k)
  <2>1. 2 \in 1 .. 3 /\ \A m \in 1 .. 2 - 1 : m = 1
    OBVIOUS
  <2>2. QED
    BY <1>3, <1>5, <2>1 DEF KeyBelow, one, two
<1>6. QED
  BY <1>2, <1>4, <1>5

LEMMA Located ==
    ASSUME NEW code, NEW p \in 1 .. 9, NEW i \in 1 .. 9, RowAt(p) = RULES[i], code = CodeAt(i),
           CodeKey(code) = KeyAt(p)
    PROVE  Locate(code) = {p}
<1>1. p \in Locate(code)
  <2>1. \A j \in 1 .. p - 1 : KeyBelow(KeyAt(j), CodeKey(code))
    BY KeysSorted
  <2>2. \A j \in p + 1 .. 9 : KeyBelow(CodeKey(code), KeyAt(j))
    BY KeysSorted
  <2>3. FINGERPRINTS[p].key = CodeKey(code) /\ FINGERPRINTS[p].row.code = code
    BY DEF KeyAt, RowAt, CodeAt
  <2>4. DOMAIN FINGERPRINTS = 1 .. 9 /\ Len(FINGERPRINTS) = 9
    BY FingerprintRows
  <2>5. QED
    BY <2>1, <2>2, <2>3, <2>4 DEF Locate, KeyAt
<1>2. ASSUME NEW q \in Locate(code)
      PROVE  q = p
  <2>1. q \in 1 .. 9 /\ KeyAt(q) = KeyAt(p)
    BY FingerprintRows DEF Locate, KeyAt
  <2>2. ~(q < p) /\ ~(p < q)
    BY <2>1, KeysSorted
  <2>3. QED
    BY <2>1, <2>2
<1>3. QED
  BY <1>1, <1>2

LEMMA FingerprintIndexClassifies ==
    ASSUME NEW code, NEW reached
    PROVE  FingerprintIndexOutcome(code, reached) = Classified(code, reached)
<1> DEFINE next == FingerprintIndexOutcome(code, reached)
           at == Locate(code)
<1>1. next = IF code = <<>> \/ CodeLength(code) > MAX_CODE_BYTES \/ at = {} THEN Unknown
             ELSE Emit(RowAt(Min(at)).category, RowAt(Min(at)).either, reached)
  BY Zenon DEF FingerprintIndexOutcome, RowAt
<1> SUFFICES next = Classified(code, reached)
  OBVIOUS
<1> HIDE DEF next, at
<1>2. ASSUME NEW i \in 1 .. 9, NEW p \in 1 .. 9, code = CodeAt(i), RowAt(p) = RULES[i], CodeKey(code) = KeyAt(p)
      PROVE  next = Classified(code, reached)
  <2>1. at = {p}
    BY <1>2, Located DEF at
  <2>2. Min(at) = p
    BY <2>1 DEF Min
  <2>3. i = 1 \/ i = 2 \/ i = 3 \/ i = 4 \/ i = 5 \/ i = 6 \/ i = 7 \/ i = 8 \/ i = 9
    OBVIOUS
  <2>4. ~(CodeLength(code) > MAX_CODE_BYTES)
    BY <1>2, <2>3, CodeLengths
  <2>5. code # <<>>
    <3>1. Len(CodeAt(i)) # 0
      BY <2>3, CodesAre
    <3>2. QED
      BY <1>2, <3>1
  <2>6. next = Emit(RULES[i].category, RULES[i].either, reached)
    BY <1>1, <1>2, <2>1, <2>2, <2>4, <2>5
  <2>7. QED
    BY <1>2, <2>6, ClassifiedKnown
<1>3. ASSUME NEW i \in 1 .. 9, code = CodeAt(i)
      PROVE  \E p \in 1 .. 9 : RowAt(p) = RULES[i] /\ CodeKey(code) = KeyAt(p)
  <2>1. i = 1 \/ i = 2 \/ i = 3 \/ i = 4 \/ i = 5 \/ i = 6 \/ i = 7 \/ i = 8 \/ i = 9
    OBVIOUS
  <2>2. QED
    BY <1>3, <2>1, FingerprintRows, CodeKeys
<1>4. ASSUME \A i \in 1 .. 9 : code # CodeAt(i)
      PROVE  next = Classified(code, reached)
  <2>1. ASSUME NEW p \in at
        PROVE  FALSE
    <3>1. p \in 1 .. 9 /\ RowAt(p).code = code
      BY FingerprintRows DEF Locate, RowAt, at
    <3>2. \E i \in 1 .. 9 : RowAt(p) = RULES[i]
      <4>1. p = 1 \/ p = 2 \/ p = 3 \/ p = 4 \/ p = 5 \/ p = 6 \/ p = 7 \/ p = 8 \/ p = 9
        BY <3>1
      <4>2. QED
        BY <4>1, FingerprintRows
    <3>3. QED
      BY <1>4, <3>1, <3>2 DEF CodeAt
  <2>2. next = Unknown
    BY <1>1, <2>1
  <2>3. QED
    BY <1>4, <2>2, ClassifiedOther
<1>5. QED
  BY <1>2, <1>3, <1>4

LEMMA ComposedRows ==
    /\ DOMAIN Composed = {"accepted", "client", "ambiguous", "policy", "route", "upstream", "timeout", "implementation", "internal"}
    /\ DOMAIN Composed["accepted"] = {"none"} 
       /\ Composed["accepted"]["none"][1] = "Accepted" /\ Composed["accepted"]["none"][2] = TRUE
    /\ DOMAIN Composed["client"] = {"syntax"} 
       /\ Composed["client"]["syntax"][1] = "ClientSyntax" /\ Composed["client"]["syntax"][2] = FALSE
    /\ DOMAIN Composed["ambiguous"] = {"framing"} 
       /\ Composed["ambiguous"]["framing"][1] = "AmbiguousFraming" /\ Composed["ambiguous"]["framing"][2] = FALSE
    /\ DOMAIN Composed["policy"] = {"rejected"} 
       /\ Composed["policy"]["rejected"][1] = "PolicyRejected" /\ Composed["policy"]["rejected"][2] = FALSE
    /\ DOMAIN Composed["route"] = {"missing"} 
       /\ Composed["route"]["missing"][1] = "RouteMissing" /\ Composed["route"]["missing"][2] = FALSE
    /\ DOMAIN Composed["upstream"] = {"failure"} 
       /\ Composed["upstream"]["failure"][1] = "UpstreamFailure" /\ Composed["upstream"]["failure"][2] = TRUE
    /\ DOMAIN Composed["timeout"] = {"none"} 
       /\ Composed["timeout"]["none"][1] = "Timeout" /\ Composed["timeout"]["none"][2] = TRUE
    /\ DOMAIN Composed["implementation"] = {"disagreement"} 
       /\ Composed["implementation"]["disagreement"][1] = "ImplementationDisagreement" /\ Composed["implementation"]["disagreement"][2] = FALSE
    /\ DOMAIN Composed["internal"] = {"failure"} 
       /\ Composed["internal"]["failure"][1] = "InternalFailure" /\ Composed["internal"]["failure"][2] = TRUE
<1>1. DOMAIN Composed = {"accepted", "client", "ambiguous", "policy", "route", "upstream", "timeout", "implementation", "internal"}
  BY DEF Composed
<1>2. /\ Composed["accepted"] = [none |-> <<"Accepted", TRUE>>]
      /\ Composed["client"] = [syntax |-> <<"ClientSyntax", FALSE>>]
      /\ Composed["ambiguous"] = [framing |-> <<"AmbiguousFraming", FALSE>>]
      /\ Composed["policy"] = [rejected |-> <<"PolicyRejected", FALSE>>]
      /\ Composed["route"] = [missing |-> <<"RouteMissing", FALSE>>]
      /\ Composed["upstream"] = [failure |-> <<"UpstreamFailure", TRUE>>]
      /\ Composed["timeout"] = [none |-> <<"Timeout", TRUE>>]
      /\ Composed["implementation"] = [disagreement |-> <<"ImplementationDisagreement", FALSE>>]
      /\ Composed["internal"] = [failure |-> <<"InternalFailure", TRUE>>]
  BY DEF Composed
<1>3. /\ DOMAIN Composed["accepted"] = {"none"}
      /\ Composed["accepted"]["none"][1] = "Accepted" /\ Composed["accepted"]["none"][2] = TRUE
  <2> DEFINE pair == <<"Accepted", TRUE>>
             row == Composed["accepted"]
  <2>1. row = [none |-> pair]
    BY <1>2, Zenon
  <2>2. pair[1] = "Accepted" /\ pair[2] = TRUE
    OBVIOUS
  <2> HIDE DEF pair, row
  <2>3. DOMAIN row = {"none"} /\ row["none"] = pair
    BY <2>1
  <2>4. QED
    BY <2>2, <2>3, Zenon DEF row
<1>4. /\ DOMAIN Composed["client"] = {"syntax"}
      /\ Composed["client"]["syntax"][1] = "ClientSyntax" /\ Composed["client"]["syntax"][2] = FALSE
  <2> DEFINE pair == <<"ClientSyntax", FALSE>>
             row == Composed["client"]
  <2>1. row = [syntax |-> pair]
    BY <1>2, Zenon
  <2>2. pair[1] = "ClientSyntax" /\ pair[2] = FALSE
    OBVIOUS
  <2> HIDE DEF pair, row
  <2>3. DOMAIN row = {"syntax"} /\ row["syntax"] = pair
    BY <2>1
  <2>4. QED
    BY <2>2, <2>3, Zenon DEF row
<1>5. /\ DOMAIN Composed["ambiguous"] = {"framing"}
      /\ Composed["ambiguous"]["framing"][1] = "AmbiguousFraming" /\ Composed["ambiguous"]["framing"][2] = FALSE
  <2> DEFINE pair == <<"AmbiguousFraming", FALSE>>
             row == Composed["ambiguous"]
  <2>1. row = [framing |-> pair]
    BY <1>2, Zenon
  <2>2. pair[1] = "AmbiguousFraming" /\ pair[2] = FALSE
    OBVIOUS
  <2> HIDE DEF pair, row
  <2>3. DOMAIN row = {"framing"} /\ row["framing"] = pair
    BY <2>1
  <2>4. QED
    BY <2>2, <2>3, Zenon DEF row
<1>6. /\ DOMAIN Composed["policy"] = {"rejected"}
      /\ Composed["policy"]["rejected"][1] = "PolicyRejected" /\ Composed["policy"]["rejected"][2] = FALSE
  <2> DEFINE pair == <<"PolicyRejected", FALSE>>
             row == Composed["policy"]
  <2>1. row = [rejected |-> pair]
    BY <1>2, Zenon
  <2>2. pair[1] = "PolicyRejected" /\ pair[2] = FALSE
    OBVIOUS
  <2> HIDE DEF pair, row
  <2>3. DOMAIN row = {"rejected"} /\ row["rejected"] = pair
    BY <2>1
  <2>4. QED
    BY <2>2, <2>3, Zenon DEF row
<1>7. /\ DOMAIN Composed["route"] = {"missing"}
      /\ Composed["route"]["missing"][1] = "RouteMissing" /\ Composed["route"]["missing"][2] = FALSE
  <2> DEFINE pair == <<"RouteMissing", FALSE>>
             row == Composed["route"]
  <2>1. row = [missing |-> pair]
    BY <1>2, Zenon
  <2>2. pair[1] = "RouteMissing" /\ pair[2] = FALSE
    OBVIOUS
  <2> HIDE DEF pair, row
  <2>3. DOMAIN row = {"missing"} /\ row["missing"] = pair
    BY <2>1
  <2>4. QED
    BY <2>2, <2>3, Zenon DEF row
<1>8. /\ DOMAIN Composed["upstream"] = {"failure"}
      /\ Composed["upstream"]["failure"][1] = "UpstreamFailure" /\ Composed["upstream"]["failure"][2] = TRUE
  <2> DEFINE pair == <<"UpstreamFailure", TRUE>>
             row == Composed["upstream"]
  <2>1. row = [failure |-> pair]
    BY <1>2, Zenon
  <2>2. pair[1] = "UpstreamFailure" /\ pair[2] = TRUE
    OBVIOUS
  <2> HIDE DEF pair, row
  <2>3. DOMAIN row = {"failure"} /\ row["failure"] = pair
    BY <2>1
  <2>4. QED
    BY <2>2, <2>3, Zenon DEF row
<1>9. /\ DOMAIN Composed["timeout"] = {"none"}
      /\ Composed["timeout"]["none"][1] = "Timeout" /\ Composed["timeout"]["none"][2] = TRUE
  <2> DEFINE pair == <<"Timeout", TRUE>>
             row == Composed["timeout"]
  <2>1. row = [none |-> pair]
    BY <1>2, Zenon
  <2>2. pair[1] = "Timeout" /\ pair[2] = TRUE
    OBVIOUS
  <2> HIDE DEF pair, row
  <2>3. DOMAIN row = {"none"} /\ row["none"] = pair
    BY <2>1
  <2>4. QED
    BY <2>2, <2>3, Zenon DEF row
<1>10. /\ DOMAIN Composed["implementation"] = {"disagreement"}
      /\ Composed["implementation"]["disagreement"][1] = "ImplementationDisagreement" /\ Composed["implementation"]["disagreement"][2] = FALSE
  <2> DEFINE pair == <<"ImplementationDisagreement", FALSE>>
             row == Composed["implementation"]
  <2>1. row = [disagreement |-> pair]
    BY <1>2, Zenon
  <2>2. pair[1] = "ImplementationDisagreement" /\ pair[2] = FALSE
    OBVIOUS
  <2> HIDE DEF pair, row
  <2>3. DOMAIN row = {"disagreement"} /\ row["disagreement"] = pair
    BY <2>1
  <2>4. QED
    BY <2>2, <2>3, Zenon DEF row
<1>11. /\ DOMAIN Composed["internal"] = {"failure"}
      /\ Composed["internal"]["failure"][1] = "InternalFailure" /\ Composed["internal"]["failure"][2] = TRUE
  <2> DEFINE pair == <<"InternalFailure", TRUE>>
             row == Composed["internal"]
  <2>1. row = [failure |-> pair]
    BY <1>2, Zenon
  <2>2. pair[1] = "InternalFailure" /\ pair[2] = TRUE
    OBVIOUS
  <2> HIDE DEF pair, row
  <2>3. DOMAIN row = {"failure"} /\ row["failure"] = pair
    BY <2>1
  <2>4. QED
    BY <2>2, <2>3, Zenon DEF row
<1>12. QED
  BY <1>1, <1>3, <1>4, <1>5, <1>6, <1>7, <1>8, <1>9, <1>10, <1>11, Zenon

\* The word a code is completed with, as word_composition takes it.
SecondOf(code) == IF Len(code) = 1 THEN "none" ELSE code[2]

LEMMA ComposedCodes ==
    ASSUME NEW i \in 1 .. 9
    PROVE  LET code == CodeAt(i)
               composed == Composed[code[1]][SecondOf(code)]
           IN  /\ code # <<>> /\ Len(code) <= 2 /\ ToSet(code) \subseteq Vocabulary
               /\ code[1] \in DOMAIN Composed /\ SecondOf(code) \in DOMAIN Composed[code[1]]
               /\ composed[1] = RULES[i].category /\ composed[2] = RULES[i].either
<1>0. 1 <= 2 /\ 2 <= 2
  OBVIOUS
<1>1. CASE i = 1
  <2> DEFINE code == CodeAt(1)
  <2>1. code = <<"accepted">>
    BY CodesAre
  <2>2. Len(code) = 1 /\ code[1] = "accepted" /\ code # <<>> /\ SecondOf(code) = "none"
    BY <2>1 DEF SecondOf
  <2>3. ToSet(code) = {"accepted"}
    BY <2>1 DEF ToSet
  <2>4. {"accepted"} \subseteq Vocabulary
    BY WordFacts DEF Vocabulary, Words
  <2>5. /\ RULES[1].category = "Accepted" /\ RULES[1].either = TRUE
        /\ "accepted" \in DOMAIN Composed /\ "none" \in DOMAIN Composed["accepted"]
        /\ Composed["accepted"]["none"][1] = "Accepted" /\ Composed["accepted"]["none"][2] = TRUE
    BY RuleCategories, ComposedRows
  <2> HIDE DEF code
  <2>6. QED
    BY <1>1, <1>0, <2>2, <2>3, <2>4, <2>5, Zenon DEF code
<1>2. CASE i = 2
  <2> DEFINE code == CodeAt(2)
  <2>1. code = <<"client", "syntax">>
    BY CodesAre
  <2>2. Len(code) = 2 /\ code[1] = "client" /\ code # <<>> /\ SecondOf(code) = "syntax"
    BY <2>1 DEF SecondOf
  <2>3. ToSet(code) = {"client", "syntax"}
    BY <2>1 DEF ToSet
  <2>4. {"client", "syntax"} \subseteq Vocabulary
    BY WordFacts DEF Vocabulary, Words
  <2>5. /\ RULES[2].category = "ClientSyntax" /\ RULES[2].either = FALSE
        /\ "client" \in DOMAIN Composed /\ "syntax" \in DOMAIN Composed["client"]
        /\ Composed["client"]["syntax"][1] = "ClientSyntax" /\ Composed["client"]["syntax"][2] = FALSE
    BY RuleCategories, ComposedRows
  <2> HIDE DEF code
  <2>6. QED
    BY <1>2, <1>0, <2>2, <2>3, <2>4, <2>5, Zenon DEF code
<1>3. CASE i = 3
  <2> DEFINE code == CodeAt(3)
  <2>1. code = <<"ambiguous", "framing">>
    BY CodesAre
  <2>2. Len(code) = 2 /\ code[1] = "ambiguous" /\ code # <<>> /\ SecondOf(code) = "framing"
    BY <2>1 DEF SecondOf
  <2>3. ToSet(code) = {"ambiguous", "framing"}
    BY <2>1 DEF ToSet
  <2>4. {"ambiguous", "framing"} \subseteq Vocabulary
    BY WordFacts DEF Vocabulary, Words
  <2>5. /\ RULES[3].category = "AmbiguousFraming" /\ RULES[3].either = FALSE
        /\ "ambiguous" \in DOMAIN Composed /\ "framing" \in DOMAIN Composed["ambiguous"]
        /\ Composed["ambiguous"]["framing"][1] = "AmbiguousFraming" /\ Composed["ambiguous"]["framing"][2] = FALSE
    BY RuleCategories, ComposedRows
  <2> HIDE DEF code
  <2>6. QED
    BY <1>3, <1>0, <2>2, <2>3, <2>4, <2>5, Zenon DEF code
<1>4. CASE i = 4
  <2> DEFINE code == CodeAt(4)
  <2>1. code = <<"policy", "rejected">>
    BY CodesAre
  <2>2. Len(code) = 2 /\ code[1] = "policy" /\ code # <<>> /\ SecondOf(code) = "rejected"
    BY <2>1 DEF SecondOf
  <2>3. ToSet(code) = {"policy", "rejected"}
    BY <2>1 DEF ToSet
  <2>4. {"policy", "rejected"} \subseteq Vocabulary
    BY WordFacts DEF Vocabulary, Words
  <2>5. /\ RULES[4].category = "PolicyRejected" /\ RULES[4].either = FALSE
        /\ "policy" \in DOMAIN Composed /\ "rejected" \in DOMAIN Composed["policy"]
        /\ Composed["policy"]["rejected"][1] = "PolicyRejected" /\ Composed["policy"]["rejected"][2] = FALSE
    BY RuleCategories, ComposedRows
  <2> HIDE DEF code
  <2>6. QED
    BY <1>4, <1>0, <2>2, <2>3, <2>4, <2>5, Zenon DEF code
<1>5. CASE i = 5
  <2> DEFINE code == CodeAt(5)
  <2>1. code = <<"route", "missing">>
    BY CodesAre
  <2>2. Len(code) = 2 /\ code[1] = "route" /\ code # <<>> /\ SecondOf(code) = "missing"
    BY <2>1 DEF SecondOf
  <2>3. ToSet(code) = {"route", "missing"}
    BY <2>1 DEF ToSet
  <2>4. {"route", "missing"} \subseteq Vocabulary
    BY WordFacts DEF Vocabulary, Words
  <2>5. /\ RULES[5].category = "RouteMissing" /\ RULES[5].either = FALSE
        /\ "route" \in DOMAIN Composed /\ "missing" \in DOMAIN Composed["route"]
        /\ Composed["route"]["missing"][1] = "RouteMissing" /\ Composed["route"]["missing"][2] = FALSE
    BY RuleCategories, ComposedRows
  <2> HIDE DEF code
  <2>6. QED
    BY <1>5, <1>0, <2>2, <2>3, <2>4, <2>5, Zenon DEF code
<1>6. CASE i = 6
  <2> DEFINE code == CodeAt(6)
  <2>1. code = <<"upstream", "failure">>
    BY CodesAre
  <2>2. Len(code) = 2 /\ code[1] = "upstream" /\ code # <<>> /\ SecondOf(code) = "failure"
    BY <2>1 DEF SecondOf
  <2>3. ToSet(code) = {"upstream", "failure"}
    BY <2>1 DEF ToSet
  <2>4. {"upstream", "failure"} \subseteq Vocabulary
    BY WordFacts DEF Vocabulary, Words
  <2>5. /\ RULES[6].category = "UpstreamFailure" /\ RULES[6].either = TRUE
        /\ "upstream" \in DOMAIN Composed /\ "failure" \in DOMAIN Composed["upstream"]
        /\ Composed["upstream"]["failure"][1] = "UpstreamFailure" /\ Composed["upstream"]["failure"][2] = TRUE
    BY RuleCategories, ComposedRows
  <2> HIDE DEF code
  <2>6. QED
    BY <1>6, <1>0, <2>2, <2>3, <2>4, <2>5, Zenon DEF code
<1>7. CASE i = 7
  <2> DEFINE code == CodeAt(7)
  <2>1. code = <<"timeout">>
    BY CodesAre
  <2>2. Len(code) = 1 /\ code[1] = "timeout" /\ code # <<>> /\ SecondOf(code) = "none"
    BY <2>1 DEF SecondOf
  <2>3. ToSet(code) = {"timeout"}
    BY <2>1 DEF ToSet
  <2>4. {"timeout"} \subseteq Vocabulary
    BY WordFacts DEF Vocabulary, Words
  <2>5. /\ RULES[7].category = "Timeout" /\ RULES[7].either = TRUE
        /\ "timeout" \in DOMAIN Composed /\ "none" \in DOMAIN Composed["timeout"]
        /\ Composed["timeout"]["none"][1] = "Timeout" /\ Composed["timeout"]["none"][2] = TRUE
    BY RuleCategories, ComposedRows
  <2> HIDE DEF code
  <2>6. QED
    BY <1>7, <1>0, <2>2, <2>3, <2>4, <2>5, Zenon DEF code
<1>8. CASE i = 8
  <2> DEFINE code == CodeAt(8)
  <2>1. code = <<"implementation", "disagreement">>
    BY CodesAre
  <2>2. Len(code) = 2 /\ code[1] = "implementation" /\ code # <<>> /\ SecondOf(code) = "disagreement"
    BY <2>1 DEF SecondOf
  <2>3. ToSet(code) = {"implementation", "disagreement"}
    BY <2>1 DEF ToSet
  <2>4. {"implementation", "disagreement"} \subseteq Vocabulary
    BY WordFacts DEF Vocabulary, Words
  <2>5. /\ RULES[8].category = "ImplementationDisagreement" /\ RULES[8].either = FALSE
        /\ "implementation" \in DOMAIN Composed /\ "disagreement" \in DOMAIN Composed["implementation"]
        /\ Composed["implementation"]["disagreement"][1] = "ImplementationDisagreement" /\ Composed["implementation"]["disagreement"][2] = FALSE
    BY RuleCategories, ComposedRows
  <2> HIDE DEF code
  <2>6. QED
    BY <1>8, <1>0, <2>2, <2>3, <2>4, <2>5, Zenon DEF code
<1>9. CASE i = 9
  <2> DEFINE code == CodeAt(9)
  <2>1. code = <<"internal", "failure">>
    BY CodesAre
  <2>2. Len(code) = 2 /\ code[1] = "internal" /\ code # <<>> /\ SecondOf(code) = "failure"
    BY <2>1 DEF SecondOf
  <2>3. ToSet(code) = {"internal", "failure"}
    BY <2>1 DEF ToSet
  <2>4. {"internal", "failure"} \subseteq Vocabulary
    BY WordFacts DEF Vocabulary, Words
  <2>5. /\ RULES[9].category = "InternalFailure" /\ RULES[9].either = TRUE
        /\ "internal" \in DOMAIN Composed /\ "failure" \in DOMAIN Composed["internal"]
        /\ Composed["internal"]["failure"][1] = "InternalFailure" /\ Composed["internal"]["failure"][2] = TRUE
    BY RuleCategories, ComposedRows
  <2> HIDE DEF code
  <2>6. QED
    BY <1>9, <1>0, <2>2, <2>3, <2>4, <2>5, Zenon DEF code
<1>10. QED
  <2>1. i = 1 \/ i = 2 \/ i = 3 \/ i = 4 \/ i = 5 \/ i = 6 \/ i = 7 \/ i = 8 \/ i = 9
    OBVIOUS
  <2>2. QED
    BY <1>1, <1>2, <1>3, <1>4, <1>5, <1>6, <1>7, <1>8, <1>9, <2>1

LEMMA OnlyComposed ==
    ASSUME NEW code \in Seq(Words), code # <<>>, Len(code) <= 2, ToSet(code) \subseteq Vocabulary,
           code[1] \in DOMAIN Composed, SecondOf(code) \in DOMAIN Composed[code[1]]
    PROVE  \E i \in 1 .. 9 : code = CodeAt(i)
<1>1. Len(code) = 1 \/ Len(code) = 2
  <2>1. Len(code) \in Nat /\ Len(code) # 0
    OBVIOUS
  <2>2. \A n \in Nat : n # 0 /\ n <= 2 => n = 1 \/ n = 2
    OBVIOUS
  <2>3. QED
    BY <2>1, <2>2, Zenon
<1>2. Len(code) = 1 => code = <<code[1]>>
  OBVIOUS
<1>3. Len(code) = 2 => code = <<code[1], code[2]>>
  OBVIOUS
<1>4. Len(code) = 2 => code[2] # "none"
  <2>1. "none" \notin Vocabulary
    BY WordFacts DEF Vocabulary, Words
  <2>2. Len(code) = 2 => code[2] \in ToSet(code)
    BY DEF ToSet
  <2>3. QED
    BY <2>1, <2>2
<1>5. SecondOf(code) = "none" => Len(code) = 1
  BY <1>1, <1>4 DEF SecondOf
<1>6. SecondOf(code) # "none" => Len(code) = 2 /\ SecondOf(code) = code[2]
  BY <1>1 DEF SecondOf
<1>7. CASE code[1] = "accepted"
  <2>1. SecondOf(code) = "none"
    BY <1>7, ComposedRows
  <2>2. code = <<"accepted">>
    BY <1>2, <1>3, <1>5, <1>6, <1>7, <2>1
  <2>3. code = CodeAt(1) /\ 1 \in 1 .. 9
    BY <2>2, CodesAre
  <2>4. QED
    BY <2>3
<1>8. CASE code[1] = "client"
  <2>1. SecondOf(code) = "syntax"
    BY <1>8, ComposedRows
  <2>2. code = <<"client", "syntax">>
    BY <1>2, <1>3, <1>5, <1>6, <1>8, <2>1
  <2>3. code = CodeAt(2) /\ 2 \in 1 .. 9
    BY <2>2, CodesAre
  <2>4. QED
    BY <2>3
<1>9. CASE code[1] = "ambiguous"
  <2>1. SecondOf(code) = "framing"
    BY <1>9, ComposedRows
  <2>2. code = <<"ambiguous", "framing">>
    BY <1>2, <1>3, <1>5, <1>6, <1>9, <2>1
  <2>3. code = CodeAt(3) /\ 3 \in 1 .. 9
    BY <2>2, CodesAre
  <2>4. QED
    BY <2>3
<1>10. CASE code[1] = "policy"
  <2>1. SecondOf(code) = "rejected"
    BY <1>10, ComposedRows
  <2>2. code = <<"policy", "rejected">>
    BY <1>2, <1>3, <1>5, <1>6, <1>10, <2>1
  <2>3. code = CodeAt(4) /\ 4 \in 1 .. 9
    BY <2>2, CodesAre
  <2>4. QED
    BY <2>3
<1>11. CASE code[1] = "route"
  <2>1. SecondOf(code) = "missing"
    BY <1>11, ComposedRows
  <2>2. code = <<"route", "missing">>
    BY <1>2, <1>3, <1>5, <1>6, <1>11, <2>1
  <2>3. code = CodeAt(5) /\ 5 \in 1 .. 9
    BY <2>2, CodesAre
  <2>4. QED
    BY <2>3
<1>12. CASE code[1] = "upstream"
  <2>1. SecondOf(code) = "failure"
    BY <1>12, ComposedRows
  <2>2. code = <<"upstream", "failure">>
    BY <1>2, <1>3, <1>5, <1>6, <1>12, <2>1
  <2>3. code = CodeAt(6) /\ 6 \in 1 .. 9
    BY <2>2, CodesAre
  <2>4. QED
    BY <2>3
<1>13. CASE code[1] = "timeout"
  <2>1. SecondOf(code) = "none"
    BY <1>13, ComposedRows
  <2>2. code = <<"timeout">>
    BY <1>2, <1>3, <1>5, <1>6, <1>13, <2>1
  <2>3. code = CodeAt(7) /\ 7 \in 1 .. 9
    BY <2>2, CodesAre
  <2>4. QED
    BY <2>3
<1>14. CASE code[1] = "implementation"
  <2>1. SecondOf(code) = "disagreement"
    BY <1>14, ComposedRows
  <2>2. code = <<"implementation", "disagreement">>
    BY <1>2, <1>3, <1>5, <1>6, <1>14, <2>1
  <2>3. code = CodeAt(8) /\ 8 \in 1 .. 9
    BY <2>2, CodesAre
  <2>4. QED
    BY <2>3
<1>15. CASE code[1] = "internal"
  <2>1. SecondOf(code) = "failure"
    BY <1>15, ComposedRows
  <2>2. code = <<"internal", "failure">>
    BY <1>2, <1>3, <1>5, <1>6, <1>15, <2>1
  <2>3. code = CodeAt(9) /\ 9 \in 1 .. 9
    BY <2>2, CodesAre
  <2>4. QED
    BY <2>3
<1>16. QED
  BY <1>7, <1>8, <1>9, <1>10, <1>11, <1>12, <1>13, <1>14, <1>15, ComposedRows

LEMMA WordCompositionClassifies ==
    ASSUME NEW code \in Seq(Words), NEW reached
    PROVE  WordCompositionOutcome(code, reached) = Classified(code, reached)
<1> DEFINE next == WordCompositionOutcome(code, reached)
           composed == Composed[code[1]][SecondOf(code)]
           refused == \/ code = <<>> \/ CodeLength(code) > MAX_CODE_BYTES
                      \/ Len(code) > 2 \/ ~(ToSet(code) \subseteq Vocabulary)
                      \/ code[1] \notin DOMAIN Composed \/ SecondOf(code) \notin DOMAIN Composed[code[1]]
<1>1. next = IF refused THEN Unknown ELSE Emit(composed[1], composed[2], reached)
  BY Zenon DEF WordCompositionOutcome, SecondOf
<1> SUFFICES next = Classified(code, reached)
  OBVIOUS
<1> HIDE DEF next
<1>2. ASSUME NEW i \in 1 .. 9, code = CodeAt(i)
      PROVE  next = Classified(code, reached)
  <2>1. /\ code # <<>> /\ Len(code) <= 2 /\ ToSet(code) \subseteq Vocabulary
        /\ code[1] \in DOMAIN Composed /\ SecondOf(code) \in DOMAIN Composed[code[1]]
        /\ composed[1] = RULES[i].category /\ composed[2] = RULES[i].either
    BY <1>2, ComposedCodes
  <2>2. ~(CodeLength(code) > MAX_CODE_BYTES)
    <3>1. i = 1 \/ i = 2 \/ i = 3 \/ i = 4 \/ i = 5 \/ i = 6 \/ i = 7 \/ i = 8 \/ i = 9
      OBVIOUS
    <3>2. QED
      BY <1>2, <3>1, CodeLengths
  <2>3. ~(Len(code) > 2)
    BY <2>1
  <2>4. ~refused
    BY <2>1, <2>2, <2>3
  <2> HIDE DEF refused, composed
  <2>5. next = Emit(RULES[i].category, RULES[i].either, reached)
    BY <1>1, <2>1, <2>4
  <2>6. QED
    BY <1>2, <2>5, ClassifiedKnown
<1>3. ASSUME \A i \in 1 .. 9 : code # CodeAt(i)
      PROVE  next = Classified(code, reached)
  <2>1. refused
    <3>1. ~(Len(code) > 2) => Len(code) <= 2
      OBVIOUS
    <3>2. QED
      BY <1>3, <3>1, OnlyComposed
  <2> HIDE DEF refused
  <2>2. next = Unknown
    BY <1>1, <2>1
  <2>3. QED
    BY <1>3, <2>2, ClassifiedOther
<1>4. QED
  BY <1>2, <1>3

\* The five variants of classify_telemetry_outcome classify every code made of
\* the words of the vocabulary and of their look-alikes the same way: by a
\* table, two matches, the length, a fingerprint searched by bisection, or the
\* words one by one.
THEOREM TelemetryVariants ==
    ASSUME NEW code \in Seq(DOMAIN Spelling), NEW reached
    PROVE  Range(TelemetryOutcomes(code, reached)) = {Classified(code, reached)}
<1> DEFINE rule == Classified(code, reached)
           all == TelemetryOutcomes(code, reached)
<1>1. /\ RuleTableOutcome(code, reached) = rule /\ SymbolPhasesOutcome(code, reached) = rule
      /\ LengthDispatchOutcome(code, reached) = rule /\ FingerprintIndexOutcome(code, reached) = rule
      /\ WordCompositionOutcome(code, reached) = rule
  BY RuleTableClassifies, SymbolPhasesClassifies, LengthDispatchClassifies, FingerprintIndexClassifies,
     WordCompositionClassifies DEF Words
<1> HIDE DEF rule
<1>2. all = [rule_table |-> rule, symbol_phases |-> rule, length_dispatch |-> rule, fingerprint_index |-> rule,
             word_composition |-> rule]
  BY <1>1 DEF TelemetryOutcomes
<1> HIDE DEF all
<1>3. Range(all) = {rule}
  BY <1>2 DEF Range
<1>4. QED
  BY <1>3 DEF rule, all

-----------------------------------------------------------------------------
\* The tables the specification builds.

TablesBuilt ==
    /\ function = "none" => input = <<>>
    /\ function = "match_route" => input \in Seq(Rules)
    /\ function = "select_route" => RouteTable(input)
    /\ function = "apply_forwarding_policy" => input \in Seq(ForwardingFields)
    /\ function = "determine_body_framing" => input \in Seq(HeaderFields)
    /\ function = "classify_telemetry_outcome" => input \in Seq(DOMAIN Spelling)

\* Every table given to match_route is made of rules, every one given to the
\* selections numbers its routes in the order they were pushed, every block given
\* to apply_forwarding_policy and determine_body_framing is made of fields, and
\* every code given to classify_telemetry_outcome of words.
LEMMA TablesAreBuilt == Spec => []TablesBuilt
<1>1. Init => TablesBuilt
  BY DEF Init, TablesBuilt
<1>2. TablesBuilt /\ [Next]_vars => TablesBuilt'
  <2> SUFFICES ASSUME TablesBuilt, [Next]_vars
               PROVE  TablesBuilt'
    OBVIOUS
  <2>1. ASSUME NEW rule \in Rules, AddRule(rule)
        PROVE  TablesBuilt'
    <3>1. function' = "match_route" /\ input' = Append(input, rule)
      BY <2>1 DEF AddRule
    <3>2. input \in Seq(Rules)
      <4>1. CASE function = "match_route"
        BY <4>1 DEF TablesBuilt
      <4>2. CASE function = "none"
        <5>1. input = <<>>
          BY <4>2 DEF TablesBuilt
        <5>2. QED
          BY <5>1
      <4>3. QED
        BY <2>1, <4>1, <4>2 DEF AddRule
    <3>3. input' \in Seq(Rules)
      BY <3>1, <3>2
    <3>4. QED
      BY <3>1, <3>3 DEF TablesBuilt
  <2>2. ASSUME NEW route \in SiteRoutes, AddRoute(route)
        PROVE  TablesBuilt'
    <3>1. function' = "select_route" /\ input' = PushRoute(input, route)
      BY <2>2 DEF AddRoute
    <3>2. RouteTable(input)
      <4>1. CASE function = "select_route"
        BY <4>1 DEF TablesBuilt
      <4>2. CASE function = "none"
        <5>1. input = <<>>
          BY <4>2 DEF TablesBuilt
        <5>2. QED
          BY <5>1 DEF RouteTable
      <4>3. QED
        BY <2>2, <4>1, <4>2 DEF AddRoute
    <3>3. RouteTable(input')
      BY <3>1, <3>2, PushedTable
    <3>4. QED
      BY <3>1, <3>3 DEF TablesBuilt
  <2>3. ASSUME function' \notin {"none", "match_route", "select_route", "apply_forwarding_policy",
                              "determine_body_framing", "classify_telemetry_outcome"}
        PROVE  TablesBuilt'
    BY <2>3 DEF TablesBuilt
  <2>4. ASSUME NEW field \in HeaderFields, AddField(field)
        PROVE  TablesBuilt'
    <3>1. function' = "determine_body_framing" /\ input' = Append(input, field)
      BY <2>4 DEF AddField
    <3>2. input \in Seq(HeaderFields)
      <4>1. CASE function = "determine_body_framing"
        BY <4>1 DEF TablesBuilt
      <4>2. CASE function = "none"
        <5>1. input = <<>>
          BY <4>2 DEF TablesBuilt
        <5>2. QED
          BY <5>1
      <4>3. QED
        BY <2>4, <4>1, <4>2 DEF AddField
    <3>3. input' \in Seq(HeaderFields)
      BY <3>1, <3>2
    <3>4. QED
      BY <3>1, <3>3 DEF TablesBuilt
  <2>5. ASSUME NEW word \in DOMAIN Spelling, AddWord(word)
        PROVE  TablesBuilt'
    <3>1. function' = "classify_telemetry_outcome" /\ input' = Append(input, word)
      BY <2>5 DEF AddWord
    <3>2. input \in Seq(DOMAIN Spelling)
      <4>1. CASE function = "classify_telemetry_outcome"
        BY <4>1 DEF TablesBuilt
      <4>2. CASE function = "none"
        <5>1. input = <<>>
          BY <4>2 DEF TablesBuilt
        <5>2. QED
          BY <5>1
      <4>3. QED
        BY <2>5, <4>1, <4>2 DEF AddWord
    <3>3. input' \in Seq(DOMAIN Spelling)
      BY <3>1, <3>2
    <3>4. QED
      BY <3>1, <3>3 DEF TablesBuilt
  <2>6. ASSUME NEW field \in HopFields, AddHopField(field)
        PROVE  TablesBuilt'
    BY <2>3, <2>6 DEF AddHopField
  <2>7. ASSUME NEW part \in UpgradeParts, AddUpgradePart(part)
        PROVE  TablesBuilt'
    BY <2>3, <2>7 DEF AddUpgradePart
  <2>8. ASSUME NEW field \in ForwardingFields, AddForwardingField(field)
        PROVE  TablesBuilt'
    <3>1. function' = "apply_forwarding_policy" /\ input' = Append(input, field)
      BY <2>8 DEF AddForwardingField
    <3>2. input \in Seq(ForwardingFields)
      <4>1. CASE function = "apply_forwarding_policy"
        BY <4>1 DEF TablesBuilt
      <4>2. CASE function = "none"
        <5>1. input = <<>>
          BY <4>2 DEF TablesBuilt
        <5>2. QED
          BY <5>1
      <4>3. QED
        BY <2>8, <4>1, <4>2 DEF AddForwardingField
    <3>3. input' \in Seq(ForwardingFields)
      BY <3>1, <3>2
    <3>4. QED
      BY <3>1, <3>3 DEF TablesBuilt
  <2>9. ASSUME NEW start \in ChunkStarts, StartLine(start)
        PROVE  TablesBuilt'
    BY <2>3, <2>9 DEF StartLine
  <2>10. ASSUME NEW piece \in ChunkPieces, AddPiece(piece)
         PROVE  TablesBuilt'
    BY <2>3, <2>10 DEF AddPiece
  <2>11. ASSUME NEW piece \in TrailerPieces, AddTrailer(piece)
         PROVE  TablesBuilt'
    BY <2>3, <2>11 DEF AddTrailer
  <2>12. ASSUME UNCHANGED vars
         PROVE  TablesBuilt'
    <3>1. function' = function /\ input' = input
      BY <2>12 DEF vars
    <3>2. QED
      BY <3>1 DEF TablesBuilt
  <2>13. QED
    BY <2>1, <2>2, <2>4, <2>5, <2>6, <2>7, <2>8, <2>9, <2>10, <2>11, <2>12 DEF Next
<1>3. QED
  BY <1>1, <1>2, PTL DEF Spec

\* select_route_fold and select_route_sorted pick the most specific eligible
\* route, the earliest declared of equals, in every table compile_runtime_routes
\* can make and for every request.
THEOREM SelectionsAlwaysAgree == Spec => []SelectionsAgree
<1>1. TablesBuilt => SelectionsAgree
  <2> SUFFICES ASSUME TablesBuilt, function = "select_route", NEW request \in Requests
               PROVE  /\ IsSelection(select_route_fold(input, request), input, request)
                      /\ IsSelection(select_route_sorted(input, request), input, request)
    BY DEF SelectionsAgree
  <2>1. RouteTable(input)
    BY DEF TablesBuilt
  <2>2. QED
    BY <2>1, FoldSelects, SortSelects
<1>2. QED
  BY <1>1, TablesAreBuilt, PTL

\* The five variants of match_route agree on every table of the configuration,
\* for every authority and target: the open addressing of bounded_match, the
\* two passes of rule_pipeline and the maximum of immutable_table included.
THEOREM MatchRouteAlwaysAgrees == Spec => []MatchRouteAgrees
<1>1. TablesBuilt => MatchRouteAgrees
  <2> SUFFICES ASSUME TablesBuilt, function = "match_route",
                      \A i \in DOMAIN input : Len(input[i].path_prefix) <= PATH_LIMIT,
                      NEW authority \in Authorities, NEW target \in Targets,
                      NEW matches, matches = Range(MatchRoutes(authority, target, input))
               PROVE  /\ \A match \in matches :
                            IF ValidTable(target, input)
                            THEN IsRouteChoice(match, authority, target, input)
                            ELSE match.tag \notin {"match", "NoRoute"}
                      /\ DistinctOrders(input) => Cardinality(matches) = 1
    BY DEF MatchRouteAgrees
  <2>1. input \in Seq(Rules) /\ WithinLimit(input)
    BY DEF TablesBuilt, WithinLimit
  <2>2. QED
    BY <2>1, MatchRouteVariants
<1>2. QED
  BY <1>1, TablesAreBuilt, PTL

\* The five variants of apply_forwarding_policy agree on every block of fields
\* and every policy: the scans and the splits, the passes that keep values and
\* the one that keeps positions, the checks of a repeat before and after the
\* value.
THEOREM ForwardingAlwaysAgrees == Spec => []ForwardingAgrees
<1>1. TablesBuilt => ForwardingAgrees
  <2> SUFFICES ASSUME TablesBuilt, function = "apply_forwarding_policy", NEW policy \in Policies,
                      NEW outcome \in Range(Forwardings(policy, input))
               PROVE  ForwardsAlike(outcome, policy, input)
    BY DEF ForwardingAgrees, ForwardsAlike, LongRepeat
  <2>1. input \in Seq(ForwardingFields)
    BY DEF TablesBuilt
  <2>2. QED
    BY <2>1, ForwardingVariants
<1>2. QED
  BY <1>1, TablesAreBuilt, PTL

\* The five variants of determine_body_framing agree with the specification's
\* requirements on every header block, and those of classify_telemetry_outcome
\* with one another on every code, whether or not an upstream was reached.
THEOREM VariantsAlwaysAgree == Spec => []VariantsAgree
<1>1. TablesBuilt => VariantsAgree
  <2> SUFFICES ASSUME TablesBuilt
               PROVE  VariantsAgree
    OBVIOUS
  <2>1. function = "determine_body_framing" => Range(BodyFramings(input)) = {FramingRule(input)}
    BY FramingVariants DEF TablesBuilt
  <2>2. ASSUME function = "classify_telemetry_outcome", NEW reached \in BOOLEAN
        PROVE  Cardinality(Range(TelemetryOutcomes(input, reached))) = 1
    <3>1. input \in Seq(DOMAIN Spelling)
      BY <2>2 DEF TablesBuilt
    <3>2. Range(TelemetryOutcomes(input, reached)) = {Classified(input, reached)}
      BY <3>1, TelemetryVariants
    <3>3. Cardinality({Classified(input, reached)}) = 1
      BY FS_Singleton
    <3>4. QED
      BY <3>2, <3>3
  <2>3. QED
    BY <2>1, <2>2 DEF VariantsAgree
<1>2. QED
  BY <1>1, TablesAreBuilt, PTL
=============================================================================
