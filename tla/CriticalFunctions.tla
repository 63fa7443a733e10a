-------------------------- MODULE CriticalFunctions --------------------------
(***************************************************************************)
(* The inputs of the functions that several implementations must answer    *)
(* alike, built one element at a time: the fields of a header block, the   *)
(* rules of a configured table, the routes a configuration compiles to,    *)
(* the words of an outcome code.  A disagreement on any of them costs the  *)
(* client its request (module Agreement), so what is checked here is that  *)
(* the variants are the same function, and the function they should be.    *)
(***************************************************************************)
EXTENDS BodyFraming, MatchRoute, RouteSelection, TelemetryOutcome, Upgrade, Forwarding,
        ChunkMetadata, Trailers

CONSTANTS
    HeaderFields,   \* the fields a block is made of
    MaxMembers,     \* bound on the members of a block, all fields together
    Rules,          \* the rules a table is made of
    MaxRules,       \* bound on the rules of a table
    SiteRoutes,     \* the routes compile_runtime_routes pushes
    MaxSiteRoutes,  \* bound on their number
    MaxWords,       \* bound on the words of a code
    HopFields,      \* the fields of a block given to remove_hop_by_hop_headers
    MaxHopFields,   \* bound on their number
    UpgradeParts,   \* runs of fields a block given to decide_upgrade is made of
    MaxUpgradeParts,        \* bound on their number
    ForwardingFields,       \* the fields of a block given to apply_forwarding_policy
    MaxForwardingFields,    \* bound on their number
    ChunkStarts,    \* the bytes a chunk-size line starts with
    ChunkPieces,    \* the bytes it goes on with
    MaxPieces,      \* bound on their number, the start included
    TrailerPieces,  \* the bytes a trailer section is made of
    MaxTrailerPieces        \* bound on their number

\* What parse_header_section makes of a field: split gives one member at least.
ASSUME HeaderInputs ==
    \A field \in HeaderFields :
        /\ field.name \in {"content-length", "transfer-encoding", "other"}
        /\ field.value \in Seq(Seq(Nat)) \ {<<>>}

\* What the configuration's types make of a rule and of a route.
ASSUME TablesAssumption ==
    /\ \A rule \in Rules :
          /\ rule.declaration_order \in Nat
          /\ rule.path_prefix \in Seq(Nat)
    /\ \A route \in SiteRoutes :
          /\ route.host.kind \in {"any", "wildcard", "exact"}
          /\ route.host.name \in Seq(STRING)
          /\ route.path \in Seq(Nat)

VARIABLES
    function,       \* the function under call, none at first
    input           \* its input so far

vars == <<function, input>>

Init ==
    /\ function = "none"
    /\ input = <<>>

\* parse_header_section pushes one more field.
AddField(field) ==
    /\ function \in {"none", "determine_body_framing"}
    /\ Len(FlattenSeq([i \in DOMAIN input |-> input[i].value])) + Len(field.value) <= MaxMembers
    /\ function' = "determine_body_framing"
    /\ input' = Append(input, field)

\* The configuration has one more legacy route.
AddRule(rule) ==
    /\ function \in {"none", "match_route"}
    /\ Len(input) < MaxRules
    /\ function' = "match_route"
    /\ input' = Append(input, rule)

\* compile_runtime_routes reaches one more route.
AddRoute(route) ==
    /\ function \in {"none", "select_route"}
    /\ Len(input) < MaxSiteRoutes
    /\ function' = "select_route"
    /\ input' = PushRoute(input, route)

\* A code has one more word.
AddWord(word) ==
    /\ function \in {"none", "classify_telemetry_outcome"}
    /\ Len(input) < MaxWords
    /\ function' = "classify_telemetry_outcome"
    /\ input' = Append(input, word)

\* The block of a request has one more field, for each of three functions.
AddHopField(field) ==
    /\ function \in {"none", "remove_hop_by_hop_headers"}
    /\ Len(input) < MaxHopFields
    /\ function' = "remove_hop_by_hop_headers"
    /\ input' = Append(input, field)

AddUpgradePart(part) ==
    /\ function \in {"none", "decide_upgrade"}
    /\ Len(input) < MaxUpgradeParts
    /\ function' = "decide_upgrade"
    /\ input' = Append(input, part)

AddForwardingField(field) ==
    /\ function \in {"none", "apply_forwarding_policy"}
    /\ Len(input) < MaxForwardingFields
    /\ function' = "apply_forwarding_policy"
    /\ input' = Append(input, field)

\* read_line has read one more piece of a chunk-size line; the CRLF at which it
\* returns is added where the line is parsed.
StartLine(start) ==
    /\ function = "none"
    /\ function' = "parse_chunk_metadata"
    /\ input' = <<start>>

AddPiece(piece) ==
    /\ function = "parse_chunk_metadata"
    /\ Len(input) < MaxPieces
    /\ input' = Append(input, piece)
    /\ UNCHANGED function

\* read_trailers has read one more piece of a section; the empty line at which
\* it stops is added where the section is parsed.
AddTrailer(piece) ==
    /\ function \in {"none", "parse_trailer_section"}
    /\ Len(input) < MaxTrailerPieces
    /\ function' = "parse_trailer_section"
    /\ input' = Append(input, piece)

Next ==
    \/ \E field \in HeaderFields : AddField(field)
    \/ \E rule \in Rules : AddRule(rule)
    \/ \E route \in SiteRoutes : AddRoute(route)
    \/ \E word \in DOMAIN Spelling : AddWord(word)
    \/ \E field \in HopFields : AddHopField(field)
    \/ \E part \in UpgradeParts : AddUpgradePart(part)
    \/ \E field \in ForwardingFields : AddForwardingField(field)
    \/ \E start \in ChunkStarts : StartLine(start)
    \/ \E piece \in ChunkPieces : AddPiece(piece)
    \/ \E piece \in TrailerPieces : AddTrailer(piece)

Spec == Init /\ [][Next]_vars

-----------------------------------------------------------------------------
\* The hosts, targets and requests the tables are asked about, the requests of
\* an upgrade, the policies of a listener, the names a Trailer field declares.
CONSTANTS Authorities, Targets, Requests, UpgradeRequests, Framings, Policies, DeclaredNames

\* What process_request makes of a policy: the text of the peer's address, and
\* a host short enough for the listener's own hop.
ASSUME ForwardingInputs ==
    /\ \A field \in ForwardingFields : field.value \in Seq(STRING)
    /\ \A policy \in Policies :
          /\ policy.trust_incoming \in BOOLEAN
          /\ policy.client.canonical
          /\ Len(Hop(policy)) <= VALUE_LIMIT

\* The variants of determine_body_framing return, for every block, what the
\* specification's requirements say, error included, and those of
\* classify_telemetry_outcome agree for every code: they pass over their input
\* in different orders, stop at different places, remember different faults, and
\* tell codes apart by tables, lengths and fingerprints.
VariantsAgree ==
    /\ function = "determine_body_framing" =>
          Range(BodyFramings(input)) = {FramingRule(input)}
    /\ function = "classify_telemetry_outcome" =>
          \A reached \in BOOLEAN : Cardinality(Range(TelemetryOutcomes(input, reached))) = 1

\* The five route variants choose, in a valid table, the longest matching
\* prefix and the lowest order among equals, whatever the place of the rules;
\* a table they refuse for a rule or a repeated order, all of them refuse, and
\* for the same reason unless orders are repeated.  The prefix limit, which
\* only three of them check, is not exceeded.
MatchRouteAgrees ==
    (/\ function = "match_route"
     /\ \A i \in DOMAIN input : Len(input[i].path_prefix) <= PATH_LIMIT) =>
        \A authority \in Authorities, target \in Targets :
            \A matches \in {Range(MatchRoutes(authority, target, input))} :
                /\ \A match \in matches :
                      IF ValidTable(target, input)
                      THEN IsRouteChoice(match, authority, target, input)
                      ELSE match.tag \notin {"match", "NoRoute"}
                /\ DistinctOrders(input) => Cardinality(matches) = 1

\* select_route_fold and select_route_sorted pick the same route, and it is the
\* most specific eligible one, the earliest declared of equals: a difference
\* would be answered as an implementation disagreement.
SelectionsAgree ==
    function = "select_route" =>
        \A request \in Requests :
            /\ IsSelection(select_route_fold(input, request), input, request)
            /\ IsSelection(select_route_sorted(input, request), input, request)

\* The five variants of remove_hop_by_hop_headers keep and remove what the
\* specification says, error included, whether they tell the names apart in a
\* set or in a trie; and on every block they accept, which process_request gives
\* to them first, the five upgrade variants give the answer of the
\* specification, whatever fields are missing, repeated or malformed.  (On a
\* block refused, transformation_matrix sees an intent the other four do not.)
HopAndUpgradeAgree ==
    /\ function = "remove_hop_by_hop_headers" =>
          Range(HopByHops(input)) = {HopByHopRule(input)}
    /\ (function = "decide_upgrade" /\ HopByHopRule(FlattenSeq(input)).tag = "SanitizedHeaders") =>
          \A fields \in {FlattenSeq(input)}, request \in UpgradeRequests, framing \in Framings :
              Range(Upgrades(request, fields, framing)) = {UpgradeRule(request, fields, framing)}

\* The five forwarding variants return the values the specification asks for,
\* and the same fault at the same limit, unless a repeated field is itself over
\* the limit, which two variants report as a repeat and three as a length:
\* then all five refuse the block.
ForwardingAgrees ==
    function = "apply_forwarding_policy" =>
        \A policy \in Policies :
            \A outcome \in Range(Forwardings(policy, input)), rule \in {ForwardingRule(policy, input)} :
                \/ outcome = rule
                \/ /\ policy.trust_incoming
                   /\ \E i \in DOMAIN input : Repeats(input, i) /\ Len(input[i].value) > VALUE_LIMIT
                   /\ "ForwardingResult" \notin {outcome.tag, rule.tag}

\* The five chunk variants frame a line alike: those that accept it return the
\* same size, extensions and boundary, an ASCII line accepted by one is accepted
\* by all, the boundary is the first CRLF with no control byte before it, and an
\* ASCII line of at most MAX_EXTENSIONS semicolons is refused for one reason.
ChunkMetadataAgrees ==
    function = "parse_chunk_metadata" =>
        \A bytes \in {FlattenSeq(input) \o <<CR, LF>>} :
            \A metas \in {Range(ChunkMetadatas(bytes))} :
                /\ Cardinality({meta \in metas : meta.tag = "ChunkMeta"}) <= 1
                /\ \A meta \in {m \in metas : m.tag = "ChunkMeta"} :
                      /\ SubSeq(bytes, meta.bytes_consumed - 1, meta.bytes_consumed) = <<CR, LF>>
                      /\ \A i \in 1 .. meta.bytes_consumed - 2 : bytes[i] \notin {CR, LF, Control}
                      /\ ToSet(bytes) \cap {Wide, Broken} = {} => metas = {meta}
                /\ PlainLine(bytes) => Cardinality(metas) = 1

\* The five trailer variants accept the sections the specification accepts, no
\* other, with the same fields and the same boundary, whatever else the line
\* that is wrong, the limit that is crossed or the name that is undeclared;
\* which fault they report first differs.  (invariant_trie has no limit on the
\* length of a declared name, so the names are within it.)
TrailersAgree ==
    function = "parse_trailer_section" =>
        \A wire \in {FlattenSeq(input) \o <<CR, LF>>}, declared \in DeclaredNames :
            \A block \in Range(TrailerSections(wire, declared)), rule \in {TrailerRule(wire, declared)} :
                IF rule.tag = "TrailerBlock" THEN block = rule ELSE block.tag # "TrailerBlock"
=============================================================================
