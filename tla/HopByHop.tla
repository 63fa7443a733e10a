------------------------------ MODULE HopByHop ------------------------------
(***************************************************************************)
(* remove_hop_by_hop_headers of specs/polyform.toml, and its five          *)
(* implementations under src/src/implementations/hop_by_hop_*.rs.          *)
(*                                                                         *)
(* The value of a Connection field is a sequence of symbols: a word of     *)
(* token bytes, Ows (SP or HTAB), Comma, or Bad (any other byte).  A field *)
(* name is a sequence of words too, so that one name can be a prefix of    *)
(* another.  Only the symbols of Lowered are not in lower case.            *)
(***************************************************************************)
EXTENDS Integers, Sequences, SequencesExt

Ows == "ows"
Comma == ","
Bad == "@"

\* to_ascii_lowercase of the words that are not in lower case.
Lowered == [Te |-> "te", X |-> "x", Upgrade |-> "upgrade", WebSocket |-> "websocket"]

LowerWord(word) == IF word \in DOMAIN Lowered THEN Lowered[word] ELSE word

LowercaseToken(member) == [i \in DOMAIN member |-> LowerWord(member[i])]

Connection == <<"connection">>

FIXED_NAMES ==
    {Connection, <<"proxy-connection">>, <<"keep-alive">>, <<"transfer-encoding">>, <<"te">>,
     <<"trailer">>, <<"upgrade">>, <<"proxy-authenticate">>, <<"proxy-authorization">>}

IsTokenSymbol(symbol) == symbol \notin {Ows, Comma, Bad}

TrimSymbols(raw) ==
    LET kept == {i \in DOMAIN raw : raw[i] # Ows}
    IN  IF kept = {} THEN <<>> ELSE SubSeq(raw, Min(kept), Max(kept))

\* validated_canonical_token, before the bytes are lowered.
IsToken(member) == member # <<>> /\ \A i \in DOMAIN member : IsTokenSymbol(member[i])

\* split(|byte| *byte == b','): one member more than there are commas.
SplitMembers(value) ==
    FoldLeft(LAMBDA members, symbol :
                 IF symbol = Comma THEN Append(members, <<>>)
                 ELSE [members EXCEPT ![Len(members)] = Append(@, symbol)],
             <<<<>>>>, value)

\* The result; removed_names is sorted and has no repeats, so it is a set.
InvalidHeader(index) ==
    [tag |-> "InvalidHeader", index |-> index, fields |-> <<>>, removed_names |-> {}]

Sanitized(fields, removed) ==
    [tag |-> "SanitizedHeaders", index |-> 0, fields |-> fields, removed_names |-> removed]

\* What a pass over the fields has gathered; fault is the index of the field
\* at which the ? operator returns, 0 while there is none.
Names(fault, names) == [fault |-> fault, names |-> names]

AddName(plan, name) == [plan EXCEPT !.names = @ \cup {name}]

\* The members of the Connection field at the index, up to the first bad one.
Nominate(plan, value, index) ==
    LET step(gathered, raw) ==
            CASE gathered.fault # 0 -> gathered
              [] gathered.fault = 0 /\ ~IsToken(TrimSymbols(raw)) -> [gathered EXCEPT !.fault = index]
              [] OTHER -> AddName(gathered, LowercaseToken(TrimSymbols(raw)))
    IN  FoldLeft(step, plan, SplitMembers(value))

\* Keeps the fields the plan does not name, or reports its fault.
Finish(fields, plan) ==
    IF plan.fault # 0 THEN InvalidHeader(plan.fault)
    ELSE Sanitized(SelectSeq(fields, LAMBDA field : field.name \notin plan.names), plan.names)

-----------------------------------------------------------------------------
\* composable: discover_removals walks once, fixed name first, then its members.

DiscoverRemovals(fields) ==
    LET step(plan, index) ==
            LET field == fields[index]
                fixed == IF field.name \in FIXED_NAMES THEN AddName(plan, field.name) ELSE plan
            IN  CASE plan.fault # 0 -> plan
                  [] plan.fault = 0 /\ field.name # Connection -> fixed
                  [] OTHER -> Nominate(fixed, field.value, index)
    IN  FoldLeftDomain(step, Names(0, {}), fields)

ComposableHop(fields) == Finish(fields, DiscoverRemovals(fields))

-----------------------------------------------------------------------------
\* rule_table: the policy of each name, other fields filtered out before.

FieldPolicy(name) ==
    CASE name = Connection -> "ConnectionList"
      [] name \in FIXED_NAMES \ {Connection} -> "AlwaysRemove"
      [] OTHER -> "None"

RuleTableHop(fields) ==
    LET step(plan, index) ==
            LET field == fields[index]
                policy == FieldPolicy(field.name)
            IN  CASE plan.fault # 0 \/ policy = "None" -> plan
                  [] plan.fault = 0 /\ policy = "ConnectionList" ->
                        Nominate(AddName(plan, field.name), field.value, index)
                  [] plan.fault = 0 /\ policy = "AlwaysRemove" -> AddName(plan, field.name)
    IN  Finish(fields, FoldLeftDomain(step, Names(0, {}), fields))

-----------------------------------------------------------------------------
\* token_trie: the nominations go into a trie, the fixed names are met again
\* while the survivors are copied.

EmptyTrie == [nodes |-> {<<>>}, terminal |-> {}]

TrieInsert(trie, token) ==
    [nodes |-> trie.nodes \cup Prefixes(token), terminal |-> trie.terminal \cup {token}]

\* Faulty variant: a name that is only the beginning of an inserted one counts.
TrieContainsPrefix(trie, token) == token \in trie.nodes

TrieContains(trie, token) == token \in trie.nodes /\ token \in trie.terminal

CollectNominations(fields) ==
    LET step(plan, index) ==
            IF plan.fault # 0 \/ fields[index].name # Connection THEN plan
            ELSE Nominate(plan, fields[index].value, index)
    IN  FoldLeftDomain(step, Names(0, {}), fields)

TokenTrieHop(fields) ==
    LET plan == CollectNominations(fields)
        trie == FoldLeft(TrieInsert, EmptyTrie, SetToSeq(plan.names))
        fixed == {fields[i].name : i \in {j \in DOMAIN fields : fields[j].name \in FIXED_NAMES}}
        survives(field) == field.name \notin FIXED_NAMES /\ ~TrieContains(trie, field.name)
    IN  IF plan.fault # 0 THEN InvalidHeader(plan.fault)
        ELSE Sanitized(SelectSeq(fields, survives), plan.names \cup fixed)

-----------------------------------------------------------------------------
\* sorted_plan: the fixed names of the block chained with the classified
\* members of all its Connection fields, collected up to the first error.

Classify(raw) ==
    CASE TrimSymbols(raw) = <<>> -> "Empty"
      [] TrimSymbols(raw) # <<>> /\ IsToken(TrimSymbols(raw)) -> "Token"
      [] OTHER -> "Invalid"

SortedPlanHop(fields) ==
    LET fixed == {fields[i].name : i \in {j \in DOMAIN fields : FieldPolicy(fields[j].name) # "None"}}
        tagged(index) ==
            IF FieldPolicy(fields[index].name) # "ConnectionList" THEN <<>>
            ELSE LET members == SplitMembers(fields[index].value)
                 IN  [m \in DOMAIN members |-> [index |-> index, raw |-> members[m]]]
        nominated == FlattenSeq([index \in DOMAIN fields |-> tagged(index)])
        faulty == SelectSeq(nominated, LAMBDA member : Classify(member.raw) # "Token")
        names == {LowercaseToken(TrimSymbols(nominated[i].raw)) : i \in DOMAIN nominated}
    IN  Finish(fields, IF faulty # <<>> THEN Names(faulty[1].index, {}) ELSE Names(0, fixed \cup names))

-----------------------------------------------------------------------------
\* typed_pipeline: a cursor skips OWS, a token and OWS, and must then stand
\* before a comma or at the end of the value.

TakeWhile(value, cursor, allowed(_)) ==
    CHOOSE end \in cursor .. Len(value) + 1 :
        /\ \A i \in cursor .. end - 1 : allowed(value[i])
        /\ end <= Len(value) => ~allowed(value[end])

ScanMember(value, cursor) ==
    LET isOws(symbol) == symbol = Ows
        start == TakeWhile(value, cursor, isOws)
        end == TakeWhile(value, start, IsTokenSymbol)
        after == TakeWhile(value, end, isOws)
    IN  [token |-> SubSeq(value, start, end - 1),
         position |-> CASE start = end -> "Rejected"
                        [] start # end /\ after > Len(value) -> "Complete"
                        [] start # end /\ after <= Len(value) /\ value[after] = Comma -> "MemberStart"
                        [] OTHER -> "Rejected",
         cursor |-> after + 1]

\* RemovalLedger::apply for a Connection event: the iterator run to its end.
ApplyConnection(ledger, value, index) ==
    LET scan[cursor \in 1 .. Len(value) + 1] ==
            LET member == ScanMember(value, cursor)
                rest == IF member.position = "MemberStart" THEN scan[member.cursor] ELSE Names(0, {})
            IN  IF member.position = "Rejected" THEN Names(index, {})
                ELSE AddName(rest, LowercaseToken(member.token))
        scanned == scan[1]
    IN  Names(scanned.fault, ledger.names \cup scanned.names)

TypedPipelineHop(fields) ==
    LET apply(ledger, index) ==
            LET field == fields[index]
            IN  CASE ledger.fault # 0 \/ field.name \notin FIXED_NAMES -> ledger
                  [] ledger.fault = 0 /\ field.name = Connection ->
                        ApplyConnection(AddName(ledger, Connection), field.value, index)
                  [] OTHER -> AddName(ledger, field.name)
    IN  Finish(fields, FoldLeftDomain(apply, Names(0, {}), fields))

-----------------------------------------------------------------------------
\* The five, as the registry lists them.
HopByHops(fields) ==
    [composable |-> ComposableHop(fields),
     rule_table |-> RuleTableHop(fields),
     token_trie |-> TokenTrieHop(fields),
     sorted_plan |-> SortedPlanHop(fields),
     typed_pipeline |-> TypedPipelineHop(fields)]

\* The requirements of specs/polyform.toml for this function, without an
\* algorithm: the names are those present and fixed, and those nominated.
HopByHopRule(fields) ==
    LET lists == {i \in DOMAIN fields : fields[i].name = Connection}
        members(i) == ToSet(SplitMembers(fields[i].value))
        faulty == {i \in lists : \E raw \in members(i) : ~IsToken(TrimSymbols(raw))}
        nominated == {LowercaseToken(TrimSymbols(raw)) : raw \in UNION {members(i) : i \in lists}}
        present == {fields[i].name : i \in DOMAIN fields} \cap FIXED_NAMES
    IN  IF faulty # {} THEN InvalidHeader(Min(faulty))
        ELSE Sanitized(SelectSeq(fields, LAMBDA field : field.name \notin present \cup nominated),
                       present \cup nominated)
=============================================================================
