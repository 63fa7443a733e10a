# A TLA+ model of Polyguard

Polyguard (`src/`) is an HTTP/1.1 reverse proxy. It runs every security-critical
step of a request in several independently written implementations and goes on only
when their results are equal ("agreement mode"). A composition service, Polyform, may
assign which implementation comes first. This directory models the parts of the serving
process that carry its own logic, checks them with TLC and proves the most important
facts with TLAPS.

Every definition is translated from the source; `map` in `PROJECT.json` gives, for
each one, the lines it stands for. Paths below are relative to the repository:
`src/src/proxy.rs` (P) and `src/vendor/polyform-runtime/src/lib.rs` (R).

## 1. The system

| Component | State | Operations | Talks to |
|---|---|---|---|
| Server lifecycle (P `run_inner`, `install_signal_handlers`, `run_management_listener`) | `TERMINATE`, `RELOAD`, `LiveState`, `metrics.active` | start, reload, accept, refuse, spawn, drain, join | everything: spawns the workers, swaps the runtime |
| Connection and request pipeline (P `handle_connection`, `process_request`, `exchange_upstream`) | buffered input, the request so far, counters | read head, fourteen checks, act locally or read body, exchange, reply | agreement set, memory budget, upstream |
| Agreement set (P `Agreement`) | `primary` map, `width`, quarantine list, thread-local trace | `run`, `selected_ids`, `update_primary` | registry of implementations |
| Body-memory budget (P `MemoryBudget`, `MemoryPermit`) | `used`, `limit` | `reserve`, `grow`, `absorb`, `drop`, limit stored by a reload | every worker |
| Polyform client (R `Client`) | verified state in memory, state file, temporary file | `register`, `refresh`, `verify_assignment`, `persist_state` | the service, the disk |
| Live composition (P `build_runtime`, `refresh_polyform`, telemetry thread) | the client's mutex, `refresh_in_progress`, telemetry queue | reload, refresh, install, report | client, agreement set of each runtime generation |
| Readers (P `read_head`, `BufferedInput`, `read_request_body`, `read_chunked`, `read_trailers`, `read_to_eof_bounded`) | the rest of the head's read and an offset into it, the body so far, its permit | read a head, an exact length, a line, a chunk, trailers, look for more | stream, agreement set, memory budget |
| Critical functions (`src/src/implementations/`, 13 functions, 5 variants each) | none | pure functions | called by `Agreement::run` |
| Routes, static files, ranges, templates, compression (P) | none per request | pure functions and file reads | pipeline |
| Configuration, NGINX importer, command line, fuzzer, manifest tool | none while serving | validation and translation | startup and reload |

What is hard in it, and what has to hold:

* **Budget.** Workers race in a compare-and-swap loop while a reload moves the limit.
  Every byte charged must be returned exactly once on every error path, and the
  budget may not be exceeded.
* **Agreement.** The refresh thread replaces the primary map between the functions of
  one request and between reading the primary and calling its peers. A result may only
  go on if `width` distinct, admitted implementations returned it; running out of
  implementations must be impossible once the runtime was accepted.
* **Client.** Responses may be replayed or inconsistent, writes may fail, the process may
  stop anywhere and start as another release. The persisted rollback floor must stay
  whole, rise only, and be ahead of what is active.
* **Live composition.** Three kinds of threads share one mutex, two of them across network requests;
  a refresh keeps the runtime generation it was started with while a reload replaces it. The flag that keeps
  refreshes apart must be cleared on every path, a thread that could not be started included.
* **Connection.** The client may send at any time; a reused connection must start
  at a message boundary, nothing may reach the upstream before the last check, and
  faults after the upstream was contacted mean something else than before.
* **Readers.** The wire may be cut anywhere, and a read may fail between any two bytes. Exactly one
  message may be taken off it, and what is held must have been charged, before it is held wherever the code
  does so: one copy is made ahead of its charge.
* **Critical functions.** Five implementations meet the faults of an input in different orders and keep
  different state. Each difference is a request refused; the same mistake in all of them is not noticed.
* **Server.** One counter is incremented before it is compared and decremented on five
  paths; signals arrive at any moment; shutdown has to end.

`hazards` in `PROJECT.json` lists each of these at the line where it bites, with the
properties aimed at it.

## 2. The modules

| Module | Models | Composes with |
|---|---|---|
| `CeilingBudget` | what the budget promises: atomic charges below the highest limit so far | abstract specification of `MemoryBudget` |
| `MemoryBudget` | the atomic operations of `reserve`, `grow`, `absorb`, `gzip_body_accounted` and `Drop` | refines `CeilingBudget` |
| `Agreement` | `Agreement::run` candidate by candidate, `selected_ids`, `update_primary`, the call trace, `build_runtime`'s acceptance | |
| `PolyformClient` | `register`, `refresh`, `verify_assignment` check by check, `persist_state` step by step, crashes and restarts | |
| `LiveComposition` | main loop, refresh threads, telemetry thread and connection threads around the client's mutex | abstracts `PolyformClient` to a revision and `Agreement` to its primary |
| `Connection` | one connection: every stage of `process_request` and `exchange_upstream` with its faults, reuse, error answers, counters | abstracts `Agreement::run` to its visible outcomes |
| `Server` | startup, flags, reload, accept, cap, workers, shutdown, management thread | abstracts a connection to its start and end |
| `BodyReader` | the readers, read by read: any number of bytes, a timeout, an error or the end of file at each, `Busy` at each charge | extends `ChunkMetadata` and `Trailers`; finer than the units in which `Connection` counts bytes; no mapping between the two is checked |
| `BodyFraming`, `MatchRoute`, `TelemetryOutcome` | `determine_body_framing`, `match_route`, `classify_telemetry_outcome`: the five variants of each as operators, and the rule they should follow | |
| `HopByHop`, `Upgrade`, `Forwarding` | `remove_hop_by_hop_headers`, `decide_upgrade`, `apply_forwarding_policy`, likewise | `Upgrade` and `Forwarding` extend `HopByHop` |
| `ChunkMetadata`, `Trailers` | `parse_chunk_metadata`, `parse_trailer_section`, likewise | `Trailers` extends `ChunkMetadata` |
| `RouteSelection` | eligibility of a route, `select_route_fold`, `select_route_sorted` | |
| `CriticalFunctions` | the inputs of these functions, built one element at a time | extends the function modules and `RouteSelection` |
| `*Proofs` | theorems about the module they extend | |
| `MC*` | constants for TLC | |

### How state and actions correspond to the code

**MemoryBudget.** `used` and `limit` are the two atomics; `want` and `current` are
`reserve`'s locals; `body` is the permit a `BufferedBody` owns and `extra` the permit
that `reserve` has just returned. `Check`, `CasSucceeds` and `CasFails` are the loop; a
weak exchange may also fail spuriously. `ReserveBody`, `Grow` and `Gzip` are the
callers and decide what happens on `Busy` (`BusyTarget`). Subtraction wraps at
`MaxUsize + 1`, as `fetch_sub` does.

**Agreement.** An implementation is its position in the registry. `pos = 0` is the
primary's turn, then the registry in order; `Callable` is the loop's filter and
`AfterCandidate` its exit. What an implementation answers is chosen when the run starts,
for all implementations and in all combinations. `Init` is every width, quarantine list
and composition that `build_runtime` accepts. `UpdatePrimary` may happen at any moment. `StartRun`
is the next function of `process_request`, which goes on only after an `Ok`. `RecordResult` is
`record_request_result`: whatever ended the request, a disagreement included, the outcome is classified by
agreement too (the function `Classify`) before `EndRequest` takes the trace. `failed` holds the functions
that disagreed in the request.

**PolyformClient.** `Authentic`, `MatchesInventory`, `NoRollback`, `Floor` and
`FloorAllows` are the checks of `verify_assignment` in source order. Signatures, nonces and
identities are facts of a response. `OpenTemporary`, `WriteTemporary` and `Rename` are
`persist_state`, and `Activate` is what follows it; the files may be `Torn`. `Restart` stops the process between any two of
them. `Clients` has two members only to model a reload that changes `[polyform]`.

**LiveComposition.** A composition is its revision. `primary[g]` is the agreement set
of runtime generation `g`; `captured[t]` is the generation refresh thread `t` was given, and `last` numbers the
reloads, refused ones included. `ScheduleRefresh` is the exchange of `refresh_in_progress`; `Spawn` starts the
thread, `SpawnFails` clears the flag because there is none. A thread clears the flag (`RefreshClears`)
while it still holds the mutex and only then drops it (`RefreshDone`), so a second refresh thread can exist beside
the first and wait for it.

**Connection.** `pc` is the next stage in source order. Bytes after a head are counted in
units: `unread` of them are the request's body, `buffer` came with the head, `socket` is
still in the kernel. The route's action, the framing, `Expect` and the shape of the upstream's response
are `facts`. `raised` records where the first fault arose so that properties can compare it
with what the client is told.

**Server.** A configuration is its version. `main` is where the main thread is; one pass
over the listeners asks each once. The file may be edited at any time, and signals may
arrive between any two steps once the handlers are installed.

**Critical functions.** Each variant keeps what makes it different from the others: where it
stops, in which order it meets faults and which one it reports, how it ranks, what it looks
codes up by. What all five do alike is one operator. In `BodyFraming` a member is a sequence of
digits, white space, the token `chunked` and other bytes, and lengths are computed with the overflow
of `u64`. In `MatchRoute` the grammar of hosts, prefixes and upstream names is a fact of the
rule (`bad`); the five validators were compared by reading only. `bounded_match`'s hash table
is modelled slot by slot. In `RouteSelection` hosts are sequences of labels of one length.
In `HopByHop`, `Upgrade` and `Forwarding` a name or value is a sequence of a few symbols that stand
for the names the code compares with and for the classes of bytes it tells apart; the tries, bit sets, counts and
tables the variants keep are modelled. `ChunkMetadata` and `Trailers` work on bytes: digits, the
separators, quote and escape, a small and a capital letter, padding, controls and the two bytes
of one character outside ASCII.

**BodyReader.** `message` is what is on the wire, with the framing and the `Trailer` fields its head would yield; `taken` counts
the bytes that left the stream, `buffer` and `offset` are `BufferedInput`'s, `output` is the line or
exact read under way. `ReadHead`, `StreamBytes` and `EofBytes` return any number of the next bytes. `Agreed` is `Agreement::run`
over the variants of `parse_chunk_metadata` and `parse_trailer_section`, which really parse the bytes here.
`BeginEof` copies what came with the head of a close-delimited response, `ChargeRemainder` then checks and charges
it. `TakesOneMessage` compares with `Dechunked`, which decodes the whole text at once and knows no buffer.

## 3. The runs

| Run | Shows |
|---|---|
| `memory_budget` | three workers and reloads: exact accounting, the limit, no leak, refinement of `CeilingBudget` |
| `agreement` | unanimity by `width` distinct peers, no `Internal`, `run` executes exactly what `selected_ids` reports, at least `width` of them under every later composition, no successful call of a function that disagreed in the trace until it is taken, termination |
| `polyform_client` | whole state file, the file never behind what is active, no equivocation over history, nothing out of service is assigned, monotone floor, quarantine lifted only by a newer list |
| `live_composition` | no generation ahead of the verified composition, monotone primaries, telemetry accounted for; refreshes end, also when no thread could be started, and reloads end |
| `connection` | nothing unvetted upstream, aligned reuse, `accepted` counts delivered responses, an announced close is kept, connections end |
| `server` | exact counter, cap under reload, refusals only at the cap, no SIGHUP after startup lost, shutdown ends |
| `critical_functions` | the variants of eight functions give the answer the rule asks for. For framing, hop-by-hop headers and telemetry they are the same function; for the other five the properties say on which inputs the variants may report different faults, and for which (a chunk-size line that is not ASCII, a prefix or declared name over its limit) one may refuse what another accepts. Fold and sort select the same route, the most specific eligible one and the earliest declared of equals |
| `body_reader` | however 321 wires are cut into reads, exactly one message is taken, it is refused as malformed only if it is or if more follows, and memory is charged before it is held, with one exception: of a response ended by its stream, the part that came with the head, less than one read, is copied before it is charged; no reader is stuck before it returned |

The remaining runs are disagreements between a document and the code. Each checks one
property that states the document's sentence, and TLC finds the behaviour of the code that
violates it. `findings` quotes the sentences.

| Run | The code's behaviour |
|---|---|
| `polyform_floor_two_clients` | a slow refresh of a replaced client persists an older state over a newer one |
| `live_composition_primary` | a refresh that overlaps a reload installs its composition in the replaced generation, and later refreshes see no change |
| `connection_disagreement_contained` | the response's headers are put to agreement after the request was sent, and a disagreement on a chunked response is counted as an upstream failure |
| `connection_timeout_counted` | on a reused connection a timeout after the head is neither counted nor answered |

Every property of a passing run has a mutant: a faulty variant of a mapped definition, kept
next to the definition and marked "Faulty variant", under which TLC finds the property violated.

### Bounds

* `memory_budget`: three workers, so that two can race while a third releases; sizes 0 to
  2, limits 1 and 3, `MaxUsize` 4, so that a sum can overflow, a limit can be lowered below
  what is charged, and zero-sized requests occur. Workers are interchangeable (symmetry).
* `agreement`: five registry entries, three for one function and two for the function that classifies outcomes. Only the width 2
  can be met by both: exactly, or by the first function with one to spare; widths 3 to 5 are refused when the
  runtime is built and are left to the theorems, which hold for any registry. Two results, one an error; up to two
  runs before the classifying one. One worker: workers share nothing but `primary`, which `UpdatePrimary` changes at
  any moment anyway. The theorems hold for any number.
* `polyform_client`: one function with two implementations, list versions and revisions 1 and
  2, two releases, every status assignment, and one response of each kind that must be refused.
* `live_composition`: two reloads, refused or not, three revisions, four reports against a queue of two. Two refresh
  threads, the most there can be: one that has cleared the flag and one started since (theorem `OneRefreshAlways`).
* `connection`: bodies and buffers of up to two units, two requests; the violation runs need one.
* `server`: three clients and two listeners against a cap of two that a reload lowers to one.
* `critical_functions`: up to three list members in any fields and order, with a limit of 6 and a `u64`
  of 20 so that both are crossed; up to five rules against a limit of four with colliding and
  repeated orders; up to three routes over all kinds of hosts and matches; up to three words; up to
  three fields for the hop-by-hop, upgrade and forwarding functions, with a value limit of 12 that a
  prior value and an addition cross together; up to four pieces of a chunk-size line (line 9 bytes, size 32 in two digits, two
  extensions, names of two bytes) before its CRLF, and three of a trailer section (14 bytes, two fields, names of
  two) before its empty line, so that each limit is met exactly and crossed.
* `body_reader`: a head of at most 6 bytes, size lines of at most 7, bodies of at most 3, trailer sections of at
  most 8. The wires have up to two chunks whose data looks like a line end or a last chunk,
  seven broken chunks, seven endings, each with and without the start of another message behind it, all
  content lengths around the maximum, and heads that are too long or end early.

### Fairness

* `Agreement`: the loop of `run` does not block.
* `LiveComposition`: each network request ends (the agent's timeout of ten seconds) and each thread runs: weak
  fairness only. A thread takes the mutex if it stays free, and no order among those that wait is assumed, since
  `std::sync::Mutex` gives none. A report, or a reload, may pass a waiting thread each time; the bounds make these
  finitely many, and under them `RefreshEnds` and `ReloadEnds` hold. They do not exclude that reports that never
  stop keep a reload waiting for ever; nothing in the code does.
* `Connection`: every blocking call has a deadline (`set_read_timeout`, `set_write_timeout`,
  `connect_timeout`). The deadlines are per call, so a client may stretch a request, not stop it.
* `Server`: the main thread's sockets are non-blocking, time passes during the drain, the
  management thread polls and serves with deadlines. Nothing is assumed of workers or clients.

`MemoryBudget`, `PolyformClient`, `BodyReader` and `CriticalFunctions` have no liveness property and assume no fairness.

Deadlock checking is off where the system may stop: a closed connection, a stopped server, a
complete input, and the two-client run, in which a torn state file keeps the process from registering.

## 4. What is proved

The proofs hold for every value of the constants that satisfies the named assumptions of the
modules: `BudgetAssumption`, `AgreementAssumption`, `ClientAssumption`, `LiveAssumption`, `ServerAssumption`,
`ConnectionAssumption`, `BodyReaderAssumption`, `ChunkAssumption`, `TrailersAssumption`, `FramingAssumption`,
`MatchRouteAssumption`, `ForwardingAssumption` and, about inputs, `HeaderInputs`, `TablesAssumption` and
`ForwardingInputs`. Most say no more than that limits and bounds are numbers, sets that are counted are finite, and that a wire is a
sequence of bytes. Three say more:

* `FramingAssumption`: the limit on a length is less than the largest `u64`, as the code's constant is;
* `HeaderInputs`: a field value has at least one member, since `split` returns at least one piece;
* `ForwardingInputs`: the client's address is canonical, because `process_request` passes
  `peer.ip().to_string()` (P 2805), and the hop the proxy would write by itself is within the value limit, because a
  validated host has at most 253 bytes and the limit is 1024.

Where TLC can evaluate an inductive invariant it was first checked on a small instance.

* **MemoryBudgetProofs** (any finite set of workers, sizes and limits). `Inv` strengthens
  the invariants with `InFlight`: a worker about to exchange has seen its sum fit below the
  highest limit, and a permit in flight exists only between the exchange and the merge or drop.
  Without it a successful exchange could not be shown to stay below the limit, nor a drop to
  return only what was charged. The sum over workers is the cardinality of the set of charged
  bytes, so that one worker's change of it is a fact about finite sets (`TotalUpdate`).
  Theorems: `TypeCorrect`, `AccountingAlways`, `WithinHighestLimitAlways`, `NoLeakAlways`, and
  `Implementation`: the loop refines `CeilingBudget`.
* **AgreementProofs** (any registry, width, quarantine list, number of workers and sequence of
  compositions). `IInv` says that build acceptance left at least `width` admitted
  implementations per function and that each run has called exactly the admitted ones among the
  candidates it visited. When the candidates are exhausted, all admitted ones have been called,
  which contradicts having called fewer than `width`. Theorems: `AgreementTypeCorrect`,
  `UnanimousAlways`, `NoInternalAlways`. `RunsSelectedAlways` compares two algorithms: `run` visits the
  registry and stops at `width` calls, `selected_ids` takes the primary and the peers ranked below
  `width`. The rank of a peer is the number of admitted peers before it; ranks are an injection into as
  many numbers, hence take every one (`RanksFill`), which replaces an induction over the registry.
  `DisagreementTracedAlways` follows the trace through all runs of a request, the classifying one included; it needs that
  a function of the request is run again only while none has disagreed (`Ended`).
* **PolyformClientProofs** (at most one client per process, any inventory, releases and
  responses). `IInv` says that the client compares with exactly what the file holds, so the file
  follows everything ever accepted; between the rename and the activation the file is one verified state ahead, and the
  client compares with nothing in that time; `Follows` is transitive. Theorems:
  `StateFileWholeAlways`, `PersistedBeforeActiveAlways`, `FloorMonotoneAlways`,
  `RestoreNeedsNewListAlways`, `NoEquivocationAlways`, `AssignedInServiceAlways`.
* **LiveCompositionProofs** (any number of revisions, reloads and reports, any queue). `IInv` adds that
  the client is not ahead of the service (`Sources`), so a refresh only moves it forward, and
  `OneRefresh`: who owns the mutex is determined by where the threads are (`Holding`), at most one of them has not yet cleared
  the flag (`Pending`), and the flag is set exactly while there is one or the main loop is about to start it. Theorems: `NeverAheadAlways`, `TelemetryAccountedAlways`,
  `GenerationMonotoneAlways`, `OneRefreshAlways`.
* **ServerProofs** (any number of listeners, connections, configurations and caps). `CapHolds` (the workers do not
  outnumber the cap of one of them) is not inductive: its witness may be the worker that ends. `CapsKept` is: for
  every k at most k workers alive were admitted under a cap of at most k. `Admitting` keeps the comparison between
  `fetch_add` and the spawn, `SignalsKept` where the last signal is. Theorems: `TypeCorrect`,
  `ActiveCountsAlways`, `CapHoldsAlways`, `LastSignalServedAlways`, `RefusedOnlyAtCapAlways`.
* **ConnectionProofs** (any number of units and requests). `Chain` has one link per check: a stage is reached only through the
  one before it, so that `vetted` follows link by link from the last. `Intake` says where the request's bytes are
  at each stage, `Outgoing` that the upstream has something only after the canonical head, `Outcome` that nothing is returned or
  announced earlier, `Counting` how counters and deliveries go together between the reply and its recording.
  Theorems: `ConnectionTypeCorrect`, `NothingUnvettedUpstreamAlways`, `NextRequestAlignedAlways`, `AcceptedMeansDeliveredAlways`,
  `CloseIsKeptAlways`, and `RequestDisagreementContainedAlways`, the part of the threat model's sentence
  refuted by `connection_disagreement_contained` that does hold.
* **BodyReaderProofs** (any message, any cut into reads, any limits). `Charged` says stage by stage what is charged:
  the whole length before the first byte, a chunk between its size line and its data, otherwise exactly what is decoded. It
  rests on what the parsers answer: a chunk size they agree on is a number (`ChunkSize`). `Bounded` is
  the same for lines, exact reads and trailers, and says that what came with the head is shorter than one read, because the
  head ends in the last read (`HeadEndsInRead`). Theorem: `ChargedOrCopiedAheadAlways`, whose one exception is the copy of
  that part. `Position` adds where the reader stands: the
  bytes taken are the head, the part of the body that was read, and what is left in the buffer; an exact read goes
  to the stream only when the buffer is used up; the end of the head does not depend on how much has come
  (`HeadEndOfPrefix`). Theorem: `TakesOneUnchunkedMessage`, which is `TakesOneMessage` for
  messages without a body, with a length or ended by the stream.

* **CriticalFunctionsProofs** (tables, header blocks and codes of any length). The inductive invariant, `TablesBuilt`, is small: an input
  consists of what the actions append, and routes are numbered as `compile_runtime_routes` pushes
  them. The work is in what the functions compute, and most of them are folds. Induction over
  a table is a set of its places that holds 0 and is closed under the next place (`Induction`, from the well-foundedness
  of the naturals), and a fold is the last value of a function of the places (`FoldExists`), so that a loop invariant is a
  predicate of a prefix.
  - *Selections.* The preference of the fold and the order of the sort are the same strict order on
    eligible routes, total because places differ. Theorem: `SelectionsAlwaysAgree`.
  - *match_route.* Each variant is shown equal to the direct one on tables within the prefix limit, except
    `rule_pipeline`, which may report another fault when orders repeat. `bounded_match` inserts the keys of all
    earlier rules into more slots than it has keys, so that the probe ends at the key or at an empty slot. Theorems:
    `MatchRouteVariants`, `MatchRouteAlwaysAgrees`.
  - *apply_forwarding_policy.* Each pass over the block either keeps the one value of every slot or reports the first
    faulty field (`Gathered`); the passes differ only in which of two faults of that one field they name. Theorems:
    `ForwardingVariants`, `ForwardingAlwaysAgrees`.
  - *determine_body_framing.* What each variant knows after a prefix of the block determines what the rule says of
    that prefix: whether the lengths seen agree and on what, whether the codings are the one token, and what the
    first fault was. A variant that stops at the second kind of field, one that goes on and one that streams over digits therefore
    end with the same answer. Theorem: `FramingVariants`.
  - *classify_telemetry_outcome.* Each of the nine codes is evaluated in each variant; any other sequence of words differs
    from each of them in length, in a word or in its fingerprint, and falls through everywhere. Theorem: `TelemetryVariants`; with the one
    before, `VariantsAlwaysAgree`.

Only model-checked:

* liveness (`RunEnds`, `RefreshEnds`, `ReloadEnds`, `ConnectionEnds`, `ShutdownEnds`): the prover has neither fairness nor `ENABLED`;
* `HopAndUpgradeAgree`: the variants filter and flatten sequences (`SelectSeq`, `FlattenSeq`), about which the installed
  library states no theorem and whose definitions the provers do not unfold;
* `ChunkMetadataAgrees` and `TrailersAgree`: byte-by-byte scanners with many states each, compared on inputs up to which they may
  differ;
* `TakesOneMessage` for chunked bodies: it rests on the two properties before, and it does not hold of every
  wire, since `symbol_rule_iterator` refuses quoted bytes that are not ASCII (section 5);
* the two-client case of `PolyformClient`, where the floor is in fact violated, and the other three
  violation runs.

## 5. What is not modelled, and why

* Five critical functions: `parse_request_line`, `normalize_request_target`, `parse_header_section`,
  `validate_authority` and `build_canonical_head` (see the plan).
* Contents of heads, headers and bodies in `Connection`: a check passes or fails with one of
  its faults.
* TLS, sockets and the file system below the calls the code makes.
* `admin_response` (health, readiness, metrics): see the plan.
* The NGINX importer, the command line, the fuzzer and the manifest tool: one-shot
  translations outside the serving process.
* Logging, and the result of `classify_telemetry_outcome`, which the code discards.

Seen while modelling and not the subject of a run:

* SIGTERM, SIGINT or SIGHUP between `install_signal_handlers` and the clearing of the flags (P 1784-1785) is
  forgotten; `docs/operator-guide.md:29` says that SIGTERM starts a graceful shutdown. The window is
  one statement.
* `parse_chunk_metadata`: `composable_segments` counts separators before it looks at an extension,
  `symbol_rule_iterator` refuses quoted bytes that are not ASCII, and bytes that are not UTF-8 followed by other
  faults are reported differently.
* `apply_forwarding_policy`: for a repeated field over the length limit `direct_match` and `decision_table` report the
  repetition, the other three the length.
* `decide_upgrade`: `transformation_matrix` still sees the intent to upgrade after a malformed `Connection`
  member. In the pipeline the hop-by-hop step has refused such a block before.
* `parse_trailer_section`: `direct_table` and `event_automaton` check the declared names before the section, the
  automaton counts fields while it scans, the variants name a long or a padded name differently and report
  different `actual` values for a limit, and `invariant_trie` has no limit on the length of a declared name
  (`trailer_invariant_trie.rs:256`).

  Such inputs are answered as disagreements. Within the bounds no two variants accept an input with
  different results.

* Two of the five `match_route` variants (`immutable_table`, `typed_arithmetic`) do not check the
  limit of 8192 bytes on a prefix, and `rule_pipeline` looks for repeated orders only after
  every rule was validated, so the variants differ on tables with such prefixes, or with both
  repeated orders and a malformed later rule. `route_rules` never repeats an order, and
  requests are matched against a one-rule table, so only loading a configuration
  with such a prefix can meet the difference.
* `read_to_eof_bounded` copies what came with the head of a close-delimited response (P 3906) before it checks the
  length and asks the budget (P 3907, 3910), so that `Busy` may come after the allocation;
  `docs/architecture.md:57-58` says "Exhausting the aggregate budget returns 503 before allocation". The copy is
  shorter than one read of the head, which `ChargedOrCopiedAhead` bounds, and is dropped with the fault.
* A response's header section that is malformed is answered 400 and a close-delimited response
  that is late 408, because `exchange_upstream` leaves these two faults unmapped (P 4061, 4120);
  `docs/protocol-policy.md` names 502 and 504.
* Eligibility includes the path, so a request for a site none of whose routes match may be
  served by a less specific site, the default one included.

## 6. Plan

In this order:

1. The remaining five critical functions in the manner of `ChunkMetadata`: for each, the rule as a reference
   definition and its five variants, checked equal over bounded inputs.
2. The host an authority check returns against the hosts `match_route` admits, which
   `select_runtime_route` relies on.
3. `requested_byte_range` as arithmetic; readiness and metrics (`admin_response`) in `Server`; a reload
   that changes `[polyform]` in `LiveComposition`.
4. Proofs: theorems about `SelectSeq` and `FlattenSeq` in the manner of `FoldExists`, and with them
   `HopAndUpgradeAgree`; the scanners of `ChunkMetadata` and `Trailers`, and with them `TakesOneMessage` for chunked
   bodies without such extensions; a mapping from `BodyReader` to the units of `Connection`.
