# TLA+ verification of frostfs-sdk-go

This directory models the parts of the SDK that have non-trivial control:

- the client call pipeline, `contextCall.processCall` (`src/client/common.go`);
- the container native name attributes (`src/container/attribute.go`);
- `GlobalTrust` signing in the reputation package (`src/reputation/trust.go`);
- the placement-policy engine in `src/netmap`.

The placement-policy engine has three parts:

- **filter compilation** (`processFilters`/`processFilter`);
- **filter evaluation** (`match`, `matchKeyValue`, `applyFilter`);
- **selector evaluation** (`processSelectors`, `getSelection`, `getSelectionBase`).

The models are checked with TLC on small instances. The filter compilation
(type correctness, resolved references, a complete number cache, and
acceptance of exactly the valid policies), the client call, `GlobalTrust`
signing and the native name attributes (no key duplicated; the round trip
from lists without duplicate Name or Zone) are also proved with TLAPS for
every value of their constants.

## The placement engine and how its parts interact

A placement policy names **filters** (predicates over node attributes) and
**selectors** (how many nodes, grouped by which attribute, taken from which
filter). Building the placement context runs the steps in this order:

1. `processFilters` validates every top-level filter in declaration order.
   - It recurses depth first into the inner filters of AND/OR.
   - It registers each top-level filter in `c.Filters` after validation.
   - It caches parsed numeric literals in `c.numCache`.
2. `processSelectors` takes each selector in turn.
   - It checks that the selector's filter is registered.
   - It records the selector in `c.Selectors`.
   - It calls `getSelection`:
     - `getSelectionBase` collects the candidates that match the filter (through `match`, which reads `c.Filters` and `c.numCache`) and groups them by attribute;
     - the buckets are then ordered (sorted, or by HRW under a pivot);
     - they are cut to `nodesInBucket*CBF` nodes;
     - they fall back to backup factor 1 when there are too few full buckets;
     - unused singleton buckets are redistributed round robin.
   - It stores the buckets in `c.Selections`.

The replica assembly that consumes `c.Selections` (`GetContainerNodes`,
`newContext`) is not under `src/` and is not modelled yet.

## Modules

| Module | Models | Kind |
|---|---|---|
| `Filters` | `processFilters`, `processFilter` (filter.go 23-84) | state machine, proof-friendly (no recursion) |
| `FilterMatch` | `match`, `matchKeyValue`, `applyFilter` (filter.go 17-20, 89-149) and the spec's meaning of a filter | RECURSIVE operators, TLC only |
| `FiltersProofs` | theorems about `Filters` | TLAPS |
| `FiltersCacheProofs` | `NumCacheComplete` for every policy (extends `FiltersProofs`) | TLAPS |
| `FiltersValidityProofs` | `AcceptsExactlyValid` for every policy (extends `FiltersProofs`) | TLAPS |
| `MCFilters` | instance of `Filters` and `FilterMatch` for TLC | model |
| `Selection` | `processSelectors`, `GetNodesCount`, `getSelection`, `getSelectionBase` (selector.go 16-167) | state machine |
| `MCSelection` | instance of `Selection` for TLC | model |
| `CallAbstract` | what `processCall` promises its caller | abstract specification |
| `ClientCall` | `processCall` and its stages (common.go 59-276) | state machine, refines `CallAbstract` |
| `ClientCallProofs` | theorems about `ClientCall` | TLAPS |
| `ContainerAttributes` | `setAttribute`, `SetNativeName(WithZone)`, `GetNativeNameWithZone` (attribute.go) | operators and state machine, proof-friendly (no RECURSIVE) |
| `ContainerAttributesProofs` | theorems about `ContainerAttributes` | TLAPS |
| `MCContainerAttributes` | starting attribute lists for TLC | model |
| `GlobalTrust` | `NewGlobalTrust`, setters, `Sign`, `VerifySignature` (trust.go 171-317) | state machine |
| `GlobalTrustProofs` | theorems about `GlobalTrust` | TLAPS |

### Filters

The state is:

- `policy`: the filters of the policy;
- `filters`: `c.Filters`, name to filter or `NoValue`;
- `numCache`: `c.numCache`;
- `i`: the loop index of `processFilters`;
- `stack`: the pending work of the recursion;
- `err`: the returned error.

The recursion of `processFilter` is an explicit stack. It holds *check*
items (`processFilter(f, top)`) and *register* items (line 80, which runs
after all inner filters passed). Every check of the code is its own action,
taken in the code's order:

- `RejectName`: lines 39-49. This covers the reserved name, an unnamed top filter, and an inner named filter that is not registered.
- `ExpandGroup`: lines 51-57. It pushes the inner filters in order.
- `RejectInner`: lines 58-60.
- `SkipReference`: lines 61-62.
- `AcceptLeaf`: lines 65-73. EQ/NE pass; GT..LE parse the value and write `numCache`.
- `RejectLeaf`: the invalid number (line 70) or the invalid operation (line 75).
- `Register`: lines 79-81. A later filter of the same name overwrites the entry.

`Fail` empties the stack: an error returns through every level of the
recursion. `StartFilter` is one iteration of the loop of lines 25-29.

Filters are records of nesting depth at most 2: `Filter2` ⊇ `Filter1` ⊇ `Filter0`.
That is the depth of every input the model enumerates, so the module
needs no recursion. `ParseUint` is a constant table from literal to number,
or `NoValue` when `strconv.ParseUint` fails. It is not the identity: "04"
and "4" parse to the same number, and "x" fails.

### FilterMatch

- `Match` and `MatchFrom` are the short-circuit loop of `match`.
  - A named inner filter is replaced by `c.Filters[name]` (line 93-95).
  - The loop returns as soon as `ok == (op == OR)`.
- `MatchKeyValue` follows lines 109-149.
  - Price and Capacity come from the node's fields, and other keys are parsed from the attribute.
  - A parse failure fails the filter.
  - A `numCache` miss reads 0.
- `Meaning` is the spec's section 4.1 semantics, used as the reference.

### Selection

The state is:

- `cbf`, `pivot` and `rank` (the HRW order under the pivot);
- `selectors`;
- `sIdx`: the loop index;
- `selTable`: the names in `c.Selectors`;
- `selections`: `c.Selections`;
- `err`.

`getSelection` is one step, `GetSelection(s, ord)`. It is built from
helpers named after the parts of the function:

- `SelectionBase`: lines 127-167;
- `Ordered`: lines 60-74;
- `FullBuckets`, `FallbackBuckets` and `WithFallback`: lines 76-95;
- the HRW sort: lines 97-104;
- `RestFrom`, `Redistributes` and `Redistribute`: lines 106-115.

`ord` is the order in which Go iterates over `nodeMap`. It is a
nondeterministic choice, so every property is checked for every iteration
order. The outcomes of `getSelection` are:

- `ok` with the buckets;
- `NotEnoughNodes`;
- `panic`: the integer division by zero of line 109, which the code really
  reaches.

Data abstractions:

- Node IDs are numbers.
- Attribute values are numbers ordered as the strings they stand for, with 0 for an absent attribute.
- Which nodes a filter matches is the constant `Matches`; the filter engine is checked separately.
- HRW is a ranking of the nodes chosen in `Init` for each pivot (`WeakOrders`): any weak order, so two nodes may score equally, and a bucket ranks as its first node (`Nodes.Hash` is the hash of `nodes[0]`). Equal scores happen when the weights computed at lines 97-103 are equal (the comment of lines 60-62 names the case). `SortBy` is stable, which is how `hrw.SortSliceByWeightValue` keeps equal-score items in their input order; this is an assumption about the `hrw` library, which is not part of `src/`. Without a pivot the code uses the unstable `sort.Slice`, which the stable `SortBy` matches only where the keys differ: a node ID, or an attribute value taken from a map key. Buckets with equal keys, where the two sorts could differ, are not reached by the model.

### ClientCall and CallAbstract

Every SDK method builds a `contextCall` and runs `processCall`. The call goes
through stages in a fixed order; each stage can fail, and a failure ends the
call with `false` and the reason in `x.err`:

1. `writeRequest`: `prepareRequest` (TTL, version, network magic), clear the
   verification header, `SignServiceMessage`, then `wReq`, which `processCall`
   sets to the unary `x.call()` writing `x.resp`.
2. `readResponse`: `rResp` (streams) reads a new `x.resp`, then
   `processResponse`: the response callback on the body signature's key, then
   signature verification, then the status (an error if `resolveAPIFailures`,
   otherwise recorded by `setStatus`).
3. `close`: `closer`, then `result(x.resp)`.
4. `return x.err == nil`.

The state of `ClientCall` is:

- `params`: `resolveAPIFailures` and whether `callbackResp`, `rResp`, `closer`, `result` are set;
- `req`, `sent`: the request (meta and verification headers), and what was handed to the transport;
- `resp`, `status`, `result`: `x.resp`, `statusRes`, the result structure;
- `err`, `pc`, `ret`: `x.err`, the next stage, the returned value.

There is one action per stage: `WriteRequest`, `ReadResponse` (with
`ProcessResponse`), `Close`, `Return`. Each stage's failures are disjuncts
of its action, in the code's order. The transport and the server are the
environment: a response is any `[key, sig, st]`. The key is a member of
`Keys`, of which the callback trusts `Trusted`. `sig` says whether the
signatures verify, and `st` is success or failure.

`CallAbstract` is the contract with the stages abstracted away. The call ends
`ok` or `error`. Before it ends, it may record once the status of an
*acceptable* response: one that is signed, that the callback accepts, and
that is successful unless failures are not resolved. It ends `ok` only after
recording a status, and then the result is filled from that same response.
`ClientCall` implements it through the refinement mapping:

- `outcome` is `pending` until `pc = "done"`;
- `result` is visible only then.

**No fairness.** `Spec` has no fairness condition. The stages are RPCs and
a user callback, and nothing in the code bounds how long they take, so the
project claims no liveness for `processCall`.

### ContainerAttributes

- `SetAttribute` is `setAttribute`. `FirstIndex` is its loop (lines 83-89): the least index of `KeyIdx`, the indices holding the key, or 0. The action overwrites that attribute's value (`SetValue`) or appends a new attribute.
- `GetNativeNameWithZone` is `iterateAttributes` with the handler of lines 128-136, in closed form. `Seen(as, key, n)` is what the handler holds after the first `n` attributes: the value of the last attribute with the key among them, or "". `Stops` is the set of indices where both values are non-empty; the loop returns after the least of them, or after the last attribute.
- The state is the list `attrs`, plus the history variable `last`: the pair of the last `SetNativeName(WithZone)`.
- The starting list is any list of `InitAttrs`.

### GlobalTrust

The state is:

- `version`;
- `body`: `NoBody`, or a record whose `trust` is a *pointer*;
- `trusts`: the caller's `Trust` objects, which `body.trust` points into;
- `sig`;
- `signed`: a history variable, what the body read at the last `Sign`.

`SetTrust` stores the caller's `*Trust` itself, because `Trust.ToV2` is a
pointer cast. So `EditTrust`, the caller's `SetValue`/`SetPeer`, changes the
body as well. `BodyOrNew` is `setBodyField`'s lazy creation.

- `Marshal` is `StableMarshal` of the body: its set fields in field order, with the trust dereferenced.
- A signature is abstracted to the key and the signed bytes, which stands for a correct ECDSA scheme.

## Runs

| Run | Checks | Result |
|---|---|---|
| `filters_pass` (`MCFilters.cfg`) | `TypeOK`, `RefsResolved`, `NumCacheComplete`, `AcceptsExactlyValid`, `MatchAgreesWithMeaning` | pass, 206,312 states |
| `filters_ref_cycle` | `RefGraphAcyclic` | violation (finding) |
| `filters_inline_group` | `InlineGroupEvaluated` | violation (finding) |
| `selection_pass` (`MCSelection.cfg`) | `TypeOK`, `BucketsBounded`, `NoNodeTwice`, `GroupedByAttribute`, `NotEnoughExact`, `DeterministicWithoutPivot` | pass, 158,224 states |
| `selection_hrw_ties` | `Deterministic` | violation (finding) |
| `selection_full_preferred` | `FullBucketsPreferred` | violation (finding) |
| `selection_no_panic` | `NoPanic` | violation (finding) |
| `client_call_pass` (`ClientCall.cfg`) | `SentRequestSigned`, `ReturnContract`, `Refinement` | pass, 7,176 states |
| `client_problem_status` | `ProblemReturnsFalse` | violation (finding) |
| `attributes_pass` (`MCContainerAttributes.cfg`) | `RoundTrip`, `KeysStayUnique` | pass, 1,333 states |
| `attributes_duplicates` | `RoundTrip` | violation (finding) |
| `global_trust_pass` (`GlobalTrust.cfg`) | `VerifyIffUnchanged` | pass, 14,400 states |

What the passing properties say:

- **RefsResolved**: every name `match` looks up in a registered filter is registered, so line 94 never dereferences nil.
- **NumCacheComplete**: every GT/GE/LT/LE literal that `match` evaluates is in `numCache` with its parsed value. A miss would silently compare against 0.
- **AcceptsExactlyValid**: when `processFilters` returns, it returns nil exactly for the policies that section 4.1 calls valid. References must go to names declared earlier.
- **MatchAgreesWithMeaning**: whenever the reference graph is acyclic, `applyFilter` equals the spec's meaning on every test node. The test nodes have numbers written two ways, non-numbers, absent attributes and both Capacity sides.
- **BucketsBounded**: a selection has `bucketCount` buckets, each with between `nodesInBucket` and `nodesInBucket*CBF` nodes.
- **NoNodeTwice**: no node is placed twice, and every placed node is a candidate.
- **GroupedByAttribute**: with an attribute, buckets and attribute values correspond one to one.
- **NotEnoughExact**: `ErrNotEnoughNodes` is returned only when even backup factor 1 cannot be met.
- **DeterministicWithoutPivot**: without a pivot, the result does not depend on Go's map iteration order.
- **SentRequestSigned**: every request handed to the transport has a TTL, a version and this network's magic. It has exactly one verification header, over its final meta header; a header left on a reused request is dropped, not wrapped.
- **ReturnContract**: `processCall` returns true exactly when `x.err` is nil.
- **Refinement** (`CallAbstract!ASpec` as a property): the stage machine implements the call contract. A status comes only from a verified, callback-accepted response, and success comes only after a status.
- **RoundTrip**: from lists with at most one Name and one Zone, what `SetNativeName(WithZone)` set is what `GetNativeNameWithZone` reads.
- **KeysStayUnique** (an action property): a step never duplicates a key the list had once.
- **VerifyIffUnchanged**: `VerifySignature` succeeds exactly while the body reads as at the last `Sign`. An edit through the aliased `*Trust` invalidates it; `SetVersion` and a lazily created empty body do not.

### Findings (the violation runs)

1. **Self-referencing filter.** Two top-level filters may share a name. `[A: Rating EQ x, A: AND(A)]` is accepted, because the inner `A` resolves to the first filter. Registration then overwrites `A`, so `c.Filters["A"]` refers to itself and `match` recurses forever. Spec section 9 says cycles cannot happen.
2. **Named inner AND/OR.** A named inner AND/OR with inner filters is validated as an inline group. `match` evaluates `c.Filters[name]` instead. In the trace that entry is a top-level filter of the same name declared after it. Spec section 9 says the named group is treated as inline.
3. **Full bucket displaced.** Under a pivot, the fallback buckets are appended and everything is HRW-sorted before the cut to `bucketCount`. A full bucket can therefore be displaced by fallback buckets, against spec section 4.3 step 5.
4. **Division by zero.** `DISTINCT` with count 0 and no attribute gives `bucketCount` 0. The code then panics at `i % bucketCount`. Spec section 5 says every error is returned.
5. **A failed status returns true.** The comment of `processResponse` (common.go 156-157) says a problem status makes it return false. With `resolveAPIFailures` off, the code records the failed status and returns true (line 198). `processCall` then returns true, and when the call has a result structure (`params.result`) `close` fills it from the failed response.
6. **Duplicate Name attributes.** `setAttribute` overwrites only the first attribute with the key. `GetNativeNameWithZone` takes every Name it meets until the zone is read. From `<<Name="", Name="">>`, `SetNativeNameWithZone(c, n, "")` reads back `""`, although `TestGetNameWithZone` expects what was set. `SetAttributes` and decoding accept such lists.
7. **HRW ties depend on map order.** The comment of `getSelection` (lines 60-62) says equal-weight buckets keep their input order in HRW, so that input must be deterministic; spec section 8 says selection is deterministic. The buckets are sorted only without a pivot (line 64). With a pivot they reach HRW in `nodeMap` iteration order (line 155), and when all nodes score equally the selected bucket changes with that order.

### Bounds and why they suffice

**MCFilters.** Two user names. Keys: "", Rating and Capacity. Literals: "", "4", "04" and "x".

- The policies are every single top-level filter and every pair. The first of a pair is a leaf or a one-child group; the second is any filter.
- The inner filters cover every branch of `processFilter`:
  - references to a declared name, an undeclared name and "*";
  - inline leaves of every kind (valid number, invalid number, EQ, Capacity);
  - inline groups that themselves reference a name;
  - a named group with inner filters;
  - a leaf carrying inner filters.
- Pairs are needed for declared-earlier references, redefinition and self-reference.

**MCSelection.** A five-node netmap in a non-sorted order.

- One node is outside the subnet, and a filter excludes one node.
- Country values: two nodes share one, one node has none.
- Every clause, count 0-3, both attribute settings, "*", a declared filter and an undeclared filter.
- CBF 1-3, with and without a pivot, and every HRW ranking of the five nodes, ties included (541 weak orders).
- This reaches every outcome: full buckets, fallback, redistribution, NotEnoughNodes, FilterNotFound and the panic.

**ClientCall.** Two keys, one of them trusted, and every parameter
combination. Every meta header with TTL 0-2, with or without a version and
magic, or none at all. A request with or without a leftover verification
header. Every response. That is every branch of every stage.

**MCContainerAttributes.** The keys are Name, Zone and one other. The values
are "", one name and the default zone. Lists have up to 3 attributes, enough
for a duplicate and for Zone before or after Name.

**GlobalTrust.** Two versions, two managers, two Trust objects with two
values each, one key and the nil key. So two edits and a re-sign can
interleave.

Every action and every disjunct of the next-state relations fires in the
passing runs. Both runs end by stuttering (`Terminated`), because
`processFilters` and `processSelectors` return.

### Mutants

Each property of a passing run is broken by a plausible bug, given as an
operator defined just before the code definition it replaces (see
`PROJECT.json`):

- a skipped loop index;
- the FilterNotFound lookup dropped;
- the numCache write dropped;
- registration before the inner checks;
- a parse error ignored;
- the wrong table key;
- no truncation;
- fallback = nodes;
- the line-106 guard dropped;
- no fallback;
- no sorting;
- verification header not cleared;
- the resolve flag ignored in the return value;
- signature verification skipped;
- `GetNativeNameWithZone` stopping at the first value (for `RoundTrip`);
- `setAttribute` always appending;
- marshalling the trust pointer instead of the Trust.

## What is proved (FiltersProofs)

The constant assumption `ConstAssumption` of `Filters` states:

- the reserved names are not user names;
- `ParseUint` maps literals to numbers or `NoValue`;
- `NoValue` is not a number and not a filter;
- policies are sequences of depth-two filters.

From it, the theorems below hold for every value of the constants.

- **`TypeCorrect`**: `Spec => []TypeOK`.
  - `TypeOK` alone is not inductive. Registering `Cur.f` needs its name to be a user name, and the name checks only establish that for top-level filters.
  - The strengthening `TypeInv` adds `StackShape`: a register item is the last item of the stack and names a user filter, and a top-level check is the only item.
- **`RefsAlwaysResolved`**: `Spec => []RefsResolved`.
  - The inductive invariant `RefInv` adds `RegCovered`: the names a pending registration refers to are registered, or will be verified by a check still on the stack.
  - "Will be verified" (`Covers`) means: a reference item verifies its own name (the FilterNotFound check), and an inline item verifies the names it refers to.
  - The core lemma is `ExpandCovers`: the checks of an AND/OR's inner filters cover everything the AND/OR refers to.
  - The per-action proof shows that what is pending before a step is registered or pending after it.
  - `Register` runs only when it is the single item left, so at that point nothing is pending and its references are registered.

Both invariants were model-checked with TLC before they were proved.

## What is proved (FiltersCacheProofs, FiltersValidityProofs)

Both modules extend `FiltersProofs` and reuse its lemmas about the stack: `TypeInv`, `HeadFacts`, `ExpandGroupStack`, `ThenRange`, `PendingConcat` and `RegLast`.

- **`NumCacheAlwaysComplete`**: `Spec => []NumCacheComplete`.
  - Every GT/GE/LT/LE literal in a registered filter has its parsed value in `c.numCache`.
  - `NumCacheComplete` alone is not inductive. `Register` adds a filter whose inner comparisons were cached by earlier steps, and the invariant does not record that.
  - The strengthening `NumRegCovered` says the literals of a pending registration are cached, or will be cached by a check still on the stack (`NPending`).
  - `ExpandNums`: the checks of an AND/OR's inner filters cache every literal the AND/OR evaluates inline.
  - `CachedGrows`: no step removes a cached literal.
- **`AcceptsValidPolicies`**: `Spec => []AcceptsExactlyValid`.
  - Once `processFilters` has returned, it has returned nil exactly when the policy satisfies `PolicyValid`.
  - `PolicyValid` means every filter is well named and well formed (`Valid2`), and refers only to filters declared before it.
  - The inductive invariant `ValInv` follows the loop:
    - after an error the stack is empty and the policy is invalid;
    - without an error, the filters finished so far are valid against the names declared before them (`Dec`), and exactly those names are registered;
    - while a filter is in progress, its `Valid2` verdict equals "every check left on the stack passes" (`ItemOK`);
    - a registration of the current filter is on the stack unless the stack is its single top-level check.
  - The core lemmas:
    - `ExpandValid`: an AND/OR passes exactly when the checks of all its inner filters pass;
    - `LeafValidIff`: a leaf check passes exactly when `processFilter` accepts it;
    - `FailValid`: a failing check makes the policy invalid;
    - `KeepValid`: a passing step keeps the verdict.

`NumRegCovered` and `ValInv` were model-checked with TLC on `MCFilters` (206,312 states) before they were proved.

## What is proved (ClientCallProofs)

`CallAssumption` says:

- the trusted keys are keys;
- the magic is a natural number;
- the sentinels `NoStatus`, `NoResult` and `NoResp` are not responses.

The inductive invariant `Inv` strengthens `TypeOK /\ SentRequestSigned /ReturnContract` with what each stage knows:

- no status and no result before `close`;
- `resp` is a response from `read` on;
- at `close` and `return` the status is `resp` and `x.err` is nil;
- at `return` the result is set as `params.result` says.

The last two are what make the refinement go through: `Return` with `ret`
true maps to `Succeed`, and needs the status and the result to agree. The
lemmas `PrepareFacts` and `SignedFacts` give what a prepared and a signed
request look like.

- **`RequestsWellSigned`**: `Spec => []SentRequestSigned`.
- **`ReturnMatchesErr`**: `Spec => []ReturnContract`.
- **`CallTypeCorrect`**: `Spec => []TypeOK`.
- **`Refines`**: `Spec => CallAbstract!ASpec`. The step lemma `StepRefines` shows that each `ClientCall` step is a contract step or a stutter:
  - `ProcessResponse` success is `SetStatus`;
  - `Return` is `Succeed` or `Fail`;
  - any other failure is `Fail`;
  - everything else stutters.

## What is proved (GlobalTrustProofs)

`TrustAssumption` keeps the sentinels `Nil`, `NoBody` and `NoSig` apart from
real values.

- `GInv` says `sig` is set exactly when `signed` is, and that then `sig.data = Enc(signed)`, where `Enc` is marshalling expressed on what a reader sees.
- `ContentFacts` shows `Marshal(body) = Enc(Content)`.
- `EncInjective` shows marshalling loses nothing a reader sees.

**`SignatureTracksBody`**: `Spec => []VerifyIffUnchanged`, for every set of
managers, Trust objects, values and keys.

## What is proved (ContainerAttributesProofs)

`AttrAssumption` makes Name and Zone distinct keys, keeps `NoLast` apart
from the pairs of values, and makes every starting list a list of
attributes.

Lemmas about the operators:

- `IdxExtrema`: a non-empty set of indices has its `MinIdx` and `MaxIdx` in it, least and greatest. The least element comes from `WFMin` on the well-founded `<` of `Nat`; the greatest from the least of `{n - j : j \in I}`.
- `FirstIndexFacts`: `FirstIndex` is 0 exactly when no attribute has the key, and otherwise an index whose attribute has it.
- `SetAttributeFacts`: `setAttribute` keeps a list of attributes, keeps every key held once held once, makes the key hold the value, and keeps the value of every other key.
- `SetNameZoneFacts`: the same for the two calls of `SetNativeNameWithZone`. The name survives the zone's call because Name and Zone differ.
- `SeenOne` and `ReadBack`: with one Name attribute of value `nv` and one Zone attribute of value `zv`, `GetNativeNameWithZone` returns `<<nv, zv>>` wherever the loop stops. At a stop both values are non-empty, so both attributes are already read; without a stop, the whole list is read.

Theorems:

- **`TypeCorrect`**: `Spec => []TypeInv`.
- **`KeysStayUniqueHolds`**: `Spec => KeysStayUnique`, from any starting list, since `SetAttributeFacts` holds for every list of attributes.
- **`RoundTripHolds`**: `UniqueStart => (Spec => []RoundTrip)`. `UniqueStart` says every starting list holds at most one Name and one Zone attribute. The inductive invariant is `UInv`: the type, both keys unique, and, once a setter ran, the list holds `last`'s name and zone. `RoundTrip` alone is not inductive: a list with two Name attributes of the same value satisfies it, and the next `SetNativeName` overwrites only the first of them. `UInv` was first checked by TLC from every state of the model that satisfies it, and then proved. Without `UniqueStart` the theorem is false: that is the finding of `attributes_duplicates`.

What stays with TLC only:

- `FilterMatch` uses RECURSIVE operators, so everything about `match` is checked on the model instance only.
- `Selection` (`TypeOK`, `BucketsBounded`, `NoNodeTwice`, `GroupedByAttribute`, `NotEnoughExact`, `DeterministicWithoutPivot`): these depend on what the sorting and redistribution operators compute for every input. That needs induction over data, which the installed provers cannot instantiate.
- No liveness property is claimed (see ClientCall, No fairness); ENABLED and liveness are in any case outside what the installed provers handle.

## Not modelled

- `src/reputation/trust.go`: `PeerID`, `PeerToPeerTrust` and the Marshal/JSON helpers are data plumbing.
- The `client` package's transports, status decoding and error wrapping are abstracted to a response's key, signature validity and success.
- `src/version/version.go` is pure data and will not be modelled.
- The Filter and Selector accessors and encodings are data plumbing.
- The placement context and replica assembly are outside `src/`.
