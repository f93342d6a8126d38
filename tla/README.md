# A TLA+ model of jwtlet

jwtlet exchanges Kubernetes service account tokens for signed JWTs. A client
sends its token to the exchange server, which asks the API server who the
client is (TokenReview), looks up what that client may do in a participant
context, and has Vault sign a token with the claims of the granted scopes. A
second server, the management API, changes that policy. The policy is in memory
or in Postgres.

This directory models the policy and its stores, the two servers' handling of
it, the verifier with its own token, and the life of the process from its
configuration to its exit. TLC checks small instances; TLAPS proves the main
results for every instance.

## Inventory

| Part | Source (crates/) | Module |
|---|---|---|
| Policy data, validation, claim merge, audience choice | jwtlet-core `resource/mod.rs`, `token/mod.rs` | `Policy`, `Expansion_proofs` |
| Store contract and memory store | jwtlet-core `resource/mod.rs`, `resource/mem.rs` | `ResourceStore` |
| ResourceService | jwtlet-core `resource/mod.rs` | `ResourceService`, `ResourceService_proofs` |
| Token endpoint, TokenExchangeService | jwtlet-server `exchange/`, jwtlet-core `token/mod.rs` | `TokenExchange`, `TokenExchange_proofs`, `Expansion_proofs` |
| Management API, role check | jwtlet-server `management/`, jwtlet-core `saccount/` | `Management`, `Management_proofs` |
| Postgres store | jwtlet-postgres `resource_store.rs` | `PostgresStore`, which implements `AtomicStore`; `PostgresStore_proofs` |
| TokenReview verifier, SA token renewal | jwtlet-core `k8s/` | `SaToken`, which implements `Verifier`; `SaToken_proofs` |
| Server lifecycle, telemetry | jwtlet-server `server/`, `main.rs`, `telemetry/` | `ServerLifecycle`, `ServerLifecycle_proofs` |
| Configuration, assembly | jwtlet-server `config/`, `assembly/` | `Startup`, `Startup_proofs` |
| Metadata and key endpoints | jwtlet-server `meta/`, `exchange/` | not modelled |

`PROJECT.json` lists every part, the source lines of every definition, and the
hazards with the properties that would catch them.

## How the model is built

- **Data.** Scopes are numbers in the order of their strings, because
  `verify` walks a `BTreeSet`. A claim of an expansion is the sequence of the
  values joined into it; writing strings one after another with a space is
  concatenation of sequences. `None` is Rust's `None`. Blank names and scope
  names with whitespace are members of the constants `Blank` and `BadScopes`.
- **Store operations** are actions with a parameter `res`, the result they
  return. `MemoryResourceStore` holds its lock for a whole operation, so each is
  one step. A Postgres statement is one step too, and so is the batch insert:
  `PostgresStore` shows that its transaction behaves like one.
- **`TokenExchange`.** A request is a little process: `verify`, `resolve`,
  (`resolve_scopes` with Postgres), `build`, `sign`, and then its outcome. Each
  of these is a stretch of code between awaits. The memory store reads mapping
  and scope mappings under one lock; Postgres runs two queries that are not in
  one transaction, so policy changes come between them. `ExternalWrite` puts
  rows into the database that `ResourceService` never validated.
  `history` records every version of the policy and the time it took effect. It
  is there for the properties only.
- **`Management`.** A call goes through `authorize`, `handle`, `reply` to its
  answer. The store has changed when its operation returns; the audit event
  follows in a step of its own, because the lock is released in between. With
  Postgres, a statement can fail, its reply can get lost after the work is done,
  and a caller that hangs up drops the handler. With the memory store nothing
  awaits between the change and the event, so a handler cannot be dropped there.
- **`PostgresStore`.** A call gets a connection of the pool and is then a session
  on the server. All operations are one statement, except for the batch, a
  transaction that inserts row by row. A row inserted by an open transaction
  makes other inserts of its key wait; the server aborts a transaction of a
  circle. `Lose` ends a call in an error at any moment; what the server has
  received by then runs on (`Execute`, `Commit`) or never arrived
  (`NeverArrives`). `AtomicStore` is what callers assume: an operation takes
  effect at once and at most once, with a result of `ResourceStore`, and an error
  leaves open whether it did. `INSTANCE AtomicStore` maps `performed`
  to the server's answer.
- **`SaToken`.** jwtlet's own tokens are numbered as the kubelet writes them; the
  API server refuses those before `oldest`. The watcher's callback sends into a
  channel of `Capacity` events and drops what does not fit. The
  renewer and `refresh_sa_token` read the file in one step and write the cache in
  another, since they wait for a lock in between. `Faults` switches on failing
  reads, a failing API server and a failing watcher. `noticed`, `missed` and
  `since` are there for the properties only. `Verifier` is what the exchange and
  the management API assume of `verify_token`: it is decided once, and accepts
  only what the cluster vouches for.
- **`ServerLifecycle`.** `main`, the two server tasks, the `CancellationToken`, the
  `JoinSet`, open requests, and their spans. The batch span processor of the
  OpenTelemetry SDK is external: it queues a span that ends, drops it when the
  queue (`QueueSize`) is full, loses a batch that it cannot deliver, and takes no
  more once it is shut down. jwtlet hears of none of that, and `lost` records what
  was dropped on the way. Only the final shutdown reports an error, that of its
  last batch (`flush_failed`).
- **`Startup`.** A configuration is a function from options to values that the
  checks tell apart. `validate` collects all broken rules; the assembly then
  contacts one service after another and looks at some options again.

Left out on purpose: the contents of signatures, `jti`, logging, JSON syntax,
and a caller of the exchange server that hangs up (its request has no effect on
anything). The lists of the management API only read the store.

## What the runs check

| Run | Question | Properties |
|---|---|---|
| `policy` | Can any call or batch leave an invalid row behind? Does the claim merge compute what its comments promise, for every table of three scopes and every set of requested scopes? | `PolicyValid`, `ExpansionCorrect` |
| `exchange_memory` | Is every token explained by the policy in force while the request ran, and how long does a revoked client keep a token? | `TypeOK`, `IssuedJustified`, `RevocationBounded` |
| `exchange_postgres` | The same, for tokens and for refusals, when the two reads see different versions and rows were never validated. Is every request answered? | `IssuedJustified`, `ClaimsAsDefined`, `RefusalJustified`, `EveryRequestAnswered` |
| `management_memory` | Is the audit trail sound and complete, are roles and rows kept apart, and is every write one of the service's? | `MTypeOK`, `AuditSound`, `AuditComplete`, `RolesSeparated`, `PathNamesRows`, `WritesThroughService` |
| `management_postgres` | Do answers tell the truth when the database fails, which events can be missing then, and does every call end? | `AnswerHonest`, `SuccessAudited`, `EveryCallAnswered` |
| `sa_token` | Can a stale cache, a full channel or a dead renewer make a call fail? Is a rotation ever lost? Does the verifier implement `Verifier`? | `SaTypeOK`, `FailsOnlyForTheFile`, `NoLostWakeup`, `RotationsNoticed`, `RenewerEnds`, `KeepsPromise` |
| `postgres` | Does a batch that is inserted row by row, waits, deadlocks or loses its connection still act in one step, and does it leave only rows that were asked for? Can waiting for connections and rows bring the store to a halt, and does every call return? | `PgTypeOK`, `HeldOnce`, `RowsAccounted`, `NeverStuck`, `ActsAtomically`, `WorkShrinks`, `EveryCallReturns` |
| `lifecycle` | Are open requests answered before the exit, and does the flush come after the last of their spans? What does the exit status tell? Can the shutdown hang, and do the servers stop together? | `LTypeOK`, `NoRequestCut`, `SpansExported`, `ExitStatus`, `NeverHangs`, `StopTogether` |
| `startup` | Is a bad configuration refused before anything is contacted, and does the assembly find nothing that the validation missed? | `SuTypeOK`, `FailFast`, `NoLateConfigurationError` |

A property that both backends share is checked where it is hardest: the refusals
in `exchange_postgres`, whose two reads may disagree; the theorems below cover
both. `StoreTypeOK` is a conjunct of `TypeOK` and of `MTypeOK`.

All of these hold. `IssuedJustified` is the central one: a token is handed to
the signer only if one version of the policy that was in force between the
arrival of the request and now entitles the client to all of the scopes and to
the audience. Its claims come from the same version (memory), or from that or a
later one (Postgres). `ClaimsAsDefined` says what they are without mentioning
the loop that computes them: every key that a requested scope defines in that
version, but for the reserved ones, with the values of all its scopes in scope
order. `RevocationBounded` says what that means in time: a token
outlives a lasting revocation by at most `token_ttl_secs` plus the time its
request was already in flight, because `exp` is computed after the policy is
read. The threat model (T7) names `token_ttl_secs` alone.

`NeverStuck` and `NeverHangs` are about halts that fairness cannot cure. They
name the guards of the fair steps one by one (`CanProceed`) instead of using
`ENABLED`, so that they can be proved; on the instances of the two runs, TLC finds
`CanProceed` equivalent to `ENABLED` of those steps. Losing a connection and a
panic do not count as going on. `NeverStuck` depends on `save_scope_mappings`
executing each `INSERT` on its transaction: on the pool (`CanInsertThroughPool`)
two batches would wait for a connection that neither gives back.

`SpansExported` is about what `main` owes its spans, that the flush comes on every
path to the exit and after the last request. It does not say that every span
arrives: the SDK may have dropped some (`lost`), and it says nothing when the
shutdown of the provider reported an error. `ExitStatus` is the most that status 0
can mean, because `handle_task_result` only logs how a server ended: a process
whose servers failed to bind exits with 0 too.

Three runs show where the documentation says something else than the code does:

- `duplicate_claim_key`: two requested scopes that define the same key with
  strings are joined; `docs/security-architecture.md` (invariant 6) says that the
  exchange fails.
- `audience_status`: an audience that is not permitted is answered with 403;
  the same document (invariant 4) says 401.
- `audit_after_lost_reply`: with Postgres, a mutation whose reply is lost leaves
  no audit event; the same document says every mutation emits one.
  `SuccessAudited` is what remains of it with Postgres: the caller of such a
  mutation was never told that it succeeded.

### Observations without a run

While `SaToken` and `Startup` were written, TLC also refuted the following
formulas. They are not among the runs; adding the formula as an invariant (or,
for the third, as a property) reproduces each. The first three do
no harm to callers: `FailsOnlyForTheFile` holds in spite of them.
`AtRest` stands for: the verifier is ready and watching, nothing was missed, no
event, read or call is under way.

- `AtRest => cache = file` fails: `initialize` reads the file
  (`k8s/mod.rs:84`) before it starts the watch (line 93), and a rotation in
  between raises no event. The comment at lines 75-76 has the task update the token
  "whenever the kubelet rotates it".
- `(AtRest /\ read = file) => cache = file` fails: a `refresh_sa_token` that read
  the file before a rotation writes its token (line 124) over the newer one that
  the renewer has stored since.
- `[][phase = "dropped" => cache' = cache]_savars` fails: `select!` may take a
  pending event although the shutdown is ready too, and finishes a read that has
  begun. `k8s/tests/renewal.rs:116` says "state must not change"; the file of that
  test never changes.
- `min_connections <= max_connections`, with sqlx's defaults for what is
  unset, fails: `validate` (`config/mod.rs:307`) compares them only when both are
  set, so that a minimum of 11 passes with the default maximum of 10.

### Bounds

- `MaxWrites` (3): create a row, change it, take it away, at
  any points of a request. The properties compare two reads, and three changes
  are enough for versions before, between and after them.
- `MaxClock`, `Ttl` (1): a request can be overtaken by one tick. Only
  differences of times matter.
- One request: requests do not write, so they do not affect
  each other. The proofs cover any number.
- Two scopes, two mappings, one non-default audience, a string and a non-string
  claim: every branch of `verify` and `resolve_audience` is taken.
  `ExpansionCorrect` has three scopes, because the order of merging shows only
  then, and all claim maps over two usable keys.
- Three calls in `management_memory` (a create and two that compete for the
  row), two in `management_postgres`. Calls are interchangeable, so the former
  uses symmetry.
- `postgres`: three calls and two connections, so that two batches can wait for
  each other while a third call waits for a connection.
- `sa_token`: three tokens (`MaxVersion`), so that a second rotation meets the
  events and the retry of the first; a channel of one event (`Capacity`; the code
  has 100), so that it is full at once. One call; the proofs cover any number of
  them, of tokens, and any capacity.
- `lifecycle`: three requests, so that one server can have two and
  the other one; a span queue of two (`QueueSize`; the SDK has 2048), so that it
  can be full, and so that the last flush can lose one batch of two.
- `startup`: a good configuration, at most one option changed or removed in
  the file and one more in the environment. The rules relate at most two options.

Deadlock is not checked where all requests or calls of an instance can be over
and the bounds be reached: then nothing is left to do. `ServiceSpec` never stops
and is checked for it.

### Fairness

Every fair specification assumes weak fairness of the steps of each request,
call, session and task. tokio polls every task that is ready, and the model lets
each outside service answer or fail. A service that never does either is
excluded: the client for the API server and the acquisition of a database
connection have timeouts of their own, and broken connections to the database
and to Vault become errors. The database goes on
with every session that can go on, and looks for deadlocks. `RenewerShutdown` is
strongly fair, because `select!` picks at random among its ready branches: a steady
stream of events can postpone the shutdown but not forever. No fairness is
assumed of callers, policy changes, the kubelet, signals, faults or time.

## What is proved

| Theorem | Statement |
|---|---|
| `StoreTypeCorrect` | `ServiceSpec => []StoreTypeOK` |
| `PolicyAlwaysValid` | `ServiceSpec => []PolicyValid` |
| `TypeCorrect` | `Spec => []TypeOK` |
| `IssuedAlwaysJustified` | `Spec => []IssuedJustified` |
| `RefusalAlwaysJustified` | `Spec => []RefusalJustified` |
| `RevocationAlwaysBounded` | `Spec => []RevocationBounded` |
| `ExpansionAlwaysCorrect` | `ExpansionCorrect` |
| `ClaimsAlwaysAsDefined` | `Spec => []ClaimsAsDefined` |
| `AuditAlwaysSound` | `MSpec => []AuditSound` |
| `AuditAlwaysComplete` | `Backend = "memory" => (MSpec => []AuditComplete)` |
| `AnswersAlwaysHonest` | `MSpec => []AnswerHonest` |
| `RolesAlwaysSeparated` | `MSpec => RolesSeparated` |
| `SuccessAlwaysAudited` | `MSpec => []SuccessAudited` |
| `ManagementUsesService` | `MSpec => WritesThroughService`, a refinement: it is `ServiceSpec` |
| `ManagementKeepsPolicyValid` | `MSpec => []PolicyValid` |
| `PathsAlwaysNameRows` | `MSpec => PathNamesRows` |
| `ManagementTypeCorrect` | `MSpec => []MTypeOK` |
| `PgTypeCorrect` | `PgSpec => []PgTypeOK` |
| `ScopesHeldOnce` | `PgSpec => []HeldOnce` |
| `PostgresActsAtomically` | `PgSpec => ActsAtomically`, a refinement |
| `PostgresNeverStuck` | `PgSpec => []NeverStuck` |
| `PostgresWorkShrinks` | `PgSpec => WorkShrinks` |
| `RowsAlwaysAccounted` | `PgSpec => []RowsAccounted` |
| `PostgresKeepsPolicyValid` | `(\A o \in Operations : Validated(o)) => (PgSpec => []RowsValid(entries, scope_mappings))` |
| `SaTypeCorrect` | `SaSpec => []SaTypeOK` |
| `FailureAlwaysTheFile` | `SaSpec => []FailsOnlyForTheFile` |
| `WakeupNeverLost` | `SaSpec => []NoLostWakeup` |
| `PromiseAlwaysKept` | `SaSpec => Promise!VSpec`, a refinement: the safety part of `KeepsPromise` |
| `LifecycleTypeCorrect` | `LSpec => []LTypeOK` |
| `RequestsNeverCut` | `LSpec => []NoRequestCut` |
| `SpansAlwaysExported` | `LSpec => []SpansExported` |
| `ExitStatusTells` | `LSpec => []ExitStatus` |
| `ShutdownNeverHangs` | `LSpec => []NeverHangs` |
| `StartupTypeCorrect` | `SuSpec => []SuTypeOK` |
| `AlwaysFailsFast` | `SuSpec => []FailFast` |
| `ConfigurationNeverLate` | `SuSpec => []NoLateConfigurationError` |

They assume `PolicyAssumption`, `ServiceAssumption`, `ExchangeAssumption`,
`ManagementAssumption`, `PgAssumption`, `SaAssumption`, `LAssumption` and
`StartupAssumption`: constants have their types (a body of the management API has
the fields that its route extracts, the configuration has a default or `None` for
every option that is looked at) and `None` is not a value. TLC evaluates each of them on the runs of the modules that
use it.

`PolicyValid` is inductive together with `StoreTypeOK`. A batch is accepted only
when every row of it is valid, and the claims stored for a scope are those of
one of its rows (`ClaimsOfBatch`).

`IssuedJustified` is not inductive: nothing in it speaks of a request that has
read the policy but has no token yet. `IInv` adds

- `Progress`: what a request knows at each step (its form, client, mapping);
- `HistoryCurrent`: the newest version of the history is the policy in force;
- `Reads`: the mapping and scope mappings a request holds are those of versions
  of its window, in the order in which they were read.

The lemma `Frame` shows that what was explained stays explained, because versions
never change once they are in the history. `ReadExplained` and `BuildExplained` treat
the request that moves. `RevocationBounded` needs one thing more, `Timed`: a
version newer than the arrival of a request is not older than it in time.

`ExpansionCorrect` is a statement about a loop, for every finite set of scopes and
every table, and needs induction. The library's induction theorems take a
predicate as their parameter, which the provers cannot instantiate.
`SubsetInduction` states the principle for a *set* `P` of sets instead: it follows
from `WFMin`, because strict inclusion is well founded on finite sets.
`MaxInduction`, where the largest member is added, then shows

- that the fold of `ExpandScopes` is well defined: it is the function `Loop` on
  the subsets of the scopes, which exists and is unique (`LoopExists`,
  `LoopUnique`), so that the largest scope is merged last (`ExpandLast`);
- that a set of numbers has exactly one n-th member (`NthExists`, `NthIs`), so that
  the `CHOOSE` of the reference `JoinedValue` is determined;
- `LoopExpands`: a turn of the loop keeps what `ExpansionCorrect` says, whether the
  scope has no mapping (`SkipExpanded`), is in conflict (`ClashIsConflict`), or is
  merged (`MergeExpanded`).

`LoopExpands` holds for unvalidated tables too. `ClaimsAsDefined` follows from it and `IInv`: the
versions that justify a token give the loop its table, a request names finitely
many scopes (`RequestedFinite`), and on the scopes of a request the filtered
table is that of the version (`SameTable`).

`Management`: `Known` says what holds of a call at each stage: from the check of
its role to its answer the actor is permitted, and until it is answered it has
taken effect exactly if the service returned `Ok`. Without it the audit event and
the status, which come a step after the change, say nothing about the change.
`AuditComplete` is proved for the memory store only; with Postgres it is false
(`audit_after_lost_reply`), and `SuccessAudited` holds for both, because only
`Finish` gives a 2xx. `HandlerCallsService` takes the handlers one by one: each is
a call of the service with what the body carries, or leaves the store alone. So
the theorems about `ServiceSpec` carry over, `PolicyValid` and the types of the
store among them, and `PathNamesRows` needs the latter.

`PostgresStore`: the refinement needs to know, at the `COMMIT`, that the batch has
no conflict at that moment, although its rows were looked up one by one long
before. That is what `HeldOnce` is for, with `StageInv` (what each stage of a session knows
of its operation, rows and answer) and `DistinctInv` (the rows that a session
has inserted have different scopes). A batch then takes effect at its `COMMIT`, a
conflict at the `INSERT` that fails, a statement when it is executed; an
answer, a loss or an aborted circle is the return of the call, and all other
steps are invisible.

`NeverStuck` holds for every pool of at least one connection and for every set of
calls, finite or not. If no session could go on, every open one would wait for a
row of another open one. The calls that have arrived are finitely many (`Arrived`
is inductive), and in a finite set whose members all point to members some go
round in a circle: the lemma `Circle` takes a smallest such subset, which would do
without a member that nobody points to. The server would break that circle. So no
session is open, the pool is free, nobody waits for it, and `EndedInv` gives what is
left an answer to return. `WorkShrinks` is the measure that goes with it: a call has
at most `Len(batch) + 4` steps before it, each step takes one of them away, and
`OwnWork` goes through the steps one by one. Together they are the safety part of
`EveryCallReturns`: something can always go on, and no call goes on forever.

`RowsAccounted` is inductive with the types and `StageInv`, because what the server
has answered with `Ok` stands (`OkStands`). It carries `PolicyValid` over to
Postgres: `Validated` is what `ResourceService` lets through, and
`PostgresKeepsPolicyValid` concludes that no interleaving of half-inserted batches,
late statements and rollbacks puts another row into the tables.

`SaToken`: `FailsOnlyForTheFile` follows from `FreshInv`, which follows a call
from its beginning: after a refresh it sends a token that the file has held since
then. `NoLostWakeup` is inductive with the types. For the refinement,
`SubjectInv` says that a call that has begun has a subject.

`ServerLifecycle`: `Phases` relates `main` to the servers (nothing is spawned
before the start-up is over, everything has ended when `run_server` returns);
`ServedInv` says that a server without panic ends without open requests;
`Buffered` and `Flushed` follow a span from its request to the exporter, up to the
flush and after it. `Outcome` relates what `run_jwtlet` returned to the servers: an
error only when none was spawned, `Ok` only when all are joined. `NeverHangs`
needs `Told`: from the moment when `run_server` has stopped waiting for the first
server, all of them are told to stop, so that it waits for nobody who was not.

`Startup`: `Reached` says that nothing has been contacted up to the first step of
the assembly, that errors end the start-up there, and that every later step works
on a configuration without a broken rule (`Sound`). `SoundOptions` then gives what
the assembly insists on. Two things of the host, the CA certificate of the cluster
and whether an HTTP client can be built, are reported as configuration errors as
well, and `NoLateConfigurationError` excepts them. The theorems hold for any defaults, and for any file and
environment.

Only model-checked: liveness (`EveryRequestAnswered`, `EveryCallAnswered`,
`RotationsNoticed`, `RenewerEnds`, `EveryCallReturns`, `StopTogether`), which is out
of the prover's reach, and so the fairness part of `KeepsPromise`. For
`EveryCallReturns` and `StopTogether` the absence of a halt is proved, as above. Every invariant
and every action property that a passing run checks is also proved. The three
formulas of the runs that end in a violation are false, so there is nothing to
prove.

## Not modelled

- The metadata endpoint (`meta/`) renders a document that is fixed at start-up. The
  key endpoint (`get_swk_set` of `exchange/`) passes on what the key resolver, which is
  external, has at the moment. Neither has state of its own.
- The router set-up, DTO conversions and JSON extraction: wiring and layout. Their
  effect, which handler runs with which role, is in `Management`.
- The contents of the signature and of Vault's client: external. A signature
  succeeds or fails.
- A statement that is executed after its call was lost appears in
  `PostgresStore`; `Management` and `TokenExchange` have a lost reply only after the
  work was done. In `AtomicStore` such an operation takes effect later.
- A session of `PostgresStore` that is rolled back has given its connection back
  at once; sqlx has it back after the `ROLLBACK`. The model so has all the orders of
  the program and some more, and `NeverStuck` does not depend on them: such a session
  can always go on.
- The API server answers 401 only for a token that it no longer accepts. After a
  spurious 401 on both attempts a call would fail for a token that is good.
- The review answers of a subject token are constant but for its expiry, and the
  kubelet replaces the file in one step, by renaming. A rename can raise several
  events; `NotifyOther` stands for the additional ones.
- `require_service_account` of the verifier is true, its default, which the
  assembly keeps.
- A signal before `run_server` has installed its handlers ends the process at once,
  as it does for any program. It is not a step of `ServerLifecycle`.
- Two processes that create the schema at the same time can collide in Postgres's
  catalogue. That depends on the server, and the code only reports it as a
  failed start, which `Startup` has.
