# A TLA+ model of Reinframe

Reinframe (`src/`, Go) supervises coding agents. Hosts (Claude Code, Codex, Grok)
report tool calls through hooks; the supervisor allows, denies or defers them,
detects loops, queues advice and delivers it to the agent. A denied action can be
appealed once. This directory models the parts in which concurrency, failure and
order decide whether that is done correctly, checks them with TLC and proves the
central results with TLAPS.

## Inventory

| Part | State | Operations | Talks to | What is hard |
|---|---|---|---|---|
| Challenge service (`pkg/challenge/service.go`, `store.go`) | records, event log, index by fingerprint, barriers, sequence, wait channels | Open, Justify, AttemptRetry, Abandon, ExpireDue, Replay | called by the bridges from many goroutines; calls ReEvaluate without its lock | a re-evaluation outside the lock, duplicates that join it, expiry by sequence, denials that race an Open |
| Claude bridge (`cmd/claudebridge`, `claude_challenge.go`) | one JSON file, a private copy per process | pretool, retry, appeal | the host starts one process per hook call | load, act, save without a lock; ignored errors; killed processes |
| Advisory delivery (`pkg/adapter`) | pending queue, durable ledger and markers, item results | Enqueue, DeliverPending, AcknowledgeSource, OpenDurableAdviceLedger | actuators (Grok ACP, file, fake), the orchestrator, hosts that acknowledge | an external effect between two durable writes, each of which can fail; restarts |
| Orchestrator (`pkg/supervisor`) | latch per session | HandleEvent, EvaluatePreTool, DeliverAtSafeBoundary, Acknowledge | detector, policy, delivery | two mutexes for one fact (queued, latched) |
| Exact assessment cache (`pkg/classifier/exact_cache.go`) | entries, LRU order, bytes, calls in flight | Get, Admit, Assess | classifier providers | callers that share a call, give up, or find it panicked; limits |
| Hook gate and policy (`hook_gate.go`, `pkg/policy`) | the session's latch | EvaluateHook, EvaluateBeforeTool, EvaluateSlow | bridges, detectors, orchestrator | result against deadline |
| Lane router (`pkg/policy/router.go`) | configuration of two lanes, catalogs, credentials | ResolveRoute, ResolveFallback, updates | model catalog | isolation of the lanes while everything they depend on changes |
| Session clients (`grok_acp.go`, `codex_app_server.go`) | pending requests, reader, child process, approval, event and update queues, delivery gate, item cache, model identities | call, RespondApproval, Deliver, StartThread, ResumeThread, StartTurn, Close | child processes | late, duplicate and lost answers, full queues and pipes, shutdown; items of one id in two threads |
| Model catalog (`codex_models.go`, `cache_partition.go`) | cached catalog and its partition | Discover, Refresh, Invalidate | Codex client, router | callers of two accounts, failing fetches |
| Event sources (`codex_tail.go`, ...) | cursor, generation | Tail | files other programs write | rotation, crash between emit and cursor |
| Event store (`pkg/state`) | SQLite, closed flag, in-flight count | AppendEvents, QueryEvents, Close | orchestrator | closing under running operations |
| Detectors (`pkg/detector`) | counters and marks per session | Observe, ResetSession | orchestrator, policy | counters that stand for a history |
| Managed worktrees (`pkg/workspace`) | registry, git worktrees, checkpoints | CreateWorktree, AdoptExisting, Checkpoint, Rollback | git, the agent | check then reset, restarts |
| Hook installation (`claude_settings.go`, `codex_hooks_install.go`, `grok_hooks_install.go`) | files the user edits too | Install, Uninstall, Doctor | the user's editor | check then rename |
| Classifier (`pkg/classifier`) and re-evaluation (`reeval.go`, `appealability.go`) | none beyond a call | Assess of five providers, EvaluateShadow, ReEvaluate | HTTP, challenge service | retries under two deadlines, cancellation, answers that must not be trusted |
| Reviewer, protocol, config, evaluation, commands | mostly none | | HTTP, files | formats |

What makes each part correct: a challenge is granted at most once, to the retry
that spent it, after a justification, before it expires, and not past a denial;
its log replays to its record; an advisory reaches the host once across restarts
and never leaves tools deferred after it settled; identical requests share one
provider call and everybody gets an answer; the cache stays within its limits;
a provider's failure never becomes a grant; a record of the rollout is counted once
and none is skipped; a closing store answers or refuses, never half; an installer
takes nothing of the user's away and a rollback nothing of the agent's.
`PROJECT.json` lists every component, and under `hazards` each line where one of
these can go wrong.

## Modules

| Module | Models |
|---|---|
| `ChallengeService` | `Service` and `Store`: one action per critical section of `store.mu` or `termMu`, per caller |
| `ChallengeReplay` | `ApplyEvent` and `ReplayFromStore` over the log `ChallengeService` writes |
| `OneShotAppeal` | the abstract promise: file, argue, spend, grant to the spender, or close |
| `ChallengeRefinement` | the mapping under which `ChallengeService` implements `OneShotAppeal` |
| `ChallengeProofs` | the theorems about `ChallengeService`, its refinement of `OneShotAppeal` and its replay |
| `CacheProofs`, `BridgeProofs`, `DeliveryProofs`, `RpcProofs`, `AssessmentProofs` | the theorems about `ExactCache`, `ClaudeBridge`, `AdvisoryDelivery`, `RpcSession`, `Assessment` |
| `SupervisionProofs` | the theorems about the gate, the store, the tail, the pipeline and the detectors |
| `FilesProofs` | the theorems about the worktrees, the Codex threads, the router, the catalog and the hook files |
| `ClaudeBridge` | the hook processes over the store file |
| `AdviceTypes` | delivery states, actuator results and the pure functions that classify them |
| `AdvisoryDelivery` | queue, ledger, delivery, acknowledgement, latch, crash and restart |
| `ExactCache` | the LRU/TTL store and the coalescing provider |
| `RpcClient` | what the two JSON-RPC clients share: calls, reader, pipe, Close, and the child |
| `CodexApprovals` | the approval requests of the Codex client |
| `GrokPrompts` | the advice deliveries of the Grok client and what proves them |
| `RpcSession` | the three composed, with fairness and the properties of the whole |
| `ClassifierInput` | bounding the trajectory, input validation, prompt plan, requests, evidence, strict parsing |
| `ProviderWire` | the five HTTP adapters: construction, request, one exchange |
| `AppealRules` | block classes, claims, justifications, the two resolvers, error identity |
| `Assessment` | a shadow prediction or an appeal around one provider's retry loop, with both contexts |
| `Detectors`, `HookGate`, `SignalPolicy` | the detectors as operators; the gate and the policy rules; both over a session's observations |
| `CodexTail`, `EventStore`, `Supervision` | the rollout tail; the store; `HandleEvent` between them |
| `LaneRouter`, `ModelCatalog` | the two-lane router; the catalog service over the partition manager |
| `CodexThreads` | model identities, item cache, events and approval routing of the Codex client |
| `HookFiles` | the three hook installers and the user's editor |
| `ManagedWorktree` | worktrees, checkpoints, rollbacks and the agent |
| `MC*` | model values and symmetry for TLC; `MCSupervision` and `MCFiles` choose one of several independent parts at the start (`part`) |

Definitions named `X_Something` next to an `X` are plausible bugs of the same code;
each property fails when `X` is replaced by one of them. The arms of a `CASE` exclude one
another; where the code's `switch` or its early returns depend on their order, the model
has `IF ... ELSE IF`, since TLA+ gives overlapping arms no order.

### ChallengeService

`byID`, `openByFP`, `barrier`, `seq` and `idSeq` are the fields of `Store`; `log`
is `Store.events` split by challenge; `termCh` is `terminalCh`. A caller is a
goroutine with a label `pc` and locals `loc`. `Open` is two steps (`BeginOpen`
samples the ticket; `OpenHardBlock`, `OpenHumanReview`, `OpenRefused`,
`OpenReuse`, `OpenNew` are the alternatives under the lock). `Justify` is two,
because validation runs between its two looks at the record. `AttemptRetry` goes
through `retry` (checks under the lock), `reeval` (lock free) and the `Finalize*`
actions, or through `waitTerminal`'s get, register, get again and select.
Wherever the code unlocks before `signalTerminal`, the signal is a step of its
own. A fingerprint stands for an action in a session; `Sem` for what
`semanticActionMatch` compares. `PolicyVersion` and `RulesetHash` are one
generation `Gens`, and the other fields of `policyIdentityMatch` one `Reasons`.
The outcome of `ReEvaluate` is a free choice here and modelled in `Assessment`. `mints` and `grants` are history:
what callers were told. Calls that fail without changing anything stutter.

### ClaudeBridge

A process is three steps: load and handle (one of the handler actions, on its
private copy), `Save`, `Reply`; it may die (`Kill`) before either of the last two.
The load and the handler are one step because nothing else sees the copy, and the
challenge service is one step inside it because a process is sequential. The command
sets no expiry and opens appealable challenges only. `Denied` are the actions policy
denies with the right of appeal; any action may be tried as a retry. `issued` makes
ids unique, as the clock and counter hash in `newID` does. `runPretool` ignores the
errors of `LoadFromFile` and `SaveToFile`; the constants `LoadFails` and `SaveFails`
say whether a run has them. The ghost `orderly` holds as long as every load followed
the save before it and neither failed: what the design needs of its host.

### AdvisoryDelivery

The three mutexes (queue, ledger, orchestrator) each make one step, the
actuator's `Deliver` runs between them. A ledger write leaves a line, nothing or
a torn line; a torn file or a marker that cannot be read makes the next
`OpenDurableAdviceLedger` fail, which is where a run may stop. `sends` counts
what really reached the host and `lapses` the sends of which no durable trace
exists: a send before the crash, or all three writes failing. No code can avoid
sending again after such a lapse, and `SentOnce` excuses exactly these. The
actuators are the sets of results they can return, with the ground truth `sent`
added. `SentOnce` is checked for the Grok actuator: a successful `FileActuator`
delivery is recorded as `DELIVERING`, a state `isSuppressState` leaves out, so for
that actuator a restart sends again by design of the state table. The configuration
(capability and ledger) is chosen in `Init` and never changes. A dedupe key is the intervention and the host family, the one component
of the key that can differ between the writes for an intervention.

### ExactCache

A caller is in `Get`, in its own provider call, or in `assessCoalesced`. A shared
call is a process of its own (`calls`), since the code detaches it from its
leader. The clock ticks freely; `exp` is taken when the provider answered, as
`tryAdmit` does, and the admission happens later. `Admit` states the eviction
loop by its result: the least number of oldest entries whose removal makes room. The
byte count is compared with the sizes summed along the LRU order (`BytesOf`), which lists
every entry once.

### RpcClient, CodexApprovals, GrokPrompts, RpcSession

`client` says which client a behaviour is of; it decides which lock a write holds and
whether Close needs it, what the reader drops, and what an oversized line does.
`pending` and `ch` are the map and its channels; `pc` and `call` a caller's place and
its request; `lock` is who is blocked in a write (a write that does not block takes
and frees the lock in one step). The child's stdin is a bounded pipe. Its stdout is
not kept: whenever the reader reads, it finds any line the child can have written by
then, which includes every order, delay and repetition, also after the child died.
The model starts after the handshake. Approvals are numbered in the order they are
read and a child gives each an id of its own; `replies` counts what was written back.
What the consumer decides has no effect on this state; `CodexThreads` models it. An update is
modelled by the set of values it carries for each identity over all its layers and
aliases, so that `UpdateStrongCorrelation` is a statement about these sets; `proof`
is history: the prompt an accepted update was really about. `ForeignIds` are the ids
the child gives its own requests; in the runs they collide with those of the calls. The
Grok reader takes such a request for an answer, the Codex reader does not, and
`CallsAccounted` says of each client what it does.

### ClassifierInput, ProviderWire, AppealRules, Assessment

One decision at a time: the caller opens, justifies and retries a challenge or asks
for a shadow prediction, which may need the provider. `parent` is the caller's
context, `op` the provider's own, and the deadline of `op` passes (`due`) before its
timer publishes it, so that the code between the two is exercised. The five adapters
share the loop of `AssessStep` and differ in `Build` and `DoOnce`. Text is a record of
what is checked about it: canonical JSON and SHA-256 are taken to be injective.

### Detectors, HookGate, SignalPolicy, CodexTail, EventStore, Supervision

The detectors are operators on one session's counters; `SignalPolicy` keeps the history
they were shown and compares. `HookGate` has the evaluation goroutine, the deadline and
the latch as separate steps. `EventStore` follows `enter`, the write lock, the rows and
`leave` of each request against `Close`; a transaction of a batch checks all its rows
or leaves none; `InsertOne` is the single insert that `HandleEvent` uses. `CodexTail` polls a file of lines
that follow one another from its first byte, whose last may lack its newline, and which is
replaced once; the read buffer is the set of lines that ended within the budget, taken
foremost first; its channel and its cursor file are explicit, and a crash takes everything but the file, the cursor and the
store. `Supervision` is `HandleEvent` between the tail, the store and the detector.
SQLite is modelled by what a transaction does.

### LaneRouter, ModelCatalog, CodexThreads, HookFiles, ManagedWorktree

Each is a decision over state that somebody else changes: the router keeps the
configuration it decided under (`at`) so that a later fallback can be compared with it;
the catalog's callers overlap between the check, the fetch and the store of a result,
and `of` (whose catalog it is) and `refused` (the latest refresh failed) are history; the
partition manager is the service's own (`codexruntime/runtime.go:92` and `:122` update one,
too, but nothing outside the tests shares it with the catalog);
the Codex client's calls overlap with notifications, and `told` and `proven` are history;
a hook manager reads, backs up, checks and renames while the user saves, a backup may fail
and leave a torn copy, and `lost` and `unsaved` are history; a rollback is
git commands between which the agent works. The two halves of `CodexThreads` (identity,
items) share no variable and are explored apart. The item cache joins thread, turn and
item ids with `/`; ids are taken to contain none.

## Runs

All runs but `assessment` set `CHECK_DEADLOCK FALSE`: callers may be done, and every
bound ends in a state without successors.

| Run | Checks | Bounds and why they suffice |
|---|---|---|
| `challenge_retry` | types, `OneShot`, `AllowEarned`, `NoLateAllow`, `CallsReturn` | three callers (an owner, a joiner, one who ends the challenge), one challenge, two fingerprints that are rewrites of one delete and so two retry identities, a third action whose one denial advances the sequence, expiry three steps later, which is then while the retry is re-evaluated and others wait for it; no symmetry, because of `CallsReturn` |
| `challenge_barrier` | `SingleActive`, `BarrierHolds`, `LiveEqualsReplay`, `ImplementsAppeal` (refinement) | two callers, two challenges, two tool-name variants, two policy generations: the least in which an Open races a denial of a variant under another generation |
| `delivery_sends` | `SentOnce` | two goroutines, one advisory, two crashes, every write outcome |
| `delivery_latch` | `LatchReleased`, `PendingDrains` | one goroutine, two advisories of one session, a crash, all four configurations, the AutoAck and the file actuator |
| `bridge` | `OneShotInOrder`, `AnswersBacked`, `AllowAppealed` | two processes at a time, two challenges on one action under two reasons, another action, two tool calls, failing loads and saves |
| `cache` | `OneCallPerKey`, `LRUConsistent`, `AssessReturns` | two callers (a leader that leaves and one that stays), two shared calls, three keys for two places, sizes below, at and above what fits, one expiry, both modes |
| `rpc_session` | `CallsAccounted`, `ApprovalSettledOnce`, `SourceCorrelated`, `OwnUpdateKept` | two callers, two requests, the id of the first also the child's, two approvals for one place in the queue, a pipe of one line that may be full at the start, updates with the intervention alone, with the request, and malformed |
| `rpc_close` | `GrokCloseEnds`, `CallersReturn` | the same with one request and one approval: a full pipe blocks the first write already |
| `assessment` | `GrantEarned`, `AbortKeepsIdentity`, `EvidenceWasShown`, `AssessEnds` | every provider kind, one response per way an attempt can end, one retry, inputs at and above the limits of events and bytes, policy classes with a misspelt one; its final states stutter, so deadlock is checked here |
| `supervision` | `CloseDrains`, `AppendAtomic`, `GateHolds`, `SignalsMatchHistory`, `SignalEarned`, `NothingSkipped`, `TailCatchesUp` | two files of three lines with a line at and one above the record limit (2 of 4 units per poll), a channel of one, one fault (a crash, a cancellation, a failed read or cursor save, a cursor that no longer fits, a backdated file), two appends of two events that collide in the second, two opens, a query and Close, thresholds of two over four observations, two gate calls |
| `files` | `RouteIsolated`, `CatalogEntitled`, `ServerGrounded`, `InstallSound`, `RollbackSound` | two router updates around a route and its fallback; two catalog callers, three partitions (two owners, two generations), a logged-out and an invalid snapshot, three fetches; two notices before, between and after approvals, three calls of two clients; two user saves and three operations of a manager on nine initial files, every outcome of a backup; two worktrees, two pieces of work, four supervisor requests |

`bridge_race` expects a violation: two overlapping hook processes both use the one
retry (`DurableOneShot`, which is `OneShotInOrder` without its premise), where the
policy document and a test promise a durable one-shot budget.

### Fairness

`challenge_retry` assumes weak fairness of each caller's own steps: goroutines
are scheduled and `ReEvaluate` returns, since providers run under deadlines. It
assumes nothing about cancellation or about callers starting operations.
`delivery_latch` adds strong fairness of each session's safe boundary, which is when
hosts call `DeliverAtSafeBoundary`: a host reaches one again and again, whatever its
goroutine does in between. `cache` assumes that callers and shared calls are
scheduled and that the provider answers (each adapter sets a timeout of its own); a
caller still to start a call is not required to, because the bound on calls may have
been reached. `rpc_close` assumes that callers, the reader and Close go on when they
can (the waits of Close and of a delivery's watch have timers), that the channel of
the gate serves its waiters, and that the reader of a dead child comes to the end of
what is left; it assumes nothing about contexts or about what a live child does. The
Codex client's Close takes `writeMu`, which a write blocked on a stalled child holds,
so its end cannot be claimed; `CallersReturn` starts where stdin is closed.
`assessment` assumes that the adapter's goroutine runs, that its deadline passes and
its timer fires; a server need never answer, and an HTTP attempt is bound to end only
once its context has ended. `supervision` assumes that the tail's loop and the handler
run; it assumes nothing of the file's writer, of cancellation or of crashes.

## Proofs

The theorems hold for sets of any size (only the store's requests are finitely many) and
any bounds. Unless a row says
otherwise they rest only on the assumptions the modules name on their constants (bounds
are naturals and limits positive, `None` and the empty string are no value of the other
sets, lists are sequences, records have their fields, a rollout's lines follow one
another, a file that is not JSON has no hooks), which TLC evaluates in every run.

| Module | Theorem | States |
|---|---|---|
| `ChallengeProofs` | `ServiceInvariant` | `Spec => []IInv` |
| | `TypeCorrect`, `OneLiveChallenge`, `OneShotHolds`, `AllowEarnedHolds`, `BarrierTheorem` | `TypeOK`, `SingleActive`, `OneShot`, `AllowEarned`, `BarrierHolds` |
| | `SpendInvariant` | `Spec => []SpendInv` |
| | `ServiceImplementsAppeal` | `Spec => ImplementsAppeal` (refinement of `OneShotAppeal`) |
| | `AllowInTime` | `Spec => NoLateAllow` (an action property) |
| | `LogTellsTheRecord`, `ReplayIsFaithful` | `ToldInv`, `LiveEqualsReplay` |
| `CacheProofs` | `CacheInvariant`, `SingleCallPerKey` | `CallInv`, `OneCallPerKey` |
| | `StoreStaysConsistent` | `LRUConsistent` |
| `BridgeProofs` | `BridgeInvariant` | `BridgeInv` |
| | `AllowedWasAppealed`, `FileBacksAnswers`, `DurableInOrder` | `AllowAppealed`, `AnswersBacked`, `OneShotInOrder` |
| `DeliveryProofs` | `SendInvariant` | `SendInv`, if all results are traceable |
| | `AdviceSentOnce` | `conf.durable => SentOnce`, if all results are traceable |
| | `ActuatorsSendOnce` | the same, if the results are Grok's and those that acknowledge by themselves |
| | `LatchIsReleased` | `LatchReleased`, if one goroutine uses the orchestrator and hosts acknowledge through it |
| `RpcProofs` | `SessionInvariant` | `SessionInv` |
| | `QuestionsSettledOnce`, `ProofsAreOwn` | `ApprovalSettledOnce`, `SourceCorrelated` |
| | `CallsAreAccounted` | `CallsAccounted`, whatever ids the child uses |
| | `OwnUpdatesKept` | `Spec => OwnUpdateKept` (an action property) |
| `SupervisionProofs` | `GateIsSafe` | `GateSpec => []GateHolds` |
| | `CloseWaits`, `AppendsAreAtomic` | `StoreSpec => []CloseDrains`, `StoreSpec => []AppendAtomic` |
| | `TailSkipsNothing`, `SignalsAreEarned` | `PSpec => []NothingSkipped`, `PSpec => []SignalEarned` |
| | `SignalsAreGrounded` | `LSpec => []SignalsMatchHistory` |
| `FilesProofs` | `RollbackIsSound` | `WSpec => []RollbackSound` |
| | `AnswersAreGrounded` | `TSpec => []ServerGrounded` |
| | `RoutesIsolated`, `CatalogIsEntitled` | `RSpec => []RouteIsolated`, `CSpec => []CatalogEntitled` |
| | `HooksAreKept` | `HSpec => []InstallSound` |
| `AssessmentProofs` | `GrantsAreEarned`, `AbortsKept`, `AnswersCiteTheShown` | `GrantEarned`, `AbortKeepsIdentity`, `EvidenceWasShown` |

Two hypotheses are real limits of the code. *Traceable results*: a result that reached
the host must map to a state `isSuppressState` knows and be taken for an ambiguous send
when its line cannot be written. Every result of the Grok and of the auto-acknowledging
actuators is (`ActuatorsTraceable`); the success of a `FileActuator` becomes `DELIVERING`,
which does not suppress, and is not. *One goroutine*: with two, `HandleEvent` may
latch an advisory that a delivery has settled in the meantime, and an acknowledgement that
goes to `AcknowledgeSource` past the orchestrator leaves its latch set; TLC finds both.

None of the properties is inductive. What makes them so, by module:

* `IInv` of the service. `LocOK`: what a label says about a caller's locals; above all, an
  id handed to an `Open` under way is in no record and in no other `Open`, so `OpenNew`
  never overwrites a record, and a retry under way is still bound to its challenge.
  `RecOK`: what a state says about a record and its history; `OPEN` and `JUSTIFIED` still
  have the budget, `RETRY_PENDING` and `ALLOWED_ONCE` have spent it, only `ALLOWED_ONCE`
  was ever granted, and to its key alone. `IndexAgrees`: the index is a function from
  fingerprints to live challenges, so `SingleActive` follows. `BarrierHolds`, with the
  tickets of callers, which never exceed `seq`. `OneShot` follows from `RecOK`: two fresh
  grants would need a record that leaves `ALLOWED_ONCE`, and no action takes one there.
* `SpendInv` ties the record to its log: nothing is charged before `RETRY_PENDING`, and the
  caller in `reeval` is the one whose `budget_consumed` event the log holds. The refinement
  then goes action by action: each step of the service is one step of the appeal it
  touches, or leaves what the mapping sees alone.
* `ToldInv`: what each event of a log does to a record, and that the events of a log follow
  one another as the states do, by position; replay then arrives at the live record because
  a log only grows at its end and replaying a longer log is one more `ApplyEvent`. It also
  says which payload the closing event carries: the charged identity after a
  `budget_consumed`, a fingerprint without one.
* `CallInv` of the cache: the slot of a key holds a running call of that key, and every
  running call is in its slot; so two running calls of a key are one. `StoreInv`: the order
  lists what is present once each, and `bytes` is the sum along it. Removing or appending a
  key changes both views by the same entry (`ViewsDrop`, `ViewsAdd`); an eviction takes a
  prefix, and the least that makes room exists since an empty order holds no bytes.
* `BridgeInv`: every store, the file and the private copies, has only consumed challenges
  that were justified; while the processes take turns (`orderly`), only one holds a copy
  to save, it extends the file, and what a process is about to print is backed by what it
  saved.
* `SendInv`: what every label of a delivery says of the result it carries, one worker per
  item (`HandedOut`), and per item a budget: no more sends than lapses plus one, and once
  it is used up the key is in the ledger or with the goroutine about to write it, so
  whoever checks the item finds it. `LatchInv`: a latched item that settled is the one in
  hand, and at each label its goroutine is bound to clear the latch (`Clears`).
* `SessionInv` = `RpcInv` (a request id belongs to one caller, an answer to the request it
  names, or is a child's own request to the Grok client), `ApprovalInv` (every question is in exactly one place: the reader, the queue, a
  consumer, an answer under way) and `PromptInv` (the gate has one holder, the only one
  who drains).
* `GateInv`: whatever the evaluation or the deadline left is the rules' decision on the
  policy the call was made under, or its timeout decision.
* `StoreInv`: `inFlight` is the cardinality of the set of operations between `enter`'s two
  loads and their `leave`; so zero means nobody runs. `AppendInv`: every row comes from an
  append that committed, every committed batch is there, no two rows conflict; only a write
  is ever in a transaction.
* `TailInv`: a place (the tail's or the cursor's) on the file under the path is `Sound`: it
  has passed only lines that were sent or cannot be, and lies inside a line only if that
  line outgrows a poll, since a skip by a full budget is what puts it there. `Buffered`:
  the buffer is a prefix of the lines after the offset. Both are needed: the foremost
  buffered line then starts at the offset, or is the rest of one too long to emit.
* `PipelineInv`: an event's sequence number is the end of its record, rows differ by it, and
  a counter is at most the number of stored reports of its failure, the one still to be
  observed not among them. A repeated event is refused by the store before the detector
  counts it; the reports of a session therefore come from as many records.
* `DetectorInv`: each counter is the number of the observations it stands for since the last
  reset, the tool calls after the last progress and the validations after the last change of
  the workspace included, and every mark has its observation.
* `CallInv` of the assessment (`ClassFits`): an error carries the identity of the parent's
  end if the parent ended before it was classified, and no other context's. `EarnedInv`: up
  to the grant the record stays a productivity block with its justification, and the action
  passed the gates before the call. `ShownInv`: from `enter` to the return the request is the
  one that was built, and the bounded trajectory is a part of the one given.
* `WorkInv`: what is uncommitted in the tree about to be reset came after its clean check,
  registered trees exist, and a rollback under way still names its checkpoint.
* `ThreadsProven`, `CallsGrounded`, `ItemInv`: a kept identity was verified against a model the
  server had named for that thread, a turn's is the reported one or its thread's, and a cached
  item is one the server announced under that key.
* `RouteInv`: a decision held is one the rules allow in the configuration it was taken in.
* `CatalogInv`: the cached catalog is of the partition it is filed under and was fetched after
  the last clearing, and each caller remembers when that was. `ManagerInv`: while nobody
  refreshes, a cached catalog is of the manager's partition or the latest refresh failed;
  while somebody does, the manager's partition is the one being fetched for.
* `HookInv`: a file saved since a manager read it has a stamp of its own, so the check before
  the rename sees it; a plan is the operation's edit of what was read; what Grok's manager is
  about to overwrite is in a backup or counted as unsaved, and a torn backup takes no hook
  that is not; every lost hook has its excuse.

Preservation has one lemma per action, split by the conjuncts the action can disturb;
actions that move one record, expire a set, write a ledger line or end a call share the
lemmas about that.

The library's induction theorems take an operator and cannot be used. Where a proof needs an
induction all the same (sums of sizes, counts along a history, the filter of a list), it is
over a set: `LeastOf` takes the least element of a nonempty set of naturals from the
library's well-founded minimum, `SetInduction` is its consequence, and `RecursionExists`
builds the function a recursive definition denotes. The operators involved are recursive
functions for that reason.

A failed proof corrected the model once. `ToolChurn` had called for a signal at any event
that is no progress while the budget is used up; the detector signals at tool calls only.
No run had observed another kind of event (a test result, say); `supervision` does now.

Every safety property of a passing run is stated by a theorem. All liveness is only
model-checked, because it is out of the prover's reach: `CallsReturn`, `PendingDrains`,
`AssessReturns`, `GrokCloseEnds`, `CallersReturn`, `AssessEnds`, `TailCatchesUp`.

## Behaviour worth knowing

What the models show the code to do where no document or test of the repository says
otherwise; most of it is an exception some property states.

*Challenge service.* A denial under another policy generation overwrites the barrier
of an action, and an Open under the first generation is then let through
(`store.go:183`). `BarrierHolds` is about the mark in force.

*Delivery and latch.* `HandleEvent` sets the latch after the item became deliverable
(`orchestrator.go:108`): with two goroutines a delivery may settle it first, and the
latch stays; `LatchReleased` is checked and proved for one. An advisory that is REJECTED,
TIMED_OUT or EXPIRED keeps its latch until another one takes it
(`orchestrator.go:167`). An acknowledgement recorded before the
delivery has an empty host family, so the advisory is sent again after a restart
(`advisory_delivery.go:353`).

*Session clients.* A request of the child's own under the id of a call in flight ends
that call with success in the Grok client, and the real answer is dropped as a duplicate
(`CallsAccounted` excepts it). `serverPendingApprovals` is keyed by an id
the child chooses, so a second request under it replaces the first. The Grok client
forgets which answers it has seen after 4096. An approval on an item that its own thread
and turn never announced is completed from whatever item last had that id, in any
thread; the cache is never bounded; and the hook sees the command of an approval only if
neither the message nor the cached item names a tool.

*Assessment.* The shadow classifier compares the policy class with SECURITY exactly, so
a misspelt class fails open there, while `ReEvaluate` takes it for SECURITY. A
trajectory that is too long keeps its oldest events. A request that cannot be built fails open
under PRODUCTIVITY, but `AttemptRetry` never grants on a fail-open reason. An
operation timeout while the last attempt's body is read surfaces as a transport error.
`MaxRetries` 0 means two.

*Supervision.* The tail saves its cursor after putting events on a buffered channel: a
crash loses what was sent and not handled. A crash between the append and the
observation leaves that failure uncounted, and a restart resets all counts. After a
rotation the new file's sequence numbers collide with the old ones of the same session
and those events are refused as duplicates; the session id stays that of the first
file. A file replaced by a larger, newer one between two polls is not noticed. A line
of exactly the record limit is skipped. A failed validation clears no churn marks.
Closing the database under a running transaction, after the five seconds, may let it
commit or fail; either way a batch is there exactly when the caller got no error. Only one
migration exists; two versions exercise their order. Outside the tests nothing but the
`streetwire` command wires the tail to the orchestrator.

*Router.* Isolation looks at the lane and credential a request names and, for the lane it
infers, at the role alone: a classifier intent with the agent's role gets the
subscription, and an agent intent with the reviewer's role the API without an opt-in.
`RouteIsolated` states the rule by role. The router has no caller in production code yet.

*Model catalog.* `ListModels` runs under the service's lock, so a slow server holds up
every read of the catalog.

*Hook files.* What the user saves between the change check and the rename, or into a file that
did not exist, is lost. A Codex group with one of our handlers is dropped whole, the user's
handlers in it included; Codex's manager replaces a `hooks` value that is no object.
Grok's overwrites its own file and removes it without a backup; before it overwrites it
makes one, but ignores an error of reading the file or writing the copy
(`grok_hooks_install.go:262`), so what stood in the file is then gone. A backup that tears
replaces an earlier one of the same content, and Claude's rotates before it writes, so a
failed backup costs the older copy (`claude_settings.go:405`). Managers
run one at a time in the model: Claude's temporary file has a fixed name, and two
installers at once would meet in it.

*Worktrees.* Edits made between the clean check and the reset are lost. The ownership
marker is a tracked file, so checking out another worktree's commit changes the owner,
and `AdoptExisting` then registers the tree under the other id. `Rollback` does not
compare the recorded path. Untracked files survive a reset.

## Against the documents

Where the code does what a document or a comment of the repository denies. The first is
`bridge_race`'s finding; each of the others is an exception that a checked and proved
property states, and holds in the code exactly as far as that property says.

* *Durable one-shot budget* (`docs/policy/appealable_block_challenge.md:22`,
  `cmd/claudebridge/main_test.go:232`): overlapping hook processes both spend it.
* *"so live == replay for every mutable field"* (`pkg/challenge/projector.go:9`), *"Event
  replay reconstructs identical ChallengeRecord state"* (`store.go:15`): a challenge refused
  before a retry was charged (`retry_without_justification`, `budget_exhausted`,
  `service.go:521` and `:536`) or opened as a human review (`service.go:189`) has no
  `ConsumedRetryKey`, while `ReplayFromStore` takes the fingerprint in the event's payload
  for one (`store.go:564`). `LiveEqualsReplay` excepts `Uncharged` challenges. No retry is
  answered differently for it: a retry's identity is never a bare fingerprint.
* *"Re-login, account switching, or session renewal ... invalidates the cache partition"*
  (`docs/policy/codex_delegated_auth_adr.md:110`): `refreshWithPartition` moves the
  manager's partition before it fetches and keeps the old catalog if the fetch fails
  (`codex_models.go:231`), so `GetModel` and `CurrentSnapshot` serve the account before the
  switch until the catalog expires. `CatalogEntitled` excepts reads after a failed refresh.
* *"active partition keys are immediately destroyed"* (`:111` of the same document) and
  *"Logout/expiry clears partition"* (`:158`): a Discover that passed its check before a
  logout takes the lock after it, sets the partition again and stores the catalog of the
  account that has left. `CatalogEntitled` holds of it: that caller asked for that
  partition, nothing cleared is handed out, and the manager agrees with the catalog.
* *"Zero Silent Substitution"* (`docs/adapter/codex_product.md:58`), *"will never silently
  substitute an alternative model"* (`docs/adr/006_codex_auth_and_spark_boundaries.md:40`):
  a turn for which the server reports no model takes its thread's identity as it is when
  the answer arrives, so a turn that asked for another model without leave returns
  `exact_match` on the thread's model and no error (`codex_app_server.go:1010`); with no
  identity known the requested model counts as an exact match, also on a thread whose start
  was refused for a substitution. `ServerGrounded` excepts both.

## Not modelled

Shell normalisation behind fingerprints, the text of prompts, JSON schemas, the
configuration schema, probing and starting binaries, headless Grok runs, the reviewer's HTTP call,
evaluation and evidence reports: string processing, I/O or one-shot commands. Of
modelled parts: endpoints and metadata of routes, `SetTTL` and capability flags of the
catalog, Grok's static deny fragment, polls of a rollout file that is missing, the
whole-file rollout reader and the log observer, the handshake of the session clients and their parsing of
times and statuses. The git commands of `CreateWorktree` are one step with its failure
and crash outcomes, and a checkpoint's generation is always one.

## Plan

1. Done: every part the inventory calls hard, the refinement of the service, and a theorem
   for every safety property the runs check.
2. Composition still open: `GrokPrompts` in place of the actuator's enumerated results
   in `AdvisoryDelivery`, and `Assessment` in place of the free choice in
   `ChallengeService`.
