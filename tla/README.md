# netSoldier: specifications, model checking and proofs

netSoldier watches a home or small-office network, decides which devices talk to
something malicious, and blocks what they talk to. This directory holds TLA+
modules of the parts in which that can go wrong without a test noticing, the TLC
configurations that check them, and theorems about them checked by TLAPS. Paths
are relative to the repository's root.

- [1. The system](#1-the-system) - inventory: parts, state, interactions, hazards
- [2. The modules](#2-the-modules) - what models what, and how closely
- [3. The runs](#3-the-runs) - what each checks, its bounds, what it shows
- [4. Fairness](#4-fairness)
- [5. The proofs](#5-the-proofs)
- [6. Where code and documentation disagree](#6-where-code-and-documentation-disagree)
- [7. What is not modelled](#7-what-is-not-modelled)
- [8. Plan](#8-plan)

To repeat a check: `tlc -config KillswitchFull.cfg MCKillswitch.tla` (the module of
each run is in PROJECT.json), and `tlapm KillswitchProofs.tla`.

## 1. The system

Five services, each one process with its state in memory unless said otherwise,
talk HTTP/JSON. ClickHouse holds what the sensors (Zeek, Suricata) and the services
append; AdGuard Home is the resolver of the network and enforces DNS rules.

    feeds --> threat-intel-sync --export--> detection-engine --webhook--> killswitch-controller --rules--> AdGuard
                                             ^   ^      ^                     ^
              ClickHouse rows (sensors, ML) -+   |      +- operator feedback  +- operator approve/reject/revert (web-ui)
                           AdGuard query log ----+
              ml-anomaly: trains on flows, stores models on a volume, appends anomalies

| Part | State | Operations | What makes it hard |
|---|---|---|---|
| **killswitch-controller: store** (`internal/actions/store.go`) | map of actions: state, approver, failure, expiry | Create, Approve, Reject, Activate, Revert, RecordFailure, evictLocked, ListExpired | bounded map that must not drop live actions; transitions requested in any order |
| **killswitch-controller: handlers, TTL goroutine** (`cmd/.../main.go`) | none of their own between requests | handleEvaluate, handleApprove, handleReject, handleRevert, applyAction, runSafeTTLRevert | store and driver are changed in separate steps by concurrent goroutines; a driver call can fail, or take effect and lose its reply; a restart forgets the store and not the rules |
| **killswitch-controller: sinkhole driver** (`internal/drivers/sinkhole.go`) | AdGuard's user rules (external) | Apply, Revert: read-modify-write under a mutex | rules shared by several actions and with the operator |
| **killswitch-controller: ARP isolation, target guard** (`internal/drivers/arpisolate.go`, `guard.go`) | loop per action, gateway's MAC and its age, protected addresses; the neighbour caches of others (external) | Apply, Revert, poisonLoop, gatewayHardwareAddr, ProtectMAC, Check | loops started and cancelled by calls that overlap; frames sent after the restore; a router that comes back with another address |
| **killswitch-controller: policy, allowlist** (`internal/policy`) | settings from the environment | LoadFromEnv, Validate, Evaluate, Contains | several gates whose combination decides whether a machine blocks without a human |
| **detection-engine: alert path** (`cmd/.../main.go`, `internal/webhook`) | bounded channel, one delivery | OnAlert, Emit, Send, deliver | alerts from six goroutines; drop when full; retries; lost replies |
| **detection-engine: composite** (`internal/composite`) | strongest signal per client and class in a window | Observe, combine, anchor, eviction | the composite stands in for the alert that triggered it |
| **detection-engine: feedback** (`internal/feedback`) | suppressions with expiry; rows in ClickHouse | Record, IsSuppressed, persist, LoadFromClickHouse | verdicts dated before the mutex, or by the client; memory and table diverge; reload after a restart while alerts already flow |
| **detection-engine: ingest** (`internal/ingest`), **query log** (`internal/detection/engine.go`) | cursors, seen set | Poller.poll, Engine.poll | rows late, malformed, many in one second; broken answers; a log that only returns its newest entries |
| **detection-engine: TLS heuristics, DNS cache** (`internal/tlsheur`, `internal/correlator/dnscache.go`) | suppression map, address -> name | Handle, suppress, Set, Get | two time-outs and a purge at a bound |
| **detection-engine: matcher, sync** (`internal/iocmatch`) | indicator -> best claim | Add, Match*, SyncLoop | cache of another process's store |
| **detection-engine: capture, flow correlator** (`internal/capture`, `internal/correlator`) | flow table, device cache | Process, sweep, export, refresh | idle expiry, full channel, stale device map |
| **threat-intel-sync** (`internal/ioc`, `cmd/.../main.go`) | indicators with first/last seen | syncOnce, UpsertAll, PruneBefore, export | feeds fail one by one or all, date their claims differently; restarts begin empty |
| **device-inventory: device table, discovery, retention** (`internal/store/sqlite.go`, `cmd/.../main.go`) | SQLite table keyed by MAC | UpsertFull, insertDevice, EnrichByIP, SetLabels, Prune | private addresses that rotate; two goroutines between the two statements of UpsertFull; rows of earlier versions; unauthenticated announcements |
| **device-inventory: event writer** (`cmd/.../main.go`, `internal/clickhouse`) | bounded channel, batch | enqueue, Run, flush | a flood; inserts that land and are reported as failed, or land after younger ones; shutdown with events in hand |
| **ml-anomaly** (`modelstore.py`, `train.py`, `flowsync.py`, `api.py`) | files on a volume, pointer `latest`, model in memory of worker and API | save, load, prune, train_once, refresh | two processes, one volume, no lock; crashes between files |
| **web-ui** | session cookie | proxy | none that the others do not have |
| **libs/events** | - | shared types, HMAC | - |

What makes each correct: *the controller* blocks nothing that neither the policy nor a
human approved, never acts on an undecided or rejected action, and what it reports of an
action (active, reverted, failed) is what AdGuard does; time limits are kept; an isolated
device is released for good once its action is reverted, and told where the gateway
really is.
*The alert path* auto-blocks only on known-bad evidence about that very client;
correlation never weakens a detection; of the verdicts on a key one governs, the last one
taken or, after a restart, the newest one written; nothing blocks the path for good. *Ingest* takes
every row in time once, and counts what it loses. *Threat intelligence* that a feed
asserts is matched whatever the other feeds do, no outage drops it, and old intelligence
leaves. *The inventory* has one row per device, and no discovery makes a known device
vanish or lose the operator's labels; events are written at most once, and none is held
for good. *The model store* never makes a half-written or a bad model current and never
takes a serving API down.

## 2. The modules

Each definition's source lines are in PROJECT.json under "map".

### Killswitch: `ActionLifecycle`, `ActionStore`, `Killswitch`

`ActionLifecycle` is the abstract promise: per action, none -> pending or approved ->
active/rejected/failed -> reverted, out of the store only when terminal or on a restart.
`ActionStore` has the operations of store.go over per-action functions (`state`,
`target`, `approvedBy`, `failure`, `expired`), each a step as the mutex makes it;
eviction is part of `Create`. `Killswitch` adds the goroutines: a program counter per
handler, one step per store call and per driver call, in the order of main.go, and the
TTL goroutine with its snapshot of expired actions; `rules` is what AdGuard enforces,
`applied` a history of the actions for which the driver's Apply was issued, and `contended`
one of the actions that another goroutine had in hand between approval and the end of
applyAction (`Applying`).

A driver call is one step (the driver's own mutex covers its read-modify-write). It
succeeds, is *refused* (nothing changed: validateDomain, a guard, an error status), or
is *lost* (the rules were set, the caller sees an error). Resolution errors before the
driver are the refusal. Action ids are ranks of insertion. `"none"` is an id never
used, `"gone"` one that was evicted or forgotten by a restart: neither is in the map.
Deadlock checking is off: ids are bounded and a controller without requests is idle.

### Alert path: `Policy`, `Feedback`, `Composite`, `AlertPath`

`Policy` is pure: the fallback of LoadFromEnv, allowlist membership, the gates of
Evaluate, and `Strength`, which orders decisions. `Feedback` has the
suppression map, the look-up with its lazy deletion, verdicts recorded in memory and
inserted in ClickHouse by a goroutine that may fail or land late, and the reload with
its argMax per key. The timestamp of a verdict is any: the client may send one, past or
future, and the clock is read before the mutex is taken; so the memory follows the order of
arrival, the reload the timestamps. `since` is a history: when the silence of a key began. `Composite` has the window, the upsert per class, eviction at
maxTracked clients, noisy-OR in exact arithmetic, and the anchor. `AlertPath` composes
them: each source takes an alert through Check (the suppression look-up), Observe (under
the correlator's mutex; the clock is read before, so observations may be recorded out of
order) and Forward; the channel drops when full; the sender retries; what arrives is
evaluated by `Policy` and recorded in `received`. Clients are addresses (main never
resolves a MAC); a domain and the matched indicator are one value; ties in eviction and
in argMax are arbitrary.

### Ingest: `Ingest`

The poller tails a table: `Query` takes the answer (`Batches`: the oldest rows from the
cursor's second on, at most `Limit`), `SkipRow`/`EmitRow` handle one row each, `EndPoll`
moves the cursor, `PollFails` breaks the answer off. Rows arrive in time or up to
`MaxLag` late, and may be malformed. `PollLog` is the engine's poll of AdGuard's log,
one step: only the DNS cache is shared. It reads the newest `LogBatch` entries, newest
first, so of two answers for one address the older one stays in the cache (`Cached`). `EmitRow`
runs the TLS heuristics against that cache and the suppression map. A tick is a second.
Log entries are dated by their rank.

### Threat intelligence: `ThreatIntel`

The cycle of threat-intel-sync asks the feeds in order (`FetchOK`, `FetchFails`), prunes
when at least one answered (`Prune`), and rests (`NextCycle`). Each feed dates its claims
its own way (`Dates`). detection-engine fetches the export (`GetExport`) and adds it to
its matcher (`Add`); a reply can be lost. Fetching and UpsertAll are one step. Keys are
matched with a confidence, `Unknown` if not at all.

### Model store: `ModelStore`

The worker's steps are the file operations of save, prune and train_once, in their
order; a crash or a failed write (`WorkerFails`, `WorkerRestarts`) can come between any
two. Each API looks the version up and loads it in two steps. The verdict of the
evaluation is an input. An empty and an absent pointer are both `None`, as the code
treats them alike.

### Device inventory: `LossyLog`, `EventWriter`, `Inventory`

`LossyLog` is the abstract promise of a bounded pipe to a table: an item is taken or
dropped at the door, and what was taken leaves in order, a prefix at a time; a prefix is written
whole and at most once, at once, late or never. `EventWriter` has the channel, the batch and the goroutine of main.go:
`Enqueue`, `TakeEvent`, `FlushTimer`, `FlushDone` (whether the rows landed and what the
caller was told are two things; the batch is emptied either way), `WriterStops`, and
`LateLands`: a request given up after ten seconds is in `late`, and ClickHouse may yet execute it. `Inventory`
EXTENDS it with the `devices` table. SQLite has one connection, so a statement is a step. UpsertFull is two:
the UPDATE that follows a randomised device to a new address (`DhcpRepoints`; it fails
as a whole when that address has a row, `DhcpCollides`) and, when no row was hit
(`DhcpMisses`), the INSERT with the time read before both (`DhcpInserts`, or
`DhcpInsertFails`); labels, retention and the discovery goroutine
can come in between. `Discover` (ARP, LLDP) inserts by hardware address, `Enrich` (mDNS,
SSDP) fills names in by address. Vendor, fingerprint and profile are carried along by
every statement and decide nothing: left out. A database of an earlier version is `LegacyRows`,
any rows that lack the mark of a randomized address, as the migration leaves them.

### ARP isolation: `ArpIsolate`

A step is what happens under the driver's mutex, or one pair of frames. A call is
`ApplyCheck` (guard, gateway, sensor), `ApplyResolve`, `ApplySend`, `ApplyRegister` (which
takes the place of an earlier loop), or `RevertCancel`, `RevertResolve` and the corrective
rounds `RevertRound`, each of which may find its context done. A loop waits, ticks
(`LoopTick`), sends (`LoopSend`) and stops once cancelled. Calls come in any order and
overlap: the store lets two approvals of one action do so, and a revert overtake the
second. Frames change what they are meant to change: `cache`, where a victim believes the
gateway to be, and `hijacked`, the victims the gateway believes to be at the sensor; each
frame may fail. The network is the environment: the router comes back with another
address, the kernel's table learns and forgets, caches expire. Ages are minutes that stop
growing at `TTL`; no minute passes inside a call or a tick, which take seconds. The addresses and
ranges of the guard only refuse more and are left out. A restart is modelled when the gateway can be
resolved: without it main leaves the driver out.

## 3. The runs

| Run | Asks | Result |
|---|---|---|
| KillswitchFull | two handlers, the TTL goroutine, a restart, refused and lost calls: TypeOK, EveryBlockIsAuthorised, UndecidedNeverEnforced, ApprovedIsInHand, CleanlyRevertedIsLifted, SoleActiveIsEnforced, ImplementsLifecycle | holds |
| KillswitchLive | three actions in a store of two, empty allowlist, TTL revert with a target that never lifts: EvictsOldestTerminal, ExpiredIsReverted | holds |
| KillswitchFailedRevert | RevertedIsLifted when a manual revert may fail | violated |
| AlertPathGates | two sources, three alerts, failing deliveries: TypeOK, AutoBlockIsAttested, CorroborationNeverWeakens, QueueIsDrained | holds |
| AlertPathRestart | verdicts of any timestamp, failed and late inserts, restart and reload: VerdictsGovern, SilencedIsNotSent | holds |
| IngestFull | late, malformed and crowded rows, a bounded log, a failed poll or restart: TypeOK, RowsTakenOnce, PunctualRowsAhead, PunctualRowsArrive, QueriesCheckedOnce, LossIsCounted | holds |
| IngestFindings | two findings, a suppression map purged at one entry, a clock of two windows: FindingsNotRepeated | holds |
| ThreatIntelSync | three feeds, two of which may fail for good, restarts: TypeOK, FreshIntelOutlivesOutages, AssertedIsMatched, StaleIntelLeaves | holds |
| ModelStoreFull | four trainings, an API, two faults: TypeOK, LatestIsWhole, WorkerScoresNewestHealthy, HealthyTrainingKeepsServing, NeverBackFromHealthy, ApiCatchesUp | holds |
| ModelStoreUnhealthy | ServesOnlyHealthy | violated |
| InventoryFull | a phone with two private addresses, a printer with a row of an earlier version, labels, retention, a full channel, failing and late inserts, a restart: TypeOK, StableIdsUnique, KnownDevicesStay, WritesEventsOnce (the writer implements `LossyLog`, fairness included) | holds |
| ArpIsolateFull | two calls and two loops about one action, failing frames, a router that changes its address, restarts: TypeOK, NoOrphanLoop, FramesUseCurrentGateway, ReleasedIsLeftAlone | holds |

Each property is stated in words above its definition. Every property of a run that
holds also has a faulty variant of one definition (the operators commented "Fault") with
which TLC finds it violated.

**Bounds.** *Killswitch:* two actions are enough for two requests to race about one
action and about one target; with a store of one, the second insertion evicts; three
actions and a store of two are needed for an eviction that has a choice. Handlers are
symmetric, and a third one meets each of the two others as they meet one another. One
restart separates the rules from the store. *Alert path:* two devices and a correlator
that tracks one force an eviction; a window of one and a clock of three let signals enter
and leave it; three alerts and a channel of one let it fill while a delivery is retried.
Two verdicts on one key, of any two timestamps in a clock of three, a TTL of one and one restart let a
verdict be replaced by one dated earlier, expire, and be reloaded in the other order. *Ingest:* three rows under a batch limit of two
leave a row out of an answer, crowd a second, and put a malformed row between two others; three
log entries under a batch of two let one be passed over. The instance has the kind
of row whose finding depends on the cache. IngestFindings has a second finding and a map bound of
one, so that alerting one meets the map at its bound with the other in it, run out or not yet; a window of two in a clock of four. *ThreatIntel:* one feed for each way of dating; one
indicator, as keys do not interact; a TTL of one in a clock of four lets it pass twice.
*ModelStore:* four versions in a store of two make pruning run with an older version
current, and again after it was cut short; two faults let a restart meet what a crash
left behind. *Inventory:* two private addresses are what a rotation
needs, and a row of the old kind is what it must not touch; three sightings are a first
one, a rotation and one in between; a channel of one under a batch of two is full as soon as
the writer waits for ClickHouse; a retention of zero in a clock of one makes every row stale
once. *ArpIsolate:* two calls are enough for an Apply and a Revert, or two Applies, to
overlap in every order, and two loops for one to replace the other; two addresses let the
copy be wrong both ways; a TTL of one minute is the boundary, as ages saturate at it; two rounds make
one that is not the last. Actions share nothing but the gateway's address.

Deadlock checking is off in all runs: alerts, rows, time, edits and trainings are bounded
and the programs stop when there is nothing to do.

## 4. Fairness

- *Killswitch (KillswitchLive).* The ticker fires again and each step of the TTL
  goroutine returns: its driver call carries a 10 s time-out, and a store call ends with the
  audit write after the unlock, which carries one of 5 s. That a revert retried again and again succeeds is assumed of AdGuard, for each
  action whose target is not stuck. Nothing is assumed of operators.
- *Alert path.* The sender is one goroutine whose every attempt returns (client
  time-out 10 s, back-off at most 30 s, retries bounded). Nothing is assumed of sources
  or of the controller.
- *Ingest.* The ticker polls again and the client times out after 30 s; broken answers are
  bounded by `MaxFaults`. Nothing is assumed of the engine's poll.
- *ThreatIntel.* Both loops run on tickers with time-outs of 30 to 60 s. That a reliable feed answers
  again and again, and that an export arrives whole again and again, is assumed of the network.
- *ModelStore.* The readiness probe asks the API every ten seconds
  (`deploy/kustomize/base/ml-anomaly/deployment.yaml`) and each request refreshes.
  Nothing is assumed of the worker.
- *Inventory.* The event writer is one goroutine in a loop: its ticker fires every two seconds
  and an insert returns within ten. That it ever succeeds is not assumed, nor that a request
  given up is ever executed, nor anything of discovery, DHCP or operators.
- *ArpIsolate.* A send returns. Go's select takes at random among what is ready, so a cancelled
  loop is not ticked for ever (strong fairness of LoopStop). Caches expire
  ("~30-60s", arpisolate.go:51). Calls need not be made, and the frames of a Revert need not arrive.

## 5. The proofs

The theorems hold for every value of the constants that satisfies the named assumption
of the module; TLC evaluates those assumptions in each run. No proof uses fairness.

**KillswitchProofs** (KillswitchType, EveryBlockIsAuthorisedHolds,
UndecidedNeverEnforcedHolds, ApprovedIsInHandHolds, ImplementsLifecycleHolds,
SoleActiveIsEnforcedHolds, CleanlyRevertedIsLiftedHolds, EvictsOldestTerminalHolds). The
invariant is `IInv == TypeOK /\ ActingInv /\ StateInv /\ AppliedInv`. Neither property is
inductive: Apply is issued without looking at the state again, so one needs that a
handler at a driver label holds an action that was decided and approved by someone who
may (`ActingInv`), that no later transition takes that back - approved, active, failed
and reverted all keep the approver (`StateInv`) - and that it stays so for what was
applied, evicted or not (`AppliedInv`). ImplementsLifecycleHolds maps every step to a
move of the abstract lifecycle or a stutter. SoleActiveIsEnforcedHolds builds on it: the lifecycle
has no way back, so what was ever active never waits for its activation again. `RuleInv` says that an
action is activated with its rule in place, and that while it is active without it a handler that took
the rule away still has the store to tell; `HandInv` that only what was active is lifted, and by
the TTL goroutine only what has expired; `TargetInv` that an action keeps the target it was created with.
CleanlyRevertedIsLiftedHolds is about any number of handlers, lost calls and restarts. `AloneInv` says that a
handler applying an action that nobody else has had in hand meanwhile has it alone, and finds it
approved; `WitnessInv` that every rule the controller added has an applied action that accounts for it:
still with the handler that applied it, active with nobody past the driver call that lifts the rule, or
marked for good - contended, failed once, or gone. A goroutine comes to report an active action as reverted only
through the driver call that takes the rule away, and then there is nothing left to account for. The two
exceptions are needed, and section 6 says what breaks the property without them. EvictsOldestTerminalHolds compares
the victims by rank, the number of older terminal actions: a younger action has the higher rank and
no two are equal, so there are no more victims than the excess (an injection into an interval), and as
many as the excess when a terminal action is left (all those older than the oldest one left are victims).

**AlertPathProofs** (AlertPathType, AutoBlockIsAttestedHolds, SilencedIsNotSentHolds,
VerdictsGovernHolds). AutoBlockIsAttestedHolds supposes only that the policy's known-bad gate is on, as it is by
default (policy.go): `AttestedInv` says that the correlator keeps nothing it has not observed,
each signal under its own class and client, and that the event in the channel or in the sender's hands
is attested already. SilencedIsNotSentHolds needs the two steps
between the look-up and the channel: `CheckedInv` says that a silence now in force about anything
in hand began no earlier than its look-up. The verdicts' timestamps decide whether a silence is in
force, not when it began, so they may be any. For
VerdictsGovernHolds, `GovernInv` follows the load after a restart: what is still to be applied is the newest verdict of its
key by timestamp (`LoadInv`), the map holds only keys whose verdict was applied (`KeysInv`), and for those it says
what the verdict says that governs: the last one this process took, or before it took any the newest of
the table (`AppliedGovern`). It is supposed that no two verdicts found in the table share the key and the second, as
argMax may then take either, and that the cap has room for the keys known. That no verdict is turned away needs a count: the keys
held are among those applied, so as long as these fit, so does the next.

**PolicyProofs** (LoadFromEnvIsValid, EvaluateMonotone). Whatever the environment holds,
the settings are valid; and more confidence or severity never weakens a decision.

**ThreatIntelProofs** (MergeCommutes, MergeAssociates, MergeIdempotent, ThreatIntelType,
FreshIntelOutlivesOutagesHolds). Merging is a semilattice, so the order and the number of
answers leave no trace. FreshIntelOutlivesOutages is not inductive: it says that a fresh
sighting is in the store, not that the store's own date is no older than that sighting,
which is what pruning compares. The strengthening adds that dates are kept.

**ModelStoreProofs** (TypeCorrect, LatestAlwaysWhole, ServiceNeverGoesBack, WorkerKeepsNewestHealthy,
HealthyTrainingKeepsServingHolds). That the
pointer names a whole version needs where the worker is: the version being written is
not yet current, the one to be restored was whole and is not being pruned, and what prune
removes is never the current one. That no API goes back needs that whatever any API
serves or has looked up is no newer than what the pointer will be put back to, or is the
unhealthy version now displacing it. That the worker is left with the newest healthy version
needs that what an unhealthy training will put back is that version (`NewestInv`); that a
healthy one keeps an API serving, that the pointer is set once an API found one (`PointedInv`).

**IngestProofs** (IngestType, PunctualRowsStayAhead, RowsTakenOnceHolds, QueriesAreCheckedOnce,
LossesAreCounted, FindingsNotRepeatedHolds). The first needs `PollInv`:
an answer is the oldest rows there are and is handled in order, so what it leaves out is
no older than what it holds, and a row that arrives meanwhile bears the current second.
The second adds `PassedInv`, which says where emitted rows are: behind the cursor, in its
second and remembered, or passed by the poll under way. For the query log, `ReadInv` says that
nothing ahead of the newest entry seen was examined; and an answer ends at the newest entry and is full or
the whole log (`AnswerIsTail`), so an entry is passed over only by a full one.
`SuppressInv` says that a finding alerted less than a window ago is remembered for the rest of it: a
purge takes only what is no longer needed, so a full map never lets a finding through early.

**InventoryProofs** (TypesHold, OneRowPerDevice, DevicesStay, WriterIsALossyLog).
StableIdsUnique is not inductive: between the UPDATE that found no row and its INSERT the
device's id must stay unused. The strengthening says so of `pending`, and holds because
nothing but the DHCP goroutine gives out ids. Nothing is assumed of the ids in an earlier version's rows: the
theorem exempts those its rows of private addresses have, for which the code breaks the promise (section 6), and
`UnmarkedAreInherited` says that no other id is ever on a row the UPDATE overlooks. DevicesStay follows step by step. WriterIsALossyLog maps
every step of the service to a step of the log or a stutter, with lemmas on what SubSeq
and concatenation do to `batch \o queue`. It says what was taken is written at most once and in whole batches;
the order of the table is not promised; the fairness of the log is checked by the run.

**ArpIsolateProofs** (ArpTypes, RevertFindsTheLoop, FramesAreCurrent). NoOrphanLoop needs
that a place from which a loop has gone is not still cancelled when the next loop takes it
(`CancelledAreLive`). FramesUseCurrentGateway needs, of the driver's copy before any call has it in hand,
that when it differs from the neighbour table it is the older of the two (`CopyIsNotNewer`).

**Only model-checked:** all liveness properties (ExpiredIsReverted, QueueIsDrained, AssertedIsMatched,
StaleIntelLeaves, ApiCatchesUp, PunctualRowsArrive, ReleasedIsLeftAlone, and the fairness of the log in
WritesEventsOnce), as fairness and ENABLED are out of the prover's reach; and
CorroborationNeverWeakens. The latter is false for some policies (a minimum of three signals, section 6), and
rests on the noisy-OR of `Combined`, a fold over a set divided by a power: a recursion and an
exponent that the installed provers cannot expand.

## 6. Where code and documentation disagree

Shown by a run:

- *A failed revert, repeated, reports a lifted block that is in place*
  (KillswitchFailedRevert; main.go:543-555 of the controller).
- *An unhealthy model is current for a moment, and for good if the worker stops in it*
  (ModelStoreUnhealthy; train.py:88).

Met in modelling, and the reason why a property has the condition it has:

- Two approvals of one action race: the second handler's Apply may follow the revert of the
  first one's, and the store, reverted, refuses to activate it; a rule stays in AdGuard under a
  reverted action (main.go:494, sinkhole.go:55-60). CleanlyRevertedIsLifted speaks of actions that nobody
  else had in hand while they were applied.
- applyAction's comment says "A failed apply leaves the action in `approved` with a recorded failure"
  (main.go:433-436); RecordFailure makes it failed (store.go:187-197), as its own comment wants it
  ("\"approved but never enforced\" and \"actively enforced\" must not look the same", store.go:175-178).
  ApprovedIsInHand is what the code keeps.
- Two actions about one domain share one rule, and reverting one lifts the other while it is
  listed as active (sinkhole.go:125; docs/user-guide.md:278). Hence *Sole*ActiveIsEnforced.
- handleRevert decides on a copy read before the driver call (main.go:533, 562), so an approval in
  between is reverted in the store only (`contended` again).
- A lost reply records "failed" for a rule that is enforced (libs/events/enforcement.go:17-18), and
  such an action is terminal and can be evicted (store.go:75-80). Hence no property says what
  AdGuard does about a failed action.
- A lost reply to the TTL goroutine's revert leaves the action listed as active, and lifted, until a later
  tick gets through (main.go:325-350). Hence SoleActiveIsEnforced speaks of actions whose TTL has not passed.
- RecordFailure accepts every state (store.go:187) against docs/user-guide.md:286-298.
- A false-positive verdict on the anchor of a composite drops the triggering alert with it
  (detection-engine main.go:119, 135), against feedback.go:7 "Suppression is scoped, never
  global". CorroborationNeverWeakens exempts clients with a verdict in force.
- The memory takes verdicts in the order they arrive, the reload by their timestamps, and the client may
  send any (feedback.go:94, 151-161, 283-293; clickhouse.go:66): a verdict dated earlier than the one it
  replaces governs until the next restart and not after it, and one dated in the future silences for longer
  than the TTL. VerdictsGovern says which verdict governs before and after a restart.
- poll_batch_saturated_total says entries were likely missed (engine.go:98); AdGuard returns its newest
  entries whatever was read, so every answer is full once the log holds as many. LossIsCounted
  states the direction that holds.
- As many rows of one second, or malformed ones, as an answer holds stop the poller for good, and no
  metric shows it (poller.go:84-127). `Crowded` is the exemption.
- URLhaus and MISP date the addition of an indicator, not its sighting, so what they still assert can be
  pruned as "not re-asserted" (urlhaus.go:69; threat-intel-sync main.go:58-60, 292). The
  properties speak of sightings. Spamhaus dates nothing and is never pruned.
- Restoring the pointer empties it for a moment, in which an API drops the model it serves
  (train.py:91). HealthyTrainingKeepsServing speaks of healthy trainings.
- A composite blocks a domain no feed accused: a beacon of confidence 75 to one domain and a feed
  match of 70 on another combine to 93 and known-bad classes, and the target is the anchor's, the
  beacon's (composite.go:176, policy.go:35; docs/threat-model.md:128). AutoBlockIsAttested
  speaks of the client, which is what the code attests.
- A withdrawn indicator goes on matching until detection-engine restarts: Add never removes
  (matcher.go:63, against docs/threat-model.md:89). AssertedIsMatched is the direction that holds.
- Apply compares the target with the gateway's address before it refreshes the copy
  (arpisolate.go:143, 150): after a router reboot a call about the new address passes the check against the
  old one, is then protected from by its own refresh, and is registered all the same. The comment says "The gateway must never
  be a target, whatever the policy says" (arpisolate.go:110), and the test
  asks it of an unchanged gateway (arpisolate_test.go:85).
- "Continuous poisoning stops immediately on Revert" (arpisolate.go:48): a tick that is ready with the
  cancellation can be taken first, and its frames follow the corrective ones (arpisolate.go:317).
  ReleasedIsLeftAlone says that it ends, and that caches recover.
- Frames may use an address up to gatewayMACTTL old, or older while the kernel has no
  entry (arpisolate.go:274-289). FramesUseCurrentGateway says exactly that much.
- A private address that already has a row makes every later UPDATE for the device fail on the
  primary key, with no event (sqlite.go:161; `DhcpCollides`). Phones of one vendor class that send no
  hostname share a stable id, and one row. KnownDevicesStay holds of both.
- The migration leaves randomized_mac 0 in rows of private addresses (sqlite.go:81, 133). When such a row has a
  stable id, the UPDATE overlooks it, a rotation inserts a second row of the device, and the next sighting of
  the old address marks the first: every later UPDATE then fails on the primary key. StableIdsUnique exempts
  the ids such rows brought along (`InheritedIds`).
- An insert given up after ten seconds may be executed after younger batches (device-inventory main.go:343-348), so
  the order of device_events is not that of the events. WritesEventsOnce promises none.
- Alerts raised while main still loads the verdicts are not suppressed (detection-engine main.go:169);
  SilencedIsNotSent counts a silence from the moment the process knows of it.

Exposures no property covers: the TTL counts from creation, so a late approval is reverted
by the next tick (store.go:96); audit rows are written after the unlock and may be out of
order or missing (store.go:255, 302-327); an alert on an address indicator names "domain
(→ip)", which the driver refuses (engine.go:219); entries with equal timestamps are
skipped (engine.go:199); verdicts of one second tie in argMax (clickhouse.go:66; VerdictsGovern exempts them) and a
failed insert is only logged (feedback.go:178); expired suppressions count against the cap
(feedback.go:161); without resolved MACs a moved lease merges two devices' signals
(composite.go:102); a weaker, newer signal of a class is forgotten (composite.go:294);
with a minimum of three signals a lone match blocks and a corroborated one waits
(policy.go:262); a full export channel drops flows uncounted (capture/flow.go:138); of two
devices that shared an address the cache names the one seen longer ago (devicecache.go:66-71, as
List is newest first); a flow's source is the endpoint smaller as a string
(flow.go:145); last_seen refreshed by address (sqlite.go:271); a blob without metadata is never pruned (modelstore.py:154); windows
scored twice (flowsync.py:42).

## 7. What is not modelled

PROJECT.json lists every component. Left out for good: packet and feed parsing,
vendor tables, export formats, the proxy of the web UI, scoring statistics, manifests
(data and I/O without transitions of their own). Left out of the modules that exist: the
audit log and the alert ring (nothing decides on them), the HMAC of the webhook (assumed
to hold), the switch-port driver (one stateless call), the default TTL, look-up through parent domains and networks, the other
sources of the poller (they differ in query and decoding only). Not modelled yet: see
the plan.

## 8. Plan

Done, in this order: Killswitch, alert path, threat intelligence, model store, ingest,
inventory with its event writer, ARP isolation.

1. `Capture`: flow table with idle sweep, export channel (a `LossyLog` too), device and DNS caches
   of the flow correlator. Properties: bytes are conserved from packet to record or drop; a record is
   attributed to the device that held the address at the last refresh.
2. `Defence`: AlertPath composed with Killswitch, events of one feeding the
   requests of the other. Property: no retry of a lost reply enforces twice.
3. Proofs: every invariant and every action property of the runs but CorroborationNeverWeakens is proved.
   Left: the bound of the noisy-OR (no less than its largest term) for two classes.

The runs that only exhibited a disagreement about the composite's target and about withdrawn
indicators gave way to those of the new modules; section 6 keeps what they showed.
