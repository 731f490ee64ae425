# Formal models of Constellation AG

Constellation AG (Agent Governor NG) lets workers propose effects on a host and
lets exactly one privileged process, the effect broker, carry them out, once,
under authority that a human ratified for that exact effect. This directory
holds TLA+ models of that system, the TLC configurations that check them on
small instances, and TLAPS proofs of what matters most for every instance.

Paths below are relative to the repository; `effectd.rs` stands for
`crates/ag-app/src/effectd.rs`, `executor.rs` for
`crates/ag-effect/src/executor.rs`, `managed_pointer.rs` for
`crates/ag-app/src/managed_pointer.rs`, `agd.rs` for `crates/ag-app/src/agd.rs`.
PROJECT.json maps every definition to
the lines it translates.

## The system

| Part | State | Operations | What is hard about it |
| --- | --- | --- | --- |
| `ag-effectd`, the effect broker (`effectd.rs`, `ag-effect/src/lib.rs`) | one durable record per authenticated source, challenges and a handler in memory | submit, inspect, ratify, draft and apply a reconciliation, recover at startup | a crash or a failed append between any two durable steps; targets that others write; expiry |
| managed-file executor (`executor.rs`) | a directory with target, stage and quarantine names | create, replace by exchange, delete by quarantine, roll back | other writers between any two system calls, process death, power loss |
| managed-pointer runtime (`managed_pointer.rs`) | a git ref as a loose file, a staged object import | stand, prepare, commit by `git update-ref`, read back | a compare-and-swap that compares less than the record binds, children killed after they acted |
| event store (`ag-store/src/lib.rs`) | hash-chained events, materialized entities, blobs, one writer lock | append with expected revision, install and read blobs, verify | crashes between file and row; a stale revision |
| backup cuts (`ag-store/src/lib.rs`, `offline_backup.rs`) | a cut record per store | begin, prepare, seal, capture, release, abort | a coordinator that dies between three stores; retries |
| `agd`, the governor (`agd.rs`) | admission commits, a durable forward outbox, one worker runtime | evaluate, forward, launch, poll, cancel, recover | a lost broker response; a crash between custody steps |
| worker sessions (`ag-session`, `worker_session.rs`, `worker.rs`) | one record per session | prepare, activate, accept a candidate, tombstone, clean up | a worker outliving its record, or the reverse |
| `ag-providerd` (`ag-providerd/src/lib.rs`) | capabilities, dispatches, custody of responses | register, infer, fetch, acknowledge, terminate | an answer after the session ended; a dispatch cut short |
| signed local RPC (`rpc_auth.rs`) | a replay guard per server | challenge, sign, verify | keys forgotten while requests are fresh |
| judgment kernel (`ag-kernel`) | pure | decide, compose, recompose, cross | non-convertible families |
| docket issuance (`docket_issuance.rs`, `derived.rs`) | a one-shot ledger in memory | decide, burn, issue, verify | a decision consumed by a production that fails |
| primitives, protocol, configuration, doctor, command line, archive verifier | none that is governed | parse, print, check | nothing a model checker adds to |

How they interact: a worker's candidate reaches `agd`, which evaluates it, puts
it in its durable outbox and submits it to the broker over signed RPC; the
broker compiles it against what it observes and stores it as Ready; an
administrator inspects it, receives a challenge and ratifies; the broker burns
the authority durably, and only then acts, through the file executor or the
managed-pointer runtime. The three daemons each own one store under an exclusive
lock, so a backup cut is made while they are down and fences them when they come
back up under it.

## The modules

### EffectBroker

The broker is a single thread that takes commands from a queue
(`bin/ag-effectd.rs`), so two handlers never interleave. What does interleave
with every durable step of a handler is outside of it: crashes, failed appends,
other writers of the targets, the clock. `ratify_human` is therefore a
sequence of actions, one per durable append or externally visible act, threaded
by the variable `handler`; everything else is one action per handler.

| Variable | In the code |
| --- | --- |
| `record` | `BrokerSubmissionRecordV1` and `BrokerProposalRecordV1` of each source, receipts reduced to what they attest |
| `precedes` | the order of `last_event_sequence`, which the reconstruction of heads sorts by |
| `cut` | whether the store has an active backup cut |
| `mode`, `activated`, `challenge`, `handler` | the process: running or recovering, `activation_ready`, issued challenges, where `ratify_human` is |
| `draft` | a reconciliation draft that a client holds |
| `world`, `now` | the targets and the clock |
| `installs`, `standing`, `orphaned` | history, for the properties only |

A file's state is its content; a ref's state is its object, the inode of the
loose file (two writes of one object differ in nothing else, and an inode can be
reused) and whether the repository is clean. `git update-ref` compares the
object only, so the model's swap does too. The child may be reported as rejected
although it moved the ref (it was killed after its rename). Observation may fail
wherever the code observes.

Left out: authentication of callers, catalog admission and artifact transfer,
which refuse without writing a proposal record; and re-presentation of a known
source, which returns the stored response and changes nothing. The refusal
count of a record is capped by the code itself (`MaxRefusals`).

### EffectProtocol

What the broker promises per proposal: authority is offered, spent once; one
effect at most, only under spent authority; one verdict, and success is claimed
only for an effect that happened; uncertainty is resolved by evidence and never
by another attempt. `EffectBroker` implements it with `authority` and `account`
computed from the record's phase and `effects` as the history of installations.

### ManagedFile

One put or delete, one action per system call of `execute_file_put`,
`finalize_committed_file`, `execute_file_delete` and the two rollbacks. Between
any two of them others replace, remove or rewrite the target (`MaxWrites` times),
the process dies, or power is lost. `dir` is the directory as processes see it,
`disk` the directories that power loss may leave, which `fsync` of the parent
reduces to one. Others do not write the names that carry the attempt's own
identity (the code refuses if they exist), and write the staged inode only once
its ownership was transferred to the final owner. Every move of the code is a
rename or an exchange, so the type invariant also says that no file has two names.

### OfflineBackup

`N` stores, each with a record per cut, a chain length and a blob count; the
coordinator of `offline_backup.rs` as a sequence of store transactions that may
end anywhere; captures, release and abort per store; and daemons that append
wherever no cut is active and the locks are free. `moments` is the history of
what the stores jointly held.

### Governor

`agd` is one thread as well: it serves a control request, or polls its worker, or
is starting up. A call that makes several durable appends, or that waits for the
broker, is a sequence of actions threaded by `op`.

| Variable | In the code |
| --- | --- |
| `session` | `WorkerSessionRecordV1` of each session (`worker_session.rs`) |
| `judged` | sources whose admitting judgment is committed |
| `outbox` | `ForwardOutboxRecordV1` of each source: the signed proof and, once known, the broker's response |
| `cut` | whether the store has an active backup cut |
| `mode`, `todo` | the daemon: down, in one of the three phases of `recover_startup` with what is left to visit, or up |
| `runtime`, `recovery`, `op` | `active_workers`, `worker_recovery_required`, the call under way |
| `process` | the worker process of each session: gated, running, loose (alive, its handle gone), ended, killed, reaped |
| `signed` | how many requests the external proposer signed for each intent |
| `submission`, `wire` | the broker's durable submission index, and requests that nobody waits for any more |

An append ends in one of three ways: committed, committed although an error is
reported, or not committed; under an active cut only the last. An error of a
control request is answered, an error of polling or startup ends the daemon, and
some errors of a launch leave it up and refusing work until it is restarted
(`recovery`). A second tombstone is refused unless it equals the first, time
included, so a retry with the same reason may succeed or fail. Killing a worker
may be refused by the kernel, and may be reported as failed although the signal
was delivered. `stop_checked` (`worker.rs`) then returns the error and keeps the
handle; dropping the handle tries once more and ignores the result, so the
process is dead or it is loose. Only the death of the daemon ends a loose process
for certain: the sandbox is started with `--die-with-parent`. `Records` carries
the rules of `WorkerSessionRecordV1::validate` that relate its fields, so the
type invariant says that no step writes a record which the next start rejects.

The broker is what `submit_authenticated_intent` does to its index: a source that
was decided gets the stored response (a candidate only for the proof it was
decided with, an external intent for any), a new one is decided in any way or
refused without a record. Before the call the artifacts of the intent are loaded, which may fail and
leave the forward pending. A call may be answered, decided with the answer lost,
or given up on with the request still to be read later, also after a crash.

Left out: the bounded queues between the socket and the governor's thread, which
drop requests before it sees them; the checks of frames and bindings beyond
whether a candidate is acceptable; judgments that do not admit.

## The runs

| Run | Shows | Bounds |
| --- | --- | --- |
| `broker_promotions` | type invariant, inductive invariant, truth of terminal records, predecessor chain | two promotions of one ref, the second a child of the first; four foreign states (genesis again with its own or another inode, the candidate written by somebody else, a dirty repository) |
| `broker_rivals` | one open promotion at a time, readable records, spent authority stays spent, an expired promotion is never spent | two promotions from one parent; the clock advances past the promotions' expiry |
| `broker_files` | restarts settle, truth of terminal records | a put and a delete of one file, at most one ready, development profile |
| `broker_mixed` | effects only under durable burned authority; nothing burned after a foreign promotion history; the broker implements EffectProtocol | file and pointer effects together, production profile |
| `broker_live` | a burned proposal is settled | file and pointer effects, fairness below |
| `managed_file` | what success, failure, rollback and the quarantine guarantee | three foreign files, two contents, two foreign writes: one before the commit and one during rollback or finalization |
| `backup_seal` | a coherent bundle is the stores at one moment | three stores, one cut, two pieces of work |
| `backup_two_cuts` | all stores sealed on the same checkpoints when the coordinator returns | two stores, two cuts, one piece of work |
| `backup_resume` | **violated**: the exact retry of an interrupted seal is accepted | three stores, one cut |
| `governor_workers` | a process without a handle has no authority, no authority without supervision or a restart to come, the gate, truth of cleanup, restart, finality of tombstones and outcomes; authority ends | two sessions, no external intent, fairness below |
| `governor_forwards` | type invariant with the rules of `validate`, reports agree with the broker's decisions, admission comes first, nothing is forwarded beside a principal with authority, a daemon serving under a cut left nothing unsettled | one session and one intent, signed twice; two responses |
| `governor_signals` | **violated**: at most one worker process is alive | two sessions |

Two sessions suffice for the governor: the second is the one that must not start
beside the first, or that starts after a restart. Two proofs of one intent are
the least with which a stored submission and a later request differ.
Two proposals suffice for the properties of the gate: each is a statement about
one proposal or a pair. Two foreign writes let others act on either side of the
commit. The broker's clock does not go back in the model, while the code reads the wall
clock; `ExpiredStaysUnspent` is about a clock that is not set back.
`MaxTime`, `MaxWrites`, `MaxWork` and `MaxProofs` bound the clock, other writers,
daemons and the proposer; nothing in the code bounds them.

`backup_resume` is a disagreement between the documentation and the code.
`docs/backup-restore.md` says that an interrupted seal is resumed with the exact
request or aborted. `seal` computes the checkpoints it prepares from the chain
heads it finds, and preparing a checkpoint appends an event, so after the first
prepared checkpoint the retry presents a different one and is refused. Only the
abort remains; the fence stays up, so nothing is lost.

`governor_signals` is another. `docs/agctl.md` and `docs/architecture.md` say that
one live worker is permitted and that a second launch is refused while it lives.
The code counts the handles in `active_workers`. When the kernel refuses the
signal, first when the worker is terminated and again when its handle is dropped,
the call returns an error, `worker_recovery_required` stays unset and the next
launch is admitted beside the process that is left. What does hold is
`SurvivorsAreFenced`: the principal of such a process has no authority, or the
governor refuses work until a restart, so nothing it delivers is accepted.

### Fairness

`InFlightSettles` assumes weak fairness of the handler's own steps (the broker
thread keeps running) and strong fairness of startup and of each recovery append
(the service manager restarts the daemon, `packaging/systemd/ag-effectd.service`,
and restarts are not cut short forever at the same append). Nothing is assumed
of clients, of other writers or of the clock. The property excepts a record
whose append failed, which waits for a restart that nothing forces, and an
active cut, under which recovery is skipped.

`AuthorityEnds` assumes weak fairness of the governor's own steps and of the
start of the daemon (`packaging/systemd/agd.service` restarts it), strong
fairness of the successful tombstone of each session during startup, and strong
fairness of the failing poll of a worker in the runtime: its deadline passes, and
the daemon is not restarted before every poll for ever. Nothing is assumed of the
worker, of clients or of the broker. The property excepts a governor that
refuses work until a restart, which nothing forces, and an active cut, under
which startup fails while a session has authority. No property promises that a
candidate whose forward was deferred is forwarded again: the code does so only
at the next startup.

## The proofs

`EffectBrokerProofs` proves, for every set of proposals, targets, contents,
objects, inodes and foreign writers, and every limit:

| Theorem | States |
| --- | --- |
| `InvariantHolds` | `Spec => []BrokerInv` |
| `TypeCorrect` | the type invariant |
| `EffectsAreBurned` | `BurnBeforeEffect` |
| `VerdictsAreTrue` | `VerdictsTruthful` |
| `StoreStaysReadable` | `RecordsValid` |
| `PromotionsAreSerial` | `OneUnresolvedPromotion` |
| `RestartsSettle` | `RestartSettles` |
| `SpendingIsFinal` | `SpentForever` |
| `ExpiryIsFinal` | `ExpiredStaysUnspent` |
| `ForeignHistoryIsFinal` | `ForeignHistoryFreezes` |
| `BrokerImplementsProtocol` | `Spec => ImplementsProtocol` |

The safety properties are not inductive by themselves. What a terminal record
says depends on what the handler remembered when it wrote it, so
`HandlerCoherent` ties each position of the handler to the durable phase, to
whether the effect was installed, and to the outcome it is about to persist.
That a failed or not-applied verdict leaves nothing standing needs
`StandingShown` (what stands is what its proposal installed) and `PrestateBound`
(a promotion's prestate names its parent, which is not its candidate), so that
an observation of the prestate excludes the installation. `DraftCoherent` does
the same for the observation that a client brings back later. The proof has one
lemma per action, and frame lemmas for the steps that touch one record or none.

The assumptions on the constants are those of `EffectBroker.tla`: the kinds of
proposals and targets are disjoint, a promotion's candidate is not its own
parent, foreign writers leave values that a target can have, and the bounds are
naturals.

Only model-checked: `InFlightSettles` (liveness), `PredecessorChain`,
and everything about `ManagedFile`, `OfflineBackup` and
`Governor`. Liveness is out of the prover's reach.

## Plan

In this order:

1. `EventStore`: append with expected revision, blob files and rows apart,
   crashes between them, opening; the abstract chain it implements.
2. `ProviderDispatch`: dispatch and acknowledgement custody, termination.
3. `ManagedPointer`: the git invocations of preparation and commit one by one.
4. `ReplayGuard`, `DocketIssuance` and the kernel's operators.
5. Proofs: the inductive invariants of `ManagedFile`, `OfflineBackup` and
   `Governor`, the predecessor chain, and the invariants of the modules above.

Not planned: the pointer helper and systemd executors (their backends are
stubs that refuse), parsing, framing, cryptography, configuration, diagnosis,
presentation, and the publication and restoration of backup files.
