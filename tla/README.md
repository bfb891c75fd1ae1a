# Verification of admission, maintenance and record keeping

This directory holds TLA+ models of the Rust crate in `src/`, the TLC
configurations that check them on small instances, and TLAPS proofs about the
admission kernel, the snapshot store and the patch coordinator for every
instance. Definitions are translated from the Rust source; `PROJECT.json` maps each one to the lines it stands for.

## The system

The crate admits proposals of untrusted agents, executes the accepted ones
under single-use capabilities, and applies bounded changes to files. Its parts:

| Part | State it keeps | Operations that change it |
| --- | --- | --- |
| `contract.rs` | a proposal's lifecycle; a failure budget's counters | lifecycle events; record failure, record success |
| `lib.rs` `Kernel` | policy, replay journal, lifecycles, private issuances, budget tracker, `frozen`, `killed` | `admit`, `consume`, lifecycle events, `freeze_all`, `kill_all`, budget calls, snapshot and restore |
| `lib.rs` `Runtime`, `EvidenceRegistry` | key-value state, checkpoints, audit; evidence records | `execute`, `rollback`, `freeze`, `kill`; `insert`, `accept`, `revoke` |
| `integration.rs` | none of its own | coordinator calls over a kernel, a runtime and evidence |
| `persistence.rs` | lock file, temporary file, primary file | `save_atomic_snapshot`, `recover_atomic_snapshot` |
| `broker.rs` | kernel, journal in memory and on disk, output files, supervisor processes | `handle_execute`, the supervisor's job, `Broker::new` |
| `maintenance_transaction.rs` | durable state with one intent and a history, generations, the `current` pointer | `prepare_candidate`, evaluation, `commit_candidate`, `recover` |
| `maintenance_process.rs` | durable state per configuration, backup, the target file, checkout lock | `run`, with `recover` and `rollback` |
| `specialist.rs`, `routing.rs`, `memory.rs` | consent grants, specialist identities, stored memory, each registry behind a lock file | grant, revoke, register; gated reads and writes; route and validate |
| `claims.rs`, `governance.rs`, `adaptation_market.rs` | claims, release packets, plans, the release registry | meet, assemble, promote, freeze, `revalidate_and_save` |
| `adaptation.rs` | one candidate's record and its file | record shadow, record canary, `promote`, `rollback`, `freeze`, save and recover |
| `artifacts.rs`, `custody.rs` | registries of reviewed artifacts and their custody | quarantine, accept, revoke, declare, mark deleted; check of the local bytes |
| `receipts.rs` | keys and verified receipts of a verifier | issue, register key, `verify`, `verify_execution` |
| `market.rs` | verified receipts and reserved jobs | execute, verify, propose settlement |
| `crypto_adapters.rs` | intents and a journal of events per intent | prepare, reconcile, resolve, propose payout, append, save and recover |
| `maintenance.rs` | consumed acceptances, `frozen` | `apply` |
| `maintenance_replication_runner.rs`, `maintenance_replication.rs` | results of scenarios, signed reports, packets | `run_host`, sign, assemble |
| `checker.rs` | none | independent checks of journals and receipts |

The kernel is used by the coordinator (`integration.rs`) and by the broker. All
registries, the broker's journal and the kernel's snapshot are persisted through
`persistence.rs`. The two maintenance engines have durable state of their own.

What makes them hard: callers of several processes interleave over files;
processes die between any two writes; a write that returns an error may have
taken effect; a supervisor outlives the broker that started it; time passes and
policies, evidence and cancellation markers change between a check and its use.
`PROJECT.json` lists these hazards line by line with the properties that
cover them.

## Modules

| Module | Models | Composition |
| --- | --- | --- |
| `Contract` | lifecycle and failure budget | operators on records |
| `KernelOps` | the methods of `Kernel` | operators from a kernel value to the next; extends `Contract` |
| `Kernel` | a kernel called one method at a time, saved and restored | state machine over `KernelOps` |
| `KernelProofs` | theorems about `Kernel` | extends `Kernel` |
| `Workflow` | runtimes, evidence and the coordinator over a shared kernel | composes `KernelOps` |
| `SnapshotStore` | one snapshot path used by several callers | state machine of file operations |
| `SnapshotStoreProofs` | theorems about `SnapshotStore` | extends `SnapshotStore` |
| `TransactionLog` | what the broker promises of its durable record | abstract specification |
| `Broker` | the broker, its journal file and its supervisors | composes `KernelOps`, implements `TransactionLog` |
| `MaintenanceTransaction` | processes sharing a managed workspace | state machine |
| `MaintenanceProcess` | brokers sharing a checkout | state machine |
| `TrimSpaces` | the two functions that trim trailing spaces | functions against a reference definition |
| `Consent` | callers over a consent file and a memory file | state machine over two locks and two files |
| `Replication` | the replication runner, reports and packets | extends `MaintenanceProcess`, which it runs beside the runner |
| `Release` | evidence, claims, packets, plans and releases | state machine over registry copies and one file |
| `Market`, `Settlement` | market receipts and proposals; intents, journal and payouts | state machines |
| `Adaptation` | an adaptation record and its file | state machine |
| `Assurance` | artifacts, custody and the check of the local bytes | state machine with a writer beside the reader |
| `Receipts` | the receipt verifier and the checks that repeat it | state machine |
| `Coordinator` | the patch coordinator over any executor | state machine |
| `CoordinatorProofs` | theorems about `Coordinator` | extends `Coordinator` |
| `MCRecords` | `TrimSpaces` and the seven components from `Release` on in one instance | disjoint union: `part` says which of them moves |

`MC*` modules give the constants of a specification their values. Conventions
used throughout:

- An `Option` is a set with at most one element.
- A digest is the value it is the digest of. Two records with equal digests are
  equal; digests, signatures and canonical encodings never collide or fail.
- A method of the code that takes and returns a record is an operator on the
  record. A call that holds `&mut` on everything it touches is one step. Where
  other processes can see what happens in between, every write is a step.
- A write has an outcome `ok`. When it is `FALSE` the write may or may not have
  happened, as the code's `?` cannot tell.
- A definition introduced by `Mutant:` is a wrong variant of the one after it.
  No specification uses it; replacing the original by it shows that the
  property that watches it can fail.

### Kernel

`kernel` is the `Kernel` struct, `disk` the last saved snapshot, `now` the clock
of the callers, `epoch` counts restarts. `reserved[e]` and `inherited` are history
variables: what `consume` reserved in epoch `e`, and what the snapshot of the
present epoch already recorded. Every public method that changes the kernel is an action. `Consume` is
given any decision ever returned, so stale and foreign decisions occur. `policy` is
a public field, which `ReplacePolicy` assigns. A claim is abstracted to the
`valid_until` of those with the right guarantees; allowlists and cost limits to
the set of proposals a policy permits.

### Workflow

A coordinator call holds `&mut Kernel` and `&mut Runtime`, so it is one step, with
one action for every way it can end. Artifact, custody and receipt verification
give verdicts that the model chooses freely. Two runtimes share a kernel, which
the API permits.

### SnapshotStore

The directory (which name shows which file) and the bytes behind a name are
separate. `views` holds every directory a power loss may leave, which is each one
since the last sync; `unsynced` and `partial` hold the files whose bytes are not
durable or not complete. Any step can fail, any caller can die, and an operator
may remove a lock whose creator is gone, as the documents ask.

### Broker

The broker serves one connection at a time, so `handle_execute` is a sequence
of steps that end at each save, at the launch and in the wait. Supervisors are
processes of their own: they survive the broker, hang or fail. `disk` abstracts
`SnapshotStore` to the outcomes a save can have (`SaveOutcomes`). Requests
refused before admission change nothing. `stuck` remembers the requests whose
output could not be removed or whose supervisor could not be waited for.

### MaintenanceTransaction and MaintenanceProcess

`MaintenanceTransaction` has several processes that call prepare, commit and
recover. The time is read before the lock is taken (`since`) and again before
publication, as in the code. The check of cancellation and lease (`GoAhead`) and
the replacement of the pointer (`Publish`) are two steps. `tree` gives the content of each generation, and a
program that ignores the lock may change one. `MaintenanceProcess` has one run at a time, since
a broker that finds the lock file gives up; what varies is where it fails or
dies, what its leftovers do to the next run, and which configuration runs next.

### Consent

A caller has handles of its own (`handle`, `view`, `known`) and is in at most one
call, whose `pc` walks through the lock files, the check and the write. A gated
access holds the consent lock while it waits for the memory lock and works under it
(`with_active_grant`). The outcome of a write may be an error after which the
temporary file is whole, torn or gone. `acked` remembers the grants whose revocation
returned Ok. A call uses the time its caller read when it began. Routing
requests are assumed active and to outlive their grant. The rename failures of a
recovery occur in `open` only. A registry that came from `load` has no path
(`detached`): its calls take no lock and its updates stay in memory.
`ConsentOutlivesEffect` and `RevocationIsTerminal` are about callers whose
registry has a path, as only those have the promise of the code's comments;
the others run beside them.

### Replication

An arm of `run_scenario` is a sequence of commands (`Script`), interpreted beside
the steps of `MaintenanceProcess`. A failpoint stops or ends the process at its place; a wait may
end before the process got there, a failing evaluator or a kill may come between
(`slips`). `Expected` and `ExpectedScenario` are the two tables of the code.
The scenario that redirects a configuration records the digests of a second checkout
(`alternate`), which no other scenario has. The one that puts a link in place of
the file records the baseline as the final digest without measuring, as in the code.

### Release, Adaptation, Assurance, Receipts, Market, Settlement, Coordinator

Registries in memory are Options, since a crash loses them; their files are
separate variables. Where a method changes a record before it validates it, so
does the action (`Adaptation!Method`). `Release` gives every process a copy of the
registry; `pass` is the copy that another process holds between load and save in
`revalidate_and_save`, and `missed` remembers the freezes that a copy does not know of. In
`Assurance` the file is read piece by piece while another process overwrites, appends
and cuts off pieces; its `stamp` stands for the metadata that
`local_file_fingerprint` compares and is assumed to differ after every write, which a
file system with coarse times does not guarantee. In `Receipts` a signature is the pair
of key and signed body, and `AcceptCompletion` is the acceptance of a broker's answer
by `integration.rs` with the checks of `checker.rs`.
In `Settlement` several requests may name one payment, and a temporary journal beside
a journal is dropped at a crash, since nothing reads it again.
`Market` and `Settlement` take the times of calls from the caller, in no order; sums
keep their width. `Coordinator` leaves the executor free: a write may fail, write
nothing or something else, a read may fail.

### TrimSpaces

Texts over four bytes (space, CR, LF, another one), all of length up to
`MaxLen`. The reference definition says which positions are trailing spaces, as the
comment on `transform_output` does.

## Runs

Passing runs:

| Run | Shows | Bounds |
| --- | --- | --- |
| `kernel` | `SingleUse`, `RestartRevivesNothing`, `BudgetHolds`, `WarrantedAtUse` | two proposals with one nonce, two policies, clock up to 2, one restart; once one of two budgets is configured, one proposal and a clock that stands still (`BudgetBound`) |
| `workflow` | `LifecycleTellsEffect`, `NothingStranded`, `AuditExplainsState`, `BackedByEvidence` | two runtimes; proposals that share a nonce or a key; evidence accepted from the start, submitted for review, or about to expire |
| `snapshot_store` | `MutualExclusion`, `PendingIsNewer`, `AcknowledgedStays`, `PendingIsKept`, `EveryCallReturns` | two callers, two saves and any number of recoveries and faults |
| `broker` | `WriteAhead`, `OpenMeansSettled`, `EveryRequestAnswered`, refinement `DurableLog` | three requests that share a nonce or a destination, two faults, one crash |
| `transaction` | `PointerExplained`, `PublishedOnce`, `PublishWarranted` | two processes, three requests, a history of one receipt, two faults, one crash |
| `process` | `ReplacedOnce`, `KeepsForeign`, `AnswersHold` | two configurations, four requests, one fault, one crash |
| `consent` | `ConsentOutlivesEffect`, `RevocationIsTerminal`, `NobodyIsStuck`, `MemoryLosesNothing` | two callers, two grants, two resources, three calls, one failing write, one crash, abandoned locks, registries with and without a path |
| `replication` | `ResultIsTrue`, `CleanRunReports` | all scenarios, two hosts, one failing write, one crash, two early ends of a wait, two reports |
| `records` | `PacketPromisesNoMore`, `FreezeLostOnlyToOlder` (`Release`); `EarnedOnce` (`Market`); `FileIsSound` (`Adaptation`); `AnswerTellsFile` (`Coordinator`); `CheckedBytesExisted` (`Assurance`); `GrantedOnceInWindow` (`Receipts`); `PaidOnce` (`Settlement`); `TrimIsExact` | two claims and two packets, a process with a copy of the registry and one that revalidates; two receipts over integers up to 3; every order of four pieces of evidence; four applies; two writes during a check; three receipts, two keys; two requests for one payment and one with a key that the checker finds too long, two intents, eight events; texts of up to six bytes |

The bounds are chosen so that every interesting case happens. Replay needs two
proposals with one nonce; a stale decision needs two policies; an error after
an error (a failed save, then a failed removal) needs two faults; a recovery that
meets what another one left needs a crash and a fault. `Broker::new` may fail and be
tried again without a further crash. A text of six bytes holds two line endings
of two bytes with content between them. A revocation that races with a write needs
two callers; a settlement that outlives a crash needs a second receipt for its job; a
payment that is proposed twice needs two intents with one payment and four events of
each. A history that is full while a transaction is in flight needs a bound of one
receipt; a failed restoration after a failed save needs two faults. The components of `records` share no state,
so that their union reaches exactly what each reaches alone. History variables and clocks are bounded by
named constants. Symmetry is used only over processes, runtimes and directories,
which no definition tells apart, and never with a liveness property.

Runs that show a disagreement between a document and the code; each has an
entry under `findings` with the sentence it contradicts:

| Run | What happens |
| --- | --- |
| `broker_commit_record` | the durable journal says Committed for an output that was removed |
| `transaction_expiry` | a receipt that has expired by the time of the check before publication publishes |
| `process_recovery` | the broker's own temporary file keeps recovery from closing the intent |

Smaller differences between documents and code that the models make visible, for
which no run is kept:

- `recover_atomic_snapshot` promotes a pending snapshot also over an existing
  primary. `docs/phase0-contract-v1.md:87` and `docs/artifacts-v1.md:35` say only
  when the primary is absent, `docs/local-assurance-v1.md:424` describes the code.
  `PendingIsNewer` shows that the promotion never goes back in time.
- `broker.rs` saves RolledBack and the freeze by two writes, so a broker that
  dies in between restarts open, where `docs/broker-v1.md:55` says it freezes.
  `OpenMeansSettled` holds nevertheless.
- `Broker::freeze` saves `frozen` without settling entries in flight. The checker
  refuses such a journal (`checker.rs:302`, "frozen broker journal retains
  in-flight authority"); every journal of an open broker it accepts
  (`OpenMeansSettled`).
- When the terminal save of `commit_candidate` errs after its rename
  (`maintenance_transaction.rs:1769`), the pointer goes back while the state that is
  loaded and saved again holds an Applied receipt
  (`docs/maintenance-transaction-v1.md:19`). `PointerExplained` holds.
- `revalidate_and_save` "atomically persists any terminal freezes"
  (`governance.rs:287`); load and save are two steps and a process may later save a copy
  from before, in which the release is still active. `FreezeLostOnlyToOlder` shows
  that such a copy is the only way.
- The checker refuses a crypto journal with an idempotency key of more than 256 bytes
  (`checker.rs:160`), while the adapter's own check has no such limit
  (`crypto_adapters.rs:24`), so that it makes and saves journals that the checker
  refuses. `PaidOnce` says that it refuses no others.
- `docs/maintenance-replication-v1.md:63` gives `ProcessError` as the status of
  `path-escape`; the runner's table, and the broker, say Quarantined.
- `PayoutProposal::from_resolution` and `append_payout_proposed` look at the shape of
  the resolution and not at the intent it is of. `PaidOnce` holds: the journal wants a
  reconciliation of the intent itself.
- A `put` that returned an error may leave a whole temporary memory file, which a
  later recovery promotes, also after its grant was revoked. A revoked grant itself
  never comes back (`RevocationIsTerminal`).
- A contender of the replication runner that finds the lock free, changes and restores
  the file and then errs in its last save answers like one that was blocked, and is
  reported with "NoMutation". `ResultIsTrue` names this exception.
- `maintenance_transaction.rs` `recover` moves the pointer back before it finds the
  history full, and then records nothing (`docs/maintenance-transaction-v1.md:20`).
  `PointerExplained` holds in that case too.
- `transform_output` also removes spaces in front of a bare carriage return at the
  end of the text. Its comment (`broker.rs:1234`) and `docs/broker-v1.md:20` speak of LF,
  CRLF and the end of the text only, and `normalize_trailing_ascii_spaces` does not do
  it. `TrimIsExact` holds `transform_output` to the comment on every other text.

### Fairness

`SnapshotStore!FairSpec` assumes that a caller inside a call keeps being
scheduled. It assumes nothing of faults or of the operator. The lock's retry
loop is bounded in the code, which is why calls return behind a dead holder's
lock. `Broker!FairSpec` assumes the same of the broker thread and nothing of
supervisors, clients or restarts; the deadline of `run_supervisor` is what ends
the wait. `broker*` runs do not check deadlock: a broker may be down for good
once its restarts are used up, and a frozen one has nothing left to do. In `consent`,
`replication` and `records` the number of calls, reports and records is bounded,
so that a behaviour ends where the bounds are used up. `NobodyIsStuck` needs no
fairness: it says that no caller inside a call ever waits for another for good.

## Proofs

`KernelProofs` proves, for all proposals, policies, budgets and bounds that
satisfy the named assumptions `KernelConstants` and those of `Kernel`:

- `TypeCorrect`: `Spec => []TypeOK`.
- `ReservationInvariant`: `Spec => []ReservationInv`.
- `ConsumeIsSingleUse`: `Spec => []SingleUse`.
- `RestartIsSafe`: `Spec => []RestartRevivesNothing`.
- `BudgetsAreFinal`: `Spec => []BudgetHolds`.
- `AuthorityIsWarranted`: `Spec => WarrantedAtUse`.

`SingleUse` is not inductive. That a candidate is not reserved twice rests on its
lifecycle having left Admitted for good; that two candidates with one nonce
are not both reserved rests on the journal refusing the second; that the
journal knows every reserved candidate rests on lifecycles and journal having
the same domain, in memory and in the snapshot that a restart reads.
`ReservationInv` states just that, and adds that what a restart inherited has no
issuance, which is what `RestartRevivesNothing` needs. `BudgetInv` strengthens
`BudgetHolds` by two facts: the recent window holds every failure so far, because the
budget is exhausted before the window is full (`Accounted`), and an exhausted tracker
has frozen its kernel (`Heeded`), so that no further failure is counted. `WarrantInv`
says what an issuance remembers of its admission: its expiry is bounded by the
proposal's and by that of a claim, and its policy permits the proposal; `consume`
compares that policy with the one in force. The proofs have one lemma per operator of
`KernelOps` that a step uses and one case per action.

`SnapshotStoreProofs` proves, for any callers, any number of saves and any
number of lock attempts (`StoreBounds`):

- `StoreTypeCorrect`: `Spec => []TypeOK`.
- `StoreInvariant`: `Spec => []StoreInv`.
- `LockIsExclusive`: `Spec => []MutualExclusion`.
- `PromotionMovesForward`: `Spec => []PendingIsNewer`.
- `AcknowledgedSurvives`: `Spec => []AcknowledgedStays`.
- `PendingIsNeverDropped`: `Spec => PendingIsKept`.

`MutualExclusion` is inductive; the other two invariants are not. They rest on what
the caller inside the lock knows at each operation, which `Working` states: the
temporary file is the one it created or inspected, its bytes are complete
before the rename and, in a save, synced; recovery looks at a directory that
a power loss cannot undo; and an Ok is returned only when every directory a
power loss may leave has the snapshot or a newer one (`Reaches`). `Sound` adds, for
each such directory, that there is at most one pending file and that a primary
with bytes at risk is one that recovery promoted. `MaxSaves` bounds
the saves of a run of TLC only: the theorems hold for each of its values.

`CoordinatorProofs` proves, for any packets, acceptances, contents and number of
calls, without assumptions on the constants:

- `TriedAtMostOnce`: `CoordinatorSpec => []TriedOnce`.
- `AnswersAreTrue`: `CoordinatorSpec => AnswerTellsFile`.

That a packet is not written twice rests on `TriedOnce`: what was tried is
consumed. That RolledBack leaves the bytes from before the call rests on two facts
together: a packet that is not refused found the bytes it expects (`NotRefused`), and
the rollback answers so only after it has read those bytes back.

`TypeOK` of `Kernel` and `SnapshotStore` is not among the runs' properties: it is proved.

Only model-checked: everything about the other modules, the refinement `DurableLog`, both liveness properties (fairness is out
of the prover's reach), `NobodyIsStuck` (`ENABLED` is too) and the functions of `TrimSpaces` (what a fold
computes for every text needs induction over data).

## Not modelled

- Parsing, encodings, digests and signatures; wire envelopes, the JSON key scanner and
  signed observation envelopes of `crypto_adapters.rs`: conversions of bytes.
- `sandbox.rs` and the system calls around it; socket binding and peer checks of
  `broker.rs`, which would need a model of the socket namespace.
- Validation of single records, as in `replication.rs`, `causal.rs`, `property.rs`, `schema.rs`,
  `alignment.rs`, and the checks of single records in `checker.rs`: pure functions without
  state, whose translation would repeat them line by line.
- `audit.rs` builds its hash chain in one call over records that `Workflow` models;
  `execution_gate.rs` always answers Blocked.
- The specialist registry's file, the tool registry and the provider key registry,
  which use save and recover as the registries that are modelled.
- `benchmark.rs`, `faults.rs`, `adapters.rs`, `fresh_packet.rs` and the command line programs:
  drivers and conversions around the library calls that are modelled.

Worth doing next: proofs of `WriteAhead` and `DurableLog` of `Broker` and of `PublishWarranted` of
`MaintenanceTransaction`; a module for two brokers that start on one socket path.
