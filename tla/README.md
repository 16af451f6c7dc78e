# Aizign: specifications of the control journal, the one-shot exchange and the crash check

Aizign records the terminal results of agent assignments ("workflow signals")
in a durable control journal. A harness adapter spawns one `aizign handle`
process per request; the process decodes the request, decides it against the
journal and answers with one frame. Nobody coordinates the processes: they meet
only in the files of a state directory and in an advisory lock on one of them.
What has to be right is therefore what survives kills, failed system calls and
power losses at any moment, and what a caller is told about its own signal.

These TLA+ modules model that program, from the domain rules through the store
to the adapter's tool, and the crash harness that the repository keeps as its
evidence for the store. TLC checks small instances; TLAPS proves the central
facts for every instance.

## Inventory

| Part | Code | State | Operations | What makes it correct |
|---|---|---|---|---|
| Workflow domain | `crates/aizign-core` | the accepted signal of each event id | validate, check_expected, replay, decide, reconcile | one accepted signal per event id; deciding and reconciling agree |
| Engine | `crates/aizign-engine` | none between requests | submit = load, replay, decide, clock, append; reconcile = load, replay, classify | decides on a snapshot that is still current when it appends; codes tell the truth about effects |
| JSONL store | `crates/aizign-store-jsonl` | `workflow.lock`, `.jsonl`, `.commit.json`, `.publish.json`, the state directory | open / initialize / resume, load, append (PREPARED, record, commit point, CLEAN), shared reader | what was told committed survives; an interrupted append reads as unknown; no process completes or undoes another's append |
| CLI handler | `crates/aizign-cli` | dispatch gate, result channel | worker thread, watchdog, frame output | a timeout that says "no effect" means it; the process ends |
| Process client | `adapters/dsh/src/core-client` | settled flag, timer, child | spawn, abort, timer, close, classify | the outcome given to the caller is true; the call settles |
| Tool, config, preflight | `adapters/dsh/src` | configuration | tool call, handshake | one fixed event id per binding; unknown is never retried |
| Codecs | `crates/aizign-protocol`, `packages/protocol` | none | encode, decode | both sides read a frame alike and fail in the same order; what differs is known |
| Crash harness | `crash_harness.rs`, `durability.rs` hooks | the manifest's row, controller counts, children, pipes, deadlines | stop a store process after a named primitive, kill or release it, let a contender and an inspector try the store | each row describes what the store does; a row passes only with its whole evidence; nothing waits in vain |
| store-crash-check | `xtask/src/store_crash.rs` | candidate copy, running command, deadline | audits, nine mutations each shown green, detected, green, then the matrix | success only with all the evidence; ends and leaves nothing behind |
| Profile qualification | `profile.rs`, `mountinfo.rs` | none | accept or refuse a file system | refuses before any write |
| Observation, test kits, other tooling | `timing.rs`, `testkit`, `xtask`, ... | measurements | | no decision depends on them |

Parts interact by call (CLI to engine to store), by process and pipe (client to
CLI), and through shared files (process to process). The hard behaviours are:
the sampling of files before the lock is held; in-place rewrites and renames
that are visible before they are durable; a predecessor's abandoned work; two
threads that race for one gate; a timer that races a late append; an agent that
calls its tool again after an unknown outcome; a harness whose child hangs, dies
early or is stopped somewhere else than its evidence says. `hazards` in
`PROJECT.json` lists them at their lines, with the properties that watch them.

## Modules

`WorkflowCore` holds the domain rules as operators on signals and histories.
`WorkflowReplay` is `WorkflowState::replay` as the loop of the code.

`StoreImage` says what a set of files *means*: the decoders of the commit point
and of the witness, `read_snapshot`, the reader's opening and the writer's
validation, as operators on an image (one value per file). A record is one
cell, an unreadable tail is `Torn`, a record of another schema is `Foreign`;
lengths count cells, and the prefix hash is the prefix itself, so equality of
hashes is equality of what was hashed. `StoreImageMatrix` gives a reader and a
writer every image, and lets the engine replay what the reader was handed:
`Read`, `Write` and `Replay` are one request over one image, from the files to
the decision.

`ControlJournal` is the abstract specification: a log, requests and answers. A
submission that ended as unknown may still be revealed later; nothing else may. Its
promises are proved of it, and TLC checks them where they matter, on the files:
`NoEventTwice` and `AnswersHold` of `JsonlStore`.

`JsonlStore` is the store driven by the engine. One action is one durability
primitive of the code (`durability.rs`), so `IoError`, `Kill` and `PowerLoss`
may fall between any two. The file system is external and is modelled by three
functions: `vis[n]`, what a name shows to every process; `data[n]`, the contents
the file may have after a power loss; `stale[n]`, what the name may fall back
to. A write adds to `data`, `fsync` of the file leaves the visible contents only;
creating and renaming add to `stale`, `fsync` of the directory empties it. A write
may survive torn. The history variable `known` is the committed log that
someone was last told.

| Code | Actions of `JsonlStore` |
|---|---|
| `ensure_state_directory` | `EnsureStateDir`, `CreateStateDir`, `SyncStateDir`, `SyncParentDir` |
| `open_with_ops`: existence, lock, journal | `StatArtifact`, `OpenLock`, `AcquireExclusive`, `OpenJournal`, `OpenExisting` |
| `initialize_fresh_store`, `initialize_witness` | `SyncLock`, `SyncJournal`, `SyncInitDir`, `CreateWitness`, `WriteInitializing`, `SyncInitializing`, `SyncWitnessDir` |
| `publish_commit` | `OpenTemporary`, `WriteTemporary`, `SyncTemporary`, `RenameCommit`, `SyncCommitDir` |
| `append_with_ops` | `RevalidateAppend`, `TruncatePrepared`, `WritePrepared`, `SyncPrepared`, `WriteRecordPart`, `WriteRecordRest`, `SyncRecord`, then `publish_commit`, `TruncateClean`, `WriteClean`, `SyncClean` |
| `JsonlJournalReader` | `ReaderOpen`, `AcquireShared` |
| `execute_workflow_signal`, `execute_reconciliation` | `LoadCommitted`, `Decide`, `ClockError`, `Reconcile` |

`OneShotExchange` composes the client with the two threads of the process it
spawned. Its store is what `ControlJournal` promises, reduced to the set of
calls whose signal is durable: an execution decides and appends in one step, and
that a definite error means "nothing appended" is `RefusedNeverApplied` of the
store's runs. A kill takes effect at once. The code's SIGKILL lets a system call
in progress finish; the store's exclusive lock is held until the process is
gone, so a reader that can answer at all sees what the process left. Error codes
that no check of the client tells apart have one representative, and every code
is one of `CURRENT_FIXED_ERROR_CODES`: a code outside them, which `classify` would
turn into unknown, comes from no handler.

`DshAdapter` puts the plugin on top of it. `Apply` validates the configuration
and begins the hello, `Preflight` is its continuation, `Execute` is the tool up
to its `await` (decoding the arguments, resolving the trusted values, the local
gate of `encodeRequest`, which is `TsCodec`'s), `Resume` the rest. The adapter
keeps nothing between calls, so its state is the configuration and the results.
What the host does besides, and the rendering of results, is not modelled.

`Frames`, `RustCodec`, `TsCodec` and `CodecExchange` are the protocol boundary.
A frame is a record of classes, one per member, that some check of either codec
tells apart; each decoder is a list of checks in the order of its source and
the code of the first that applies. `RustCodec` and `TsCodec` are translated
separately, each from its own package, and share nothing but the vocabulary of
`Frames`. That vocabulary keeps apart what only serde reads: the derived visitors of
the Rust DTOs take an array for an object and `{name: null}` for the name of a
variant (`serde` of a payload, "serde" of a result, `array` of an error), and an
`Option` takes null for absent (`Null`). `CodecExchange` sends a client's request through the handler, the two
built with possibly different operation versions, and puts the two decoders of
each direction side by side on arbitrary frames.

`RustScan` and `TsScan` are the token scanners below them, one operator per kind
of token; `TokenScan` generates grammatical JSON text token by token, lets both
read it and compares them with definitions over the finished text. What the
scanners report (`failure`, `safe`, `wide`, `deep`, the probed members) is what
`Frames` assumes of a frame. Grammar itself (`validate_json_grammar`,
`JSON.parse`) is the generator's.

`CrashManifest` is the closed manifest of the crash evidence: the 61 scenarios,
each naming a primitive of `durability.rs`, an artifact, an occurrence and a
result, the 18 result records, and the rows the nine sentinels repeat.
`CrashHarness` extends `JsonlStore`: every store operation of a child is one
process of it, one step reports the events of the primitives it completes, and
the controller in the primary counts them and stops the child at the row's
event. `SpawnChildren`, `ReadReady`, `AtCut`, `FreshContender`, `ContenderEnds`,
`EndPrimary`, `PrimaryEnds`, `StartInspector` and `InspectorEnds` are the parent,
in the order of `run_scenario`; `Deadline` stands for every wait that has one.
Children may hang, die, or meet an I/O error at any step. Kills leave the files
as they are, so no power is lost here. `StoreCrashCheck` adds `run` of
the xtask: the audits (one step that passes or fails), the candidate and its
mutations, the bounded commands, the matrix as a command, and the validation
of the evidence it prints. The matrix runs on the working tree; the campaign
runs on a copy made before, and a focused test may end in any way.

Modules named `...Proofs` hold the theorems of the module they extend (see
"Proofs"). Modules named `MC...` only give constants their values. Definitions whose
comment begins "Faulty variant of" are not part of any specification: they are
the mutations by which each property is shown to be sensitive to the code.

## Runs

| Run | Instance | Checked |
|---|---|---|
| `store_image` | every image with journals of up to 2 cells, all commit points and witnesses of generations up to the bound, torn, absent and foreign ones; every published history of up to 3 entries over 3 event ids, 2 contents each, 1 foreign attempt | `KnownIsCleanAuthority`, `WriterPermission`, `AppendCutPointIsUnknown`, `ReplayMatchesHistory`, `DecideAgreesWithReconcile` |
| `store_crash` | 2 processes, 4 signals, 2 entries, 2 power losses | `TypeOK`, `KnownSurvives`, `CrashNeverContradicts`, `SnapshotCurrent`, `RefusedNeverApplied`, `NoEventTwice`, `AnswersHold`, `ImplementsJournal` |
| `store_late_reader` | 3 processes, 1 signal, 1 power loss | `AbandonedStaysPut`, `KnownMonotone` |
| `store_race` | 3 processes, no state directory yet, nothing fails | `EveryRequestAnswered`, `SomeSubmitDecided` |
| `exchange` | 2 calls, 2 signals of one event | `OutcomeIsTrue`, `NoEffectAfterTimeout`, `AbsentIsFinal`, `EveryCallSettles` |
| `adapter` | every configuration, a handshake and 2 tool calls, every kind of signal, wrong counts and malformed arguments | `OneResultPerBinding`, `ToolErrorIsTrue`, `ArgumentsDecide` |
| `codec` | 2 operation versions on either side, every envelope with 11 payloads, every payload of an operation in a good envelope, 3 kinds of response frames | `RequestsReadAlike`, `ResponsesReadAlike`, `EncodedIsUnderstood`, `AnswerIsReadable`, `SkewIsReported` |
| `token_scan` | every beginning, of up to 8 tokens, of a grammatical text whose root is an object; depth limit 2 | `FirstDefectFixesTheCode`, `CorrelationIsFinalSpelling`, `ErrorCodeIsDirect`, `PayloadBoundsAreMarked` |
| `crash_check` | all 61 scenarios and the 14 rows of the sentinels, faults of every kind at every step; nine mutations | `MatrixHolds`, `InspectedImageIsClaimed`, `NoVainWait`, `PassIsEvidence`, `CheckIsEvidence`, `CheckEnds` |
| `store_torn_witness` | 1 process | `ReleaseWeakensToUnknown`, violated |
| `store_lost_directory` | 3 processes, no state directory yet, 1 power loss | `KnownMonotone`, violated |
| `codec_sets` | the frames of `codec` | `SameFramesAccepted`, violated |

`crash_check`: the hand-written manifest and the store
agree. For each of the places where a process is stopped, the image it leaves is
the one the row's result code names, and reader, reconciler and writer answer
it as the row says (`MatrixHolds`, `InspectedImageIsClaimed`); an early exit, a
missed or repeated event, a late child or a hanging command never turns into a
passed row or a successful check (`PassIsEvidence`, `CheckIsEvidence`). `codec` says
how far the decoders of the two languages agree, over spellings too that only one of
them reads, and `codec_sets` that this is less than the protocol's README promises.
`adapter`: the agent may repeat its call as it likes, an accepted configuration serves
every kind of report, and only `AIZIGN_OUTCOME_UNKNOWN` leaves anything open.

Bounds. `MaxEntries` bounds the journal: two entries are needed for a commit
point that replaces a non-trivial one, and a third repeats the second. No run appends
more than that: the refusal at the bound (`JOURNAL_BOUND_EXCEEDED`) is left to the
proofs, which hold for every `MaxEntries`; `CrashesNeverContradict` is what an append
beyond it would break, since the decoders refuse such a generation. Each
process handles one request, as in the code. Two processes suffice for every
race on the lock; a third is there where somebody has to read what two others
left. Two power losses let the second strike a store that was recovered from the
first. The signals are an original, a conflicting one with its event id, an
independent one, and one that the bound assignment refuses. Symmetry is used
only in runs without liveness. Eight tokens hold a repeated `error` member whose
first spelling is an object with a code, and a container two levels below the
payload; the depth limit of the code is 128, and 2 makes it reachable. Envelope
and payload defects are combined only through one representative of each class
of payload: no check of either decoder reads both at once. In `crash_check` the
rows are run one after the other, as in the code; the record has 9 bytes, which
gives the three partial writes (1, half, all but 1) distinct lengths that all
leave a torn tail, and the bound of 3 entries is above the 2 any row appends.
Two tool calls are enough for every pair that meets in the journal; a third
would find what the second finds.

Deadlock is not checked: each process handles one request and stops, and the
crash check returns, so every behaviour ends. That the harness does not get stuck
before is `NoVainWait`.

Fairness. `JsonlStore!FaultFreeSpec` assumes only that the operating system keeps
running a process that can take its next step; requests need not arrive. No lock
is waited for in the code, so weak fairness of the steps is enough. It leaves
the failures out: a failure or a death ends its request and gives others no
more to wait for, while a competitor that is never refused by a failure is the
hard case of the race. `OneShotExchange!FairSpec` assumes that the main thread of the
process and the client's event loop run; it assumes nothing of the worker, which
may hang in the store or in a read, nor of the client's timer: the watchdog
alone must be enough. `StoreCrashCheck!CheckSpec` assumes that `run` and the parent
of the matrix keep running and that their deadlines pass; it assumes nothing of
the commands and the children, which may hang anywhere. The calls of the code
that have no deadline (git, rustc, the wait after a kill and the join of the pipe
readers; `store_crash.rs:221` and `231-238`) are assumed to end: SIGKILL ends a child
and closes its pipes, and a kill succeeds.

## Findings

`store_torn_witness`. `rewrite_file` (`durability.rs:179`) truncates the witness
before it writes it. A process that dies in between after its commit point is
published leaves an empty witness, which reads as `JOURNAL_CORRUPT`. The store
specification says that a crash there weakens the result "from known to
unknown". Nothing that was known is lost; the store has to be repaired by hand
where the document promises an unknown outcome.

`store_lost_directory`. `ensure_state_directory` (`journal.rs:1041`) only
qualifies a directory that exists. If its creator died before the barrier on the
parent, the next writer commits in a directory whose own entry was never
synchronized, and a power loss may take the directory away with a result that
was reported. ADR-0028 says that "Crash loss can weaken a result to unknown
without producing a contradictory older known result". Whether it shows depends on
whether the file system persists ancestors with an `fsync`; the store's own
protocol synchronizes the parent in the run where it creates the directory, so
it does not rely on that. With a directory that is provisioned durably before
the first request, `KnownMonotone` holds (`store_late_reader`).

`codec_sets`. The schemas and the decoders of both languages are to accept the same
set (`spec/protocol/v1/README.md:142`). The DTOs of the Rust crate
(`workflow_signal.rs:17-100` and `364-376`, `envelope.rs:184`, `hello.rs:13-74`)
derive `Deserialize`, whose visitors read a struct from an array as well and a unit
variant from `{name: null}`; `deny_unknown_fields` has no part in that. So the Rust
decoder accepts a `candidateDigest`, a `signal` or an `expected` that is an array in a
request, and an `error` or a result that is one in a response. (The `payload` of a
request is a `Map` and has to be an object.) Besides, an optional field is to be left
out and null not allowed (line 153), but `ResponseEnvelope` (`envelope.rs:178`) reads
`payload` and `error` as `Option`, for which serde takes null and absent alike. The
TypeScript decoders ask for own properties that are plain objects and refuse all of
these, as the schemas do. TLC reports the first such frame it meets.

Neither encoder writes such a frame (`EncodedIsUnderstood`, `AnswerIsReadable`), and
the difference goes no further: `RequestsReadAlike` and `ResponsesReadAlike` hold on
all frames, these included. Correlation and version are the same, what TypeScript
accepts Rust accepts to the same effect, and every other frame gets the same code,
but for a scalar payload beyond a double, which both refuse with different codes.

## Proofs

The proofs hold for any sets of processes, calls, clients and signals, any bound
on the entries and on the length and depth of a text, any versions and any number
of power losses.

| Module | Theorems |
|---|---|
| `ControlJournalProofs` | `EventsAreUnique`, `AnswersStayTrue`, `DuplicatesAreAccepted` |
| `StoreImageProofs` | lemmas on images: the shape of a snapshot, the store's own documents |
| `StoreImageMatrixProofs` | `KnownResultsAreClean`, `WritersArePermitted`, `CutPointsAreUnknown`, `ReplayIsClosedForm`, `DecisionsAgree` |
| `JsonlStoreProofs` | types and lock: `TypesHold`, `LocksExclude`, `SnapshotsStayCurrent`; crashes: `StoreInvariant`, `KnownIsNeverLost`, `KnownOnlyGrows`, `CrashesNeverContradict`, `AbandonedAppendsStayPut`; refinement: `RecordInvariant`, `RefusalsLeaveNothing`, `StoreImplementsJournal`, `PromisesAreKept` |
| `DshAdapterProofs` | the exchange: `ExchangeInvariant`, `OutcomesAreTrue`, `TimeoutsHaveNoEffect`, `AbsenceIsFinal`; the plugin: `AdapterInvariant`, `PluginImplementsExchange`, `OneResult`, `ToolErrorsAreTrue`, `ArgumentsAlwaysDecide` |
| `CodecExchangeProofs` | `ExchangeInvariant`, `RequestsAlwaysReadAlike`, `ResponsesAlwaysReadAlike`, `EncodedIsAlwaysUnderstood`, `AnswerIsAlwaysReadable`, `SkewIsAlwaysReported` |
| `TokenScanProofs` | `ScanInvariant`, `FirstDefectAlwaysFixesTheCode`, `CorrelationIsAlwaysFinal`, `ErrorCodeIsAlwaysDirect`, `PayloadBoundsAreAlwaysMarked` |
| `StoreCrashCheckProofs` | `CheckInvariant`, `CheckIsAlwaysEvidence`, `RowInvariant`, `RowsPassOnEvidence` |

**The abstract journal.** The inductive invariant `IInv` adds to the three promises
that every entry belongs to a request that was made, and that client has no other
entry: without it a step of `Reveal` or `Accept` could contradict an answer. The
theorems have `NoneIsNoValue` as a hypothesis, which `PromisesAreKept` discharges for
the store.

**Images and histories.** An image is arbitrary, so there is nothing to induct on:
`KnownResultsAreClean`, `WritersArePermitted` and `CutPointsAreUnknown` follow the
checks of the reader and the writer in their order and show that what gets past all
of them is exactly what the contract describes. `ReplayIsClosedForm` needs no
induction over data either, since `WorkflowReplay` is a state machine: its
invariant `ReplayInv` says that the map so far is the closed form of the events so
far, and one more `Apply` keeps it. `DecisionsAgree` needs no invariant: it
compares the two functions on any history.

**The store's types and lock.** Two facts make `TypeOK` inductive: a process that
left "idle" has a command, and a process that is to write a record has a journal
of cells in front of it. `LockInv` ties each program counter to the lock it must
hold; the core of `SnapshotsStayCurrent` (`BystanderCurrent`) is that a step which
changes the journal, the commit point or the witness is one of an exclusive
holder, so nobody else is at a point where a snapshot matters.

**Crashes.** `KnownSurvives` and `CrashNeverContradicts` are far from inductive:
they speak of what the files could become, and only the order of writes and
barriers bounds that. `CrashInv` names five situations of the artifacts
(`NoCommit`, `EmptyCommit`, `Committed(S)`, `Writing(S, e)`, `Renamed(S, e)`),
each with a bound on `data` and `stale` of every name, and says which of them a
process inside the publication protocol is in, by its program counter (`Phase`).
When a process dies the situation stays and nobody needs to know: the next one
finds out by reading. A power loss picks from `data` and `stale` and lands in one
of the five again. The proof has one lemma per primitive of the file system and,
under each action, one step per part of `CrashInv` the action can disturb. From
it, every combination of files that could survive is read off, situation by
situation.

**Who wrote what.** For the refinement the situations are not enough: revealing a
record that nobody was told of must be the late effect of a submission whose
outcome is unknown, and of one that the core would still accept. `JournalInv` says
so: a process that is not appending and did not end open has no record in any
journal that could survive (`Unwritten`, hence `RefusalsLeaveNothing`); a process
that appends was decided against the history clients were told (`Resolved`); the
record beyond that history, if there is one, belongs to such a submission
(`Attributed`). `StoreImplementsJournal` maps every step to one of
`ControlJournal` or a stutter, and `PromisesAreKept` carries the theorems of
`ControlJournalProofs` over to the files.

**The exchange.** `ExchangeInv` says which pairs of thread states the dispatch gate
allows (`Gate`), that no thread outlives its process and no process its call
(`Threads`), and that every response on its way, in the channel, in the frame being
written or in the pipe, is already true of the journal (`Truth`). That last part is
what makes `OutcomeIsTrue` inductive: a late frame of a killed process must not
become false while it travels. `AdapterInv` adds what the plugin knows: its
configuration was accepted, and a tool call reports the outcome of its own exchange
and of no other. Since every step of the plugin is one of the exchange or leaves it
alone (`PluginImplementsExchange`), the theorems of the exchange apply below it.

**The codecs.** A decoder is a list of checks and the code of the first that fails,
so the comparison has two parts. `First2` to `First11` say what the first failing
check of a list is, and one lemma per stage (`SelectionAgrees`, `PayloadsAgree`,
`VersionsAgree`, `ResponseChecksAgree`) shows that the two lists, written in
different orders and with different checks, fail with the same code on every
frame without a spelling that serde alone reads. For the others `AcceptedResponse`
and `PayloadsAgree` show that TypeScript refuses them, and `HugeIsRefused` that Rust
refuses a payload beyond a double. The frames are arbitrary, versions range over all
naturals, so the two theorems hold of frames no instance enumerates. The exchange needs
`ExchangeInv`: a request the client sent is what its encoder made of a payload it
accepts, and an answer is what `respond` or the watchdog makes of that request.
`EncodedIsAlwaysUnderstood` then follows the encoder's output through every check
of the decoder, and `AnswerIsAlwaysReadable` and `SkewIsAlwaysReported` do the same
on the way back, for every pair of versions.

**The scanners.** A text is a sequence of tokens of any length, so what the scanners
hold must be described by the text itself. `Grammar` says what a grammatical
beginning is: where each token sits, which containers are open, what is wanted
next. `RsInv` and `TsInv` say what each scanner has made of it: one level per open
container, with the names that have been seen in it (`LevelIs`; the Rust scanner
drops an ill-formed name where the TypeScript one keeps it), the first offending
token (`FailureIs`), the last root values (`ValuesAre`), the code directly in the
last error (`CodeIs`), and the marks. None of the four properties is inductive by
itself: whether the next token is a duplicate, or lies directly in `error`, is
known only from the levels. Each kind of token has one lemma per scanner.

**The crash check.** Two invariants, one for each layer. `CampaignInv` counts the
observations: at each point of `run` their number follows from how many mutations
are through and which test is running, and each of them ran on the right
candidate; the last one counts only when it was judged. With `Verdict`, that only
the inspector of the last row lets the matrix pass, `CheckIsEvidence` follows.
`RowInv` says what the parent may conclude at each place: what a record on the
pipe means for the primary (`PrimaryInv`), which ends of which children lie behind
the parent (`ParentInv`), and that only a living child holds the lock (`HeldInv`,
which rests on `StepHeld`: no step of any store operation touches another's lock).
It holds through every fault, and `RowsPassOnEvidence` reads it off when an
inspector ends.

Assumptions on constants, all evaluated by TLC in the runs. Most say that a marker
is no ordinary value: `None` is no request, answer, call or result
(`NoneConstants`, `NoneAssumption`, `ValueAssumption`,
`ArgsAssumption`, `NoneIsNoStatus`), the markers of the codecs and the scanners are
told apart from names, codes and payloads (`MarkerConstants`, `ScanConstants`), `Absent`, `Torn` and `Foreign` are no record, document or
journal (`FileConstants`, `MatrixConstants`), the error of replay is no map
(`ReplayConstants`). The bounds are natural numbers, of which `MaxEntries` is
positive (`StoreConstants`, `MaxEntriesIsPositive`), and replayed signals are valid
(`SignalsValid`), as the record decoder makes sure. In the adapter, an argument
is one of the classes that the decoder tells apart (`ArgsAssumption`), and what
configuration and arguments make is a signal with its event id
(`SignalAssumption`). In the codec, the frames put in front of the decoders are
frames, and versions are positive (`ExchangeConstants`). `RowsEndInOneWay` is of
another kind: it restates what the rows of `required_matrix` have in common (which
ends go with a contender, and that a reader is released). The manifest is a closed
table that depends on no constant, so the evaluation by TLC is complete; a proof
would expand its 75 rows.

One hypothesis is about the deployment: `KnownIsNeverLost`, `KnownOnlyGrows`,
`StoreImplementsJournal` and `PromisesAreKept` assume `StateDirProvisioned`, that the
state directory was made durable before the first request. It cannot be dropped:
`store_lost_directory` is the counterexample. The other theorems do not need it.

Left to TLC:

- liveness (`EveryRequestAnswered`, `SomeSubmitDecided`, `EveryCallSettles`,
  `CheckEnds`), which the prover does not do;
- `NoVainWait`, which speaks of `ENABLED`;
- `MatrixHolds` and `InspectedImageIsClaimed`: they compare each row of a closed
  table with what the store does up to one primitive. The instance is not a small
  one of many, it is the manifest; TLC walks it completely, with every fault, and a
  proof would repeat that walk row by row.

## Not modelled

Identifier syntax and the character level of JSON (grammar, escapes, the spelling
of numbers): sequential text predicates, which both languages pin with a shared
corpus. The request encoder of the Rust crate and the response encoder of the
TypeScript package, which only tests use. File-system qualification, which appears
as an error of the step that asks. Observation and timing, which no decision
reads. Test kits and the other tooling, which have no state of their own.
Of the crash harness: the audits of source text, the three in-process fixtures of
the sentinels (a step that may fail), file modes and inodes in the artifact
snapshot. Of the adapter: the provenance key, which nothing reads, and wording.
`PROJECT.json` lists each with its reason. The bound on journal bytes and entries
appears as `MaxEntries`, whose excess is a refusal before any write.

## Plan

1. Done: `WorkflowCore`, `WorkflowReplay`, `StoreImage`, `StoreImageMatrix`,
   `ControlJournal`, `JsonlStore`, `OneShotExchange`, and the proofs above.
2. Done: the boundary (`Frames`, `RustCodec`, `TsCodec`, `CodecExchange`,
   `RustScan`, `TsScan`, `TokenScan`).
3. Done: the crash evidence (`CrashManifest`, `CrashHarness`, `StoreCrashCheck`)
   and the plugin (`DshAdapter`).
4. Done, proofs: the crash invariant of `JsonlStore` and what follows from it, the
   refinement of `ControlJournal`, the image matrix, replay, the exchange and the
   plugin.
5. Done, proofs: the scanners over texts of any length, the codecs over every
   frame, and of the crash check what a row and the whole check may pass on.
6. Left: `validate_json_grammar` as a pushdown automaton against a reference
   grammar; the framing rule (`read_stdin`, `OneShotFrameCollector`) over short
   byte classes; `JOURNAL_BOUND_EXCEEDED` in a run, and the generation limit with
   real widths; file-system qualification as a guard that may change between opening
   and appending.
