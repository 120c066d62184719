# Formal model of APU

APU (Agent Policy Updater) audits the instruction files, plugins and skills of coding agents,
plans changes to them, applies what its operator approved, and keeps enough on disk to undo it.
Everything it promises is about files: what was there before, what it put there, and what
survives a process that dies half-way. This directory models those promises in TLA+, checks them
with TLC on small instances, and proves the central ones with TLAPS for every value of the
constants.

Source paths are relative to the repository; the implementation is `src/apu/*.py`.

## The system

| Component | Code | State | Operations | Correct when |
|---|---|---|---|---|
| Restore journal | `restore_journal.py` | `restore-journals/<id>/`: `journal.json`, private copies, side files beside the targets | `restore_items`, `resume_restore` (complete, unwind) | any interruption can be recognised and finished; a terminal status is true; no object somebody else wrote is overwritten |
| Package upgrades | `package_transactions.py`, `claude_package_upgrade.py`, `package_upgrade*.py`, `package_state.py`, `snapshot_restore.py` | a journal per request, a restore point per request, two file locks | `packages upgrade`, `rollback`, recovery | one request updates once, never without a backup; a receipt says what was seen; later edits survive |
| Plan apply and rollback | `apply.py`, `rollback.py`, `receipts.py`, `chain.py`, `retire.py`, `state.py` | targets, `installations/<id>/`, `registry.json` | apply, rollback, retire | a transaction is all or nothing; a rollback restores what it can and says what drifted |
| Campaign index | `campaigns.py` | manifest, write-once leaf artifacts, revisioned `index.json`, a lock file | create, register, reconcile, rebuild | the index is what the leaves say; nothing is counted twice |
| System campaigns | `system_campaign.py`, `system_planning.py`, `system_audit.py` | a bundle of plan, snapshot and work orders | propose, apply, status | an interrupted campaign resumes without repeating an operation |
| Snapshots | `snapshots.py`, `snapshot_scope.py` | manifests and content-addressed blobs | create, diff, retention | no blob of a kept snapshot is collected |
| Dispatch | `dispatch*.py`, `runners/` | stage directory, dispatch records | probe, dispatch, apply | a work order is attempted as often as its record says, and never outside its stage |
| Native continuation | `native_continuation.py` | reservation files | claim, admit, observe | a continuation is reserved before it has an effect, and once |
| Evidence | `evidence.py`, `evidence_retention.py`, `behavior_lock.py` | JSONL per session, cursors | append, ingest, reconcile, prune | no event is lost, counted twice or pruned while referenced |
| Behavior watch | `behavior_watch.py`, `behavior_cli.py` | incidents, diagnoses, interventions | mark, diagnose, intervene | an intervention goes to the session its incident was seen in |
| Outcomes, efficacy | `outcomes.py`, `efficacy_policy.py` | append-only outcomes, overrides | append, promote, demote | a promotion rests on the outcomes recorded |
| Guidance, model registry, policy deltas | `guidance.py`, `model_registry.py`, `policy_delta.py` | adopted baselines, registry artifact, intake | refresh, adopt, ingest | what is adopted is what was reviewed |
| Audit, planning, review, command line | the rest | inventories and plans | pure | |

The components meet on disk. A package upgrade takes a snapshot and restores it through the
restore journal; a system campaign applies plans, registers their receipts as leaves and folds
them into its index; rollback writes a leaf as well. Processes exclude one another with advisory
file locks that are refused, not waited for. There is no daemon: every operation is a command
that may die at any line, and whatever runs next has only the files.

So the hard behaviours are: a death between two file operations; a retry that meets the remains
of the first attempt; an error in the middle of undoing an error; a value read before a lock is
taken and used after; somebody else's edit in a place that is about to be replaced; two commands
that hold different locks.

## The modules

| Module | Models | Built on |
|---|---|---|
| `RestoreJournal` | one journal of `restore_items` / `resume_restore`, every file operation a step | |
| `RestoreJournalProofs` | its theorems | `RestoreJournal` |
| `ClaudeUpgrade` | upgrade, recovery and rollback of packages in the one Claude store | a restore as three steps (away, back, verified), whose inside is `RestoreJournal` |
| `ClaudeUpgradeProofs` | its theorems | `ClaudeUpgrade` |
| `Installations` | apply, rollback and retirement of plans outside a campaign | |
| `InstallationsProofs` | its theorems | `Installations` |
| `CampaignLedger` | the abstract record of a campaign: artifacts only ever added, an index that says what they said | |
| `Campaigns` | one campaign from proposal to rollback, every file of it | refines `CampaignLedger`; an apply replaces its target in one step, whose inside is `Installations` |
| `CampaignsProofs` | that it does, and its other theorems | `Campaigns` |
| `Snapshots` | restore points over shared blobs, and their retention | a restore swaps in one step, whose inside is `RestoreJournal` |
| `SnapshotsProofs` | its theorems | `Snapshots` |
| `EvidenceStore` | the evidence of one session in three formats, audits of it, its pruning | the behavior lock, a step to take and a step to release |
| `Delivery` | the abstract promise of a reservation: a prompt is submitted once, at most one turn comes of it, what is finally said of it is said once and is so as far as the text of a turn tells | |
| `Continuation` | the Claude plugin, its commands and the reservations they keep | refines `Delivery` |
| `SessionSelection` | which session a report is about | |
| `SessionProofs` | that `Continuation` does, and the other theorems of the three | `Continuation`, `EvidenceStore`, `SessionSelection` |
| `Jobs` | commands that run at once without a lock, and die | |
| `Guidance` | fetched guidance, work orders to distil it, adopted baselines | `Jobs` |
| `ModelRegistry` | which published model each runtime stands for | `Jobs` |
| `AuditInputs` | the system audit and what it is an audit of | `Guidance` and `ModelRegistry`, composed |
| `AuditInputsProofs` | theorems of all four | `AuditInputs` |
| `Redaction` | texts, credentials and placeholders: operators | |
| `Dispatch` | one work order from its proposal to a plan or a quarantine | `Redaction`; the campaign around it is `Campaigns` |
| `DispatchProofs` | its theorems | `Dispatch` |
| `Maps` | dicts and JSON objects as functions, and `None` | used by `Campaigns`, `Snapshots` and the modules of a session |
| `MC*` | model values, and nothing else | the module named |

### RestoreJournal

`restore_items` describes and copies every original and every desired object, stages the desired
ones beside their targets, writes `journal.json`, and only then swaps item by item: target to
`displaced`, `prepared` to target. An error makes it reverse the swaps made. `resume_restore`
classifies where each item is and completes or unwinds. The variables `target`, `prepared`,
`displaced` and `incoming` are the four paths of an item; `original`, `desired`, `origArt` and
`desArt` the descriptions and private copies in the journal; `diskStatus` and `diskState` what
`journal.json` holds, `memState` the copy in memory, which a death loses. `pc` and `cur` say which
line runs, for which item. Objects are the `(type, sha256, mode)` descriptions every comparison of the
code uses. A rename is one step; a copy, and the removal of a directory, has a half-way point
where the path holds `Torn`. `Fault` is an `OSError` at any fallible call, `Crash` a death between
any two steps, `Edit(i)` somebody else's change of a target while no restore runs.

Abstracted: the checks of links, roots and permissions in the preflight are one refusal; the
failure hooks of the tests are left out.

### ClaudeUpgrade

The coordinator (`execute_journaled_upgrade`, `recover_package_upgrade`, `record_package_restoration`)
holds one file lock per package for the whole of a command. The executor it drives takes the lock
of the store around each of its parts (update, restore), and not in between. `journal[r]` is the
file of request `r`, `point[r]` its restore point, `restore[r]` the restore journal the point
names. One store holds every package, so a backup for one is a backup of all. `pc[p]` is the
part of the command process `p` runs; the coordinator's part is the actions of `Coordinate`, the
executor's restore those of `Restoring`. `runs` and `known` are histories: how often Claude was
asked to update, and which stores a request may take away because an update recorded them or an
operator reviewed them.

Abstracted: the backup and the hashes before and after it are one step, so the second hash (`claude_package_upgrade.py:231`), which refuses a
store that changed meanwhile, is not put to the test; `restore-started` and `restore-interrupted` are one status (nothing distinguishes
them but the message); an observation of the store is one step; both locks are refused when
taken, never waited for, as in the code; the lock of snapshot retention is left out; `Crash` is also an
exception that leaves the command. `recover_package_upgrade` is a function of the module that no
command line exposes yet: it is modelled because the module offers it. Claude and its user leave
the store alone while a command runs (`README.md:260`), so `Edit` needs every process idle.

### Installations

`apply_plan` refuses a gap in the chain (`Apply`), checks and backs up every target (`Preflight`), then that what a
relocation removes is what it creates (`Groups`), replaces the targets in order (`Commit`, `RemoveOld`, `Place`), writes the receipt
and updates the registry (`Record`, `ReadRegistry`, `WriteRegistry`: a read and a later write,
with no lock). An error runs `Undo` backwards over what was committed and then `Discard`, which
removes the installation's directory when the undoing succeeded. `Rollback` walks the units of the
receipt; a unit of two is a relocated pair, restored together or not at all. `Retire` closes an
installation in the registry. A file replaces a file by a rename; every other replacement first
removes and then copies.

Abstracted: the hash of a target and its backup are one step; created parent directories, modes
and the rendering of contents are left out; an installation id is used for one plan, so two
receipts never have the same time; a plan is made when its targets are whole. The runs have one
operator (see the limits).

### Campaigns

A command is a list of operations, `job[p].todo`, executed one by one: take the lock, write an
artifact, fold the artifacts into a new revision of the index, apply a plan. An operation that looks at the
state may put further ones in front, as the code's helper calls do. `leaves` is
`artifacts/<type>/<id>.json`, `revs` the numbered revisions of the index, each a file created
exclusively and filled afterwards, so that a death in between leaves it `Torn`, and every later
scan of the campaign fails. A loop over orders or receipts puts an operation for each in front. `snaps`, `receipt`, `registry` and `live` are what the machine outside
the campaign's directory holds. Commands are `propose`, `apply`, `status`, `dispatch`, `dispatch_apply`
and `rollback`.

Abstracted: one campaign; each plan writes one target of its own, and its replacement, or its
restoration, is atomic; the snapshot of an apply covers the plan, and whether the snapshot of a
dispatch does is the code's hash comparison (`Covered`); results are numbered instead of hashed; the
provider's run is a choice of its verdicts. `index.json` is left out: it is only read when there
is no revision, and every revision is written before it. So is the metadata in the lock file,
which nothing decides on, and the retirement of a campaign's installation.

`CampaignLedger` is what `campaigns.py` promises of the record. The refinement mapping takes the
whole artifacts for `artifacts` and the whole revisions for `revisions`; a torn file is
nothing yet, and every step of `Campaigns` is a `Record`, a `Fold` or a stutter.

### Snapshots

A snapshot walks the files of its surfaces and stores their blobs one by one (`Capture`), checks
that it has them (`Validate`) and writes its manifest (`Write`). Retention lists the manifests, drops
those that are neither recent nor named by a restore point (`Prune`) and then the blobs no manifest
names (`Collect`, `Delete`). The backup of an upgrade does both ends under the lock
`snapshot-retention`, so that `Point` is on file before anybody prunes; no other snapshot takes
it. `Restore` loads a manifest, rebuilds each surface whole, without the files the profile excludes, and
swaps. `pc` and `job` are where a process stands and what it holds in memory.

Abstracted: an object is its description, and each has a blob of its own; a restore swaps in one
step; `diff_snapshot` only reads.

### EvidenceStore

One provider session, of which every format (schema versions 1 to 3) is a file. `files[v]` is the
set of events in it and `tail[v]` how it ends, since an append may be cut short; `trace` is the
transcript, which only grows. A command keeps in `work[p]` what it read (`Hold`), takes `.behavior.lock`, appends, saves and
releases it (`End`); `at[p]` says how far it is. `Ingest` snapshots the transcript before the lock; `Audit` decides whether what is on file
will do (`Reused`) and ingests if not; `Mark` and `Report` save a record that names events (`refs`). `Preview`
writes a retention plan without the lock; `Prune` confirms it under the lock, judging every file as of the period
of the preview, journals it and deletes file by file (`Unlink`), oldest format first, after its own plan and not after
one written since. `Reads` is what a reader makes of the formats
together: by record, the newest format first, and a refusal when two disagree otherwise.

Abstracted: the formats' fields are the two kinds of record on which they differ (a request with a class, a
result with a status); cursors are compared as the events they stand for.

### Continuation

The plugin of `src/hooks/register.js` has one thread: `plugin` is its variables, a task is one press of its button
or one command, and `pc[t]` the `await` it stands at. A command (`Act`, `Claim`, `Admit`, `Record`) holds the
behavior lock from first to last line and is one step; its answer arrives in another, or is
lost: by a reload, or by the time limit of 15 s (`register.js:35-38`), after which the plugin goes on as without one. The
host (`StartTurn`, `EndTurn`, `Switch`, `Reload`) does what it likes, and the plugin hears of it later, in
order, by `Deliver`. `recs` is the reservation files; `submitted` and `ran` are histories of what the host
really got and did: `ran` says of each turn whose prompt it was, its text, and how it went.

A prompt has a text (`Text`), and several may have the same, as the code makes them of a few templates
(`behavior_watch.py:2471`). A user's turn may have it too (`UserTexts`). `Deliver` takes a turn for that of the current reservation when the
text is the same (`IsNativeTurn`), as `register.js:214` does, whosever it is.

`Delivery` is what a reservation promises. The refinement mapping takes the reservations on file for `reserved`, the
histories for `sent` and `ran`, and what the records finally say for `said`: dropped, or ended with a turn and its
result. Every step of `Continuation` is a `Reserve`, `Send`, `Start`, `End` or `Say`, or a stutter. That the turn is the one of that very
prompt is not part of it, because it need not be: `ExactTurn` says when it is.

The awaits for the session's id and directory are steps where what comes between matters: before the reservation is kept
(`Claimed`, `Checked`) and before the submission (`Admitted`, `Submit`). Elsewhere they are one step with what follows: `Act` and `Press`
are taken later than their first read, and what changed meanwhile is refused by the command or by the generation; the
handlers of turns (`Deliver`) are awaited by the host, which sends nothing meanwhile; after a submission only the word that is
recorded depends on it.

Abstracted: a session is an id with its directory and the number of its turns; the prompt follows from
the diagnosis; what the pane shows is left out. `apu-intervene --execute` is left out: it submits
without a reservation.

### SessionSelection

`select_session` (`Ask`) lists transcripts by provider (`List`), peeks at each for its id and directory (`Peek`),
parses those that match (`Parse`), decides (`Choose`) and records its health. `stage` and `search` are where it is and what it found so far. The transcripts are the
providers' and change at any moment (`Change`). `still` is a history: the transcripts that suited the
question all along.

Abstracted: of a transcript, its directory, whether it can be read, whether a turn is open and
whether it is recent. A listing is of fewer files than the limit of `behavior_watch.py:798`.

### Jobs, Guidance, ModelRegistry, AuditInputs

These commands take no lock. `apu refresh guidance` reads the last success of a source, fetches, and writes
an object, an observation and the status; the first two are created exclusively and filled afterwards, so
that a death leaves them torn. A write may fail, or be interrupted, at any point until its `fsync` has returned, and then takes the file
away (`WriteFails`). So an object is absent, torn (`partial`), `filled`, when others read it and its writer may
still take it away, or `whole`; a baseline is `unfilled`, `filled` or among `baselines`. `early` and `trusted` are histories: what
some command took from a file that was filled and no more, until its writer is done with it. An observation needs no such stage, since
nobody cites it before its writer is done. `apu refresh guidance --adopt` checks the citations of a candidate, writes an
immutable baseline and points `current.json` at it. Whoever reads that reads the immutable one as well (`CurrentReadable`). `apu refresh models` saves a registry of what each
runtime's selector resolved to, and `apu system audit` reconciles it with the configuration, stamps
the current baseline, and later reads it again. `job[p]` is what a command has read; `overlapped`, `raced`, `resolved`
and `complete` are histories.

Abstracted: contents stand for their hashes, the principles of a baseline for their citations. A command on guidance
and one on models share no state, so `AuditInputs` takes no step of one while the other
is under way: every other order of them leads to the same states. An audit does interleave with both.

### Redaction and Dispatch

A text is a sequence of lines of pieces: words, credentials that a detector finds (`secret`) or would not
find where they stand (`bare`), and placeholders (`token`). `Sanitized`, `Verified` and `Materialized` are
`sanitize_staged_files` and the two halves of `verify_plan_candidate`. `Dispatch` proposes the order and its
stage (`WriteOrder`, `WriteRedactions`, `WriteStaging`: three files, with deaths in between), then under the
campaign's lock reads the target, fills a disposable stage, probes the sandbox, runs the model, and keeps its answer: the
candidate (created, then filled), the plan, the result. Meanwhile anybody may change the target (`Edit`), and the
model its stage (`Meddle`); it may hang (`Hang`), fail, or answer any text. Both runtimes are modelled, with
what each treats as a failure. `seen` and `reports` are histories.

Abstracted: one order with one target; the sandbox is its probe; an answer is a text or misshapen.

## What is checked

Every action has its guard from the conditions of the code, so a run may stop when the bounded
calls are used up, or when a refusal repeats for ever (a drifted target that is not forced): deadlock is
not an error in any of these runs.

| Run | Instance | What it shows |
|---|---|---|
| `restore` | 2 items, one forced; a file and a tree; two of: errors, a death, an edit; 0.5 M states | `Recoverable`: an item nobody touched is never in a place no resume knows. `CleanResumeEnds`: a resume without errors ends its journal, but for the two flaws below. `TruthfulStatus`, `OnlySeenReplaced`, `JournaledBeforeSwap`, and `EveryRunEnds` |
| `upgrade` | 2 processes, 2 packages, 3 requests (two of one package), 3 commands, 1 error, 1 death | `AtMostOnce`, `RunIsBacked`, `OneUnfinished`, `NoLoss` while the two locks interleave |
| `upgrade_alone` | 1 process, 2 requests, 4 commands, 1 error, 1 death, 1 edit | `TruthfulReceipt` |
| `installs` | 3 plans over 2 paths, 4 commands, 2 errors, 1 death, 1 edit; 0.5 M states | `RecordTrue`, `AllOrNothing`, `BackupOutlivesUndo` |
| `campaign` | 2 operators, 1 work order, 2 installations, 3 commands after the proposal, 1 error, 1 death, 1 edit; 0.5 M states | `DoneOnce`, `EvidenceFirst`, `StatusTruth`, and the refinement `LedgerSpec` |
| `snapshots` | an operator and an upgrade, 3 files in 2 surfaces, one excluded, one manifest kept; 3 commands, 1 death, 1 edit; 2.5 M states | `StoreComplete`, `CollectsAll` |
| `evidence` | 2 processes, 2 lines, 3 formats, one ingestion, one report, one preview, 2 stops, 1 long pause; 0.2 M states | `ReadOnce`, `RefsKept`, `PruneSafe`, `AuditFresh`, and `PruneEnds` |
| `continuation` | 2 sessions, 2 texts, 2 tasks, 2 turns, 4 commands, 2 presses, 1 fault; 1.9 M states | `DeliveredOnce`, `NotDowngraded`, `FreshSubmit` (of what the plugin has been told: no event of the host is pending), and the refinement `DeliverySpec` |
| `selection` | 3 transcripts of 2 providers, two with one id, in every state; 9 questions, 1 change; 0.6 M states | `RightSession`, `HealthTruth` |
| `inputs` | 2 processes, 1 source, 2 contents, 2 runtimes, 4 commands, 1 stop (a death or a failed write), 2 changes of configuration (selector and version, or provider; also there and back), two of these in all, the changes while no guidance is on file; 0.9 M states | `EvidenceStands`, `NewestKnown`, `ModelsTrue` |
| `audit_proposable` | 1 process, 2 commands, 1 change of configuration | the flaw (violation) |
| `dispatch` | 2 operators, 2 attempts, 6 targets, 16 answers, 3 commands, 1 stop, 1 edit; 85 K states | `PlanSound`, `CredentialsInPlace`, `OneAnswer`, and `EveryCallEnds` |

Properties that are broken by the same kind of mistake are checked together; their parts are named, commented
and stand in the module:

| Property | Parts |
|---|---|
| `RecordTrue` | `RollbackTruth`: a rollback reports what it did. `ChainUnbroken`: no unacknowledged apply passes a change from outside |
| `DoneOnce` | `OneSnapshot`, `AttemptOnce`, `RollbackOnce` |
| `EvidenceFirst` | `SnapshotFirst`: the restore point precedes the installation. `RollbackEvidence`: a rollback's artifact precedes the registry |
| `StoreComplete` | `BlobsComplete`: no manifest lacks a blob. `PointsKept`: no restore point lacks its snapshot |
| `ReadOnce` | `OneReading`: one record of a session counts once and as the newest format has it |
| `PruneSafe` | `OnlyOldPruned`, `ReadableWhilePruned`, `ReceiptTrue` |
| `DeliveredOnce` | `SubmittedOnce`, `AdmittedFirst`: a prompt the host has got is on record as admitted. `BusyOwned`: the plugin is neither busy for ever nor twice |
| `RightSession` | `UniqueSelected`, `NeverPassedOver`, `BoundDirectory` |
| `EvidenceStands` | `CitedIntact`, `CurrentImmutable`, `ProvenanceStands`: what an order cites can be read, and the baseline of an audit verified, but for what is `early` or `trusted` |
| `ModelsTrue` | `NeverCarried`, `KnownTruth` |
| `PlanSound` | `PlanOfWhatItReplaces`, `SourceWhole` |
| `CredentialsInPlace` | `CredentialsKept`, `CredentialsUnseen` |

Each of them but `EvidenceFirst`, `PruneSafe`, `ModelsTrue` and `CredentialsInPlace` has its module's type invariant
as its first part.

**Bounds.** Every bound is a constant named `Max...`. Items of a restore interact only through the order of
the loops and the journal they share: two show an item done, one in progress and one
not begun in both directions. Two mishaps in `restore` are an error in an
operation and one in its undoing, a death and what meets the retry, or an edit and either; the theorems below
lift the bound for the two journals. One death and a retry is what every
recovery is written for. Two packages and two requests of one of them are the least
for which "another operation" and "another package" differ; three commands are an upgrade and two
others that meet its remains. Three plans over two paths give a relocation, an independent pair and a
rewrite of one of its ends, so that chains of two writers and gaps in them arise; a fourth command rolls the
whole back. Three commands after a proposal are a dispatch, its apply and a third that races,
repairs or rolls back. One manifest kept and three snapshots make retention prune and share blobs. Two lines
are the two kinds on which the formats differ, and one preview with a report is the race that retention is
about. A second turn and a second task are what a late answer can be mistaken for; the first prompts of the two sessions have one
text, and later ones another; users send neither in the runs (`UserTexts` is empty), and anything in the theorems. Three transcripts
make an ambiguity within a provider, one between providers, and neither. Two contents of one source are a
change of the guidance and one that returns, four commands two fetches, an adoption and an
audit of it; a configuration that changes twice may change back. A text of two lines tells a line from another, and two credentials in one line an order of
placeholders.

**Symmetry** is used for processes and contents, in runs without liveness.

**Fairness.** Three runs state any, and always the same: weak fairness of the next line of a command
that is under way. The code is straight-line Python, and a lock that is taken is refused, never waited for, so a
command that is not killed goes on; a death is a step that ends it too. In `dispatch` the one wait is for
the model, and it is bounded: `Timeout` is a step because both runtimes give the process a time limit, Claude's by
`run_confined`, which kills its process tree, Codex's by `subprocess.run` (`dispatch_runtime.py:189-195`), which kills the process itself. In `evidence`, `PruneEnds` also takes it that the operator repeats an interrupted prune, which is
what `README.md:591` asks of them. Nothing is assumed of anybody else: nobody has
to resume an interrupted journal, and no host has to answer.

## What is proved

`RestoreJournalProofs` holds for every number of items, set of contents and bound. `Recoverable` is
not inductive: whether an object that is away can be found depends on where the call stands and on
what its side paths and private copies may hold. `IInv` adds, in this order, which
directions reach which phase (`PhaseInv`), when the copies are complete (`CopyInv`), that the
original is what the caller saw (`SeenInv`), what a side path may hold (`SideInv`), the places an
untouched item can be (`KnownInv`), the item in progress (`SwapInv`), those before and after it
(`ProgressInv`) and those already cleaned (`CleanInv`). Theorems: `TypeCorrect`, `AlwaysRecoverable`,
`StatusTruth` (what the terminal statuses claim), `EditsSurvive` (no edit is overwritten),
`JournalFirst`. `ResumeEnds` takes a second invariant: what holds at the line that would raise (`StandInv`), and that of an item
whose original is at its target no whole object is displaced, unless original and desired are equal (`OneOriginal`). Hence the two
exceptions that `CleanResumeEnds` names are the only ones. The assumptions are that there is an item, that absent, torn and
whole objects differ, and that the bounds are numbers.

`ClaudeUpgradeProofs` holds for every set of processes, packages, requests and versions. `Holds(p)`
says which locks a process has at each line and that no other operation of its package is
unfinished; `Relies(p)` what it has read and may still rely on; `Recorded(r)` that a run is
preceded by a restore point that stays, and that what a point or a restore takes away is known. Frame
lemmas (`OthersKeep`, `OthersRecorded`, `LockFrame`) say once that a step of one process leaves
these to the others; then each action has a lemma of its own. Theorems: `TypeCorrect`, `RunsOnce`,
`RunsBacked`, `SingleUnfinished`, `NothingLost`, and, where one operator works (`OneOperator`), `ReceiptsTrue`: what
a command is about to write was seen in the store, or was on file before (`Witnessed`), and from the update to the end it works
with the pre-state its journal has (`Journaled`). The hypothesis is needed because a rollback takes no package lock
(`package_upgrade_cli.py:140`). The assumptions are that each request has a package
and a version and that `None` and `Away` are no values of their own kinds.

`SnapshotsProofs`: `StoreStaysComplete` and `EverythingCollected`, under one hypothesis about the
constants, `OneOperator`: only one process may use `apu snapshot create` beside
campaigns. It is needed, since neither kind of snapshot takes the lock of retention while it
captures: a second operator's retention drops the blobs of a manifest that is not written yet.
Upgrades may run beside it in any number, for they hold the lock. A missing blob is prevented by what is not on file
yet, so `Own(p)` says it of the process: a snapshot under way has the blobs it needs, and who collects has read
every manifest that there is. Assumed: `Absent` is no content, `None` no process or number, and the
excluded files are files.

`InstallationsProofs`: `RecordIsTrue`, `NothingByHalves`, `BackupsOutlive`, for plans of any length, under the hypothesis that
one operator works (`OneOperator`). It is needed: no command takes a lock, and with two at once in its instance TLC finds both `RecordTrue` and
`AllOrNothing` violated. The promises are about the end of a command, so `Holding` says of each line what holds there: the operations
before the one an apply is at are made, those behind it are as they were, and all are backed up (`Preparing`, `Committing`,
`Registering`); those an undo has passed are back, unless it knows that one is not (`Undoing`); the units a rollback has passed are
restored, or drifted and as they were (`Rolling`). The link to the installation before is checked once and stands, since nobody else
registers meanwhile (`Linked`). Assumed: units have one or two targets, no target twice, and
`OrderAssumption`, which is what flattening such units gives: the operator that flattens is recursive, so its definition cannot be unfolded by the provers, and TLC
evaluates the assumption on the instance.

`SessionProofs` of `Continuation`: `Delivered`, `DeliveryKept`, `RecordsTrue`, `SubmittedFresh`, `NothingDowngraded`. A prompt is handed out by
the first claim only, so one task holds it (`Held`), and submits it at most once; a dropped one has no
holder and is not with the host (`Dropped`). A record is attached to a turn by number, and turns have
different ones (`Numbered`); what an event, an observation or a record says of a turn that ended is how it ended (`Completed`).
An attempt takes a turn for its own when it starts, and turns start once, so no two reservations name the same.
From these follows the refinement, `Spec => DeliverySpec`, step by step: whoever submits holds the
prompt, whatever starts was with the host, and an observation that is not refused is the first final one, of a turn with
the text of the prompt that did end so. Whose turn it was follows from what turns say (`Voiced`): that of the prompt, or of a
user or another submitted prompt that says the same (`ExactTurn`, in `RecordsTrue`). What the
plugin believes may have changed, but then the event
that says so is still in its queue (`Informed`), and the queue is in order (`Ordered`). Assumed: `None` is no value of another
kind, tasks are numbered, and there is a session.

`SessionProofs` of `EvidenceStore`: `ReadsAreOnce`, `RefsAreKept`, `PrunesAreSafe`, `AuditsAreFresh`, for any transcript and any number of commands,
stops and pauses. A command that found no state directory writes without the lock, so `Unguarded` says what it may
meet: no plan yet, and nothing on file that is old enough for one. `Planned` says that a plan names every file
there is that is older than its period, `Deleting` that as long as a pruning command has something to delete, nothing is named and all that is
there was old enough for its plan. `Whole` says that without a stop every snapshot on file is complete, `OnFile` that the events a
record is about to name are on file, `UpToDate` that an audit has what it is about. Whether the formats agree depends on what is
left while a prune deletes (`FirstsAgree`): what explains a disagreement goes last. Assumed: formats are 1 to 3, lines are requests or results, and `None` is no process.

`SessionProofs` of `SessionSelection`: `SelectedIsRight`, `HealthIsTrue`, for any transcripts, questions and number of changes. `Reached` says, half
way through a provider, that whatever suits the question all along is still to be looked at or was found; `Settled` what the
answer of a finished provider means. Assumed: transcripts are finitely many numbers, `None` is no transcript, directory or provider, and a question names no
provider but one there is.

`DispatchProofs`: `PlansSound`, `CredentialsStay`, `AnsweredOnce`. What a command has under the lock
of the campaign is its own until it lets go, so the target it read, the stage it filled and the candidate it made are
still those when the plan is written (`Own`); everything else is about texts. Lemmas say what `Sanitized`
numbers, that `Materialized` gives it back, and that a text that `Verified` accepts has the
same credentials in the same places, for texts of any length. Assumed: a text has lines, and
`None` is no process and no list of redactions.

`CampaignsProofs` has three invariants, each on the one before. The first gives `LedgerKept`, which is
`Spec => LedgerSpec`, the refinement. It needs how the list of
operations of a command is made (`Listed`: the one that fills a file is the next, and nothing behind it
has begun one), that whoever has not got the lock is about to take it or is creating the campaign
(`Held`), that what is to be filled is the file this command created (`Fills`), and that
one command writes at a time (`OneWriter`).

The second gives `EvidenceKept`, `CampaignTypes` and `RollbackKept`. That a change comes after its evidence is a fact about the
order of a list, so `Pending(p)` says of every operation of `job[p].todo`, and not only of the next one, what it needs (`Due`): it is so
now, or an operation before it in the list will make it so (`WillName`, `WillStand`, `WillCover`, `WillRecord`). An operation that is
done must then leave what it promised, itself or through what it puts in front (`Carried`), and what is on record
must stay through every step of the others (`Persists`). `RecordKept`, `SnapsKept`, `MachineKept` and
`ControlKept` say what the files may hold, which is nearly all of `TypeOK`.

The third gives `StatusKept` and `DoneKept`. `Reported` follows a status through its five operations: the installations whose receipt is
not attached yet are those its list still names (`AllBut`). `Attempted` says that a command has one attempt ahead of it at most,
made under the lock, and that an attempt under way is not on record. Both are by process, and the steps of another process cannot
disturb them because of `Left`: while one has the lock, the others change neither artifacts nor receipts.
`Spared` is about campaigns in which nothing has failed: a snapshot that was taken is named by the index, or the command
that took it has the lock and is on its way from the artifact to the revision (`OnItsWay`); hence nobody finds an
index without a snapshot and takes a second one. It does need `faults = 0` and `crashes = 0`: see the limits below.

Assumed of the constants: `None` and `Begun` are no value of another kind, and attempts are positive.

`AuditInputsProofs`: `EvidenceStanding`, `NewestIsKnown`, `ModelsAreTrue`, of `Guidance`, `ModelRegistry` and
`AuditInputs` together. There is no lock, so the argument is about files: one that was created
exclusively has one process that may fill it or take it away (`OneFiller`), and a whole one is never written again
(`Filed`); hence what a command once found on file is there when it refers to it (`Held`, `Distilled`, `Auditing`), or was taken from a file that was filled and no more,
and `early` or `trusted` says so.
`InOrder` follows a refresh that is alone: before its source nothing is newer than what the
status says, at its source the observation it made, after it the old order. A resolution stays with its provider and selector because
what is saved was validated, and what is current was resolved by the refresh that says so (`Saved`, `Audited`). Assumed: sources are
numbered and there is one at least (`guidance.py:593`), what is configured is a configuration, and `None` is no
datum of another kind.

Only model-checked: `EveryRunEnds`, `PruneEnds` and `EveryCallEnds`. Liveness is beyond the prover; every other property of a
passing run is stated by a theorem. The violated property of `audit_proposable` is TLC's as well.

## Where code and documents disagree

`audit_proposable` ends in a counterexample, and `PROJECT.json` quotes both sides: when the provider of a runtime changed and
its selector stayed, the audit's own registry cannot be reconciled again with the configuration it was made
of (`model_registry.py:671`), and every `system propose` refuses every later audit, though nothing changed after it.

These the models show as well; the properties above exclude them by name, or are about what is
left:

- A prompt still waits at the host when the session or its directory changes, or the plugin is loaded again; a second one with the
  same text is submitted; the first starts, and the plugin records its turn, and its end, on the second reservation
  (`register.js:214`), against the "exact turn observations" of `docs/incidents/2026-10-25-native-continuation.md:3-4`, which
  leaves concurrent changes of the session to later qualification. A user's turn with that text has the same effect. Asked whether
  the turn on record is always the reservation's own, TLC finds the first in the instance of `continuation`.
- A refresh fails, or is interrupted, after the content of an object can be read and before `fsync` has returned, and removes it
  (`guidance.py:1305`); another refresh has accepted the file meanwhile, and the baseline adopted from it cites an object that is
  gone, against `guidance.py:103`. So may the immutable artifact of the current baseline go (`guidance.py:1284`), and every audit
  after that is refused. `EvidenceStands` excludes exactly this, by `early` and `trusted`; without them TLC finds it with two processes.
- Equal original and desired objects (a forced restore of a target that is already right) and a death
  between the second rename and its record: no resume ever completes the journal
  (`restore_journal.py:523`), against `roadmap.md:311-314`. Only `--unwind` gets out.
- A death inside the removal of a displaced tree: no unwind ever reverses the journal
  (`restore_journal.py:612`), although the private copy is whole.
- A death while a restore captures its artifacts: its directory exists without a journal, and every later rollback
  of that upgrade, reviewed or not, is refused (`claude_package_upgrade.py:286`), against `README.md:262-264`; so is
  every listing of journals.
- `packages rollback` does not take the package lock before it restores (`package_upgrade_cli.py:140`), so a concurrent
  upgrade can write "verified" over what was just undone, against `README.md:238-239`. `TruthfulReceipt` is
  therefore checked for one process.
- When a commit fails and its own recovery fails, `apply_plan` deletes the directory with the only copy of
  the target (`apply.py:148`), against `spec.md:115-116`.
- Once a dispatched plan is applied, every `system status` of that campaign registers its receipt a second
  time under another operation and fails before it reconciles (`system_campaign.py:447`), against
  `roadmap.md:114-115`.
- `apu snapshot create` runs a retention that protects no open campaign (`cli.py:849`): after enough
  snapshots the restore point of a campaign is gone, against `roadmap.md:319`.
- `apu snapshot diff` does not apply the excludes of the profile (`snapshots.py:167`) and reports every excluded file as added;
  a restore of a surface root takes the excluded files below it away.
- The prompt of a work order asks for a campaign and a work order id (`work_orders.py:440-448`), which the runtimes
  refuse as unknown fields.

## Known limits of the code that no run states

The models have these behaviours; no document promises otherwise, so no property refutes them.

- A death in the middle of an apply or of a rollback outside a campaign leaves targets changed
  that no receipt or registry entry names. The backups stay.
- Two commands that update `registry.json` at once may drop an entry. `Installations` has the
  read and the write as two steps; its runs have one operator.
- A torn artifact or revision makes every scan of its campaign fail; nothing in the code repairs it.
- An error between a snapshot's artifact and the index lets a retry take a second snapshot, and then
  no index can be built. `OneSnapshot` is therefore claimed while nothing fails.
- A commit replaces what is at the target when it runs, which may not be what was hashed.
- Only the backup of an upgrade excludes retention: two operators who snapshot and prune at once may lose
  blobs of a manifest that is being written. The run has one operator beside the upgrade.
- A death in an append leaves half a line (`evidence.py:582`): every later read of that session is refused, and an
  audit that selects it fails as a whole. A cut that ends on an event's boundary is taken for whole by the
  next audit.
- Two refreshes of the guidance at once may lose the last success of a source, and an audit may stamp one baseline and
  take its detector settings from another (`cli.py:496-502`). `NewestKnown` excludes the first; `used` in `AuditInputs` shows the second.
- A death in the write of a candidate makes the same candidate collide from then on (`dispatch.py:829`).
- The detector of surfaces (`adapters/base.py:44`) knows fewer shapes of credentials than that of work orders, so a file that
  holds only others is staged as it is. `CredentialsInPlace` is about the files it recognizes.

## What is not modelled

Discovery, classification, planning, review and the command line are pure or read-only:
their results are the inputs the models choose. So are the detectors of the behavior audit and the parsers of
providers' formats. Package research is fetching and comparing. A policy delta is one validated file, written
once. Outcomes are one append-only file, and the promotion and demotion of a policy a pure
function of it (`outcomes.append_outcome` repeated after an error appends the record twice: nothing tells the
copies apart). `apu-intervene --execute`, the limit of a listing, and Windows, where the time limit of Codex kills its broker
only, are left out.

## Plan

1. An abstract specification of an atomic restore, implemented by `RestoreJournal`.
2. `Efficacy`: outcomes, promotion and demotion as pure operators against reference definitions.
