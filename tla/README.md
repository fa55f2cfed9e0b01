# Verification of hollis

TLA+ models of hollis, TLC runs that check them on small instances, and TLAPS
proofs that hold for instances of any size. Paths are relative to `src/`.

To check a run: `tlc -config X.cfg M` with the module and configuration of the
table below. To check the proofs: `tlapm` on each `*Proofs` module.

## 1. The system

hollis gives command-line, HTTP and agent access to Apple Intelligence models,
through Shortcuts bridges (a child process `shortcuts run`) or a native helper
(a child process speaking line-delimited JSON). It has no daemon: every command
is a process of its own, and processes meet in files: the chat database, batch
jobs, the configuration and published pictures.

| component | code | state it keeps | operations |
|---|---|---|---|
| batch engine | `internal/batch/engine.go`, `manifest.go`, `types.go` | the manifest in memory, counters | plan, run, resume, reconcile, pace, recheck, call, commit |
| batch store | `internal/batch/store.go` | `job.json`, its lock, result envelopes | create, lock, load, save, commit, verify |
| batch commands | `internal/cli/batch.go` | the bytes staged for a call | invoke, execute, status |
| subprocess runner | `internal/subproc/subproc.go` | child, process group, pipes, captures | Run, Scan |
| chat turns | `internal/cli/chat.go`, `internal/store`, `internal/chat` | conversations, messages, runs, continuation lock | start, continue, delete |
| database opening | `internal/store/store.go` | schema version, search index, backups, migration lock | open, back up, migrate |
| chat image turns | `internal/cli/chat_image.go` | the published picture and its turn | refer, generate, publish, append |
| native local model | `internal/runner/native.go` | protocol state of one request | status, complete, stream, schema |
| native helper | `native/` | none | answers one request |
| event streams | `internal/server/native.go` | frames of one response | begin, delta, done, failed |
| HTTP server | `internal/server` | model slots, private directories of a request | guard, validate, admit, stage, run, answer |
| serve command | `internal/cli/serve.go` | listener, stop signal | serve, shut down |
| shortcut transport and routing | `internal/runner/shortcut.go`, `resolve.go`, `routespec.go`, `cli/bridges.go` | the route table, staging directory of one run | list, resolve, stage, run, classify, fall back |
| respond command | `internal/cli/respond.go`, `selection.go`, `modelargs.go` | none | refuse, resolve, run, report |
| schema subset | `internal/runner/schema.go`, `native/SchemaSubset.swift` | none | parse, validate |
| image generation | `internal/imagegen` | staging directory, published file | generate, transform, verify, publish |
| configuration | `internal/cli/config.go` | `config.json`, its lock | load, update |
| setup | `internal/setup`, `internal/cli/setup*.go` | none (a plan from observations) | observe, plan, apply |
| the rest | `docinput`, command line, plugin, packaging, bridges | none | flags, printing, building |

How they interact:

- `cli/batch.go` runs `batch.Run` with a store, a clock and an executor; the
  executor calls the runner, the runner calls `subproc`. Two processes on one
  job meet at the lock of `job.json` and in the manifest and result files.
- A chat turn locks the continuations, reads the history, runs a model and
  appends two messages in one transaction. Two processes meet at that lock and
  in the database; deletion takes no lock.
- `server/native.go` calls the native runner, which calls `subproc.Scan`, whose
  reader goroutine calls back for each line and so writes to the HTTP client.
  A slow client therefore holds the callback, the pipe, the helper and a slot.
- `cli/respond.go` lists the shortcuts (one child), resolves the bridges from the
  listing, the configuration and the version of macOS, and runs one bridge (a
  second child), or two for `auto`. Between those the shortcuts and the image
  files it was given belong to the user.
- `cli/serve.go` binds, probes and serves; each handler takes a slot without
  waiting, runs a bridge or the helper, and gives the slot back as it returns.
- A picture is drawn by a bridge into a private directory, checked, shaped,
  copied to a temporary file next to its destination and linked to its name; a
  chat then records name and checksum, and reads the file again for the next
  turn. Processes meet at the name, at the continuation lock and in the database.
- `config set` is a read-modify-write of one file under a lock that no reader
  takes.
- Cancellation flows the other way: a signal or a deadline ends the context,
  which kills the process group, closes the pipes and arms a write deadline.

What is hard: processes that die between two durable steps; writes that fail
after they took effect; calls that may or may not have been answered, and cost
something; descendants that escape their process group; a deadline that passes
at the moment of success; two turns of one conversation; deletion in the middle
of a turn; upgrades that are interrupted; streams that cannot be taken back;
names and files that others take or change between a check and its use; slots
that must come back on every path; a shutdown that waits for children.
Section 3 says which properties are about which of these, and `PROJECT.json`
lists the hazards at their lines, those no property covers yet included.

## 2. Modules

| module | models | lines of code |
|---|---|---|
| `Batch` | engine, store, executor and provider; several processes on one job | `batch/*.go`, `cli/batch.go` |
| `BatchLedger` | the abstract promise: attempts are opened one at a time and closed as done, refused or unknown | `docs/batch.md` |
| `Subproc` | one Run or Scan: caller, watcher, two drains, the child's processes, pipes, the kernel | `subproc.go` |
| `ChatStore` | chat turns and deletions of several processes over one database | `cli/chat.go`, `store.go` |
| `Migration` | several processes opening one database; backup, stages of the upgrade, appends | `store.go` |
| `NativeStream` | one streamed answer: helper, protocol, callback, frames, client, write deadline | `runner/native.go`, `server/native.go` |
| `Routing` | the route table and the pure decisions: resolution, availability, error kinds, exit codes | `runner/routespec.go`, `resolve.go`, `cli/bridges.go` |
| `Respond` | one `respond` through the shortcut transport, on top of `Routing` | `cli/respond.go`, `runner/shortcut.go` |
| `Serve` | the command, its handlers, slots and shutdown | `cli/serve.go`, `server/*.go` |
| `OutputSize` | the arithmetic of `--aspect-ratio`, `--size` and `--fit` | `imagegen/output.go` |
| `ImagePublish` | image commands and image turns of several processes, on top of `OutputSize` | `imagegen/*.go`, `cli/image.go`, `cli/chat_image.go` |
| `Settings` | the abstract promise: a setting changes at once, for everybody, alone | |
| `Config` | `config set` and readers of several processes; implements `Settings` | `cli/config.go`, `image_config.go` |
| `*MC` | constants and symmetry for TLC | |
| `*Proofs` | theorems | |

### Batch

State: `manifest` and `results` are the files, `lock` the flock; `pc`, `job`,
`opts`, `cursor`, ... are one invocation's program counter, its copy of the
manifest, its options and its loop index. `called`, `tainted`, `refused` and
`quiet` are ghosts that remember what was really asked of the provider. A
request id is a hash of job, item and attempt: the attempt number stands for
it. Actions follow `Run` from top to bottom: `Start`, `AcquireLock`, `Load`,
`Reconcile...`, `Preflight`, then for each item `Skip` or `Reach`, `Paced`,
`Recheck`, `SaveIntent`, `ReadInputs`, `Dispatch`, `CallAnswered` or
`CallFailed`, `Commit`, `Record`, and `Unlock`, with a failing variant wherever
the code has an error return. A failed save or commit may have taken effect:
`atomicReplaceFile` can fail after its rename and `publishNewFile` after its
link. `Signal`, `Crash`, `Edit` and `Tick` are the environment.

`BatchLedger` says what a user is promised. `ImplementsLedger` is the
refinement: a running item is open, a published one is done.

### Subproc

The caller, the watcher, the two drains, the goroutine with which `exec.Cmd`
copies the standard input, and any number of processes. The leader and its
descendants fork, leave the group, close and keep their ends of the pipes, write
chunks, read their input and exit as they like; `Execute` goes through the steps
of `execute` (start, wait for the leader and then, still in `cmd.Wait`, for the
copier, await the drains or the deadline, close, stop and join the watcher, kill
the group, classify). `Input` is `Spec.Stdin`: none, so much as a pipe holds, or
more, which blocks the copier until a process reads it or none has the read end.
A chunk stands for what one read returns. `taken` says that the kernel gave the
group's id to a stranger, which it may as soon as no member of the group is
left.

### ChatStore

`rows` are the messages of each conversation, each with the length of the
history its answer was given to (`basis`); `runs` counts diagnostics. A process
goes through locking, reading, running, storing or diagnosing, and unlocking;
a first turn takes no lock. Deletion may come at any moment. Write transactions
are atomic, since SQLite makes them so, and may fail as a whole.

### Migration

A database is a record of what `needsMigration` looks at. The stages of
`migrate` are actions on `draft`, which is committed as a whole or forgotten.
`repairDuplicateSequences` is modelled UPDATE by UPDATE. One conversation and
one search table stand for all: each is treated by itself and alike.

### NativeStream

The helper is not trusted by the Go code and so not by the model: it writes any
events in any order. `Refused` holds the checks of the callback; `Emit` hands
the growth of a snapshot to `streamEvents`, whose frames are written one by one
and may be stuck in a stalled client. `WriteDeadline` is the `AfterFunc` that
unblocks them. Names that `Serve` has too carry a prefix (`StreamNext`,
`StreamTypeOK`), since `ServerProofs` extends both: the server, and one answer
of its streams.

### Routing and Respond

`Routing` has no state: `ResolveBridges`, `KindOf` and `ExitCode` are what the
code computes from a listing, from a child's result and from an error. `Respond`
is one command from its checks to its exit code. `Refusal` keeps the order of
the checks, which decides the exit code. Each call of the subprocess runner is a
`child` that is spawned, ends in one of the ways a child can, and is handed over;
listing and run share these actions. `Answers` and `Crashes` add to `served`, a
ghost: what a model was really given. Images are inodes behind paths, so that an
image may be replaced between `Lstat`, `open` and the read. `Edit` is the user,
who may also delete a shortcut.

### Serve

`phase` is the command, `pc` each client's handler. What is asked is one of five
kinds, which differ in what they hold: a slot, a child, a directory of images, a
directory of the picture. A handler leaves through `Leave`, where the deferred
functions run, on every path. A run fails in one of the ways in `Failures`, and
`Line` is the status line of each as `writeRunResult`, `nativeError` and
`writeImageGenerationError` choose it, by the kind of the error and not by the
state of the context. Two of them are 429: `server_busy`, said by
`acquireCapacity` before anything is done, with a Retry-After, and
`rate_limited`, said after a run that met the provider's limit. `over` is the
end of a request's context, by its client, its deadline or the signal.

### ImagePublish

`files` are the names under which pictures are published, open to everybody;
`dir`, `staged`, `shaped` and `temp` are what a process has on the way. A picture
is a record and its own checksum. A chat with several outputs is interactive and
does one turn after the other; `command` fixes what each process was called
with. `DrawLate` is the service behind a bridge that goes on after the bridge has
exited; `Edit` is any other program. `OutputSize` computes sizes as `fitDimensions`
does, which is part of what `Shape` refuses.

### Config

Files are inodes: `path` says which one `config.json` names, and a reader's
`handle` stays with the inode it opened. A writer's temporary file is an inode of
its own, written piece by piece. `Settings` has one variable for all settings,
and `ImplementsSettings` maps it to the content behind `path`.

## 3. Runs

| run | question | properties | instance |
|---|---|---|---|
| `batch_faults` | Does the durable record survive every failure, and is no call lost, repeated without consent or made too early? | `WriteAhead`, `ResultsAgree`, `NeverCorrupt`, `NoRepeatedRequest`, `RepeatNeedsConsent`, `CallsAreSpaced`, `ImplementsLedger` | 2 files, 2 processes, 3 invocations, all faults; 315k states |
| `batch_edits` | Can an edit at any moment get into a published result, or a report of completion be wrong? | `ResultsFromPlan`, `CompleteIsTrue` | 2 files, 1 process, 3 invocations; 859k states |
| `batch_ends` | Does every invocation end and free the lock? | `InvocationEnds` | 2 files, 2 processes, 2 invocations; 80k states |
| `subproc_scan` | What outlives a call, and can partial output pass for a result? | `NoPartialSuccess`, `NoSurvivors`, `QuietAfterReturn`, `CallReturns` | leader and one descendant, 2 chunks per stream, an input longer than a pipe; 719k states |
| `subproc_reuse` | Can the final kill hit a stranger? **Yes**: a violation | `KillsOnlyItsGroup` | leader and one descendant |
| `chat_turns` | Are concurrent turns serial and bounded, and deletions complete? | `TurnsAreSerial`, `HistoryBounded`, `NoOrphans`, `TurnEnds` | 2 processes, 2 conversations, limit 4, 4 turns; 17k states |
| `migration` | Is an upgrade whole, backed up and true to the order of messages? | `UpgradeIsWhole`, `OrderKept`, `BackedUpFirst`, `NoTransientCollision` | 2 processes, 3 openings, 12 databases; 1.5k states |
| `native_stream` | Does a client ever see a revised, incomplete or disordered answer, and does every request end? | `NeverRevised`, `CompleteIsWhole`, `WireInOrder`, `RequestEnds` | 4 events, texts up to 2 letters; 100k states |
| `respond` | Is a request ever answered twice, sent to the wrong bridge or with other bytes than were checked, and is the exit code true? | `NeverAnsweredTwice`, `OnlyKnownBridges`, `InputsAsChecked`, `OutcomeIsTrue`, `CommandEnds` | 22 command lines, 5 configurations, 3 Macs, 1 change by others; 565k states |
| `serve` | Do slots come back, is everybody answered once and truly, who is let in, and what outlives a shutdown? | `CapacityIsExact`, `OnlyTheAuthorized`, `AnswerIsTrue`, `NothingLeftBehind`, `AllEnds` | all refused command lines and 2 accepted ones, 2 clients, any requests; 530k states |
| `images` | Is anything ever replaced, are a chat's pictures what it says, and is a success whole? | `ArtifactsAreTrue`, `SuccessIsWhole`, `NothingReplaced` | 2 processes, 4 command lines, 2 names; 925k states |
| `config` | Does a setting change at once, alone and for everybody? | `ImplementsSettings` | 3 writers, 1 reader, 2 keys; 3.3M states |

The models' type invariants are not in the runs: they are proved. Every property
of a passing run has a mutant, an operator next to the definition it changes,
that breaks it: what the property would catch.

**What `subproc_reuse` shows.** The comment at `internal/subproc/subproc.go:280`
says of the kill on every exit path that a surviving group member keeps the
group's identifier allocated, so that it "cannot reach an unrelated group". When
no member survives (the common case, a leader that exited by itself) nothing
keeps the identifier, and the kill after `cmd.Wait` goes to whichever group has
it by then. The window is short and a reuse unlikely, but the reason given does
not cover it.

**What `CallReturns` excepts.** `Stdin` is not owned by the deadline as the output
pipes are: `cmd.Wait` waits for the copier, without a wait delay. The package
comment (`subproc.go:29`) accepts this and says that a child which blocks holding
its input unread keeps `Run` past the deadline. The model is more exact: a child
in the group is killed at the deadline, which ends the copier with EPIPE; only a
process that left the group and keeps the input open and unread keeps the call,
for as long as it does so. The property excepts just this state (`StdinHeld`),
with the deadline past, and lets no other call hang. The one caller that sets
`Stdin` is `runner/native.go:454`.

**What was noticed without a run.** While a text is written after the slot was
given back, a picture is written while it is held, because the response is
written before the deferred release: a client that reads slowly keeps one of at
most four slots until the write timeout (`server/image_generation.go`). That
timeout, 125 s, is counted from the request's headers, while a body may take 15 s
and a run 120 s. A cleanup that fails after another error of `image generate` is
dropped, although the comment at `cli/image.go:137` says that it must not
disappear silently; the model has no second error to drop (`failed` is one bit).
An image turn of a chat that fails only in cleanup is recorded in `runs` with exit
code 0 and no error class (`cli/chat_image.go`). A temporary file of `Publish`
that cannot be removed stays without a word. The help of `respond` says that
`auto` falls back "if the cloud run fails"; the code does so for a missing bridge
and for a rate limit only, which is what `NeverAnsweredTwice` needs.

### Bounds

- Two processes: the locks and files relate any two of them, and symmetric
  third ones add nothing to the hazards; the theorems have no such bound.
- Two files in a job: one being tried and another that must stay as it is.
  Three invocations: an attempt that is interrupted, a resume that reconciles
  it, a retry.
- One descendant: it may stay or leave its group, keep one pipe or both. Two
  chunks, pipes of one and a cap of one: a writer blocks, a capture overflows.
- The input is too long for a pipe in `subproc_scan`, so that the copier may
  block, and absent in `subproc_reuse`; one that fits is a copier that ends at
  once, which the long one can do too when it is read. `Input` is a parameter of
  the proofs.
- A history limit of four messages: two turns fit, a third does not.
- Texts of two letters over two: a snapshot may extend, repeat, shorten or
  revise another. Four events: status, two snapshots, completion, or a
  completion and something after it.
- One change by others during a `respond`: each check is followed by one use, and
  a second change would be another's. Two images: the first is staged when the
  second fails.
- Two clients and one slot or two: one waits for nobody and is told so, or both
  run. `Startups` has every command line of the product that is refused.
- Four command lines of pictures: a shape with a reference that is a file, an
  `auto` reference with a bridge that takes one and with one that does not, and an
  interactive chat whose second turn refers to its first. Two names and two
  processes: they meet on one and miss each other on the other. `MaxPixels` is 12
  in the model, so that padding may be too large and cropping is not.
- Three writers: one that holds the lock, one that waits and one that was killed.
- Three openings: one interrupted, one that finishes, one that finds the result.

`MaxRuns`, `MaxCommands`, `MaxOpens`, `MaxMessages`, `MaxEvents`, `MaxText`,
`MaxChunks` and `MaxEdits` are bounds of the models and not of the code.

### Fairness

- `Batch`: each process goes on, and time passes. The provider's answer counts
  as a step of the process since every call runs under `runner.MaxTimeout`.
- `Subproc`: the five goroutines go on and the deadline passes, which every
  caller sets. The child owes nothing; a failing read is never owed.
- `ChatStore`: processes go on and a turn's `--timeout` (never 0) passes. The
  model's answer is not owed, and the lock is polled, so that a turn may starve
  until its deadline: `TurnEnds` says that it then ends.
- `NativeStream`: the handler goes on, the request's deadline passes and the
  write deadline it arms takes effect. The client owes nothing, and the helper one
  thing: it is sent its request on the standard input, so `RequestEnds` assumes
  that it leaves no process outside its group which keeps that request unread.
  The paired helper (`native/`) starts no process at all.
- `Respond`: the command goes on and its deadlines pass and fire. The children
  owe nothing; they are given no standard input, so that `CallReturns` of `Subproc`
  holds of them without its exception.
- `Serve`: the command and the handlers go on, a run has a deadline (`runModel`),
  a call returns once its context is over (`CallReturns` of `Subproc`; for the
  helper with the assumption named at `NativeStream`), a write ends by the write
  timeout, and the grace period passes. Clients owe nothing.
- `ImagePublish` and `Config` state safety only and need none: nothing in them
  waits but for a lock, whose holder is a run with a deadline or a short update.

Deadlock is not checked in the batch, subprocess, chat, migration and stream
runs: with their bounds used up the models stop, as hollis does when nobody calls
it; the liveness properties say that nothing stops half-way. `Respond` and `Serve`
have an `Ended` step for a command that is over, and deadlock is checked.

## 4. Theorems

TLAPS proves the following for every value of the constants that the modules'
assumptions allow (any number of files, processes, descendants, conversations,
any limits, texts and pipes, any set of faults). Every safety and action property
of a passing run is among it.

| module | theorem | property |
|---|---|---|
| `BatchProofs` | `TypeCorrect`, `CallsAreRecorded`, `ResultsAgreeWithManifest`, `JobStaysUsable`, `CompletenessIsReal`, `RequestsAreFresh`, `LedgerIsImplemented`, `ResultsAreFromPlan`, `CallsKeepTheirDistance`, `RepetitionIsAskedFor` | `TypeOK`, `WriteAhead`, `ResultsAgree`, `NeverCorrupt`, `CompleteIsTrue`, `NoRepeatedRequest`, `ImplementsLedger`, `ResultsFromPlan`, `CallsAreSpaced`, `RepeatNeedsConsent` |
| | `OneAtATime`, `DoneForGood` | what the ledger means for the stored manifest |
| `SubprocProofs` | `TypeCorrect`, `NothingSurvives`, `NothingWorksOn`, `SuccessIsWhole`; `ReturnIsFinal` | `TypeOK`, `NoSurvivors`, `QuietAfterReturn`, `NoPartialSuccess`; that a returned call changes nothing any more |
| `ChatStoreProofs` | `TypeCorrect`, `SerialTurns`, `BoundedHistories`, `Orphanless` | `TypeOK`, `TurnsAreSerial`, `HistoryBounded`, `NoOrphans` |
| `MigrationProofs` | `TypeCorrect`, `UpgradesAreWhole`, `OrderIsKept`, `BackupsComeFirst`, `NumbersNeverCollide` | `TypeOK`, `UpgradeIsWhole`, `OrderKept`, `BackedUpFirst`, `NoTransientCollision` |
| `ServerProofs` | `TypeCorrect`, `SlotsAreCounted`, `StrangersAreTurnedAway`, `AnswersAreTrue`, `NothingIsLeft` | of `Serve`: `TypeOK`, `CapacityIsExact`, `OnlyTheAuthorized`, `AnswerIsTrue`, `NothingLeftBehind` |
| | `StreamTypeCorrect`, `NothingIsRevised`, `CompletionsAreWhole`, `FramesAreInOrder` | of `NativeStream`: `StreamTypeOK`, `NeverRevised`, `CompleteIsWhole`, `WireInOrder` |
| `RespondProofs` | `TypeCorrect`, `AnsweredOnce`, `BridgesAreKnown`, `InputsAreChecked`, `OutcomesAreTrue` | `TypeOK`, `NeverAnsweredTwice`, `OnlyKnownBridges`, `InputsAsChecked`, `OutcomeIsTrue` |
| `ConfigProofs` | `TypeCorrect`, `Implements`, `ReadersSeeWholeFiles` | `TypeOK`, `ImplementsSettings`, `ReadsAreWhole` |
| `ImagePublishProofs` | `TypeCorrect`, `NothingIsReplaced`, `ArtifactsAreAlwaysTrue`, `SuccessIsAlwaysWhole`; `FittedSizes` | `TypeOK`, `NothingReplaced`, `ArtifactsAreTrue`, `SuccessIsWhole`; the arithmetic of `OutputSize` by itself |

In each module the argument is one inductive invariant `IInv` (theorem
`Invariance` or `Invariant`; `StreamInv` and `StreamInvariance` for the stream),
proved conjunct by conjunct and action by action:

- `Batch`: the properties speak of the files, but they hold because of what an
  invocation knows. `IInv` says phase by phase that only the holder of the lock
  touches the files, that its copy agrees with the stored manifest whenever it
  decides something, that reconciliation leaves no interrupted item before a
  call is chosen, and that an item being tried has no result yet. The ledger's
  refinement then looks at each step that writes a file, and what the ledger
  promises is carried back to the manifest: `OneAtATime` (one request at most is
  in doubt, whatever crashed) and `DoneForGood`. A second invariant,
  `CInv` (theorem `CallsInvariance`), is about the calls: the stored checkpoint or
  the invocation's own clock covers the time since the last call (`Spaced`), unless
  an item is still running, which reconciliation closes with a new checkpoint;
  what the stored statuses remember of past calls decides who needs consent
  (`Consent`); and no bytes but the planned ones ever reach a call, since they are
  hashed as they are read.
- `Subproc`: `NoPartialSuccess` is about the moment of the verdict but its
  reasons lie earlier: ends are closed and the leader is killed only when the
  context is over or a line was rejected, and both are still so when the verdict
  looks. A context that ends after a complete read makes an error, never a
  result. `ReturnIsFinal` is what the comment on the sinks promises
  (`subproc.go:78`): from the return on no goroutine of the call reads, writes,
  counts or kills. It needs every join, that of the copier in `cmd.Wait`
  included (`Settled`), whatever the descendants that live on still do.
- `ChatStore`: whoever continues a conversation has the lock from reading to
  storing, so that what it read is still what is stored, unless the conversation
  was deleted, and deleted ids do not come back. A crash frees the lock and
  leaves what was committed.
- `Migration`: one process is inside `Open` (`Locked`), and a store is open only
  over a database that needs no upgrade, so that nothing is appended between the
  inspection, the backup and the commit (`Known`, place by place of `Open`).
  `Drafted` says what the transaction has done at each stage. The repair is right
  because `Ranks` keeps the order and is onto 0..n-1 (lemma `Ranked`, by the
  pigeonhole theorem of the library), and because after k of its 2n UPDATEs every
  row is where `Placed` says: the negative numbers of the first pass, the final
  ones and the old ones never meet among rows that were moved. The databases that
  may be found are assumed to be what SQLite keeps true: a unique index admits no
  duplicates, numbers are not negative, and the search table holds all messages or
  none.
- `Config`: whoever computes a new configuration holds the lock, so that what it
  computed is still the change of what is in place when it renames. Files that
  are or were in place are never written to again, which is why readers need no
  lock.
- `ImagePublish`: what `Publish` returned is, from the link on, a picture under
  the name of the turn, and nothing is returned before; only the link changes a
  name, and only a free one. A conversation that was started earlier is continued
  under the lock, a new one is known to one process, so that the history read at
  the start of a turn is the one the artifact is appended to (lemma `Alone`).
  `SuccessIsWhole` needs a second invariant, `SInv`: where errors, directories
  and temporary files may be, place by place, and that no artifact has the number
  of a turn that is still at work. `FittedSizes` is about `OutputSize` alone: one
  side changes at most, cropping takes away, padding adds, and the result is less
  than a pixel from the ratio asked for, whatever the numbers.
- `Serve`: `slots` is a number and the requests that use it are a set, so `IInv`
  says (`Counted`) that it is the cardinality of those in hand, and each handler
  step adds or removes one client at most. What was answered and what is on disk
  is settled place by place of the handler (`Answered`, `Holds`); a late answer
  after a failed cleanup is impossible because a picture is answered only once
  its directory is gone. `Answered` ties `server_busy` to a request that never had
  a slot, and `rate_limited` to the kind of the error its own run ended with.
  `Welcome` carries the check of the token from `guard` to
  every later place, and `Started` the checks of the command line to the listener.
- `NativeStream`: `StreamInv` says place by place of the handler what is on the
  wire and what is still in `todo`, so that an opening that is half written is
  continued where it stopped (`Emitting`), an ending is what is left of `Done`
  (`Finishing`), and the names on the wire are always a beginning of a whole
  response (`Ordered`). Two things make it hold. A delta is accepted only when its
  last frame was written, so that `accumulated` is always the text of the last
  accepted snapshot (`Spoken`). And a write fails only when nothing can be written
  any more: the client is gone or the deadline is past (`Cut`), which stays so
  until the handler returns; an opening that broke off (`Broken`) is therefore
  followed by nothing, not even by the error. What the client has put together is
  a flattened sequence of sequences, whose value is no consequence of a formula
  without induction over data; but the behaviour is an induction too, so
  `StreamInv` has a conjunct that the frames on the wire flatten to `accumulated`
  (`Flattens`: the recursive function exists, and every such function ends in that
  text), which holds of the empty wire and which lemma `FlattensMore` keeps for
  one frame more. `FlattensIs` then gives the operator of the library its value.
- `Respond`: `NeverAnsweredTwice` is about the fallback of `auto`, and its
  reason is `Answered`: from the moment a bridge has answered, the result on its
  way back is one whose kind `FallbackEligible` refuses (lemma `NotAgain`, which
  rests on what Apple's texts are taken to mean). `OnDisk` says that every image
  was read whole before a bridge may start, `Routed` that a reference is always
  one this command found or was configured with, and `Said` keeps the reason of
  each error until the command ends.

The assumptions are those named `...Constants` and `RouteTable`; TLC evaluates
them in the runs of their modules. Checks that the code makes in order are chains
of IF, because the arms of a CASE have no order in TLA+ and nothing could be
proved of the first that applies.
The SQLite transaction, the flock and the atomic rename are actions of the
models: what they promise is assumed.

Only model-checked: all liveness (`InvocationEnds`, `CallReturns`, `TurnEnds`,
`RequestEnds`, `CommandEnds`, `AllEnds`), since TLAPS has no rule for fairness
here.

## 5. Not modelled

- The schema subset (`runner/schema.go`, `server/schema.go`,
  `native/SchemaSubset.swift`): pure functions on JSON documents, a parser and a
  validator. Their content is the shape of JSON; a model would be as long.
- `setup`: a plan that is computed from observations and printed; the loop around
  it has no state.
- Document input: files read and concatenated under limits.
- Chat queries (list, search, show, export, rename, archive): single statements
  and printing.
- The decoding and the bounds of image inputs of the server: one refusal in
  `Serve`. Request decoding and the wording of errors likewise.
- Pixels: cropping, padding and resizing change a picture's size in `ImagePublish`
  and nothing else. Prompts and answers, digests and texts.
- Directory modes, symbolic links and descriptor walks; power loss that undoes a
  completed rename; hand edits of `config.json`, which take no lock;
  `saveConfig`, which only tests call.
- The native helper itself (any lines are taken from it) and the operations of
  `native.go` other than the streamed one.
- Building, packaging, the plugin's shell scripts, the Shortcuts files.

What is taken on trust: SQLite's transactions, flock, rename and link; net/http
(a handler's context ends when its client goes, `Shutdown` waits for connections
that are not idle); that a bridge whose failure carries Apple's text of a rate
limit or of a missing shortcut has not answered, on which `NeverAnsweredTwice`
rests; that no process detached from the native helper keeps its standard input
unread, on which `RequestEnds` and `AllEnds` rest.

Some lesser hazards were met while modelling and no property is about them: a wall
clock set back between two invocations of a batch job (the time before which no
call may start is stored as wall-clock time, `batch/engine.go`); `chat show`,
which reads a conversation and its messages in two queries; an upgrade that is
refused for what it finds, which leaves a backup at every opening
(`store/store.go`); a write deadline that is armed while the stream's handler
cancels it (`server/native.go`), and is cleared before the last flush; and a
published picture over 4 MiB, which a later turn with `auto` refuses as its
reference.

## 6. Plan

1. The native helper as a refinement of the untrusted one, and the operations
   other than stream.
2. `Schema`: the subset's parser and validator as operators, checked against a
   reference definition over all small schemas and values; `Setup`'s plan
   likewise.
