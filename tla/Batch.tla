------------------------------- MODULE Batch -------------------------------
(***************************************************************************)
(* The batch engine (internal/batch/engine.go) running over its durable    *)
(* store (internal/batch/store.go), with the executor of                   *)
(* internal/cli/batch.go and the provider behind it.                       *)
(*                                                                         *)
(* Several hollis processes may run `hollis batch run` on one job.  Each   *)
(* takes the flock of the job, works on a private copy of the manifest and *)
(* writes it back as a whole.  A process may be cancelled by a signal or   *)
(* die at any step, a write may fail with or without having taken effect,  *)
(* and the user may edit the input files meanwhile.                        *)
(*                                                                         *)
(* A request id is a hash of (job, item, attempt), so the attempt number   *)
(* stands for it.  A result envelope is identified by the request that     *)
(* produced it, so results[i] is the attempt whose output occupies the     *)
(* reserved destination of item i, or 0.  Instants are kept as the time    *)
(* left until they are reached.                                            *)
(***************************************************************************)
EXTENDS Naturals, FiniteSets

CONSTANTS
    NumItems,   \* the files the job was planned with, in inventory order
    Procs,      \* hollis processes that may be started on the job
    Budgets,    \* the --max-calls values the user gives
    Spacing,    \* RouteSpec.BatchSpacing of the job's model, in ticks
    Editable,   \* the planned inputs the user may edit (0: the instruction)
    Faults,     \* what may go wrong: "save", "commit", "provider", "crash", "signal"
    MaxRuns     \* bound: invocations started over the life of the job

NoProc == "none"

ASSUME BatchConstants ==
    /\ NumItems \in Nat \ {0}
    /\ Budgets \subseteq 1..100
    /\ Spacing \in Nat
    /\ MaxRuns \in Nat
    /\ NoProc \notin Procs

Items == 1..NumItems

VARIABLES
    manifest,   \* durable: the job manifest
    results,    \* durable: the attempt whose envelope is published, or 0
    lock,       \* the process holding the flock on job.json.lock, or NoProc
    edited,     \* the inputs whose bytes differ from the recorded digests
    pc,         \* where each process is in batch.Run
    job,        \* its in-memory copy of the manifest
    opts,       \* its InvocationOptions
    cursor,     \* the index of its reconcile or call loop
    attempted,  \* InvocationResult.Attempted
    signalled,  \* its context is cancelled
    seen,       \* the bytes its executor holds are the planned ones
    report,     \* how its last invocation ended
    runs,       \* invocations started so far
    called,     \* ghost: the provider calls made, as <<item, attempt>>
    tainted,    \* ghost: the calls made with bytes other than the planned ones
    refused,    \* ghost: the calls known to have ended without an output
    quiet       \* ghost: ticks until Spacing has passed since the last call

durable  == <<manifest, results, edited>>
local    == <<job, opts, cursor, attempted, signalled, seen>>
provider == <<called, tainted, refused, quiet>>
vars     == <<durable, lock, pc, local, report, runs, provider>>

Status == {"pending", "running", "succeeded", "failed", "uncertain"}
Item   == [status : Status, attempts : Nat, request : Nat, result : Nat, failure : BOOLEAN]
Job    == [items : [Items -> Item], next : 0..Spacing]

\* One step per phase of Run; "reconciling" and "scanning" are its two loops.
Phases == {"idle", "locking", "loading", "reconciling", "preflight", "scanning",
           "pacing", "rechecking", "intending", "dispatching", "comparing",
           "calling", "committing", "recording", "unlocking"}

\* "corrupt" is an error that no later invocation can get past.
Reports == {"none", "locked", "complete", "paused", "budget", "choice", "error", "corrupt"}

Options == {o \in [max : Budgets, retryFailed : BOOLEAN,
                   retryUncertain : BOOLEAN, skipUncertain : BOOLEAN] :
              ~(o.retryUncertain /\ o.skipUncertain)}

NoOptions == [max |-> 1, retryFailed |-> FALSE,
              retryUncertain |-> FALSE, skipUncertain |-> FALSE]

PlannedItem == [status |-> "pending", attempts |-> 0, request |-> 0,
                result |-> 0, failure |-> FALSE]
PlannedJob  == [items |-> [i \in Items |-> PlannedItem], next |-> 0]

Init ==
    /\ manifest = PlannedJob
    /\ results = [i \in Items |-> 0]
    /\ lock = NoProc
    /\ edited = {}
    /\ pc = [p \in Procs |-> "idle"]
    /\ job = [p \in Procs |-> PlannedJob]
    /\ opts = [p \in Procs |-> NoOptions]
    /\ cursor = [p \in Procs |-> 1]
    /\ attempted = [p \in Procs |-> 0]
    /\ signalled = [p \in Procs |-> FALSE]
    /\ seen = [p \in Procs |-> FALSE]
    /\ report = [p \in Procs |-> "none"]
    /\ runs = 0
    /\ called = {}
    /\ tainted = {}
    /\ refused = {}
    /\ quiet = 0

-----------------------------------------------------------------------------
(* What the store accepts and reports.                                     *)

\* validateItem: the shape each status requires.
ValidItem(it) ==
    /\ it.status = "pending" => it.result = 0 /\ ~it.failure
    /\ it.status # "pending" => it.attempts >= 1 /\ it.request # 0
    /\ it.status = "running" => it.result = 0 /\ ~it.failure
    /\ it.status \in {"failed", "uncertain"} => it.result = 0 /\ it.failure
    /\ it.status = "succeeded" => it.result = it.request /\ ~it.failure
    /\ it.request # 0 => it.request = it.attempts

ValidJob(j) == \A i \in Items : ValidItem(j.items[i])

\* VerifyResult: does it report a committed result for this item?
Found(i) == results[i] # 0

\* VerifyResult fails when the copy is not what is stored, or when the
\* envelope at the destination is not that of the item's current attempt.
Unverifiable(it, i) ==
    \/ it # manifest.items[i]
    \/ /\ results[i] # 0
       /\ \/ it.status \notin {"running", "uncertain", "succeeded"}
          \/ results[i] # it.request
          \/ it.status = "succeeded" /\ it.result # results[i]

\* Mutant: Save returns before the rename.
Saved_NoRename(j) == ValidJob(j) /\ ValidJob(manifest) /\ UNCHANGED manifest

\* Save: the new manifest j replaces the stored one as a whole.
Saved(j) == ValidJob(j) /\ ValidJob(manifest) /\ manifest' = j

\* A Save that reports an error: the rename may have happened before the
\* directory sync failed, and the manifest is then the new one all the same.
SaveFailed(j) ==
    \/ "save" \in Faults /\ ValidJob(j) /\ manifest' \in {manifest, j}
    \/ ~(ValidJob(j) /\ ValidJob(manifest)) /\ UNCHANGED manifest

\* Save under the invocation's own context gives up at once when cancelled.
SaveFailedOrCancelled(p, j) ==
    \/ SaveFailed(j)
    \/ signalled[p] /\ UNCHANGED manifest

SaveReport(j) == IF ValidJob(j) /\ ValidJob(manifest) THEN "error" ELSE "corrupt"

-----------------------------------------------------------------------------
(* Pieces of Run.                                                          *)

Eligible(it, o) ==
    \/ it.status = "pending"
    \/ it.status = "failed" /\ o.retryFailed
    \/ it.status = "uncertain" /\ o.retryUncertain

HasStatus(j, s) == \E i \in Items : j.items[i].status = s

\* Mutant: an uncertain item does not keep the job from being complete.
Complete_Lenient(j) == ~HasStatus(j, "pending") /\ ~HasStatus(j, "failed")

\* summarize: a running item counts as uncertain, so only this is complete.
Complete(j) == \A i \in Items : j.items[i].status = "succeeded"

MaxOf(a, b) == IF a > b THEN a ELSE b

Goto(p, phase) == pc' = [pc EXCEPT ![p] = phase]

\* Return from Run with report r; the deferred Unlock runs next.
Return(p, r) ==
    /\ Goto(p, "unlocking")
    /\ report' = [report EXCEPT ![p] = r]

-----------------------------------------------------------------------------
(* Entering Run.                                                           *)

\* The user starts `hollis batch run` or `resume` with options that pass
\* InvocationOptions.Validate.
Start(p) ==
    /\ pc[p] = "idle"
    /\ runs < MaxRuns
    /\ runs' = runs + 1
    /\ \E o \in Options : opts' = [opts EXCEPT ![p] = o]
    /\ Goto(p, "locking")
    /\ report' = [report EXCEPT ![p] = "none"]
    /\ UNCHANGED <<durable, lock, job, cursor, attempted, signalled, seen, provider>>

\* Forget the in-memory state of an invocation that is over.
Forget(p) ==
    /\ Goto(p, "idle")
    /\ job' = [job EXCEPT ![p] = PlannedJob]
    /\ opts' = [opts EXCEPT ![p] = NoOptions]
    /\ cursor' = [cursor EXCEPT ![p] = 1]
    /\ attempted' = [attempted EXCEPT ![p] = 0]
    /\ signalled' = [signalled EXCEPT ![p] = FALSE]
    /\ seen' = [seen EXCEPT ![p] = FALSE]

AcquireLock(p) ==
    /\ pc[p] = "locking"
    /\ ~signalled[p]
    /\ lock = NoProc
    /\ lock' = p
    /\ Goto(p, "loading")
    /\ UNCHANGED <<durable, local, report, runs, provider>>

\* LOCK_NB: another holder, or a cancelled context, ends the invocation.
LockRefused(p) ==
    /\ pc[p] = "locking"
    /\ lock # NoProc \/ signalled[p]
    /\ Forget(p)
    /\ report' = [report EXCEPT ![p] = IF signalled[p] THEN "error" ELSE "locked"]
    /\ UNCHANGED <<durable, lock, runs, provider>>

Load(p) ==
    /\ pc[p] = "loading"
    /\ \/ /\ ~signalled[p]
          /\ ValidJob(manifest)
          /\ job' = [job EXCEPT ![p] = manifest]
          /\ Goto(p, "reconciling")
          /\ UNCHANGED report
       \/ /\ signalled[p] \/ ~ValidJob(manifest)
          /\ Return(p, IF signalled[p] THEN "error" ELSE "corrupt")
          /\ UNCHANGED job
    /\ UNCHANGED <<durable, lock, opts, cursor, attempted, signalled, seen, runs, provider>>

-----------------------------------------------------------------------------
(* reconcileInterrupted, one item at a time.                               *)

\* Mutant: the published result of an interrupted attempt is not looked for.
Reconciled_NotAdopted(it, i) == [it EXCEPT !.status = "uncertain", !.failure = TRUE]

\* What an interrupted item becomes: its published result is adopted, a
\* running one without a result is uncertain.
Reconciled(it, i) ==
    IF Found(i)
    THEN [it EXCEPT !.status = "succeeded", !.result = results[i], !.failure = FALSE]
    ELSE [it EXCEPT !.status = "uncertain", !.failure = TRUE]

\* Mutant: recovery keeps whatever checkpoint was stored.
ReconciledJob_NoRestart(j, i) ==
    [items |-> [j.items EXCEPT ![i] = Reconciled(@, i)], next |-> j.next]

\* The conservative interval is restarted with every interrupted item.
ReconciledJob(j, i) ==
    [items |-> [j.items EXCEPT ![i] = Reconciled(@, i)],
     next  |-> MaxOf(j.next, Spacing)]

\* A settled item must have a result exactly if it succeeded.
SettledOK(it, i) ==
    /\ ~Unverifiable(it, i)
    /\ it.status = "succeeded" <=> Found(i)

ReconcileSettled(p) ==
    /\ pc[p] = "reconciling"
    /\ cursor[p] \in Items
    /\ ~signalled[p]
    /\ LET it == job[p].items[cursor[p]] IN
         /\ it.status \in {"pending", "failed", "succeeded"}
         /\ \/ /\ SettledOK(it, cursor[p])
               /\ cursor' = [cursor EXCEPT ![p] = @ + 1]
               /\ UNCHANGED <<pc, report>>
            \/ /\ ~SettledOK(it, cursor[p])
               /\ Return(p, "corrupt")
               /\ UNCHANGED cursor
    /\ UNCHANGED <<durable, lock, job, opts, attempted, signalled, seen, runs, provider>>

ReconcileInterrupted(p) ==
    /\ pc[p] = "reconciling"
    /\ cursor[p] \in Items
    /\ ~signalled[p]
    /\ LET i  == cursor[p]
           it == job[p].items[i]
           j  == ReconciledJob(job[p], i) IN
         /\ it.status \in {"running", "uncertain"}
         /\ \/ /\ ~Unverifiable(it, i)
               /\ Saved(j)
               /\ job' = [job EXCEPT ![p] = j]
               /\ cursor' = [cursor EXCEPT ![p] = @ + 1]
               /\ UNCHANGED <<pc, report>>
            \/ /\ ~Unverifiable(it, i)
               /\ SaveFailed(j)
               /\ job' = [job EXCEPT ![p] = j]
               /\ Return(p, SaveReport(j))
               /\ UNCHANGED cursor
            \/ /\ Unverifiable(it, i)
               /\ Return(p, "corrupt")
               /\ UNCHANGED <<manifest, job, cursor>>
    /\ UNCHANGED <<results, edited, lock, opts, attempted, signalled, seen, runs, provider>>

\* A cancelled context fails the next VerifyResult, or the Save after it.
ReconcileCancelled(p) ==
    /\ pc[p] = "reconciling"
    /\ cursor[p] \in Items
    /\ signalled[p]
    /\ Return(p, "error")
    /\ UNCHANGED <<durable, lock, local, runs, provider>>

ReconcileDone(p) ==
    /\ pc[p] = "reconciling"
    /\ cursor[p] \notin Items
    /\ cursor' = [cursor EXCEPT ![p] = 1]
    /\ Goto(p, "preflight")
    /\ UNCHANGED <<durable, lock, job, opts, attempted, signalled, seen, report, runs, provider>>

\* RevalidateSources, then the two explicit choices a resume may need.
Preflight(p) ==
    /\ pc[p] = "preflight"
    /\ \/ edited # {} /\ Return(p, "error")
       \/ /\ edited = {}
          /\ \/ HasStatus(job[p], "failed") /\ ~opts[p].retryFailed
             \/ /\ HasStatus(job[p], "uncertain")
                /\ ~opts[p].retryUncertain /\ ~opts[p].skipUncertain
          /\ Return(p, "choice")
       \/ /\ edited = {}
          /\ HasStatus(job[p], "failed") => opts[p].retryFailed
          /\ HasStatus(job[p], "uncertain") =>
               opts[p].retryUncertain \/ opts[p].skipUncertain
          /\ Goto(p, "scanning")
          /\ UNCHANGED report
    /\ UNCHANGED <<durable, lock, local, runs, provider>>

-----------------------------------------------------------------------------
(* The call loop.                                                          *)

Current(p) == job[p].items[cursor[p]]

Skip(p) ==
    /\ pc[p] = "scanning"
    /\ cursor[p] \in Items
    /\ ~Eligible(Current(p), opts[p])
    /\ cursor' = [cursor EXCEPT ![p] = @ + 1]
    /\ UNCHANGED <<durable, lock, pc, job, opts, attempted, signalled, seen, report, runs, provider>>

\* An eligible item is reached: stop at the budget, stop if cancelled, or
\* go on to the pacing wait.
Reach(p) ==
    /\ pc[p] = "scanning"
    /\ cursor[p] \in Items
    /\ Eligible(Current(p), opts[p])
    /\ \/ attempted[p] = opts[p].max /\ Return(p, "budget")
       \/ attempted[p] # opts[p].max /\ signalled[p] /\ Return(p, "error")
       \/ /\ attempted[p] # opts[p].max
          /\ ~signalled[p]
          /\ Goto(p, "pacing")
          /\ UNCHANGED report
    /\ UNCHANGED <<durable, lock, local, runs, provider>>

\* The end of the loop: every item was passed.
Finish(p) ==
    /\ pc[p] = "scanning"
    /\ cursor[p] \notin Items
    /\ Return(p, IF Complete(job[p]) THEN "complete" ELSE "paused")
    /\ UNCHANGED <<durable, lock, local, runs, provider>>

\* waitForPacing: a cancelled context only interrupts a wait that is needed.
Paced(p) ==
    /\ pc[p] = "pacing"
    /\ \/ job[p].next = 0 /\ Goto(p, "rechecking") /\ UNCHANGED report
       \/ job[p].next # 0 /\ signalled[p] /\ Return(p, "error")
    /\ UNCHANGED <<durable, lock, local, runs, provider>>

\* RevalidateItem and the second VerifyResult, just before the attempt.
Recheck(p) ==
    /\ pc[p] = "rechecking"
    /\ LET i == cursor[p]
           bad == Unverifiable(Current(p), i) \/ Found(i) IN
         \/ edited \cap {0, i} # {} /\ Return(p, "error")
         \/ edited \cap {0, i} = {} /\ signalled[p] /\ Return(p, "error")
         \/ edited \cap {0, i} = {} /\ ~signalled[p] /\ bad /\ Return(p, "corrupt")
         \/ /\ edited \cap {0, i} = {} /\ ~signalled[p] /\ ~bad
            /\ Goto(p, "intending")
            /\ UNCHANGED report
    /\ UNCHANGED <<durable, lock, local, runs, provider>>

\* Mutant: a retry goes out under the identity of the attempt it repeats.
Intended_SameAttempt(it) ==
    [status |-> "running", attempts |-> MaxOf(it.attempts, 1),
     request |-> MaxOf(it.attempts, 1), result |-> 0, failure |-> FALSE]

\* nextRequest and the assignments that record the attempt in the copy.
Intended(it) ==
    [status |-> "running", attempts |-> it.attempts + 1,
     request |-> it.attempts + 1, result |-> 0, failure |-> FALSE]

WithItem(j, i, it) == [j EXCEPT !.items[i] = it]

\* The attempt is made durable before the provider is called.
SaveIntent(p) ==
    /\ pc[p] = "intending"
    /\ LET j == WithItem(job[p], cursor[p], Intended(Current(p))) IN
         /\ job' = [job EXCEPT ![p] = j]
         /\ \/ /\ ~signalled[p]
               /\ Saved(j)
               /\ attempted' = [attempted EXCEPT ![p] = @ + 1]
               /\ Goto(p, "dispatching")
               /\ UNCHANGED report
            \/ /\ SaveFailedOrCancelled(p, j)
               /\ Return(p, SaveReport(j))
               /\ UNCHANGED attempted
    /\ UNCHANGED <<results, edited, lock, opts, cursor, signalled, seen, runs, provider>>

\* After Execute: the outcome is entered in the copy and the pacing
\* checkpoint restarts.
Outcome(j, i, s) ==
    [items |-> [j.items EXCEPT ![i] = [@ EXCEPT !.status = s, !.failure = s # "running"]],
     next  |-> Spacing]

\* Mutant: the context is not consulted.
ErrorStatus_IgnoresContext(p, ambiguous) == IF ambiguous THEN "uncertain" ELSE "failed"

\* ambiguousExecution: once the context is cancelled no error is definite.
ErrorStatus(p, ambiguous) ==
    IF signalled[p] \/ ambiguous THEN "uncertain" ELSE "failed"

ExecuteFailed(p, ambiguous) ==
    /\ job' = [job EXCEPT ![p] = Outcome(@, cursor[p], ErrorStatus(p, ambiguous))]
    /\ Goto(p, "recording")

\* Execute takes the instruction and the input into memory (an image into a
\* private copy) ...
ReadInputs(p) ==
    /\ pc[p] = "dispatching"
    /\ ~signalled[p]
    /\ seen' = [seen EXCEPT ![p] = edited \cap {0, cursor[p]} = {}]
    /\ Goto(p, "comparing")
    /\ UNCHANGED <<durable, lock, job, opts, cursor, attempted, signalled, report, runs, provider>>

\* Mutant: the file is hashed again instead of the bytes in hand.
BytesMatch_Reread(p) == edited \cap {0, cursor[p]} = {}

\* ... compares the digests of what it took with those of the request ...
BytesMatch(p) == seen[p]

\* ... and only then calls the provider with it.
Dispatch(p) ==
    /\ pc[p] = "comparing"
    /\ ~signalled[p]
    /\ BytesMatch(p)
    /\ Goto(p, "calling")
    /\ called' = called \cup {<<cursor[p], Current(p).attempts>>}
    /\ tainted' = IF seen[p] THEN tainted
                  ELSE tainted \cup {<<cursor[p], Current(p).attempts>>}
    /\ UNCHANGED <<durable, lock, local, report, runs, refused, quiet>>

\* No call is made: cancelled, the bridge is not resolved (which is ambiguous
\* when `shortcuts list` timed out), or the bytes are not those of the plan.
DispatchRefused(p, ambiguous) ==
    /\ pc[p] \in {"dispatching", "comparing"}
    /\ \/ signalled[p]
       \/ pc[p] = "dispatching" /\ "provider" \in Faults
       \/ pc[p] = "comparing" /\ ~BytesMatch(p) /\ ~ambiguous
    /\ ExecuteFailed(p, ambiguous)
    /\ UNCHANGED <<durable, lock, opts, cursor, attempted, signalled, seen, report, runs,
                   provider>>

\* The provider answers with the planned model.
CallAnswered(p) ==
    /\ pc[p] = "calling"
    /\ job' = [job EXCEPT ![p] = Outcome(@, cursor[p], "running")]
    /\ Goto(p, "committing")
    /\ quiet' = Spacing
    /\ UNCHANGED <<durable, lock, opts, cursor, attempted, signalled, seen, report, runs,
                   called, tainted, refused>>

\* The call ends in an error, definite (this includes an answer by another
\* model) or ambiguous (a timeout, or a signal that killed the provider).
CallFailed(p, ambiguous) ==
    /\ pc[p] = "calling"
    /\ signalled[p] \/ "provider" \in Faults
    /\ ExecuteFailed(p, ambiguous)
    /\ quiet' = Spacing
    /\ refused' = IF signalled[p] \/ ambiguous THEN refused
                  ELSE refused \cup {<<cursor[p], Current(p).attempts>>}
    /\ UNCHANGED <<durable, lock, opts, cursor, attempted, signalled, seen, report, runs, called,
                   tainted>>

\* CommitResult accepts the output only for the attempt the stored manifest
\* says is running, and publishes only to a free destination.
MayCommit(p) ==
    LET stored == manifest.items[cursor[p]] IN
    /\ stored.status = "running"
    /\ stored.request = Current(p).request
    /\ results[cursor[p]] = 0

Commit(p) ==
    /\ pc[p] = "committing"
    /\ MayCommit(p)
    /\ results' = [results EXCEPT ![cursor[p]] = Current(p).request]
    /\ job' = [job EXCEPT ![p] = WithItem(@, cursor[p],
                 [Current(p) EXCEPT !.status = "succeeded", !.result = Current(p).request,
                                    !.failure = FALSE])]
    /\ Goto(p, "recording")
    /\ UNCHANGED <<manifest, edited, lock, opts, cursor, attempted, signalled, seen, report, runs,
                   provider>>

\* Mutant: a failed commit counts as a failed call.
Unconfirmed_Failed(it) == [it EXCEPT !.status = "failed", !.failure = TRUE]

Unconfirmed(it) == [it EXCEPT !.status = "uncertain", !.failure = TRUE]

\* CommitResult reports an error: the output was unusable or not written, or
\* it was linked and a later remove or directory sync failed.
CommitFailed(p) ==
    /\ pc[p] = "committing"
    /\ "commit" \in Faults \/ ~MayCommit(p)
    /\ \/ UNCHANGED results
       \/ MayCommit(p) /\ results' = [results EXCEPT ![cursor[p]] = Current(p).request]
    /\ job' = [job EXCEPT ![p] = WithItem(@, cursor[p], Unconfirmed(Current(p)))]
    /\ Goto(p, "recording")
    /\ UNCHANGED <<manifest, edited, lock, opts, cursor, attempted, signalled, seen, report, runs,
                   provider>>

\* The outcome is saved without the invocation's context.  A success goes on
\* with the next item, anything else ends the invocation.
Record(p) ==
    /\ pc[p] = "recording"
    /\ Saved(job[p])
    /\ \/ /\ Current(p).status = "succeeded"
          /\ cursor' = [cursor EXCEPT ![p] = @ + 1]
          /\ Goto(p, "scanning")
          /\ UNCHANGED report
       \/ /\ Current(p).status # "succeeded"
          /\ Return(p, "error")
          /\ UNCHANGED cursor
    /\ UNCHANGED <<results, edited, lock, job, opts, attempted, signalled, seen, runs, provider>>

\* The copy of a success whose save failed goes back to running.
RecordFailed(p) ==
    /\ pc[p] = "recording"
    /\ SaveFailed(job[p])
    /\ job' = IF Current(p).status = "succeeded"
              THEN [job EXCEPT ![p] = WithItem(@, cursor[p],
                      [Current(p) EXCEPT !.status = "running", !.result = 0])]
              ELSE job
    /\ Return(p, SaveReport(job[p]))
    /\ UNCHANGED <<results, edited, lock, opts, cursor, attempted, signalled, seen, runs, provider>>

\* Mutant: a return that does not release the flock.
Unlock_Kept(p) ==
    /\ pc[p] = "unlocking"
    /\ Forget(p)
    /\ UNCHANGED <<durable, lock, report, runs, provider>>

Unlock(p) ==
    /\ pc[p] = "unlocking"
    /\ lock' = NoProc
    /\ Forget(p)
    /\ UNCHANGED <<durable, report, runs, provider>>

-----------------------------------------------------------------------------
(* The environment.                                                        *)

\* SIGINT or SIGTERM cancels the context of Run.
Signal(p) ==
    /\ "signal" \in Faults
    /\ pc[p] # "idle"
    /\ ~signalled[p]
    /\ signalled' = [signalled EXCEPT ![p] = TRUE]
    /\ UNCHANGED <<durable, lock, pc, job, opts, cursor, attempted, seen, report, runs, provider>>

\* The process dies; the kernel drops its flock, the files stay as they are.
Crash(p) ==
    /\ "crash" \in Faults
    /\ pc[p] # "idle"
    /\ Forget(p)
    /\ lock' = IF lock = p THEN NoProc ELSE lock
    /\ quiet' = IF pc[p] = "calling" THEN Spacing ELSE quiet
    /\ report' = [report EXCEPT ![p] = "none"]
    /\ UNCHANGED <<durable, runs, called, tainted, refused>>

\* The user changes an input after planning, or puts it back.
Edit(s) ==
    /\ s \in Editable
    /\ edited' = IF s \in edited THEN edited \ {s} ELSE edited \cup {s}
    /\ UNCHANGED <<manifest, results, lock, pc, local, report, runs, provider>>

Less(n) == IF n = 0 THEN 0 ELSE n - 1

Tick ==
    /\ quiet # 0 \/ manifest.next # 0 \/ \E p \in Procs : job[p].next # 0
    /\ quiet' = Less(quiet)
    /\ manifest' = [manifest EXCEPT !.next = Less(@)]
    /\ job' = [p \in Procs |-> [job[p] EXCEPT !.next = Less(@)]]
    /\ UNCHANGED <<results, edited, lock, pc, opts, cursor, attempted, signalled, seen, report, runs,
                   called, tainted, refused>>

-----------------------------------------------------------------------------

\* What the process does of its own accord.
Step(p) ==
    \/ AcquireLock(p) \/ LockRefused(p) \/ Load(p)
    \/ ReconcileSettled(p) \/ ReconcileInterrupted(p) \/ ReconcileCancelled(p)
    \/ ReconcileDone(p) \/ Preflight(p)
    \/ Skip(p) \/ Reach(p) \/ Finish(p) \/ Paced(p) \/ Recheck(p) \/ SaveIntent(p)
    \/ ReadInputs(p) \/ Dispatch(p) \/ \E ambiguous \in BOOLEAN : DispatchRefused(p, ambiguous)
    \/ CallAnswered(p) \/ \E ambiguous \in BOOLEAN : CallFailed(p, ambiguous)
    \/ Commit(p) \/ CommitFailed(p) \/ Record(p) \/ RecordFailed(p) \/ Unlock(p)

Next ==
    \/ \E p \in Procs : Start(p) \/ Step(p) \/ Signal(p) \/ Crash(p)
    \/ \E s \in Editable : Edit(s)
    \/ Tick

Spec == Init /\ [][Next]_vars

\* Every process goes on (the provider's answer included: Execute runs under
\* runner.MaxTimeout) and time passes.
Fairness == WF_vars(Tick) /\ \A p \in Procs : WF_vars(Step(p))

FairSpec == Spec /\ Fairness

-----------------------------------------------------------------------------
(* Properties.                                                             *)

\* Every variable has its type.
TypeOK ==
    /\ manifest \in Job
    /\ results \in [Items -> Nat]
    /\ lock \in Procs \cup {NoProc}
    /\ edited \subseteq Editable
    /\ pc \in [Procs -> Phases]
    /\ job \in [Procs -> Job]
    /\ opts \in [Procs -> Options \cup {NoOptions}]
    /\ cursor \in [Procs -> Nat \ {0}]
    /\ attempted \in [Procs -> Nat]
    /\ signalled \in [Procs -> BOOLEAN]
    /\ report \in [Procs -> Reports]
    /\ runs \in Nat
    /\ called \subseteq Items \X Nat
    /\ tainted \subseteq Items \X Nat
    /\ refused \subseteq Items \X Nat
    /\ seen \in [Procs -> BOOLEAN]
    /\ quiet \in 0..Spacing

\* Write-ahead: whatever is lost in a crash, no provider call was made that
\* the stored manifest does not account for by an attempt.
WriteAhead ==
    \A c \in called : 1 <= c[2] /\ c[2] <= manifest.items[c[1]].attempts

\* A published result always belongs to the item's latest attempt, the stored
\* status lets the next invocation find and adopt it, and an item the
\* manifest calls succeeded names exactly the result that is published.
ResultsAgree ==
    \A i \in Items :
        LET it == manifest.items[i] IN
        /\ results[i] # 0 => /\ results[i] = it.attempts
                             /\ it.status \in {"running", "uncertain", "succeeded"}
        /\ it.status = "succeeded" => results[i] # 0 /\ it.result = results[i]

\* No sequence of crashes, signals and failed writes leaves a job that every
\* later invocation refuses: the error paths for an inconsistent manifest or
\* an unexpected result are never taken.
NeverCorrupt ==
    /\ ValidJob(manifest)
    /\ \A p \in Procs : report[p] # "corrupt"

\* An invocation that reports the job complete tells the truth, whatever
\* other processes have done since.
CompleteIsTrue ==
    (\E p \in Procs : report[p] = "complete") =>
        \A i \in Items : manifest.items[i].status = "succeeded" /\ results[i] # 0

\* No published result was computed from an instruction or an input that is
\* not what the job was planned with, whenever the user edits them.
ResultsFromPlan ==
    \A i \in Items : results[i] # 0 => <<i, results[i]>> \notin tainted

\* p hands its current item to the provider in this step.
CallBegins(p) == pc[p] = "comparing" /\ pc'[p] = "calling"

Attempt(p) == <<cursor[p], Current(p).attempts>>

\* A request id names one call only, and an item whose output was published
\* is never sent to the provider again, even if the process died before it
\* could record the success.
NoRepeatedRequest ==
    [][\A p \in Procs : CallBegins(p) =>
         Attempt(p) \notin called /\ results[cursor[p]] = 0]_vars

\* A call is repeated only on request: with --retry-uncertain when it is not
\* known how the previous one ended, else with one of the retry options.
RepeatNeedsConsent ==
    [][\A p \in Procs : CallBegins(p) =>
         LET previous == <<cursor[p], Current(p).attempts - 1>> IN
         /\ previous \in called \ refused => opts[p].retryUncertain
         /\ previous \in refused => opts[p].retryFailed \/ opts[p].retryUncertain]_vars

\* A call starts only when the spacing has passed since the previous call of
\* any process ended, or since the process that made it died.
CallsAreSpaced ==
    [][\A p \in Procs : CallBegins(p) => quiet = 0 /\ \A q \in Procs : pc[q] # "calling"]_vars

\* The engine keeps the promises of BatchLedger: a published result makes a
\* file done, otherwise the stored status says what is known of it.
LedgerState(i) ==
    IF results[i] # 0 THEN "done"
    ELSE LET s == manifest.items[i].status IN
         CASE s = "pending"   -> "waiting"
           [] s = "running"   -> "open"
           [] s = "failed"    -> "refused"
           [] s = "uncertain" -> "unknown"
           [] s = "succeeded" -> "done"

Ledger == INSTANCE BatchLedger WITH
              Files    <- Items,
              state    <- [i \in Items |-> LedgerState(i)],
              attempts <- [i \in Items |-> manifest.items[i].attempts]

ImplementsLedger == Ledger!LedgerSpec

\* An invocation that was started ends and leaves the lock free for the next
\* one: no wait (pacing, provider, lock) is forever.
InvocationEnds ==
    \A p \in Procs : pc[p] # "idle" ~> (pc[p] = "idle" /\ lock # p)
=============================================================================
