---------------------------- MODULE BatchProofs ----------------------------
(***************************************************************************)
(* Theorems about Batch for every number of files, processes and           *)
(* invocations, every spacing and every set of faults.                     *)
(*                                                                         *)
(* The invariants that matter are not inductive: they hold because only    *)
(* the holder of the lock touches the files, because its copy agrees with  *)
(* the stored manifest whenever it decides something, and because          *)
(* reconciliation settles every interrupted item before a call is chosen.  *)
(* IInv says so, phase by phase; CInv adds what is known of the calls that *)
(* were made.  At the end, Batch is shown to implement BatchLedger.        *)
(***************************************************************************)
EXTENDS Batch, TLAPS

\* The phases of an invocation that holds the lock and has read the manifest
\* but not yet chosen an attempt, and those in which an attempt is under way.
Choosing == {"preflight", "scanning", "pacing", "rechecking", "intending"}
Trying   == {"dispatching", "comparing", "calling", "committing"}
AtItem   == Trying \cup {"pacing", "rechecking", "intending", "recording"}

\* An invocation at an item knows which.
CursorOK == \A p \in Procs : pc[p] \in AtItem => cursor[p] \in Items

\* Only the holder of the lock is past its acquisition.
HolderLocked ==
    \A p \in Procs : pc[p] \notin {"idle", "locking"} => lock = p

\* Every copy of the manifest is one that the store accepts.
CopiesValid ==
    /\ ValidJob(manifest)
    /\ \A p \in Procs : ValidJob(job[p])

\* Item i is not interrupted, and if it has a result it is recorded so.
Settled(i) ==
    /\ manifest.items[i].status # "running"
    /\ results[i] # 0 => manifest.items[i].status = "succeeded"

OthersSettled(p) == \A i \in Items \ {cursor[p]} : Settled(i)

\* While items are reconciled, the ones before the cursor are settled.
Reconciling(p) ==
    pc[p] = "reconciling" =>
        /\ job[p].items = manifest.items
        /\ \A i \in Items : i < cursor[p] => Settled(i)

Chooses(p) ==
    pc[p] \in Choosing =>
        /\ job[p].items = manifest.items
        /\ \A i \in Items : Settled(i)

\* The item that is waited for, or about to be tried, is still eligible.
Chosen(p) ==
    pc[p] \in {"pacing", "rechecking", "intending"} => Eligible(Current(p), opts[p])

\* The item being tried is the only running one and has no result yet.
Tries(p) ==
    pc[p] \in Trying =>
        /\ job[p].items = manifest.items
        /\ OthersSettled(p)
        /\ manifest.items[cursor[p]].status = "running"
        /\ results[cursor[p]] = 0

\* The copy holds the outcome of the attempt the manifest says is running.
Records(p) ==
    pc[p] = "recording" =>
        LET i   == cursor[p]
            new == job[p].items[i] IN
        /\ job[p].items = [manifest.items EXCEPT ![i] = new]
        /\ OthersSettled(p)
        /\ manifest.items[i].status = "running"
        /\ new.attempts = manifest.items[i].attempts
        /\ new.request = manifest.items[i].request
        /\ new.status \in {"succeeded", "failed", "uncertain"}
        /\ new.status = "succeeded" => results[i] = new.request
        /\ new.status = "failed" => results[i] = 0

\* The attempt about to be dispatched has not been used for a call.
Fresh(p) ==
    pc[p] \in {"dispatching", "comparing"} =>
        \A c \in called : c[1] = cursor[p] => c[2] < manifest.items[c[1]].attempts

PhaseInv(p) ==
    /\ pc[p] \in {"idle", "locking", "loading"} => cursor[p] = 1
    /\ Reconciling(p)
    /\ Chooses(p)
    /\ Chosen(p)
    /\ Tries(p)
    /\ Records(p)
    /\ Fresh(p)

IInv ==
    /\ TypeOK
    /\ CursorOK
    /\ HolderLocked
    /\ CopiesValid
    /\ ResultsAgree
    /\ WriteAhead
    /\ NeverCorrupt
    /\ CompleteIsTrue
    /\ \A p \in Procs : PhaseInv(p)

-----------------------------------------------------------------------------
(* Types.                                                                  *)

LEMMA WithItemType ==
    ASSUME NEW j \in Job, NEW i \in Items, NEW it \in Item
    PROVE  WithItem(j, i, it) \in Job
  BY DEF WithItem, Job

LEMMA ReconciledType ==
    ASSUME NEW j \in Job, NEW i \in Items, results \in [Items -> Nat]
    PROVE  ReconciledJob(j, i) \in Job
  <1>1. j.items[i] \in Item /\ results[i] \in Nat
    BY DEF Job
  <1>2. Reconciled(j.items[i], i) \in Item
    BY <1>1 DEF Reconciled, Item, Status
  <1> QED
    BY <1>2, BatchConstants DEF ReconciledJob, Job, MaxOf

LEMMA IntendedType ==
    ASSUME NEW it \in Item
    PROVE  Intended(it) \in Item
  BY DEF Intended, Item, Status

LEMMA OutcomeType ==
    ASSUME NEW j \in Job, NEW i \in Items, NEW s \in Status
    PROVE  Outcome(j, i, s) \in Job
  <1>1. [j.items[i] EXCEPT !.status = s, !.failure = s # "running"] \in Item
    BY DEF Job, Item
  <1> QED
    BY <1>1, BatchConstants DEF Outcome, Job

LEMMA TypeInit == Init => TypeOK
  BY BatchConstants DEF Init, TypeOK, PlannedJob, PlannedItem, Job, Item, Status, NoOptions,
     Options, Phases, Reports

LEMMA StepType ==
    ASSUME TypeOK, CursorOK, NEW p \in Procs, Step(p)
    PROVE  TypeOK' /\ CursorOK'
  <1> DEFINE i  == cursor[p]
             it == job[p].items[i]
  <1> USE BatchConstants DEF TypeOK, CursorOK, Phases, Reports, AtItem, Trying, Current,
      durable, local, provider, Goto, Return
  <1>t. Status = {"pending", "running", "succeeded", "failed", "uncertain"}
    BY DEF Status
  <1>i. job[p] \in Job /\ (i \in Items => it \in Item)
    BY DEF Job
  <1>f. Forget(p) => /\ job' \in [Procs -> Job]
                     /\ pc' \in [Procs -> Phases]
                     /\ opts' \in [Procs -> Options \cup {NoOptions}]
                     /\ cursor' \in [Procs -> Nat \ {0}]
                     /\ attempted' \in [Procs -> Nat]
                     /\ signalled' \in [Procs -> BOOLEAN]
                     /\ seen' \in [Procs -> BOOLEAN]
                     /\ \A q \in Procs : pc'[q] \in AtItem => pc[q] \in AtItem /\ cursor'[q] = cursor[q]
    BY DEF Forget, PlannedJob, PlannedItem, Job, Item, Status
  <1>s. ASSUME NEW j \in Job, Saved(j) \/ SaveFailed(j) \/ SaveFailedOrCancelled(p, j)
        PROVE  manifest' \in Job
    BY <1>s DEF Saved, SaveFailed, SaveFailedOrCancelled
  <1>r. \A j : SaveReport(j) \in Reports
    BY DEF SaveReport
  <1>1. CASE AcquireLock(p)
    BY <1>1 DEF AcquireLock
  <1>2. CASE LockRefused(p)
    BY <1>2, <1>f DEF LockRefused
  <1>3. CASE Load(p)
    BY <1>3 DEF Load
  <1>4. CASE ReconcileSettled(p)
    BY <1>4 DEF ReconcileSettled
  <1>5. CASE ReconcileInterrupted(p)
    <2> DEFINE j == ReconciledJob(job[p], i)
    <2>1. j \in Job
      BY <1>5, ReconciledType DEF ReconcileInterrupted
    <2>2. manifest' \in Job
      BY <1>5, <1>s, <2>1 DEF ReconcileInterrupted
    <2> HIDE DEF j
    <2> QED
      BY <1>5, <1>r, <2>1, <2>2 DEF ReconcileInterrupted, j
  <1>6. CASE ReconcileCancelled(p)
    BY <1>6 DEF ReconcileCancelled
  <1>7. CASE ReconcileDone(p)
    BY <1>7 DEF ReconcileDone
  <1>8. CASE Preflight(p)
    BY <1>8 DEF Preflight
  <1>9. CASE Skip(p)
    BY <1>9 DEF Skip
  <1>10. CASE Reach(p)
    BY <1>10 DEF Reach
  <1>11. CASE Finish(p)
    BY <1>11 DEF Finish
  <1>12. CASE Paced(p)
    BY <1>12 DEF Paced
  <1>13. CASE Recheck(p)
    BY <1>13 DEF Recheck
  <1>14. CASE SaveIntent(p)
    <2> DEFINE j == WithItem(job[p], i, Intended(Current(p)))
    <2>0. i \in Items
      BY <1>14 DEF SaveIntent
    <2>1. j \in Job
      BY <2>0, <1>i, WithItemType, IntendedType
    <2>2. manifest' \in Job
      BY <1>14, <1>s, <2>1 DEF SaveIntent
    <2> HIDE DEF j
    <2> QED
      BY <1>14, <1>r, <2>0, <2>1, <2>2 DEF SaveIntent, j
  <1>15. CASE ReadInputs(p)
    BY <1>15 DEF ReadInputs
  <1>16. CASE Dispatch(p)
    BY <1>16, <1>i DEF Dispatch, Item
  <1>17. ASSUME NEW a \in BOOLEAN, i \in Items, ExecuteFailed(p, a)
         PROVE  /\ job' \in [Procs -> Job]
                /\ pc' = [pc EXCEPT ![p] = "recording"]
    BY <1>17, <1>t, OutcomeType DEF ExecuteFailed, ErrorStatus
  <1>18. ASSUME NEW a \in BOOLEAN, DispatchRefused(p, a)
         PROVE  TypeOK' /\ CursorOK'
    <2>1. i \in Items /\ ExecuteFailed(p, a)
      BY <1>18 DEF DispatchRefused
    <2>2. job' \in [Procs -> Job] /\ pc' = [pc EXCEPT ![p] = "recording"]
      BY <1>17, <2>1
    <2> QED
      BY <1>18, <2>1, <2>2 DEF DispatchRefused
  <1>19. CASE CallAnswered(p)
    <2>1. Outcome(job[p], i, "running") \in Job
      BY <1>19, <1>t, <1>i, OutcomeType DEF CallAnswered
    <2> QED
      BY <1>19, <2>1 DEF CallAnswered
  <1>20. ASSUME NEW a \in BOOLEAN, CallFailed(p, a)
         PROVE  TypeOK' /\ CursorOK'
    <2>1. i \in Items
      BY <1>20 DEF CallFailed
    <2>2. job' \in [Procs -> Job] /\ pc' = [pc EXCEPT ![p] = "recording"]
      BY <1>20, <1>17, <2>1 DEF CallFailed
    <2>3. <<i, Current(p).attempts>> \in Items \X Nat
      BY <2>1, <1>i DEF Item
    <2> QED
      BY <1>20, <2>1, <2>2, <2>3 DEF CallFailed
  <1>21. CASE Commit(p)
    <2>1. i \in Items
      BY <1>21 DEF Commit
    <2>2. [Current(p) EXCEPT !.status = "succeeded", !.result = Current(p).request,
                             !.failure = FALSE] \in Item
      BY <2>1, <1>i, <1>t DEF Item
    <2>3. WithItem(job[p], i, [Current(p) EXCEPT !.status = "succeeded",
                                 !.result = Current(p).request, !.failure = FALSE]) \in Job
      BY <2>1, <2>2, <1>i, WithItemType
    <2>4. results' \in [Items -> Nat]
      BY <1>21, <2>1, <1>i DEF Commit, Item
    <2> QED
      BY <1>21, <2>1, <2>3, <2>4 DEF Commit
  <1>22. CASE CommitFailed(p)
    <2>1. i \in Items
      BY <1>22 DEF CommitFailed
    <2>2. Unconfirmed(Current(p)) \in Item
      BY <2>1, <1>i, <1>t DEF Item, Unconfirmed
    <2>3. WithItem(job[p], i, Unconfirmed(Current(p))) \in Job
      BY <2>1, <2>2, <1>i, WithItemType
    <2>4. results' \in [Items -> Nat]
      BY <1>22, <2>1, <1>i DEF CommitFailed, Item
    <2> QED
      BY <1>22, <2>1, <2>3, <2>4 DEF CommitFailed
  <1>23. CASE Record(p)
    BY <1>23, <1>s, <1>i DEF Record
  <1>24. CASE RecordFailed(p)
    <2>1. i \in Items
      BY <1>24 DEF RecordFailed
    <2>2. [Current(p) EXCEPT !.status = "running", !.result = 0] \in Item
      BY <2>1, <1>i, <1>t DEF Item
    <2>3. WithItem(job[p], i, [Current(p) EXCEPT !.status = "running", !.result = 0]) \in Job
      BY <2>1, <2>2, <1>i, WithItemType
    <2>4. manifest' \in Job
      BY <1>24, <1>s, <1>i DEF RecordFailed
    <2> QED
      BY <1>24, <1>r, <2>1, <2>3, <2>4 DEF RecordFailed
  <1>25. CASE Unlock(p)
    BY <1>25, <1>f DEF Unlock
  <1> QED
    BY <1>1, <1>2, <1>3, <1>4, <1>5, <1>6, <1>7, <1>8, <1>9, <1>10, <1>11, <1>12, <1>13,
       <1>14, <1>15, <1>16, <1>18, <1>19, <1>20, <1>21, <1>22, <1>23, <1>24, <1>25
    DEF Step

LEMMA TypeNext == TypeOK /\ CursorOK /\ [Next]_vars => TypeOK' /\ CursorOK'
  <1> SUFFICES ASSUME TypeOK, CursorOK, [Next]_vars PROVE TypeOK' /\ CursorOK'
    OBVIOUS
  <1> USE BatchConstants DEF TypeOK, CursorOK, Phases, Reports, AtItem, Trying,
      durable, local, provider, Goto
  <1>1. ASSUME NEW p \in Procs, Start(p) PROVE TypeOK' /\ CursorOK'
    BY <1>1 DEF Start
  <1>2. ASSUME NEW p \in Procs, Step(p) PROVE TypeOK' /\ CursorOK'
    BY <1>2, StepType
  <1>3. ASSUME NEW p \in Procs, Signal(p) PROVE TypeOK' /\ CursorOK'
    BY <1>3 DEF Signal
  <1>4. ASSUME NEW p \in Procs, Crash(p) PROVE TypeOK' /\ CursorOK'
    <2>1. PlannedJob \in Job
      BY DEF PlannedJob, PlannedItem, Job, Item, Status
    <2> QED
      BY <1>4, <2>1 DEF Crash, Forget
  <1>5. ASSUME NEW s \in Editable, Edit(s) PROVE TypeOK' /\ CursorOK'
    BY <1>5 DEF Edit
  <1>6. CASE Tick
    <2>1. \A n \in 0..Spacing : Less(n) \in 0..Spacing
      BY DEF Less
    <2>2. \A j \in Job : [j EXCEPT !.next = Less(@)] \in Job
      BY <2>1 DEF Job
    <2> QED
      BY <1>6, <2>1, <2>2 DEF Tick
  <1>7. CASE UNCHANGED vars
    BY <1>7 DEF vars
  <1> QED
    BY <1>1, <1>2, <1>3, <1>4, <1>5, <1>6, <1>7 DEF Next

\* Every reachable state is well typed.
THEOREM TypeCorrect == Spec => []TypeOK
  <1>1. Init => TypeOK /\ CursorOK
    BY TypeInit DEF Init, CursorOK, AtItem, Trying
  <1>2. TypeOK /\ CursorOK /\ [Next]_vars => TypeOK' /\ CursorOK'
    BY TypeNext
  <1> QED
    BY <1>1, <1>2, PTL DEF Spec

-----------------------------------------------------------------------------
(* What the pieces of Run preserve.                                        *)

LEMMA IntendedValid ==
    ASSUME NEW it \in Item
    PROVE  ValidItem(Intended(it))
  BY DEF Intended, ValidItem, Item

\* Reconciliation adopts the right result, or marks the item uncertain.
LEMMA ReconciledValid ==
    ASSUME NEW i \in Items, NEW it \in Item, ValidItem(it), results[i] \in Nat,
           it.status \in {"running", "uncertain"},
           results[i] # 0 => results[i] = it.attempts
    PROVE  /\ ValidItem(Reconciled(it, i))
           /\ Reconciled(it, i).attempts = it.attempts
           /\ Reconciled(it, i).request = it.request
           /\ Reconciled(it, i).status \in {"succeeded", "uncertain"}
           /\ Reconciled(it, i).status = "succeeded" <=> results[i] # 0
           /\ Reconciled(it, i).status = "succeeded" => Reconciled(it, i).result = results[i]
  BY DEF Reconciled, Found, ValidItem, Item

LEMMA WithItemItems ==
    ASSUME NEW j \in Job, NEW i \in Items, NEW it
    PROVE  /\ WithItem(j, i, it).items = [j.items EXCEPT ![i] = it]
           /\ WithItem(j, i, it).next = j.next
  BY DEF WithItem, Job

\* A step of the lock holder p leaves every other process where it was, idle
\* or before the lock: only p's own part of the invariant is at stake.
LEMMA HolderStep ==
    ASSUME IInv, TypeOK', CursorOK', NEW p \in Procs, NEW ph,
           pc[p] \notin {"idle", "locking"}, ph \notin {"idle", "locking"},
           pc' = [pc EXCEPT ![p] = ph], lock' = lock,
           \A q \in Procs \ {p} : job'[q] = job[q] /\ cursor'[q] = cursor[q]
                                  /\ report'[q] = report[q],
           ValidJob(manifest)', ValidJob(job'[p]), ResultsAgree', WriteAhead',
           report'[p] # "corrupt",
           \A i \in Items : manifest.items[i].status = "succeeded" =>
                                manifest'.items[i].status = "succeeded",
           report'[p] = "complete" =>
               \/ report[p] = "complete"
               \/ \A i \in Items : manifest'.items[i].status = "succeeded",
           PhaseInv(p)'
    PROVE  IInv'
  <1> USE DEF IInv
  <1>1. lock = p
    BY DEF HolderLocked
  <1>2. \A q \in Procs \ {p} : pc[q] \in {"idle", "locking"} /\ pc'[q] = pc[q]
    BY <1>1 DEF HolderLocked, TypeOK
  <1>3. HolderLocked'
    BY <1>1, <1>2 DEF HolderLocked, TypeOK
  <1>4. CopiesValid'
    BY DEF CopiesValid, ValidJob
  <1>5. NeverCorrupt'
    BY DEF NeverCorrupt
  <1>6. CompleteIsTrue'
    BY DEF CompleteIsTrue, ResultsAgree
  <1>7. ASSUME NEW q \in Procs \ {p}
        PROVE  PhaseInv(q)'
    <2>1. pc'[q] \in {"idle", "locking"}
      BY <1>2
    <2>2. cursor'[q] = 1
      BY <1>2 DEF PhaseInv
    <2>3. pc'[q] \notin Choosing \cup Trying \cup {"reconciling", "recording"}
      BY <2>1 DEF Choosing, Trying
    <2> QED
      BY <2>2, <2>3 DEF PhaseInv, Reconciling, Chooses, Chosen, Tries, Records, Fresh, Choosing, Trying
  <1> QED
    BY <1>3, <1>4, <1>5, <1>6, <1>7

\* The same when the files are untouched.
LEMMA LocalStep ==
    ASSUME IInv, TypeOK', CursorOK', NEW p \in Procs, NEW ph,
           pc[p] \notin {"idle", "locking"}, ph \notin {"idle", "locking"},
           pc' = [pc EXCEPT ![p] = ph], lock' = lock,
           manifest' = manifest, results' = results, called' = called,
           \A q \in Procs \ {p} : job'[q] = job[q] /\ cursor'[q] = cursor[q]
                                  /\ report'[q] = report[q],
           ValidJob(job'[p]), report'[p] # "corrupt",
           report'[p] = "complete" =>
               \/ report[p] = "complete"
               \/ \A i \in Items : manifest.items[i].status = "succeeded",
           PhaseInv(p)'
    PROVE  IInv'
  <1>1. ValidJob(manifest)' /\ ResultsAgree' /\ WriteAhead'
    BY DEF IInv, CopiesValid, ValidJob, ResultsAgree, WriteAhead
  <1> QED
    BY <1>1, HolderStep

\* Returning from Run with any report that is neither corrupt nor a false
\* claim of completeness.
LEMMA ReturnStep ==
    ASSUME IInv, TypeOK', CursorOK', NEW p \in Procs, NEW r,
           pc[p] \notin {"idle", "locking"}, Return(p, r), r # "corrupt",
           lock' = lock,
           \A q \in Procs \ {p} : job'[q] = job[q] /\ cursor'[q] = cursor[q],
           ValidJob(manifest)', ValidJob(job'[p]), ResultsAgree', WriteAhead',
           \A i \in Items : manifest.items[i].status = "succeeded" =>
                                manifest'.items[i].status = "succeeded",
           r = "complete" => \A i \in Items : manifest'.items[i].status = "succeeded"
    PROVE  IInv'
  <1>1. PhaseInv(p)'
    BY DEF Return, Goto, PhaseInv, Reconciling, Chooses, Chosen, Tries, Records, Fresh, Choosing,
       Trying, IInv, TypeOK
  <1>2. /\ pc' = [pc EXCEPT ![p] = "unlocking"]
        /\ report'[p] = r
        /\ \A q \in Procs \ {p} : report'[q] = report[q]
    BY DEF Return, Goto, IInv, TypeOK
  <1> QED
    BY <1>1, <1>2, HolderStep

LEMMA LocalReturn ==
    ASSUME IInv, TypeOK', CursorOK', NEW p \in Procs, NEW r,
           pc[p] \notin {"idle", "locking"}, Return(p, r), r # "corrupt",
           lock' = lock, manifest' = manifest, results' = results, called' = called,
           \A q \in Procs \ {p} : job'[q] = job[q] /\ cursor'[q] = cursor[q],
           ValidJob(job'[p]),
           r = "complete" => \A i \in Items : manifest.items[i].status = "succeeded"
    PROVE  IInv'
  <1>1. ValidJob(manifest)' /\ ResultsAgree' /\ WriteAhead'
    BY DEF IInv, CopiesValid, ValidJob, ResultsAgree, WriteAhead
  <1> QED
    BY <1>1, ReturnStep

-----------------------------------------------------------------------------
(* The invariant is preserved: steps that touch no file.                   *)

LEMMA LoadStep ==
    ASSUME IInv, TypeOK', CursorOK', NEW p \in Procs, Load(p)
    PROVE  IInv'
  <1> USE DEF Load, Goto, Return, durable, provider
  <1>1. cursor[p] = 1 /\ cursor' = cursor
    BY DEF IInv, PhaseInv
  <1>2. CASE /\ ValidJob(manifest)
             /\ job' = [job EXCEPT ![p] = manifest]
             /\ pc' = [pc EXCEPT ![p] = "reconciling"]
             /\ UNCHANGED report
    <2>1. PhaseInv(p)'
      BY <1>1, <1>2 DEF PhaseInv, Reconciling, Chooses, Chosen, Tries, Records, Fresh, Choosing, Trying,
         IInv, TypeOK, Items
    <2>2. ValidJob(job'[p])
      BY <1>2 DEF IInv, TypeOK
    <2>3. report'[p] # "corrupt"
      BY <1>2 DEF IInv, NeverCorrupt
    <2> QED
      BY <1>2, <2>1, <2>2, <2>3, LocalStep DEF IInv, TypeOK
  <1>3. CASE /\ signalled[p] \/ ~ValidJob(manifest)
             /\ Return(p, IF signalled[p] THEN "error" ELSE "corrupt")
             /\ UNCHANGED job
    <2>1. signalled[p] /\ ValidJob(job'[p])
      BY <1>3 DEF IInv, CopiesValid
    <2> QED
      BY <1>3, <2>1, LocalReturn
  <1> QED
    BY <1>2, <1>3

\* What VerifyResult says of an item of an agreeing copy.
LEMMA Verifies ==
    ASSUME IInv, NEW i \in Items, NEW it, it = manifest.items[i]
    PROVE  /\ ~Unverifiable(it, i)
           /\ SettledOK(it, i) <=> (it.status = "succeeded" <=> Found(i))
           /\ it.status \in {"pending", "failed"} => ~Found(i)
           /\ it.status = "succeeded" => Found(i)
  BY DEF IInv, ResultsAgree, CopiesValid, ValidJob, ValidItem, Unverifiable, SettledOK, Found,
     TypeOK, Job, Item

LEMMA ReconcileSettledStep ==
    ASSUME IInv, TypeOK', CursorOK', NEW p \in Procs, ReconcileSettled(p)
    PROVE  IInv'
  <1> DEFINE i == cursor[p]
             it == job[p].items[i]
  <1> USE DEF ReconcileSettled, Goto, durable, provider
  <1>1. i \in Items /\ it = manifest.items[i]
    BY DEF IInv, PhaseInv, Reconciling
  <1>2. SettledOK(it, i) /\ Settled(i)
    BY <1>1, Verifies DEF Settled, Found, IInv, ResultsAgree
  <1>3. cursor' = [cursor EXCEPT ![p] = i + 1] /\ UNCHANGED <<pc, report>>
    BY <1>2
  <1>4. Reconciling(p)'
    <2>1. cursor'[p] = i + 1 /\ job' = job /\ manifest' = manifest /\ results' = results
      BY <1>3 DEF IInv, TypeOK
    <2>2. \A k \in Items : k < i + 1 => k < i \/ k = i
      BY <1>1 DEF Items
    <2>3. job[p].items = manifest.items /\ \A k \in Items : k < i => Settled(k)
      BY DEF IInv, PhaseInv, Reconciling
    <2> QED
      BY <1>2, <2>1, <2>2, <2>3 DEF Reconciling, Settled
  <1>5. PhaseInv(p)'
    BY <1>3, <1>4 DEF PhaseInv, Chooses, Chosen, Tries, Records, Fresh, Choosing, Trying
  <1>6. pc' = [pc EXCEPT ![p] = "reconciling"] /\ ValidJob(job'[p]) /\ report'[p] # "corrupt"
    BY <1>3 DEF IInv, TypeOK, CopiesValid, NeverCorrupt
  <1> QED
    BY <1>3, <1>5, <1>6, LocalStep DEF IInv, TypeOK

LEMMA ReconcileCancelledStep ==
    ASSUME IInv, TypeOK', CursorOK', NEW p \in Procs, ReconcileCancelled(p)
    PROVE  IInv'
  <1>1. ValidJob(job'[p])
    BY DEF ReconcileCancelled, local, IInv, CopiesValid
  <1> QED
    BY <1>1, LocalReturn DEF ReconcileCancelled, durable, local, provider

LEMMA ReconcileDoneStep ==
    ASSUME IInv, TypeOK', CursorOK', NEW p \in Procs, ReconcileDone(p)
    PROVE  IInv'
  <1> USE DEF ReconcileDone, Goto, durable, provider
  <1>1. \A i \in Items : Settled(i) /\ i < cursor[p]
    BY BatchConstants DEF IInv, PhaseInv, Reconciling, TypeOK, Items
  <1>2. PhaseInv(p)'
    BY <1>1 DEF PhaseInv, Reconciling, Chooses, Chosen, Tries, Records, Fresh, Choosing, Trying,
       Settled, IInv, TypeOK
  <1>3. ValidJob(job'[p]) /\ report'[p] # "corrupt"
    BY DEF IInv, CopiesValid, NeverCorrupt
  <1> QED
    BY <1>2, <1>3, LocalStep DEF IInv, TypeOK

\* A step from one choosing phase to another, or back to scanning.
LEMMA ChoosingStep ==
    ASSUME IInv, TypeOK', CursorOK', NEW p \in Procs, NEW ph \in Choosing,
           pc[p] \in Choosing, pc' = [pc EXCEPT ![p] = ph],
           UNCHANGED <<durable, lock, job, called, report>>,
           \A q \in Procs \ {p} : cursor'[q] = cursor[q],
           ph \in {"pacing", "rechecking", "intending"} => Eligible(Current(p)', opts'[p])
    PROVE  IInv'
  <1> USE DEF durable
  <1>1. PhaseInv(p)'
    BY DEF PhaseInv, Reconciling, Chooses, Chosen, Tries, Records, Fresh, Choosing, Trying, Settled,
       IInv, TypeOK
  <1>2. ValidJob(job'[p]) /\ report'[p] # "corrupt"
    BY DEF IInv, CopiesValid, NeverCorrupt
  <1>3. pc[p] \notin {"idle", "locking"} /\ ph \notin {"idle", "locking"}
    BY DEF Choosing
  <1> QED
    BY <1>1, <1>2, <1>3, LocalStep

\* The loop's steps before an attempt: go on choosing or return.
LEMMA ChooseSteps ==
    ASSUME IInv, TypeOK', CursorOK', NEW p \in Procs,
           \/ Preflight(p) \/ Skip(p) \/ Reach(p) \/ Finish(p) \/ Paced(p) \/ Recheck(p)
    PROVE  IInv'
  <1> USE DEF durable, local, provider, Goto
  <1>0. ValidJob(job[p]) /\ ValidJob(job'[p])
    BY DEF IInv, CopiesValid, Preflight, Skip, Reach, Finish, Paced, Recheck
  <1>c. /\ Current(p)' = Current(p) \/ cursor' # cursor
        /\ opts' = opts
        /\ pc[p] \in {"pacing", "rechecking", "intending"} => Eligible(Current(p), opts[p])
    BY DEF Preflight, Skip, Reach, Finish, Paced, Recheck, Current, IInv, PhaseInv, Chosen
  <1>1. CASE Preflight(p)
    BY <1>0, <1>1, LocalReturn, ChoosingStep DEF Preflight, Choosing
  <1>2. CASE Skip(p)
    BY <1>2, ChoosingStep DEF Skip, Choosing, IInv, TypeOK
  <1>3. CASE Reach(p)
    BY <1>0, <1>c, <1>3, LocalReturn, ChoosingStep DEF Reach, Choosing
  <1>4. CASE Finish(p)
    <2>1. Complete(job[p]) => \A i \in Items : manifest.items[i].status = "succeeded"
      BY <1>4 DEF Finish, Complete, IInv, PhaseInv, Chooses, Choosing
    <2> QED
      BY <1>0, <1>4, <2>1, LocalReturn DEF Finish
  <1>5. CASE Paced(p)
    BY <1>0, <1>c, <1>5, LocalReturn, ChoosingStep DEF Paced, Choosing
  <1>6. CASE Recheck(p)
    <2>1. cursor[p] \in Items /\ Eligible(Current(p), opts[p])
      BY <1>c, <1>6 DEF IInv, CursorOK, AtItem, Recheck
    <2>2. /\ Current(p) = manifest.items[cursor[p]]
          /\ Settled(cursor[p])
      BY <1>6, <2>1 DEF Recheck, Current, IInv, PhaseInv, Chooses, Choosing
    <2>3. ~Unverifiable(Current(p), cursor[p]) /\ ~Found(cursor[p])
      BY <2>1, <2>2, Verifies DEF Settled, Found, Eligible
    <2> QED
      BY <1>0, <1>c, <1>6, <2>3, LocalReturn, ChoosingStep DEF Recheck, Choosing
  <1> QED
    BY <1>1, <1>2, <1>3, <1>4, <1>5, <1>6

-----------------------------------------------------------------------------
(* The invariant is preserved: steps that write the manifest.              *)

\* Storing a new state of item i that keeps its attempts, or adds one.
LEMMA StoreItem ==
    ASSUME IInv, TypeOK', NEW i \in Items, NEW new \in Item,
           manifest'.items = [manifest.items EXCEPT ![i] = new],
           results' = results, called' = called,
           ValidItem(new), new.attempts >= manifest.items[i].attempts,
           results[i] # 0 => /\ new.attempts = results[i]
                             /\ new.status \in {"running", "uncertain", "succeeded"},
           new.status = "succeeded" => results[i] # 0 /\ new.result = results[i]
    PROVE  ValidJob(manifest)' /\ ResultsAgree' /\ WriteAhead'
  <1>1. manifest.items \in [Items -> Item]
    BY DEF IInv, TypeOK, Job
  <1>2. /\ manifest'.items[i] = new
        /\ \A k \in Items \ {i} : manifest'.items[k] = manifest.items[k]
    BY <1>1
  <1>3. ValidJob(manifest)'
    BY <1>2 DEF IInv, CopiesValid, ValidJob, ValidItem
  <1>4. ResultsAgree'
    BY <1>2 DEF IInv, ResultsAgree
  <1>5. WriteAhead'
    <2> SUFFICES ASSUME NEW c \in called
                 PROVE  1 <= c[2] /\ c[2] <= manifest'.items[c[1]].attempts
      BY DEF WriteAhead
    <2>1. c[1] \in Items /\ c[2] \in Nat /\ 1 <= c[2] /\ c[2] <= manifest.items[c[1]].attempts
      BY DEF IInv, WriteAhead, TypeOK
    <2>2. manifest.items[c[1]].attempts \in Nat /\ new.attempts \in Nat
      BY <1>1, <2>1 DEF Item
    <2> QED
      BY <1>2, <2>1, <2>2
  <1> QED
    BY <1>3, <1>4, <1>5

\* A Save that reports an error stored the new manifest or left the old one.
LEMMA SaveFailedValid ==
    ASSUME NEW j, ValidJob(manifest), ValidJob(j), NEW p \in Procs,
           SaveFailed(j) \/ SaveFailedOrCancelled(p, j)
    PROVE  manifest' \in {manifest, j} /\ SaveReport(j) = "error"
  BY DEF SaveFailed, SaveFailedOrCancelled, SaveReport

LEMMA ReconcileInterruptedStep ==
    ASSUME IInv, TypeOK', CursorOK', NEW p \in Procs, ReconcileInterrupted(p)
    PROVE  IInv'
  <1> DEFINE i   == cursor[p]
             it  == job[p].items[i]
             new == Reconciled(it, i)
             j   == ReconciledJob(job[p], i)
  <1> USE DEF ReconcileInterrupted, Goto, provider
  <1>1. /\ i \in Items
        /\ job[p] \in Job
        /\ job[p].items = manifest.items
        /\ it \in Item
        /\ ValidItem(it)
        /\ results[i] \in Nat
    BY DEF IInv, PhaseInv, Reconciling, TypeOK, CopiesValid, ValidJob, Job
  <1>2. it.status \in {"running", "uncertain"} /\ (results[i] # 0 => results[i] = it.attempts)
    BY <1>1 DEF IInv, ResultsAgree
  <1>3. /\ ValidItem(new)
        /\ new.attempts = it.attempts
        /\ new.status \in {"succeeded", "uncertain"}
        /\ new.status = "succeeded" <=> results[i] # 0
        /\ new.status = "succeeded" => new.result = results[i]
    BY <1>1, <1>2, ReconciledValid
  <1>4. j \in Job /\ j.items = [manifest.items EXCEPT ![i] = new]
    BY <1>1, ReconciledType DEF ReconciledJob, IInv, TypeOK
  <1>5. ValidJob(j)
    BY <1>1, <1>3, <1>4 DEF IInv, CopiesValid, ValidJob, TypeOK, Job
  <1>6. new \in Item
    BY <1>4, <1>1 DEF Job
  <1> HIDE DEF j, new
  <1>7. /\ ~Unverifiable(it, i)
        /\ job' = [job EXCEPT ![p] = j]
        /\ manifest' \in {manifest, j}
        /\ results' = results /\ called' = called /\ lock' = lock
    <2>1. ValidJob(manifest)
      BY DEF IInv, CopiesValid
    <2>2. ~Unverifiable(it, i)
      BY <1>1, Verifies
    <2>3. /\ job' = [job EXCEPT ![p] = j]
          /\ Saved(j) \/ SaveFailed(j)
          /\ results' = results /\ called' = called /\ lock' = lock
      BY <2>2 DEF j
    <2>4. manifest' \in {manifest, j}
      BY <1>5, <2>1, <2>3, SaveFailedValid DEF Saved
    <2> QED
      BY <2>2, <2>3, <2>4
  <1>8. ValidJob(manifest)' /\ ResultsAgree' /\ WriteAhead'
    <2>1. CASE manifest' = manifest
      BY <1>7, <2>1 DEF IInv, CopiesValid, ValidJob, ResultsAgree, WriteAhead
    <2>2. CASE manifest' = j
      <3>1. it.attempts \in Nat
        BY <1>1 DEF Item
      <3> QED
        BY <1>1, <1>2, <1>3, <1>4, <1>6, <1>7, <2>2, <3>1, StoreItem
    <2> QED
      BY <1>7, <2>1, <2>2
  <1>9. \A k \in Items : manifest.items[k].status = "succeeded" =>
                            manifest'.items[k].status = "succeeded"
    <2>1. manifest.items \in [Items -> Item] /\ manifest.items[i].status # "succeeded"
      BY <1>1, <1>2 DEF IInv, TypeOK, Job
    <2>2. \A k \in Items \ {i} : manifest'.items[k] = manifest.items[k]
      BY <1>4, <1>7, <2>1
    <2> QED
      BY <2>1, <2>2
  <1>10. ValidJob(job'[p]) /\ \A q \in Procs \ {p} : job'[q] = job[q]
    BY <1>5, <1>7 DEF IInv, TypeOK
  <1>11. CASE /\ manifest' = j
              /\ cursor' = [cursor EXCEPT ![p] = i + 1]
              /\ UNCHANGED <<pc, report>>
    <2>1. cursor'[p] = i + 1 /\ job'[p] = j
      BY <1>7, <1>11 DEF IInv, TypeOK
    <2>2. ASSUME NEW k \in Items, k < i + 1
          PROVE  Settled(k)'
      <3>1. CASE k = i
        BY <1>1, <1>3, <1>4, <1>7, <1>11, <3>1 DEF Settled, IInv, TypeOK, Job
      <3>2. CASE k # i
        <4>1. k < i
          BY <1>1, <2>2, <3>2 DEF Items
        <4>2. Settled(k)
          BY <4>1 DEF IInv, PhaseInv, Reconciling
        <4> QED
          BY <1>1, <1>4, <1>7, <1>11, <3>2, <4>2 DEF Settled, IInv, TypeOK, Job
      <3> QED
        BY <3>1, <3>2
    <2>3. Reconciling(p)'
      BY <1>11, <2>1, <2>2 DEF Reconciling
    <2>4. PhaseInv(p)'
      BY <1>11, <2>3 DEF PhaseInv, Chooses, Chosen, Tries, Records, Fresh, Choosing, Trying
    <2>5. report'[p] # "corrupt" /\ pc' = [pc EXCEPT ![p] = "reconciling"]
      BY <1>11 DEF IInv, NeverCorrupt, TypeOK
    <2>6. \A q \in Procs \ {p} : cursor'[q] = cursor[q] /\ report'[q] = report[q]
      BY <1>11 DEF IInv, TypeOK
    <2>7. report'[p] = "complete" => report[p] = "complete"
      BY <1>11
    <2> QED
      BY <1>7, <1>8, <1>9, <1>10, <2>4, <2>5, <2>6, <2>7, HolderStep
  <1>12. CASE Return(p, "error") /\ UNCHANGED cursor
    BY <1>7, <1>8, <1>9, <1>10, <1>12, ReturnStep
  <1> QED
    BY <1>1, <1>5, <1>7, <1>11, <1>12, SaveFailedValid DEF Saved, j, IInv, CopiesValid

\* In the phases after the pacing wait the current item is not a success.
LEMMA ChosenFacts ==
    ASSUME IInv, NEW p \in Procs, pc[p] = "intending"
    PROVE  /\ cursor[p] \in Items
           /\ job[p] \in Job
           /\ job[p].items = manifest.items
           /\ manifest.items \in [Items -> Item]
           /\ \A k \in Items : Settled(k)
           /\ manifest.items[cursor[p]].status # "succeeded"
           /\ results[cursor[p]] = 0
  <1>1. cursor[p] \in Items /\ job[p].items = manifest.items /\ \A k \in Items : Settled(k)
    BY DEF IInv, CursorOK, AtItem, PhaseInv, Chooses, Choosing
  <1>2. Eligible(Current(p), opts[p])
    BY DEF IInv, PhaseInv, Chosen
  <1> QED
    BY <1>1, <1>2 DEF Eligible, Current, Settled, IInv, TypeOK, Job

LEMMA SaveIntentStep ==
    ASSUME IInv, TypeOK', CursorOK', NEW p \in Procs, SaveIntent(p)
    PROVE  IInv'
  <1> DEFINE i   == cursor[p]
             it  == manifest.items[i]
             new == Intended(it)
             j   == WithItem(job[p], i, new)
  <1> USE DEF SaveIntent, Goto, provider
  <1>1. /\ i \in Items /\ job[p] \in Job /\ job[p].items = manifest.items
        /\ manifest.items \in [Items -> Item]
        /\ \A k \in Items : Settled(k)
        /\ it.status # "succeeded" /\ results[i] = 0
    BY ChosenFacts
  <1>2. /\ new \in Item /\ ValidItem(new) /\ new.status = "running"
        /\ new.attempts = it.attempts + 1 /\ it.attempts \in Nat
    <2>1. it \in Item
      BY <1>1
    <2>2. new.status = "running" /\ new.attempts = it.attempts + 1 /\ it.attempts \in Nat
      BY <2>1 DEF Intended, Item
    <2>3. new \in Item /\ ValidItem(new)
      BY <2>1, IntendedType, IntendedValid, Zenon
    <2> QED
      BY <2>2, <2>3
  <1>3. j.items = [manifest.items EXCEPT ![i] = new] /\ j \in Job
    <2> HIDE DEF new
    <2>1. i \in Items /\ job[p] \in Job /\ new \in Item
      BY <1>1, <1>2, Zenon
    <2>2. j \in Job
      BY <2>1, WithItemType, Zenon
    <2>3. j.items = [job[p].items EXCEPT ![i] = new]
      BY <2>1, WithItemItems
    <2> QED
      BY <1>1, <2>2, <2>3
  <1>4. ValidJob(j) /\ ValidJob(manifest)
    <2>1. ValidJob(manifest)
      BY DEF IInv, CopiesValid
    <2> HIDE DEF new, j
    <2> QED
      BY <1>1, <1>2, <1>3, <2>1 DEF ValidJob
  <1>5. Current(p) = it
    BY <1>1 DEF Current
  <1> HIDE DEF j, new
  <1>6. /\ job' = [job EXCEPT ![p] = j]
        /\ \/ /\ Saved(j) /\ Goto(p, "dispatching") /\ UNCHANGED report
           \/ /\ SaveFailedOrCancelled(p, j) /\ Return(p, SaveReport(j))
        /\ UNCHANGED <<results, cursor, lock, called, opts>>
    BY <1>5 DEF j, new
  <1>7. manifest' \in {manifest, j}
    BY <1>4, <1>6, SaveFailedValid DEF Saved
  <1>8. ValidJob(manifest)' /\ ResultsAgree' /\ WriteAhead'
    <2>1. CASE manifest' = manifest
      BY <1>6, <2>1 DEF IInv, CopiesValid, ValidJob, ResultsAgree, WriteAhead
    <2>2. CASE manifest' = j
      BY <1>1, <1>2, <1>3, <1>6, <2>2, StoreItem
    <2> QED
      BY <1>7, <2>1, <2>2
  <1>9. \A k \in Items : manifest.items[k].status = "succeeded" =>
                            manifest'.items[k].status = "succeeded"
    BY <1>1, <1>3, <1>7
  <1>10. ValidJob(job'[p]) /\ \A q \in Procs \ {p} : job'[q] = job[q]
    BY <1>4, <1>6 DEF IInv, TypeOK
  <1>11. CASE manifest' = j /\ pc' = [pc EXCEPT ![p] = "dispatching"] /\ UNCHANGED report
    <2>1. job'[p] = j /\ pc'[p] = "dispatching" /\ cursor'[p] = i
      BY <1>6, <1>11 DEF IInv, TypeOK
    <2>2. OthersSettled(p)'
      BY <1>1, <1>3, <1>6, <1>11, <2>1 DEF OthersSettled, Settled
    <2>3. Tries(p)'
      BY <1>1, <1>2, <1>3, <1>6, <1>11, <2>1, <2>2 DEF Tries
    <2>4. Fresh(p)'
      <3> SUFFICES ASSUME NEW c \in called, c[1] = i
                   PROVE  c[2] < manifest'.items[i].attempts
        BY <1>6, <2>1 DEF Fresh
      <3>1. c[2] \in Nat /\ c[2] <= it.attempts
        BY DEF IInv, WriteAhead, TypeOK
      <3> QED
        BY <1>1, <1>2, <1>3, <1>11, <3>1
    <2>5. PhaseInv(p)'
      BY <2>1, <2>3, <2>4 DEF PhaseInv, Reconciling, Chooses, Chosen, Records, Choosing
    <2>6. report'[p] # "corrupt"
      BY <1>11 DEF IInv, NeverCorrupt
    <2> QED
      BY <1>6, <1>8, <1>9, <1>10, <1>11, <2>5, <2>6, HolderStep
  <1>12. CASE Return(p, "error")
    BY <1>6, <1>8, <1>9, <1>10, <1>12, ReturnStep
  <1> QED
    BY <1>4, <1>6, <1>11, <1>12, SaveFailedValid DEF Saved

-----------------------------------------------------------------------------
(* The invariant is preserved: the attempt.                                *)

LEMMA TryingFacts ==
    ASSUME IInv, NEW p \in Procs, pc[p] \in Trying
    PROVE  /\ cursor[p] \in Items
           /\ job[p] \in Job
           /\ job[p].items = manifest.items
           /\ manifest.items \in [Items -> Item]
           /\ Current(p) = manifest.items[cursor[p]]
           /\ OthersSettled(p)
           /\ Current(p).status = "running" /\ ValidItem(Current(p))
           /\ results[cursor[p]] = 0
  <1>1. cursor[p] \in Items /\ job[p].items = manifest.items
    BY DEF IInv, CursorOK, AtItem, PhaseInv, Tries
  <1> QED
    BY <1>1 DEF Current, IInv, TypeOK, Job, PhaseInv, Tries, CopiesValid, ValidJob

\* The copy of a running item after an outcome without a result.
LEMMA OutcomeStep ==
    ASSUME IInv, TypeOK', CursorOK', NEW p \in Procs, pc[p] \in Trying,
           NEW new \in Item, NEW j \in Job, ValidItem(new),
           new.attempts = Current(p).attempts, new.request = Current(p).request,
           new.status \in {"succeeded", "failed", "uncertain"},
           j.items = [job[p].items EXCEPT ![cursor[p]] = new],
           job' = [job EXCEPT ![p] = j],
           pc' = [pc EXCEPT ![p] = "recording"],
           UNCHANGED <<manifest, lock, cursor, report, called>>,
           results' = [results EXCEPT ![cursor[p]] = results'[cursor[p]]],
           results'[cursor[p]] \in {0, new.request},
           new.status = "succeeded" => results'[cursor[p]] = new.request,
           new.status = "failed" => results'[cursor[p]] = 0
    PROVE  IInv'
  <1> DEFINE i == cursor[p]
  <1>1. /\ i \in Items /\ job[p].items = manifest.items /\ manifest.items \in [Items -> Item]
        /\ Current(p) = manifest.items[i] /\ OthersSettled(p)
        /\ Current(p).status = "running" /\ ValidItem(Current(p))
    BY TryingFacts
  <1>2. job'[p] = j /\ \A q \in Procs \ {p} : job'[q] = job[q]
    BY DEF IInv, TypeOK
  <1>3. ValidJob(j)
    BY <1>1 DEF IInv, CopiesValid, ValidJob
  <1>4. \A k \in Items \ {i} : results'[k] = results[k]
    BY DEF IInv, TypeOK
  <1>5. new.request = manifest.items[i].attempts
    BY <1>1 DEF ValidItem
  <1>6. ResultsAgree'
    BY <1>1, <1>4, <1>5 DEF IInv, ResultsAgree
  <1>7. ValidJob(manifest)' /\ WriteAhead'
    BY DEF IInv, CopiesValid, ValidJob, WriteAhead
  <1>8. j.items[i] = new /\ cursor'[p] = i
    BY <1>1
  <1>9. OthersSettled(p)'
    BY <1>1, <1>4 DEF OthersSettled, Settled
  <1>10. Records(p)'
    BY <1>1, <1>2, <1>8, <1>9 DEF Records
  <1>11. pc'[p] = "recording"
    BY DEF IInv, TypeOK
  <1>12. PhaseInv(p)'
    BY <1>10, <1>11 DEF PhaseInv, Reconciling, Chooses, Chosen, Tries, Fresh, Choosing, Trying
  <1>13. report'[p] # "corrupt"
    BY DEF IInv, NeverCorrupt
  <1>14. pc[p] \notin {"idle", "locking"}
    BY DEF Trying
  <1> QED
    BY <1>2, <1>3, <1>6, <1>7, <1>12, <1>13, <1>14, HolderStep

\* A step from one trying phase to the next, perhaps beginning the call.
LEMMA TryingStep ==
    ASSUME IInv, TypeOK', CursorOK', NEW p \in Procs, NEW ph \in Trying,
           pc[p] \in Trying, pc' = [pc EXCEPT ![p] = ph],
           UNCHANGED <<manifest, results, lock, cursor, report>>,
           \A q \in Procs \ {p} : job'[q] = job[q],
           job'[p].items = job[p].items,
           \/ called' = called
           \/ called' = called \cup {Attempt(p)},
           ph \in {"dispatching", "comparing"} =>
                called' = called /\ pc[p] \in {"dispatching", "comparing"}
    PROVE  IInv'
  <1>1. /\ cursor[p] \in Items /\ job[p].items = manifest.items
        /\ Current(p) = manifest.items[cursor[p]] /\ OthersSettled(p)
        /\ Current(p).status = "running" /\ ValidItem(Current(p)) /\ results[cursor[p]] = 0
    BY TryingFacts
  <1>2. WriteAhead'
    <2>1. Current(p).attempts >= 1 /\ Current(p).attempts \in Nat
      BY <1>1, TryingFacts DEF ValidItem, Item
    <2>2. \A c \in called' : c \in called \/ c = <<cursor[p], Current(p).attempts>>
      BY DEF Attempt
    <2> QED
      BY <1>1, <2>1, <2>2 DEF IInv, WriteAhead
  <1>3. ValidJob(manifest)' /\ ResultsAgree' /\ ValidJob(job'[p])
    BY DEF IInv, CopiesValid, ValidJob, ResultsAgree
  <1>4. pc'[p] = ph
    BY DEF IInv, TypeOK
  <1>5. Tries(p)'
    BY <1>1, <1>4 DEF Tries, OthersSettled, Settled
  <1>6. Fresh(p)'
    BY <1>4 DEF Fresh, IInv, PhaseInv
  <1>7. PhaseInv(p)'
    BY <1>4, <1>5, <1>6 DEF PhaseInv, Reconciling, Chooses, Chosen, Records, Choosing, Trying
  <1>8. report'[p] # "corrupt"
    BY DEF IInv, NeverCorrupt
  <1>9. pc[p] \notin {"idle", "locking"} /\ ph \notin {"idle", "locking"}
    BY DEF Trying
  <1> QED
    BY <1>2, <1>3, <1>7, <1>8, <1>9, HolderStep

LEMMA ExecuteFailedStep ==
    ASSUME IInv, TypeOK', CursorOK', NEW p \in Procs, NEW a \in BOOLEAN,
           pc[p] \in Trying, ExecuteFailed(p, a),
           UNCHANGED <<manifest, results, lock, cursor, report, called>>
    PROVE  IInv'
  <1> DEFINE s   == ErrorStatus(p, a)
             new == [Current(p) EXCEPT !.status = s, !.failure = s # "running"]
             j   == Outcome(job[p], cursor[p], s)
  <1>1. /\ cursor[p] \in Items /\ job[p] \in Job
        /\ job[p].items \in [Items -> Item]
        /\ Current(p) = job[p].items[cursor[p]] /\ Current(p) \in Item
        /\ Current(p).status = "running" /\ ValidItem(Current(p)) /\ results[cursor[p]] = 0
    BY TryingFacts DEF Current
  <1>2. s \in {"failed", "uncertain"} /\ s \in Status
    BY DEF ErrorStatus, Status
  <1>3. /\ new \in Item /\ ValidItem(new) /\ new.status = s
        /\ new.attempts = Current(p).attempts /\ new.request = Current(p).request
    BY <1>1, <1>2 DEF Item, ValidItem
  <1>4. j \in Job /\ j.items = [job[p].items EXCEPT ![cursor[p]] = new]
    BY <1>1, <1>2, OutcomeType DEF Outcome
  <1>5. job' = [job EXCEPT ![p] = j] /\ pc' = [pc EXCEPT ![p] = "recording"]
    BY DEF ExecuteFailed, Goto
  <1>6. results' = [results EXCEPT ![cursor[p]] = results'[cursor[p]]]
    BY <1>1 DEF IInv, TypeOK
  <1> HIDE DEF new, j, s
  <1> QED
    BY <1>1, <1>2, <1>3, <1>4, <1>5, <1>6, OutcomeStep

LEMMA TrySteps ==
    ASSUME IInv, TypeOK', CursorOK', NEW p \in Procs,
           \/ ReadInputs(p) \/ Dispatch(p) \/ CallAnswered(p)
           \/ \E a \in BOOLEAN : DispatchRefused(p, a) \/ CallFailed(p, a)
    PROVE  IInv'
  <1> USE DEF durable, local, provider, Goto
  <1>1. CASE ReadInputs(p)
    BY <1>1, TryingStep DEF ReadInputs, Trying
  <1>2. CASE Dispatch(p)
    BY <1>2, TryingStep DEF Dispatch, Trying, Attempt
  <1>3. ASSUME NEW a \in BOOLEAN, DispatchRefused(p, a) PROVE IInv'
    BY <1>3, ExecuteFailedStep DEF DispatchRefused, Trying
  <1>4. CASE CallAnswered(p)
    <2>1. pc[p] \in Trying
      BY <1>4 DEF CallAnswered, Trying
    <2>2. /\ job[p].items \in [Items -> Item] /\ cursor[p] \in Items
          /\ Current(p) = job[p].items[cursor[p]]
          /\ Current(p).status = "running" /\ ValidItem(Current(p)) /\ Current(p) \in Item
      BY <2>1, TryingFacts DEF Current
    <2>3. [Current(p) EXCEPT !.status = "running", !.failure = ("running" # "running")] = Current(p)
      BY <2>2 DEF Item, ValidItem
    <2>4. Outcome(job[p], cursor[p], "running").items = job[p].items
      BY <2>2, <2>3 DEF Outcome
    <2>5. job'[p].items = job[p].items /\ \A q \in Procs \ {p} : job'[q] = job[q]
      BY <1>4, <2>4 DEF CallAnswered, IInv, TypeOK
    <2> QED
      BY <1>4, <2>1, <2>5, TryingStep DEF CallAnswered, Trying
  <1>5. ASSUME NEW a \in BOOLEAN, CallFailed(p, a) PROVE IInv'
    BY <1>5, ExecuteFailedStep DEF CallFailed, Trying
  <1> QED
    BY <1>1, <1>2, <1>3, <1>4, <1>5

LEMMA CommitSteps ==
    ASSUME IInv, TypeOK', CursorOK', NEW p \in Procs, Commit(p) \/ CommitFailed(p)
    PROVE  IInv'
  <1> USE DEF provider, Goto
  <1>1. /\ cursor[p] \in Items /\ job[p] \in Job
        /\ job[p].items \in [Items -> Item]
        /\ Current(p) = job[p].items[cursor[p]] /\ Current(p) \in Item
        /\ Current(p).status = "running" /\ ValidItem(Current(p)) /\ results[cursor[p]] = 0
        /\ Current(p).request \in Nat \ {0}
    BY TryingFacts DEF Commit, CommitFailed, Trying, ValidItem, Item, Current
  <1>2. pc[p] \in Trying
    BY DEF Commit, CommitFailed, Trying
  <1>3. CASE Commit(p)
    <2> DEFINE new == [Current(p) EXCEPT !.status = "succeeded",
                         !.result = Current(p).request, !.failure = FALSE]
               j   == WithItem(job[p], cursor[p], new)
    <2>1. /\ new \in Item /\ ValidItem(new) /\ new.status = "succeeded"
          /\ new.attempts = Current(p).attempts /\ new.request = Current(p).request
      BY <1>1 DEF Item, ValidItem, Status
    <2>2. j \in Job /\ j.items = [job[p].items EXCEPT ![cursor[p]] = new]
      BY <1>1, <2>1, WithItemType, WithItemItems
    <2>3. job' = [job EXCEPT ![p] = j]
      BY <1>3 DEF Commit
    <2>4. results' = [results EXCEPT ![cursor[p]] = new.request]
      BY <1>3, <2>1 DEF Commit
    <2>5. /\ results'[cursor[p]] = new.request
          /\ results' = [results EXCEPT ![cursor[p]] = results'[cursor[p]]]
      BY <1>1, <2>4 DEF IInv, TypeOK
    <2> HIDE DEF new, j
    <2> QED
      BY <1>2, <1>3, <2>1, <2>2, <2>3, <2>5, OutcomeStep DEF Commit
  <1>4. CASE CommitFailed(p)
    <2> DEFINE new == Unconfirmed(Current(p))
               j   == WithItem(job[p], cursor[p], new)
    <2>1. /\ new \in Item /\ ValidItem(new) /\ new.status = "uncertain"
          /\ new.attempts = Current(p).attempts /\ new.request = Current(p).request
      BY <1>1 DEF Unconfirmed, Item, ValidItem, Status
    <2>2. j \in Job /\ j.items = [job[p].items EXCEPT ![cursor[p]] = new]
      BY <1>1, <2>1, WithItemType, WithItemItems
    <2>3. job' = [job EXCEPT ![p] = j]
      BY <1>4 DEF CommitFailed
    <2>4. /\ results' = [results EXCEPT ![cursor[p]] = results'[cursor[p]]]
          /\ results'[cursor[p]] \in {0, new.request}
      BY <1>1, <1>4, <2>1 DEF CommitFailed, IInv, TypeOK
    <2> HIDE DEF new, j
    <2> QED
      BY <1>2, <1>4, <2>1, <2>2, <2>3, <2>4, OutcomeStep DEF CommitFailed
  <1> QED
    BY <1>3, <1>4

\* Storing the outcome, or failing to: with an error nothing more is done.
LEMMA RecordSteps ==
    ASSUME IInv, TypeOK', CursorOK', NEW p \in Procs, Record(p) \/ RecordFailed(p)
    PROVE  IInv'
  <1> DEFINE i   == cursor[p]
             new == job[p].items[i]
  <1> USE DEF provider, Goto
  <1>1. pc[p] = "recording" /\ i \in Items /\ results' = results /\ called' = called
        /\ lock' = lock
    BY DEF Record, RecordFailed, IInv, CursorOK, AtItem
  <1>2. /\ job[p].items = [manifest.items EXCEPT ![i] = new]
        /\ OthersSettled(p)
        /\ manifest.items[i].status = "running"
        /\ new.attempts = manifest.items[i].attempts
        /\ new.request = manifest.items[i].request
        /\ new.status \in {"succeeded", "failed", "uncertain"}
        /\ new.status = "succeeded" => results[i] = new.request
        /\ new.status = "failed" => results[i] = 0
    BY <1>1 DEF IInv, PhaseInv, Records
  <1>3. /\ manifest.items \in [Items -> Item] /\ new \in Item /\ ValidItem(new)
        /\ job[p] \in Job /\ ValidJob(job[p]) /\ ValidJob(manifest)
        /\ new.attempts \in Nat
    BY <1>1 DEF IInv, TypeOK, CopiesValid, ValidJob, Job, Item
  <1>4. /\ new.request # 0
        /\ results[i] # 0 => results[i] = new.attempts
        /\ new.status = "succeeded" => new.result = results[i] /\ results[i] # 0
    BY <1>1, <1>2, <1>3 DEF IInv, ResultsAgree, ValidItem
  <1>5. manifest' \in {manifest, job[p]}
    BY <1>3, SaveFailedValid DEF Record, RecordFailed, Saved
  <1> HIDE DEF new
  <1>6. ValidJob(manifest)' /\ ResultsAgree' /\ WriteAhead'
    <2>1. CASE manifest' = manifest
      BY <1>1, <2>1 DEF IInv, CopiesValid, ValidJob, ResultsAgree, WriteAhead
    <2>2. CASE manifest' = job[p]
      BY <1>1, <1>2, <1>3, <1>4, <2>2, StoreItem
    <2> QED
      BY <1>5, <2>1, <2>2
  <1>7. \A k \in Items : manifest.items[k].status = "succeeded" =>
                            manifest'.items[k].status = "succeeded"
    <2>1. \A k \in Items \ {i} : job[p].items[k] = manifest.items[k]
      BY <1>2, <1>3
    <2> QED
      BY <1>2, <1>5, <2>1
  <1>8. CASE Record(p) /\ Current(p).status = "succeeded"
    <2>1. /\ manifest' = job[p] /\ job' = job /\ pc' = [pc EXCEPT ![p] = "scanning"]
          /\ report' = report /\ cursor' = [cursor EXCEPT ![p] = @ + 1]
      BY <1>8 DEF Record, Saved, Return
    <2>2. new.status = "succeeded" /\ job[p].items[i] = new
      BY <1>8 DEF Current, new
    <2>3. \A k \in Items : Settled(k)'
      <3> TAKE k \in Items
      <3>1. CASE k = i
        BY <1>1, <2>1, <2>2, <3>1 DEF Settled
      <3>2. CASE k # i
        <4>1. job[p].items[k] = manifest.items[k] /\ Settled(k)
          BY <1>2, <1>3, <3>2 DEF OthersSettled
        <4> QED
          BY <1>1, <2>1, <4>1 DEF Settled
      <3> QED
        BY <3>1, <3>2
    <2>4. pc'[p] = "scanning"
      BY <2>1 DEF IInv, TypeOK
    <2>5. PhaseInv(p)'
      BY <2>1, <2>3, <2>4 DEF PhaseInv, Reconciling, Chooses, Chosen, Tries, Records, Fresh,
         Choosing, Trying
    <2>6. report'[p] # "corrupt" /\ ValidJob(job'[p])
      BY <1>3, <2>1 DEF IInv, NeverCorrupt
    <2>7. \A q \in Procs \ {p} : cursor'[q] = cursor[q]
      BY <2>1 DEF IInv, TypeOK
    <2> QED
      BY <1>1, <1>6, <1>7, <2>1, <2>5, <2>6, <2>7, HolderStep
  <1>9. CASE Record(p) /\ Current(p).status # "succeeded"
    <2>1. Return(p, "error") /\ job' = job /\ cursor' = cursor
      BY <1>9 DEF Record
    <2> QED
      BY <1>1, <1>3, <1>6, <1>7, <2>1, ReturnStep
  <1>10. CASE RecordFailed(p)
    <2> DEFINE back == [Current(p) EXCEPT !.status = "running", !.result = 0]
               j    == WithItem(job[p], i, back)
    <2>1. SaveReport(job[p]) = "error" /\ cursor' = cursor /\ Return(p, "error")
      BY <1>3, <1>10, SaveFailedValid DEF RecordFailed
    <2>2. ASSUME Current(p).status = "succeeded" PROVE ValidJob(j)
      <3>1. Current(p) = new /\ new = job[p].items[i]
        BY DEF Current, new
      <3>2. ValidItem(back)
        BY <1>3, <2>2, <3>1 DEF ValidItem, Item
      <3>3. j.items = [job[p].items EXCEPT ![i] = back]
        BY <1>1, <1>3, WithItemItems
      <3> QED
        BY <1>1, <1>3, <3>2, <3>3 DEF ValidJob, Job
    <2>3. \/ job' = [job EXCEPT ![p] = j] /\ Current(p).status = "succeeded"
          \/ job' = job
      BY <1>10 DEF RecordFailed
    <2> HIDE DEF j
    <2>4. ValidJob(job'[p]) /\ \A q \in Procs \ {p} : job'[q] = job[q]
      BY <1>3, <2>2, <2>3 DEF IInv, TypeOK
    <2> QED
      BY <1>1, <1>6, <1>7, <2>1, <2>4, ReturnStep
  <1> QED
    BY <1>8, <1>9, <1>10

-----------------------------------------------------------------------------
(* The invariant is preserved: the lock, the user and the environment.     *)

\* A step under which every invocation stays where it is, or is at or before
\* the lock, and no file changes.
LEMMA ParkStep ==
    ASSUME IInv, TypeOK', CursorOK', HolderLocked',
           manifest'.items = manifest.items, results' = results, called' = called,
           \A q \in Procs :
              /\ \/ /\ pc'[q] = pc[q] /\ cursor'[q] = cursor[q] /\ opts'[q] = opts[q]
                    /\ job'[q].items = job[q].items
                 \/ /\ pc'[q] \in {"idle", "locking", "loading"}
                    /\ cursor'[q] = 1 /\ ValidJob(job'[q])
              /\ report'[q] \in {report[q], "none", "error", "locked"}
    PROVE  IInv'
  <1> USE DEF IInv
  <1>1. ResultsAgree' /\ WriteAhead' /\ ValidJob(manifest)'
    BY DEF ResultsAgree, WriteAhead, CopiesValid, ValidJob
  <1>2. \A q \in Procs : ValidJob(job'[q])
    BY DEF CopiesValid, ValidJob
  <1>3. NeverCorrupt' /\ CompleteIsTrue' /\ CopiesValid'
    BY <1>1, <1>2 DEF NeverCorrupt, CompleteIsTrue, CopiesValid, ValidJob
  <1>4. ASSUME NEW q \in Procs PROVE PhaseInv(q)'
    <2>1. CASE /\ pc'[q] = pc[q] /\ cursor'[q] = cursor[q] /\ opts'[q] = opts[q]
               /\ job'[q].items = job[q].items
      <3>1. \A k \in Items : Settled(k)' <=> Settled(k)
        BY DEF Settled
      <3>2. Current(q)' = Current(q)
        BY <2>1 DEF Current
      <3>3. OthersSettled(q)' <=> OthersSettled(q)
        BY <2>1, <3>1 DEF OthersSettled
      <3>4. /\ Reconciling(q)' /\ Chooses(q)' /\ Chosen(q)' /\ Tries(q)'
        BY <2>1, <3>1, <3>2, <3>3 DEF PhaseInv, Reconciling, Chooses, Chosen, Tries
      <3>5. Records(q)'
        <4>1. Records(q)
          BY DEF PhaseInv
        <4>2. pc'[q] = pc[q] /\ cursor'[q] = cursor[q] /\ job'[q].items = job[q].items
          BY <2>1
        <4> QED
          BY <3>3, <4>1, <4>2 DEF Records
      <3>6. Fresh(q)'
        BY <2>1 DEF PhaseInv, Fresh
      <3> QED
        BY <2>1, <3>4, <3>5, <3>6 DEF PhaseInv
    <2>2. CASE pc'[q] \in {"idle", "locking", "loading"} /\ cursor'[q] = 1
      BY <2>2 DEF PhaseInv, Reconciling, Chooses, Chosen, Tries, Records, Fresh, Choosing, Trying
    <2> QED
      BY <2>1, <2>2
  <1> QED
    BY <1>1, <1>3, <1>4

LEMMA PlannedValid == ValidJob(PlannedJob)
  BY DEF ValidJob, PlannedJob, PlannedItem, ValidItem

\* What is left of an invocation that is over.
LEMMA Forgotten ==
    ASSUME TypeOK, NEW p \in Procs, Forget(p)
    PROVE  /\ pc'[p] = "idle" /\ cursor'[p] = 1 /\ job'[p] = PlannedJob
           /\ \A q \in Procs \ {p} : /\ pc'[q] = pc[q] /\ cursor'[q] = cursor[q]
                                     /\ opts'[q] = opts[q] /\ job'[q] = job[q]
  BY DEF Forget, Goto, TypeOK

LEMMA LockSteps ==
    ASSUME IInv, TypeOK', CursorOK', NEW p \in Procs,
           AcquireLock(p) \/ LockRefused(p) \/ Unlock(p)
    PROVE  IInv'
  <1> USE BatchConstants DEF durable, local, provider
  <1>0. TypeOK /\ ValidJob(PlannedJob)
    BY PlannedValid DEF IInv
  <1>1. CASE AcquireLock(p)
    <2>1. \A q \in Procs : pc[q] \in {"idle", "locking"}
      BY <1>1 DEF AcquireLock, IInv, HolderLocked
    <2>2. HolderLocked'
      BY <1>1, <2>1 DEF AcquireLock, HolderLocked, Goto, IInv, TypeOK
    <2>3. cursor[p] = 1 /\ ValidJob(job'[p])
      BY <1>1 DEF AcquireLock, IInv, PhaseInv, CopiesValid
    <2> QED
      BY <1>1, <2>2, <2>3, ParkStep DEF AcquireLock, Goto, IInv, TypeOK
  <1>2. CASE LockRefused(p)
    <2>1. /\ \A q \in Procs \ {p} : report'[q] = report[q]
          /\ report'[p] \in {"error", "locked"}
      BY <1>2 DEF LockRefused, IInv, TypeOK
    <2>2. HolderLocked'
      BY <1>0, <1>2, Forgotten DEF LockRefused, IInv, HolderLocked
    <2> QED
      BY <1>0, <1>2, <2>1, <2>2, Forgotten, ParkStep DEF LockRefused
  <1>3. CASE Unlock(p)
    <2>1. \A q \in Procs \ {p} : pc[q] \in {"idle", "locking"}
      BY <1>3 DEF Unlock, IInv, HolderLocked
    <2>2. HolderLocked'
      BY <1>0, <1>3, <2>1, Forgotten DEF Unlock, HolderLocked
    <2> QED
      BY <1>0, <1>3, <2>2, Forgotten, ParkStep DEF Unlock
  <1> QED
    BY <1>1, <1>2, <1>3

LEMMA OutsideSteps ==
    ASSUME IInv, TypeOK', CursorOK',
           \/ \E p \in Procs : Start(p) \/ Signal(p) \/ Crash(p)
           \/ \E s \in Editable : Edit(s)
           \/ Tick
           \/ UNCHANGED vars
    PROVE  IInv'
  <1> USE BatchConstants DEF durable, local, provider
  <1>0. TypeOK /\ ValidJob(PlannedJob)
    BY PlannedValid DEF IInv
  <1>1. ASSUME NEW p \in Procs, Start(p) PROVE IInv'
    <2>1. /\ pc'[p] = "locking" /\ report'[p] = "none"
          /\ \A q \in Procs \ {p} : pc'[q] = pc[q] /\ report'[q] = report[q] /\ opts'[q] = opts[q]
      BY <1>1 DEF Start, Goto, IInv, TypeOK
    <2>2. cursor[p] = 1 /\ ValidJob(job[p])
      BY <1>1 DEF Start, IInv, PhaseInv, CopiesValid
    <2>3. HolderLocked'
      BY <1>1, <2>1 DEF Start, IInv, HolderLocked
    <2> QED
      BY <1>1, <2>1, <2>2, <2>3, ParkStep DEF Start
  <1>2. ASSUME NEW p \in Procs, Signal(p) PROVE IInv'
    BY <1>2, ParkStep DEF Signal, IInv, HolderLocked
  <1>3. ASSUME NEW p \in Procs, Crash(p) PROVE IInv'
    <2>1. \A q \in Procs \ {p} : report'[q] = report[q]
      BY <1>3 DEF Crash, IInv, TypeOK
    <2>2. report'[p] = "none"
      BY <1>3 DEF Crash, IInv, TypeOK
    <2>3. HolderLocked'
      BY <1>0, <1>3, Forgotten DEF Crash, IInv, HolderLocked
    <2> QED
      BY <1>0, <1>3, <2>1, <2>2, <2>3, Forgotten, ParkStep DEF Crash
  <1>4. ASSUME NEW s \in Editable, Edit(s) PROVE IInv'
    BY <1>4, ParkStep DEF Edit, IInv, HolderLocked
  <1>5. CASE Tick
    <2>1. manifest'.items = manifest.items /\ \A q \in Procs : job'[q].items = job[q].items
      BY <1>5 DEF Tick, IInv, TypeOK, Job
    <2> QED
      BY <1>5, <2>1, ParkStep DEF Tick, IInv, HolderLocked
  <1>6. CASE UNCHANGED vars
    BY <1>6, ParkStep DEF vars, IInv, HolderLocked
  <1> QED
    BY <1>1, <1>2, <1>3, <1>4, <1>5, <1>6

LEMMA InvInit == Init => IInv
  <1> SUFFICES ASSUME Init PROVE IInv
    OBVIOUS
  <1>1. TypeOK
    BY TypeInit
  <1>2. ValidJob(PlannedJob)
    BY PlannedValid
  <1> QED
    BY <1>1, <1>2 DEF Init, IInv, CursorOK, AtItem, Trying, HolderLocked, CopiesValid, ResultsAgree, WriteAhead,
       NeverCorrupt, CompleteIsTrue, PhaseInv, Reconciling, Chooses, Chosen, Tries, Records,
       Fresh, Choosing, PlannedJob, PlannedItem

LEMMA InvNext == IInv /\ [Next]_vars => IInv'
  <1> SUFFICES ASSUME IInv, [Next]_vars PROVE IInv'
    OBVIOUS
  <1>1. TypeOK' /\ CursorOK'
    BY TypeNext DEF IInv
  <1>2. ASSUME NEW p \in Procs, Step(p) PROVE IInv'
    BY <1>1, <1>2, LockSteps, LoadStep, ReconcileSettledStep, ReconcileInterruptedStep,
       ReconcileCancelledStep, ReconcileDoneStep, ChooseSteps, SaveIntentStep, TrySteps,
       CommitSteps, RecordSteps DEF Step
  <1> QED
    BY <1>1, <1>2, OutsideSteps DEF Next

\* The strengthened invariant holds in every reachable state.
THEOREM Invariance == Spec => []IInv
  BY InvInit, InvNext, PTL DEF Spec

\* No call without a durable record of the attempt, whatever crashes.
THEOREM CallsAreRecorded == Spec => []WriteAhead
  <1>1. IInv => WriteAhead
    BY DEF IInv
  <1> QED
    BY <1>1, Invariance, PTL

\* Manifest and published results never contradict each other.
THEOREM ResultsAgreeWithManifest == Spec => []ResultsAgree
  <1>1. IInv => ResultsAgree
    BY DEF IInv
  <1> QED
    BY <1>1, Invariance, PTL

\* No history of crashes, signals and failed writes makes the job unusable.
THEOREM JobStaysUsable == Spec => []NeverCorrupt
  <1>1. IInv => NeverCorrupt
    BY DEF IInv
  <1> QED
    BY <1>1, Invariance, PTL

\* A report of completeness is true and stays true.
THEOREM CompletenessIsReal == Spec => []CompleteIsTrue
  <1>1. IInv => CompleteIsTrue
    BY DEF IInv
  <1> QED
    BY <1>1, Invariance, PTL

\* A request id is used for one call and never after its result exists.
THEOREM RequestsAreFresh == Spec => NoRepeatedRequest
  <1>1. IInv /\ [Next]_vars =>
          [\A p \in Procs : CallBegins(p) => Attempt(p) \notin called /\ results[cursor[p]] = 0]_vars
    <2> SUFFICES ASSUME IInv, NEW p \in Procs, CallBegins(p)
                 PROVE  Attempt(p) \notin called /\ results[cursor[p]] = 0
      OBVIOUS
    <2>1. pc[p] = "comparing"
      BY DEF CallBegins
    <2>2. Current(p) = manifest.items[cursor[p]] /\ results[cursor[p]] = 0
          /\ Current(p) \in Item
      BY <2>1, TryingFacts DEF Trying
    <2>3. \A c \in called : c[1] = cursor[p] => c[2] < manifest.items[c[1]].attempts
      BY <2>1 DEF IInv, PhaseInv, Fresh
    <2> QED
      BY <2>2, <2>3 DEF Attempt, Item
  <1> QED
    BY <1>1, Invariance, PTL DEF Spec, NoRepeatedRequest

-----------------------------------------------------------------------------
(* Pacing, consent and the bytes of a call.                                *)

\* The checkpoint of j covers the time since the last call, unless an item at
\* or after n is still running, with which reconciliation restarts it.
Rested(j, n) ==
    \/ quiet <= j.next
    \/ \E i \in Items : i >= n /\ j.items[i].status = "running"

Pacing(p) ==
    /\ pc[p] = "reconciling" => Rested(job[p], cursor[p])
    /\ pc[p] \in Choosing \cup {"dispatching", "comparing", "committing", "recording"} =>
         quiet <= job[p].next
    /\ pc[p] \in {"rechecking", "intending", "dispatching", "comparing"} => quiet = 0

Spaced == Rested(manifest, 1) /\ \A p \in Procs : Pacing(p)

\* The user asked for the repetition that is about to be made.
Consented(p) ==
    LET previous == <<cursor[p], Current(p).attempts - 1>> IN
    /\ previous \in called \ refused => opts[p].retryUncertain
    /\ previous \in refused => opts[p].retryFailed \/ opts[p].retryUncertain

\* A pending item was never called, a failed one was refused if it was called.
Remembered ==
    \A i \in Items :
      LET it == manifest.items[i] IN
      /\ it.status = "pending" => <<i, it.attempts>> \notin called
      /\ it.status = "failed" => <<i, it.attempts>> \notin called \ refused

Asking(p) ==
    /\ pc[p] = "calling" => Attempt(p) \in called
    /\ pc[p] \in {"dispatching", "comparing"} => Consented(p)
    /\ pc[p] = "recording" /\ Current(p).status = "failed" => Attempt(p) \notin called \ refused

Consent == refused \subseteq called /\ Remembered /\ \A p \in Procs : Asking(p)

\* What the three properties of calls need beyond IInv.
CInv == Spaced /\ Consent /\ tainted = {}

\* While p holds the lock nobody else is anywhere but before it.
LEMMA Alone ==
    ASSUME IInv, NEW p \in Procs, pc[p] \notin {"idle", "locking"}, NEW q \in Procs \ {p}
    PROVE  pc[q] \in {"idle", "locking"}
BY DEF IInv, HolderLocked

\* A step of the holder: only its own part of Pacing and of Asking is at stake.
LEMMA HolderCalls ==
    ASSUME IInv, CInv, NEW p \in Procs, pc[p] \notin {"idle", "locking"},
           \A q \in Procs \ {p} : pc'[q] = pc[q],
           Rested(manifest, 1)', Pacing(p)',
           (refused \subseteq called)', Remembered', Asking(p)', tainted' = tainted
    PROVE  CInv'
<1>1. ASSUME NEW q \in Procs \ {p}
      PROVE  Pacing(q)' /\ Asking(q)'
  <2>1. pc'[q] \in {"idle", "locking"}
    BY Alone
  <2> QED BY <2>1 DEF Pacing, Asking, Choosing
<1> QED BY <1>1 DEF CInv, Spaced, Consent

\* The same when manifest and calls are left alone.
LEMMA QuietCalls ==
    ASSUME IInv, CInv, NEW p \in Procs, pc[p] \notin {"idle", "locking"},
           \A q \in Procs \ {p} : pc'[q] = pc[q],
           UNCHANGED <<manifest, called, refused, quiet, tainted>>, Pacing(p)', Asking(p)'
    PROVE  CInv'
<1>1. Rested(manifest, 1)'
  BY DEF CInv, Spaced, Rested
<1>2. Remembered' /\ (refused \subseteq called)'
  BY DEF CInv, Consent, Remembered
<1> QED BY <1>1, <1>2, HolderCalls

\* Where nothing is asked of the holder.
LEMMA Past ==
    ASSUME NEW p, pc'[p] \in {"idle", "locking", "loading", "unlocking"}
    PROVE  Pacing(p)' /\ Asking(p)'
BY DEF Pacing, Asking, Choosing

\* What Save may have stored.
LEMMA Stored ==
    ASSUME NEW p, NEW j, Saved(j) \/ SaveFailed(j) \/ SaveFailedOrCancelled(p, j)
    PROVE  manifest' \in {manifest, j}
BY DEF Saved, SaveFailed, SaveFailedOrCancelled

\* Both halves of what the stored manifest says, for one of two manifests.
LEMMA Either ==
    ASSUME CInv, UNCHANGED <<called, refused, quiet>>, NEW j,
           manifest' \in {manifest, j}, Rested(j, 1),
           \A i \in Items :
             /\ j.items[i].status = "pending" => <<i, j.items[i].attempts>> \notin called
             /\ j.items[i].status = "failed" => <<i, j.items[i].attempts>> \notin called \ refused
    PROVE  Rested(manifest, 1)' /\ Remembered' /\ (refused \subseteq called)'
<1>1. Rested(manifest, 1)'
  BY DEF CInv, Spaced, Rested
<1>2. Remembered'
  BY DEF CInv, Consent, Remembered
<1> QED BY <1>1, <1>2 DEF CInv, Consent

\* Entering and leaving Run.
LEMMA CallsOutside ==
    ASSUME IInv, CInv, NEW p \in Procs,
           Start(p) \/ AcquireLock(p) \/ LockRefused(p) \/ Signal(p) \/ Unlock(p)
    PROVE  CInv'
<1>1. UNCHANGED <<manifest, called, refused, quiet, tainted>>
  BY DEF Start, AcquireLock, LockRefused, Signal, Unlock, durable, provider
<1>2. ASSUME NEW q \in Procs, pc'[q] = pc[q], job'[q] = job[q], cursor'[q] = cursor[q], opts'[q] = opts[q]
      PROVE  Pacing(q)' /\ Asking(q)'
  BY <1>1, <1>2 DEF CInv, Spaced, Consent, Pacing, Asking, Rested, Consented, Attempt, Current
<1>3. ASSUME NEW q \in Procs
      PROVE  Pacing(q)' /\ Asking(q)'
  <2>1. CASE Signal(p)
    BY <2>1, <1>2 DEF Signal
  <2>2. CASE Start(p) \/ AcquireLock(p) \/ LockRefused(p) \/ Unlock(p)
    <3>1. /\ pc \in [Procs -> Phases] /\ job \in [Procs -> Job] /\ cursor \in [Procs -> Nat \ {0}]
          /\ opts \in [Procs -> Options \cup {NoOptions}]
      BY DEF IInv, TypeOK
    <3>2. CASE q = p
      <4>1. pc'[p] \in {"idle", "locking", "loading", "unlocking"}
        BY <2>2, <3>1 DEF Start, AcquireLock, LockRefused, Unlock, Forget, Goto
      <4> QED BY <4>1, <3>2, Past
    <3>3. CASE q # p
      <4>1. pc'[q] = pc[q] /\ job'[q] = job[q] /\ cursor'[q] = cursor[q] /\ opts'[q] = opts[q]
        BY <2>2, <3>1, <3>3 DEF Start, AcquireLock, LockRefused, Unlock, Forget, Goto, local
      <4> QED BY <4>1, <1>2
    <3> QED BY <3>2, <3>3
  <2> QED BY <2>1, <2>2
<1>4. Rested(manifest, 1)'
  BY <1>1 DEF CInv, Spaced, Rested
<1>5. Remembered' /\ (refused \subseteq called)'
  BY <1>1 DEF CInv, Consent, Remembered
<1> QED BY <1>1, <1>3, <1>4, <1>5 DEF CInv, Spaced, Consent

\* Reading the manifest, and reconciling it.
LEMMA CallsReconciling ==
    ASSUME IInv, CInv, NEW p \in Procs,
           Load(p) \/ ReconcileSettled(p) \/ ReconcileInterrupted(p) \/ ReconcileCancelled(p)
             \/ ReconcileDone(p)
    PROVE  CInv'
<1> USE DEF Goto, Return
<1>1. /\ pc \in [Procs -> Phases] /\ job \in [Procs -> Job] /\ cursor \in [Procs -> Nat \ {0}]
      /\ results \in [Items -> Nat] /\ quiet \in 0..Spacing
  BY DEF IInv, TypeOK
<1>2. pc[p] \in {"loading", "reconciling"}
  BY DEF Load, ReconcileSettled, ReconcileInterrupted, ReconcileCancelled, ReconcileDone
<1>3. \A q \in Procs \ {p} : pc'[q] = pc[q]
  BY <1>1 DEF Load, ReconcileSettled, ReconcileInterrupted, ReconcileCancelled, ReconcileDone, local
<1>4. UNCHANGED <<called, refused, quiet, tainted>>
  BY DEF Load, ReconcileSettled, ReconcileInterrupted, ReconcileCancelled, ReconcileDone, provider
<1>5. CASE Load(p)
  <2>1. cursor[p] = 1 /\ cursor' = cursor /\ manifest' = manifest
    BY <1>2, <1>5 DEF IInv, PhaseInv, Load, durable
  <2>2. CASE pc'[p] = "reconciling"
    <3>1. job'[p] = manifest
      BY <1>1, <1>5, <2>2 DEF Load
    <3>2. Rested(manifest, 1)
      BY DEF CInv, Spaced
    <3>3. Pacing(p)'
      BY <2>1, <2>2, <3>1, <3>2, <1>4 DEF Pacing, Rested, Choosing
    <3>4. Asking(p)'
      BY <2>2 DEF Asking
    <3> QED BY <1>2, <1>3, <1>4, <2>1, <3>3, <3>4, QuietCalls
  <2>3. CASE pc'[p] = "unlocking"
    BY <1>2, <1>3, <1>4, <2>1, <2>3, Past, QuietCalls
  <2> QED BY <1>1, <1>5, <2>2, <2>3 DEF Load
<1>6. CASE ReconcileSettled(p)
  <2>1. manifest' = manifest /\ job' = job /\ job[p].items[cursor[p]].status # "running"
    BY <1>6 DEF ReconcileSettled, durable
  <2>2. CASE pc' = pc /\ cursor' = [cursor EXCEPT ![p] = @ + 1]
    <3>1. pc[p] = "reconciling" /\ Rested(job[p], cursor[p])
      BY <1>6 DEF ReconcileSettled, CInv, Spaced, Pacing
    <3>2. \A i \in Items : i >= cursor[p] /\ i # cursor[p] => i >= cursor[p] + 1
      BY <1>1 DEF Items
    <3>3. Rested(job[p], cursor[p])'
      BY <1>1, <1>4, <2>1, <2>2, <3>1, <3>2 DEF Rested
    <3>4. Pacing(p)' /\ Asking(p)'
      BY <2>2, <3>1, <3>3 DEF Pacing, Asking, Choosing
    <3> QED BY <1>2, <1>3, <1>4, <2>1, <3>4, QuietCalls
  <2>3. CASE pc'[p] = "unlocking"
    BY <1>2, <1>3, <1>4, <2>1, <2>3, Past, QuietCalls
  <2> QED BY <1>1, <1>6, <2>2, <2>3 DEF ReconcileSettled
<1>7. CASE ReconcileInterrupted(p)
  <2> DEFINE i == cursor[p]
             j == ReconciledJob(job[p], i)
  <2>1. /\ pc[p] = "reconciling" /\ i \in Items
        /\ job[p].items = manifest.items
    BY <1>7 DEF ReconcileInterrupted, IInv, PhaseInv, Reconciling
  <2>2. quiet <= j.next
    BY <1>1, BatchConstants DEF ReconciledJob, MaxOf, Job
  <2>3. /\ \A k \in Items \ {i} : j.items[k] = manifest.items[k]
        /\ j.items[i].status \in {"succeeded", "uncertain"}
    BY <1>1, <2>1 DEF ReconciledJob, Reconciled, Job, Item
  <2>4. manifest' \in {manifest, j}
    BY <1>7, Stored DEF ReconcileInterrupted
  <2>5. \A k \in Items :
          /\ j.items[k].status = "pending" => <<k, j.items[k].attempts>> \notin called
          /\ j.items[k].status = "failed" => <<k, j.items[k].attempts>> \notin called \ refused
    BY <2>3 DEF CInv, Consent, Remembered
  <2>6. pc'[p] = "unlocking" \/ (pc'[p] = "reconciling" /\ job'[p] = j)
    BY <1>1, <1>7 DEF ReconcileInterrupted
  <2> HIDE DEF j
  <2>7. Rested(manifest, 1)' /\ Remembered' /\ (refused \subseteq called)'
    BY <1>4, <2>2, <2>4, <2>5, Either DEF Rested
  <2>8. Pacing(p)' /\ Asking(p)'
    BY <1>4, <2>2, <2>6 DEF Pacing, Asking, Rested, Choosing
  <2> QED BY <1>2, <1>3, <1>4, <2>7, <2>8, HolderCalls
<1>8. CASE ReconcileCancelled(p)
  <2>1. pc'[p] = "unlocking" /\ manifest' = manifest
    BY <1>1, <1>8 DEF ReconcileCancelled, durable
  <2> QED BY <1>2, <1>3, <1>4, <2>1, Past, QuietCalls
<1>9. CASE ReconcileDone(p)
  <2>1. /\ pc[p] = "reconciling" /\ cursor[p] \notin Items /\ pc'[p] = "preflight"
        /\ job' = job /\ manifest' = manifest
    BY <1>1, <1>9 DEF ReconcileDone, durable
  <2>2. \A k \in Items : ~(k >= cursor[p])
    BY <1>1, <2>1, BatchConstants DEF Items
  <2>3. quiet <= job[p].next
    BY <2>1, <2>2 DEF CInv, Spaced, Pacing, Rested
  <2>4. Pacing(p)' /\ Asking(p)'
    BY <1>4, <2>1, <2>3 DEF Pacing, Asking
  <2> QED BY <1>2, <1>3, <1>4, <2>1, <2>4, QuietCalls
<1> QED BY <1>5, <1>6, <1>7, <1>8, <1>9

\* Choosing the next call, up to the recording of the attempt.
LEMMA CallsChoosing ==
    ASSUME IInv, CInv, NEW p \in Procs,
           Preflight(p) \/ Skip(p) \/ Reach(p) \/ Finish(p) \/ Paced(p) \/ Recheck(p)
    PROVE  CInv'
<1> USE DEF Goto, Return, local, durable, provider
<1>1. /\ pc \in [Procs -> Phases] /\ job \in [Procs -> Job] /\ quiet \in 0..Spacing
      /\ job[p].next \in 0..Spacing
  BY DEF IInv, TypeOK, Job
<1>2. pc[p] \in {"preflight", "scanning", "pacing", "rechecking"}
  BY DEF Preflight, Skip, Reach, Finish, Paced, Recheck
<1>3. \A q \in Procs \ {p} : pc'[q] = pc[q]
  BY <1>1 DEF Preflight, Skip, Reach, Finish, Paced, Recheck
<1>4. UNCHANGED <<called, refused, quiet, tainted, manifest, job>>
  BY DEF Preflight, Skip, Reach, Finish, Paced, Recheck
<1>5. quiet <= job[p].next /\ (pc[p] = "rechecking" => quiet = 0)
  BY <1>2 DEF CInv, Spaced, Pacing, Choosing
<1>6. \/ pc'[p] = "unlocking"
      \/ pc'[p] \in {"scanning", "pacing"}
      \/ pc'[p] = "rechecking" /\ job[p].next = 0
      \/ pc'[p] = "intending" /\ pc[p] = "rechecking"
  BY <1>1, <1>2 DEF Preflight, Skip, Reach, Finish, Paced, Recheck
<1>7. job[p].next = 0 => quiet = 0
  BY <1>1, <1>5, BatchConstants
<1>8. CASE pc'[p] = "unlocking"
  BY <1>2, <1>3, <1>4, <1>8, Past, QuietCalls
<1>9. CASE pc'[p] \in {"scanning", "pacing", "rechecking", "intending"}
  <2>1. pc'[p] \in {"rechecking", "intending"} => quiet = 0
    BY <1>5, <1>6, <1>7
  <2>2. Pacing(p)' /\ Asking(p)'
    BY <1>4, <1>5, <1>9, <2>1 DEF Pacing, Asking
  <2> QED BY <1>2, <1>3, <1>4, <2>2, QuietCalls
<1> QED BY <1>6, <1>8, <1>9

\* Recording the attempt: what is repeated was asked for.
LEMMA CallsIntending ==
    ASSUME IInv, CInv, NEW p \in Procs, SaveIntent(p)
    PROVE  CInv'
<1> USE DEF Goto, Return
<1> DEFINE i == cursor[p]
           j == WithItem(job[p], i, Intended(Current(p)))
<1>1. /\ pc \in [Procs -> Phases] /\ job \in [Procs -> Job] /\ quiet \in 0..Spacing
      /\ job[p].next \in 0..Spacing /\ Spacing \in Nat
  BY BatchConstants DEF IInv, TypeOK, Job
<1>2. pc[p] = "intending" /\ i \in Items /\ cursor' = cursor /\ opts' = opts
  BY DEF SaveIntent, IInv, CursorOK, AtItem
<1>3. /\ job[p].items = manifest.items /\ Current(p) = manifest.items[i]
      /\ Eligible(Current(p), opts[p]) /\ Current(p) \in Item
      /\ quiet = 0
  BY <1>1, <1>2 DEF IInv, PhaseInv, Chooses, Chosen, Choosing, Current, CInv, Spaced, Pacing, Job
<1>4. UNCHANGED <<called, refused, quiet, tainted>> /\ job' = [job EXCEPT ![p] = j]
  BY DEF SaveIntent, provider
<1>5. /\ j.items = [manifest.items EXCEPT ![i] = Intended(Current(p))]
      /\ j.next = job[p].next /\ manifest.items \in [Items -> Item]
  <2>1. job[p] \in Job /\ manifest.items \in [Items -> Item]
    BY <1>1 DEF IInv, TypeOK, Job
  <2>2. j.items = [job[p].items EXCEPT ![i] = Intended(Current(p))] /\ j.next = job[p].next
    BY <1>2, <2>1, WithItemItems
  <2> QED BY <1>3, <2>1, <2>2
<1>6. manifest' \in {manifest, j}
  BY Stored DEF SaveIntent
<1>7. Intended(Current(p)).status = "running" /\ Intended(Current(p)).attempts = Current(p).attempts + 1
  BY DEF Intended
<1> HIDE DEF j
<1>8. \A k \in Items :
        /\ j.items[k].status = "pending" => <<k, j.items[k].attempts>> \notin called
        /\ j.items[k].status = "failed" => <<k, j.items[k].attempts>> \notin called \ refused
  BY <1>2, <1>5, <1>7 DEF CInv, Consent, Remembered
<1>9. quiet <= j.next
  BY <1>1, <1>3, <1>5
<1>10. Rested(manifest, 1)' /\ Remembered' /\ (refused \subseteq called)'
  BY <1>4, <1>6, <1>8, <1>9, Either DEF Rested
<1>11. \A q \in Procs \ {p} : pc'[q] = pc[q]
  BY <1>1 DEF SaveIntent
<1>12. pc'[p] \in {"unlocking", "dispatching"}
  BY <1>1 DEF SaveIntent
<1>13. Current(p)' = Intended(Current(p))
  BY <1>1, <1>2, <1>4, <1>5 DEF Current
<1>14. Consented(p)'
  <2>1. Current(p).attempts \in Nat
    BY <1>3 DEF Item
  <2>2. <<cursor[p], Current(p).attempts - 1>>' = <<i, Current(p).attempts>>
    BY <1>2, <1>7, <1>13, <2>1
  <2>3. /\ Current(p).status = "pending" => <<i, Current(p).attempts>> \notin called
        /\ Current(p).status = "failed" => <<i, Current(p).attempts>> \notin called \ refused
        /\ refused \subseteq called
    BY <1>2, <1>3 DEF CInv, Consent, Remembered
  <2>4. /\ <<i, Current(p).attempts>> \in called \ refused => opts[p].retryUncertain
        /\ <<i, Current(p).attempts>> \in refused => opts[p].retryFailed \/ opts[p].retryUncertain
    BY <1>3, <2>3 DEF Eligible
  <2> QED BY <1>2, <1>4, <2>2, <2>4 DEF Consented
<1>15. Pacing(p)' /\ Asking(p)'
  <2>1. quiet' = 0 /\ quiet' <= job'[p].next
    BY <1>1, <1>3, <1>4, <1>9
  <2> QED BY <1>12, <1>14, <2>1 DEF Pacing, Asking, Choosing
<1> QED BY <1>2, <1>4, <1>10, <1>11, <1>15, HolderCalls

\* Taking the inputs, and the call itself.
LEMMA CallsDispatching ==
    ASSUME IInv, CInv, NEW p \in Procs, ReadInputs(p) \/ Dispatch(p)
    PROVE  CInv'
<1> USE DEF Goto, local, durable, provider
<1>1. pc \in [Procs -> Phases]
  BY DEF IInv, TypeOK
<1>2. /\ pc[p] \in {"dispatching", "comparing"} /\ \A q \in Procs \ {p} : pc'[q] = pc[q]
      /\ UNCHANGED <<manifest, job, cursor, opts, refused, quiet>>
  BY <1>1 DEF ReadInputs, Dispatch
<1>3. Pacing(p) /\ Asking(p)
  BY DEF CInv, Spaced, Consent
<1>4. CASE ReadInputs(p)
  <2>1. pc'[p] = "comparing" /\ UNCHANGED <<called, tainted>>
    BY <1>1, <1>4 DEF ReadInputs
  <2>2. Pacing(p)' /\ Asking(p)'
    BY <1>2, <1>3, <2>1 DEF Pacing, Asking, Consented, Current
  <2> QED BY <1>2, <2>1, <2>2, QuietCalls
<1>5. CASE Dispatch(p)
  <2>1. /\ pc'[p] = "calling" /\ tainted' = tainted
        /\ called' = called \cup {<<cursor[p], Current(p).attempts>>}
    BY <1>1, <1>5 DEF Dispatch, BytesMatch
  <2>2. pc[p] = "comparing" /\ cursor[p] \in Items /\ Current(p) = manifest.items[cursor[p]]
        /\ Current(p).status = "running"
    BY <1>5 DEF Dispatch, IInv, CursorOK, AtItem, Trying, PhaseInv, Tries, Current
  <2>3. Remembered'
    BY <1>2, <2>1, <2>2 DEF CInv, Consent, Remembered
  <2>4. (refused \subseteq called)'
    BY <1>2, <2>1 DEF CInv, Consent
  <2>5. Rested(manifest, 1)'
    BY <1>2 DEF CInv, Spaced, Rested
  <2>6. Attempt(p)' = <<cursor[p], Current(p).attempts>>
    BY <1>2 DEF Attempt, Current
  <2>7. Pacing(p)' /\ Asking(p)'
    BY <2>1, <2>6 DEF Pacing, Asking, Choosing
  <2> QED BY <1>2, <2>1, <2>3, <2>4, <2>5, <2>7, HolderCalls
<1> QED BY <1>4, <1>5

\* An attempt that is closed in the copy restarts the interval.
LEMMA Closing ==
    ASSUME IInv, NEW p \in Procs, cursor[p] \in Items, NEW s,
           job' = [job EXCEPT ![p] = Outcome(@, cursor[p], s)], cursor' = cursor, quiet' \in 0..Spacing
    PROVE  /\ quiet' <= job'[p].next
           /\ Current(p)'.status = s
           /\ Attempt(p)' = Attempt(p)
<1>1. job \in [Procs -> Job] /\ job[p].items \in [Items -> Item] /\ Spacing \in Nat
  BY BatchConstants DEF IInv, TypeOK, Job
<1>2. job'[p] = Outcome(job[p], cursor[p], s)
  BY <1>1
<1>3. job'[p].next = Spacing
  BY <1>2 DEF Outcome
<1>4. job'[p].items[cursor[p]] =
        [job[p].items[cursor[p]] EXCEPT !.status = s, !.failure = s # "running"]
  BY <1>1, <1>2 DEF Outcome
<1>5. job[p].items[cursor[p]] \in Item
  BY <1>1
<1>6. /\ job'[p].items[cursor[p]].status = s
      /\ job'[p].items[cursor[p]].attempts = job[p].items[cursor[p]].attempts
  <2>1. ASSUME NEW it \in Item
        PROVE  /\ [it EXCEPT !.status = s, !.failure = s # "running"].status = s
               /\ [it EXCEPT !.status = s, !.failure = s # "running"].attempts = it.attempts
    BY DEF Item
  <2> QED BY <1>4, <1>5, <2>1
<1> QED BY <1>1, <1>3, <1>6 DEF Current, Attempt

\* No call was made, or it has ended.
LEMMA CallsEnding ==
    ASSUME IInv, CInv, NEW p \in Procs,
           \/ CallAnswered(p)
           \/ \E ambiguous \in BOOLEAN : DispatchRefused(p, ambiguous) \/ CallFailed(p, ambiguous)
    PROVE  CInv'
<1> USE DEF Goto, durable, provider
<1>1. /\ pc \in [Procs -> Phases] /\ quiet \in 0..Spacing /\ Spacing \in Nat /\ Spacing \in 0..Spacing
  BY BatchConstants DEF IInv, TypeOK
<1>2. /\ pc[p] \in {"dispatching", "comparing", "calling"} /\ \A q \in Procs \ {p} : pc'[q] = pc[q]
      /\ UNCHANGED <<manifest, cursor, opts, called, tainted>>
  BY <1>1 DEF DispatchRefused, CallAnswered, CallFailed, ExecuteFailed
<1>3. Pacing(p) /\ Asking(p) /\ cursor[p] \in Items
  BY <1>2 DEF CInv, Spaced, Consent, IInv, CursorOK, AtItem, Trying
<1>4. /\ Current(p) = manifest.items[cursor[p]] /\ Current(p).status = "running"
  BY <1>2 DEF IInv, PhaseInv, Tries, Trying, Current
<1>5. \E i \in Items : i >= 1 /\ manifest.items[i].status = "running"
  BY <1>3, <1>4, BatchConstants DEF Items
<1>6. Rested(manifest, 1)'
  BY <1>2, <1>5 DEF Rested
<1>7. CASE CallAnswered(p)
  <2>1. /\ pc[p] = "calling" /\ pc'[p] = "committing" /\ refused' = refused /\ quiet' = Spacing
        /\ job' = [job EXCEPT ![p] = Outcome(@, cursor[p], "running")]
    BY <1>1, <1>7 DEF CallAnswered
  <2>2. quiet' <= job'[p].next
    BY <1>1, <1>2, <1>3, <2>1, Closing
  <2>3. Pacing(p)' /\ Asking(p)'
    BY <2>1, <2>2 DEF Pacing, Asking
  <2>4. Remembered' /\ (refused \subseteq called)'
    BY <1>2, <2>1 DEF CInv, Consent, Remembered
  <2> QED BY <1>2, <1>6, <2>3, <2>4, HolderCalls
<1>8. ASSUME NEW a \in BOOLEAN, DispatchRefused(p, a)
      PROVE  CInv'
  <2>1. /\ pc[p] \in {"dispatching", "comparing"} /\ pc'[p] = "recording"
        /\ refused' = refused /\ quiet' = quiet
        /\ job' = [job EXCEPT ![p] = Outcome(@, cursor[p], ErrorStatus(p, a))]
    BY <1>1, <1>8 DEF DispatchRefused, ExecuteFailed
  <2>2. quiet' <= job'[p].next /\ Attempt(p)' = Attempt(p)
    BY <1>1, <1>2, <1>3, <2>1, Closing
  <2>3. Attempt(p) \notin called
    <3>1. \A c \in called : c[1] = cursor[p] => c[2] < manifest.items[c[1]].attempts
      BY <2>1 DEF IInv, PhaseInv, Fresh
    <3>2. manifest.items[cursor[p]].attempts \in Nat
      BY <1>3 DEF IInv, TypeOK, Job, Item
    <3> QED BY <1>4, <3>1, <3>2 DEF Attempt
  <2>4. Pacing(p)' /\ Asking(p)'
    BY <1>2, <2>1, <2>2, <2>3 DEF Pacing, Asking
  <2>5. Remembered' /\ (refused \subseteq called)'
    BY <1>2, <2>1 DEF CInv, Consent, Remembered
  <2> QED BY <1>2, <1>6, <2>4, <2>5, HolderCalls
<1>9. ASSUME NEW a \in BOOLEAN, CallFailed(p, a)
      PROVE  CInv'
  <2>1. /\ pc[p] = "calling" /\ pc'[p] = "recording" /\ quiet' = Spacing
        /\ job' = [job EXCEPT ![p] = Outcome(@, cursor[p], ErrorStatus(p, a))]
        /\ refused' = IF signalled[p] \/ a THEN refused ELSE refused \cup {Attempt(p)}
    BY <1>1, <1>9 DEF CallFailed, ExecuteFailed, Attempt
  <2>2. /\ quiet' <= job'[p].next /\ Current(p)'.status = ErrorStatus(p, a)
        /\ Attempt(p)' = Attempt(p)
    BY <1>1, <1>2, <1>3, <2>1, Closing
  <2>3. Attempt(p) \in called
    BY <1>3, <2>1 DEF Asking
  <2>4. CASE signalled[p] \/ a
    <3>1. ErrorStatus(p, a) = "uncertain" /\ refused' = refused
      BY <2>1, <2>4 DEF ErrorStatus
    <3>2. Pacing(p)' /\ Asking(p)'
      BY <2>1, <2>2, <3>1 DEF Pacing, Asking
    <3>3. Remembered' /\ (refused \subseteq called)'
      BY <1>2, <3>1 DEF CInv, Consent, Remembered
    <3> QED BY <1>2, <1>6, <3>2, <3>3, HolderCalls
  <2>5. CASE ~(signalled[p] \/ a)
    <3>1. refused' = refused \cup {Attempt(p)}
      BY <2>1, <2>5
    <3>2. Pacing(p)' /\ Asking(p)'
      BY <2>1, <2>2, <3>1 DEF Pacing, Asking
    <3>3. Remembered' /\ (refused \subseteq called)'
      BY <1>2, <2>3, <3>1 DEF CInv, Consent, Remembered
    <3> QED BY <1>2, <1>6, <3>2, <3>3, HolderCalls
  <2> QED BY <2>4, <2>5
<1> QED BY <1>7, <1>8, <1>9

\* Publishing and recording the outcome.
LEMMA CallsRecording ==
    ASSUME IInv, CInv, NEW p \in Procs,
           Commit(p) \/ CommitFailed(p) \/ Record(p) \/ RecordFailed(p)
    PROVE  CInv'
<1> USE DEF Goto, Return
<1>1. /\ pc \in [Procs -> Phases] /\ job \in [Procs -> Job] /\ cursor \in [Procs -> Nat \ {0}]
  BY DEF IInv, TypeOK
<1>2. /\ pc[p] \in {"committing", "recording"} /\ \A q \in Procs \ {p} : pc'[q] = pc[q]
      /\ UNCHANGED <<called, refused, quiet, tainted>>
  BY <1>1 DEF Commit, CommitFailed, Record, RecordFailed, provider
<1>3. Pacing(p) /\ Asking(p) /\ cursor[p] \in Items /\ quiet <= job[p].next
  BY <1>2 DEF CInv, Spaced, Consent, IInv, CursorOK, AtItem, Trying, Pacing
<1>4. CASE Commit(p) \/ CommitFailed(p)
  <2>1. /\ pc[p] = "committing" /\ pc'[p] = "recording" /\ manifest' = manifest /\ cursor' = cursor
        /\ \E it : job' = [job EXCEPT ![p] = WithItem(@, cursor[p], it)]
                   /\ it.status \in {"succeeded", "uncertain"}
    <3>1. Current(p) \in Item
      BY <1>1, <1>3 DEF Current, Job
    <3>2. Unconfirmed(Current(p)).status = "uncertain"
      BY <3>1 DEF Unconfirmed, Item
    <3>3. [Current(p) EXCEPT !.status = "succeeded", !.result = Current(p).request,
                             !.failure = FALSE].status = "succeeded"
      BY <3>1 DEF Item
    <3>4. CASE Commit(p)
      BY <1>1, <3>3, <3>4 DEF Commit
    <3>5. CASE CommitFailed(p)
      BY <1>1, <3>2, <3>5 DEF CommitFailed
    <3> QED BY <1>4, <3>4, <3>5
  <2>2. PICK it : job' = [job EXCEPT ![p] = WithItem(@, cursor[p], it)]
                  /\ it.status \in {"succeeded", "uncertain"}
    BY <2>1
  <2>3. job'[p].next = job[p].next /\ Current(p)' = it
    BY <1>1, <1>3, <2>1, <2>2 DEF WithItem, Current, Job
  <2>4. Pacing(p)' /\ Asking(p)'
    BY <1>2, <1>3, <2>1, <2>2, <2>3 DEF Pacing, Asking
  <2> QED BY <1>2, <2>1, <2>4, QuietCalls
<1>5. CASE Record(p) \/ RecordFailed(p)
  <2>1. /\ pc[p] = "recording" /\ manifest' \in {manifest, job[p]}
        /\ pc'[p] \in {"scanning", "unlocking"}
        /\ pc'[p] = "scanning" => job' = job
    BY <1>1, <1>5, Stored DEF Record, RecordFailed
  <2>2. /\ job[p].items = [manifest.items EXCEPT ![cursor[p]] = Current(p)]
        /\ Current(p).status \in {"succeeded", "failed", "uncertain"}
        /\ manifest.items \in [Items -> Item]
    BY <2>1 DEF IInv, TypeOK, Job, PhaseInv, Records, Current
  <2>3. ASSUME NEW k \in Items
        PROVE  LET it == job[p].items[k] IN
               /\ it.status = "pending" => <<k, it.attempts>> \notin called
               /\ it.status = "failed" => <<k, it.attempts>> \notin called \ refused
    <3>1. CASE k = cursor[p]
      <4>1. job[p].items[k] = Current(p)
        BY <3>1 DEF Current
      <4>2. Current(p).status = "failed" => <<k, Current(p).attempts>> \notin called \ refused
        BY <1>3, <2>1, <3>1 DEF Asking, Attempt
      <4> QED BY <2>2, <4>1, <4>2
    <3>2. CASE k # cursor[p]
      BY <1>3, <2>2, <3>2 DEF CInv, Consent, Remembered
    <3> QED BY <3>1, <3>2
  <2>4. Rested(manifest, 1)' /\ Remembered' /\ (refused \subseteq called)'
    BY <1>2, <1>3, <2>1, <2>3, Either DEF Rested
  <2>5. Pacing(p)' /\ Asking(p)'
    BY <1>2, <1>3, <2>1 DEF Pacing, Asking, Choosing
  <2> QED BY <1>2, <2>4, <2>5, HolderCalls
<1> QED BY <1>4, <1>5

\* A process that dies in a call leaves the item running.
LEMMA CallsCrash ==
    ASSUME IInv, CInv, NEW p \in Procs, Crash(p)
    PROVE  CInv'
<1> USE DEF Goto, Forget
<1>1. /\ pc \in [Procs -> Phases] /\ job \in [Procs -> Job] /\ cursor \in [Procs -> Nat \ {0}]
      /\ opts \in [Procs -> Options \cup {NoOptions}]
  BY DEF IInv, TypeOK
<1>2. /\ pc'[p] = "idle" /\ UNCHANGED <<manifest, called, refused, tainted>>
      /\ quiet' = IF pc[p] = "calling" THEN Spacing ELSE quiet
  BY <1>1 DEF Crash, durable
<1>3. CASE pc[p] = "calling"
  <2>1. cursor[p] \in Items /\ manifest.items[cursor[p]].status = "running"
    BY <1>3 DEF IInv, CursorOK, AtItem, PhaseInv, Tries, Trying
  <2>2. Rested(manifest, 1)'
    BY <1>2, <2>1, BatchConstants DEF Rested, Items
  <2>3. Remembered' /\ (refused \subseteq called)'
    BY <1>2 DEF CInv, Consent, Remembered
  <2>4. \A q \in Procs \ {p} : pc'[q] = pc[q]
    BY <1>1 DEF Crash
  <2> QED BY <1>2, <1>3, <2>2, <2>3, <2>4, Past, HolderCalls
<1>4. CASE pc[p] # "calling"
  <2>1. UNCHANGED <<manifest, called, refused, quiet, tainted>>
    BY <1>2, <1>4
  <2>2. ASSUME NEW q \in Procs \ {p}
        PROVE  Pacing(q)' /\ Asking(q)'
    <3>1. pc'[q] = pc[q] /\ job'[q] = job[q] /\ cursor'[q] = cursor[q] /\ opts'[q] = opts[q]
      BY <1>1 DEF Crash
    <3> QED BY <2>1, <3>1 DEF CInv, Spaced, Consent, Pacing, Asking, Rested, Consented, Attempt, Current
  <2>3. Pacing(p)' /\ Asking(p)'
    BY <1>2, Past
  <2>4. Rested(manifest, 1)' /\ Remembered' /\ (refused \subseteq called)'
    BY <2>1 DEF CInv, Spaced, Rested, Consent, Remembered
  <2> QED BY <2>1, <2>2, <2>3, <2>4 DEF CInv, Spaced, Consent
<1> QED BY <1>3, <1>4

\* Time passes for the checkpoints and for the interval alike.
LEMMA CallsTick ==
    ASSUME IInv, CInv, Tick
    PROVE  CInv'
<1>1. /\ manifest \in Job /\ job \in [Procs -> Job] /\ quiet \in 0..Spacing /\ Spacing \in Nat
  BY BatchConstants DEF IInv, TypeOK
<1>2. /\ UNCHANGED <<pc, opts, cursor, called, refused, tainted>> /\ quiet' = Less(quiet)
      /\ manifest' = [manifest EXCEPT !.next = Less(@)]
      /\ job' = [p \in Procs |-> [job[p] EXCEPT !.next = Less(@)]]
  BY DEF Tick
<1>3. ASSUME NEW j \in Job, NEW k, k = [j EXCEPT !.next = Less(@)]
      PROVE  /\ k.items = j.items
             /\ quiet <= j.next => quiet' <= k.next
  <2>1. k.items = j.items /\ k.next = Less(j.next) /\ j.next \in 0..Spacing
    BY <1>3 DEF Job
  <2>2. quiet <= j.next => Less(quiet) <= Less(j.next)
    BY <1>1, <2>1 DEF Less
  <2> QED BY <1>2, <2>1, <2>2
<1>4. manifest'.items = manifest.items /\ Rested(manifest, 1)'
  <2>1. Rested(manifest, 1)
    BY DEF CInv, Spaced
  <2> QED BY <1>1, <1>2, <1>3, <2>1 DEF Rested
<1>5. ASSUME NEW p \in Procs
      PROVE  Pacing(p)' /\ Asking(p)'
  <2>1. /\ job'[p].items = job[p].items
        /\ quiet <= job[p].next => quiet' <= job'[p].next
    BY <1>1, <1>2, <1>3
  <2>2. quiet = 0 => quiet' = 0
    BY <1>2 DEF Less
  <2>3. Pacing(p) /\ Asking(p)
    BY DEF CInv, Spaced, Consent
  <2>4. Pacing(p)'
    BY <1>2, <2>1, <2>2, <2>3 DEF Pacing, Rested
  <2>5. Asking(p)'
    BY <1>2, <2>1, <2>3 DEF Asking, Consented, Attempt, Current
  <2> QED BY <2>4, <2>5
<1>6. Remembered' /\ (refused \subseteq called)' /\ tainted' = {}
  BY <1>2, <1>4 DEF CInv, Consent, Remembered
<1> QED BY <1>4, <1>5, <1>6 DEF CInv, Spaced, Consent

\* Nothing that matters to calls changes.
LEMMA CallsIdle ==
    ASSUME CInv, UNCHANGED <<manifest, pc, job, opts, cursor, provider>>
    PROVE  CInv'
BY DEF CInv, Spaced, Consent, Rested, Pacing, Remembered, Asking, Consented, Attempt, Current, provider

\* CInv is kept by every step.
LEMMA CallsStep == IInv /\ CInv /\ [Next]_vars => CInv'
<1> SUFFICES ASSUME IInv, CInv, [Next]_vars
             PROVE  CInv'
  OBVIOUS
<1>1. ASSUME NEW p \in Procs, Step(p)
      PROVE  CInv'
  BY <1>1, CallsOutside, CallsReconciling, CallsChoosing, CallsIntending, CallsDispatching,
     CallsEnding, CallsRecording DEF Step
<1>2. ASSUME NEW p \in Procs, Start(p) \/ Signal(p) \/ Crash(p)
      PROVE  CInv'
  BY <1>2, CallsOutside, CallsCrash
<1>3. ASSUME NEW s \in Editable, Edit(s)
      PROVE  CInv'
  BY <1>3, CallsIdle DEF Edit, local
<1>4. CASE UNCHANGED vars
  BY <1>4, CallsIdle DEF vars, durable, local
<1> QED BY <1>1, <1>2, <1>3, <1>4, CallsTick DEF Next

\* Both invariants hold in every reachable state.
THEOREM CallsInvariance == Spec => [](IInv /\ CInv)
<1>1. Init => CInv
  <2>1. ASSUME Init
        PROVE  CInv
    <3>1. quiet <= manifest.next
      BY <2>1 DEF Init, PlannedJob
    <3>2. \A p \in Procs : pc[p] = "idle"
      BY <2>1 DEF Init
    <3>3. called = {} /\ refused = {} /\ tainted = {}
      BY <2>1 DEF Init
    <3> QED BY <3>1, <3>2, <3>3 DEF CInv, Spaced, Consent, Rested, Pacing, Remembered, Asking, Choosing
  <2> QED BY <2>1
<1> QED BY <1>1, InvInit, InvNext, CallsStep, PTL DEF Spec

\* No edit of the inputs at any moment gets into a published result: what is
\* compared with the plan are the bytes that are sent (the executor of
\* cli/batch.go), for any number of files and edits.
THEOREM ResultsAreFromPlan == Spec => []ResultsFromPlan
<1>1. CInv => ResultsFromPlan
  BY DEF CInv, ResultsFromPlan
<1> QED BY <1>1, CallsInvariance, PTL

\* A call starts only once the spacing has passed since the last one, though
\* the checkpoint of that one may never have been written (waitForPacing,
\* reconcileInterrupted): an item that is still running restarts it.
THEOREM CallsKeepTheirDistance == Spec => CallsAreSpaced
<1>1. IInv /\ CInv /\ [Next]_vars =>
        [\A p \in Procs : CallBegins(p) => quiet = 0 /\ \A q \in Procs : pc[q] # "calling"]_vars
  <2> SUFFICES ASSUME IInv, CInv, NEW p \in Procs, CallBegins(p)
               PROVE  quiet = 0 /\ \A q \in Procs : pc[q] # "calling"
    OBVIOUS
  <2>1. pc[p] = "comparing"
    BY DEF CallBegins
  <2>2. quiet = 0
    BY <2>1 DEF CInv, Spaced, Pacing
  <2>3. \A q \in Procs \ {p} : pc[q] \in {"idle", "locking"}
    BY <2>1, Alone
  <2> QED BY <2>1, <2>2, <2>3
<1> QED BY <1>1, CallsInvariance, PTL DEF Spec, CallsAreSpaced

\* No item is called again unless the user asked for it, and explicitly for an
\* uncertain one if it is not known how its last call ended (Eligible,
\* ambiguousExecution), however many invocations and failures lie between.
THEOREM RepetitionIsAskedFor == Spec => RepeatNeedsConsent
<1>1. IInv /\ CInv /\ [Next]_vars =>
        [\A p \in Procs : CallBegins(p) =>
           LET previous == <<cursor[p], Current(p).attempts - 1>> IN
           /\ previous \in called \ refused => opts[p].retryUncertain
           /\ previous \in refused => opts[p].retryFailed \/ opts[p].retryUncertain]_vars
  BY DEF CInv, Consent, Asking, Consented, CallBegins
<1> QED BY <1>1, CallsInvariance, PTL DEF Spec, RepeatNeedsConsent

-----------------------------------------------------------------------------
(* Batch implements BatchLedger: every step of the engine, its crashes and *)
(* failed writes included, opens an attempt when none is open, closes the  *)
(* open one, or is invisible in the ledger.                                *)

LEMMA LedgerInitially == Init => Ledger!LedgerInit
  <1> SUFFICES ASSUME Init PROVE Ledger!LedgerInit
    OBVIOUS
  <1>1. \A i \in Items : LedgerState(i) = "waiting" /\ manifest.items[i].attempts = 0
    BY DEF Init, LedgerState, PlannedJob, PlannedItem
  <1> QED
    BY <1>1 DEF Ledger!LedgerInit

\* What the ledger says of an item depends on the item and its result only.
LEMMA SameEntry ==
    ASSUME NEW k, manifest'.items[k] = manifest.items[k], results'[k] = results[k]
    PROVE  /\ LedgerState(k)' = LedgerState(k)
           /\ manifest'.items[k].attempts = manifest.items[k].attempts
  BY DEF LedgerState

\* A step that changes at most item i is a step of the ledger if it does one
\* of three things to it.
LEMMA OneItem ==
    ASSUME NEW i \in Items,
           \A k \in Items \ {i} : /\ manifest'.items[k] = manifest.items[k]
                                  /\ results'[k] = results[k],
           \/ /\ LedgerState(i)' = LedgerState(i)
              /\ manifest'.items[i].attempts = manifest.items[i].attempts
           \/ /\ LedgerState(i) = "open"
              /\ LedgerState(i)' \in {"done", "refused", "unknown"}
              /\ manifest'.items[i].attempts = manifest.items[i].attempts
           \/ /\ \A k \in Items : LedgerState(k) # "open"
              /\ LedgerState(i) # "done"
              /\ LedgerState(i)' = "open"
              /\ manifest'.items[i].attempts = manifest.items[i].attempts + 1
    PROVE  [Ledger!LedgerNext]_(Ledger!ledgerVars)
  <1> DEFINE st == [k \in Items |-> LedgerState(k)]
             at == [k \in Items |-> manifest.items[k].attempts]
  <1>1. \A k \in Items \ {i} : /\ LedgerState(k)' = LedgerState(k)
                               /\ manifest'.items[k].attempts = manifest.items[k].attempts
    BY SameEntry
  <1>2. CASE /\ LedgerState(i)' = LedgerState(i)
             /\ manifest'.items[i].attempts = manifest.items[i].attempts
    <2>1. st' = st /\ at' = at
      BY <1>1, <1>2
    <2> QED
      BY <2>1 DEF Ledger!ledgerVars
  <1>3. CASE /\ LedgerState(i) = "open"
             /\ LedgerState(i)' \in {"done", "refused", "unknown"}
             /\ manifest'.items[i].attempts = manifest.items[i].attempts
    <2>1. at' = at /\ st' = [st EXCEPT ![i] = LedgerState(i)']
      BY <1>1, <1>3
    <2>2. Ledger!Close(i, LedgerState(i)')
      BY <1>3, <2>1 DEF Ledger!Close
    <2> QED
      BY <1>3, <2>2 DEF Ledger!LedgerNext
  <1>4. CASE /\ \A k \in Items : LedgerState(k) # "open"
             /\ LedgerState(i) # "done"
             /\ LedgerState(i)' = "open"
             /\ manifest'.items[i].attempts = manifest.items[i].attempts + 1
    <2>1. /\ at' = [at EXCEPT ![i] = @ + 1]
          /\ st' = [st EXCEPT ![i] = "open"]
      BY <1>1, <1>4
    <2>2. Ledger!Open(i)
      BY <1>4, <2>1 DEF Ledger!Open
    <2> QED
      BY <2>2 DEF Ledger!LedgerNext
  <1> QED
    BY <1>2, <1>3, <1>4

LEMMA NoItem ==
    ASSUME manifest'.items = manifest.items, results' = results
    PROVE  [Ledger!LedgerNext]_(Ledger!ledgerVars)
  <1>1. \A k \in Items : /\ LedgerState(k)' = LedgerState(k)
                         /\ manifest'.items[k].attempts = manifest.items[k].attempts
    BY SameEntry
  <1> QED
    BY <1>1 DEF Ledger!ledgerVars

-----------------------------------------------------------------------------
(* The steps that are visible in the ledger.                               *)

LEMMA ReconcileIsLedgerStep ==
    ASSUME IInv, NEW p \in Procs, ReconcileInterrupted(p)
    PROVE  [Ledger!LedgerNext]_(Ledger!ledgerVars)
  <1>0. PICK i \in Items : i = cursor[p]
    BY DEF ReconcileInterrupted
  <1> DEFINE it  == manifest.items[i]
             new == Reconciled(it, i)
             j   == ReconciledJob(job[p], i)
  <1>1. /\ i \in Items /\ job[p].items = manifest.items /\ results' = results
        /\ it.status \in {"running", "uncertain"}
        /\ manifest.items \in [Items -> Item]
    BY <1>0 DEF ReconcileInterrupted, IInv, PhaseInv, Reconciling, TypeOK, Job
  <1>2. j.items = [manifest.items EXCEPT ![i] = new]
    BY <1>1 DEF ReconciledJob
  <1>3. manifest' \in {manifest, j}
    <2>1. Saved(j) \/ SaveFailed(j) \/ UNCHANGED manifest
      BY <1>0 DEF ReconcileInterrupted
    <2> QED
      BY <2>1 DEF Saved, SaveFailed
  <1>4. CASE manifest' = manifest
    BY <1>1, <1>4, NoItem
  <1>5. CASE manifest' = j
    <2>1. /\ manifest'.items[i] = new
          /\ \A k \in Items \ {i} : manifest'.items[k] = manifest.items[k]
      BY <1>1, <1>2, <1>5
    <2>2. it \in Item /\ ValidItem(it) /\ results[i] \in Nat
      BY <1>1 DEF IInv, TypeOK, CopiesValid, ValidJob
    <2>3. results[i] # 0 => results[i] = it.attempts
      BY <1>1 DEF IInv, ResultsAgree
    <2>4. /\ new.attempts = it.attempts
          /\ new.status \in {"succeeded", "uncertain"}
          /\ new.status = "succeeded" <=> results[i] # 0
      BY <1>1, <2>2, <2>3, ReconciledValid
    <2> HIDE DEF new, j
    <2>5. \/ LedgerState(i)' = LedgerState(i)
          \/ LedgerState(i) = "open" /\ LedgerState(i)' = "unknown"
      BY <1>1, <2>1, <2>4 DEF LedgerState
    <2> QED
      BY <1>1, <2>1, <2>4, <2>5, OneItem
  <1> QED
    BY <1>3, <1>4, <1>5

LEMMA IntentIsLedgerStep ==
    ASSUME IInv, NEW p \in Procs, SaveIntent(p)
    PROVE  [Ledger!LedgerNext]_(Ledger!ledgerVars)
  <1>0. PICK i \in Items : i = cursor[p]
    BY ChosenFacts DEF SaveIntent
  <1> DEFINE it  == manifest.items[i]
             new == Intended(it)
             j   == WithItem(job[p], i, new)
  <1>1. /\ i \in Items /\ job[p] \in Job /\ job[p].items = manifest.items
        /\ manifest.items \in [Items -> Item]
        /\ \A k \in Items : Settled(k)
        /\ it.status # "succeeded" /\ results[i] = 0 /\ results' = results
    BY <1>0, ChosenFacts DEF SaveIntent
  <1>2. j.items = [manifest.items EXCEPT ![i] = new]
    <2> HIDE DEF new
    <2> QED
      BY <1>1, WithItemItems
  <1>3. Current(p) = it
    BY <1>0, <1>1 DEF Current
  <1>4. manifest' \in {manifest, j}
    <2>1. Saved(j) \/ SaveFailedOrCancelled(p, j)
      BY <1>0, <1>3 DEF SaveIntent
    <2> QED
      BY <2>1 DEF Saved, SaveFailed, SaveFailedOrCancelled
  <1>5. CASE manifest' = manifest
    BY <1>1, <1>5, NoItem
  <1>6. CASE manifest' = j
    <2>1. /\ manifest'.items[i] = new
          /\ \A k \in Items \ {i} : manifest'.items[k] = manifest.items[k]
      BY <1>1, <1>2, <1>6
    <2>2. new.status = "running" /\ new.attempts = it.attempts + 1
      BY DEF Intended
    <2>3. \A k \in Items : LedgerState(k) # "open"
      BY <1>1 DEF Settled, LedgerState, IInv, TypeOK, Job, Item, Status
    <2>4. LedgerState(i) # "done"
      BY <1>1 DEF LedgerState, IInv, TypeOK, Job, Item, Status
    <2>5. LedgerState(i)' = "open"
      BY <1>1, <2>1, <2>2 DEF LedgerState
    <2> HIDE DEF new, j
    <2> QED
      BY <1>1, <2>1, <2>2, <2>3, <2>4, <2>5, OneItem
  <1> QED
    BY <1>4, <1>5, <1>6

LEMMA CommitIsLedgerStep ==
    ASSUME IInv, NEW p \in Procs, Commit(p) \/ CommitFailed(p)
    PROVE  [Ledger!LedgerNext]_(Ledger!ledgerVars)
  <1>0. PICK i \in Items : i = cursor[p]
    BY TryingFacts DEF Commit, CommitFailed, Trying
  <1>1. /\ i \in Items /\ Current(p) = manifest.items[i] /\ Current(p).status = "running"
        /\ results[i] = 0 /\ ValidItem(Current(p)) /\ manifest' = manifest
    BY <1>0, TryingFacts DEF Commit, CommitFailed, Trying
  <1>2. Current(p).request # 0
    BY <1>1 DEF ValidItem
  <1>3. results' = results \/ results' = [results EXCEPT ![i] = Current(p).request]
    BY <1>0 DEF Commit, CommitFailed
  <1>4. CASE results' = results
    BY <1>1, <1>4, NoItem
  <1>5. CASE results' = [results EXCEPT ![i] = Current(p).request]
    <2>1. /\ results'[i] # 0
          /\ \A k \in Items \ {i} : results'[k] = results[k]
      BY <1>1, <1>2, <1>5 DEF IInv, TypeOK
    <2>2. LedgerState(i) = "open" /\ LedgerState(i)' = "done"
      BY <1>1, <2>1 DEF LedgerState
    <2> QED
      BY <1>1, <2>1, <2>2, OneItem
  <1> QED
    BY <1>3, <1>4, <1>5

LEMMA RecordIsLedgerStep ==
    ASSUME IInv, NEW p \in Procs, Record(p) \/ RecordFailed(p)
    PROVE  [Ledger!LedgerNext]_(Ledger!ledgerVars)
  <1>0. PICK i \in Items : i = cursor[p]
    BY DEF Record, RecordFailed, IInv, CursorOK, AtItem
  <1> DEFINE new == job[p].items[i]
  <1>1. /\ pc[p] = "recording" /\ i \in Items /\ results' = results
        /\ manifest' \in {manifest, job[p]}
    BY <1>0 DEF Record, RecordFailed, Saved, SaveFailed
  <1>2. /\ job[p].items = [manifest.items EXCEPT ![i] = new]
        /\ manifest.items[i].status = "running"
        /\ new.attempts = manifest.items[i].attempts
        /\ new.request = manifest.items[i].request
        /\ new.status \in {"succeeded", "failed", "uncertain"}
        /\ new.status = "succeeded" => results[i] = new.request
        /\ manifest.items \in [Items -> Item]
        /\ ValidItem(manifest.items[i])
    BY <1>0, <1>1 DEF IInv, PhaseInv, Records, TypeOK, Job, CopiesValid, ValidJob
  <1>3. CASE manifest' = manifest
    BY <1>1, <1>3, NoItem
  <1>4. CASE manifest' = job[p]
    <2>1. /\ manifest'.items[i] = new
          /\ \A k \in Items \ {i} : manifest'.items[k] = manifest.items[k]
      BY <1>1, <1>2, <1>4
    <2>2. new.status = "succeeded" => results[i] # 0
      BY <1>2 DEF ValidItem
    <2> HIDE DEF new
    <2>3. \/ LedgerState(i)' = LedgerState(i)
          \/ LedgerState(i) = "open" /\ LedgerState(i)' \in {"refused", "unknown"}
      BY <1>1, <1>2, <2>1, <2>2 DEF LedgerState
    <2> QED
      BY <1>1, <1>2, <2>1, <2>3, OneItem
  <1> QED
    BY <1>1, <1>3, <1>4

LEMMA LedgerStep == IInv /\ [Next]_vars => [Ledger!LedgerNext]_(Ledger!ledgerVars)
  <1> SUFFICES ASSUME IInv, [Next]_vars PROVE [Ledger!LedgerNext]_(Ledger!ledgerVars)
    OBVIOUS
  <1> USE DEF durable, local, provider
  <1>1. ASSUME NEW p \in Procs, Step(p) PROVE [Ledger!LedgerNext]_(Ledger!ledgerVars)
    <2>1. CASE ReconcileInterrupted(p) \/ SaveIntent(p) \/ Commit(p) \/ CommitFailed(p)
               \/ Record(p) \/ RecordFailed(p)
      BY <2>1, ReconcileIsLedgerStep, IntentIsLedgerStep, CommitIsLedgerStep, RecordIsLedgerStep
    <2>2. CASE UNCHANGED <<manifest, results>>
      BY <2>2, NoItem
    <2>3. \/ ReconcileInterrupted(p) \/ SaveIntent(p) \/ Commit(p) \/ CommitFailed(p)
          \/ Record(p) \/ RecordFailed(p)
          \/ UNCHANGED <<manifest, results>>
      BY <1>1 DEF Step, AcquireLock, LockRefused, Load, ReconcileSettled, ReconcileCancelled,
         ReconcileDone, Preflight, Skip, Reach, Finish, Paced, Recheck, ReadInputs, Dispatch,
         DispatchRefused, CallAnswered, CallFailed, Unlock
    <2> QED
      BY <2>1, <2>2, <2>3
  <1>2. CASE \E p \in Procs : Start(p) \/ Signal(p) \/ Crash(p)
    BY <1>2, NoItem DEF Start, Signal, Crash
  <1>3. CASE \E s \in Editable : Edit(s)
    BY <1>3, NoItem DEF Edit
  <1>4. CASE Tick
    <2>1. manifest'.items = manifest.items /\ results' = results
      BY <1>4 DEF Tick, IInv, TypeOK, Job
    <2> QED
      BY <2>1, NoItem
  <1>5. CASE UNCHANGED vars
    BY <1>5, NoItem DEF vars
  <1> QED
    BY <1>1, <1>2, <1>3, <1>4, <1>5 DEF Next

\* The engine keeps every promise of the ledger.
THEOREM LedgerIsImplemented == Spec => ImplementsLedger
  <1>1. Init => Ledger!LedgerInit
    BY LedgerInitially
  <1>2. IInv /\ [Next]_vars => [Ledger!LedgerNext]_(Ledger!ledgerVars)
    BY LedgerStep
  <1> QED
    BY <1>1, <1>2, Invariance, PTL DEF Spec, ImplementsLedger, Ledger!LedgerSpec

-----------------------------------------------------------------------------
(* What the ledger means for the record.                                   *)

\* No two items are being tried: what is in doubt is one request at most.
OneOpen ==
    \A i, j \in Items : LedgerState(i) = "open" /\ LedgerState(j) = "open" => i = j

\* A step of the ledger opens an item only when none is open, takes no
\* attempt back and leaves what is done.
LEMMA LedgerSteps ==
    ASSUME [Ledger!LedgerNext]_(Ledger!ledgerVars), TypeOK, TypeOK'
    PROVE  /\ OneOpen => OneOpen'
           /\ \A i \in Items :
                /\ LedgerState(i) = "done" => LedgerState(i)' = "done"
                /\ manifest.items[i].attempts <= manifest'.items[i].attempts
  <1> DEFINE s == [i \in Items |-> LedgerState(i)]
             a == [i \in Items |-> manifest.items[i].attempts]
  <1>1. /\ \A i \in Items : s[i] = LedgerState(i) /\ a[i] = manifest.items[i].attempts
        /\ \A i \in Items : s'[i] = LedgerState(i)' /\ a'[i] = manifest'.items[i].attempts
    OBVIOUS
  <1>2. \A i \in Items : a[i] \in Nat
    BY DEF TypeOK, Job, Item
  <1>3. \/ UNCHANGED <<s, a>>
        \/ \E f \in Items :
             /\ \A g \in Items : s[g] # "open"
             /\ s[f] # "done" /\ s' = [s EXCEPT ![f] = "open"] /\ a' = [a EXCEPT ![f] = @ + 1]
        \/ \E f \in Items, o \in {"done", "refused", "unknown"} :
             s[f] = "open" /\ s' = [s EXCEPT ![f] = o] /\ a' = a
    BY DEF Ledger!LedgerNext, Ledger!ledgerVars, Ledger!Open, Ledger!Close
  <1>4. DOMAIN s = Items /\ DOMAIN a = Items
    OBVIOUS
  <1> HIDE DEF s, a
  <1>5. CASE UNCHANGED <<s, a>>
    BY <1>1, <1>2, <1>5 DEF OneOpen
  <1>6. ASSUME NEW f \in Items, \A g \in Items : s[g] # "open", s[f] # "done",
               s' = [s EXCEPT ![f] = "open"], a' = [a EXCEPT ![f] = @ + 1]
        PROVE  /\ OneOpen'
               /\ \A i \in Items : (s[i] = "done" => s'[i] = "done") /\ a[i] <= a'[i]
    <2>1. \A i \in Items : s'[i] = IF i = f THEN "open" ELSE s[i]
      BY <1>4, <1>6
    <2>2. \A i \in Items : a'[i] = IF i = f THEN a[i] + 1 ELSE a[i]
      BY <1>4, <1>6
    <2> QED BY <1>1, <1>2, <1>6, <2>1, <2>2 DEF OneOpen
  <1>7. ASSUME NEW f \in Items, NEW o \in {"done", "refused", "unknown"}, s[f] = "open",
               s' = [s EXCEPT ![f] = o], a' = a
        PROVE  /\ OneOpen => OneOpen'
               /\ \A i \in Items : (s[i] = "done" => s'[i] = "done") /\ a[i] <= a'[i]
    <2>1. \A i \in Items : s'[i] = IF i = f THEN o ELSE s[i]
      BY <1>4, <1>7
    <2> QED BY <1>1, <1>2, <1>7, <2>1 DEF OneOpen
  <1> QED BY <1>1, <1>3, <1>5, <1>6, <1>7

\* However many processes run a job and however they end, the record never
\* has two items that are being tried.
THEOREM OneAtATime == Spec => []OneOpen
  <1>1. Init => OneOpen
    <2>1. Init => \A i \in Items : LedgerState(i) = "waiting"
      BY DEF Init, LedgerState, PlannedJob, PlannedItem
    <2> QED BY <2>1 DEF OneOpen
  <1>2. IInv /\ IInv' /\ OneOpen /\ [Next]_vars => OneOpen'
    BY LedgerStep, LedgerSteps DEF IInv
  <1> QED BY <1>1, <1>2, Invariance, PTL DEF Spec

\* What is done stays done and no attempt is ever taken back, by whatever
\* resumes, retries, reconciles or dies.
THEOREM DoneForGood ==
    Spec => [][\A i \in Items :
                 /\ LedgerState(i) = "done" => LedgerState(i)' = "done"
                 /\ manifest.items[i].attempts <= manifest'.items[i].attempts]_vars
  <1>1. IInv /\ IInv' /\ [Next]_vars =>
          [\A i \in Items :
             /\ LedgerState(i) = "done" => LedgerState(i)' = "done"
             /\ manifest.items[i].attempts <= manifest'.items[i].attempts]_vars
    BY LedgerStep, LedgerSteps DEF IInv
  <1> QED BY <1>1, Invariance, PTL DEF Spec
=============================================================================
