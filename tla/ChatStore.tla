----------------------------- MODULE ChatStore -----------------------------
(***************************************************************************)
(* Persistent chats: the turns of internal/cli/chat.go over the SQLite     *)
(* store of internal/store/store.go.                                       *)
(*                                                                         *)
(* Several hollis processes (or one REPL, turn after turn) use one         *)
(* database.  A continued turn holds the flock of hollis.db.chat.lock from *)
(* reading the history to storing the turn; a first turn, a rename and a   *)
(* delete do not.  Every store operation is one BEGIN IMMEDIATE            *)
(* transaction, so it is one step here.                                    *)
(*                                                                         *)
(* A message row keeps, besides its seq and role, how many messages the    *)
(* model was shown when the turn was run: histories only grow or vanish,   *)
(* so their length stands for their content.                               *)
(***************************************************************************)
EXTENDS Integers, Sequences

CONSTANTS
    Procs,          \* hollis processes
    Convs,          \* conversation ids newID may return
    MaxHistory,     \* chat.MaxHistoryMessages
    Faults,         \* what may go wrong: "model", "database", "crash"
    MaxCommands     \* bound: turns started

NoProc == "none"
NoConv == "no conversation"

ASSUME ChatConstants ==
    /\ NoProc \notin Procs
    /\ NoConv \notin Convs
    /\ MaxHistory \in Nat
    /\ MaxCommands \in Nat

VARIABLES
    exists,     \* ids with a row in conversations
    rows,       \* the messages of each conversation, by seq then id
    runs,       \* rows of the runs table: how many, by conversation and outcome
    minted,     \* ids newID has returned
    lock,       \* the process holding the continuation lock, or NoProc
    pc,         \* where each process is in its turn
    conv,       \* the conversation it continues, or NoConv
    history,    \* how many messages it read
    expired,    \* its turn context is over
    commands    \* turns started so far

database == <<exists, rows, runs, minted>>
turn     == <<conv, history, expired>>
vars     == <<database, lock, pc, turn, commands>>

Phases == {"idle", "locking", "reading", "running", "storing", "diagnosing", "unlocking"}
Row    == [seq : Nat, role : {"user", "assistant"}, basis : Nat]
Run    == [ok : Nat, failed : Nat]
NoRuns == [ok |-> 0, failed |-> 0]

Init ==
    /\ exists = {}
    /\ rows = [c \in Convs |-> <<>>]
    /\ runs = [c \in Convs \cup {NoConv} |-> NoRuns]
    /\ minted = {}
    /\ lock = NoProc
    /\ pc = [p \in Procs |-> "idle"]
    /\ conv = [p \in Procs |-> NoConv]
    /\ history = [p \in Procs |-> 0]
    /\ expired = [p \in Procs |-> FALSE]
    /\ commands = 0

Goto(p, phase) == pc' = [pc EXCEPT ![p] = phase]

\* The turn is over; nothing of it stays in memory.
Over(p) ==
    /\ Goto(p, "idle")
    /\ conv' = [conv EXCEPT ![p] = NoConv]
    /\ history' = [history EXCEPT ![p] = 0]
    /\ expired' = [expired EXCEPT ![p] = FALSE]

-----------------------------------------------------------------------------
(* A turn.                                                                 *)

\* ValidateTranscript: the completed turn must fit as well.
Fits(n) == n + 2 <= MaxHistory

\* runFirstTurn runs the model before any row is made, without the lock.
StartFirst(p) ==
    /\ pc[p] = "idle"
    /\ commands < MaxCommands
    /\ Fits(0)
    /\ commands' = commands + 1
    /\ Goto(p, "running")
    /\ UNCHANGED <<database, lock, turn>>

\* runTurnResult for a conversation that was once looked up: a REPL goes on
\* with an id that may have been deleted since.
StartContinue(p, c) ==
    /\ pc[p] = "idle"
    /\ c \in minted
    /\ commands < MaxCommands
    /\ commands' = commands + 1
    /\ conv' = [conv EXCEPT ![p] = c]
    /\ Goto(p, "locking")
    /\ UNCHANGED <<database, lock, history, expired>>

\* Mutant: the lock is not exclusive.
LockFree_Shared(p) == TRUE

LockFree(p) == lock = NoProc

\* LockContinuation polls LOCK_NB until it succeeds or the turn's time is up.
Lock(p) ==
    /\ pc[p] = "locking"
    /\ LockFree(p)
    /\ lock' = p
    /\ Goto(p, "reading")
    /\ UNCHANGED <<database, turn, commands>>

\* The time is up before the lock is free, or the lock file cannot be used.
LockFails(p) ==
    /\ pc[p] = "locking"
    /\ expired[p] \/ "database" \in Faults
    /\ Over(p)
    /\ UNCHANGED <<database, lock, commands>>

\* Messages, then the check that precedes the run; a refusal leaves no trace.
Read(p) ==
    /\ pc[p] = "reading"
    /\ \/ /\ Fits(Len(rows[conv[p]]))
          /\ history' = [history EXCEPT ![p] = Len(rows[conv[p]])]
          /\ Goto(p, "running")
       \/ /\ ~Fits(Len(rows[conv[p]])) \/ "database" \in Faults
          /\ Goto(p, "unlocking")
          /\ UNCHANGED history
    /\ UNCHANGED <<database, lock, conv, expired, commands>>

RunAnswers(p) ==
    /\ pc[p] = "running"
    /\ Goto(p, "storing")
    /\ UNCHANGED <<database, lock, turn, commands>>

RunFails(p) ==
    /\ pc[p] = "running"
    /\ "model" \in Faults
    /\ Goto(p, "diagnosing")
    /\ UNCHANGED <<database, lock, turn, commands>>

\* Mutant: the model is not given the context of the turn.
TimeIsUp_Ignored(p) == FALSE

TimeIsUp(p) == expired[p]

\* The runner returns when the turn's context is over.
RunStopped(p) ==
    /\ pc[p] = "running"
    /\ TimeIsUp(p)
    /\ Goto(p, "diagnosing")
    /\ UNCHANGED <<database, lock, turn, commands>>

\* A turn is a user row and an assistant row.
Turn(seq, n) ==
    <<[seq |-> seq, role |-> "user", basis |-> n],
      [seq |-> seq + 1, role |-> "assistant", basis |-> n]>>

\* insertRun for a turn that was answered.
RecordSuccess(c) == runs' = [runs EXCEPT ![c].ok = @ + 1]

\* nextMessageSeq: MAX(seq) + 1.
NextSeq(c) == IF rows[c] = <<>> THEN 0 ELSE rows[c][Len(rows[c])].seq + 1

\* CreateConversationWithTurn: the conversation appears with its first turn.
StoreFirst(p) ==
    /\ pc[p] = "storing"
    /\ conv[p] = NoConv
    /\ \E c \in Convs \ minted :
         /\ minted' = minted \cup {c}
         /\ exists' = exists \cup {c}
         /\ rows' = [rows EXCEPT ![c] = Turn(0, 0)]
         /\ RecordSuccess(c)
    /\ Over(p)
    /\ UNCHANGED <<lock, commands>>

\* Mutant: the rows are inserted whether or not the conversation is there.
Appendable_Always(c) == TRUE

\* nextMessageSeq looks the conversation up inside the transaction.
Appendable(c) == c \in exists

\* AppendTurn: both rows and the run's diagnostic, or an error and nothing.
StoreTurn(p) ==
    /\ pc[p] = "storing"
    /\ conv[p] # NoConv
    /\ LET c == conv[p] IN
         \/ /\ Appendable(c)
            /\ rows' = [rows EXCEPT ![c] = @ \o Turn(NextSeq(c), history[p])]
            /\ RecordSuccess(c)
         \/ ~Appendable(c) /\ UNCHANGED <<rows, runs>>
    /\ Goto(p, "unlocking")
    /\ UNCHANGED <<exists, minted, lock, turn, commands>>

\* RecordRunMetadata: the failed run, attached to its conversation if it has
\* one; when that is gone the insert is an error.
Diagnose(p) ==
    /\ pc[p] = "diagnosing"
    /\ \/ /\ conv[p] \in exists \cup {NoConv}
          /\ runs' = [runs EXCEPT ![conv[p]].failed = @ + 1]
       \/ conv[p] \notin exists \cup {NoConv} /\ UNCHANGED runs
    /\ Goto(p, "unlocking")
    /\ UNCHANGED <<exists, rows, minted, lock, turn, commands>>

\* The transaction cannot begin or commit: it is rolled back.
DatabaseFails(p) ==
    /\ "database" \in Faults
    /\ pc[p] \in {"storing", "diagnosing"}
    /\ Goto(p, "unlocking")
    /\ UNCHANGED <<database, lock, turn, commands>>

\* The deferred unlock (a first turn holds nothing).
Unlock(p) ==
    /\ pc[p] = "unlocking"
    /\ lock' = IF lock = p THEN NoProc ELSE lock
    /\ Over(p)
    /\ UNCHANGED <<database, commands>>

-----------------------------------------------------------------------------
(* The other commands and the environment.                                 *)

\* Mutant: the run diagnostics of a deleted conversation are left behind.
Deleted_KeepsRuns(c) == UNCHANGED runs

Deleted(c) == runs' = [runs EXCEPT ![c] = NoRuns]

\* DeleteConversation: three DELETEs in one transaction, without the lock.
Delete(c) ==
    /\ c \in exists
    /\ exists' = exists \ {c}
    /\ rows' = [rows EXCEPT ![c] = <<>>]
    /\ Deleted(c)
    /\ UNCHANGED <<minted, lock, pc, turn, commands>>

Expire(p) ==
    /\ pc[p] # "idle"
    /\ ~expired[p]
    /\ expired' = [expired EXCEPT ![p] = TRUE]
    /\ UNCHANGED <<database, lock, pc, conv, history, commands>>

\* The process dies: its transaction never was, the kernel drops its lock.
Crash(p) ==
    /\ "crash" \in Faults
    /\ pc[p] # "idle"
    /\ lock' = IF lock = p THEN NoProc ELSE lock
    /\ Over(p)
    /\ UNCHANGED <<database, commands>>

-----------------------------------------------------------------------------

Step(p) ==
    \/ Lock(p) \/ LockFails(p) \/ Read(p) \/ RunStopped(p)
    \/ StoreFirst(p) \/ StoreTurn(p) \/ Diagnose(p) \/ DatabaseFails(p) \/ Unlock(p)

Model(p) == RunAnswers(p) \/ RunFails(p)

Next ==
    \/ \E p \in Procs : StartFirst(p) \/ Step(p) \/ Model(p) \/ Expire(p) \/ Crash(p)
    \/ \E p \in Procs, c \in Convs : StartContinue(p, c)
    \/ \E c \in Convs : Delete(c)

Spec == Init /\ [][Next]_vars

\* Processes go on and every turn has a deadline (--timeout is never 0); the
\* model owes no answer.
Fairness == \A p \in Procs : WF_vars(Step(p)) /\ WF_vars(Expire(p))

FairSpec == Spec /\ Fairness

-----------------------------------------------------------------------------
(* Properties.                                                             *)

\* Every variable has its type, and no turn is run that would not fit.
TypeOK ==
    /\ exists \subseteq minted /\ minted \subseteq Convs
    /\ rows \in [Convs -> Seq(Row)]
    /\ runs \in [Convs \cup {NoConv} -> Run]
    /\ lock \in Procs \cup {NoProc}
    /\ pc \in [Procs -> Phases]
    /\ conv \in [Procs -> Convs \cup {NoConv}]
    /\ history \in [Procs -> Nat]
    /\ \A p \in Procs :
         pc[p] \in {"running", "storing"} => history[p] + 2 <= MaxHistory
    /\ expired \in [Procs -> BOOLEAN]
    /\ commands \in Nat

\* Turns are serial: the messages of a conversation are numbered without gap
\* or repetition, users and assistants alternate, and each answer was given
\* to exactly the messages stored before it, whatever else ran meanwhile.
TurnsAreSerial ==
    \A c \in Convs : \A k \in 1..Len(rows[c]) :
        LET row == rows[c][k] IN
        /\ row.seq = k - 1
        /\ row.role = IF k % 2 = 1 THEN "user" ELSE "assistant"
        /\ row.basis = 2 * ((k - 1) \div 2)

\* Concurrent continuations never exceed the history limit together.
HistoryBounded == \A c \in Convs : Len(rows[c]) <= MaxHistory

\* Nothing is left of a deleted conversation, none is visible without a
\* turn, and each stored turn has its run diagnostic.
NoOrphans ==
    /\ \A c \in Convs \ exists : rows[c] = <<>> /\ runs[c] = NoRuns
    /\ \A c \in exists : rows[c] # <<>> /\ Len(rows[c]) = 2 * runs[c].ok

\* Every turn ends, however long another one keeps the lock.
TurnEnds == \A p \in Procs : pc[p] # "idle" ~> pc[p] = "idle"
=============================================================================
