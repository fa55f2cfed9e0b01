----------------------------- MODULE Migration -----------------------------
(***************************************************************************)
(* Opening the chat database (internal/store/store.go: Open, migrate):     *)
(* processes that open it at once, the backup, the stages of the upgrade   *)
(* inside one write transaction, and the messages that open stores append. *)
(*                                                                         *)
(* An upgrade may fail at any stage and its process may die; SQLite then   *)
(* rolls the transaction back.  One conversation stands for all: rows are  *)
(* numbered and repaired per conversation.  A message is its id, from 1 on *)
(* in the order of insertion; seqs[id] is its sequence number.             *)
(***************************************************************************)
EXTENDS Integers, Sequences, FiniteSets

CONSTANTS
    Procs,          \* hollis processes
    Databases,      \* what may be found at the path
    Faults,         \* what may go wrong: "disk", "crash"
    MaxOpens,       \* bound: calls of Open
    MaxMessages     \* bound: messages in the database

NoProc == "none"

SchemaVersion == 3

\* user_version, the messages, the unique index on their numbers, the layout
\* of the runs table, how conversations keep their time, the search tables
\* with their triggers, and the messages they hold.
Database ==
    [version : Nat, seqs : Seq(Int), unique : BOOLEAN,
     runs : {"none", "legacy", "partial", "current"},
     time : {"text", "badtext", "column"},
     search : BOOLEAN, indexed : SUBSET (Nat \ {0})]

Blank ==
    [version |-> 0, seqs |-> <<>>, unique |-> FALSE, runs |-> "none", time |-> "text",
     search |-> FALSE, indexed |-> {}]

Ids(d) == DOMAIN d.seqs

\* a comes before b: by number, then by id.
Before(seqs, a, b) == seqs[a] < seqs[b] \/ (seqs[a] = seqs[b] /\ a < b)

Duplicated(seqs) == \E a, b \in DOMAIN seqs : a # b /\ seqs[a] = seqs[b]

\* A unique index admits no duplicates, and messages are indexed by the trigger
\* that inserts them or by a rebuild of the whole: all are or none is.
ASSUME MigrationConstants ==
    /\ Databases \subseteq Database
    /\ \A d \in Databases : /\ \A id \in Ids(d) : d.seqs[id] >= 0
                            /\ d.unique => ~Duplicated(d.seqs)
                            /\ d.indexed \in {{}, Ids(d)}
    /\ NoProc \notin Procs
    /\ MaxOpens \in Nat /\ MaxMessages \in Nat

VARIABLES
    original,   \* ghost: the database as it was found
    db,         \* durable: what is committed
    backups,    \* durable: the contents of the retained backups
    lock,       \* the process with the flock on <path>.migration.lock
    pc,         \* where each process is in Open
    writer,     \* the process in a write transaction of migrate
    draft,      \* the database as that transaction sees it
    rank,       \* repairDuplicateSequences: the new number of each message
    step,       \* and how many UPDATEs it has made
    opens       \* calls of Open so far

work == <<draft, rank, step>>
vars == <<original, db, backups, lock, pc, writer, work, opens>>

Upgrading == {"schema", "repairing", "runs", "unique", "time", "backfill", "committing"}
Opening   == Upgrading \cup {"inspecting", "backing", "beginning", "protecting"}
Phases    == Opening \cup {"idle", "locking", "open"}

Init ==
    /\ original \in Databases
    /\ db = original
    /\ backups = {}
    /\ lock = NoProc
    /\ pc = [p \in Procs |-> "idle"]
    /\ writer = NoProc
    /\ draft = Blank
    /\ rank = <<>>
    /\ step = 0
    /\ opens = 0

Goto(p, phase) == pc' = [pc EXCEPT ![p] = phase]

-----------------------------------------------------------------------------
(* Open, up to the upgrade.                                                *)

Open(p) ==
    /\ pc[p] = "idle"
    /\ opens < MaxOpens
    /\ opens' = opens + 1
    /\ Goto(p, "locking")
    /\ UNCHANGED <<original, db, backups, lock, writer, work>>

Lock(p) ==
    /\ pc[p] = "locking"
    /\ lock = NoProc
    /\ lock' = p
    /\ Goto(p, "inspecting")
    /\ UNCHANGED <<original, db, backups, writer, work, opens>>

\* The lock is waited for for 5 seconds.
LockTimeout(p) ==
    /\ pc[p] = "locking"
    /\ Goto(p, "idle")
    /\ UNCHANGED <<original, db, backups, lock, writer, work, opens>>

\* There are messages and none is indexed.
NeedsBackfill(d) == Ids(d) # {} /\ d.indexed = {}

\* Mutant: an empty search index is not looked for.
NeedsMigration_Shallow(d) ==
    d.version < SchemaVersion \/ ~d.unique \/ ~d.search \/ d.runs # "current" \/ d.time # "column"

NeedsMigration(d) ==
    \/ d.version < SchemaVersion
    \/ ~d.unique \/ ~d.search \/ d.runs # "current" \/ d.time # "column"
    \/ NeedsBackfill(d)

\* Mutant: only what has search tables is backed up.
Existing_Searchable(d) == {d.search}

\* The file had bytes in it; those of a new one may be SQLite's header.
Existing(d) == {TRUE} \cup (IF d = Blank THEN {FALSE} ELSE {})

Inspect(p) ==
    /\ pc[p] = "inspecting"
    /\ db.version <= SchemaVersion
    /\ \/ ~NeedsMigration(db) /\ Goto(p, "protecting")
       \/ \E existing \in Existing(db) :
            NeedsMigration(db) /\ Goto(p, IF existing THEN "backing" ELSE "beginning")
    /\ UNCHANGED <<original, db, backups, lock, writer, work, opens>>

\* The database is of a later version of hollis.
TooNew(p) ==
    /\ pc[p] = "inspecting"
    /\ db.version > SchemaVersion
    /\ lock' = NoProc
    /\ Goto(p, "idle")
    /\ UNCHANGED <<original, db, backups, writer, work, opens>>

Backup(p) ==
    /\ pc[p] = "backing"
    /\ backups' = backups \cup {db}
    /\ Goto(p, "beginning")
    /\ UNCHANGED <<original, db, lock, writer, work, opens>>

-----------------------------------------------------------------------------
(* migrate: the stages of one transaction.                                 *)

Begin(p) ==
    /\ pc[p] = "beginning"
    /\ writer = NoProc
    /\ writer' = p
    /\ draft' = db
    /\ Goto(p, "schema")
    /\ UNCHANGED <<original, db, backups, lock, rank, step, opens>>

\* Mutant: messages are renumbered in the order of their ids.
Ranks_ById(seqs) == [id \in DOMAIN seqs |-> id - 1]

Ranks(seqs) ==
    [id \in DOMAIN seqs |-> Cardinality({other \in DOMAIN seqs : Before(seqs, other, id)})]

\* CREATE ... IF NOT EXISTS of everything, then the duplicates are looked for.
Schema(p) ==
    /\ pc[p] = "schema"
    /\ draft' = [draft EXCEPT !.search = TRUE,
                              !.runs = IF @ = "none" THEN "current" ELSE @]
    /\ rank' = Ranks(draft.seqs)
    /\ step' = 0
    /\ Goto(p, IF Duplicated(draft.seqs) THEN "repairing" ELSE "runs")
    /\ UNCHANGED <<original, db, backups, lock, writer, opens>>

\* The message whose turn it is, in either pass.
Subject ==
    CHOOSE id \in DOMAIN rank : rank[id] = IF step < Len(rank) THEN step ELSE step - Len(rank)

\* Mutant: rows get their final number at once.
NewNumber_Direct(id) == rank[id]

\* The first pass moves every row out of the way.
NewNumber(id) == IF step < Len(rank) THEN -id - 1 ELSE rank[id]

Repair(p) ==
    /\ pc[p] = "repairing"
    /\ draft' = [draft EXCEPT !.seqs[Subject] = NewNumber(Subject)]
    /\ step' = step + 1
    /\ Goto(p, IF step' = 2 * Len(rank) THEN "runs" ELSE "repairing")
    /\ UNCHANGED <<original, db, backups, lock, writer, rank, opens>>

\* A runs table with some of the new columns is refused.
Runs(p) ==
    /\ pc[p] = "runs"
    /\ draft.runs # "partial"
    /\ draft' = [draft EXCEPT !.runs = "current"]
    /\ Goto(p, "unique")
    /\ UNCHANGED <<original, db, backups, lock, writer, rank, step, opens>>

Unique(p) ==
    /\ pc[p] = "unique"
    /\ ~Duplicated(draft.seqs)
    /\ draft' = [draft EXCEPT !.unique = TRUE]
    /\ Goto(p, "time")
    /\ UNCHANGED <<original, db, backups, lock, writer, rank, step, opens>>

\* A time that cannot be read is refused.
Time(p) ==
    /\ pc[p] = "time"
    /\ draft.time # "badtext"
    /\ draft' = [draft EXCEPT !.time = "column", !.version = SchemaVersion]
    /\ Goto(p, "backfill")
    /\ UNCHANGED <<original, db, backups, lock, writer, rank, step, opens>>

Backfill(p) ==
    /\ pc[p] = "backfill"
    /\ draft' = IF NeedsBackfill(draft) THEN [draft EXCEPT !.indexed = Ids(draft)] ELSE draft
    /\ Goto(p, "committing")
    /\ UNCHANGED <<original, db, backups, lock, writer, rank, step, opens>>

Forget ==
    /\ writer' = NoProc
    /\ draft' = Blank
    /\ rank' = <<>>
    /\ step' = 0

Commit(p) ==
    /\ pc[p] = "committing"
    /\ db' = draft
    /\ Forget
    /\ Goto(p, "protecting")
    /\ UNCHANGED <<original, backups, lock, opens>>

\* Every return with an error: rolled back, closed, unlocked.
GiveUp(p) ==
    /\ IF writer = p THEN Forget ELSE UNCHANGED <<writer, work>>
    /\ lock' = IF lock = p THEN NoProc ELSE lock
    /\ Goto(p, "idle")
    /\ UNCHANGED <<original, db, backups, opens>>

Refused(p) ==
    \/ pc[p] = "runs" /\ draft.runs = "partial"
    \/ pc[p] = "unique" /\ Duplicated(draft.seqs)
    \/ pc[p] = "time" /\ draft.time = "badtext"

Fails(p) ==
    /\ Refused(p) \/ ("disk" \in Faults /\ pc[p] \in Opening)
    /\ GiveUp(p)

Opened(p) ==
    /\ pc[p] = "protecting"
    /\ lock' = NoProc
    /\ Goto(p, "open")
    /\ UNCHANGED <<original, db, backups, writer, work, opens>>

-----------------------------------------------------------------------------
(* An open store, and the death of a process.                              *)

\* COALESCE(MAX(seq), -1) + 1
NextSeq(seqs) ==
    IF seqs = <<>> THEN 0
    ELSE 1 + (CHOOSE n \in {seqs[id] : id \in DOMAIN seqs} : \A id \in DOMAIN seqs : seqs[id] <= n)

\* The trigger on messages indexes the row with it.
AppendMessage(p) ==
    /\ pc[p] = "open"
    /\ writer = NoProc
    /\ Len(db.seqs) < MaxMessages
    /\ db' = [db EXCEPT !.seqs = Append(@, NextSeq(@)),
                        !.indexed = IF db.search THEN @ \cup {Len(db.seqs) + 1} ELSE @]
    /\ UNCHANGED <<original, backups, lock, pc, writer, work, opens>>

Close(p) ==
    /\ pc[p] = "open"
    /\ Goto(p, "idle")
    /\ UNCHANGED <<original, db, backups, lock, writer, work, opens>>

Crash(p) ==
    /\ "crash" \in Faults
    /\ pc[p] # "idle"
    /\ GiveUp(p)

-----------------------------------------------------------------------------

Next ==
    \E p \in Procs :
        \/ Open(p) \/ Lock(p) \/ LockTimeout(p) \/ Inspect(p) \/ TooNew(p) \/ Backup(p)
        \/ Begin(p) \/ Schema(p) \/ Repair(p) \/ Runs(p) \/ Unique(p) \/ Time(p)
        \/ Backfill(p) \/ Commit(p) \/ Fails(p) \/ Opened(p)
        \/ AppendMessage(p) \/ Close(p) \/ Crash(p)

Spec == Init /\ [][Next]_vars

-----------------------------------------------------------------------------
(* Properties.                                                             *)

\* Every variable has its type, and a transaction belongs to a holder of the
\* lock that is upgrading.
TypeOK ==
    /\ original \in Database /\ db \in Database /\ draft \in Database
    /\ backups \subseteq Database
    /\ lock \in Procs \cup {NoProc}
    /\ pc \in [Procs -> Phases]
    /\ writer \in Procs \cup {NoProc}
    /\ \A p \in Procs : pc[p] \in Upgrading <=> writer = p
    /\ rank \in Seq(Nat)
    /\ step \in 0..(2 * Len(rank))
    /\ opens \in Nat

\* Everything a store relies on is there.
Complete(d) ==
    /\ d.version = SchemaVersion
    /\ d.unique /\ ~Duplicated(d.seqs)
    /\ d.runs = "current" /\ d.time = "column"
    /\ d.search /\ d.indexed = Ids(d)

\* However many openings failed, were interrupted or raced before, a process
\* that has the store open finds everything in place and every message can be
\* found; and no opening leaves anything but that or the database it found.
UpgradeIsWhole ==
    /\ (\E p \in Procs : pc[p] = "open") => Complete(db)
    /\ db # original => Complete(db)

\* No message is lost or changes its place, whatever its number becomes.
OrderKept ==
    LET old == Ids(original) IN
    /\ old \subseteq Ids(db)
    /\ \A a \in Ids(db), b \in Ids(db) :
         Before(db.seqs, a, b) <=> IF a \in old /\ b \in old THEN Before(original.seqs, a, b)
                                   ELSE a < b

\* Nothing that was there is changed by an upgrade before a backup of it is.
BackedUpFirst ==
    [][ writer # NoProc /\ db' # db => db = Blank \/ db \in backups ]_vars

\* "Move rows to unique temporary values first, so a future unique constraint
\* cannot observe a transient collision": no UPDATE gives a row a number that
\* another row has at that moment.
NoTransientCollision ==
    [][ writer # NoProc /\ writer' = writer /\ Len(draft'.seqs) = Len(draft.seqs) =>
          \A a \in Ids(draft) :
             draft'.seqs[a] # draft.seqs[a] =>
                \A b \in Ids(draft) \ {a} : draft'.seqs[b] # draft'.seqs[a] ]_vars
=============================================================================
