------------------------------ MODULE Subproc ------------------------------
(***************************************************************************)
(* One call of subproc.Run or subproc.Scan (internal/subproc/subproc.go):  *)
(* the calling goroutine, the watcher, the two drain goroutines, the one   *)
(* with which exec.Cmd feeds the child's standard input, and the child's   *)
(* processes, which fork, leave the process group, hold their ends of the  *)
(* pipes and exit as they like.                                            *)
(*                                                                         *)
(* What is written is a chunk: "line" is ordinary, "bad" is a line the     *)
(* Scan callback rejects, "long" one that exceeds LineCap.                 *)
(***************************************************************************)
EXTENDS Naturals, Sequences

CONSTANTS
    Leader,     \* the child hollis starts, leader of the process group
    Kids,       \* the descendants it may have
    Scanning,   \* TRUE: Scan with a callback, FALSE: Run
    Cap,        \* StdoutCap and StderrCap, in chunks
    PipeSize,   \* chunks a pipe holds before its writer blocks
    MaxChunks,  \* bound: chunks written to a stream
    Input,      \* Spec.Stdin: "nil", or "short" (it fits into a pipe) or "long"
    Faults      \* what may go wrong: "start", "read"

ASSUME SubprocConstants ==
    /\ Leader \notin Kids
    /\ Scanning \in BOOLEAN
    /\ Cap \in Nat \ {0}
    /\ PipeSize \in Nat \ {0}
    /\ MaxChunks \in Nat
    /\ Input \in {"nil", "short", "long"}

Procs   == {Leader} \cup Kids
Streams == {"stdout", "stderr"}
Chunks  == {"line", "bad", "long"}

\* What the child has of the pipes: the write ends of its output and, unless
\* that is /dev/null, the read end of its input.
Ends == Streams \cup (IF Input = "nil" THEN {} ELSE {"stdin"})

Capturing(s) == ~(Scanning /\ s = "stdout")

VARIABLES
    ctx,        \* "live", or "done" once the deadline passed or the caller cancelled
    pc,         \* where execute is
    watcher,    \* the goroutine that kills on ctx.Done: "none", "armed", "done"
    stop,       \* stopWatcher is closed
    drain,      \* per stream: "none", "reading", "aborting", or how its goroutine ended
    captured,   \* chunks kept per stream
    truncated,  \* chunks were dropped because of the cap
    closed,     \* the read ends are closed
    alive,      \* the child's processes that run
    born,       \* those that were ever started
    group,      \* the processes in the child's process group
    holds,      \* the ends each process has open
    pipe,       \* chunks written and not yet read
    feeding,    \* exec.Cmd's goroutine is copying Spec.Stdin to the child
    taken,      \* the group's id belongs to an unrelated group
    sent,       \* ghost: chunks written per stream
    got,        \* ghost: chunks read per stream
    killed,     \* ghost: processes hollis killed
    collateral, \* ghost: hollis sent SIGKILL to an unrelated group
    outcome     \* "none", or what execute returned

process == <<alive, born, group, holds, taken>>
reading == <<drain, captured, truncated, got>>
ghosts  == <<killed, collateral>>
vars    == <<ctx, pc, watcher, stop, feeding, reading, closed, process, pipe,
             sent, ghosts, outcome>>

Phases   == {"begin", "starting", "waiting", "feeding", "draining", "closing", "stopping",
             "joining", "killing", "classifying", "returned"}
Ended    == {"eof", "closed", "overflow", "rejected", "error"}
Outcomes == {"none", "ok", "expired", "rejected", "error"}

Init ==
    /\ ctx = "live"
    /\ pc = "begin"
    /\ watcher = "none"
    /\ stop = FALSE
    /\ drain = [s \in Streams |-> "none"]
    /\ captured = [s \in Streams |-> 0]
    /\ truncated = [s \in Streams |-> FALSE]
    /\ closed = FALSE
    /\ alive = {}
    /\ born = {}
    /\ group = {}
    /\ holds = [p \in Procs |-> {}]
    /\ pipe = [s \in Streams |-> <<>>]
    /\ feeding = FALSE
    /\ taken = FALSE
    /\ sent = [s \in Streams |-> 0]
    /\ got = [s \in Streams |-> 0]
    /\ killed = {}
    /\ collateral = FALSE
    /\ outcome = "none"

-----------------------------------------------------------------------------
(* The calling goroutine.                                                  *)

Goto(phase) == pc' = phase

Returned(o) == Goto("returned") /\ outcome' = o

\* An expired context never reaches Start.
Begin ==
    /\ pc = "begin"
    /\ \/ ctx = "done" /\ Returned("expired")
       \/ ctx = "live" /\ Goto("starting") /\ UNCHANGED outcome
    /\ UNCHANGED <<feeding, ctx, watcher, stop, reading, closed, process, pipe,
                   sent, ghosts>>

\* The child runs in a new group, holding its ends; the parent's copies are
\* closed and the goroutines are started, that for the input by cmd.Start.
Start ==
    /\ pc = "starting"
    /\ alive' = {Leader}
    /\ born' = {Leader}
    /\ group' = {Leader}
    /\ holds' = [holds EXCEPT ![Leader] = Ends]
    /\ feeding' = (Input # "nil")
    /\ watcher' = "armed"
    /\ drain' = [s \in Streams |-> "reading"]
    /\ Goto("waiting")
    /\ UNCHANGED <<ctx, stop, captured, truncated, got, closed, taken, pipe,
                   sent, ghosts, outcome>>

\* A pipe or the command cannot be created.
StartFailed ==
    /\ pc = "starting"
    /\ "start" \in Faults
    /\ Returned(IF ctx = "done" THEN "expired" ELSE "error")
    /\ UNCHANGED <<feeding, ctx, watcher, stop, reading, closed, process, pipe,
                   sent, ghosts>>

\* cmd.Wait reaps the leader, and then waits for the copier of the input.
Reap ==
    /\ pc = "waiting"
    /\ Leader \notin alive
    /\ group' = group \ {Leader}
    /\ Goto("feeding")
    /\ UNCHANGED <<feeding, ctx, watcher, stop, reading, closed, alive, born,
                   holds, taken, pipe, sent, ghosts, outcome>>

\* There is no wait delay: cmd.Wait returns when the copier does.
AwaitFeeder ==
    /\ pc = "feeding"
    /\ ~feeding
    /\ Goto("draining")
    /\ UNCHANGED <<feeding, ctx, watcher, stop, reading, closed, process, pipe,
                   sent, ghosts, outcome>>

Drained == \A s \in Streams : drain[s] \in Ended

\* Mutant: the end of the capture is awaited without a deadline.
AwaitDrains_NoDeadline ==
    /\ pc = "draining"
    /\ Drained
    /\ Goto("stopping")
    /\ UNCHANGED <<feeding, ctx, watcher, stop, reading, closed, process, pipe,
                   sent, ghosts, outcome>>

\* The select: every drain has ended, or the context has and the read ends
\* are closed to end them.
AwaitDrains ==
    /\ pc = "draining"
    /\ \/ Drained /\ Goto("stopping") /\ UNCHANGED closed
       \/ ctx = "done" /\ closed' = TRUE /\ Goto("closing")
    /\ UNCHANGED <<feeding, ctx, watcher, stop, reading, process, pipe, sent,
                   ghosts, outcome>>

\* Mutant: the closed read ends are not waited for.
AwaitClosed_Skipped ==
    /\ pc = "closing"
    /\ Goto("stopping")
    /\ UNCHANGED <<feeding, ctx, watcher, stop, reading, closed, process, pipe,
                   sent, ghosts, outcome>>

AwaitClosed ==
    /\ pc = "closing"
    /\ Drained
    /\ Goto("stopping")
    /\ UNCHANGED <<feeding, ctx, watcher, stop, reading, closed, process, pipe,
                   sent, ghosts, outcome>>

\* close(stopWatcher), and watcher.Wait.
StopWatcher ==
    /\ pc = "stopping"
    /\ stop' = TRUE
    /\ Goto("joining")
    /\ UNCHANGED <<feeding, ctx, watcher, reading, closed, process, pipe, sent,
                   ghosts, outcome>>

JoinWatcher ==
    /\ pc = "joining"
    /\ watcher = "done"
    /\ Goto("killing")
    /\ UNCHANGED <<feeding, ctx, watcher, stop, reading, closed, process, pipe,
                   sent, ghosts, outcome>>

\* SIGKILL to the group id: its living members die and their ends close.
KillGroup ==
    /\ alive' = alive \ group
    /\ holds' = [p \in Procs |-> IF p \in alive \cap group THEN {} ELSE holds[p]]
    /\ killed' = killed \cup (alive \cap group)
    /\ collateral' = (collateral \/ taken)

\* Mutant: a clean exit leaves the group alone.
FinalKill_Skipped ==
    /\ pc = "killing"
    /\ closed' = TRUE
    /\ Goto("classifying")
    /\ UNCHANGED <<feeding, ctx, watcher, stop, reading, process, pipe, sent,
                   ghosts, outcome>>

\* The kill on every exit path, then the (second) close of the read ends.
FinalKill ==
    /\ pc = "killing"
    /\ KillGroup
    /\ closed' = TRUE
    /\ Goto("classifying")
    /\ UNCHANGED <<feeding, ctx, watcher, stop, reading, born, group, taken,
                   pipe, sent, outcome>>

\* Mutant: the context is not consulted after the run.
Verdict_NoContext ==
    IF drain["stdout"] = "rejected" THEN "rejected"
    ELSE IF \E s \in Streams : drain[s] = "error" THEN "error" ELSE "ok"

\* The context has the last word, then the callback, then the readers.
Verdict ==
    IF ctx = "done" THEN "expired"
    ELSE IF drain["stdout"] = "rejected" THEN "rejected"
    ELSE IF \E s \in Streams : drain[s] = "error" THEN "error" ELSE "ok"

Classify ==
    /\ pc = "classifying"
    /\ Returned(Verdict)
    /\ UNCHANGED <<feeding, ctx, watcher, stop, reading, closed, process, pipe,
                   sent, ghosts>>

-----------------------------------------------------------------------------
(* The watcher and the drains.                                             *)

Watch ==
    /\ watcher = "armed"
    /\ watcher' = "done"
    /\ \/ ctx = "done" /\ KillGroup
       \/ stop /\ UNCHANGED <<alive, holds, ghosts>>
    /\ UNCHANGED <<feeding, ctx, pc, stop, reading, closed, born, group, taken,
                   pipe, sent, outcome>>

Open(e) == \E p \in alive : e \in holds[p]

\* The copier ends when all is written, or when nobody is left to read it
\* (EPIPE, which exec.Cmd ignores).  A long input blocks it.
FeedEnds ==
    /\ feeding
    /\ Input = "short" \/ ~Open("stdin")
    /\ feeding' = FALSE
    /\ UNCHANGED <<ctx, pc, watcher, stop, reading, closed, process, pipe,
                   sent, ghosts, outcome>>

\* End of file: nothing left to read and no process holds the write end.
ReadEOF(s) ==
    /\ drain[s] = "reading"
    /\ ~closed
    /\ pipe[s] = <<>>
    /\ ~Open(s)
    /\ drain' = [drain EXCEPT ![s] = "eof"]
    /\ UNCHANGED <<feeding, ctx, pc, watcher, stop, captured, truncated, got,
                   closed, process, pipe, sent, ghosts, outcome>>

\* The read end was closed: what is in the pipe is lost, no error is kept.
ReadClosed(s) ==
    /\ drain[s] = "reading"
    /\ closed
    /\ drain' = [drain EXCEPT ![s] = "closed"]
    /\ UNCHANGED <<feeding, ctx, pc, watcher, stop, captured, truncated, got,
                   closed, process, pipe, sent, ghosts, outcome>>

\* The read, or the write to the caller's sink, fails.
ReadFails(s) ==
    /\ "read" \in Faults
    /\ drain[s] = "reading"
    /\ drain' = [drain EXCEPT ![s] = "error"]
    /\ UNCHANGED <<feeding, ctx, pc, watcher, stop, captured, truncated, got,
                   closed, process, pipe, sent, ghosts, outcome>>

\* What the reader of s makes of a chunk: the callback may reject a line, and
\* a line beyond the cap ends the scan.
AfterChunk(s, c) ==
    CASE ~Capturing(s) /\ c = "bad"  -> "aborting"
      [] ~Capturing(s) /\ c = "long" -> "overflow"
      [] OTHER                       -> "reading"

Overfull(s) == Capturing(s) /\ captured[s] = Cap

\* capture.Write keeps Cap chunks and goes on draining; Scan calls back.
ReadChunk(s) ==
    /\ drain[s] = "reading"
    /\ ~closed
    /\ pipe[s] # <<>>
    /\ pipe' = [pipe EXCEPT ![s] = Tail(@)]
    /\ got' = [got EXCEPT ![s] = @ + 1]
    /\ drain' = [drain EXCEPT ![s] = AfterChunk(s, Head(pipe[s]))]
    /\ captured' = [captured EXCEPT ![s] = IF Overfull(s) THEN @ ELSE @ + 1]
    /\ truncated' = [truncated EXCEPT ![s] = @ \/ Overfull(s)]
    /\ UNCHANGED <<feeding, ctx, pc, watcher, stop, closed, process, sent,
                   ghosts, outcome>>

\* A rejected line: the group is killed and both read ends are closed.
Abort ==
    /\ drain["stdout"] = "aborting"
    /\ KillGroup
    /\ closed' = TRUE
    /\ drain' = [drain EXCEPT !["stdout"] = "rejected"]
    /\ UNCHANGED <<feeding, ctx, pc, watcher, stop, captured, truncated, got,
                   born, group, taken, pipe, sent, outcome>>

-----------------------------------------------------------------------------
(* The context and the child's processes.                                  *)

Expire ==
    /\ ctx = "live"
    /\ ctx' = "done"
    /\ UNCHANGED <<feeding, pc, watcher, stop, reading, closed, process, pipe,
                   sent, ghosts, outcome>>

\* A descendant inherits its parent's group and open ends.
Fork(p, k) ==
    /\ p \in alive
    /\ k \in Kids \ born
    /\ alive' = alive \cup {k}
    /\ born' = born \cup {k}
    /\ group' = IF p \in group THEN group \cup {k} ELSE group
    /\ holds' = [holds EXCEPT ![k] = holds[p]]
    /\ UNCHANGED <<feeding, ctx, pc, watcher, stop, reading, closed, taken,
                   pipe, sent, ghosts, outcome>>

\* setsid: only a process that does not lead the group can leave it.
Leave(k) ==
    /\ k \in Kids \cap alive \cap group
    /\ group' = group \ {k}
    /\ UNCHANGED <<feeding, ctx, pc, watcher, stop, reading, closed, alive,
                   born, holds, taken, pipe, sent, ghosts, outcome>>

CloseEnd(p, e) ==
    /\ p \in alive
    /\ e \in holds[p]
    /\ holds' = [holds EXCEPT ![p] = @ \ {e}]
    /\ UNCHANGED <<feeding, ctx, pc, watcher, stop, reading, closed, alive,
                   born, group, taken, pipe, sent, ghosts, outcome>>

\* A write blocks while the pipe is full and fails once it has no reader.
Write(p, s, c) ==
    /\ p \in alive
    /\ s \in holds[p]
    /\ Capturing(s) => c = "line"
    /\ ~closed
    /\ Len(pipe[s]) < PipeSize
    /\ sent[s] < MaxChunks
    /\ pipe' = [pipe EXCEPT ![s] = Append(@, c)]
    /\ sent' = [sent EXCEPT ![s] = @ + 1]
    /\ UNCHANGED <<feeding, ctx, pc, watcher, stop, reading, closed, process,
                   ghosts, outcome>>

\* The child reads so much of its input that the rest fits into the pipe.
ReadInput(p) ==
    /\ p \in alive
    /\ "stdin" \in holds[p]
    /\ feeding
    /\ feeding' = FALSE
    /\ UNCHANGED <<ctx, pc, watcher, stop, reading, closed, process, pipe,
                   sent, ghosts, outcome>>

\* A dead leader stays in the group until it is reaped.
Exit(p) ==
    /\ p \in alive
    /\ alive' = alive \ {p}
    /\ holds' = [holds EXCEPT ![p] = {}]
    /\ UNCHANGED <<feeding, ctx, pc, watcher, stop, reading, closed, born,
                   group, taken, pipe, sent, ghosts, outcome>>

\* The kernel gives the id of a group that has no member left to a new one.
ReuseId ==
    /\ ~taken
    /\ Leader \in born \ group
    /\ group \cap alive = {}
    /\ taken' = TRUE
    /\ UNCHANGED <<feeding, ctx, pc, watcher, stop, reading, closed, alive,
                   born, group, holds, pipe, sent, ghosts, outcome>>

-----------------------------------------------------------------------------

Execute ==
    \/ Begin \/ Start \/ StartFailed \/ Reap \/ AwaitFeeder \/ AwaitDrains \/ AwaitClosed
    \/ StopWatcher \/ JoinWatcher \/ FinalKill \/ Classify

Drain(s) == ReadEOF(s) \/ ReadClosed(s) \/ ReadChunk(s)

Child ==
    \/ \E p \in Procs, k \in Kids : Fork(p, k)
    \/ \E k \in Kids : Leave(k)
    \/ \E p \in Procs, e \in Ends : CloseEnd(p, e)
    \/ \E p \in Procs, s \in Streams, c \in Chunks : Write(p, s, c)
    \/ \E p \in Procs : ReadInput(p) \/ Exit(p)

Next ==
    \/ Execute \/ Watch \/ Abort \/ FeedEnds \/ Expire \/ Child \/ ReuseId
    \/ \E s \in Streams : Drain(s) \/ ReadFails(s)

Spec == Init /\ [][Next]_vars

\* The goroutines of hollis go on and the deadline passes; the child owes
\* nothing, and no read has to fail.
Fairness ==
    /\ WF_vars(Execute) /\ WF_vars(Watch) /\ WF_vars(Abort) /\ WF_vars(Expire)
    /\ WF_vars(FeedEnds)
    /\ \A s \in Streams : WF_vars(Drain(s))

FairSpec == Spec /\ Fairness

-----------------------------------------------------------------------------
(* Properties.                                                             *)

\* Every variable has its type; a capture never outgrows its cap.
TypeOK ==
    /\ ctx \in {"live", "done"}
    /\ pc \in Phases
    /\ watcher \in {"none", "armed", "done"}
    /\ stop \in BOOLEAN
    /\ drain \in [Streams -> {"none", "reading", "aborting"} \cup Ended]
    /\ captured \in [Streams -> Nat]
    /\ \A s \in Streams : Capturing(s) => captured[s] <= Cap
    /\ truncated \in [Streams -> BOOLEAN]
    /\ closed \in BOOLEAN
    /\ alive \subseteq Procs /\ born \subseteq Procs /\ group \subseteq Procs
    /\ holds \in [Procs -> SUBSET Ends]
    /\ pipe \in [Streams -> Seq(Chunks)]
    /\ feeding \in BOOLEAN
    /\ taken \in BOOLEAN
    /\ sent \in [Streams -> Nat] /\ got \in [Streams -> Nat]
    /\ killed \subseteq Procs
    /\ collateral \in BOOLEAN
    /\ outcome \in Outcomes

\* Partial output is never handed back as a result: a nil error means that
\* the leader was not killed by hollis and that everything written to either
\* stream was read, or the result says that a line or a capture overflowed.
NoPartialSuccess ==
    outcome = "ok" =>
        /\ Leader \notin killed
        /\ \A s \in Streams :
             \/ drain[s] = "overflow"
             \/ /\ sent[s] = got[s]
                /\ Capturing(s) => (truncated[s] <=> got[s] > Cap)

\* Once the call has returned, no process that stayed in the group runs.
NoSurvivors == pc = "returned" => alive \cap group = {}

\* After the call has returned, no goroutine of it reads, calls back, writes
\* to the caller's sink or to the child, or kills.
QuietAfterReturn ==
    pc = "returned" =>
        /\ watcher # "armed"
        /\ ~feeding
        /\ \A s \in Streams : drain[s] \notin {"reading", "aborting"}

\* cmd.Wait waits for the copier, and a process that no signal reaches has
\* the other end of its pipe.
StdinHeld ==
    /\ pc = "feeding" /\ feeding
    /\ \E p \in alive \ group : "stdin" \in holds[p]

\* With a deadline every call returns, even when a descendant that no signal
\* reaches keeps the write ends open or the child blocks on a full pipe; but
\* for one limitation, that of the package comment (subproc.go:29): the input
\* is not the deadline's, and a process that left the group and keeps it
\* unread for ever keeps the call.
CallReturns == <>(pc = "returned") \/ <>[](ctx = "done" /\ StdinHeld)

\* The comment at FinalKill: the kill "cannot reach an unrelated group".
KillsOnlyItsGroup == ~collateral
=============================================================================
