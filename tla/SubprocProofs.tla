---------------------------- MODULE SubprocProofs ----------------------------
(***************************************************************************)
(* Theorems about Subproc for any set of descendants, caps, pipe sizes and *)
(* faults: nothing survives a call or is at work after it, and a result    *)
(* without an error is a complete one.                                     *)
(*                                                                         *)
(* NoPartialSuccess is about the moment of the verdict, but its reasons    *)
(* lie earlier: the read ends are closed and the leader is killed only     *)
(* when the context is over or a line was rejected (ExcusedOK), and both   *)
(* are still true when the verdict looks.                                  *)
(***************************************************************************)
EXTENDS Subproc, TLAPS

\* Before the child is started it has no process.
Kin ==
    /\ alive \cup group \subseteq born
    /\ pc \in {"begin", "starting"} => born = {}

\* The drains are over when execute goes on, the watcher when it was joined,
\* the copier of the input when cmd.Wait has returned.
Settled ==
    /\ pc \in {"stopping", "joining", "killing", "classifying"} => Drained
    /\ feeding => pc \in {"waiting", "feeding"}
    /\ pc = "returned" => \A s \in Streams : drain[s] \notin {"reading", "aborting"}
    /\ pc \in {"killing", "classifying", "returned"} => watcher # "armed"
    /\ pc \in {"begin", "starting"} =>
         watcher = "none" /\ \A s \in Streams : drain[s] = "none"

Reaped == pc \notin {"begin", "starting", "waiting"} => Leader \notin alive

Purged == pc \in {"classifying", "returned"} => alive \cap group = {}

\* What was written was read or is in the pipe, and a capture keeps Cap of it.
Counted ==
    \A s \in Streams :
        /\ sent[s] = got[s] + Len(pipe[s])
        /\ Capturing(s) =>
             /\ truncated[s] <=> got[s] > Cap
             /\ captured[s] = IF got[s] > Cap THEN Cap ELSE got[s]

AtEOF ==
    \A s \in Streams :
        drain[s] = "eof" => pipe[s] = <<>> /\ \A p \in alive : s \notin holds[p]

Excused == ctx = "done" \/ drain["stdout"] = "rejected"

\* Whatever cut the output short is still to be seen.
ExcusedOK ==
    /\ drain["stderr"] \notin {"aborting", "rejected"}
    /\ Leader \in killed => Excused
    /\ closed /\ pc \notin {"classifying", "returned"} => Excused
    /\ \A s \in Streams : drain[s] = "closed" => Excused

\* A result without an error: nothing cut the output short, nothing will.
Answered ==
    /\ pc = "classifying" => closed
    /\ outcome = "ok" =>
        /\ pc = "returned"
        /\ closed
        /\ Leader \notin killed
        /\ \A s \in Streams : drain[s] \in {"eof", "overflow"}

IInv ==
    /\ TypeOK /\ Kin /\ Settled /\ Reaped /\ Purged /\ Counted /\ AtEOF /\ ExcusedOK
    /\ Answered

-----------------------------------------------------------------------------

(* The type invariant is inductive by itself.                              *)
LEMMA TypeStep ==
    ASSUME TypeOK, [Next]_vars
    PROVE  TypeOK'
<1>1. CASE Begin
  BY <1>1
  DEF Begin, Goto, Returned, process, reading, ghosts, TypeOK, Phases, Outcomes
<1>2. CASE Start
  BY <1>2, SubprocConstants DEF Start, Goto, ghosts, TypeOK, Procs, Phases
<1>3. CASE StartFailed
  BY <1>3
  DEF StartFailed, Goto, Returned, process, reading, ghosts, TypeOK, Phases, Outcomes
<1>4. CASE Classify
  BY <1>4
  DEF Classify, Goto, Returned, Verdict, process, reading, ghosts, TypeOK, Phases,
      Outcomes
<1>5. CASE FinalKill
  BY <1>5 DEF FinalKill, Goto, KillGroup, reading, TypeOK, Phases
<1>6. CASE Watch
  BY <1>6 DEF Watch, KillGroup, reading, ghosts, TypeOK
<1>7. CASE Abort
  BY <1>7 DEF Abort, KillGroup, TypeOK, Ended
<1>8. ASSUME NEW s \in Streams, ReadEOF(s)
      PROVE  TypeOK'
  BY <1>8 DEF ReadEOF, process, ghosts, TypeOK, Ended
<1>9. ASSUME NEW s \in Streams, ReadClosed(s)
      PROVE  TypeOK'
  BY <1>9 DEF ReadClosed, process, ghosts, TypeOK, Ended
<1>10. ASSUME NEW s \in Streams, ReadFails(s)
      PROVE  TypeOK'
  BY <1>10 DEF ReadFails, process, ghosts, TypeOK, Ended
<1>11. ASSUME NEW s \in Streams, ReadChunk(s)
      PROVE  TypeOK'
  <2>1. /\ Head(pipe[s]) \in Chunks
        /\ pipe' \in [Streams -> Seq(Chunks)]
    BY <1>11 DEF ReadChunk, TypeOK
  <2>2. drain' \in [Streams -> {"none", "reading", "aborting"} \cup Ended]
    BY <1>11, <2>1 DEF ReadChunk, TypeOK, AfterChunk, Ended
  <2>3. /\ captured' \in [Streams -> Nat]
        /\ \A t \in Streams : Capturing(t) => captured'[t] <= Cap
    BY <1>11, SubprocConstants DEF ReadChunk, TypeOK, Overfull
  <2>4. got' \in [Streams -> Nat] /\ truncated' \in [Streams -> BOOLEAN]
    BY <1>11 DEF ReadChunk, TypeOK
  <2>. QED BY <1>11, <2>1, <2>2, <2>3, <2>4 DEF ReadChunk, TypeOK, process, ghosts
<1>12. ASSUME NEW p \in Procs, NEW k \in Kids, Fork(p, k)
      PROVE  TypeOK'
  BY <1>12 DEF Fork, reading, ghosts, TypeOK, Procs
<1>13. ASSUME NEW p \in Procs, NEW e \in Ends, CloseEnd(p, e)
      PROVE  TypeOK'
  BY <1>13 DEF CloseEnd, reading, ghosts, TypeOK
<1>14. ASSUME NEW p \in Procs, Exit(p)
      PROVE  TypeOK'
  BY <1>14 DEF Exit, reading, ghosts, TypeOK
<1>15. ASSUME NEW p \in Procs, NEW s \in Streams, NEW c \in Chunks, Write(p, s, c)
      PROVE  TypeOK'
  BY <1>15 DEF Write, process, reading, ghosts, TypeOK
<1>16. CASE Reap
  BY <1>16 DEF Reap, Goto, reading, ghosts, TypeOK, Phases
<1>17. CASE AwaitDrains
  BY <1>17 DEF AwaitDrains, Goto, process, reading, ghosts, TypeOK, Phases
<1>18. ASSUME NEW k \in Kids, Leave(k)
      PROVE  TypeOK'
  BY <1>18 DEF Leave, reading, ghosts, TypeOK
<1>19. CASE AwaitClosed \/ StopWatcher \/ JoinWatcher
  BY <1>19
  DEF AwaitClosed, StopWatcher, JoinWatcher, Goto, process, reading, ghosts, TypeOK,
      Phases
<1>20. CASE Expire \/ ReuseId \/ UNCHANGED vars
  BY <1>20 DEF Expire, ReuseId, process, reading, ghosts, vars, TypeOK
<1>21. CASE AwaitFeeder
  BY <1>21 DEF AwaitFeeder, Goto, process, reading, ghosts, TypeOK, Phases
<1>22. CASE FeedEnds \/ (\E p \in Procs : ReadInput(p))
  BY <1>22 DEF FeedEnds, ReadInput, process, reading, ghosts, TypeOK
<1>. QED BY <1>1, <1>2, <1>3, <1>4, <1>5, <1>6, <1>7, <1>8, <1>9, <1>10, <1>11, <1>12,
             <1>13, <1>14, <1>15, <1>16, <1>17, <1>18, <1>19, <1>20, <1>21, <1>22
  DEF Next, Execute, Child, Drain

(* Only processes that were started run or have a group.                   *)
LEMMA KinStep ==
    ASSUME TypeOK, Kin, [Next]_vars
    PROVE  Kin'
<1>1. CASE Start
  BY <1>1 DEF Start, Goto, Kin
<1>2. CASE FinalKill
  BY <1>2 DEF FinalKill, Goto, KillGroup, Kin
<1>3. CASE Watch
  BY <1>3 DEF Watch, KillGroup, Kin
<1>4. CASE Abort
  BY <1>4 DEF Abort, KillGroup, Kin
<1>5. CASE Begin \/ StartFailed \/ Reap \/ AwaitDrains \/ AwaitClosed \/ StopWatcher \/
              JoinWatcher \/ Classify \/ Expire \/ ReuseId \/
              (\E p \in Procs, k \in Kids : Fork(p, k)) \/
              (\E k \in Kids : Leave(k)) \/
              (\E p \in Procs, e \in Ends : CloseEnd(p, e)) \/
              (\E p \in Procs, s \in Streams, c \in Chunks : Write(p, s, c)) \/
              (\E p \in Procs : Exit(p)) \/ (\E s \in Streams : ReadEOF(s)) \/
              (\E s \in Streams : ReadClosed(s)) \/
              (\E s \in Streams : ReadFails(s)) \/ (\E s \in Streams : ReadChunk(s)) \/
              AwaitFeeder \/ FeedEnds \/ (\E p \in Procs : ReadInput(p)) \/
              UNCHANGED vars
  BY <1>5
  DEF AwaitFeeder, FeedEnds, ReadInput, Begin, StartFailed, Reap, AwaitDrains,
      AwaitClosed, StopWatcher, JoinWatcher, Classify, Expire, ReuseId, Fork, Leave,
      CloseEnd, Write, Exit, ReadEOF, ReadClosed, ReadFails, ReadChunk, Goto, Returned,
      process, vars, Kin
<1>. QED BY <1>1, <1>2, <1>3, <1>4, <1>5 DEF Next, Execute, Child, Drain

(* What was waited for stays over.                                         *)
LEMMA SettledStep ==
    ASSUME TypeOK, Settled, [Next]_vars
    PROVE  Settled'
<1>1. CASE Begin
  BY <1>1 DEF Begin, Goto, Returned, reading, Settled
<1>2. CASE StartFailed
  BY <1>2 DEF StartFailed, Goto, Returned, reading, Settled
<1>3. CASE Start
  BY <1>3 DEF Start, Goto, Settled
<1>4. CASE AwaitDrains
  BY <1>4 DEF AwaitDrains, Goto, Drained, reading, Settled
<1>5. CASE AwaitClosed
  BY <1>5 DEF AwaitClosed, Goto, Drained, reading, Settled
<1>6. CASE JoinWatcher
  BY <1>6 DEF JoinWatcher, Goto, reading, Settled, Drained
<1>7. CASE Classify
  BY <1>7 DEF Classify, Goto, Returned, reading, Settled, Drained, Ended
<1>8. CASE Watch
  BY <1>8 DEF Watch, reading, Settled, Drained
<1>9. CASE Abort
  BY <1>9 DEF Abort, Settled, Drained, Ended
<1>10. ASSUME NEW s \in Streams, ReadEOF(s)
      PROVE  Settled'
  BY <1>10 DEF ReadEOF, Settled, Drained, Ended
<1>11. ASSUME NEW s \in Streams, ReadClosed(s)
      PROVE  Settled'
  BY <1>11 DEF ReadClosed, Settled, Drained, Ended
<1>12. ASSUME NEW s \in Streams, ReadFails(s)
      PROVE  Settled'
  BY <1>12 DEF ReadFails, Settled, Drained, Ended
<1>13. ASSUME NEW s \in Streams, ReadChunk(s)
      PROVE  Settled'
  BY <1>13 DEF ReadChunk, Settled, Drained, Ended
<1>14. CASE Reap \/ StopWatcher \/ FinalKill \/ Expire \/ ReuseId \/
              (\E p \in Procs, k \in Kids : Fork(p, k)) \/
              (\E k \in Kids : Leave(k)) \/
              (\E p \in Procs, e \in Ends : CloseEnd(p, e)) \/
              (\E p \in Procs, s \in Streams, c \in Chunks : Write(p, s, c)) \/
              (\E p \in Procs : Exit(p)) \/
              AwaitFeeder \/ FeedEnds \/ (\E p \in Procs : ReadInput(p)) \/
              UNCHANGED vars
  BY <1>14
  DEF AwaitFeeder, FeedEnds, ReadInput, Reap, StopWatcher, FinalKill, Expire, ReuseId,
      Fork, Leave, CloseEnd, Write, Exit, Goto, reading, vars, Settled, Drained
<1>. QED BY <1>1, <1>2, <1>3, <1>4, <1>5, <1>6, <1>7, <1>8, <1>9, <1>10, <1>11, <1>12,
             <1>13, <1>14 DEF Next, Execute, Child, Drain

(* A reaped leader never runs again.                                       *)
LEMMA ReapedStep ==
    ASSUME TypeOK, Kin, Reaped, [Next]_vars
    PROVE  Reaped'
<1>1. CASE Begin
  BY <1>1 DEF Begin, Goto, process, Reaped, Kin
<1>2. CASE StartFailed
  BY <1>2 DEF StartFailed, Goto, process, Reaped, Kin
<1>3. CASE Start
  BY <1>3 DEF Start, Goto, Reaped
<1>4. CASE Reap
  BY <1>4 DEF Reap, Goto, Reaped
<1>5. CASE FinalKill
  BY <1>5 DEF FinalKill, Goto, KillGroup, Reaped
<1>6. CASE Watch
  BY <1>6 DEF Watch, KillGroup, Reaped
<1>7. CASE Abort
  BY <1>7 DEF Abort, KillGroup, Reaped
<1>8. ASSUME NEW p \in Procs, NEW k \in Kids, Fork(p, k)
      PROVE  Reaped'
  BY <1>8, SubprocConstants DEF Fork, Reaped
<1>9. CASE AwaitDrains \/ AwaitClosed \/ StopWatcher \/ JoinWatcher \/ Classify \/
              Expire \/ ReuseId \/ (\E k \in Kids : Leave(k)) \/
              (\E p \in Procs, e \in Ends : CloseEnd(p, e)) \/
              (\E p \in Procs, s \in Streams, c \in Chunks : Write(p, s, c)) \/
              (\E p \in Procs : Exit(p)) \/ (\E s \in Streams : ReadEOF(s)) \/
              (\E s \in Streams : ReadClosed(s)) \/
              (\E s \in Streams : ReadFails(s)) \/ (\E s \in Streams : ReadChunk(s)) \/
              AwaitFeeder \/ FeedEnds \/ (\E p \in Procs : ReadInput(p)) \/
              UNCHANGED vars
  BY <1>9
  DEF AwaitFeeder, FeedEnds, ReadInput, AwaitDrains, AwaitClosed, StopWatcher,
      JoinWatcher, Classify, Expire, ReuseId, Leave, CloseEnd, Write, Exit, ReadEOF,
      ReadClosed, ReadFails, ReadChunk, Goto, process, vars, Reaped
<1>. QED BY <1>1, <1>2, <1>3, <1>4, <1>5, <1>6, <1>7, <1>8, <1>9
  DEF Next, Execute, Child, Drain

(* After the final kill the group stays empty: a process outside of it
   cannot bring a descendant into it.                                      *)
LEMMA PurgedStep ==
    ASSUME TypeOK, Kin, Purged, [Next]_vars
    PROVE  Purged'
<1>1. CASE Begin
  BY <1>1 DEF Begin, Goto, process, Purged, Kin
<1>2. CASE StartFailed
  BY <1>2 DEF StartFailed, Goto, process, Purged, Kin
<1>3. CASE Start
  BY <1>3 DEF Start, Goto, Purged
<1>4. CASE FinalKill
  BY <1>4 DEF FinalKill, Goto, KillGroup, Purged
<1>5. CASE Watch
  BY <1>5 DEF Watch, KillGroup, Purged
<1>6. CASE Abort
  BY <1>6 DEF Abort, KillGroup, Purged
<1>7. ASSUME NEW p \in Procs, NEW k \in Kids, Fork(p, k)
      PROVE  Purged'
  BY <1>7 DEF Fork, Purged, Kin
<1>8. ASSUME NEW k \in Kids, Leave(k)
      PROVE  Purged'
  BY <1>8 DEF Leave, Purged
<1>9. ASSUME NEW p \in Procs, Exit(p)
      PROVE  Purged'
  BY <1>9 DEF Exit, Purged
<1>10. CASE Reap
  BY <1>10 DEF Reap, Goto, Purged
<1>11. CASE AwaitDrains \/ AwaitClosed \/ StopWatcher \/ JoinWatcher \/ Classify \/
              Expire \/ ReuseId \/ (\E p \in Procs, e \in Ends : CloseEnd(p, e)) \/
              (\E p \in Procs, s \in Streams, c \in Chunks : Write(p, s, c)) \/
              (\E s \in Streams : ReadEOF(s)) \/ (\E s \in Streams : ReadClosed(s)) \/
              (\E s \in Streams : ReadFails(s)) \/ (\E s \in Streams : ReadChunk(s)) \/
              AwaitFeeder \/ FeedEnds \/ (\E p \in Procs : ReadInput(p)) \/
              UNCHANGED vars
  BY <1>11
  DEF AwaitFeeder, FeedEnds, ReadInput, AwaitDrains, AwaitClosed, StopWatcher,
      JoinWatcher, Classify, Expire, ReuseId, CloseEnd, Write, ReadEOF, ReadClosed,
      ReadFails, ReadChunk, Goto, process, vars, Purged
<1>. QED BY <1>1, <1>2, <1>3, <1>4, <1>5, <1>6, <1>7, <1>8, <1>9, <1>10, <1>11
  DEF Next, Execute, Child, Drain

(* A chunk is in the pipe until it is read; a capture keeps the first Cap.  *)
LEMMA CountedStep ==
    ASSUME TypeOK, Counted, [Next]_vars
    PROVE  Counted'
<1>1. ASSUME NEW s \in Streams, ReadChunk(s)
      PROVE  Counted'
  <2>1. Len(pipe'[s]) = Len(pipe[s]) - 1 /\ got'[s] = got[s] + 1 /\ sent'[s] = sent[s]
    BY <1>1 DEF ReadChunk, TypeOK
  <2>2. sent'[s] = got'[s] + Len(pipe'[s])
    <3>1. sent[s] = got[s] + Len(pipe[s]) /\ got[s] \in Nat /\ Len(pipe[s]) \in Nat
      BY DEF Counted, TypeOK
    <3>. QED BY <2>1, <3>1
  <2>3. Capturing(s) =>
          /\ truncated'[s] <=> got'[s] > Cap
          /\ captured'[s] = IF got'[s] > Cap THEN Cap ELSE got'[s]
    <3>. HAVE Capturing(s)
    <3>1. /\ Overfull(s) <=> got[s] >= Cap
          /\ got'[s] > Cap <=> got[s] >= Cap
      BY <2>1, SubprocConstants DEF Counted, TypeOK, Overfull
    <3>2. truncated'[s] <=> (truncated[s] \/ Overfull(s))
      BY <1>1 DEF ReadChunk, TypeOK
    <3>3. captured'[s] = IF Overfull(s) THEN captured[s] ELSE captured[s] + 1
      BY <1>1 DEF ReadChunk, TypeOK
    <3>4. captured'[s] = IF got'[s] > Cap THEN Cap ELSE got'[s]
      BY <2>1, <3>1, <3>3, SubprocConstants DEF Counted, Overfull
    <3>5. truncated[s] <=> got[s] > Cap
      BY DEF Counted
    <3>6. got[s] > Cap => got[s] >= Cap
      BY SubprocConstants DEF TypeOK
    <3>. QED BY <3>1, <3>2, <3>4, <3>5, <3>6
  <2>. QED BY <1>1, <2>2, <2>3 DEF ReadChunk, Counted
<1>2. ASSUME NEW p \in Procs, NEW s \in Streams, NEW c \in Chunks, Write(p, s, c)
      PROVE  Counted'
  <2>1. Len(pipe'[s]) = Len(pipe[s]) + 1 /\ sent'[s] = sent[s] + 1
    BY <1>2 DEF Write, TypeOK
  <2>. QED BY <1>2, <2>1 DEF Write, Counted, TypeOK, reading
<1>3. CASE Begin \/ Start \/ StartFailed \/ Reap \/ AwaitDrains \/ AwaitClosed \/
              StopWatcher \/ JoinWatcher \/ FinalKill \/ Classify \/ Watch \/ Abort \/
              Expire \/ ReuseId \/ (\E p \in Procs, k \in Kids : Fork(p, k)) \/
              (\E k \in Kids : Leave(k)) \/
              (\E p \in Procs, e \in Ends : CloseEnd(p, e)) \/
              (\E p \in Procs : Exit(p)) \/ (\E s \in Streams : ReadEOF(s)) \/
              (\E s \in Streams : ReadClosed(s)) \/
              (\E s \in Streams : ReadFails(s)) \/
              AwaitFeeder \/ FeedEnds \/ (\E p \in Procs : ReadInput(p)) \/
              UNCHANGED vars
  BY <1>3
  DEF AwaitFeeder, FeedEnds, ReadInput, Begin, Start, StartFailed, Reap, AwaitDrains,
      AwaitClosed, StopWatcher, JoinWatcher, FinalKill, Classify, Watch, Abort, Expire,
      ReuseId, Fork, Leave, CloseEnd, Exit, ReadEOF, ReadClosed, ReadFails, Goto,
      reading, vars, Counted
<1>. QED BY <1>1, <1>2, <1>3 DEF Next, Execute, Child, Drain

(* The end of a stream is final.                                           *)
LEMMA AtEOFStep ==
    ASSUME TypeOK, AtEOF, [Next]_vars
    PROVE  AtEOF'
<1>1. CASE Start
  BY <1>1 DEF Start, Goto, AtEOF
<1>2. CASE FinalKill
  BY <1>2 DEF FinalKill, Goto, KillGroup, reading, AtEOF, TypeOK
<1>3. CASE Watch
  BY <1>3 DEF Watch, KillGroup, reading, AtEOF, TypeOK
<1>4. CASE Abort
  BY <1>4 DEF Abort, KillGroup, AtEOF, TypeOK
<1>5. ASSUME NEW s \in Streams, ReadEOF(s)
      PROVE  AtEOF'
  BY <1>5 DEF ReadEOF, Open, process, AtEOF
<1>6. ASSUME NEW s \in Streams, ReadClosed(s)
      PROVE  AtEOF'
  BY <1>6 DEF ReadClosed, process, AtEOF
<1>7. ASSUME NEW s \in Streams, ReadFails(s)
      PROVE  AtEOF'
  BY <1>7 DEF ReadFails, process, AtEOF
<1>8. ASSUME NEW s \in Streams, ReadChunk(s)
      PROVE  AtEOF'
  BY <1>8 DEF ReadChunk, AfterChunk, process, AtEOF
<1>9. ASSUME NEW p \in Procs, NEW k \in Kids, Fork(p, k)
      PROVE  AtEOF'
  BY <1>9 DEF Fork, reading, AtEOF, TypeOK, Procs
<1>10. ASSUME NEW p \in Procs, NEW e \in Ends, CloseEnd(p, e)
      PROVE  AtEOF'
  BY <1>10 DEF CloseEnd, reading, AtEOF
<1>11. ASSUME NEW p \in Procs, Exit(p)
      PROVE  AtEOF'
  BY <1>11 DEF Exit, reading, AtEOF
<1>12. ASSUME NEW p \in Procs, NEW s \in Streams, NEW c \in Chunks, Write(p, s, c)
      PROVE  AtEOF'
  BY <1>12 DEF Write, process, reading, AtEOF
<1>13. CASE Begin \/ StartFailed \/ Reap \/ AwaitDrains \/ AwaitClosed \/
              StopWatcher \/ JoinWatcher \/ Classify \/ Expire \/ ReuseId \/
              (\E k \in Kids : Leave(k)) \/
              AwaitFeeder \/ FeedEnds \/ (\E p \in Procs : ReadInput(p)) \/
              UNCHANGED vars
  BY <1>13
  DEF AwaitFeeder, FeedEnds, ReadInput, Begin, StartFailed, Reap, AwaitDrains,
      AwaitClosed, StopWatcher, JoinWatcher, Classify, Expire, ReuseId, Leave, Goto,
      process, reading, vars, AtEOF
<1>. QED BY <1>1, <1>2, <1>3, <1>4, <1>5, <1>6, <1>7, <1>8, <1>9, <1>10, <1>11, <1>12,
             <1>13 DEF Next, Execute, Child, Drain

(* Ends are closed early, and the leader is killed, only for a reason that
   the verdict reports.                                                    *)
LEMMA ExcusedStep ==
    ASSUME TypeOK, Settled, Reaped, ExcusedOK, [Next]_vars
    PROVE  ExcusedOK'
<1>1. CASE Begin
  BY <1>1 DEF Begin, Goto, reading, ghosts, ExcusedOK, Excused
<1>2. CASE StartFailed
  BY <1>2 DEF StartFailed, Goto, reading, ghosts, ExcusedOK, Excused
<1>3. CASE Start
  BY <1>3 DEF Start, Goto, ghosts, ExcusedOK, Excused, Settled, Streams
<1>4. CASE AwaitDrains
  BY <1>4 DEF AwaitDrains, Goto, reading, ghosts, ExcusedOK, Excused
<1>5. CASE FinalKill
  BY <1>5 DEF FinalKill, Goto, KillGroup, reading, ExcusedOK, Excused, Reaped
<1>6. CASE Watch
  BY <1>6 DEF Watch, reading, ghosts, ExcusedOK, Excused
<1>7. CASE Abort
  BY <1>7 DEF Abort, ExcusedOK, Excused, TypeOK, Streams
<1>8. ASSUME NEW s \in Streams, ReadEOF(s)
      PROVE  ExcusedOK'
  BY <1>8 DEF ReadEOF, ghosts, ExcusedOK, Excused
<1>9. ASSUME NEW s \in Streams, ReadClosed(s)
      PROVE  ExcusedOK'
  BY <1>9 DEF ReadClosed, ExcusedOK, Excused, Settled, Drained, Streams, Ended
<1>10. ASSUME NEW s \in Streams, ReadFails(s)
      PROVE  ExcusedOK'
  BY <1>10 DEF ReadFails, ghosts, ExcusedOK, Excused
<1>11. ASSUME NEW s \in Streams, ReadChunk(s)
      PROVE  ExcusedOK'
  BY <1>11 DEF ReadChunk, AfterChunk, Capturing, ghosts, ExcusedOK, Excused
<1>12. CASE Classify
  BY <1>12 DEF Classify, Goto, Returned, reading, ghosts, ExcusedOK, Excused
<1>13. CASE Expire
  BY <1>13 DEF Expire, reading, ExcusedOK, Excused
<1>14. CASE Reap \/ AwaitClosed \/ StopWatcher \/ JoinWatcher \/ ReuseId \/
              (\E p \in Procs, k \in Kids : Fork(p, k)) \/
              (\E k \in Kids : Leave(k)) \/
              (\E p \in Procs, e \in Ends : CloseEnd(p, e)) \/
              (\E p \in Procs, s \in Streams, c \in Chunks : Write(p, s, c)) \/
              (\E p \in Procs : Exit(p)) \/
              AwaitFeeder \/ FeedEnds \/ (\E p \in Procs : ReadInput(p)) \/
              UNCHANGED vars
  BY <1>14
  DEF AwaitFeeder, FeedEnds, ReadInput, Reap, AwaitClosed, StopWatcher, JoinWatcher,
      ReuseId, Fork, Leave, CloseEnd, Write, Exit, Goto, reading, ghosts, vars,
      ExcusedOK, Excused
<1>. QED BY <1>1, <1>2, <1>3, <1>4, <1>5, <1>6, <1>7, <1>8, <1>9, <1>10, <1>11, <1>12,
             <1>13, <1>14 DEF Next, Execute, Child, Drain

(* A result without an error stays what it was when it was returned.        *)
LEMMA AnsweredStep ==
    ASSUME TypeOK, Settled, ExcusedOK, Answered, [Next]_vars
    PROVE  Answered'
<1>1. CASE Begin
  BY <1>1 DEF Begin, Goto, Returned, Answered, ExcusedOK
<1>2. CASE StartFailed
  BY <1>2 DEF StartFailed, Goto, Returned, Answered, ExcusedOK
<1>3. CASE Start
  BY <1>3 DEF Start, Goto, Answered, ExcusedOK
<1>4. CASE FinalKill
  BY <1>4 DEF FinalKill, Goto, Answered, ExcusedOK
<1>5. CASE Watch
  BY <1>5 DEF Watch, Answered, ExcusedOK, Settled
<1>6. CASE Abort
  BY <1>6 DEF Abort, Answered, ExcusedOK, Streams
<1>7. ASSUME NEW s \in Streams, ReadEOF(s)
      PROVE  Answered'
  BY <1>7 DEF ReadEOF, Answered, ExcusedOK
<1>8. ASSUME NEW s \in Streams, ReadClosed(s)
      PROVE  Answered'
  BY <1>8 DEF ReadClosed, Answered, ExcusedOK
<1>9. ASSUME NEW s \in Streams, ReadFails(s)
      PROVE  Answered'
  BY <1>9 DEF ReadFails, Answered, ExcusedOK
<1>10. ASSUME NEW s \in Streams, ReadChunk(s)
      PROVE  Answered'
  BY <1>10 DEF ReadChunk, Answered, ExcusedOK
<1>11. CASE Classify
  BY <1>11
  DEF Classify, Goto, Returned, Verdict, reading, ghosts, Answered, ExcusedOK,
      Excused, Settled, Drained, Streams, Ended
<1>12. CASE Reap \/ AwaitDrains \/ AwaitClosed \/ StopWatcher \/ JoinWatcher \/
              Expire \/ ReuseId \/ (\E p \in Procs, k \in Kids : Fork(p, k)) \/
              (\E k \in Kids : Leave(k)) \/
              (\E p \in Procs, e \in Ends : CloseEnd(p, e)) \/
              (\E p \in Procs, s \in Streams, c \in Chunks : Write(p, s, c)) \/
              (\E p \in Procs : Exit(p)) \/
              AwaitFeeder \/ FeedEnds \/ (\E p \in Procs : ReadInput(p)) \/
              UNCHANGED vars
  BY <1>12
  DEF AwaitFeeder, FeedEnds, ReadInput, Reap, AwaitDrains, AwaitClosed, StopWatcher,
      JoinWatcher, Expire, ReuseId, Fork, Leave, CloseEnd, Write, Exit, Goto, reading,
      ghosts, vars, Answered, ExcusedOK
<1>. QED BY <1>1, <1>2, <1>3, <1>4, <1>5, <1>6, <1>7, <1>8, <1>9, <1>10, <1>11, <1>12
  DEF Next, Execute, Child, Drain

(* The initial state has all of it.                                        *)
LEMMA InitIInv == Init => IInv
<1>. SUFFICES ASSUME Init PROVE IInv
  OBVIOUS
<1>1. TypeOK
  <2>1. pipe \in [Streams -> Seq(Chunks)] BY DEF Init
  <2>2. \A s \in Streams : captured[s] <= Cap BY SubprocConstants DEF Init
  <2>. QED BY <2>1, <2>2 DEF Init, TypeOK, Phases, Outcomes
<1>2. Counted
  BY SubprocConstants DEF Init, Counted
<1>3. Kin /\ Settled /\ Reaped /\ Purged /\ AtEOF /\ ExcusedOK /\ Answered
  BY DEF Init, Kin, Settled, Reaped, Purged, AtEOF, ExcusedOK, Answered, Streams
<1>. QED BY <1>1, <1>2, <1>3 DEF IInv

(* IInv is inductive.                                                      *)
THEOREM Invariance == Spec => []IInv
<1>1. ASSUME IInv, [Next]_vars PROVE IInv'
  BY <1>1, TypeStep, KinStep, SettledStep, ReapedStep, PurgedStep, CountedStep,
     AtEOFStep, ExcusedStep, AnsweredStep
  DEF IInv
<1>. QED BY <1>1, InitIInv, PTL DEF Spec

(* Every variable has its type and no capture exceeds its cap, for any cap. *)
THEOREM TypeCorrect == Spec => []TypeOK
<1>1. IInv => TypeOK BY DEF IInv
<1>. QED BY <1>1, Invariance, PTL

(* No member of the child's group outlives the call, however many there    *)
(* are and whenever they are forked (the kill on every exit path).         *)
THEOREM NothingSurvives == Spec => []NoSurvivors
<1>1. IInv => NoSurvivors BY DEF IInv, Purged, NoSurvivors
<1>. QED BY <1>1, Invariance, PTL

(* Neither watcher nor drain is at work after the call (the joins).        *)
THEOREM NothingWorksOn == Spec => []QuietAfterReturn
<1>1. IInv => QuietAfterReturn BY DEF IInv, Settled, QuietAfterReturn
<1>. QED BY <1>1, Invariance, PTL

(* A nil error comes with the whole output or with a flag that says what   *)
(* is missing, for any output, cap and descendants (the verdict).          *)
THEOREM SuccessIsWhole == Spec => []NoPartialSuccess
<1>1. ASSUME IInv, outcome = "ok" PROVE NoPartialSuccess
  <2>1. ASSUME NEW s \in Streams, drain[s] = "eof"
        PROVE  sent[s] = got[s] /\ (Capturing(s) => (truncated[s] <=> got[s] > Cap))
    <3>1. Len(pipe[s]) = 0 BY <1>1, <2>1 DEF IInv, AtEOF
    <3>. QED BY <1>1, <2>1, <3>1 DEF IInv, Counted, TypeOK
  <2>. QED BY <1>1, <2>1 DEF IInv, Answered, NoPartialSuccess
<1>2. IInv => NoPartialSuccess BY <1>1 DEF NoPartialSuccess
<1>. QED BY <1>2, Invariance, PTL

(* The sinks are "not touched after Run or Scan returns" (subproc.go:78),   *)
(* nor is anything else of the call: no goroutine of it writes, counts,     *)
(* changes its result or sends a signal ever after, whatever descendants    *)
(* live on and whenever the deadline passes.  It rests on every join that   *)
(* execute makes: cmd.Wait's copier, the drains, the watcher.              *)
Finished == <<pc, watcher, stop, feeding, reading, closed, ghosts, outcome>>

THEOREM ReturnIsFinal == Spec => [][pc = "returned" => UNCHANGED Finished]_vars
<1>1. ASSUME IInv, pc = "returned", [Next]_vars
      PROVE  UNCHANGED Finished
  <2>1. /\ watcher # "armed" /\ ~feeding
        /\ \A s \in Streams : drain[s] \notin {"reading", "aborting"}
    BY <1>1 DEF IInv, Settled
  <2>2. ~Execute /\ ~Watch /\ ~Abort /\ ~FeedEnds
    BY <1>1, <2>1
    DEF Execute, Begin, Start, StartFailed, Reap, AwaitFeeder, AwaitDrains, AwaitClosed,
        StopWatcher, JoinWatcher, FinalKill, Classify, Watch, Abort, FeedEnds, Streams
  <2>3. \A s \in Streams : ~Drain(s) /\ ~ReadFails(s)
    BY <2>1 DEF Drain, ReadEOF, ReadClosed, ReadChunk, ReadFails
  <2>4. Expire \/ Child \/ ReuseId \/ UNCHANGED vars
    BY <1>1, <2>2, <2>3 DEF Next
  <2>5. \A p \in Procs : ~ReadInput(p)
    BY <2>1 DEF ReadInput
  <2>. QED BY <2>4, <2>5
  DEF Expire, Child, ReuseId, Fork, Leave, CloseEnd, Write, Exit, vars, reading, ghosts,
      Finished
<1>. QED BY <1>1, Invariance, PTL DEF Spec
=============================================================================
