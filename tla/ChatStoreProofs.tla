--------------------------- MODULE ChatStoreProofs ---------------------------
(***************************************************************************)
(* Theorems about ChatStore for any processes, conversations, limits and   *)
(* faults.                                                                 *)
(*                                                                         *)
(* TurnsAreSerial holds because whoever continues a conversation keeps the *)
(* lock from reading to storing (Exclusive), so the history it read is     *)
(* still the stored one (Current) unless the conversation was deleted, and *)
(* a deleted id never comes back.                                          *)
(***************************************************************************)
EXTENDS ChatStore, SequenceTheorems, TLAPS

InTurn == {"reading", "running", "storing", "diagnosing", "unlocking"}

\* Who continues a conversation is the only one who does.
Exclusive ==
    \A p \in Procs :
        conv[p] # NoConv => /\ conv[p] \in minted
                            /\ pc[p] \in InTurn => lock = p

\* What a continued turn read is what is stored, or nothing is stored.
Current ==
    \A p \in Procs :
        /\ pc[p] \in {"running", "storing"} /\ conv[p] \in exists =>
             history[p] = Len(rows[conv[p]])
        /\ conv[p] = NoConv => history[p] = 0

\* Between turns nothing is kept, and a wait is for a conversation.
Idle ==
    \A p \in Procs :
        /\ pc[p] = "idle" => conv[p] = NoConv /\ history[p] = 0
        /\ pc[p] \in {"locking", "reading"} => conv[p] # NoConv

IInv ==
    /\ TypeOK /\ Idle /\ Exclusive /\ Current
    /\ NoOrphans /\ TurnsAreSerial /\ HistoryBounded

-----------------------------------------------------------------------------

(* A turn is two rows.                                                     *)
LEMMA TurnRows ==
    ASSUME NEW seq \in Nat, NEW n \in Nat
    PROVE  /\ Turn(seq, n) \in Seq(Row)
           /\ Len(Turn(seq, n)) = 2
           /\ Turn(seq, n)[1] = [seq |-> seq, role |-> "user", basis |-> n]
           /\ Turn(seq, n)[2] = [seq |-> seq + 1, role |-> "assistant", basis |-> n]
<1>1. /\ [seq |-> seq, role |-> "user", basis |-> n] \in Row
      /\ [seq |-> seq + 1, role |-> "assistant", basis |-> n] \in Row
  BY DEF Row
<1>. QED BY <1>1 DEF Turn

(* What appending two rows does.                                           *)
LEMMA TwoAppended ==
    ASSUME NEW s \in Seq(Row), NEW t \in Seq(Row), Len(t) = 2
    PROVE  /\ s \o t \in Seq(Row)
           /\ Len(s \o t) = Len(s) + 2
           /\ \A k \in 1..Len(s) : (s \o t)[k] = s[k]
           /\ (s \o t)[Len(s) + 1] = t[1]
           /\ (s \o t)[Len(s) + 2] = t[2]
<1>. DEFINE n == Len(s)
            u == s \o t
            both(i) == IF i <= n THEN s[i] ELSE t[i - n]
<1>1. n \in Nat
  OBVIOUS
<1>2. u \in Seq(Row) /\ Len(u) = n + Len(t)
  BY ConcatProperties, Zenon
<1>3. \A i \in 1 .. n + Len(t) : u[i] = both(i)
  BY ConcatProperties, Zenon
<1>4. /\ \A k \in 1..n : k \in 1 .. n + Len(t) /\ both(k) = s[k]
      /\ n + 1 \in 1 .. n + Len(t) /\ n + 2 \in 1 .. n + Len(t)
  <2>. HIDE DEF n
  <2>. QED BY <1>1
<1>5. both(n + 1) = t[1] /\ both(n + 2) = t[2]
  <2>. HIDE DEF n
  <2>. QED BY <1>1
<1>. HIDE DEF n, u, both
<1>. QED BY <1>2, <1>3, <1>4, <1>5, Zenon DEF n, u

LEMMA NextSeqNat ==
    ASSUME TypeOK, NEW c \in Convs
    PROVE  NextSeq(c) \in Nat
<1>1. CASE rows[c] = <<>>
  BY <1>1 DEF NextSeq
<1>2. CASE rows[c] # <<>>
  <2>1. rows[c][Len(rows[c])] \in Row
    BY <1>2 DEF TypeOK
  <2>. QED BY <1>2, <2>1 DEF NextSeq, Row
<1>. QED BY <1>1, <1>2

(* Counting a run keeps the counts.                                        *)
LEMMA RunCounted ==
    ASSUME TypeOK, NEW c \in Convs \cup {NoConv}
    PROVE  /\ [runs EXCEPT ![c].ok = @ + 1] \in [Convs \cup {NoConv} -> Run]
           /\ [runs EXCEPT ![c].failed = @ + 1] \in [Convs \cup {NoConv} -> Run]
<1>1. runs[c] \in Run
  BY DEF TypeOK
<1>2. /\ [runs[c] EXCEPT !.ok = @ + 1] \in Run
      /\ [runs[c] EXCEPT !.failed = @ + 1] \in Run
  BY <1>1 DEF Run
<1>. QED BY <1>2 DEF TypeOK

(* The type invariant: what is run fits because it was checked, or is the
   first turn of its conversation.                                         *)
LEMMA TypeStep ==
    ASSUME TypeOK, Idle, [Next]_vars
    PROVE  TypeOK'
<1>1. ASSUME NEW p \in Procs, StartFirst(p)
      PROVE  TypeOK'
  BY <1>1 DEF StartFirst, Goto, database, turn, TypeOK, Idle, Phases, Fits
<1>2. ASSUME NEW p \in Procs, NEW c \in Convs, StartContinue(p, c)
      PROVE  TypeOK'
  BY <1>2 DEF StartContinue, Goto, database, TypeOK, Phases
<1>3. ASSUME NEW p \in Procs, Lock(p)
      PROVE  TypeOK'
  BY <1>3 DEF Lock, Goto, database, turn, TypeOK, Phases
<1>4. ASSUME NEW p \in Procs, LockFails(p)
      PROVE  TypeOK'
  BY <1>4 DEF LockFails, Over, Goto, database, TypeOK, Phases
<1>5. ASSUME NEW p \in Procs, Read(p)
      PROVE  TypeOK'
  <2>1. conv[p] \in Convs /\ Len(rows[conv[p]]) \in Nat
    BY <1>5 DEF Read, Idle, TypeOK
  <2>. QED BY <1>5, <2>1 DEF Read, Goto, Fits, database, TypeOK, Phases
<1>6. ASSUME NEW p \in Procs, StoreFirst(p)
      PROVE  TypeOK'
  <2>1. PICK c \in Convs \ minted :
          /\ minted' = minted \cup {c}
          /\ exists' = exists \cup {c}
          /\ rows' = [rows EXCEPT ![c] = Turn(0, 0)]
          /\ runs' = [runs EXCEPT ![c].ok = @ + 1]
    BY <1>6 DEF StoreFirst, RecordSuccess
  <2>2. rows' \in [Convs -> Seq(Row)]
    BY <2>1, TurnRows DEF TypeOK
  <2>3. runs' \in [Convs \cup {NoConv} -> Run]
    BY <2>1, RunCounted
  <2>. QED BY <1>6, <2>1, <2>2, <2>3 DEF StoreFirst, Over, Goto, TypeOK, Phases
<1>7. ASSUME NEW p \in Procs, StoreTurn(p)
      PROVE  TypeOK'
  <2>1. conv[p] \in Convs
    BY <1>7 DEF StoreTurn, TypeOK
  <2>2. rows' \in [Convs -> Seq(Row)] /\ runs' \in [Convs \cup {NoConv} -> Run]
    <3>1. CASE UNCHANGED <<rows, runs>>
      BY <3>1 DEF TypeOK
    <3>2. CASE /\ rows' = [rows EXCEPT ![conv[p]] = @ \o Turn(NextSeq(conv[p]), history[p])]
               /\ runs' = [runs EXCEPT ![conv[p]].ok = @ + 1]
      <4>1. Turn(NextSeq(conv[p]), history[p]) \in Seq(Row)
        BY <2>1, NextSeqNat, TurnRows DEF TypeOK
      <4>2. rows[conv[p]] \o Turn(NextSeq(conv[p]), history[p]) \in Seq(Row)
        BY <2>1, <4>1 DEF TypeOK
      <4>. QED BY <2>1, <3>2, <4>2, RunCounted DEF TypeOK
    <3>. QED BY <1>7, <3>1, <3>2 DEF StoreTurn, RecordSuccess
  <2>. QED BY <1>7, <2>2 DEF StoreTurn, Goto, turn, TypeOK, Phases
<1>8. ASSUME NEW p \in Procs, Diagnose(p)
      PROVE  TypeOK'
  <2>1. conv[p] \in Convs \cup {NoConv}
    BY DEF TypeOK
  <2>2. runs' \in [Convs \cup {NoConv} -> Run]
    <3>1. CASE UNCHANGED runs
      BY <3>1 DEF TypeOK
    <3>2. CASE runs' = [runs EXCEPT ![conv[p]].failed = @ + 1]
      BY <2>1, <3>2, RunCounted
    <3>. QED BY <1>8, <3>1, <3>2 DEF Diagnose
  <2>. QED BY <1>8, <2>2 DEF Diagnose, Goto, turn, TypeOK, Phases
<1>9. ASSUME NEW c \in Convs, Delete(c)
      PROVE  TypeOK'
  BY <1>9, ChatConstants DEF Delete, Deleted, turn, TypeOK, NoRuns, Run
<1>10. ASSUME NEW p \in Procs, Unlock(p)
      PROVE  TypeOK'
  BY <1>10 DEF Unlock, Over, Goto, database, TypeOK, Phases
<1>11. ASSUME NEW p \in Procs, Expire(p)
      PROVE  TypeOK'
  BY <1>11 DEF Expire, database, TypeOK
<1>12. ASSUME NEW p \in Procs, Crash(p)
      PROVE  TypeOK'
  BY <1>12 DEF Crash, Over, Goto, database, TypeOK, Phases
<1>13. ASSUME NEW p \in Procs, RunAnswers(p)
      PROVE  TypeOK'
  BY <1>13 DEF RunAnswers, Goto, database, turn, TypeOK, Phases
<1>14. ASSUME NEW p \in Procs, RunFails(p)
      PROVE  TypeOK'
  BY <1>14 DEF RunFails, Goto, database, turn, TypeOK, Phases
<1>15. ASSUME NEW p \in Procs, RunStopped(p)
      PROVE  TypeOK'
  BY <1>15 DEF RunStopped, Goto, database, turn, TypeOK, Phases
<1>16. ASSUME NEW p \in Procs, DatabaseFails(p)
      PROVE  TypeOK'
  BY <1>16 DEF DatabaseFails, Goto, database, turn, TypeOK, Phases
<1>17. CASE UNCHANGED vars
  BY <1>17 DEF database, turn, vars, TypeOK
<1>. QED BY <1>1, <1>2, <1>3, <1>4, <1>5, <1>6, <1>7, <1>8, <1>9, <1>10, <1>11, <1>12,
     <1>13, <1>14, <1>15, <1>16, <1>17
  DEF Next, Step, Model

(* Between turns nothing is kept; who waits for the lock knows what for.    *)
LEMMA IdleStep ==
    ASSUME TypeOK, Idle, [Next]_vars
    PROVE  Idle'
<1>1. ASSUME NEW p \in Procs, NEW c \in Convs, StartContinue(p, c)
      PROVE  Idle'
  BY <1>1, ChatConstants DEF StartContinue, Goto, TypeOK, Idle
<1>2. ASSUME NEW p \in Procs, StoreTurn(p)
      PROVE  Idle'
  BY <1>2 DEF StoreTurn, Goto, turn, Idle
<1>3. ASSUME NEW p \in Procs, Diagnose(p)
      PROVE  Idle'
  BY <1>3 DEF Diagnose, Goto, turn, Idle
<1>4. ASSUME NEW p \in Procs, DatabaseFails(p)
      PROVE  Idle'
  BY <1>4 DEF DatabaseFails, Goto, turn, Idle
<1>5. ASSUME NEW p \in Procs, Expire(p)
      PROVE  Idle'
  BY <1>5 DEF Expire, Idle
<1>6. ASSUME NEW c \in Convs, Delete(c)
      PROVE  Idle'
  BY <1>6 DEF Delete, turn, Idle
<1>7. ASSUME NEW p \in Procs, StartFirst(p)
      PROVE  Idle'
  BY <1>7 DEF StartFirst, Goto, turn, Idle
<1>8. ASSUME NEW p \in Procs, LockFails(p)
      PROVE  Idle'
  BY <1>8 DEF LockFails, Over, Goto, TypeOK, Idle
<1>9. ASSUME NEW p \in Procs, Lock(p)
      PROVE  Idle'
  BY <1>9 DEF Lock, Goto, turn, Idle
<1>10. ASSUME NEW p \in Procs, Read(p)
      PROVE  Idle'
  BY <1>10 DEF Read, Goto, TypeOK, Idle
<1>11. ASSUME NEW p \in Procs, StoreFirst(p)
      PROVE  Idle'
  BY <1>11 DEF StoreFirst, Over, Goto, TypeOK, Idle
<1>12. ASSUME NEW p \in Procs, Unlock(p)
      PROVE  Idle'
  BY <1>12 DEF Unlock, Over, Goto, TypeOK, Idle
<1>13. ASSUME NEW p \in Procs, Crash(p)
      PROVE  Idle'
  BY <1>13 DEF Crash, Over, Goto, TypeOK, Idle
<1>14. CASE (\E p \in Procs : RunAnswers(p) \/ RunFails(p) \/ RunStopped(p)) \/
         UNCHANGED vars
  BY <1>14 DEF RunAnswers, Goto, RunFails, RunStopped, turn, vars, TypeOK, Idle
<1>. QED BY <1>1, <1>2, <1>3, <1>4, <1>5, <1>6, <1>7, <1>8, <1>9, <1>10, <1>11, <1>12,
     <1>13, <1>14
  DEF Next, Step, Model

(* The lock is taken when it is free and kept until the turn is over.       *)
LEMMA ExclusiveStep ==
    ASSUME TypeOK, Idle, Exclusive, [Next]_vars
    PROVE  Exclusive'
<1>1. ASSUME NEW p \in Procs, StartFirst(p)
      PROVE  Exclusive'
  BY <1>1 DEF StartFirst, Goto, database, turn, Idle, Exclusive
<1>2. ASSUME NEW p \in Procs, NEW c \in Convs, StartContinue(p, c)
      PROVE  Exclusive'
  BY <1>2 DEF StartContinue, Goto, database, Exclusive, InTurn
<1>3. ASSUME NEW p \in Procs, Lock(p)
      PROVE  Exclusive'
  BY <1>3, ChatConstants DEF Lock, Goto, LockFree, database, turn, Exclusive
<1>4. ASSUME NEW p \in Procs, LockFails(p)
      PROVE  Exclusive'
  BY <1>4 DEF LockFails, Over, Goto, database, TypeOK, Exclusive
<1>5. ASSUME NEW p \in Procs, Unlock(p)
      PROVE  Exclusive'
  BY <1>5, ChatConstants DEF Unlock, Over, Goto, database, TypeOK, Exclusive
<1>6. ASSUME NEW p \in Procs, Crash(p)
      PROVE  Exclusive'
  BY <1>6, ChatConstants DEF Crash, Over, Goto, database, TypeOK, Exclusive
<1>7. ASSUME NEW p \in Procs, StoreFirst(p)
      PROVE  Exclusive'
  BY <1>7 DEF StoreFirst, Over, Goto, Exclusive
<1>8. ASSUME NEW p \in Procs, StoreTurn(p)
      PROVE  Exclusive'
  BY <1>8 DEF StoreTurn, Goto, turn, Exclusive, InTurn
<1>9. ASSUME NEW p \in Procs, Read(p)
      PROVE  Exclusive'
  BY <1>9 DEF Read, Goto, database, TypeOK, Exclusive, InTurn
<1>10. CASE (\E p \in Procs : RunAnswers(p) \/ RunFails(p) \/ RunStopped(p) \/
         Diagnose(p) \/ DatabaseFails(p) \/ Expire(p)) \/ (\E c \in Convs : Delete(c))
         \/ UNCHANGED vars
  BY <1>10
  DEF RunAnswers, Goto, RunFails, RunStopped, Diagnose, DatabaseFails, Delete, Expire,
      database, turn, vars, TypeOK, Exclusive, InTurn
<1>. QED BY <1>1, <1>2, <1>3, <1>4, <1>5, <1>6, <1>7, <1>8, <1>9, <1>10
  DEF Next, Step, Model

(* Only the holder of the lock, a first turn with a new id, and a delete
   touch a conversation's rows.                                            *)
LEMMA CurrentStep ==
    ASSUME TypeOK, Idle, Exclusive, Current, [Next]_vars
    PROVE  Current'
<1>1. ASSUME NEW p \in Procs, StartFirst(p)
      PROVE  Current'
  BY <1>1, ChatConstants DEF StartFirst, Goto, database, turn, TypeOK, Idle, Current
<1>2. ASSUME NEW p \in Procs, NEW c \in Convs, StartContinue(p, c)
      PROVE  Current'
  BY <1>2, ChatConstants DEF StartContinue, Goto, database, Current
<1>3. ASSUME NEW p \in Procs, Read(p)
      PROVE  Current'
  BY <1>3, ChatConstants DEF Read, Goto, database, TypeOK, Idle, Current
<1>4. ASSUME NEW p \in Procs, StoreFirst(p)
      PROVE  Current'
  BY <1>4, ChatConstants DEF StoreFirst, Over, Goto, Exclusive, Current
<1>5. ASSUME NEW p \in Procs, StoreTurn(p)
      PROVE  Current'
  BY <1>5, ChatConstants DEF StoreTurn, Goto, turn, TypeOK, Exclusive, Current, InTurn
<1>6. ASSUME NEW c \in Convs, Delete(c)
      PROVE  Current'
  BY <1>6 DEF Delete, turn, Current
<1>7. ASSUME NEW p \in Procs, Unlock(p)
      PROVE  Current'
  BY <1>7 DEF Unlock, Over, Goto, database, TypeOK, Current
<1>8. ASSUME NEW p \in Procs, Crash(p)
      PROVE  Current'
  BY <1>8 DEF Crash, Over, Goto, database, TypeOK, Current
<1>9. ASSUME NEW p \in Procs, LockFails(p)
      PROVE  Current'
  BY <1>9 DEF LockFails, Over, Goto, database, TypeOK, Current
<1>10. CASE (\E p \in Procs : Lock(p) \/ RunAnswers(p) \/ RunFails(p) \/ RunStopped(p)
         \/ Diagnose(p) \/ DatabaseFails(p) \/ Expire(p)) \/ UNCHANGED vars
  BY <1>10
  DEF Lock, Goto, RunAnswers, RunFails, RunStopped, Diagnose, DatabaseFails, Expire,
      database, turn, vars, TypeOK, Current
<1>. QED BY <1>1, <1>2, <1>3, <1>4, <1>5, <1>6, <1>7, <1>8, <1>9, <1>10
  DEF Next, Step, Model

(* Rows and diagnostics come and go with their conversation.               *)
LEMMA NoOrphansStep ==
    ASSUME TypeOK, Idle, NoOrphans, [Next]_vars
    PROVE  NoOrphans'
<1>1. ASSUME NEW p \in Procs, StoreFirst(p)
      PROVE  NoOrphans'
  BY <1>1, ChatConstants
  DEF StoreFirst, RecordSuccess, Turn, TypeOK, NoOrphans, NoRuns
<1>2. ASSUME NEW p \in Procs, StoreTurn(p)
      PROVE  NoOrphans'
  <2>. DEFINE c == conv[p]
  <2>1. c \in Convs
    BY <1>2 DEF StoreTurn, TypeOK
  <2>2. CASE UNCHANGED <<rows, runs>>
    BY <1>2, <2>2 DEF StoreTurn, NoOrphans
  <2>3. CASE /\ Appendable(c)
             /\ rows' = [rows EXCEPT ![c] = @ \o Turn(NextSeq(c), history[p])]
             /\ runs' = [runs EXCEPT ![c].ok = @ + 1]
    <3>1. /\ Len(rows'[c]) = Len(rows[c]) + 2
          /\ rows'[c] # <<>>
      <4>1. /\ Turn(NextSeq(c), history[p]) \in Seq(Row)
            /\ Len(Turn(NextSeq(c), history[p])) = 2
        BY <2>1, NextSeqNat, TurnRows DEF TypeOK
      <4>2. rows'[c] = rows[c] \o Turn(NextSeq(c), history[p]) /\ rows[c] \in Seq(Row)
        BY <2>1, <2>3 DEF TypeOK
      <4>3. Len(rows'[c]) = Len(rows[c]) + 2 /\ Len(rows[c]) \in Nat
        <5>1. Len(rows[c] \o Turn(NextSeq(c), history[p])) = Len(rows[c]) + 2
          BY <4>1, <4>2, TwoAppended
        <5>. QED BY <4>2, <5>1
      <4>4. Len(rows'[c]) # 0
        BY <4>3
      <4>. QED BY <4>3, <4>4
    <3>2. runs'[c].ok = runs[c].ok + 1
      BY <2>1, <2>3 DEF TypeOK
    <3>3. runs[c].ok \in Nat
      BY <2>1 DEF TypeOK, Run
    <3>4. \A d \in Convs \ {c} : rows'[d] = rows[d] /\ runs'[d] = runs[d]
      BY <2>1, <2>3
    <3>5. exists' = exists /\ c \in exists
      BY <1>2, <2>3 DEF StoreTurn, Appendable
    <3>6. Len(rows[c]) = 2 * runs[c].ok
      BY <3>5 DEF NoOrphans
    <3>7. Len(rows'[c]) = 2 * runs'[c].ok
      BY <3>1, <3>2, <3>3, <3>6
    <3>. QED BY <3>1, <3>4, <3>5, <3>7 DEF NoOrphans, TypeOK
  <2>. QED BY <1>2, <2>2, <2>3 DEF StoreTurn, RecordSuccess
<1>3. ASSUME NEW p \in Procs, Diagnose(p)
      PROVE  NoOrphans'
  <2>1. CASE UNCHANGED runs
    BY <1>3, <2>1 DEF Diagnose, NoOrphans
  <2>2. CASE /\ conv[p] \in exists \cup {NoConv}
             /\ runs' = [runs EXCEPT ![conv[p]].failed = @ + 1]
    <3>1. \A d \in Convs : d # conv[p] => runs'[d] = runs[d]
      BY <2>2
    <3>2. \A d \in Convs : runs'[d].ok = runs[d].ok
      BY <2>2
    <3>3. UNCHANGED <<exists, rows>>
      BY <1>3 DEF Diagnose
    <3>4. \A d \in Convs \ exists : d # conv[p]
      BY <2>2, ChatConstants
    <3>. QED BY <3>1, <3>2, <3>3, <3>4 DEF NoOrphans, TypeOK
  <2>. QED BY <1>3, <2>1, <2>2 DEF Diagnose
<1>4. ASSUME NEW c \in Convs, Delete(c)
      PROVE  NoOrphans'
  BY <1>4, ChatConstants DEF Delete, Deleted, TypeOK, NoOrphans
<1>5. CASE (\E p \in Procs : StartFirst(p) \/ Lock(p) \/ LockFails(p) \/ Read(p) \/
         RunAnswers(p) \/ RunFails(p) \/ RunStopped(p) \/ DatabaseFails(p) \/
         Unlock(p) \/ Expire(p) \/ Crash(p)) \/ (\E p \in Procs, c \in Convs :
         StartContinue(p, c)) \/ UNCHANGED vars
  BY <1>5
  DEF StartFirst, StartContinue, Lock, LockFails, Read, RunAnswers, RunFails,
      RunStopped, DatabaseFails, Unlock, Expire, Crash, database, vars, NoOrphans
<1>. QED BY <1>1, <1>2, <1>3, <1>4, <1>5 DEF Next, Step, Model

(* A turn is appended to exactly what it was run with.                     *)
LEMMA SerialStep ==
    ASSUME TypeOK, Idle, Exclusive, Current, NoOrphans, TurnsAreSerial, [Next]_vars
    PROVE  TurnsAreSerial'
<1>1. ASSUME NEW p \in Procs, StoreFirst(p)
      PROVE  TurnsAreSerial'
  <2>1. PICK c \in Convs \ minted : rows' = [rows EXCEPT ![c] = Turn(0, 0)]
    BY <1>1 DEF StoreFirst
  <2>2. /\ rows'[c] = Turn(0, 0)
        /\ \A d \in Convs \ {c} : rows'[d] = rows[d]
    BY <2>1 DEF TypeOK
  <2>3. /\ Len(Turn(0, 0)) = 2
        /\ Turn(0, 0)[1] = [seq |-> 0, role |-> "user", basis |-> 0]
        /\ Turn(0, 0)[2] = [seq |-> 1, role |-> "assistant", basis |-> 0]
    BY TurnRows
  <2>4. ASSUME NEW k \in 1..Len(rows'[c])
        PROVE  /\ rows'[c][k].seq = k - 1
               /\ rows'[c][k].role = IF k % 2 = 1 THEN "user" ELSE "assistant"
               /\ rows'[c][k].basis = 2 * ((k - 1) \div 2)
    <3>. Len(rows'[c]) = 2 BY <2>2, <2>3
    <3>1. k = 1 \/ k = 2 OBVIOUS
    <3>. QED BY <2>2, <2>3, <3>1
  <2>. QED BY <2>2, <2>4 DEF TurnsAreSerial
<1>2. ASSUME NEW p \in Procs, StoreTurn(p)
      PROVE  TurnsAreSerial'
  <2>. DEFINE c == conv[p]
              n == Len(rows[c])
              t == Turn(NextSeq(c), history[p])
  <2>1. c \in Convs /\ n \in Nat
    BY <1>2 DEF StoreTurn, TypeOK
  <2>2. CASE UNCHANGED <<rows, runs>>
    BY <2>2 DEF TurnsAreSerial
  <2>3. CASE /\ Appendable(c)
             /\ rows' = [rows EXCEPT ![c] = @ \o t]
    <3>1. c \in exists /\ history[p] = n
      BY <1>2, <2>1, <2>3, ChatConstants DEF StoreTurn, Appendable, Current
    <3>2. n # 0 /\ n % 2 = 0 /\ 2 * (n \div 2) = n
      <4>1. rows[c] # <<>> /\ n = 2 * runs[c].ok /\ runs[c].ok \in Nat
        BY <2>1, <3>1 DEF NoOrphans, TypeOK, Run
      <4>. QED BY <2>1, <4>1
    <3>3. NextSeq(c) = n
      <4>1. rows[c] # <<>> /\ n \in 1..Len(rows[c])
        BY <2>1, <3>2
      <4>2. rows[c][n].seq = n - 1
        BY <2>1, <4>1 DEF TurnsAreSerial
      <4>. QED BY <2>1, <4>1, <4>2 DEF NextSeq
    <3>4. /\ t \in Seq(Row)
          /\ Len(t) = 2
          /\ t[1] = [seq |-> n, role |-> "user", basis |-> n]
          /\ t[2] = [seq |-> n + 1, role |-> "assistant", basis |-> n]
      BY <2>1, <3>1, <3>3, TurnRows
    <3>5. /\ Len(rows'[c]) = n + 2
          /\ \A k \in 1..n : rows'[c][k] = rows[c][k]
          /\ rows'[c][n + 1] = t[1]
          /\ rows'[c][n + 2] = t[2]
      <4>. HIDE DEF t
      <4>1. rows'[c] = rows[c] \o t /\ rows[c] \in Seq(Row)
        BY <2>1, <2>3 DEF TypeOK
      <4>2. /\ Len(rows[c] \o t) = Len(rows[c]) + 2
            /\ \A k \in 1..Len(rows[c]) : (rows[c] \o t)[k] = rows[c][k]
            /\ (rows[c] \o t)[Len(rows[c]) + 1] = t[1]
            /\ (rows[c] \o t)[Len(rows[c]) + 2] = t[2]
        BY <3>4, <4>1, TwoAppended
      <4>. QED BY <4>1, <4>2
    <3>6. ASSUME NEW k \in 1..Len(rows'[c])
          PROVE  /\ rows'[c][k].seq = k - 1
                 /\ rows'[c][k].role = IF k % 2 = 1 THEN "user" ELSE "assistant"
                 /\ rows'[c][k].basis = 2 * ((k - 1) \div 2)
      <4>1. CASE k \in 1..n
        <5>1. /\ rows[c][k].seq = k - 1
              /\ rows[c][k].role = IF k % 2 = 1 THEN "user" ELSE "assistant"
              /\ rows[c][k].basis = 2 * ((k - 1) \div 2)
          BY <2>1, <4>1 DEF TurnsAreSerial
        <5>2. rows'[c][k] = rows[c][k]
          BY <3>5, <4>1
        <5>. QED BY <5>1, <5>2
      <4>. HIDE DEF n, t, c
      <4>2. CASE k = n + 1
        <5>1. k % 2 = 1 /\ 2 * ((k - 1) \div 2) = n /\ k - 1 = n
          BY <2>1, <3>2, <4>2
        <5>2. rows'[c][k] = [seq |-> n, role |-> "user", basis |-> n]
          BY <3>4, <3>5, <4>2
        <5>. QED BY <5>1, <5>2
      <4>3. CASE k = n + 2
        <5>1. k % 2 # 1 /\ 2 * ((k - 1) \div 2) = n /\ k - 1 = n + 1
          BY <2>1, <3>2, <4>3
        <5>2. rows'[c][k] = [seq |-> n + 1, role |-> "assistant", basis |-> n]
          BY <3>4, <3>5, <4>3
        <5>. QED BY <5>1, <5>2
      <4>. QED BY <2>1, <3>5, <3>6, <4>1, <4>2, <4>3
    <3>7. \A d \in Convs \ {c} : rows'[d] = rows[d]
      BY <2>1, <2>3
    <3>. QED BY <3>6, <3>7 DEF TurnsAreSerial
  <2>. QED BY <1>2, <2>2, <2>3 DEF StoreTurn
<1>3. ASSUME NEW c \in Convs, Delete(c)
      PROVE  TurnsAreSerial'
  <2>1. rows'[c] = <<>> /\ \A d \in Convs \ {c} : rows'[d] = rows[d]
    BY <1>3 DEF Delete, TypeOK
  <2>. QED BY <2>1 DEF TurnsAreSerial
<1>4. CASE (\E p \in Procs : StartFirst(p) \/ Lock(p) \/ LockFails(p) \/ Read(p) \/
         RunAnswers(p) \/ RunFails(p) \/ RunStopped(p) \/ Diagnose(p) \/
         DatabaseFails(p) \/ Unlock(p) \/ Expire(p) \/ Crash(p)) \/ (\E p \in Procs, c
         \in Convs : StartContinue(p, c)) \/ UNCHANGED vars
  BY <1>4
  DEF StartFirst, StartContinue, Lock, LockFails, Read, RunAnswers, RunFails,
      RunStopped, Diagnose, DatabaseFails, Unlock, Expire, Crash, database, vars,
      TurnsAreSerial
<1>. QED BY <1>1, <1>2, <1>3, <1>4 DEF Next, Step, Model

(* A turn that was checked to fit still fits when it is stored.            *)
LEMMA BoundedStep ==
    ASSUME TypeOK, Idle, Exclusive, Current, HistoryBounded, [Next]_vars
    PROVE  HistoryBounded'
<1>1. ASSUME NEW p \in Procs, StoreFirst(p)
      PROVE  HistoryBounded'
  <2>1. PICK c \in Convs \ minted : rows' = [rows EXCEPT ![c] = Turn(0, 0)]
    BY <1>1 DEF StoreFirst
  <2>2. history[p] = 0 /\ history[p] + 2 <= MaxHistory
    BY <1>1 DEF StoreFirst, Current, TypeOK
  <2>3. Len(Turn(0, 0)) = 2
    BY TurnRows
  <2>4. /\ rows'[c] = Turn(0, 0)
        /\ \A d \in Convs \ {c} : rows'[d] = rows[d]
    BY <2>1 DEF TypeOK
  <2>. QED BY <2>2, <2>3, <2>4 DEF HistoryBounded
<1>2. ASSUME NEW p \in Procs, StoreTurn(p)
      PROVE  HistoryBounded'
  <2>. DEFINE c == conv[p]
  <2>1. c \in Convs
    BY <1>2 DEF StoreTurn, TypeOK
  <2>2. CASE UNCHANGED <<rows, runs>>
    BY <2>2 DEF HistoryBounded
  <2>3. CASE /\ Appendable(c)
             /\ rows' = [rows EXCEPT ![c] = @ \o Turn(NextSeq(c), history[p])]
    <3>1. history[p] = Len(rows[c]) /\ history[p] + 2 <= MaxHistory
      BY <1>2, <2>1, <2>3, ChatConstants DEF StoreTurn, Appendable, Current, TypeOK
    <3>2. /\ Turn(NextSeq(c), history[p]) \in Seq(Row)
          /\ Len(Turn(NextSeq(c), history[p])) = 2
      BY <2>1, NextSeqNat, TurnRows DEF TypeOK
    <3>3. Len(rows'[c]) = Len(rows[c]) + 2
      <4>1. rows'[c] = rows[c] \o Turn(NextSeq(c), history[p]) /\ rows[c] \in Seq(Row)
        BY <2>1, <2>3 DEF TypeOK
      <4>2. Len(rows[c] \o Turn(NextSeq(c), history[p])) = Len(rows[c]) + 2
        BY <3>2, <4>1, TwoAppended
      <4>. QED BY <4>1, <4>2
    <3>. QED BY <2>1, <2>3, <3>1, <3>3 DEF HistoryBounded, TypeOK
  <2>. QED BY <1>2, <2>2, <2>3 DEF StoreTurn
<1>3. ASSUME NEW c \in Convs, Delete(c)
      PROVE  HistoryBounded'
  <2>1. rows' = [rows EXCEPT ![c] = <<>>]
    BY <1>3 DEF Delete
  <2>. QED BY <2>1, ChatConstants DEF HistoryBounded
<1>4. CASE (\E p \in Procs : StartFirst(p) \/ Lock(p) \/ LockFails(p) \/ Read(p) \/
         RunAnswers(p) \/ RunFails(p) \/ RunStopped(p) \/ Diagnose(p) \/
         DatabaseFails(p) \/ Unlock(p) \/ Expire(p) \/ Crash(p)) \/ (\E p \in Procs, c
         \in Convs : StartContinue(p, c)) \/ UNCHANGED vars
  BY <1>4
  DEF StartFirst, StartContinue, Lock, LockFails, Read, RunAnswers, RunFails,
      RunStopped, Diagnose, DatabaseFails, Unlock, Expire, Crash, database, vars,
      HistoryBounded
<1>. QED BY <1>1, <1>2, <1>3, <1>4 DEF Next, Step, Model

LEMMA InitIInv == Init => IInv
<1>. SUFFICES ASSUME Init PROVE IInv
  OBVIOUS
<1>1. TypeOK
  BY ChatConstants DEF Init, TypeOK, Run, NoRuns, Phases
<1>2. Idle /\ Exclusive /\ Current
  BY DEF Init, Idle, Exclusive, Current
<1>3. NoOrphans /\ TurnsAreSerial /\ HistoryBounded
  BY ChatConstants DEF Init, NoOrphans, TurnsAreSerial, HistoryBounded
<1>. QED BY <1>1, <1>2, <1>3 DEF IInv

(* IInv is inductive.                                                      *)
THEOREM Invariance == Spec => []IInv
<1>1. ASSUME IInv, [Next]_vars PROVE IInv'
  BY <1>1, TypeStep, IdleStep, ExclusiveStep, CurrentStep, NoOrphansStep, SerialStep,
     BoundedStep
  DEF IInv
<1>. QED BY <1>1, InitIInv, PTL DEF Spec

(* Every variable has its type, and every turn run fits the limit.         *)
THEOREM TypeCorrect == Spec => []TypeOK
<1>1. IInv => TypeOK BY DEF IInv
<1>. QED BY <1>1, Invariance, PTL

(* Concurrent continuations are serialised by the lock: each answer was    *)
(* given to exactly the messages stored before it.                         *)
THEOREM SerialTurns == Spec => []TurnsAreSerial
<1>1. IInv => TurnsAreSerial BY DEF IInv
<1>. QED BY <1>1, Invariance, PTL

(* No interleaving of processes takes a history past MaxHistoryMessages.   *)
THEOREM BoundedHistories == Spec => []HistoryBounded
<1>1. IInv => HistoryBounded BY DEF IInv
<1>. QED BY <1>1, Invariance, PTL

(* Deleting a conversation, whoever is in a turn of it, leaves no row and  *)
(* no diagnostic, and none comes back.                                     *)
THEOREM Orphanless == Spec => []NoOrphans
<1>1. IInv => NoOrphans BY DEF IInv
<1>. QED BY <1>1, Invariance, PTL
=============================================================================
