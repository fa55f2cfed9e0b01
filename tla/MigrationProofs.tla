-------------------------- MODULE MigrationProofs --------------------------
(***************************************************************************)
(* Opening the database never loses, reorders or half upgrades anything,   *)
(* for any number of processes, messages and openings and any database     *)
(* that may be found.                                                      *)
(*                                                                         *)
(* What makes it so is the lock, which lets one process be inside Open,    *)
(* and that a store is open only over a database that needs no upgrade: so *)
(* nothing is appended between the inspection, the backup and the commit.  *)
(* The repair of duplicate numbers is right because Ranks is a bijection   *)
(* onto 0..n-1 that keeps the order.                                       *)
(***************************************************************************)
EXTENDS Migration, FiniteSetTheorems, TLAPS

\* The holder of the lock is the only one inside Open.
Locked == \A p \in Procs : pc[p] \in Opening => lock = p

\* What is known of the stored database, place by place.
Known(p) ==
    /\ pc[p] \in {"open", "protecting"} => Complete(db)
    /\ pc[p] \in {"backing", "beginning"} \cup Upgrading => NeedsMigration(db)
    /\ pc[p] \in {"beginning"} \cup Upgrading => db = Blank \/ db \in backups

Whole == (db # original => Complete(db)) /\ \A p \in Procs : Known(p)

Repaired == {"runs", "unique", "time", "backfill", "committing"}

\* Where a message is after k UPDATEs of the repair.
Placed(seqs, k, id) ==
    seqs[id] = IF rank[id] < k - Len(rank) THEN rank[id]
               ELSE IF rank[id] < k THEN -id - 1 ELSE original.seqs[id]

\* The numbers are unique and keep the order of the messages.
Renumbered(seqs) ==
    /\ ~Duplicated(seqs)
    /\ \A a, b \in Ids(original) : Before(seqs, a, b) <=> Before(original.seqs, a, b)

\* What the transaction has done, stage by stage.
Drafted(p) ==
    /\ pc[p] = "schema" => draft = db
    /\ pc[p] \in {"repairing"} \cup Repaired => Ids(draft) = Ids(original) /\ draft.search
    /\ pc[p] \in {"repairing"} \cup (Repaired \ {"committing"}) => draft.indexed = original.indexed
    /\ pc[p] = "repairing" =>
         /\ rank = Ranks(original.seqs) /\ step < 2 * Len(rank)
         /\ \A id \in Ids(original) : Placed(draft.seqs, step, id)
    /\ pc[p] \in Repaired => Renumbered(draft.seqs)
    /\ pc[p] \in {"unique", "time", "backfill", "committing"} => draft.runs = "current"
    /\ pc[p] \in {"time", "backfill", "committing"} => draft.unique
    /\ pc[p] \in {"backfill", "committing"} => draft.time = "column" /\ draft.version = SchemaVersion
    /\ pc[p] = "committing" => draft.indexed = Ids(draft)

Drawn == \A p \in Procs : Drafted(p)

IInv == TypeOK /\ original \in Databases /\ Locked /\ Whole /\ Drawn /\ OrderKept

-----------------------------------------------------------------------------
(* Numbers of messages.                                                    *)

\* Messages are strictly ordered.
LEMMA Ordered ==
    ASSUME NEW seqs \in Seq(Int)
    PROVE  /\ \A a \in DOMAIN seqs : ~Before(seqs, a, a)
           /\ \A a, b \in DOMAIN seqs : a = b \/ Before(seqs, a, b) \/ Before(seqs, b, a)
           /\ \A a, b, c \in DOMAIN seqs :
                Before(seqs, a, b) /\ Before(seqs, b, c) => Before(seqs, a, c)
<1>1. DOMAIN seqs \subseteq Int /\ \A a \in DOMAIN seqs : seqs[a] \in Int
  OBVIOUS
<1> QED BY <1>1 DEF Before

\* The rank of a message is its place in that order, and each place is taken.
LEMMA Ranked ==
    ASSUME NEW seqs \in Seq(Int)
    PROVE  /\ Ranks(seqs) \in Seq(Nat) /\ Len(Ranks(seqs)) = Len(seqs)
           /\ DOMAIN Ranks(seqs) = DOMAIN seqs
           /\ \A a \in DOMAIN seqs : Ranks(seqs)[a] \in 0..(Len(seqs) - 1)
           /\ \A a, b \in DOMAIN seqs : Before(seqs, a, b) <=> Ranks(seqs)[a] < Ranks(seqs)[b]
           /\ \A a, b \in DOMAIN seqs : a # b => Ranks(seqs)[a] # Ranks(seqs)[b]
           /\ \A k \in 0..(Len(seqs) - 1) : \E a \in DOMAIN seqs : Ranks(seqs)[a] = k
<1> DEFINE D == DOMAIN seqs
           n == Len(seqs)
           Lower(a) == {c \in D : Before(seqs, c, a)}
           R == Ranks(seqs)
<1>1. D = 1..n /\ n \in Nat
  OBVIOUS
<1> HIDE DEF n
<1>2. IsFiniteSet(D) /\ Cardinality(D) = n
  <2>1. IsFiniteSet(1..n) /\ Cardinality(1..n) = IF 1 > n THEN 0 ELSE n - 1 + 1
    BY <1>1, FS_Interval
  <2> QED BY <1>1, <2>1
<1> USE DEF n
<1>3. R = [a \in D |-> Cardinality(Lower(a))]
  BY DEF Ranks
<1>4. ASSUME NEW a \in D
      PROVE  IsFiniteSet(Lower(a)) /\ R[a] = Cardinality(Lower(a)) /\ R[a] \in Nat /\ R[a] < n
  <2>1. Lower(a) \subseteq D /\ a \notin Lower(a)
    BY Ordered
  <2>2. IsFiniteSet(Lower(a)) /\ Cardinality(Lower(a)) <= n
        /\ (Cardinality(D) = Cardinality(Lower(a)) => D = Lower(a))
    BY <1>2, <2>1, FS_Subset
  <2>3. Cardinality(Lower(a)) \in Nat
    BY <2>2, FS_CardinalityType
  <2>4. Cardinality(Lower(a)) # n
    BY <1>2, <2>1, <2>2
  <2> QED BY <1>1, <1>3, <2>2, <2>3, <2>4
<1>5. ASSUME NEW a \in D, NEW b \in D, Before(seqs, a, b)
      PROVE  R[a] < R[b]
  <2>1. Lower(a) \subseteq Lower(b) /\ a \in Lower(b) /\ a \notin Lower(a)
    BY <1>5, Ordered
  <2>2. /\ Cardinality(Lower(a)) <= Cardinality(Lower(b))
        /\ Cardinality(Lower(b)) = Cardinality(Lower(a)) => Lower(b) = Lower(a)
    BY <1>4, <2>1, FS_Subset
  <2>3. Cardinality(Lower(a)) # Cardinality(Lower(b))
    BY <2>1, <2>2
  <2>4. R[a] \in Nat /\ R[b] \in Nat /\ R[a] = Cardinality(Lower(a)) /\ R[b] = Cardinality(Lower(b))
    BY <1>4
  <2> HIDE DEF Lower, R
  <2> QED BY <2>2, <2>3, <2>4
<1>a. \A a \in D : R[a] \in Nat /\ R[a] < n
  BY <1>4
<1>b. \A a, b \in D : Before(seqs, a, b) => R[a] < R[b]
  BY <1>5
<1>6. \A a, b \in D : a # b => R[a] # R[b]
  <2>1. \A a, b \in D : a # b => Before(seqs, a, b) \/ Before(seqs, b, a)
    BY Ordered
  <2> HIDE DEF R, D, Lower
  <2> QED BY <1>a, <1>b, <2>1
<1>7. \A a, b \in D : Before(seqs, a, b) <=> R[a] < R[b]
  <2>1. \A a, b \in D : a = b \/ Before(seqs, a, b) \/ Before(seqs, b, a)
    BY Ordered
  <2> HIDE DEF R, D, Lower
  <2> QED BY <1>a, <1>b, <2>1
<1> HIDE DEF R
<1>8. R \in [D -> 0..(n - 1)]
  <2>1. \A a \in D : R[a] \in 0..(n - 1)
    <3> HIDE DEF D, n
    <3> QED BY <1>1, <1>a
  <2> QED BY <1>3, <2>1
<1>9. \A k \in 0..(n - 1) : \E a \in D : R[a] = k
  <2>1. R \in Injection(D, 0..(n - 1))
    BY <1>6, <1>8 DEF Injection, IsInjective
  <2>2. IsFiniteSet(0..(n - 1)) /\ Cardinality(0..(n - 1)) = n
    <3> HIDE DEF n
    <3>1. /\ IsFiniteSet(0..(n - 1))
          /\ Cardinality(0..(n - 1)) = IF 0 > n - 1 THEN 0 ELSE (n - 1) - 0 + 1
      BY <1>1, FS_Interval
    <3> QED BY <1>1, <3>1
  <2>3. R \in Surjection(D, 0..(n - 1))
    BY <1>2, <2>1, <2>2, FS_Injection
  <2> QED BY <2>3 DEF Surjection
<1>10. R \in Seq(Nat) /\ Len(R) = n /\ DOMAIN R = D
  <2>1. R \in [1..n -> Nat]
    BY <1>1, <1>8
  <2>2. R \in Seq(Nat)
    BY <1>1, <2>1
  <2>3. DOMAIN R = 1..n
    BY <2>1
  <2> QED BY <1>1, <2>2, <2>3
<1> QED BY <1>6, <1>7, <1>8, <1>9, <1>10 DEF R

\* There is a last message, and its number is the highest.
LEMMA Last ==
    ASSUME NEW seqs \in Seq(Int)
    PROVE  /\ NextSeq(seqs) \in Int
           /\ \A id \in DOMAIN seqs : seqs[id] < NextSeq(seqs)
<1>1. CASE seqs = <<>>
  <2>1. DOMAIN seqs = {}
    BY <1>1
  <2>2. NextSeq(seqs) = 0
    BY <1>1 DEF NextSeq
  <2> QED BY <2>1, <2>2
<1>2. CASE seqs # <<>>
  <2> DEFINE n == Len(seqs)
             Top(m) == m \in {seqs[id] : id \in DOMAIN seqs} /\ \A id \in DOMAIN seqs : seqs[id] <= m
  <2>1. n \in Nat /\ n # 0 /\ \A id \in DOMAIN seqs : seqs[id] \in Int
    BY <1>2
  <2>2. n - 1 \in 0..(n - 1)
    BY <2>1
  <2>3. PICK a \in DOMAIN seqs : Ranks(seqs)[a] = n - 1
    BY <2>2, Ranked
  <2>4. \A b \in DOMAIN seqs : ~Before(seqs, a, b)
    <3>1. ASSUME NEW b \in DOMAIN seqs
          PROVE  ~(Ranks(seqs)[a] < Ranks(seqs)[b])
      <4>1. Ranks(seqs)[b] \in 0..(n - 1)
        BY Ranked
      <4> QED BY <2>1, <2>3, <4>1
    <3> QED BY <3>1, Ranked
  <2>5. \A b \in DOMAIN seqs : seqs[b] <= seqs[a]
    BY <2>1, <2>4 DEF Before
  <2>6. Top(seqs[a])
    BY <2>5
  <2>7. Top(CHOOSE m : Top(m))
    BY <2>6
  <2>8. NextSeq(seqs) = 1 + (CHOOSE m : Top(m))
    <3>1. NextSeq(seqs) = 1 + (CHOOSE m \in {seqs[id] : id \in DOMAIN seqs} :
                                 \A id \in DOMAIN seqs : seqs[id] <= m)
      BY <1>2 DEF NextSeq
    <3> QED BY <3>1
  <2>9. (CHOOSE m : Top(m)) \in Int
    BY <2>1, <2>7
  <2> DEFINE m == CHOOSE k : Top(k)
  <2>10. m \in Int /\ NextSeq(seqs) = 1 + m /\ \A id \in DOMAIN seqs : seqs[id] <= m
    BY <2>7, <2>8, <2>9
  <2> HIDE DEF m
  <2> QED BY <2>1, <2>10
<1> QED BY <1>1, <1>2

-----------------------------------------------------------------------------
(* The repair of duplicate numbers.                                        *)

\* What is known of a database that was found.
LEMMA Original ==
    ASSUME original \in Databases
    PROVE  /\ original \in Database /\ original.seqs \in Seq(Int)
           /\ \A id \in Ids(original) : original.seqs[id] \in Nat /\ id \in Nat \ {0}
           /\ original.unique => ~Duplicated(original.seqs)
           /\ original.indexed \in {{}, Ids(original)}
<1>1. original \in Database /\ original.seqs \in Seq(Int)
  BY MigrationConstants DEF Database
<1>2. \A id \in Ids(original) : original.seqs[id] \in Int /\ original.seqs[id] >= 0
  BY <1>1, MigrationConstants DEF Ids
<1>3. \A id \in Ids(original) : id \in Nat \ {0}
  BY <1>1 DEF Ids
<1> QED BY <1>1, <1>2, <1>3, MigrationConstants

\* The numbers that the repair starts with.
LEMMA Ranking ==
    ASSUME original \in Databases, rank = Ranks(original.seqs)
    PROVE  /\ rank \in Seq(Nat) /\ DOMAIN rank = Ids(original) /\ Len(rank) \in Nat
           /\ \A a \in Ids(original) : rank[a] \in 0..(Len(rank) - 1)
           /\ \A a, b \in Ids(original) : a # b => rank[a] # rank[b]
           /\ \A k \in 0..(Len(rank) - 1) : \E a \in Ids(original) : rank[a] = k
           /\ \A a, b \in Ids(original) : Before(original.seqs, a, b) <=> rank[a] < rank[b]
<1>1. original.seqs \in Seq(Int)
  BY Original
<1>2. rank \in Seq(Nat) /\ Len(rank) = Len(original.seqs) /\ DOMAIN rank = DOMAIN original.seqs
  BY <1>1, Ranked
<1> QED BY <1>1, <1>2, Ranked DEF Ids

\* The message that an UPDATE is about.
Turn == IF step < Len(rank) THEN step ELSE step - Len(rank)

LEMMA TheSubject ==
    ASSUME original \in Databases, rank = Ranks(original.seqs), step \in Nat, step < 2 * Len(rank)
    PROVE  Subject \in Ids(original) /\ rank[Subject] = Turn
<1>1. Len(rank) \in Nat
  BY Ranking
<1>2. Turn \in 0..(Len(rank) - 1)
  BY <1>1 DEF Turn
<1>3. \E id \in DOMAIN rank : rank[id] = Turn
  BY <1>2, Ranking
<1>4. Subject = CHOOSE id \in DOMAIN rank : rank[id] = Turn
  BY DEF Subject, Turn
<1>5. Subject \in DOMAIN rank /\ rank[Subject] = Turn
  BY <1>3, <1>4
<1> QED BY <1>5, Ranking

\* At any moment of the two passes, numbers that were moved are unique.
LEMMA Distinct ==
    ASSUME original \in Databases, rank = Ranks(original.seqs), NEW k \in Nat,
           NEW seqs, \A id \in Ids(original) : Placed(seqs, k, id),
           NEW a \in Ids(original), NEW b \in Ids(original), a # b, rank[a] < k
    PROVE  seqs[a] # seqs[b]
<1>1. /\ a \in Nat /\ b \in Nat /\ original.seqs[a] \in Nat /\ original.seqs[b] \in Nat
      /\ rank[a] \in Nat /\ rank[b] \in Nat /\ rank[a] # rank[b] /\ Len(rank) \in Nat
  BY Original, Ranking
<1>2. Placed(seqs, k, a) /\ Placed(seqs, k, b)
  OBVIOUS
<1>3. CASE rank[a] < k - Len(rank)
  <2>1. seqs[a] = rank[a] /\ rank[b] < k
    BY <1>1, <1>2, <1>3, Ranking DEF Placed
  <2>2. seqs[b] = rank[b] \/ seqs[b] = -b - 1
    BY <1>2, <2>1 DEF Placed
  <2> QED BY <1>1, <2>1, <2>2
<1>4. CASE ~(rank[a] < k - Len(rank))
  <2>1. seqs[a] = -a - 1
    BY <1>2, <1>4 DEF Placed
  <2>2. seqs[b] = rank[b] \/ seqs[b] = -b - 1 \/ seqs[b] = original.seqs[b]
    BY <1>2 DEF Placed
  <2> QED BY <1>1, <2>1, <2>2
<1> QED BY <1>3, <1>4

\* One UPDATE.
LEMMA Repairing ==
    ASSUME TypeOK, original \in Databases, NEW p \in Procs, Drafted(p), Repair(p)
    PROVE  /\ Subject \in Ids(original) /\ NewNumber(Subject) \in Int
           /\ draft' = [draft EXCEPT !.seqs = [draft.seqs EXCEPT ![Subject] = NewNumber(Subject)]]
           /\ rank' = rank /\ step' = step + 1 /\ step' \in Nat /\ step' <= 2 * Len(rank)
           /\ Ids(draft') = Ids(original)
           /\ draft'.seqs \in Seq(Int)
           /\ \A id \in Ids(original) : id # Subject => draft'.seqs[id] = draft.seqs[id]
           /\ \A id \in Ids(original) : Placed(draft'.seqs, step', id)
<1>1. /\ pc[p] = "repairing" /\ rank = Ranks(original.seqs) /\ step < 2 * Len(rank) /\ Ids(draft) = Ids(original)
      /\ \A id \in Ids(original) : Placed(draft.seqs, step, id)
  BY DEF Repair, Drafted
<1>2. step \in Nat /\ draft \in Database /\ draft.seqs \in Seq(Int) /\ Len(rank) \in Nat
  BY <1>1, Ranking DEF TypeOK, Database
<1>3. Subject \in Ids(original) /\ rank[Subject] = Turn
  BY <1>1, <1>2, TheSubject
<1>4. NewNumber(Subject) \in Int
  BY <1>1, <1>2, <1>3, Ranking, Original DEF NewNumber
<1>5. draft' = [draft EXCEPT !.seqs = [draft.seqs EXCEPT ![Subject] = NewNumber(Subject)]]
  BY <1>2 DEF Repair
<1>6. draft'.seqs = [draft.seqs EXCEPT ![Subject] = NewNumber(Subject)]
  BY <1>2, <1>5 DEF Database
<1>7. rank' = rank /\ step' = step + 1 /\ original' = original
  BY DEF Repair
<1>8. step' \in Nat /\ step' <= 2 * Len(rank)
  BY <1>1, <1>2, <1>7
<1>9. draft'.seqs \in Seq(Int) /\ DOMAIN draft'.seqs = DOMAIN draft.seqs
  BY <1>1, <1>2, <1>3, <1>4, <1>6 DEF Ids
<1>10. \A id \in Ids(original) : draft'.seqs[id] = IF id = Subject THEN NewNumber(Subject) ELSE draft.seqs[id]
  BY <1>1, <1>6 DEF Ids
<1>11. ASSUME NEW id \in Ids(original)
       PROVE  Placed(draft'.seqs, step', id)
  <2>1. /\ rank[id] \in Nat /\ rank[id] < Len(rank)
        /\ id # Subject => rank[id] # rank[Subject]
    BY <1>1, <1>2, <1>3, Ranking
  <2>2. Placed(draft.seqs, step, id)
    BY <1>1
  <2>3. CASE id = Subject
    <3>1. draft'.seqs[id] = NewNumber(id) /\ rank[id] = Turn
      BY <1>3, <1>10, <2>3
    <3>2. draft'.seqs[id] = IF rank[id] < step' - Len(rank) THEN rank[id]
                            ELSE IF rank[id] < step' THEN -id - 1 ELSE original.seqs[id]
      BY <1>1, <1>2, <1>7, <2>1, <3>1 DEF NewNumber, Turn
    <3> QED BY <1>7, <3>2 DEF Placed
  <2>4. CASE id # Subject
    <3>1. draft'.seqs[id] = draft.seqs[id] /\ rank[id] # Turn
      BY <1>3, <1>10, <2>1, <2>4
    <3>a. ASSUME NEW r \in Nat, NEW n \in Nat, NEW k \in Nat, r < n,
                 r # (IF k < n THEN k ELSE k - n)
          PROVE  /\ r < (k + 1) - n <=> r < k - n
                 /\ r < k + 1 <=> r < k
      BY <3>a
    <3>2. rank[id] < step' - Len(rank) <=> rank[id] < step - Len(rank)
      BY <1>2, <1>7, <2>1, <3>1, <3>a DEF Turn
    <3>3. rank[id] < step' <=> rank[id] < step
      BY <1>2, <1>7, <2>1, <3>1, <3>a DEF Turn
    <3> QED BY <1>7, <2>2, <3>1, <3>2, <3>3 DEF Placed
  <2> QED BY <2>3, <2>4
<1> QED BY <1>1, <1>3, <1>4, <1>5, <1>7, <1>8, <1>9, <1>10, <1>11 DEF Ids

\* After both passes the numbers are the ranks.
LEMMA AllRepaired ==
    ASSUME original \in Databases, rank = Ranks(original.seqs),
           NEW seqs \in Seq(Int), DOMAIN seqs = Ids(original),
           \A id \in Ids(original) : Placed(seqs, 2 * Len(rank), id)
    PROVE  Renumbered(seqs)
<1>1. \A id \in Ids(original) : rank[id] \in 0..(Len(rank) - 1) /\ Len(rank) \in Nat
  BY Ranking
<1>2. \A id \in Ids(original) : seqs[id] = rank[id] /\ rank[id] \in Nat
  BY <1>1 DEF Placed
<1>3. \A a, b \in Ids(original) : a # b => seqs[a] # seqs[b]
  BY <1>2, Ranking
<1>4. \A a, b \in Ids(original) : Before(seqs, a, b) <=> rank[a] < rank[b]
  <2>1. \A a \in Ids(original) : a \in Nat
    BY Original
  <2> QED BY <1>2, <1>3, <2>1 DEF Before
<1>5. \A a, b \in Ids(original) : Before(seqs, a, b) <=> Before(original.seqs, a, b)
  BY <1>4, Ranking
<1> QED BY <1>3, <1>5 DEF Renumbered, Duplicated

-----------------------------------------------------------------------------
(* Types and the lock.                                                     *)

\* A database with a current structure is not upgraded.
LEMMA NotBoth ==
    ASSUME NEW d \in Database, Complete(d)
    PROVE  ~NeedsMigration(d)
<1>1. d.version = SchemaVersion /\ d.runs = "current" /\ d.time = "column" /\ d.indexed = Ids(d)
  BY DEF Complete
<1>2. d.unique /\ d.search /\ d.unique \in BOOLEAN /\ d.search \in BOOLEAN
  BY DEF Complete, Database
<1>3. ~(d.version < SchemaVersion)
  BY <1>1 DEF SchemaVersion
<1> QED BY <1>1, <1>2, <1>3 DEF NeedsMigration, NeedsBackfill

\* Whoever is inside Open is alone there.
LEMMA Alone ==
    ASSUME TypeOK, Locked, NEW p \in Procs, pc[p] \in Opening, NEW q \in Procs, pc[q] \in Opening
    PROVE  q = p
BY DEF Locked

\* The empty draft of no transaction.
LEMMA NoDraft == Blank \in Database /\ <<>> \in Seq(Nat) /\ Len(<<>>) = 0
<1>1. <<>> \in Seq(Int) /\ <<>> \in Seq(Nat) /\ Len(<<>>) = 0
  OBVIOUS
<1> QED BY <1>1 DEF Blank, Database

\* Types of the transaction when it is over or goes on.
Working == draft \in Database /\ rank \in Seq(Nat) /\ step \in 0..(2 * Len(rank))

LEMMA Forgotten ==
    ASSUME Forget
    PROVE  Working'
BY NoDraft DEF Forget, Working

\* The stages keep those types.
LEMMA StageType ==
    ASSUME TypeOK, original \in Databases, Drawn, NEW p \in Procs,
           \/ Begin(p) \/ Schema(p) \/ Repair(p) \/ Runs(p) \/ Unique(p) \/ Time(p)
           \/ Backfill(p)
    PROVE  Working'
<1> USE DEF Working
<1>1. Working /\ db \in Database /\ draft.seqs \in Seq(Int)
  BY DEF TypeOK, Database
<1>2. CASE Begin(p)
  BY <1>1, <1>2 DEF Begin
<1>3. CASE Schema(p)
  <2>1. draft' \in Database
    BY <1>1, <1>3 DEF Schema, Database
  <2>2. rank' \in Seq(Nat) /\ step' = 0 /\ Len(rank') \in Nat
    BY <1>1, <1>3, Ranked DEF Schema
  <2> QED BY <2>1, <2>2
<1>4. CASE Repair(p)
  <2>1. Drafted(p)
    BY DEF Drawn
  <2>2. draft'.seqs \in Seq(Int)
        /\ draft' = [draft EXCEPT !.seqs = [draft.seqs EXCEPT ![Subject] = NewNumber(Subject)]]
        /\ rank' = rank /\ step' \in Nat /\ step' <= 2 * Len(rank)
    BY <1>4, <2>1, Repairing
  <2>3. draft'.seqs = [draft.seqs EXCEPT ![Subject] = NewNumber(Subject)]
    BY <1>1, <2>2 DEF Database
  <2>4. draft' \in Database
    BY <1>1, <2>2, <2>3 DEF Database
  <2> QED BY <1>1, <2>2, <2>4
<1>5. CASE Runs(p) \/ Unique(p)
  BY <1>1, <1>5 DEF Runs, Unique, Database
<1>6. CASE Time(p)
  BY <1>1, <1>6 DEF Time, Database, SchemaVersion
<1>7. CASE Backfill(p)
  <2>1. Ids(draft) \subseteq Nat \ {0}
    BY <1>1 DEF Ids
  <2> QED BY <1>1, <1>7, <2>1 DEF Backfill, Database
<1> QED BY <1>2, <1>3, <1>4, <1>5, <1>6, <1>7

\* What is stored keeps its type.
LEMMA StoredType ==
    ASSUME TypeOK, NEW p \in Procs, Commit(p) \/ AppendMessage(p)
    PROVE  db' \in Database
<1>1. db \in Database /\ draft \in Database /\ db.seqs \in Seq(Int)
  BY DEF TypeOK, Database
<1>2. CASE Commit(p)
  BY <1>1, <1>2 DEF Commit
<1>3. CASE AppendMessage(p)
  <2>1. Append(db.seqs, NextSeq(db.seqs)) \in Seq(Int)
    BY <1>1, Last
  <2>2. Len(db.seqs) + 1 \in Nat \ {0}
    BY <1>1
  <2>3. db.indexed \cup {Len(db.seqs) + 1} \in SUBSET (Nat \ {0})
    BY <1>1, <2>2 DEF Database
  <2>4. db' = [db EXCEPT !.seqs = Append(db.seqs, NextSeq(db.seqs)),
                         !.indexed = IF db.search THEN db.indexed \cup {Len(db.seqs) + 1} ELSE db.indexed]
    BY <1>3 DEF AppendMessage
  <2> QED BY <1>1, <2>1, <2>3, <2>4 DEF Database
<1> QED BY <1>2, <1>3

\* One process moves, and only inside Open is there a transaction.
LEMMA PlaceType ==
    ASSUME TypeOK, NEW p \in Procs,
           \/ Open(p) \/ Lock(p) \/ LockTimeout(p) \/ Inspect(p) \/ TooNew(p) \/ Backup(p)
           \/ Begin(p) \/ Schema(p) \/ Repair(p) \/ Runs(p) \/ Unique(p) \/ Time(p)
           \/ Backfill(p) \/ Commit(p) \/ Fails(p) \/ Opened(p)
           \/ AppendMessage(p) \/ Close(p) \/ Crash(p)
    PROVE  /\ pc' \in [Procs -> Phases] /\ \A q \in Procs \ {p} : pc'[q] = pc[q]
           /\ lock' \in Procs \cup {NoProc} /\ writer' \in Procs \cup {NoProc}
           /\ \A q \in Procs : pc'[q] \in Upgrading <=> writer' = q
           /\ opens' \in Nat
<1> USE DEF Goto, Phases, Opening, Upgrading
<1>1. /\ pc \in [Procs -> Phases] /\ lock \in Procs \cup {NoProc} /\ writer \in Procs \cup {NoProc}
      /\ \A q \in Procs : pc[q] \in Upgrading <=> writer = q
      /\ opens \in Nat /\ NoProc \notin Procs
  BY MigrationConstants DEF TypeOK
<1>2. CASE Open(p) \/ Lock(p) \/ LockTimeout(p) \/ TooNew(p) \/ Opened(p) \/ AppendMessage(p) \/ Close(p)
  BY <1>1, <1>2 DEF Open, Lock, LockTimeout, TooNew, Opened, AppendMessage, Close
<1>3. CASE Inspect(p)
  <2>1. pc[p] = "inspecting" /\ UNCHANGED <<lock, writer, opens>>
    BY <1>3 DEF Inspect
  <2>2. \E ph \in {"protecting", "backing", "beginning"} : pc' = [pc EXCEPT ![p] = ph]
    BY <1>3 DEF Inspect
  <2> QED BY <1>1, <2>1, <2>2
<1>4. CASE Backup(p) \/ Begin(p)
  BY <1>1, <1>4 DEF Backup, Begin
<1>5. CASE Schema(p) \/ Repair(p)
  <2>1. pc[p] \in Upgrading /\ UNCHANGED <<lock, writer, opens>>
    BY <1>5 DEF Schema, Repair
  <2>2. \E ph \in {"repairing", "runs"} : pc' = [pc EXCEPT ![p] = ph]
    BY <1>5 DEF Schema, Repair
  <2> QED BY <1>1, <2>1, <2>2
<1>6. CASE Runs(p) \/ Unique(p) \/ Time(p) \/ Backfill(p)
  BY <1>1, <1>6 DEF Runs, Unique, Time, Backfill
<1>7. CASE Commit(p)
  BY <1>1, <1>7 DEF Commit, Forget
<1>8. CASE Fails(p) \/ Crash(p)
  <2>1. GiveUp(p)
    BY <1>8 DEF Fails, Crash
  <2> QED BY <1>1, <2>1 DEF GiveUp, Forget, work
<1> QED BY <1>2, <1>3, <1>4, <1>5, <1>6, <1>7, <1>8

\* Types are kept.
LEMMA TypeStep ==
    ASSUME IInv, [Next]_vars
    PROVE  TypeOK'
<1>1. TypeOK /\ original \in Databases /\ Drawn /\ original \in Database /\ db \in Database
      /\ backups \subseteq Database /\ Working
  BY DEF IInv, TypeOK, Working
<1>2. CASE UNCHANGED vars
  BY <1>1, <1>2 DEF TypeOK, vars, work
<1>3. ASSUME NEW p \in Procs,
             \/ Open(p) \/ Lock(p) \/ LockTimeout(p) \/ Inspect(p) \/ TooNew(p) \/ Backup(p)
             \/ Begin(p) \/ Schema(p) \/ Repair(p) \/ Runs(p) \/ Unique(p) \/ Time(p)
             \/ Backfill(p) \/ Commit(p) \/ Fails(p) \/ Opened(p)
             \/ AppendMessage(p) \/ Close(p) \/ Crash(p)
      PROVE  TypeOK'
  <2>1. /\ pc' \in [Procs -> Phases] /\ lock' \in Procs \cup {NoProc} /\ writer' \in Procs \cup {NoProc}
        /\ \A q \in Procs : pc'[q] \in Upgrading <=> writer' = q
        /\ opens' \in Nat
    BY <1>1, <1>3, PlaceType
  <2>2. original' = original
    BY <1>3 DEF Open, Lock, LockTimeout, Inspect, TooNew, Backup, Begin, Schema, Repair, Runs,
       Unique, Time, Backfill, Commit, Fails, Opened, AppendMessage, Close, Crash, GiveUp
  <2>3. Working'
    <3>1. UNCHANGED work => Working'
      BY <1>1 DEF Working, work
    <3>2. CASE Fails(p) \/ Crash(p)
      BY <3>1, <3>2, Forgotten DEF Fails, Crash, GiveUp
    <3>3. CASE Commit(p)
      BY <3>3, Forgotten DEF Commit
    <3>4. CASE \/ Open(p) \/ Lock(p) \/ LockTimeout(p) \/ Inspect(p) \/ TooNew(p) \/ Backup(p)
               \/ Opened(p) \/ AppendMessage(p) \/ Close(p)
      BY <3>1, <3>4 DEF Open, Lock, LockTimeout, Inspect, TooNew, Backup, Opened, AppendMessage, Close
    <3> QED BY <1>1, <1>3, <3>2, <3>3, <3>4, StageType
  <2>4. db' \in Database
    <3>1. db' = db => db' \in Database
      BY <1>1
    <3>2. CASE Commit(p) \/ AppendMessage(p)
      BY <1>1, <3>2, StoredType
    <3>3. CASE ~(Commit(p) \/ AppendMessage(p))
      BY <1>3, <3>1, <3>3 DEF Open, Lock, LockTimeout, Inspect, TooNew, Backup, Begin, Schema, Repair,
         Runs, Unique, Time, Backfill, Fails, Opened, Close, Crash, GiveUp
    <3> QED BY <3>2, <3>3
  <2>5. backups' \subseteq Database
    BY <1>1, <1>3 DEF Open, Lock, LockTimeout, Inspect, TooNew, Backup, Begin, Schema, Repair, Runs,
       Unique, Time, Backfill, Commit, Fails, Opened, AppendMessage, Close, Crash, GiveUp
  <2> QED BY <1>1, <2>1, <2>2, <2>3, <2>4, <2>5 DEF TypeOK, Working
<1> QED BY <1>2, <1>3 DEF Next

-----------------------------------------------------------------------------
(* The invariant is kept.                                                  *)

\* What any process does.
Act(p) ==
    \/ Open(p) \/ Lock(p) \/ LockTimeout(p) \/ Inspect(p) \/ TooNew(p) \/ Backup(p)
    \/ Begin(p) \/ Schema(p) \/ Repair(p) \/ Runs(p) \/ Unique(p) \/ Time(p)
    \/ Backfill(p) \/ Commit(p) \/ Fails(p) \/ Opened(p)
    \/ AppendMessage(p) \/ Close(p) \/ Crash(p)

\* Nobody else moves, and only an upgrade or an append changes what is stored.
LEMMA Frame ==
    ASSUME TypeOK, NEW p \in Procs, Act(p)
    PROVE  /\ original' = original /\ pc \in [Procs -> Phases]
           /\ \A q \in Procs \ {p} : pc'[q] = pc[q]
           /\ backups \subseteq backups'
           /\ Commit(p) \/ AppendMessage(p) \/ db' = db
<1>1. pc \in [Procs -> Phases]
  BY DEF TypeOK
<1>2. \A q \in Procs \ {p} : pc'[q] = pc[q]
  BY PlaceType DEF Act
<1>3. /\ original' = original /\ backups \subseteq backups'
      /\ Commit(p) \/ AppendMessage(p) \/ db' = db
  BY DEF Act, Open, Lock, LockTimeout, Inspect, TooNew, Backup, Begin, Schema, Repair, Runs,
     Unique, Time, Backfill, Commit, Fails, Opened, AppendMessage, Close, Crash, GiveUp
<1> QED BY <1>1, <1>2, <1>3

\* The lock is taken when it is free and given back by its holder.
LEMMA LockedStep ==
    ASSUME TypeOK, Locked, NEW p \in Procs, Act(p)
    PROVE  Locked'
<1> USE DEF Goto, Opening, Upgrading
<1>1. pc \in [Procs -> Phases] /\ \A q \in Procs \ {p} : pc'[q] = pc[q]
  BY Frame
<1>2. NoProc \notin Procs
  BY MigrationConstants
<1>3. \/ lock' = lock
      \/ lock = NoProc /\ lock' = p
      \/ lock' = NoProc /\ (pc[p] \in Opening \/ lock = p)
  <2>1. CASE Lock(p)
    BY <2>1 DEF Lock
  <2>2. CASE TooNew(p) \/ Opened(p)
    BY <2>2 DEF TooNew, Opened
  <2>3. CASE Fails(p) \/ Crash(p)
    BY <2>3 DEF Fails, Crash, GiveUp
  <2>4. CASE ~(Lock(p) \/ TooNew(p) \/ Opened(p) \/ Fails(p) \/ Crash(p))
    BY <2>4 DEF Act, Open, LockTimeout, Inspect, Backup, Begin, Schema, Repair, Runs,
       Unique, Time, Backfill, Commit, AppendMessage, Close
  <2> QED BY <2>1, <2>2, <2>3, <2>4
<1>4. ASSUME NEW q \in Procs \ {p}, pc'[q] \in Opening
      PROVE  lock' = q
  <2>1. pc[q] \in Opening /\ lock = q
    BY <1>1, <1>4 DEF Locked
  <2>2. ~(pc[p] \in Opening) /\ lock # NoProc /\ lock # p
    BY <1>2, <2>1 DEF Locked
  <2> QED BY <1>3, <2>1, <2>2
<1>5. pc'[p] \in Opening => lock' = p
  <2>1. CASE Open(p) \/ LockTimeout(p) \/ TooNew(p) \/ Opened(p) \/ AppendMessage(p) \/ Close(p)
    BY <1>1, <2>1 DEF Open, LockTimeout, TooNew, Opened, AppendMessage, Close
  <2>2. CASE Lock(p)
    BY <2>2 DEF Lock
  <2>3. CASE Fails(p) \/ Crash(p)
    BY <1>1, <2>3 DEF Fails, Crash, GiveUp
  <2>4. CASE \/ Inspect(p) \/ Backup(p) \/ Begin(p) \/ Schema(p) \/ Repair(p) \/ Runs(p) \/ Unique(p)
             \/ Time(p) \/ Backfill(p) \/ Commit(p)
    <3>1. pc[p] \in Opening /\ lock' = lock
      BY <2>4 DEF Inspect, Backup, Begin, Schema, Repair, Runs, Unique, Time, Backfill, Commit
    <3> QED BY <3>1 DEF Locked
  <2> QED BY <2>1, <2>2, <2>3, <2>4 DEF Act
<1> QED BY <1>4, <1>5 DEF Locked

\* A database that is not as it was found is complete.
LEMMA Untouched ==
    ASSUME IInv, NEW p \in Procs, pc[p] \in {"backing", "beginning"} \cup Upgrading
    PROVE  db = original /\ ~Complete(db) /\ \A q \in Procs : pc[q] # "open"
<1>1. NeedsMigration(db) /\ db \in Database
  BY DEF IInv, Whole, Known, TypeOK
<1>2. ~Complete(db)
  BY <1>1, NotBoth
<1> QED BY <1>2 DEF IInv, Whole, Known

\* A database that needs no upgrade is complete.
LEMMA Inspected ==
    ASSUME IInv, ~NeedsMigration(db), db.version <= SchemaVersion
    PROVE  Complete(db)
<1>1. CASE db # original
  BY <1>1 DEF IInv, Whole
<1>2. CASE db = original
  <2>1. original \in Databases /\ db \in Database /\ db.version \in Nat
    BY DEF IInv, TypeOK, Database
  <2>2. /\ db.version = SchemaVersion /\ db.unique /\ db.search
        /\ db.runs = "current" /\ db.time = "column"
    BY <2>1 DEF NeedsMigration, SchemaVersion
  <2>3. ~Duplicated(db.seqs) /\ db.indexed \in {{}, Ids(db)}
    BY <1>2, <2>1, <2>2, Original
  <2>4. db.indexed = Ids(db)
    BY <2>3 DEF NeedsMigration, NeedsBackfill
  <2> QED BY <2>2, <2>3, <2>4 DEF Complete
<1> QED BY <1>1, <1>2

\* What is committed is complete.
LEMMA Committed ==
    ASSUME IInv, NEW p \in Procs, pc[p] = "committing"
    PROVE  Complete(draft)
<1>1. Drafted(p)
  BY DEF IInv, Drawn
<1> QED BY <1>1 DEF Drafted, Repaired, Renumbered, Complete

\* A message is appended after all the others, and found.
LEMMA Appended ==
    ASSUME IInv, NEW p \in Procs, AppendMessage(p)
    PROVE  LET n == Len(db.seqs) + 1 IN
           /\ n \in Nat /\ Ids(db') = Ids(db) \cup {n}
           /\ \A a \in Ids(db) : a < n /\ a \in Nat /\ db'.seqs[a] = db.seqs[a]
           /\ db'.seqs[n] \in Int /\ \A a \in Ids(db) : db.seqs[a] \in Int /\ db.seqs[a] < db'.seqs[n]
           /\ Complete(db) => Complete(db')
<1> DEFINE n == Len(db.seqs) + 1
           new == NextSeq(db.seqs)
<1>1. db \in Database /\ db.seqs \in Seq(Int)
  BY DEF IInv, TypeOK, Database
<1>2. new \in Int /\ \A a \in DOMAIN db.seqs : db.seqs[a] < new /\ db.seqs[a] \in Int
  BY <1>1, Last
<1>3. db' = [db EXCEPT !.seqs = Append(db.seqs, new),
                       !.indexed = IF db.search THEN db.indexed \cup {n} ELSE db.indexed]
  BY DEF AppendMessage
<1>4. /\ db'.seqs = Append(db.seqs, new)
      /\ db'.indexed = IF db.search THEN db.indexed \cup {n} ELSE db.indexed
      /\ db'.version = db.version /\ db'.unique = db.unique /\ db'.search = db.search
      /\ db'.runs = db.runs /\ db'.time = db.time
  BY <1>1, <1>3 DEF Database
<1> HIDE DEF new
<1>5. /\ n \in Nat /\ DOMAIN db.seqs = 1..(n - 1) /\ DOMAIN Append(db.seqs, new) = 1..n
      /\ \A a \in 1..(n - 1) : Append(db.seqs, new)[a] = db.seqs[a]
      /\ Append(db.seqs, new)[n] = new
  BY <1>1, <1>2
<1> HIDE DEF n
<1>6. Ids(db) = 1..(n - 1) /\ Ids(db') = 1..n
  BY <1>4, <1>5 DEF Ids
<1>7. /\ Ids(db') = Ids(db) \cup {n}
      /\ \A a \in Ids(db) : a < n /\ a \in Nat /\ a # n
  <2>1. ASSUME NEW k \in Nat, k # 0
        PROVE  1..k = 1..(k - 1) \cup {k}
    BY <2>1
  <2>2. n # 0
    BY <1>1 DEF n
  <2> QED BY <1>5, <1>6, <2>1, <2>2
<1>8. \A a \in Ids(db) : db'.seqs[a] = db.seqs[a] /\ db.seqs[a] < db'.seqs[n] /\ db.seqs[a] \in Int
  BY <1>2, <1>4, <1>5, <1>6
<1>9. db'.seqs[n] \in Int
  BY <1>2, <1>4, <1>5
<1>10. ASSUME Complete(db)
       PROVE  Complete(db')
  <2>1. ~Duplicated(db.seqs)
    BY <1>10 DEF Complete
  <2>2. ASSUME NEW a \in Ids(db'), NEW b \in Ids(db'), a # b
        PROVE  db'.seqs[a] # db'.seqs[b]
    <3>1. CASE a \in Ids(db) /\ b \in Ids(db)
      BY <1>8, <2>1, <2>2, <3>1 DEF Duplicated, Ids
    <3>2. CASE a \in Ids(db) /\ b = n
      BY <1>8, <1>9, <3>2
    <3>3. CASE a = n /\ b \in Ids(db)
      BY <1>8, <1>9, <3>3
    <3> QED BY <1>7, <2>2, <3>1, <3>2, <3>3
  <2>3. ~Duplicated(db'.seqs)
    BY <2>2 DEF Duplicated, Ids
  <2>4. db'.indexed = Ids(db')
    BY <1>4, <1>7, <1>10 DEF Complete
  <2> QED BY <1>4, <1>10, <2>3, <2>4 DEF Complete
<1> QED BY <1>5, <1>7, <1>8, <1>9, <1>10 DEF n

\* A new place of one process is as good as the old ones.
LEMMA WholeStep ==
    ASSUME IInv, NEW p \in Procs, Act(p)
    PROVE  Whole'
<1> USE DEF Upgrading
<1>1. TypeOK /\ Locked /\ Whole /\ pc \in [Procs -> Phases] /\ original' = original
      /\ backups \subseteq backups' /\ \A q \in Procs \ {p} : pc'[q] = pc[q]
  BY Frame DEF IInv
<1>2. CASE Commit(p)
  <2>1. pc[p] = "committing" /\ db' = draft /\ pc'[p] = "protecting"
    BY <1>1, <1>2 DEF Commit, Goto
  <2>2. Complete(db)'
    BY <2>1, Committed DEF Complete, Ids
  <2>3. ASSUME NEW q \in Procs
        PROVE  Known(q)'
    <3>1. CASE q = p
      BY <2>1, <2>2, <3>1 DEF Known
    <3>2. CASE q # p
      <4>1. pc'[q] = pc[q] /\ pc[q] \notin Opening
        BY <1>1, <2>1, <3>2, Alone DEF Opening
      <4> QED BY <2>2, <4>1 DEF Known, Opening
    <3> QED BY <3>1, <3>2
  <2> QED BY <2>2, <2>3 DEF Whole
<1>3. CASE AppendMessage(p)
  <2>1. pc[p] = "open" /\ pc' = pc
    BY <1>3 DEF AppendMessage
  <2>2. Complete(db')
    BY <1>1, <1>3, <2>1, Appended DEF Whole, Known
  <2>3. ASSUME NEW q \in Procs
        PROVE  Known(q)'
    <3>1. pc[q] \notin {"backing", "beginning"} \cup Upgrading
      BY <2>1, Untouched
    <3> QED BY <2>1, <2>2, <3>1 DEF Known, Complete, Ids
  <2> QED BY <2>2, <2>3 DEF Whole, Complete, Ids
<1>4. CASE db' = db /\ ~Commit(p) /\ ~AppendMessage(p)
  <2>1. (db # original => Complete(db))'
    BY <1>1, <1>4 DEF Whole, Complete, Ids
  <2>2. /\ Complete(db)' <=> Complete(db)
        /\ NeedsMigration(db)' <=> NeedsMigration(db)
        /\ (db = Blank \/ db \in backups) => (db = Blank \/ db \in backups)'
    BY <1>1, <1>4 DEF Complete, NeedsMigration, NeedsBackfill, Ids, Blank
  <2>3. ASSUME NEW q \in Procs \ {p}
        PROVE  Known(q)'
    <3>1. Known(q) /\ pc'[q] = pc[q]
      BY <1>1 DEF Whole
    <3> QED BY <2>2, <3>1 DEF Known
  <2>4. Known(p)'
    <3> USE DEF Goto
    <3>1. Known(p)
      BY <1>1 DEF Whole
    <3>2. CASE Open(p) \/ Lock(p) \/ LockTimeout(p) \/ TooNew(p) \/ Close(p)
      BY <1>1, <3>2 DEF Open, Lock, LockTimeout, TooNew, Close, Known
    <3>3. CASE Fails(p) \/ Crash(p)
      BY <1>1, <3>3 DEF Fails, Crash, GiveUp, Known
    <3>4. CASE Inspect(p)
      <4>1. db.version <= SchemaVersion
        BY <3>4 DEF Inspect
      <4>2. CASE ~NeedsMigration(db) /\ pc' = [pc EXCEPT ![p] = "protecting"]
        <5>1. Complete(db)
          BY <4>1, <4>2, Inspected
        <5> QED BY <1>1, <2>2, <4>2, <5>1 DEF Known
      <4>3. CASE \E existing \in Existing(db) :
                   NeedsMigration(db) /\ pc' = [pc EXCEPT ![p] = IF existing THEN "backing" ELSE "beginning"]
        <5>1. PICK existing \in Existing(db) :
                   NeedsMigration(db) /\ pc' = [pc EXCEPT ![p] = IF existing THEN "backing" ELSE "beginning"]
          BY <4>3
        <5>2. existing \/ db = Blank
          BY <5>1 DEF Existing
        <5> QED BY <1>1, <1>4, <2>2, <5>1, <5>2 DEF Known, Blank
      <4> QED BY <3>4, <4>2, <4>3 DEF Inspect
    <3>5. CASE Backup(p)
      BY <1>1, <1>4, <2>2, <3>1, <3>5 DEF Backup, Known
    <3>6. CASE Begin(p)
      BY <1>1, <2>2, <3>1, <3>6 DEF Begin, Known
    <3>7. CASE Schema(p)
      BY <1>1, <2>2, <3>1, <3>7 DEF Schema, Known
    <3>8. CASE Repair(p)
      BY <1>1, <2>2, <3>1, <3>8 DEF Repair, Known
    <3>9. CASE Runs(p) \/ Unique(p) \/ Time(p) \/ Backfill(p)
      BY <1>1, <2>2, <3>1, <3>9 DEF Runs, Unique, Time, Backfill, Known
    <3>10. CASE Opened(p)
      BY <1>1, <2>2, <3>1, <3>10 DEF Opened, Known
    <3> QED BY <1>4, <3>2, <3>3, <3>4, <3>5, <3>6, <3>7, <3>8, <3>9, <3>10 DEF Act
  <2> QED BY <2>1, <2>3, <2>4 DEF Whole
<1> QED BY <1>2, <1>3, <1>4, Frame DEF IInv

\* The transaction of another process stays as it is.
LEMMA OthersDrawn ==
    ASSUME IInv, NEW p \in Procs, Act(p), NEW q \in Procs \ {p}
    PROVE  Drafted(q)'
<1> DEFINE Busy == {"schema", "repairing"} \cup Repaired
<1> USE DEF Repaired
<1>1. /\ TypeOK /\ Locked /\ Drafted(q) /\ pc'[q] = pc[q] /\ original' = original
      /\ Commit(p) \/ AppendMessage(p) \/ db' = db
  BY Frame DEF IInv, Drawn
<1>2. CASE pc[q] \notin Busy
  BY <1>1, <1>2 DEF Drafted
<1>3. CASE pc[q] \in Busy
  <2>1. pc[q] \in Upgrading /\ writer = q
    BY <1>1, <1>3 DEF Upgrading, TypeOK
  <2>2. pc[p] \notin Opening
    BY <1>1, <2>1, Alone DEF Opening
  <2>3. writer # NoProc /\ writer # p
    BY <2>1, MigrationConstants
  <2>4. ~Commit(p) /\ ~AppendMessage(p)
    BY <2>2, <2>3 DEF Commit, AppendMessage, Opening, Upgrading
  <2>5. UNCHANGED work
    <3>1. CASE Fails(p) \/ Crash(p)
      BY <2>3, <3>1 DEF Fails, Crash, GiveUp
    <3>2. ~(Begin(p) \/ Schema(p) \/ Repair(p) \/ Runs(p) \/ Unique(p) \/ Time(p) \/ Backfill(p))
      BY <2>2 DEF Begin, Schema, Repair, Runs, Unique, Time, Backfill, Opening, Upgrading
    <3> QED BY <2>4, <3>1, <3>2 DEF Act, Open, Lock, LockTimeout, Inspect, TooNew, Backup, Opened, Close
  <2>6. UNCHANGED <<draft, rank, step, db, original>>
    BY <1>1, <2>4, <2>5 DEF work
  <2> QED BY <1>1, <2>6 DEF Drafted, Placed, Renumbered, Before, Duplicated, Ids, Ranks
<1> QED BY <1>2, <1>3

\* The first stage: the numbers are looked at.
LEMMA SchemaStep ==
    ASSUME IInv, NEW p \in Procs, Schema(p)
    PROVE  Drafted(p)'
<1> USE DEF Repaired
<1>1. /\ pc[p] = "schema" /\ pc \in [Procs -> Phases] /\ original \in Databases
      /\ original' = original /\ step' = 0
      /\ draft = db /\ draft \in Database
  BY DEF Schema, IInv, TypeOK, Drawn, Drafted
<1>2. db = original
  BY <1>1, Untouched DEF Upgrading
<1>3. /\ draft'.search = TRUE /\ draft'.seqs = original.seqs /\ draft'.indexed = original.indexed
      /\ rank' = Ranks(original.seqs)
  BY <1>1, <1>2 DEF Schema, Database
<1>4. Ids(draft)' = Ids(original)
  BY <1>3 DEF Ids
<1>5. original.seqs \in Seq(Int) /\ Len(rank') = Len(original.seqs) /\ Len(original.seqs) \in Nat
      /\ \A id \in Ids(original) : rank'[id] \in 0..(Len(rank') - 1)
  BY <1>1, <1>3, Original, Ranked DEF Ids
<1>6. CASE Duplicated(original.seqs)
  <2>1. pc'[p] = "repairing"
    BY <1>1, <1>2, <1>6 DEF Schema, Goto
  <2>2. Len(original.seqs) # 0
    BY <1>5, <1>6 DEF Duplicated
  <2>3. step' < 2 * Len(rank')
    BY <1>1, <1>5, <2>2
  <2>4. \A id \in Ids(original) : Placed(draft.seqs, step, id)'
    BY <1>1, <1>3, <1>5 DEF Placed
  <2> QED BY <1>1, <1>3, <1>4, <2>1, <2>3, <2>4 DEF Drafted, Ids, Ranks, Before
<1>7. CASE ~Duplicated(original.seqs)
  <2>1. pc'[p] = "runs"
    BY <1>1, <1>2, <1>7 DEF Schema, Goto
  <2>2. Renumbered(draft.seqs)'
    BY <1>1, <1>3, <1>7 DEF Renumbered, Duplicated, Before, Ids
  <2> QED BY <1>1, <1>3, <1>4, <2>1, <2>2 DEF Drafted, Ids
<1> QED BY <1>6, <1>7

\* The repair goes on, or is over.
LEMMA RepairStep ==
    ASSUME IInv, NEW p \in Procs, Repair(p)
    PROVE  Drafted(p)'
<1> USE DEF Repaired
<1>1. /\ TypeOK /\ original \in Databases /\ Drafted(p) /\ pc[p] = "repairing" /\ pc \in [Procs -> Phases]
      /\ original' = original /\ draft \in Database /\ rank \in Seq(Nat) /\ Len(rank) \in Nat
  BY DEF Repair, IInv, TypeOK, Drawn
<1>2. /\ rank = Ranks(original.seqs) /\ Ids(draft) = Ids(original) /\ draft.search
      /\ draft.indexed = original.indexed
  BY <1>1 DEF Drafted
<1>3. /\ rank' = rank /\ step' = step + 1 /\ step' \in Nat /\ step' <= 2 * Len(rank)
      /\ Ids(draft') = Ids(original) /\ draft'.seqs \in Seq(Int)
      /\ \A id \in Ids(original) : Placed(draft'.seqs, step', id)
      /\ draft' = [draft EXCEPT !.seqs = [draft.seqs EXCEPT ![Subject] = NewNumber(Subject)]]
  BY <1>1, Repairing
<1>4. draft'.search = draft.search /\ draft'.indexed = draft.indexed
  BY <1>1, <1>3 DEF Database
<1>5. CASE step' = 2 * Len(rank)
  <2>1. pc'[p] = "runs"
    BY <1>1, <1>5 DEF Repair, Goto
  <2>2. Renumbered(draft'.seqs)
    BY <1>1, <1>2, <1>3, <1>5, AllRepaired DEF Ids
  <2>3. Renumbered(draft.seqs)'
    BY <1>1, <2>2 DEF Renumbered, Duplicated, Before, Ids
  <2> QED BY <1>1, <1>2, <1>3, <1>4, <2>1, <2>3 DEF Drafted, Ids
<1>6. CASE step' # 2 * Len(rank)
  <2>1. pc'[p] = "repairing"
    BY <1>1, <1>6 DEF Repair, Goto
  <2>2. step' < 2 * Len(rank)
    <3>1. step' \in Nat /\ step' <= 2 * Len(rank)
      BY <1>3
    <3> QED BY <1>1, <1>6, <3>1
  <2>3. \A id \in Ids(original) : Placed(draft.seqs, step, id)'
    BY <1>1, <1>3 DEF Placed
  <2> QED BY <1>1, <1>2, <1>3, <1>4, <2>1, <2>2, <2>3 DEF Drafted, Ids, Ranks, Before
<1> QED BY <1>5, <1>6

\* The stages after it.
LEMMA RestStep ==
    ASSUME IInv, NEW p \in Procs, Runs(p) \/ Unique(p) \/ Time(p) \/ Backfill(p)
    PROVE  Drafted(p)'
<1> USE DEF Repaired
<1>1. /\ original \in Databases /\ Drafted(p) /\ pc[p] \in Repaired /\ pc \in [Procs -> Phases]
      /\ original' = original /\ draft \in Database
  BY DEF Runs, Unique, Time, Backfill, IInv, TypeOK, Drawn
<1>2. /\ Ids(draft) = Ids(original) /\ draft.search /\ Renumbered(draft.seqs)
      /\ draft.search \in BOOLEAN
  BY <1>1 DEF Drafted, Database
<1>3. draft'.seqs = draft.seqs /\ draft'.search = draft.search
  BY <1>1 DEF Runs, Unique, Time, Backfill, Database
<1>4. Ids(draft)' = Ids(original)' /\ draft'.search /\ Renumbered(draft.seqs)'
  BY <1>1, <1>2, <1>3 DEF Ids, Renumbered, Duplicated, Before
<1>5. CASE Runs(p)
  <2>1. pc[p] = "runs" /\ pc'[p] = "unique" /\ draft'.runs = "current" /\ draft'.indexed = draft.indexed
    BY <1>1, <1>5 DEF Runs, Goto, Database
  <2> QED BY <1>1, <1>4, <2>1 DEF Drafted
<1>6. CASE Unique(p)
  <2>1. /\ pc[p] = "unique" /\ pc'[p] = "time" /\ draft'.unique = TRUE
        /\ draft'.runs = draft.runs /\ draft'.indexed = draft.indexed
    BY <1>1, <1>6 DEF Unique, Goto, Database
  <2> QED BY <1>1, <1>4, <2>1 DEF Drafted
<1>7. CASE Time(p)
  <2>1. /\ pc[p] = "time" /\ pc'[p] = "backfill"
        /\ draft'.time = "column" /\ draft'.version = SchemaVersion
        /\ draft'.unique = draft.unique /\ draft'.runs = draft.runs /\ draft'.indexed = draft.indexed
    BY <1>1, <1>7 DEF Time, Goto, Database
  <2> QED BY <1>1, <1>4, <2>1 DEF Drafted, SchemaVersion
<1>8. CASE Backfill(p)
  <2>1. /\ pc[p] = "backfill" /\ pc'[p] = "committing"
        /\ draft'.time = draft.time /\ draft'.version = draft.version
        /\ draft'.unique = draft.unique /\ draft'.runs = draft.runs
        /\ draft'.indexed = IF NeedsBackfill(draft) THEN Ids(draft) ELSE draft.indexed
    BY <1>1, <1>8 DEF Backfill, Goto, Database
  <2>2. draft.indexed \in {{}, Ids(draft)}
    BY <1>1, <1>2, <2>1, Original DEF Drafted
  <2>3. draft'.indexed = Ids(draft)
    BY <2>1, <2>2 DEF NeedsBackfill
  <2>4. (draft.indexed = Ids(draft))'
    BY <1>3, <2>3 DEF Ids
  <2> QED BY <1>1, <1>4, <2>1, <2>4 DEF Drafted, SchemaVersion
<1> QED BY <1>5, <1>6, <1>7, <1>8

\* Every transaction is drawn as its stage says.
LEMMA DrawnStep ==
    ASSUME IInv, NEW p \in Procs, Act(p)
    PROVE  Drawn'
<1> USE DEF Goto, Repaired
<1>1. pc \in [Procs -> Phases]
  BY Frame DEF IInv
<1>2. Drafted(p)'
  <2>1. CASE Begin(p)
    BY <1>1, <2>1 DEF Begin, Drafted
  <2>2. CASE \/ Open(p) \/ Lock(p) \/ LockTimeout(p) \/ TooNew(p) \/ Backup(p) \/ Commit(p)
             \/ Opened(p) \/ Close(p)
    BY <1>1, <2>2 DEF Open, Lock, LockTimeout, TooNew, Backup, Commit, Opened, Close, Drafted
  <2>3. CASE Fails(p) \/ Crash(p)
    BY <1>1, <2>3 DEF Fails, Crash, GiveUp, Drafted
  <2>4. CASE Inspect(p)
    <3>1. pc'[p] \in {"protecting", "backing", "beginning"}
      BY <1>1, <2>4 DEF Inspect
    <3> QED BY <3>1 DEF Drafted
  <2>5. CASE AppendMessage(p)
    BY <2>5 DEF AppendMessage, Drafted
  <2> QED BY <2>1, <2>2, <2>3, <2>4, <2>5, SchemaStep, RepairStep, RestStep DEF Act
<1>3. \A q \in Procs \ {p} : Drafted(q)'
  BY OthersDrawn
<1> QED BY <1>2, <1>3 DEF Drawn

\* The order of the messages is kept by the commit and by an append.
LEMMA OrderStep ==
    ASSUME IInv, NEW p \in Procs, Act(p)
    PROVE  OrderKept'
<1>1. /\ OrderKept /\ original \in Databases /\ original' = original
      /\ Commit(p) \/ AppendMessage(p) \/ db' = db
  BY Frame DEF IInv
<1>2. CASE Commit(p)
  <2>1. Ids(draft) = Ids(original) /\ Renumbered(draft.seqs)
    BY <1>2 DEF Commit, IInv, Drawn, Drafted, Repaired
  <2>2. db' = draft
    BY <1>2 DEF Commit
  <2>3. Ids(db)' = Ids(original) /\ Ids(original)' = Ids(original)
    BY <1>1, <2>1, <2>2 DEF Ids
  <2>4. \A a, b \in Ids(original) : Before(db'.seqs, a, b) <=> Before(original.seqs, a, b)
    BY <2>1, <2>2 DEF Renumbered
  <2>5. \A a, b \in Ids(original) : Before(db.seqs, a, b)' <=> Before(original.seqs, a, b)'
    BY <1>1, <2>4 DEF Before
  <2> QED BY <2>3, <2>5 DEF OrderKept, Before
<1>3. CASE AppendMessage(p)
  <2> DEFINE n == Len(db.seqs) + 1
             old == Ids(original)
  <2>1. /\ n \in Nat /\ Ids(db') = Ids(db) \cup {n}
        /\ \A a \in Ids(db) : a < n /\ a \in Nat /\ db'.seqs[a] = db.seqs[a]
        /\ db'.seqs[n] \in Int /\ \A a \in Ids(db) : db.seqs[a] \in Int /\ db.seqs[a] < db'.seqs[n]
    BY <1>3, Appended
  <2> HIDE DEF n
  <2>2. old \subseteq Ids(db)
    BY <1>1 DEF OrderKept
  <2>3. ASSUME NEW a \in Ids(db) \cup {n}, NEW b \in Ids(db) \cup {n}
        PROVE  Before(db'.seqs, a, b) <=> IF a \in old /\ b \in old THEN Before(original.seqs, a, b) ELSE a < b
    <3>1. CASE a \in Ids(db) /\ b \in Ids(db)
      BY <1>1, <2>1, <3>1 DEF OrderKept, Before
    <3>2. n \notin Ids(db) /\ n \notin old
      BY <2>1, <2>2
    <3>3. CASE a \in Ids(db) /\ b = n
      BY <2>1, <3>2, <3>3 DEF Before
    <3>4. CASE a = n /\ b \in Ids(db)
      BY <2>1, <3>2, <3>4 DEF Before
    <3>5. CASE a = n /\ b = n
      <4>1. ~(n < n) /\ ~(db'.seqs[n] < db'.seqs[n])
        BY <2>1
      <4> QED BY <3>2, <3>5, <4>1 DEF Before
    <3> QED BY <2>3, <3>1, <3>3, <3>4, <3>5
  <2>4. OrderKept' <=> /\ old \subseteq Ids(db')
                       /\ \A a \in Ids(db'), b \in Ids(db') :
                            Before(db'.seqs, a, b) <=> IF a \in old /\ b \in old
                                                       THEN Before(original.seqs, a, b) ELSE a < b
    BY <1>1 DEF OrderKept, Ids, Before
  <2> QED BY <2>1, <2>2, <2>3, <2>4
<1>4. CASE db' = db
  BY <1>1, <1>4 DEF OrderKept, Ids, Before
<1> QED BY <1>1, <1>2, <1>3, <1>4

-----------------------------------------------------------------------------
(* The theorems.                                                           *)

\* Nothing is upgraded or known at first.
LEMMA InvInit ==
    ASSUME Init
    PROVE  IInv
<1>1. /\ original \in Databases /\ original \in Database /\ db = original
      /\ pc = [p \in Procs |-> "idle"] /\ writer = NoProc
  BY MigrationConstants DEF Init
<1>2. \A p \in Procs : pc[p] = "idle" /\ pc[p] \notin Opening /\ p # NoProc
  BY <1>1, MigrationConstants DEF Opening, Upgrading
<1>3. TypeOK
  BY <1>1, <1>2, NoDraft DEF Init, TypeOK, Phases, Opening
<1>4. Locked /\ Whole /\ Drawn
  BY <1>1, <1>2 DEF Locked, Whole, Known, Drawn, Drafted, Repaired, Opening, Upgrading
<1>5. OrderKept
  BY <1>1 DEF OrderKept
<1> QED BY <1>1, <1>3, <1>4, <1>5 DEF IInv

\* Every step keeps the invariant.
LEMMA InvNext ==
    ASSUME IInv, [Next]_vars
    PROVE  IInv'
<1>1. TypeOK'
  BY TypeStep
<1>2. CASE UNCHANGED vars
  BY <1>1, <1>2 DEF IInv, vars, work, Locked, Whole, Known, Complete, NeedsMigration, NeedsBackfill,
     Drawn, Drafted, Placed, Renumbered, Duplicated, Ranks, OrderKept, Before, Ids
<1>3. ASSUME NEW p \in Procs, Act(p)
      PROVE  IInv'
  <2>1. (original \in Databases)'
    BY <1>3, Frame DEF IInv
  <2>2. Locked' /\ Whole' /\ Drawn' /\ OrderKept'
    BY <1>3, LockedStep, WholeStep, DrawnStep, OrderStep DEF IInv
  <2> QED BY <1>1, <2>1, <2>2 DEF IInv
<1> QED BY <1>2, <1>3 DEF Next, Act

\* Openings and upgrades keep the invariant, whichever database is found.
THEOREM Invariance == Spec => []IInv
<1> QED BY InvInit, InvNext, PTL DEF Spec

\* Every variable has its type, and a transaction belongs to one who upgrades.
THEOREM TypeCorrect == Spec => []TypeOK
<1>1. IInv => TypeOK
  BY DEF IInv
<1> QED BY <1>1, Invariance, PTL

\* Open returns a store only over a database that has everything, and leaves
\* either that or what it found.
THEOREM UpgradesAreWhole == Spec => []UpgradeIsWhole
<1>1. IInv => UpgradeIsWhole
  BY DEF IInv, Whole, Known, UpgradeIsWhole
<1> QED BY <1>1, Invariance, PTL

\* No message is lost by the repair of the numbers or moved before another.
THEOREM OrderIsKept == Spec => []OrderKept
<1>1. IInv => OrderKept
  BY DEF IInv
<1> QED BY <1>1, Invariance, PTL

\* migrate commits nothing over a database that was not backed up.
THEOREM BackupsComeFirst == Spec => BackedUpFirst
<1>1. IInv /\ [Next]_vars => [writer # NoProc /\ db' # db => db = Blank \/ db \in backups]_vars
  <2> SUFFICES ASSUME IInv, NEW p \in Procs, Act(p), writer # NoProc, db' # db
               PROVE  db = Blank \/ db \in backups
    BY DEF Next, Act, vars
  <2>1. Commit(p)
    BY Frame DEF AppendMessage, IInv
  <2>2. pc[p] \in Upgrading /\ Known(p)
    BY <2>1 DEF Commit, Upgrading, IInv, Whole
  <2> QED BY <2>2 DEF Known
<1> QED BY <1>1, Invariance, PTL DEF Spec, BackedUpFirst

\* No UPDATE of the repair meets the number of another row.
THEOREM NumbersNeverCollide == Spec => NoTransientCollision
<1> DEFINE A == writer # NoProc /\ writer' = writer /\ Len(draft'.seqs) = Len(draft.seqs) =>
                  \A a \in Ids(draft) :
                     draft'.seqs[a] # draft.seqs[a] =>
                        \A b \in Ids(draft) \ {a} : draft'.seqs[b] # draft'.seqs[a]
<1>1. IInv /\ [Next]_vars => [A]_vars
  <2> SUFFICES ASSUME IInv, NEW p \in Procs, Act(p), writer # NoProc, writer' = writer,
                      NEW a \in Ids(draft), draft'.seqs[a] # draft.seqs[a],
                      NEW b \in Ids(draft) \ {a}
               PROVE  draft'.seqs[b] # draft'.seqs[a]
    BY DEF Next, Act, vars
  <2>1. TypeOK /\ original \in Databases /\ Drafted(p) /\ draft \in Database /\ p # NoProc
    BY MigrationConstants DEF IInv, Drawn, TypeOK
  <2>2. draft'.seqs # draft.seqs
    OBVIOUS
  <2>3. Repair(p)
    <3>1. ~(Runs(p) \/ Unique(p) \/ Time(p) \/ Backfill(p) \/ Schema(p))
      BY <2>1, <2>2 DEF Runs, Unique, Time, Backfill, Schema, Database
    <3>2. ~(Begin(p) \/ Commit(p))
      BY <2>1 DEF Begin, Commit, Forget
    <3>3. ~(Fails(p) \/ Crash(p))
      BY <2>1, <2>2 DEF Fails, Crash, GiveUp, Forget, work
    <3>4. ~(\/ Open(p) \/ Lock(p) \/ LockTimeout(p) \/ Inspect(p) \/ TooNew(p) \/ Backup(p)
            \/ Opened(p) \/ AppendMessage(p) \/ Close(p))
      BY <2>2 DEF Open, Lock, LockTimeout, Inspect, TooNew, Backup, Opened, AppendMessage, Close, work
    <3> QED BY <3>1, <3>2, <3>3, <3>4 DEF Act
  <2>4. rank = Ranks(original.seqs) /\ Ids(draft) = Ids(original) /\ step < 2 * Len(rank) /\ step \in Nat
    BY <2>1, <2>3 DEF Repair, Drafted, TypeOK
  <2>5. /\ step' = step + 1
        /\ \A id \in Ids(original) : id # Subject => draft'.seqs[id] = draft.seqs[id]
        /\ \A id \in Ids(original) : Placed(draft'.seqs, step', id)
    BY <2>1, <2>3, Repairing
  <2>6. a = Subject /\ rank[a] = Turn /\ rank[a] \in Nat /\ Len(rank) \in Nat
    BY <2>1, <2>4, <2>5, TheSubject, Ranking
  <2>7. step' \in Nat /\ rank[a] < step'
    BY <2>4, <2>5, <2>6 DEF Turn
  <2> QED BY <2>1, <2>4, <2>5, <2>7, Distinct
<1> QED BY <1>1, Invariance, PTL DEF Spec, NoTransientCollision
=============================================================================
