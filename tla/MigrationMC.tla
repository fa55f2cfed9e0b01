---------------------------- MODULE MigrationMC ----------------------------
(* Instances of Migration for TLC. *)
EXTENDS Migration, TLC

Legacy(seqs) ==
    [Blank EXCEPT !.version = 1, !.seqs = seqs, !.runs = "legacy"]

Second(seqs) ==
    [version |-> 2, seqs |-> seqs, unique |-> TRUE, runs |-> "current", time |-> "text",
     search |-> TRUE, indexed |-> DOMAIN seqs]

Third(seqs) == [Second(seqs) EXCEPT !.version = 3, !.time = "column"]

\* New, of every version, with duplicate numbers in and out of order, with
\* what an upgrade refuses, and current ones that lost a part.
Found ==
    { Blank, Legacy(<<0, 0, 1>>), Legacy(<<1, 0, 1>>), Legacy(<<0, 1>>), Legacy(<<2, 2, 0>>),
      [Legacy(<<0>>) EXCEPT !.runs = "partial"], [Legacy(<<0, 0>>) EXCEPT !.time = "badtext"],
      Second(<<0, 1>>), Third(<<0, 1>>), [Third(<<0, 1>>) EXCEPT !.indexed = {}],
      [Third(<<0, 0>>) EXCEPT !.unique = FALSE], [Third(<<0>>) EXCEPT !.version = 4] }

Symmetry == Permutations(Procs)
=============================================================================
