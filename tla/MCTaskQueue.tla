---------------------------- MODULE MCTaskQueue ----------------------------
(* Instances of TaskQueue for TLC. *)
EXTENDS TaskQueue, TLC

CONSTANTS s1, s2, s3, w1, w2

TwoSubmissions == {s1, s2}
ThreeSubmissions == {s1, s2, s3}
TwoWorkers == {w1, w2}

NoFaults == {}
AllFaults == FaultKinds

\* Submissions and workers are interchangeable in every safety property.
Symmetry == Permutations(Submissions) \union Permutations(Workers)
=============================================================================
