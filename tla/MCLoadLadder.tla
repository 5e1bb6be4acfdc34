---------------------------- MODULE MCLoadLadder ----------------------------
(* TLC instance of LoadLadder: two ladders, one with two plans.  The results lie on
   both sides of each limit of the Jenkinsfile (20 samples, 1 %, 1000 ms). *)
EXTENDS LoadLadder

TwoLadders == <<2, 1>>
Results == {[n |-> 0, slow |-> 0, failed |-> 0], [n |-> 19, slow |-> 0, failed |-> 0],
            [n |-> 20, slow |-> 1, failed |-> 0], [n |-> 20, slow |-> 2, failed |-> 0],
            [n |-> 21, slow |-> 1, failed |-> 0], [n |-> 21, slow |-> 2, failed |-> 0],
            [n |-> 100, slow |-> 0, failed |-> 1], [n |-> 101, slow |-> 0, failed |-> 1],
            [n |-> 40, slow |-> 2, failed |-> 0], [n |-> 41, slow |-> 3, failed |-> 0]}
Low == [cpu |-> 94, threads |-> 1999]
AtLimit == [cpu |-> 95, threads |-> 1999]
ResourceRows == {Low, AtLimit}
TheMetrics == {"cpu", "threads"}
Limits == [cpu |-> 95, threads |-> 2000]
=============================================================================
