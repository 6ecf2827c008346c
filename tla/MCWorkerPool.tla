--------------------------- MODULE MCWorkerPool ---------------------------
(* Instances of WorkerPool for TLC: four jobs that end in four ways.       *)
EXTENDS WorkerPool, TLC

CONSTANTS j1, j2, j3, j4

MCCompile ==
  [j \in Jobs |-> CASE j = j1 -> "interpreted" [] j = j3 -> "broken" [] OTHER -> "good"]

MCTests ==
  [j \in Jobs |-> CASE j = j1 -> <<"pass">>
                    [] j = j2 -> <<"pass", "wrong">>
                    [] j = j3 -> <<"pass">>
                    [] OTHER  -> <<"crash">>]
=============================================================================
