---------------------------- MODULE MCWorkerPool ----------------------------
(* The model values of the small instance are in MCWorkerPool.cfg: more jobs *)
(* than two workers and a queue of one can take.                             *)
EXTENDS WorkerPool
=============================================================================
