----------------------------- MODULE MCWorkerPool -----------------------------
(* Instances of WorkerPool: four submissions for two permits, so that a permit *)
(* can be free while a woken waiter and a late arrival are both in the queue.  *)
EXTENDS WorkerPool

CONSTANTS t1, t2, t3, t4
MCReq == {t1, t2, t3, t4}
MCDetached == {t1, t2}
===============================================================================
