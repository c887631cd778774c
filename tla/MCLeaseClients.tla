--------------------------- MODULE MCLeaseClients ---------------------------
(* Two workers and two tasks; the clock takes four readings in any order.  *)
EXTENDS LeaseClients

CONSTANTS w1, w2, t1, t2

MCWorkers == {w1, w2}
MCTasks == {t1, t2}
MCTimes == 0..3
MCTtls == {1, 2}
=============================================================================
