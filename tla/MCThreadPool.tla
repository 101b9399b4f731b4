---------------------------- MODULE MCThreadPool ----------------------------
(* More jobs than workers, and more sleepers than one notify_one wakes. *)
EXTENDS ThreadPool

CONSTANTS w1, w2, w3, j1, j2, j3, j4

MCWorker == {w1, w2, w3}
MCJob == {j1, j2, j3, j4}
=============================================================================
