---------------------------- MODULE MCThreadPool ----------------------------
(* Values for the constants of ThreadPool, and the pool's symmetry.        *)
EXTENDS ThreadPoolProps
CONSTANTS w1, w2, w3, r1, r2, j1, j2, j3, j4
=============================================================================
