---------------------------- MODULE MCWriteQueue ----------------------------
(* Instances of WriteQueue for TLC: which threads there are, and how small *)
(* the queue is, is the business of the configurations.                    *)
EXTENDS WriteQueue
=============================================================================
