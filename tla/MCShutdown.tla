----------------------------- MODULE MCShutdown -----------------------------
(* Shutdown has no constants: one process, two signals.                    *)
EXTENDS Shutdown
=============================================================================
