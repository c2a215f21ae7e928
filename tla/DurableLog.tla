----------------------------- MODULE DurableLog -----------------------------
(***************************************************************************)
(* What storage-core promises a client of POST /events, with no process,   *)
(* queue or file in sight.  There is a log, which only grows; a request    *)
(* enters it at most once, and only while its client is still waiting for  *)
(* the answer; the client is told "created" only when its request is in    *)
(* the log.  Any other answer, and no answer, leave it open whether it is. *)
(*                                                                         *)
(* There is no action for a crash or a restart: to a client they are       *)
(* nothing but answers that never arrive.  Ledger.tla implements this.     *)
(***************************************************************************)
EXTENDS Naturals, Sequences

CONSTANTS Requests, GenesisEntry

VARIABLES
    log,      \* the entries of the log, oldest first
    outcome   \* outcome[r]: "new", "pending", "created" or "unknown"

logvars == <<log, outcome>>

InLog(r) == \E i \in DOMAIN log : log[i] = r

LogInit ==
    /\ log = <<>>
    /\ outcome = [r \in Requests |-> "new"]

\* The log starts with a genesis entry of its own, once.
Seed ==
    /\ log = <<>>
    /\ log' = <<GenesisEntry>>
    /\ UNCHANGED outcome

Submit(r) ==
    /\ outcome[r] = "new"
    /\ outcome' = [outcome EXCEPT ![r] = "pending"]
    /\ UNCHANGED log

Commit(r) ==
    /\ outcome[r] = "pending"
    /\ ~InLog(r)
    /\ log # <<>>
    /\ log' = Append(log, r)
    /\ UNCHANGED outcome

Acknowledge(r) ==
    /\ outcome[r] = "pending"
    /\ InLog(r)
    /\ outcome' = [outcome EXCEPT ![r] = "created"]
    /\ UNCHANGED log

\* Some clients, or all of them at once, learn nothing or are told of a failure.
GiveUp(R) ==
    /\ \A r \in R : outcome[r] \in {"new", "pending"}
    /\ outcome' = [r \in Requests |-> IF r \in R THEN "unknown" ELSE outcome[r]]
    /\ UNCHANGED log

LogNext ==
    \/ Seed
    \/ \E r \in Requests : Submit(r) \/ Commit(r) \/ Acknowledge(r)
    \/ \E R \in SUBSET Requests : GiveUp(R)

\* A client that waits does not wait for ever.
Answering == \A r \in Requests : (outcome[r] = "pending") ~> (outcome[r] # "pending")

SafeSpec == LogInit /\ [][LogNext]_logvars

Spec == SafeSpec /\ Answering
=============================================================================
