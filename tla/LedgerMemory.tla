----------------------------- MODULE LedgerMemory -----------------------------
(***************************************************************************)
(* Ledger with a memory of its own: whether an allocation has ever failed  *)
(* between file and chain.  Some things hold only until then.              *)
(***************************************************************************)
EXTENDS Ledger

VARIABLE starved  \* history: an allocation has failed once a block was on disk

history == <<vars, starved>>

HistoryInit == Init /\ starved = FALSE

HistoryNext == Next /\ starved' = (starved \/ OutOfMemory)

SafeHistory == HistoryInit /\ [][HistoryNext]_history

HistorySpec == SafeHistory /\ Fairness

-----------------------------------------------------------------------------
(* Properties *)

\* While writes fail, lines tear and processes die and come up again: GET /verify finds
\* nothing wrong with a ledger nobody altered, and a block's index is its position,
\* which is what GET /blocks slices by, as long as no allocation has failed.
SoundUnlessStarved == ~starved => ChainSound

\* Until then, too, the live feed is a window of the chain that grows at its end: no
\* block is announced before GET /blocks has it, out of order, twice or not at all.
FeedFollowsUnlessStarved == ~starved => FeedFollowsChain
===============================================================================
