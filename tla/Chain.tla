-------------------------------- MODULE Chain --------------------------------
(***************************************************************************)
(* The hash-chained block list of storage-core: include/block.hpp and      *)
(* src/chain.cpp.  A pure module, used by Ledger (which builds chains) and *)
(* Audit (which looks at altered ones).                                    *)
(*                                                                         *)
(* A digest is modelled by the tuple of what goes into it.  Two digests    *)
(* are then equal exactly when their inputs are, which is what SHA-256 is  *)
(* taken to provide.  A chain is a TLA+ sequence, so the block at C++      *)
(* position i is chain[i + 1].                                             *)
(***************************************************************************)
EXTENDS Integers, Sequences

\* compute_hash: over the index, timestamp, event and previous hash.
compute_hash(index, timestamp, event, prev_hash) ==
    <<index, timestamp, event, prev_hash>>

\* 64 zero digits, the previous hash of a genesis block: no digest equals it.
ZeroHash == <<>>

make_block(index, timestamp, event, prev_hash) ==
    [index     |-> index,
     timestamp |-> timestamp,
     event     |-> event,
     prev_hash |-> prev_hash,
     hash      |-> compute_hash(index, timestamp, event, prev_hash)]

GenesisEvent == "GENESIS"

genesis(timestamp) == make_block(0, timestamp, GenesisEvent, ZeroHash)

latest(chain) == chain[Len(chain)]

push_persisted(chain, block) == Append(chain, block)

-----------------------------------------------------------------------------
(* verify_chain *)

ExpectedPrev(blocks, i) == IF i = 1 THEN ZeroHash ELSE blocks[i - 1].hash

Recomputed(b) == compute_hash(b.index, b.timestamp, b.event, b.prev_hash)

Invalid(blocks, i) ==
    \/ blocks[i].prev_hash # ExpectedPrev(blocks, i)
    \/ blocks[i].hash # Recomputed(blocks[i])

ChainValid(blocks) == \A i \in DOMAIN blocks : ~Invalid(blocks, i)

\* No block: first_invalid_index has no value (null in the response body).
NoIndex == -1

\* The loop stops at the first block it finds invalid, which it has counted.
verify_chain(blocks) ==
    LET firstInvalid == CHOOSE i \in DOMAIN blocks :
                           /\ Invalid(blocks, i)
                           /\ \A j \in 1..(i - 1) : ~Invalid(blocks, j)
    IN  [valid               |-> ChainValid(blocks),
         chain_length        |-> Len(blocks),
         checked_blocks      |-> IF ChainValid(blocks) THEN Len(blocks) ELSE firstInvalid,
         first_invalid_index |-> IF ChainValid(blocks) THEN NoIndex ELSE firstInvalid - 1]
=============================================================================
