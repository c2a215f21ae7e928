----------------------------- MODULE BlockRange -----------------------------
(***************************************************************************)
(* GET /blocks?from&to of storage-core (install_blocks in src/server.cpp): *)
(* which blocks of the chain a request gets, for every pair of parameters  *)
(* and every length of the chain.  The copy is taken under the shared lock *)
(* and so is a function of the chain of one moment.                        *)
(***************************************************************************)
EXTENDS Integers, Sequences

CONSTANT MaxIndex  \* the largest std::uint64_t

ASSUME BlockRangeAssumption == MaxIndex \in Nat

(***************************************************************************)
(* A query parameter as the server finds it: not there, digits only, or    *)
(* anything else, the empty text, a sign and "12abc" included.             *)
(***************************************************************************)
Absent == [kind |-> "absent"]
Malformed == [kind |-> "malformed"]
Digits(n) == [kind |-> "digits", value |-> n]

Parameter == {Absent, Malformed} \cup {Digits(n) : n \in Nat}

\* parse_index: refused with a 400, or the index it stands for.
Parses(p) == p.kind = "absent" \/ (p.kind = "digits" /\ p.value <= MaxIndex)

parse_index(p, fallback) == IF p.kind = "absent" THEN fallback ELSE p.value

\* The end is clamped to the chain's, a beginning past the end is not.
Slice(chain, from, to_requested) ==
    LET last == Len(chain) - 1
        to   == IF to_requested < last THEN to_requested ELSE last
    IN  IF from > to
        THEN [status |-> 400]
        ELSE [status |-> 200, blocks |-> SubSeq(chain, from + 1, to + 1),
              chain_length |-> Len(chain)]

GetBlocks(chain, from, to) ==
    IF Parses(from) /\ Parses(to)
    THEN Slice(chain, parse_index(from, 0), parse_index(to, MaxIndex))
    ELSE [status |-> 400]
=============================================================================
