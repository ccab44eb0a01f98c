----------------------------- MODULE LocalSearch -----------------------------
(***************************************************************************)
(* What of the content held matches a prefix: the scan that widens from    *)
(* the prefix subdirectory a search falls in until it has what the answer  *)
(* can name, and how many an answer names. Hashes and prefixes are         *)
(* sequences of digits. Content is its hash; ties between hashes that      *)
(* match as well break on the hash, as on the identifier in the code.      *)
(***************************************************************************)
EXTENDS Integers, FiniteSets, SequencesExt

CONSTANTS
    DigitBits,          (* the bits of a digit (BITS_PER_HEX_DIGIT, 4) *)
    PrefixLength,       (* the digits that name a subdirectory (storage.hash_prefix_length) *)
    MinBits,            (* the fewest bits a match shares (storage.search_min_bits) *)
    MostNamed           (* how many identifiers an answer has room for *)

ASSUME LocalSearchAssumption ==
    /\ DigitBits \in Nat \ {0}
    /\ PrefixLength \in Nat \ {0}
    /\ MinBits \in Nat
    /\ MostNamed \in Nat \ {0}

Digits == 0..2^DigitBits - 1
Least(x, y) == IF x < y THEN x ELSE y

-----------------------------------------------------------------------------
(* Ranking. *)

(* How many leading bits two digits share, and two strings of them.        *)
SharedBits(x, y) ==
    CHOOSE bits \in 0..DigitBits :
        /\ x \div 2^(DigitBits - bits) = y \div 2^(DigitBits - bits)
        /\ bits = DigitBits
              \/ x \div 2^(DigitBits - bits - 1) # y \div 2^(DigitBits - bits - 1)

MatchingBits(left, right) ==
    LET common == Least(Len(left), Len(right))
        differing == {i \in 1..common : left[i] # right[i]}
        first == CHOOSE i \in differing : \A j \in differing : i <= j
    IN  IF differing = {} THEN common * DigitBits
        ELSE (first - 1) * DigitBits + SharedBits(left[first], right[first])

(* The order of identifiers: that of their digits. *)
Before(left, right) ==
    \E i \in 1..Least(Len(left), Len(right)) :
        /\ \A j \in 1..i - 1 : left[j] = right[j]
        /\ left[i] < right[i]

Nearest(prefix, candidates) ==
    SetToSortSeq(candidates,
        LAMBDA x, y : \/ MatchingBits(prefix, x) > MatchingBits(prefix, y)
                      \/ MatchingBits(prefix, x) = MatchingBits(prefix, y) /\ Before(x, y))

-----------------------------------------------------------------------------
(* An answer. *)

(* How many of n results an answer names, of those whose sizes as they are *)
(* and compressed are given for each number named: all, if they fit as     *)
(* they are; or else the blocks that fit compressed, and as much as does   *)
(* of the next, found by halving.                                          *)
FitIn(n, plain, compressed, limit, block) ==
    LET Through(blocks) == Least(blocks * block, n)
        blocks == CHOOSE b \in 0..n :
                     /\ Through(b) = n \/ compressed[Through(b + 1)] >= limit
                     /\ \A c \in 1..b : Through(c - 1) < n /\ compressed[Through(c)] < limit
        named == Through(blocks)
        Fits(more) == compressed[named + more] < limit
        halving[fitting \in 0..block, overflowing \in 0..block] ==
            LET middle == (fitting + overflowing) \div 2
            IN  IF overflowing - fitting <= 1 THEN fitting
                ELSE IF Fits(middle) THEN halving[middle, overflowing]
                ELSE halving[fitting, middle]
    IN  IF plain[n] < limit THEN n
        ELSE named + halving[0, Least(block, n - named)]

Answer(results) == SubSeq(results, 1, Least(MostNamed, Len(results)))

-----------------------------------------------------------------------------
(* A search. *)

LeastBits(prefix) == Least(MinBits, Len(prefix) * DigitBits)
Matching(prefix, results) ==
    SelectSeq(results, LAMBDA hash : MatchingBits(prefix, hash) >= LeastBits(prefix))
BestMatches(prefix, candidates) == Answer(Matching(prefix, Nearest(prefix, candidates)))

Longest(prefix) == Least(Len(prefix), PrefixLength)

(* The candidates of each scan: those under the prefix shortened a digit   *)
(* at a time, and then those whose first digit shares one bit fewer with   *)
(* its first at a time.                                                    *)
Scan(prefix, held, turn) ==
    IF turn <= Longest(prefix)
    THEN {hash \in held : IsPrefix(SubSeq(prefix, 1, Longest(prefix) - turn + 1), hash)}
    ELSE {hash \in held : SharedBits(hash[1], prefix[1]) >= DigitBits - (turn - Longest(prefix))}
Turns(prefix) ==
    Longest(prefix) + IF LeastBits(prefix) < DigitBits THEN DigitBits - LeastBits(prefix) ELSE 0

Suffices(prefix, held, turn) ==
    LET candidates == Scan(prefix, held, turn)
    IN  \/ Len(BestMatches(prefix, candidates)) < Cardinality(candidates)
        \/ (Longest(prefix) - turn + 1) * DigitBits <= LeastBits(prefix) /\ turn <= Longest(prefix)
        \/ turn = Turns(prefix)

SearchHeld(prefix, held) ==
    LET last == CHOOSE turn \in 1..Turns(prefix) :
                   /\ Suffices(prefix, held, turn)
                   /\ \A earlier \in 1..turn - 1 : ~Suffices(prefix, held, earlier)
    IN  BestMatches(prefix, Scan(prefix, held, last))
=============================================================================
