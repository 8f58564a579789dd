--------------------------------- MODULE Data ---------------------------------
(***************************************************************************)
(* What the modules that decide share about functions and sequences.  The  *)
(* standard operators for the same (SelectSeq and the @@ of TLC) have no   *)
(* definition a proof could expand.                                        *)
(***************************************************************************)
EXTENDS Integers, SequencesExt

\* The first function laid over the second.
Over(f, g) == [x \in DOMAIN f \cup DOMAIN g |-> IF x \in DOMAIN f THEN f[x] ELSE g[x]]

\* The members of a sequence that are in S, in their order.
Among(seq, S) ==
  LET kept[i \in 0..Len(seq)] ==
        IF i = 0 THEN <<>> ELSE IF seq[i] \in S THEN Append(kept[i - 1], seq[i]) ELSE kept[i - 1] IN
  kept[Len(seq)]

Earlier(key, j, k) == key[j] < key[k] \/ (key[j] = key[k] /\ j < k)

\* The members of a sequence by the keys of their places, and those of equal keys in
\* their order.
SortedBy(seq, key) ==
  [i \in DOMAIN seq |->
     seq[CHOOSE k \in DOMAIN seq : Cardinality({j \in DOMAIN seq : Earlier(key, j, k)}) = i - 1]]

\* The sum of what a function gives.
Total(f) == FoldFunction(+, 0, f)
=============================================================================
