---------------------------- MODULE MCSimilarity ----------------------------
(* Similarity of texts of two tokens, which are, for -f, an opener and its *)
(* closer.  One pair of hashes confuses some runs for good, with the other *)
(* pair the second sweep tells apart what the first one linked.            *)
EXTENDS Similarity

CONSTANTS a, b

ByFirst == [r \in Run |-> IF r[1] = a THEN 0 ELSE 1]
BySecond == [r \in Run |-> IF r[2] = a THEN 0 ELSE 1]
OnlySecond == {<<[r \in Run |-> 0], ByFirst>>}
Mixed == OnlySecond \cup {<<ByFirst, BySecond>>}

Percents == {{"e", "s", "p"}}
AllOptions == Percents \cup {{}, {"s"}, {"S"}, {"e", "f"}}

NoTokens == <<>>
Parens == <<b>>
Closing == <<a>>

\* sim.sh asks for more than 50: a percentage is never more than was found,
\* and less by no more than its fraction, or by one where the fraction is zero
\* and the float fell short of it (29 of 100 tokens are 28 %).
ASSUME PercentTruncated ==
  \A size0 \in 1 .. 127 : \A size \in 1 .. size0 - 1 :
    LET p == Percent([fname0 |-> 0, fname1 |-> 1, size |-> size, size0 |-> size0])
    IN p * size0 <= 100 * size /\ (p + 1) * size0 >= 100 * size
=============================================================================
