--------------------------- MODULE ComparisonProofs ---------------------------
(***************************************************************************)
(* Proofs about Comparison as Similarity runs it, for any texts, language, *)
(* options, run size and hash functions: the two sweeps of hash.c compute  *)
(* what the comment at its top says (RefsExact); the runs that are entered *)
(* are real, the longest there are, balanced under -f, and none is missed. *)
(***************************************************************************)
EXTENDS Similarity, SequenceTheorems, FiniteSetTheorems, WellFoundedInduction,
        NaturalsInduction, TLAPS

-----------------------------------------------------------------------------
(* Numbers.                                                                *)

\* Numbers have a smallest one.
LEMMA SmallestIn ==
  ASSUME NEW T, T \subseteq Nat, T # {}
  PROVE  \E x \in T : \A y \in T : x <= y
  <1>1. IsWellFoundedOn(OpToRel(<, Nat), Nat)
    BY NatLessThanWellFounded
  <1>2. \E x \in T : \A y \in T : ~ (<<y, x>> \in OpToRel(<, Nat))
    BY <1>1, WFMin
  <1>3. PICK x \in T : \A y \in T : ~ (<<y, x>> \in OpToRel(<, Nat))
    BY <1>2
  <1>4. \A y \in T : ~ (y < x)
    <2> SUFFICES ASSUME NEW y \in T, y < x PROVE FALSE
      OBVIOUS
    <2>1. <<y, x>> \in OpToRel(<, Nat)
      BY DEF OpToRel
    <2> QED
      BY <2>1, <1>3
  <1> QED
    BY <1>4

\* Numbers up to a bound have a largest one.
LEMMA LargestUpTo ==
  ASSUME NEW T, NEW top \in Nat, T \subseteq 0 .. top, T # {}
  PROVE  \E x \in T : \A y \in T : y <= x
  <1> DEFINE U == {d \in Nat : \E x \in T : d = top - x}
  <1>1. \A x \in T : x \in 0 .. top /\ top - x \in U
    OBVIOUS
  <1>2. U \subseteq Nat /\ U # {}
    BY <1>1
  <1>3. PICK u \in U : \A y \in U : u <= y
    BY <1>2, SmallestIn
  <1>4. PICK x \in T : u = top - x
    BY <1>3
  <1>5. \A y \in T : top - x <= top - y
    BY <1>1, <1>3, <1>4
  <1> QED
    BY <1>1, <1>4, <1>5

-----------------------------------------------------------------------------
(* Forward references.                                                     *)
RefsVars == <<textVars, phase, refVars>>

-----------------------------------------------------------------------------
(* The invariant: texts, the first sweep, the second sweep, the result.    *)

TextsOK ==
  /\ array \in Seq(Token)
  /\ limits \in Seq(Nat)
  /\ texts \in Nat
  /\ new_texts \in 0 .. texts
  /\ Len(limits) <= texts
  /\ \A m \in 1 .. Len(limits) : 1 <= limits[m] /\ limits[m] <= Len(array) + 1
  /\ \A m, k \in 1 .. Len(limits) : m <= k => limits[m] <= limits[k]
  /\ hash \in Hashes
  /\ phase \in {"read", "hash1", "clean", "compare"}
  /\ phase # "read" => Len(limits) = texts
  /\ phase = "read" => n = 0 /\ i = 0 /\ j = 0

TablesOK ==
  phase # "read" =>
    /\ forward_reference \in [0 .. Len(array) -> {0} \cup Eligible]
    /\ last_index \in [Code -> {0} \cup Eligible]
    /\ n \in 0 .. texts
    /\ i \in 0 .. Len(array)
    /\ j \in 0 .. Len(array) + 1

\* Where make_forward_references_hash1 has got to: in text n, at j.
Seen == {p \in Eligible : p < j}

PlaceOK ==
  phase = "hash1" =>
    /\ j >= 1
    /\ n < texts => Start(n) <= j /\ j <= Limit(n)
    /\ \A m \in 0 .. texts - 1 : m < n => Limit(m) <= j

\* last_index holds the latest position seen of each code ...
Latest(c, q) == /\ q # 0 => q \in Seen /\ Hash1(q) = c
                /\ \A p \in Seen : Hash1(p) = c => p <= q

\* ... and forward_reference links the positions seen.
Linked(p, q) ==
  /\ q # 0 => p \in Seen /\ q \in Seen /\ p < q /\ Hash1(p) = Hash1(q)
  /\ p \in Seen => \A r \in Seen : p < r /\ Hash1(p) = Hash1(r) => q # 0 /\ q <= r

HashOK == phase = "hash1" =>
            /\ \A c \in Code : Latest(c, last_index[c])
            /\ \A p \in 0 .. Len(array) : Linked(p, forward_reference[p])

\* IsNext for hash1 alone and for both hashes.
First1(p, q) ==
  /\ q # 0 => p \in Eligible /\ q \in Eligible /\ p < q /\ Same1(p, q)
  /\ p \in Eligible => \A r \in Eligible : p < r /\ Same1(p, r) => q # 0 /\ q <= r

First2(p, q) ==
  /\ q # 0 => p \in Eligible /\ q \in Eligible /\ p < q /\ Same2(p, q)
  /\ p \in Eligible => \A r \in Eligible : p < r /\ Same2(p, r) => q # 0 /\ q <= r

\* The chain is cleaned before i; from i on the search has followed it to j.
CleanOK ==
  phase = "clean" =>
    /\ \A p \in 0 .. Len(array) : p < i => First2(p, forward_reference[p])
    /\ \A p \in 0 .. Len(array) : i <= p => First1(p, forward_reference[p])
    /\ j # i => i < j /\ i \in Eligible /\ j \in Eligible /\ Same1(i, j)
    /\ \A r \in Eligible : i < r /\ r <= j => ~Same2(i, r)

ResultOK == phase = "compare" =>
              \A p \in 0 .. Len(array) : First2(p, forward_reference[p])

RefsInv == TextsOK /\ TablesOK /\ PlaceOK /\ HashOK /\ CleanOK /\ ResultOK

-----------------------------------------------------------------------------
(* Lemmas.                                                                 *)

\* Positions of a run's start lie in the array, and so does the run.
LEMMA EligibleInside ==
  ASSUME TextsOK, phase # "read", NEW p \in Eligible
  PROVE  p \in 1 .. Len(array) /\ p + MinRun <= Len(array) + 1
  BY RefsAssumption DEF TextsOK, Eligible, Start, Limit

\* The hash functions apply to the runs that start at such positions.
LEMMA HashTyped ==
  ASSUME TextsOK, phase # "read", NEW p \in Eligible
  PROVE  Hash1(p) \in Code /\ Hash2(p) \in Code
<1>1. p \in 1 .. Len(array) /\ p + MinRun <= Len(array) + 1
  BY EligibleInside
<1>2. RunAt(p) \in Run
  BY <1>1, RefsAssumption DEF RunAt, Run, TextsOK
<1>3. hash[1] \in [Run -> Code] /\ hash[2] \in [Run -> Code]
  BY RefsAssumption DEF TextsOK
<1> QED
  BY <1>2, <1>3 DEF Hash1, Hash2

\* First2 is what RefsExact asks for.
LEMMA FirstIsNext ==
  ASSUME TextsOK, phase # "read",
         NEW p \in 0 .. Len(array), NEW q \in {0} \cup Eligible, First2(p, q)
  PROVE  IsNext(p, q, Same2)
<1> DEFINE later == {r \in Eligible : r > p /\ Same2(p, r)}
<1>0. \A r \in Eligible : r \in Nat \ {0}
  BY EligibleInside DEF TextsOK
<1>1. CASE p \notin Eligible \/ later = {}
  <2>1. q = 0
    BY <1>0, <1>1 DEF First2
  <2> QED
    BY <1>1, <2>1 DEF IsNext
<1>2. CASE p \in Eligible /\ later # {}
  <2>1. q \in later /\ \A r \in later : q <= r
    BY <1>0, <1>2 DEF First2
  <2> QED
    BY <1>2, <2>1 DEF IsNext
<1> QED
  BY <1>1, <1>2

-----------------------------------------------------------------------------
(* Initial states, reading.                                                *)

\* Before anything is read.
LEMMA RefsInitOK == RefsInit => RefsInv
BY TextsAssumption
DEF RefsInit, TextsInit, RefsInv, TextsOK, TablesOK, PlaceOK, HashOK, CleanOK, ResultOK

\* A file, or a separator, is a further text behind those there are.
LEMMA ReadStep ==
  ASSUME RefsInv, Reading
  PROVE  RefsInv'
<1> USE DEF RefsInv, Reading, refVars
<1>0. phase = "read" /\ phase' = "read"
  BY DEF ReadText, ReadSeparator
<1>1. TextsOK'
  <2>1. CASE ReadText
    <3>1. PICK file \in File : /\ array' = array \o file
                               /\ limits' = Append(limits, Len(array) + Len(file) + 1)
      BY <2>1 DEF ReadText
    <3>2. PICK l \in 0 .. MaxTokens - Len(array) : file \in [1 .. l -> Token]
      BY <3>1 DEF File
    <3>3. file \in Seq(Token)
      BY <3>2, SeqDef, TextsAssumption DEF TextsOK
    <3>4. array' \in Seq(Token) /\ Len(array') = Len(array) + Len(file)
      BY <3>1, <3>3, ConcatProperties DEF TextsOK
    <3>5. Len(file) \in Nat /\ Len(array) \in Nat
      BY <3>3 DEF TextsOK
    <3>6. limits' \in Seq(Nat) /\ Len(limits') = Len(limits) + 1
      BY <3>1, <3>5 DEF TextsOK
    <3>7. Len(limits') <= texts'
      BY <2>1, <3>6 DEF ReadText, TextsOK
    <3>8. \A m \in 1 .. Len(limits') :
            limits'[m] = IF m <= Len(limits) THEN limits[m] ELSE Len(array')  + 1
      BY <3>1, <3>4, <3>5, <3>6 DEF TextsOK
    <3>9. \A m \in 1 .. Len(limits') : 1 <= limits'[m] /\ limits'[m] <= Len(array') + 1
      <4> TAKE m \in 1 .. Len(limits')
      <4>1. CASE m <= Len(limits)
        <5>1. m \in 1 .. Len(limits) /\ limits'[m] = limits[m] /\ limits[m] \in Nat
          BY <4>1, <3>6, <3>8 DEF TextsOK
        <5>2. 1 <= limits[m] /\ limits[m] <= Len(array) + 1
          BY <5>1 DEF TextsOK
        <5> QED
          BY <5>1, <5>2, <3>4, <3>5
      <4>2. CASE m > Len(limits)
        BY <4>2, <3>4, <3>5, <3>6, <3>8 DEF TextsOK
      <4> QED
        BY <4>1, <4>2, <3>6 DEF TextsOK
    <3>10. ASSUME NEW m \in 1 .. Len(limits'), NEW k \in 1 .. Len(limits'), m <= k
           PROVE  limits'[m] <= limits'[k]
      <4>1. CASE k <= Len(limits)
        <5>1. m \in 1 .. Len(limits) /\ k \in 1 .. Len(limits)
          BY <4>1, <3>6, <3>10 DEF TextsOK
        <5>2. limits'[m] = limits[m] /\ limits'[k] = limits[k]
          BY <5>1, <3>6, <3>8
        <5> QED
          BY <5>1, <5>2, <3>10 DEF TextsOK
      <4>2. CASE k > Len(limits)
        <5>1. limits'[k] = Len(array') + 1
          BY <4>2, <3>6, <3>8 DEF TextsOK
        <5> QED
          BY <5>1, <3>9
      <4> QED
        BY <4>1, <4>2, <3>6 DEF TextsOK
    <3> QED
      BY <1>0, <2>1, <3>4, <3>6, <3>7, <3>9, <3>10 DEF TextsOK, ReadText
  <2>2. CASE ReadSeparator
    BY <1>0, <2>2 DEF TextsOK, ReadSeparator, Length
  <2> QED
    BY <2>1, <2>2
<1> QED
  BY <1>0, <1>1 DEF TablesOK, PlaceOK, HashOK, CleanOK, ResultOK

\* Both tables start empty: nothing has been hashed.
LEMMA StartStep ==
  ASSUME RefsInv, StartHash
  PROVE  RefsInv'
<1> USE DEF RefsInv, StartHash, textVars
<1>1. TextsOK'
  BY DEF TextsOK, TextsRead
<1>2. TablesOK'
  BY DEF TextsOK, TablesOK, TextsRead
<1>3. PlaceOK'
  BY <1>1 DEF TextsOK, PlaceOK, Start, Limit, TextsRead
<1>4. Seen' = {}
  BY <1>1, EligibleInside DEF TextsOK, Seen, Eligible, Start, Limit, TextsRead
<1>5. HashOK'
  BY <1>4 DEF HashOK, Latest, Linked
<1> QED
  BY <1>1, <1>2, <1>3, <1>5 DEF CleanOK, ResultOK

-----------------------------------------------------------------------------
(* The first sweep.                                                        *)

\* Texts and hash functions stay, and what is computed from them.
LEMMA SameTexts ==
  ASSUME UNCHANGED <<textVars, hash>>
  PROVE  /\ Eligible' = Eligible
         /\ \A m : Start(m)' = Start(m) /\ Limit(m)' = Limit(m)
         /\ \A p : Hash1(p)' = Hash1(p) /\ Hash2(p)' = Hash2(p)
         /\ \A p, q : Same1(p, q)' = Same1(p, q) /\ Same2(p, q)' = Same2(p, q)
BY DEF textVars, Eligible, Start, Limit, Hash1, Hash2, RunAt, Same1, Same2

\* The first sweep at a position: the chain of its code gets longer by it.
LEMMA HashPositionStep ==
  ASSUME RefsInv, HashPosition
  PROVE  RefsInv'
<1> USE DEF RefsInv
<1>0. /\ phase = "hash1" /\ phase' = "hash1" /\ n < texts /\ RunFits
      /\ UNCHANGED <<textVars, hash, n, i>> /\ j' = j + 1
  BY DEF HashPosition
<1>1. TextsOK'
  BY <1>0 DEF TextsOK, textVars
<1>2. n \in 0 .. texts - 1 /\ texts \in Nat /\ j \in Nat /\ Len(array) \in Nat
  BY <1>0 DEF TextsOK, TablesOK
<1>3. Start(n) <= j /\ 1 <= j
  BY <1>0 DEF PlaceOK
<1>4. Limit(n) \in Nat /\ Limit(n) <= Len(array) + 1
  <2>1. n + 1 \in 1 .. Len(limits)
    BY <1>0, <1>2 DEF TextsOK
  <2> QED
    BY <2>1 DEF TextsOK, Limit
<1>5. j + MinRun <= Limit(n) /\ j + 1 <= Limit(n) /\ j \in 1 .. Len(array)
  BY <1>0, <1>2, <1>3, <1>4, RefsAssumption DEF RunFits
<1>6. j \in Eligible <=> array[j] \in Starter
  BY <1>2, <1>3, <1>5 DEF Eligible
<1>7. PlaceOK'
  <2>1. j' >= 1
    BY <1>0, <1>3, <1>2
  <2>2. Start(n)' = Start(n) /\ Limit(n)' = Limit(n)
    BY <1>0 DEF textVars, Start, Limit
  <2>3. Start(n) <= j + 1
    <3>1. Start(n) \in Nat
      BY <1>0, <1>2 DEF Start, Limit, TextsOK
    <3> QED
      BY <1>2, <1>3, <3>1
  <2>4. \A m \in 0 .. texts - 1 : m < n => Limit(m) <= j + 1
    <3> TAKE m \in 0 .. texts - 1
    <3> HAVE m < n
    <3>1. Limit(m) \in Nat /\ Limit(m) <= j
      BY <1>0, <1>2 DEF PlaceOK, TextsOK, Limit
    <3> QED
      BY <1>2, <3>1
  <2>5. \A m : Limit(m)' = Limit(m)
    BY <1>0, SameTexts
  <2> QED
    BY <1>0, <1>5, <2>1, <2>2, <2>3, <2>4, <2>5 DEF PlaceOK, textVars
<1>8. \A p \in Eligible : p \in Nat \ {0}
  BY <1>0, <1>2, EligibleInside
<1>9. CASE array[j] \notin Starter
  <2>1. UNCHANGED <<forward_reference, last_index>>
    BY <1>9 DEF HashPosition
  <2>2. Seen' = Seen
    BY <1>0, <1>2, <1>6, <1>8, <1>9, SameTexts DEF Seen
  <2>3. TablesOK'
    BY <1>0, <1>2, <1>5, <2>1, SameTexts DEF TablesOK, textVars
  <2>4. HashOK'
    BY <1>0, <2>1, <2>2, SameTexts DEF HashOK, Latest, Linked, textVars
  <2> QED
    BY <1>0, <1>1, <1>7, <2>3, <2>4 DEF CleanOK, ResultOK
<1>10. CASE array[j] \in Starter
  <2>1. PICK here \in Eligible : here = j
    BY <1>6, <1>10
  <2>2. PICK h \in Code : h = Hash1(here)
    BY <1>0, HashTyped
  <2>3. /\ forward_reference' = IF last_index[h] # 0
                                  THEN [forward_reference EXCEPT ![last_index[h]] = here]
                                  ELSE forward_reference
        /\ last_index' = [last_index EXCEPT ![h] = here]
    BY <1>10, <2>1, <2>2 DEF HashPosition
  <2>4. Seen' = Seen \cup {here} /\ here \notin Seen /\ \A p \in Seen : p < here
    <3>1. Eligible' = Eligible
      BY <1>0, SameTexts
    <3>2. \A p \in Eligible : p < j + 1 <=> p < j \/ p = here
      BY <1>2, <1>8, <2>1
    <3>3. \A p : p \in Seen' <=> p \in Eligible /\ p < j + 1
      BY <1>0, <3>1 DEF Seen
    <3>4. \A p : p \in Seen <=> p \in Eligible /\ p < j
      BY DEF Seen
    <3>5. \A p : p \in Seen' <=> p \in Seen \cup {here}
      BY <1>2, <2>1, <3>2, <3>3, <3>4
    <3> QED
      BY <1>2, <2>1, <3>4, <3>5
  <2>5. TablesOK'
    <3>1. Eligible' = Eligible
      BY <1>0, SameTexts
    <3>2. forward_reference' \in [0 .. Len(array) -> {0} \cup Eligible]
      BY <1>0, <2>1, <2>3 DEF TablesOK
    <3>3. last_index' \in [Code -> {0} \cup Eligible]
      BY <1>0, <2>1, <2>2, <2>3 DEF TablesOK
    <3>4. j + 1 \in 0 .. Len(array) + 1
      BY <1>2, <1>5
    <3> QED
      BY <1>0, <3>1, <3>2, <3>3, <3>4 DEF TablesOK, textVars
  <2>6. /\ \A p : Hash1(p)' = Hash1(p)
        /\ \A p \in Seen : p \in Nat \ {0}
    BY <1>0, <1>8, SameTexts DEF Seen
  <2>7. ASSUME NEW c \in Code
        PROVE  Latest(c, last_index[c])'
    <3>1. last_index'[c] = IF c = h THEN here ELSE last_index[c]
      BY <1>0, <2>3 DEF TablesOK
    <3>2. Latest(c, last_index[c])
      BY <1>0 DEF HashOK
    <3>3. CASE c = h
      BY <1>8, <2>1, <2>2, <2>4, <2>6, <3>1, <3>3 DEF Latest
    <3>4. CASE c # h
      BY <1>8, <2>1, <2>2, <2>4, <2>6, <3>1, <3>2, <3>4 DEF Latest
    <3> QED
      BY <3>3, <3>4
  <2>8. ASSUME NEW p \in 0 .. Len(array)
        PROVE  Linked(p, forward_reference[p])'
    <3>1. forward_reference'[p] = IF last_index[h] # 0 /\ p = last_index[h]
                                    THEN here ELSE forward_reference[p]
      BY <1>0, <2>3 DEF TablesOK
    <3>2. Linked(p, forward_reference[p])
      BY <1>0 DEF HashOK
    <3>3. Latest(h, last_index[h])
      BY <1>0, <2>1 DEF HashOK
    <3>4. forward_reference[p] \in {0} \cup Eligible
      BY <1>0 DEF TablesOK
    <3>5. CASE last_index[h] # 0 /\ p = last_index[h]
      BY <1>8, <2>1, <2>2, <2>4, <2>6, <3>1, <3>2, <3>3, <3>5 DEF Linked, Latest
    <3>6. CASE last_index[h] # 0 /\ p # last_index[h]
      BY <1>8, <2>1, <2>2, <2>4, <2>6, <3>1, <3>2, <3>3, <3>4, <3>6 DEF Linked, Latest
    <3>7. CASE last_index[h] = 0
      BY <1>8, <2>1, <2>2, <2>4, <2>6, <3>1, <3>2, <3>3, <3>4, <3>7 DEF Linked, Latest
    <3> QED
      BY <3>5, <3>6, <3>7
  <2>9. HashOK'
    BY <1>0, <2>7, <2>8 DEF HashOK, textVars
  <2> QED
    BY <1>0, <1>1, <1>7, <2>5, <2>9 DEF CleanOK, ResultOK
<1> QED
  BY <1>9, <1>10

\* Texts follow each other.
LEMMA LimitsOrdered ==
  ASSUME TextsOK, phase # "read"
  PROVE  /\ \A m \in 0 .. texts - 1 : Limit(m) \in Nat /\ 1 <= Limit(m) /\ Limit(m) <= Len(array) + 1
         /\ \A k, m \in 0 .. texts - 1 : k <= m => Limit(k) <= Limit(m)
<1>1. texts \in Nat /\ Len(limits) = texts
  BY DEF TextsOK
<1>2. \A m \in 0 .. texts - 1 : Limit(m) \in Nat /\ 1 <= Limit(m) /\ Limit(m) <= Len(array) + 1
  <2> TAKE m \in 0 .. texts - 1
  <2>1. m + 1 \in 1 .. Len(limits)
    BY <1>1
  <2> QED
    BY <2>1 DEF TextsOK, Limit
<1>3. \A k, m \in 0 .. texts - 1 : k <= m => Limit(k) <= Limit(m)
  <2> TAKE k, m \in 0 .. texts - 1
  <2> HAVE k <= m
  <2>1. k + 1 \in 1 .. Len(limits) /\ m + 1 \in 1 .. Len(limits) /\ k + 1 <= m + 1
    BY <1>1
  <2> QED
    BY <2>1 DEF TextsOK, Limit
<1> QED
  BY <1>2, <1>3

\* What make_forward_references_hash1 leaves out of a text starts no run.
LEMMA RestOfText ==
  ASSUME RefsInv, phase = "hash1", n < texts, ~RunFits, NEW p \in Eligible
  PROVE  p < j <=> p < Limit(n)
<1> USE DEF RefsInv
<1>1. n \in 0 .. texts - 1 /\ texts \in Nat /\ j \in Nat /\ Len(limits) = texts
  BY DEF TextsOK, TablesOK
<1>2. PICK m \in 0 .. texts - 1 : Start(m) <= p /\ p + MinRun <= Limit(m)
  BY DEF Eligible
<1>3. p \in Nat
  BY EligibleInside
<1>4. /\ \A k \in 0 .. texts - 1 : Limit(k) \in Nat
      /\ \A k, l \in 0 .. texts - 1 : k <= l => Limit(k) <= Limit(l)
  BY LimitsOrdered
<1>5. Start(n) <= j /\ j <= Limit(n)
  BY <1>1 DEF PlaceOK
<1>6. CASE m < n
  <2>1. Limit(m) <= j
    BY <1>1, <1>6 DEF PlaceOK
  <2> QED
    BY <1>1, <1>2, <1>3, <1>4, <1>5, <2>1, RefsAssumption
<1>7. CASE m = n
  <2>1. j + MinRun - 1 >= Limit(n)
    BY <1>1, <1>4, RefsAssumption DEF RunFits
  <2> QED
    BY <1>1, <1>2, <1>3, <1>4, <1>7, <2>1, RefsAssumption
<1>8. CASE m > n
  <2>1. Start(m) = Limit(m - 1) /\ Limit(n) <= Limit(m - 1)
    BY <1>1, <1>4, <1>8 DEF Start
  <2> QED
    BY <1>1, <1>2, <1>3, <1>4, <1>5, <1>8, <2>1
<1> QED
  BY <1>1, <1>6, <1>7, <1>8

\* What is left of a text is too short for a run: no position is passed over.
LEMMA HashNextTextStep ==
  ASSUME RefsInv, HashNextText
  PROVE  RefsInv'
<1> USE DEF RefsInv
<1>0. /\ phase = "hash1" /\ phase' = "hash1" /\ n < texts /\ ~RunFits
      /\ UNCHANGED <<textVars, hash, i, forward_reference, last_index>>
      /\ n' = n + 1 /\ j' = Limit(n)
  BY DEF HashNextText
<1>1. TextsOK'
  BY <1>0 DEF TextsOK, textVars
<1>2. n \in 0 .. texts - 1 /\ texts \in Nat /\ Len(array) \in Nat /\ Len(limits) = texts
  BY <1>0 DEF TextsOK, TablesOK
<1>3. /\ \A m \in 0 .. texts - 1 : Limit(m) \in Nat /\ 1 <= Limit(m) /\ Limit(m) <= Len(array) + 1
      /\ \A k, m \in 0 .. texts - 1 : k <= m => Limit(k) <= Limit(m)
  BY <1>0, LimitsOrdered
<1>4. UNCHANGED Eligible /\ \A m : Limit(m)' = Limit(m)
  BY <1>0, SameTexts
<1>5. Seen' = Seen
  <2>1. \A p \in Eligible : p < j <=> p < Limit(n)
    BY <1>0, RestOfText
  <2> QED
    BY <1>0, <1>4, <2>1 DEF Seen
<1>6. TablesOK'
  BY <1>0, <1>2, <1>3, <1>4 DEF TablesOK, textVars
<1>7. PlaceOK'
  <2>1. j' >= 1
    BY <1>0, <1>2, <1>3
  <2>2. n' < texts => Start(n)' <= j' /\ j' <= Limit(n)'
    <3> HAVE n' < texts
    <3>1. Start(n)' = Limit(n) /\ Limit(n)' = Limit(n + 1)
      BY <1>0, <1>2 DEF Start, Limit, textVars
    <3> QED
      BY <1>0, <1>2, <1>3, <3>1
  <2>3. \A m \in 0 .. texts - 1 : m < n' => Limit(m) <= j'
    BY <1>0, <1>2, <1>3
  <2> QED
    BY <1>0, <1>4, <2>1, <2>2, <2>3 DEF PlaceOK, textVars
<1>8. HashOK'
  BY <1>0, <1>5, SameTexts DEF HashOK, Latest, Linked, textVars
<1> QED
  BY <1>0, <1>1, <1>6, <1>7, <1>8 DEF CleanOK, ResultOK

\* All positions are hashed, none is cleaned.
LEMMA HashDoneStep ==
  ASSUME RefsInv, HashDone
  PROVE  RefsInv'
<1> USE DEF RefsInv
<1>0. /\ phase = "hash1" /\ phase' = "clean" /\ n = texts
      /\ UNCHANGED <<textVars, hash, n, forward_reference, last_index>>
      /\ i' = 0 /\ j' = 0
  BY DEF HashDone
<1>1. TextsOK'
  BY <1>0 DEF TextsOK, textVars
<1>2. UNCHANGED Eligible
  BY <1>0, SameTexts
<1>3. texts \in Nat /\ Len(array) \in Nat /\ j \in Nat /\ Len(limits) = texts
  BY <1>0 DEF TextsOK, TablesOK
<1>4. TablesOK'
  BY <1>0, <1>2, <1>3 DEF TablesOK, textVars
<1>5. \A p \in Eligible : p \in Nat \ {0}
  BY <1>0, EligibleInside
<1>6. Seen = Eligible
  <2> SUFFICES ASSUME NEW p \in Eligible
               PROVE  p < j
    BY DEF Seen
  <2>1. PICK m \in 0 .. texts - 1 : p + MinRun <= Limit(m)
    BY DEF Eligible
  <2>2. Limit(m) \in Nat /\ Limit(m) <= j
    BY <1>0, <1>3 DEF PlaceOK, TextsOK, Limit
  <2> QED
    BY <1>3, <1>5, <2>1, <2>2, RefsAssumption
<1>7. \A p \in 0 .. Len(array) : First1(p, forward_reference[p])
  BY <1>0, <1>6 DEF HashOK, Linked, First1, Same1
<1>8. \A p, q : First1(p, q)' = First1(p, q)
  BY <1>0, <1>2, SameTexts DEF First1
<1>9. CleanOK'
  BY <1>0, <1>2, <1>3, <1>5, <1>7, <1>8 DEF CleanOK, textVars
<1> QED
  BY <1>0, <1>1, <1>4, <1>9 DEF PlaceOK, HashOK, ResultOK

-----------------------------------------------------------------------------
(* The second sweep.                                                       *)

\* Where the search for the next of i stands, and what its next is.
LEMMA OnChain ==
  ASSUME RefsInv, phase = "clean"
  PROVE  /\ i \in 0 .. Len(array) /\ j \in 0 .. Len(array) /\ i <= j
         /\ First1(j, Next2)
         /\ i \in Eligible <=> j \in Eligible
         /\ j \in Eligible => Same1(i, j)
         /\ Next2 \in {0} \cup Eligible
         /\ \A p \in Eligible : p \in Nat \ {0}
<1> USE DEF RefsInv
<1>1. \A p \in Eligible : p \in 1 .. Len(array)
  BY EligibleInside
<1>2. i \in 0 .. Len(array) /\ Len(array) \in Nat
  BY DEF TablesOK, TextsOK
<1>3. j = i \/ (i < j /\ i \in Eligible /\ j \in Eligible /\ Same1(i, j))
  BY DEF CleanOK
<1>4. j \in 0 .. Len(array) /\ i <= j
  BY <1>1, <1>2, <1>3
<1>5. First1(j, Next2)
  BY <1>4 DEF CleanOK, Next2
<1>6. Next2 \in {0} \cup Eligible
  BY <1>4 DEF TablesOK, Next2
<1>7. Same1(i, i)
  BY DEF Same1
<1> QED
  BY <1>1, <1>2, <1>3, <1>4, <1>5, <1>6, <1>7

\* The second sweep passes what differs under hash2.
LEMMA CleanFollowStep ==
  ASSUME RefsInv, CleanFollow
  PROVE  RefsInv'
<1> USE DEF RefsInv
<1>0. /\ phase = "clean" /\ phase' = "clean" /\ Differs /\ j' = Next2
      /\ UNCHANGED <<textVars, hash, n, i, forward_reference, last_index>>
  BY DEF CleanFollow, Cleaning
<1>1. TextsOK'
  BY <1>0 DEF TextsOK, textVars
<1>2. UNCHANGED Eligible
  BY <1>0, SameTexts
<1>3. PICK q \in Eligible : q = Next2 /\ Hash2(q) # Hash2(i)
  BY <1>0, OnChain DEF Differs
<1>4. /\ j \in Eligible /\ j < q /\ Same1(j, q)
      /\ \A r \in Eligible : j < r /\ Same1(j, r) => q <= r
  BY <1>0, <1>3, OnChain DEF First1
<1>5. i \in Eligible /\ i < q /\ Same1(i, q)
  BY <1>0, <1>3, <1>4, OnChain DEF Same1
<1>6. ASSUME NEW r \in Eligible, i < r, r <= q
      PROVE  ~Same2(i, r)
  <2>1. CASE r <= j
    BY <1>0, <1>6, <2>1 DEF CleanOK
  <2>2. CASE j < r
    <3> SUFFICES ASSUME Same2(i, r)
                 PROVE  FALSE
      OBVIOUS
    <3>1. Same1(j, r)
      BY <1>0, <1>4, OnChain DEF Same1, Same2
    <3>2. r = q
      BY <1>0, <1>3, <1>4, <1>6, <2>2, <3>1, OnChain
    <3> QED
      BY <1>3, <3>2 DEF Same2
  <2> QED
    BY <1>0, <2>1, <2>2, OnChain
<1>7. TablesOK'
  <2>1. q \in 0 .. Len(array) + 1
    BY <1>0, <1>3, EligibleInside DEF TextsOK
  <2> QED
    BY <1>0, <1>2, <1>3, <2>1 DEF TablesOK, textVars
<1>8. CleanOK'
  <2>1. /\ \A p, t : First1(p, t)' = First1(p, t) /\ First2(p, t)' = First2(p, t)
        /\ \A p, t : Same1(p, t)' = Same1(p, t) /\ Same2(p, t)' = Same2(p, t)
    BY <1>0, SameTexts DEF First1, First2
  <2>2. j' = q /\ UNCHANGED <<array, i, forward_reference>>
    BY <1>0, <1>3 DEF textVars
  <2>3. \A p \in 0 .. Len(array)' : p < i' => First2(p, forward_reference[p])'
    BY <1>0, <2>1, <2>2 DEF CleanOK
  <2>4. \A p \in 0 .. Len(array)' : i' <= p => First1(p, forward_reference[p])'
    BY <1>0, <2>1, <2>2 DEF CleanOK
  <2>5. i' < j' /\ i' \in Eligible' /\ j' \in Eligible' /\ Same1(i, j)'
    BY <1>2, <1>5, <2>1, <2>2
  <2>6. \A r \in Eligible' : i' < r /\ r <= j' => ~Same2(i, r)'
    BY <1>2, <1>6, <2>1, <2>2
  <2> QED
    BY <2>3, <2>4, <2>5, <2>6 DEF CleanOK
<1> QED
  BY <1>0, <1>1, <1>7, <1>8 DEF PlaceOK, HashOK, ResultOK

\* The search ends at the next position with the same codes.
LEMMA NextFound ==
  ASSUME RefsInv, phase = "clean", ~Differs
  PROVE  First2(i, Next2)
<1> USE DEF RefsInv
<1>1. ASSUME Next2 # 0
      PROVE  /\ i \in Eligible /\ Next2 \in Eligible
             /\ i < Next2 /\ Same2(i, Next2)
  <2>1. Hash2(Next2) = Hash2(i)
    BY <1>1 DEF Differs
  <2>2. j \in Eligible /\ Next2 \in Eligible /\ j < Next2 /\ Same1(j, Next2)
    BY <1>1, OnChain DEF First1
  <2>3. i \in Eligible /\ i < Next2
    BY <2>2, OnChain
  <2>4. Same1(i, Next2)
    BY <2>2, OnChain DEF Same1
  <2> QED
    BY <2>1, <2>2, <2>3, <2>4 DEF Same2
<1>2. ASSUME i \in Eligible, NEW r \in Eligible, i < r, Same2(i, r)
      PROVE  Next2 # 0 /\ Next2 <= r
  <2>1. ~(r <= j)
    BY <1>2 DEF CleanOK
  <2>2. j < r
    BY <2>1, OnChain
  <2>3. j \in Eligible /\ Same1(j, r)
    BY <1>2, OnChain DEF Same1, Same2
  <2> QED
    BY <2>2, <2>3, OnChain DEF First1
<1> QED
  BY <1>1, <1>2 DEF First2

\* ... and ends at the next position that does not.
LEMMA CleanSetStep ==
  ASSUME RefsInv, CleanSet
  PROVE  RefsInv'
<1> USE DEF RefsInv
<1>0. /\ phase = "clean" /\ phase' = "clean" /\ ~Differs /\ i + MinRun < Length
      /\ UNCHANGED <<textVars, hash, n, last_index>>
      /\ i' = i + 1 /\ j' = i + 1
  BY DEF CleanSet, Cleaning
<1>1. TextsOK'
  BY <1>0 DEF TextsOK, textVars
<1>2. UNCHANGED Eligible
  BY <1>0, SameTexts
<1>3. PICK q \in {0} \cup Eligible : q = Next2 /\ First2(i, q)
  BY <1>0, NextFound, OnChain
<1>4. i \in 0 .. Len(array) /\ i + 1 \in 0 .. Len(array) /\ Len(array) \in Nat
  BY <1>0, OnChain, RefsAssumption DEF Length, TextsOK
<1>5. forward_reference' = [forward_reference EXCEPT ![i] = q]
  BY <1>3 DEF CleanSet
<1>6. forward_reference \in [0 .. Len(array) -> {0} \cup Eligible]
  BY <1>0 DEF TablesOK
<1>7. TablesOK'
  <2>1. forward_reference' \in [0 .. Len(array) -> {0} \cup Eligible]
    BY <1>3, <1>5, <1>6
  <2> QED
    BY <1>0, <1>2, <1>4, <2>1 DEF TablesOK, textVars
<1>8. CleanOK'
  <2>1. /\ \A p, t : First1(p, t)' = First1(p, t) /\ First2(p, t)' = First2(p, t)
        /\ UNCHANGED array
    BY <1>0, SameTexts DEF First1, First2, textVars
  <2>2. \A p \in 0 .. Len(array) : forward_reference'[p] = IF p = i THEN q ELSE forward_reference[p]
    BY <1>5, <1>6
  <2>3. ASSUME NEW p \in 0 .. Len(array)', p < i'
        PROVE  First2(p, forward_reference[p])'
    <3>1. CASE p = i
      BY <1>3, <1>4, <2>1, <2>2, <3>1
    <3>2. CASE p < i
      BY <1>0, <1>4, <2>1, <2>2, <3>2 DEF CleanOK
    <3> QED
      BY <1>0, <1>4, <2>1, <2>3, <3>1, <3>2
  <2>4. ASSUME NEW p \in 0 .. Len(array)', i' <= p
        PROVE  First1(p, forward_reference[p])'
    BY <1>0, <1>4, <2>1, <2>2, <2>4 DEF CleanOK
  <2>5. ASSUME NEW r \in Eligible', i' < r, r <= j'
        PROVE  FALSE
    BY <1>0, <1>2, <1>4, <2>5, OnChain
  <2> QED
    BY <1>0, <2>3, <2>4, <2>5 DEF CleanOK
<1> QED
  BY <1>0, <1>1, <1>7, <1>8 DEF PlaceOK, HashOK, ResultOK

\* The positions that are left are too close to the end for a run.
LEMMA CleanDoneStep ==
  ASSUME RefsInv, CleanDone
  PROVE  RefsInv'
<1> USE DEF RefsInv
<1>0. /\ phase = "clean" /\ phase' = "compare" /\ i + MinRun >= Length
      /\ UNCHANGED <<textVars, refVars>>
  BY DEF CleanDone
<1>1. TextsOK'
  BY <1>0 DEF TextsOK, textVars, refVars
<1>2. TablesOK'
  BY <1>0, SameTexts DEF TablesOK, textVars, refVars
<1>3. ASSUME NEW p \in 0 .. Len(array)
      PROVE  First2(p, forward_reference[p])
  <2>1. CASE p < i
    BY <1>0, <2>1 DEF CleanOK
  <2>2. CASE i <= p
    <3>1. \A r \in Eligible : ~(p < r)
      BY <1>0, <2>2, OnChain, EligibleInside, RefsAssumption DEF Length, TextsOK
    <3>2. First1(p, forward_reference[p])
      BY <1>0, <2>2 DEF CleanOK
    <3> QED
      BY <3>1, <3>2 DEF First1, First2
  <2> QED
    BY <1>0, <2>1, <2>2, OnChain
<1>4. ResultOK'
  <2>1. \A p, t : First2(p, t)' = First2(p, t)
    BY <1>0, SameTexts DEF First2, refVars
  <2> QED
    BY <1>0, <1>3, <2>1 DEF ResultOK, textVars, refVars
<1> QED
  BY <1>0, <1>1, <1>2, <1>4 DEF PlaceOK, HashOK, CleanOK

\* Steps of others.
LEMMA StutterStep ==
  ASSUME RefsInv, UNCHANGED RefsVars
  PROVE  RefsInv'
<1> USE DEF RefsInv, RefsVars, textVars, refVars
<1>1. /\ UNCHANGED Eligible
      /\ \A m : Start(m)' = Start(m) /\ Limit(m)' = Limit(m)
      /\ \A p : Hash1(p)' = Hash1(p)
      /\ \A p, t : Same1(p, t)' = Same1(p, t) /\ Same2(p, t)' = Same2(p, t)
  BY SameTexts
<1>2. TextsOK' /\ TablesOK'
  BY <1>1 DEF TextsOK, TablesOK
<1>3. PlaceOK'
  BY DEF PlaceOK, Start, Limit
<1>4. UNCHANGED Seen
  BY <1>1 DEF Seen
<1>5. HashOK'
  BY <1>1, <1>4 DEF HashOK, Latest, Linked
<1>6. \A p, t : First1(p, t)' = First1(p, t) /\ First2(p, t)' = First2(p, t)
  BY <1>1 DEF First1, First2
<1>7. CleanOK'
  <2>1. phase = "clean" => Same1(i, j)' = Same1(i, j) /\ \A r : Same2(i, r)' = Same2(i, r)
    BY DEF Same1, Same2, Hash1, Hash2, RunAt
  <2> QED
    BY <1>1, <1>6, <2>1 DEF CleanOK
<1>8. ResultOK'
  BY <1>6 DEF ResultOK
<1> QED
  BY <1>2, <1>3, <1>5, <1>7, <1>8

-----------------------------------------------------------------------------
(* The theorems.                                                           *)

\* Every action of Make_Forward_References, and reading, keeps the invariant.
THEOREM RefsInvariance == RefsSpec => []RefsInv
<1>1. RefsInit => RefsInv
  BY RefsInitOK
<1>2. RefsInv /\ [RefsNext]_RefsVars => RefsInv'
  <2> SUFFICES ASSUME RefsInv, [RefsNext]_RefsVars
               PROVE  RefsInv'
    OBVIOUS
  <2>1. CASE Reading
    BY <2>1, ReadStep
  <2>2. CASE StartHash
    BY <2>2, StartStep
  <2>3. CASE HashPosition
    BY <2>3, HashPositionStep
  <2>4. CASE HashNextText
    BY <2>4, HashNextTextStep
  <2>5. CASE HashDone
    BY <2>5, HashDoneStep
  <2>6. CASE CleanFollow
    BY <2>6, CleanFollowStep
  <2>7. CASE CleanSet
    BY <2>7, CleanSetStep
  <2>8. CASE CleanDone
    BY <2>8, CleanDoneStep
  <2>9. CASE UNCHANGED RefsVars
    BY <2>9, StutterStep
  <2> QED
    BY <2>1, <2>2, <2>3, <2>4, <2>5, <2>6, <2>7, <2>8, <2>9 DEF RefsNext
<1> QED
  BY <1>1, <1>2, PTL DEF RefsSpec, RefsVars

\* Whatever the texts, the size of runs and the hash functions are: when the
\* comparison starts, forward_reference[p] is the next position at which a run
\* with the codes of p starts, and 0 if there is none (hash.c:12-16).
THEOREM ReferencesExact == RefsSpec => []RefsExact
<1>1. RefsInv => RefsExact
  <2> SUFFICES ASSUME RefsInv, phase = "compare", NEW p \in 0 .. Len(array)
               PROVE  IsNext(p, forward_reference[p], Same2)
    BY DEF RefsExact
  <2>1. First2(p, forward_reference[p]) /\ forward_reference[p] \in {0} \cup Eligible
    BY DEF RefsInv, ResultOK, TablesOK
  <2> QED
    BY <2>1, FirstIsNext DEF RefsInv
<1> QED
  BY <1>1, RefsInvariance, PTL

\* References only lead forwards, at every moment of both sweeps: a walk along
\* a chain (hash.c:309, compare.c:118) ends.
RefsForward ==
  phase # "read" => \A p \in 0 .. Len(array) :
    forward_reference[p] # 0 => p < forward_reference[p]

\* That holds for any texts, run size and hash functions.
THEOREM ReferencesForward == RefsSpec => []RefsForward
<1>1. RefsInv => RefsForward
  <2> SUFFICES ASSUME RefsInv, phase # "read", NEW p \in 0 .. Len(array),
                      forward_reference[p] # 0
               PROVE  p < forward_reference[p]
    BY DEF RefsForward
  <2>1. CASE phase = "hash1"
    BY <2>1 DEF RefsInv, HashOK, Linked
  <2>2. CASE phase = "clean"
    <3>1. First1(p, forward_reference[p]) \/ First2(p, forward_reference[p])
      BY <2>2, OnChain DEF RefsInv, CleanOK
    <3> QED
      BY <3>1 DEF First1, First2
  <2>3. CASE phase = "compare"
    BY <2>3 DEF RefsInv, ResultOK, First2
  <2> QED
    BY <2>1, <2>2, <2>3 DEF RefsInv, TextsOK
<1> QED
  BY <1>1, RefsInvariance, PTL

-----------------------------------------------------------------------------
(* The language: what Best_Run_Size makes of a run.                        *)

\* The part of t tokens from p on leaves nothing open, and at no place in it
\* there is a closer too many.
Closed(p, t) == /\ \A k \in DOMAIN Opener : Balance(k, p, t) = 0
                /\ \A u \in 0 .. t, k \in DOMAIN Opener : Balance(k, p, u) >= 0

\* One token more or less in what is counted.
LEMMA CountStep ==
  ASSUME NEW S, NEW p \in Nat, NEW t \in Nat
  PROVE  /\ CountOf(S, p, t) \in Nat
         /\ t # 0 => CountOf(S, p, t) = CountOf(S, p, t - 1)
                                        + (IF array[p + t - 1] \in S THEN 1 ELSE 0)
  <1> DEFINE C(u) == {k \in p .. p + u - 1 : array[k] \in S}
  <1>1. \A u \in Nat : IsFiniteSet(C(u)) /\ CountOf(S, p, u) = Cardinality(C(u))
    <2> TAKE u \in Nat
    <2>1. IsFiniteSet(p .. p + u - 1)
      BY FS_Interval
    <2> QED
      BY <2>1, FS_Subset DEF CountOf
  <1>2. \A u \in Nat : CountOf(S, p, u) \in Nat
    BY <1>1, FS_CardinalityType
  <1>3. ASSUME t # 0 PROVE CountOf(S, p, t) = CountOf(S, p, t - 1)
                                              + (IF array[p + t - 1] \in S THEN 1 ELSE 0)
    <2>1. t - 1 \in Nat /\ p + t - 1 \in Nat /\ p + t - 1 \notin C(t - 1)
      BY <1>3
    <2>2. CASE array[p + t - 1] \in S
      <3>1. C(t) = C(t - 1) \cup {p + t - 1}
        BY <2>1, <2>2
      <3>2. Cardinality(C(t - 1) \cup {p + t - 1}) = Cardinality(C(t - 1)) + 1
        BY <1>1, <2>1, FS_AddElement
      <3> QED
        BY <1>1, <2>1, <2>2, <3>1, <3>2
    <2>3. CASE array[p + t - 1] \notin S
      <3>1. C(t) = C(t - 1)
        BY <2>1, <2>3
      <3>2. CountOf(S, p, t) = CountOf(S, p, t - 1)
        BY <3>1, Zenon DEF CountOf
      <3> QED
        BY <1>2, <2>1, <2>3, <3>2
    <2> QED
      BY <2>2, <2>3
  <1> QED
    BY <1>2, <1>3

\* Nothing is balanced.
LEMMA NothingClosed ==
  ASSUME NEW p \in Nat
  PROVE  Closed(p, 0)
  <1>1. \A S : CountOf(S, p, 0) = 0
    <2> TAKE S
    <2>1. {k \in p .. p + 0 - 1 : array[k] \in S} = {}
      OBVIOUS
    <2> QED
      BY <2>1, FS_EmptySet DEF CountOf
  <1>2. \A k : Balance(k, p, 0) = 0
    BY <1>1 DEF Balance
  <1> QED
    BY <1>2 DEF Closed

\* largest_routine finds the longest part that is closed.
LEMMA RoutineLongest ==
  ASSUME NEW p \in Nat, NEW size \in Nat
  PROVE  /\ Routine(p, size) \in 0 .. size
         /\ Closed(p, Routine(p, size))
         /\ \A t \in Routine(p, size) + 1 .. size : ~ Closed(p, t)
  <1> DEFINE T == {s \in 0 .. size : Closed(p, s)}
  <1>1. 0 \in T
    BY NothingClosed
  <1>2. PICK s \in T : \A t \in T : t <= s
    BY <1>1, LargestUpTo
  <1>3. s \in 0 .. size /\ Closed(p, s) /\ \A t \in s + 1 .. size : ~ Closed(p, t)
    BY <1>2
  <1>4. Routine(p, size) = CHOOSE r \in 0 .. size :
                             Closed(p, r) /\ \A t \in r + 1 .. size : ~ Closed(p, t)
    BY DEF Routine, Closed
  <1> QED
    BY <1>3, <1>4

\* What is left when trailing tokens are cut off.
LEMMA TailCut ==
  ASSUME NEW p \in Nat, NEW size \in Nat
  PROVE  /\ WithoutTail(p, size) \in 0 .. size
         /\ WithoutTail(p, size) # 0 => array[p + WithoutTail(p, size) - 1] \notin NonFinal
         /\ \A t \in WithoutTail(p, size) + 1 .. size : array[p + t - 1] \in NonFinal
  <1> DEFINE T == {s \in 0 .. size : s = 0 \/ array[p + s - 1] \notin NonFinal}
  <1>1. 0 \in T
    OBVIOUS
  <1>2. PICK s \in T : \A t \in T : t <= s
    BY <1>1, LargestUpTo
  <1>3. ASSUME NEW t \in s + 1 .. size PROVE array[p + t - 1] \in NonFinal
    <2>1. s \in 0 .. size /\ t \in 0 .. size /\ t # 0 /\ ~ (t <= s)
      BY <1>3
    <2>2. t \notin T
      BY <1>2, <2>1
    <2> QED
      BY <2>1, <2>2
  <1> QED
    BY <1>3 DEF WithoutTail

\* A closed part does not end in an opener; without any other last token that
\* is no closer it is closed as well.
LEMMA CutOne ==
  ASSUME NEW p \in Nat, NEW t \in Nat \ {0}, Closed(p, t), array[p + t - 1] \in NonFinal
  PROVE  Closed(p, t - 1)
  <1> DEFINE x == array[p + t - 1]
  <1>1. \A k : x \notin Closers(k)
    BY ComparisonAssumption DEF Closers
  <1>2. ASSUME NEW k \in DOMAIN Opener PROVE Balance(k, p, t - 1) = 0
    <2>1. CountOf(Closers(k), p, t) = CountOf(Closers(k), p, t - 1)
      BY <1>1, CountStep
    <2>2. /\ CountOf({Opener[k]}, p, t) = CountOf({Opener[k]}, p, t - 1)
                                           + (IF x = Opener[k] THEN 1 ELSE 0)
          /\ CountOf({Opener[k]}, p, t - 1) \in Nat
          /\ CountOf(Closers(k), p, t - 1) \in Nat
      BY CountStep
    <2>3. Balance(k, p, t) = 0 /\ Balance(k, p, t - 1) >= 0
      BY DEF Closed
    <2> QED
      BY <2>1, <2>2, <2>3 DEF Balance
  <1> QED
    BY <1>2 DEF Closed

\* So what is left of a closed part is closed.
LEMMA TailClosed ==
  ASSUME NEW p \in Nat, NEW size \in Nat, Closed(p, size)
  PROVE  Closed(p, WithoutTail(p, size))
  <1> DEFINE w == WithoutTail(p, size)
             T == {t \in w .. size : Closed(p, t)}
  <1>1. w \in 0 .. size /\ \A t \in w + 1 .. size : array[p + t - 1] \in NonFinal
    BY TailCut
  <1>2. T \subseteq Nat /\ size \in T
    BY <1>1
  <1>3. PICK t \in T : \A u \in T : t <= u
    BY <1>2, SmallestIn
  <1>4. CASE t > w
    <2>1. Closed(p, t - 1)
      BY <1>1, <1>3, <1>4, CutOne
    <2>2. t - 1 \in T
      BY <1>1, <1>3, <1>4, <2>1
    <2> QED
      BY <1>2, <1>3, <2>2
  <1>5. CASE t = w
    BY <1>3, <1>5
  <1> QED
    BY <1>1, <1>3, <1>4, <1>5

\* Cut off once, nothing more is cut off.
LEMMA TailStays ==
  ASSUME NEW p \in Nat, NEW size \in Nat, size = 0 \/ array[p + size - 1] \notin NonFinal
  PROVE  WithoutTail(p, size) = size
  <1>1. WithoutTail(p, size) \in 0 .. size
    BY TailCut
  <1>2. CASE size = 0
    BY <1>1, <1>2
  <1>3. CASE size # 0 /\ WithoutTail(p, size) # size
    <2>1. size \in WithoutTail(p, size) + 1 .. size
      BY <1>1, <1>3
    <2> QED
      BY <1>3, <2>1, TailCut
  <1> QED
    BY <1>2, <1>3

\* The same of what is closed.
LEMMA RoutineStays ==
  ASSUME NEW p \in Nat, NEW size \in Nat, Closed(p, size)
  PROVE  Routine(p, size) = size
  <1>1. Routine(p, size) \in 0 .. size
    BY RoutineLongest
  <1>2. CASE Routine(p, size) # size
    <2>1. size \in Routine(p, size) + 1 .. size
      BY <1>1, <1>2
    <2> QED
      BY <2>1, RoutineLongest
  <1> QED
    BY <1>2

\* Best_Run_Size returns what is acceptable.
LEMMA BestAccepted ==
  ASSUME NEW p \in Nat, NEW size \in Nat
  PROVE  /\ BestRunSize(p, size) \in 0 .. size
         /\ BestRunSize(p, BestRunSize(p, size)) = BestRunSize(p, size)
  <1>1. CASE array[p] \notin Starter
    BY <1>1 DEF BestRunSize
  <1>2. CASE array[p] \in Starter /\ "f" \notin option
    <2>1. \A u \in Nat : BestRunSize(p, u) = WithoutTail(p, u)
      BY <1>2 DEF BestRunSize
    <2>2. PICK w \in 0 .. size : w = WithoutTail(p, size)
      BY TailCut
    <2>3. w = 0 \/ array[p + w - 1] \notin NonFinal
      BY <2>2, TailCut
    <2>4. WithoutTail(p, w) = w
      BY <2>3, TailStays
    <2> QED
      BY <2>1, <2>2, <2>4
  <1>3. CASE array[p] \in Starter /\ "f" \in option
    <2>1. \A u \in Nat : BestRunSize(p, u) = WithoutTail(p, Routine(p, u))
      BY <1>3 DEF BestRunSize
    <2>2. PICK r \in 0 .. size : r = Routine(p, size) /\ Closed(p, r)
      BY RoutineLongest
    <2>3. PICK w \in 0 .. r : w = WithoutTail(p, r)
      BY TailCut
    <2>4. w = 0 \/ array[p + w - 1] \notin NonFinal
      <3>1. WithoutTail(p, r) # 0 => array[p + WithoutTail(p, r) - 1] \notin NonFinal
        BY TailCut
      <3> QED
        BY <2>3, <3>1
    <2>5. Closed(p, w)
      BY <2>2, <2>3, TailClosed
    <2>6. Routine(p, w) = w /\ WithoutTail(p, w) = w
      BY <2>4, <2>5, TailStays, RoutineStays
    <2> QED
      BY <2>1, <2>2, <2>3, <2>6
  <1> QED
    BY <1>1, <1>2, <1>3

\* What is acceptable stays in what Best_Run_Size makes of a longer run, may
\* start a run, and is closed under -f.
LEMMA AcceptedKept ==
  ASSUME NEW p \in Nat, NEW size \in Nat \ {0}, BestRunSize(p, size) = size
  PROVE  /\ array[p] \in Starter
         /\ \A longer \in Nat : size <= longer => size <= BestRunSize(p, longer)
         /\ "f" \in option => Closed(p, size)
  <1>1. array[p] \in Starter
    BY DEF BestRunSize
  <1>2. CASE "f" \notin option
    <2>1. \A u \in Nat : BestRunSize(p, u) = WithoutTail(p, u)
      BY <1>1, <1>2 DEF BestRunSize
    <2>2. WithoutTail(p, size) = size
      BY <2>1
    <2>4. array[p + size - 1] \notin NonFinal
      BY <2>2, TailCut
    <2>3. ASSUME NEW longer \in Nat, size <= longer PROVE size <= WithoutTail(p, longer)
      <3>1. WithoutTail(p, longer) \in 0 .. longer
        BY TailCut
      <3>2. size \notin WithoutTail(p, longer) + 1 .. longer
        BY <2>4, TailCut
      <3> QED
        BY <2>3, <3>1, <3>2
    <2> QED
      BY <1>1, <1>2, <2>1, <2>3
  <1>3. CASE "f" \in option
    <2>1. \A u \in Nat : BestRunSize(p, u) = WithoutTail(p, Routine(p, u))
      BY <1>1, <1>3 DEF BestRunSize
    <2>2. PICK r \in 0 .. size : r = Routine(p, size) /\ Closed(p, r)
      BY RoutineLongest
    <2>3. WithoutTail(p, r) = size /\ WithoutTail(p, r) \in 0 .. r
      BY <2>1, <2>2, TailCut
    <2>4. Closed(p, size) /\ array[p + size - 1] \notin NonFinal
      <3>1. r = size
        BY <2>3
      <3> QED
        BY <2>2, <2>3, <3>1, TailCut
    <2>5. ASSUME NEW longer \in Nat, size <= longer
          PROVE  size <= WithoutTail(p, Routine(p, longer))
      <3> DEFINE r1 == Routine(p, longer)
      <3>1. r1 \in 0 .. longer
        BY RoutineLongest
      <3>2. size \notin r1 + 1 .. longer
        BY <2>4, RoutineLongest
      <3>3. size <= r1
        BY <2>5, <3>1, <3>2
      <3> HIDE DEF r1
      <3>5. r1 \in Nat
        BY <3>1
      <3>4. WithoutTail(p, r1) \in 0 .. r1
        BY <3>5, TailCut
      <3>6. \A t \in WithoutTail(p, r1) + 1 .. r1 : array[p + t - 1] \in NonFinal
        BY <3>5, TailCut
      <3> QED
        BY <2>4, <3>3, <3>4, <3>5, <3>6 DEF r1
    <2> QED
      BY <1>1, <2>1, <2>4, <2>5
  <1> QED
    BY <1>2, <1>3

-----------------------------------------------------------------------------
(* The invariant.                                                          *)

Linking == {"read", "hash1", "clean", "compare"}
Comparing == {"pair", "scan", "lcs", "done"}

\* What the sweeps leave to Compare_Files, which changes nothing of it.
Ready ==
  /\ array \in Seq(Token)
  /\ limits \in Seq(Nat)
  /\ texts \in Nat
  /\ new_texts \in 0 .. texts
  /\ Len(limits) = texts
  /\ \A m \in 1 .. Len(limits) : 1 <= limits[m] /\ limits[m] <= Len(array) + 1
  /\ \A m, k \in 1 .. Len(limits) : m <= k => limits[m] <= limits[k]
  /\ forward_reference \in [0 .. Len(array) -> {0} \cup Eligible]
  /\ \A p \in 0 .. Len(array) : First2(p, forward_reference[p])

\* The texts text new is compared with in one call of compare_one_text.
Texts1 == first .. upto - 1

\* How far Compare_Files and compare_one_text have got.
Place ==
  /\ new \in 0 .. new_texts /\ first \in Nat
  /\ phase = "pair" => /\ FirstFor(new) <= first
                       /\ "e" \in option \/ first = FirstFor(new) \/ texts <= first
  /\ phase = "done" => new = new_texts
  /\ phase \in {"scan", "lcs"} =>
       /\ new < new_texts
       /\ FirstFor(new) <= first /\ first < upto /\ upto \in 1 .. texts
       /\ IF "e" \in option THEN upto = first + 1
          ELSE first = FirstFor(new) /\ upto = texts
       /\ i0 \in Nat /\ Start(new) <= i0
  /\ phase = "lcs" => i0 + MinRun <= Limit(new)

\* A copy of a run at i0 that lcs is after.
Candidate(q, s, size) == Copy(i0, new, q, s, size) /\ Acceptable(i0, size)

\* lcs: i1 has followed the chain from i0; the best candidate is one, and any
\* better one is still to come.
Chain ==
  phase = "lcs" =>
    /\ i1 \in 0 .. Len(array)
    /\ i1 # 0 => i1 = i0 \/ (i0 \in Eligible /\ i1 \in Eligible /\ i0 < i1 /\ Same2(i0, i1))
    /\ best.size \in Nat /\ best.text \in Nat /\ best.at \in Nat
    /\ best.size # 0 => /\ best.text \in Texts1
                        /\ Candidate(best.at, best.text, best.size)
    /\ \A s \in Texts1, q, size \in 1 .. Len(array) :
         best.size < size /\ Candidate(q, s, size) => i1 # 0 /\ i1 <= q

\* A run that add_run was given: RunsReal and RunsLongest, of one run.
RunType == [text0 : Nat, at0 : Nat, text1 : Nat, at1 : Nat, size : Nat]
Real(r) == /\ r.text0 < new_texts
           /\ Start(r.text0) <= r.at0
           /\ Wanted(r.text0, r.text1)
           /\ Copy(r.at0, r.text0, r.at1, r.text1, r.size)
           /\ Acceptable(r.at0, r.size)
Longest(r) == ~ \E s \in Together(r.text1), size \in r.size + 1 .. Len(array) :
                  \E q \in r.at0 + 1 .. Len(array) :
                    /\ Wanted(r.text0, s)
                    /\ Copy(r.at0, r.text0, q, s, size)
                    /\ Acceptable(r.at0, size)

\* It was found before the place the comparison has got to.
Found(r) ==
  /\ r.text0 <= new
  /\ r.text0 = new =>
       /\ phase = "pair" => r.text1 < first
       /\ phase \in {"scan", "lcs"} => \/ r.text1 < first
                                       \/ r.text1 < upto /\ r.at0 + r.size <= i0

\* Of one text, runs found together do not overlap.
InOrder(l, r) == l.text0 = r.text0 /\ l.text1 \in Together(r.text1) => l.at0 + l.size <= r.at0

RunsOK == /\ runs \in Seq(RunType)
          /\ \A k \in 1 .. Len(runs) : Real(runs[k]) /\ Longest(runs[k]) /\ Found(runs[k])
          /\ \A k \in 1 .. Len(runs) : \A l \in 1 .. k - 1 : InOrder(runs[l], runs[k])

\* Position p of text m has been compared with text s.
Past(m, s, p) ==
  \/ m < new
  \/ m = new /\ s < first
  \/ m = new /\ phase \in {"scan", "lcs"} /\ s < upto /\ p < i0

\* NothingMissed, of one position and one text.
NoneAt(m, s, p) ==
  Wanted(m, s) /\ ~ Covered(p, s) =>
    \A q, size \in 1 .. Len(array) : ~ (Copy(p, m, q, s, size) /\ Acceptable(p, size))

NoneMissed ==
  \A m \in 0 .. new_texts - 1, s \in 0 .. texts - 1, p \in 1 .. Len(array) :
    Start(m) <= p /\ Past(m, s, p) => NoneAt(m, s, p)

CompareInv ==
  /\ option \in Options
  /\ phase \in Linking \cup Comparing
  /\ phase \in Linking => RefsInv /\ runs = <<>>
  /\ phase \in Comparing => Ready /\ Place /\ Chain /\ RunsOK /\ NoneMissed

-----------------------------------------------------------------------------
(* Texts, copies and chains.                                               *)

\* Texts follow each other.
LEMMA TextOrder ==
  ASSUME Ready
  PROVE  \A m \in 0 .. texts - 1 :
           /\ Start(m) \in Nat \ {0} /\ Limit(m) \in Nat
           /\ Start(m) <= Limit(m) /\ Limit(m) <= Len(array) + 1
           /\ \A k \in 0 .. texts - 1 : m < k => Limit(m) <= Start(k)
  <1> TAKE m \in 0 .. texts - 1
  <1>1. \A k \in 0 .. texts - 1 :
          /\ Limit(k) \in Nat /\ 1 <= Limit(k) /\ Limit(k) <= Len(array) + 1
          /\ \A l \in 0 .. texts - 1 : k <= l => Limit(k) <= Limit(l)
    BY DEF Ready, Limit
  <1>2. m # 0 => m - 1 \in 0 .. texts - 1 /\ Start(m) = Limit(m - 1)
    BY DEF Ready, Start
  <1>3. Start(m) \in Nat \ {0} /\ Start(m) <= Limit(m)
    BY <1>1, <1>2 DEF Start
  <1>4. ASSUME NEW k \in 0 .. texts - 1, m < k PROVE Limit(m) <= Start(k)
    <2>1. k - 1 \in 0 .. texts - 1 /\ m <= k - 1 /\ Start(k) = Limit(k - 1)
      BY <1>4 DEF Ready, Start
    <2> QED
      BY <1>1, <2>1
  <1> QED
    BY <1>1, <1>3, <1>4

\* TextOf finds the one text that holds a position between two texts' ends.
LEMMA TextFound ==
  ASSUME Ready, NEW p \in Nat, NEW low \in 0 .. texts - 1, NEW high \in 0 .. texts - 1,
         Start(low) <= p, p < Limit(high), low <= high
  PROVE  /\ TextOf(p) \in low .. high
         /\ Start(TextOf(p)) <= p /\ p < Limit(TextOf(p))
         /\ \A m \in 0 .. texts - 1 : Start(m) <= p /\ p < Limit(m) => m = TextOf(p)
  <1> DEFINE Holds(m) == Start(m) <= p /\ p < Limit(m)
             T == {m \in low .. high : p < Limit(m)}
  <1>1. \A m \in 0 .. texts - 1 :
          /\ Start(m) \in Nat \ {0} /\ Limit(m) \in Nat
          /\ \A k \in 0 .. texts - 1 : m < k => Limit(m) <= Start(k)
    BY TextOrder
  <1>2. texts \in Nat
    BY DEF Ready
  <1>3. T \subseteq Nat /\ high \in T
    BY <1>2
  <1>4. PICK m \in T : \A k \in T : m <= k
    BY <1>3, SmallestIn
  <1>5. m \in low .. high /\ p < Limit(m)
    BY <1>4
  <1>6. Start(m) <= p
    <2>1. CASE m # low
      <3>1. m - 1 \in low .. high /\ m - 1 \notin T
        BY <1>4, <1>5, <2>1
      <3>2. Limit(m - 1) <= p
        BY <1>1, <1>2, <3>1
      <3>3. Start(m) = Limit(m - 1)
        BY <1>5, <2>1 DEF Start
      <3> QED
        BY <3>2, <3>3
    <2> QED
      BY <2>1
  <1> HIDE DEF T
  <1>7. \A k, l \in 0 .. texts - 1 : Holds(k) /\ Holds(l) => k = l
    <2> SUFFICES ASSUME NEW k \in 0 .. texts - 1, NEW l \in 0 .. texts - 1,
                        Holds(k), Holds(l), k # l
                 PROVE  FALSE
      OBVIOUS
    <2>1. k < l \/ l < k
      BY <1>2
    <2> QED
      BY <1>1, <2>1
  <1>8. m \in 0 .. texts - 1 /\ Holds(m)
    BY <1>2, <1>5, <1>6
  <1>9. TextOf(p) \in 0 .. texts - 1 /\ Holds(TextOf(p))
    BY <1>8 DEF TextOf
  <1>10. TextOf(p) = m
    BY <1>7, <1>8, <1>9
  <1> QED
    BY <1>5, <1>7, <1>9, <1>10

\* Equal parts of the array are equal token by token.
LEMMA SamePart ==
  ASSUME Ready, NEW p \in Nat \ {0}, NEW q \in Nat \ {0}, NEW size \in Nat,
         p + size <= Len(array) + 1, q + size <= Len(array) + 1
  PROVE  SubSeq(array, p, p + size - 1) = SubSeq(array, q, q + size - 1)
           <=> \A k \in 0 .. size - 1 : array[p + k] = array[q + k]
  <1> DEFINE P == SubSeq(array, p, p + size - 1)
             Q == SubSeq(array, q, q + size - 1)
  <1>1. /\ P = [k \in 1 .. size |-> array[p + k - 1]]
        /\ Q = [k \in 1 .. size |-> array[q + k - 1]]
    OBVIOUS
  <1>2. ASSUME P = Q, NEW k \in 0 .. size - 1 PROVE array[p + k] = array[q + k]
    <2>1. P[k + 1] = Q[k + 1] /\ k + 1 \in 1 .. size
      BY <1>2
    <2>2. P[k + 1] = array[p + (k + 1) - 1] /\ Q[k + 1] = array[q + (k + 1) - 1]
      BY <1>1, <2>1
    <2>3. p + (k + 1) - 1 = p + k /\ q + (k + 1) - 1 = q + k
      OBVIOUS
    <2> QED
      BY <2>1, <2>2, <2>3
  <1>3. ASSUME \A k \in 0 .. size - 1 : array[p + k] = array[q + k] PROVE P = Q
    <2>1. \A k \in 1 .. size : array[p + k - 1] = array[q + k - 1]
      <3> TAKE k \in 1 .. size
      <3>1. k - 1 \in 0 .. size - 1 /\ p + (k - 1) = p + k - 1 /\ q + (k - 1) = q + k - 1
        OBVIOUS
      <3> QED
        BY <1>3, <3>1
    <2> QED
      BY <1>1, <2>1
  <1> QED
    BY <1>2, <1>3

\* Matches compares what Copy compares.
LEMMA MatchIsCopy ==
  ASSUME Ready, NEW p \in Nat \ {0}, NEW q \in Nat \ {0}, NEW size \in Nat,
         NEW m \in 0 .. texts - 1, Start(m) <= q, new \in 0 .. texts - 1
  PROVE  Matches(p, m, q, size) <=> Copy(p, new, q, m, size)
  <1>1. Limit(new) \in Nat /\ Limit(new) <= Len(array) + 1
    BY TextOrder
  <1>2. Limit(m) \in Nat /\ Limit(m) <= Len(array) + 1
    BY TextOrder
  <1>3. Len(array) \in Nat
    BY DEF Ready
  <1>4. CASE p + size <= Limit(new) /\ q + size <= Limit(m)
    <2>1. p + size <= Len(array) + 1 /\ q + size <= Len(array) + 1
      BY <1>1, <1>2, <1>3, <1>4
    <2>2. SubSeq(array, p, p + size - 1) = SubSeq(array, q, q + size - 1)
            <=> \A k \in 0 .. size - 1 : array[p + k] = array[q + k]
      BY <2>1, SamePart
    <2> QED
      BY <1>4, <2>2 DEF Matches, Copy
  <1>5. CASE ~ (p + size <= Limit(new) /\ q + size <= Limit(m))
    BY <1>5 DEF Matches, Copy
  <1> QED
    BY <1>4, <1>5

\* Part of a match is one.
LEMMA ShorterMatch ==
  ASSUME Ready, NEW p \in Nat \ {0}, NEW q \in Nat \ {0}, NEW size \in Nat,
         NEW m \in 0 .. texts - 1, new \in 0 .. texts - 1, NEW least \in 0 .. size,
         Matches(p, m, q, size)
  PROVE  Matches(p, m, q, least)
  <1>1. /\ p + size <= Limit(new) /\ q + size <= Limit(m) /\ p + size <= q
        /\ \A k \in 0 .. size - 1 : array[p + k] = array[q + k]
    BY DEF Matches
  <1>2. Limit(new) \in Nat /\ Limit(m) \in Nat
    BY TextOrder
  <1>3. p + least <= Limit(new) /\ q + least <= Limit(m) /\ p + least <= q
    BY <1>1, <1>2
  <1>4. \A k \in 0 .. least - 1 : k \in 0 .. size - 1
    OBVIOUS
  <1> QED
    BY <1>1, <1>3, <1>4 DEF Matches

\* What LongestMatch finds: 0 if even the shortest match that would do is none,
\* and otherwise a match no longer match is as long as.
LEMMA LongestFound ==
  ASSUME Ready, NEW p \in Nat \ {0}, NEW q \in Nat \ {0}, best.size \in Nat,
         NEW m \in 0 .. texts - 1, new \in 0 .. texts - 1
  PROVE  /\ LongestMatch(p, m, q) \in Nat
         /\ LongestMatch(p, m, q) # 0 => Matches(p, m, q, LongestMatch(p, m, q))
         /\ \A size \in 1 .. Len(array) :
              MinRun <= size /\ best.size < size /\ Matches(p, m, q, size)
                => size <= LongestMatch(p, m, q)
  <1> DEFINE least == IF best.size # 0 THEN best.size + 1 ELSE MinRun
             fitting == {s \in least .. Len(array) : Matches(p, m, q, s)}
             longest == LongestMatch(p, m, q)
  <1>0. Len(array) \in Nat /\ MinRun \in Nat \ {0}
    BY RefsAssumption DEF Ready
  <1>1. least \in Nat \ {0}
    BY <1>0
  <1>2. longest = IF least \in fitting THEN CHOOSE s \in fitting : \A t \in fitting : t <= s
                  ELSE 0
    BY DEF LongestMatch
  <1>3. ASSUME NEW size \in 1 .. Len(array), MinRun <= size, best.size < size,
               Matches(p, m, q, size)
        PROVE  size \in fitting /\ least \in fitting
    <2>1. least <= size
      BY <1>0, <1>3
    <2>2. least \in 1 .. Len(array)
      BY <1>0, <1>1, <2>1
    <2>3. Matches(p, m, q, least)
      BY <1>1, <1>3, <2>1, ShorterMatch
    <2> QED
      BY <1>0, <1>1, <1>3, <2>1, <2>2, <2>3
  <1>4. CASE least \in fitting
    <2>1. PICK s \in fitting : \A t \in fitting : t <= s
      <3>1. fitting \subseteq 0 .. Len(array) /\ fitting # {}
        BY <1>0, <1>1, <1>4
      <3> QED
        BY <1>0, <3>1, LargestUpTo
    <2>2. longest \in fitting /\ \A t \in fitting : t <= longest
      BY <1>2, <1>4, <2>1
    <2>3. longest \in Nat /\ Matches(p, m, q, longest)
      BY <1>0, <1>1, <2>2
    <2> HIDE DEF longest, fitting
    <2> QED
      BY <1>3, <2>2, <2>3 DEF longest
  <1>5. CASE least \notin fitting
    <2>1. longest = 0
      BY <1>2, <1>5
    <2> HIDE DEF fitting
    <2> QED
      BY <1>3, <1>5, <2>1
  <1> QED
    BY <1>4, <1>5

\* A run and its copy start at positions with the same codes, and the copy
\* behind the run.
LEMMA CopyLinked ==
  ASSUME Ready, NEW p \in Nat, NEW m \in 0 .. texts - 1, Start(m) <= p,
         NEW q \in Int, NEW s \in 0 .. texts - 1, NEW size \in 1 .. Len(array),
         Copy(p, m, q, s, size), Acceptable(p, size)
  PROVE  p \in Eligible /\ q \in Eligible /\ p < q /\ Same2(p, q)
  <1>0. Len(array) \in Nat /\ MinRun \in Nat \ {0} /\ MinRun <= size
    BY RefsAssumption DEF Ready, Acceptable
  <1>1. /\ Start(m) \in Nat \ {0} /\ Limit(m) \in Nat /\ Limit(m) <= Len(array) + 1
        /\ Start(s) \in Nat \ {0} /\ Limit(s) \in Nat /\ Limit(s) <= Len(array) + 1
    BY TextOrder
  <1>2. /\ Start(s) <= q /\ q + size <= Limit(s) /\ p + size <= Limit(m) /\ p + size <= q
        /\ SubSeq(array, p, p + size - 1) = SubSeq(array, q, q + size - 1)
    BY DEF Copy
  <1>3. /\ p \in Nat \ {0} /\ q \in Nat \ {0} /\ p < q
        /\ p + size <= Len(array) + 1 /\ q + size <= Len(array) + 1
    BY <1>0, <1>1, <1>2
  <1>4. \A k \in 0 .. size - 1 : array[p + k] = array[q + k]
    BY <1>2, <1>3, SamePart
  <1>5. array[p] \in Starter /\ array[q] \in Starter
    <2>1. BestRunSize(p, size) = size /\ size \in Nat \ {0}
      BY <1>0 DEF Acceptable
    <2>2. array[p] \in Starter
      BY <1>3, <2>1, AcceptedKept
    <2>3. 0 \in 0 .. size - 1
      BY <1>0
    <2>4. array[p + 0] = array[q + 0]
      BY <1>4, <2>3
    <2> QED
      BY <1>3, <2>2, <2>4
  <1>6. p \in Eligible /\ q \in Eligible
    <2>1. p \in 1 .. Len(array) /\ q \in 1 .. Len(array)
      BY <1>0, <1>3
    <2>2. p + MinRun <= Limit(m) /\ q + MinRun <= Limit(s)
      BY <1>0, <1>1, <1>2, <1>3
    <2> QED
      BY <1>2, <1>5, <2>1, <2>2 DEF Eligible
  <1>7. Same2(p, q)
    <2>1. \A k \in 1 .. MinRun : array[p + k - 1] = array[q + k - 1]
      <3> TAKE k \in 1 .. MinRun
      <3>1. k - 1 \in 0 .. size - 1 /\ p + (k - 1) = p + k - 1 /\ q + (k - 1) = q + k - 1
        BY <1>0, <1>3
      <3> QED
        BY <1>4, <3>1
    <2>2. RunAt(p) = RunAt(q)
      BY <2>1 DEF RunAt
    <2> QED
      BY <2>2 DEF Same2, Same1, Hash1, Hash2
  <1> QED
    BY <1>3, <1>6, <1>7

\* Nothing of this changes while texts, references and options stay.
LEMMA SameBounds ==
  ASSUME UNCHANGED <<textVars, option>>
  PROVE  /\ \A m : Start(m)' = Start(m) /\ Limit(m)' = Limit(m) /\ FirstFor(m)' = FirstFor(m)
         /\ \A m, s : Wanted(m, s)' <=> Wanted(m, s)
         /\ \A s : Together(s)' = Together(s)
  BY DEF textVars, Start, Limit, FirstFor, Wanted, Together

\* ... and so do copies and what makes them runs, ...
LEMMA SameCopies ==
  ASSUME UNCHANGED <<textVars, option>>
  PROVE  /\ \A p, m, q, s, size : Copy(p, m, q, s, size)' <=> Copy(p, m, q, s, size)
         /\ \A p, size : BestRunSize(p, size)' = BestRunSize(p, size)
         /\ \A p, size : Acceptable(p, size)' <=> Acceptable(p, size)
  BY DEF textVars, Copy, Start, Limit, Acceptable, BestRunSize, Routine, WithoutTail, Balance,
         Closers, CountOf

\* ... what is said of each run, ...
LEMMA SameRuns ==
  ASSUME UNCHANGED <<textVars, option>>
  PROVE  \A r : (Real(r)' <=> Real(r)) /\ (Longest(r)' <=> Longest(r))
  BY SameBounds, SameCopies DEF textVars, Real, Longest

\* ... and the texts and references.
LEMMA SameReady ==
  ASSUME UNCHANGED <<textVars, refVars>>, Ready
  PROVE  Ready'
  <1> USE DEF textVars, refVars
  <1>1. Eligible' = Eligible
    BY DEF Eligible, Start, Limit
  <1>2. \A p, q : Same2(p, q)' <=> Same2(p, q)
    BY DEF Same2, Same1, Hash1, Hash2, RunAt
  <1>3. \A p, q : First2(p, q)' <=> First2(p, q)
    BY <1>1, <1>2 DEF First2
  <1> QED
    BY <1>1, <1>3 DEF Ready

-----------------------------------------------------------------------------
(* What steps keep.                                                        *)

\* The runs there are, if they were found before the new place as well.
LEMMA RunsKept ==
  ASSUME UNCHANGED <<textVars, option, runs>>, RunsOK,
         \A r \in RunType : Real(r) /\ Found(r) => Found(r)'
  PROVE  RunsOK'
  <1>1. \A r : (Real(r)' <=> Real(r)) /\ (Longest(r)' <=> Longest(r))
    BY SameRuns
  <1>2. \A l, r : InOrder(l, r)' <=> InOrder(l, r)
    BY SameBounds DEF InOrder
  <1> QED
    BY <1>1, <1>2 DEF RunsOK

\* What is said of one position, if runs are only added.
LEMMA NoneSame ==
  ASSUME UNCHANGED <<textVars, option>>, \A p, s : Covered(p, s) => Covered(p, s)'
  PROVE  \A m, s, p : NoneAt(m, s, p) => NoneAt(m, s, p)'
  BY SameBounds, SameCopies DEF NoneAt, textVars

\* What is said of positions passed, if it is true of those the step passes.
LEMMA NoneKept ==
  ASSUME UNCHANGED <<textVars, option>>, NoneMissed,
         \A p, s : Covered(p, s) => Covered(p, s)',
         \A m \in 0 .. new_texts - 1, s \in 0 .. texts - 1, p \in 1 .. Len(array) :
           Start(m) <= p /\ Past(m, s, p)' => Past(m, s, p) \/ NoneAt(m, s, p)'
  PROVE  NoneMissed'
  <1>1. \A m, s, p : NoneAt(m, s, p) => NoneAt(m, s, p)'
    BY NoneSame
  <1> QED
    BY <1>1, SameBounds DEF NoneMissed, textVars

\* A run that covers a position goes on to.
LEMMA CoveredKept ==
  ASSUME UNCHANGED <<textVars, option>>, runs \in Seq(RunType),
         runs' = runs \/ \E r \in RunType : runs' = Append(runs, r)
  PROVE  \A p, s : Covered(p, s) => Covered(p, s)'
  <1>1. \A k \in DOMAIN runs : k \in DOMAIN runs' /\ runs'[k] = runs[k]
    OBVIOUS
  <1> QED
    BY <1>1, SameBounds DEF Covered

\* Texts a text is not compared with are of no interest.
LEMMA NotWanted ==
  ASSUME Ready, NEW m \in Nat, NEW s \in Nat, s < FirstFor(m), FirstFor(m) \in Nat
  PROVE  \A p : NoneAt(m, s, p)
  BY DEF NoneAt, Wanted

\* The first text to compare with is a number.
LEMMA FirstNat ==
  ASSUME Ready, NEW m \in Nat
  PROVE  FirstFor(m) \in Nat
  BY DEF FirstFor, Ready

-----------------------------------------------------------------------------
(* lcs.                                                                    *)

\* Along the chain: the next candidate is one, ...
LEMMA ChainOn ==
  ASSUME Ready, Chain, phase = "lcs", i1 # 0
  PROVE  /\ forward_reference[i1] \in 0 .. Len(array)
         /\ forward_reference[i1] # 0 =>
              /\ i0 \in Eligible /\ forward_reference[i1] \in Eligible
              /\ i0 < forward_reference[i1] /\ Same2(i0, forward_reference[i1])
  <1>1. /\ i1 \in 0 .. Len(array)
        /\ i1 = i0 \/ (i0 \in Eligible /\ i1 \in Eligible /\ i0 < i1 /\ Same2(i0, i1))
    BY DEF Chain
  <1>2. PICK f \in {0} \cup Eligible : f = forward_reference[i1]
    BY <1>1 DEF Ready
  <1>3. First2(i1, f)
    BY <1>1, <1>2 DEF Ready
  <1>4. f \in 0 .. Len(array) /\ Eligible \subseteq Nat /\ Len(array) \in Nat
    BY <1>2 DEF Eligible, Ready
  <1>5. CASE f # 0
    <2>1. i1 \in Eligible /\ f \in Eligible /\ i1 < f /\ Same2(i1, f)
      BY <1>3, <1>5 DEF First2
    <2>2. i0 \in Eligible /\ i0 < f
      <3>1. CASE i1 = i0
        BY <2>1, <3>1
      <3>2. CASE i1 # i0
        <4>1. i0 \in Eligible /\ i0 < i1
          BY <1>1, <3>2
        <4>2. i0 \in Nat /\ i1 \in Nat /\ f \in Nat
          BY <1>4, <2>1, <4>1
        <4> QED
          BY <2>1, <4>1, <4>2
      <3> QED
        BY <3>1, <3>2
    <2>3. Same2(i0, f)
      BY <1>1, <2>1 DEF Same2, Same1
    <2> QED
      BY <1>2, <1>4, <2>1, <2>2, <2>3
  <1> QED
    BY <1>2, <1>4, <1>5

\* ... and no copy behind the candidate is passed over.
LEMMA ChainNext ==
  ASSUME Ready, Place, Chain, phase = "lcs", i1 # 0,
         NEW s \in Texts1, NEW q \in 1 .. Len(array), NEW size \in 1 .. Len(array),
         Candidate(q, s, size), i1 < q
  PROVE  forward_reference[i1] # 0 /\ forward_reference[i1] <= q
  <1>1. /\ i1 \in 0 .. Len(array)
        /\ i1 = i0 \/ (i0 \in Eligible /\ i1 \in Eligible /\ i0 < i1 /\ Same2(i0, i1))
    BY DEF Chain
  <1>2. /\ new \in 0 .. texts - 1 /\ Start(new) <= i0 /\ i0 \in Nat /\ s \in 0 .. texts - 1
    BY DEF Place, Ready, Texts1
  <1>3. i0 \in Eligible /\ q \in Eligible /\ Same2(i0, q)
    BY <1>2, CopyLinked DEF Candidate
  <1>4. i1 \in Eligible /\ Same2(i1, q)
    BY <1>1, <1>3 DEF Same2, Same1
  <1>5. First2(i1, forward_reference[i1])
    BY <1>1 DEF Ready
  <1> QED
    BY <1>3, <1>4, <1>5 DEF First2

\* What Chain asks of the candidate c that is next, and the best one b.
ChainAt(c, b) ==
  /\ c \in 0 .. Len(array)
  /\ c # 0 => c = i0 \/ (i0 \in Eligible /\ c \in Eligible /\ i0 < c /\ Same2(i0, c))
  /\ b.size \in Nat /\ b.text \in Nat /\ b.at \in Nat
  /\ b.size # 0 => b.text \in Texts1 /\ Candidate(b.at, b.text, b.size)
  /\ \A s \in Texts1, q, size \in 1 .. Len(array) :
       b.size < size /\ Candidate(q, s, size) => c # 0 /\ c <= q

\* A step inside lcs need only look after the next candidate and the best.
LEMMA ChainStep ==
  ASSUME UNCHANGED <<textVars, refVars, option, new, first, upto, i0>>, ChainAt(i1', best')
  PROVE  Chain'
  <1> USE DEF textVars, refVars
  <1>1. Eligible' = Eligible /\ Texts1' = Texts1
    BY DEF Eligible, Start, Limit, Texts1
  <1>2. \A p, q : Same2(p, q)' <=> Same2(p, q)
    BY DEF Same2, Same1, Hash1, Hash2, RunAt
  <1>3. \A q, s, size : Candidate(q, s, size)' <=> Candidate(q, s, size)
    BY SameCopies DEF Candidate
  <1> QED
    BY <1>1, <1>2, <1>3 DEF Chain, ChainAt

\* A candidate before the first text is passed by.
LEMMA SkipStep ==
  ASSUME CompareInv, SkipCandidate
  PROVE  Chain'
  <1> USE DEF SkipCandidate
  <1>1. Ready /\ Place /\ Chain /\ phase = "lcs" /\ i1 # 0
    BY DEF CompareInv, Comparing, InRange
  <1>2. UNCHANGED <<textVars, refVars, option, new, first, upto, i0, best>>
    BY DEF pairVars
  <1>3. /\ i1' \in 0 .. Len(array)
        /\ i1' # 0 => i0 \in Eligible /\ i1' \in Eligible /\ i0 < i1' /\ Same2(i0, i1')
    BY <1>1, ChainOn
  <1>4. ASSUME NEW s \in Texts1, NEW q \in 1 .. Len(array), NEW size \in 1 .. Len(array),
               best.size < size, Candidate(q, s, size)
        PROVE  i1' # 0 /\ i1' <= q
    <2>1. first \in 0 .. texts - 1 /\ s \in 0 .. texts - 1 /\ first <= s /\ texts \in Nat
      BY <1>1 DEF Place, Texts1, Ready
    <2>2. /\ Start(first) \in Nat /\ Start(s) \in Nat /\ Limit(first) \in Nat
          /\ Start(first) <= Limit(first)
          /\ first < s => Limit(first) <= Start(s)
      BY <1>1, <2>1, TextOrder
    <2>3. Start(first) <= Start(s)
      BY <2>1, <2>2
    <2>4. Start(s) <= q
      BY <1>4 DEF Candidate, Copy
    <2>5. i1 < q
      BY <1>1, <2>2, <2>3, <2>4 DEF Chain
    <2> QED
      BY <1>1, <1>4, <2>5, ChainNext
  <1>5. ChainAt(i1', best')
    BY <1>1, <1>2, <1>3, <1>4 DEF ChainAt, Chain
  <1> QED
    BY <1>2, <1>5, ChainStep

\* A better candidate becomes the best one.
LEMMA TryStep ==
  ASSUME CompareInv, TryCandidate
  PROVE  Chain'
  <1> DEFINE c == i1
             longest == LongestMatch(i0, txt1', i1)
             found == IF longest = 0 THEN 0 ELSE BestRunSize(i0, longest)
  <1>1. Ready /\ Place /\ Chain /\ phase = "lcs" /\ i1 # 0 /\ i1 < Limit(upto - 1)
        /\ i1 >= Start(first)
    BY DEF CompareInv, Comparing, InRange, TryCandidate
  <1>2. UNCHANGED <<textVars, refVars, option, new, first, upto, i0>>
    BY DEF TryCandidate, pairVars
  <1>3. /\ i1' = forward_reference[i1] /\ txt1' = TextOf(i1)
        /\ best' = IF found >= MinRun /\ found > best.size
                     THEN [size |-> found, text |-> txt1', at |-> i1] ELSE best
    BY DEF TryCandidate
  <1>4. /\ i1' \in 0 .. Len(array)
        /\ i1' # 0 => i0 \in Eligible /\ i1' \in Eligible /\ i0 < i1' /\ Same2(i0, i1')
    BY <1>1, <1>3, ChainOn
  <1>5. /\ first \in 0 .. texts - 1 /\ upto - 1 \in 0 .. texts - 1 /\ first <= upto - 1
        /\ new \in 0 .. texts - 1 /\ i0 \in Nat \ {0} /\ i1 \in Nat \ {0}
        /\ texts \in Nat
    <2>1. Start(new) \in Nat \ {0}
      BY <1>1, TextOrder DEF Place, Ready
    <2> QED
      BY <1>1, <2>1 DEF Place, Ready, Chain
  <1>6. /\ txt1' \in first .. upto - 1
        /\ Start(txt1') <= i1
        /\ \A m \in 0 .. texts - 1 : Start(m) <= i1 /\ i1 < Limit(m) => m = txt1'
    BY <1>1, <1>3, <1>5, TextFound
  <1>7. txt1' \in 0 .. texts - 1
    BY <1>5, <1>6
  <1>8. best.size \in Nat /\ best.text \in Nat /\ best.at \in Nat
    BY <1>1 DEF Chain
  <1>9. /\ longest \in Nat
        /\ longest # 0 => Matches(i0, txt1', i1, longest)
        /\ \A size \in 1 .. Len(array) :
             MinRun <= size /\ best.size < size /\ Matches(i0, txt1', i1, size) => size <= longest
    BY <1>1, <1>5, <1>7, <1>8, LongestFound
  <1>10. \A size \in Nat : Matches(i0, txt1', i1, size) <=> Copy(i0, new, i1, txt1', size)
    BY <1>1, <1>5, <1>6, <1>7, MatchIsCopy
  <1> HIDE DEF longest
  <1>11. found \in Nat /\ found <= longest /\ (found # 0 => BestRunSize(i0, found) = found)
    BY <1>5, <1>9, BestAccepted
  <1> HIDE DEF found
  <1>12. ASSUME found >= MinRun PROVE Candidate(i1, txt1', found)
    <2>1. found \in Nat \ {0} /\ found <= longest /\ longest # 0
      BY <1>9, <1>11, <1>12, RefsAssumption
    <2>2. Copy(i0, new, i1, txt1', longest)
      BY <1>9, <1>10, <2>1
    <2>3. Matches(i0, txt1', i1, found)
      <3>1. found \in 0 .. longest /\ Matches(i0, txt1', i1, longest)
        BY <1>9, <2>1
      <3> QED
        BY <1>1, <1>5, <1>7, <1>9, <3>1, ShorterMatch
    <2>4. Copy(i0, new, i1, txt1', found)
      BY <1>10, <2>1, <2>3
    <2> QED
      BY <1>11, <1>12, <2>1, <2>4 DEF Candidate, Acceptable
  <1>13. /\ best'.size \in Nat /\ best'.text \in Nat /\ best'.at \in Nat
         /\ best.size <= best'.size
         /\ found >= MinRun => found <= best'.size
         /\ best'.size # 0 => best'.text \in Texts1 /\ Candidate(best'.at, best'.text, best'.size)
    <2>1. CASE found >= MinRun /\ found > best.size
      <3>1. best'.size = found /\ best'.text = txt1' /\ best'.at = i1
        BY <1>3, <2>1
      <3>2. txt1' \in Nat
        BY <1>7
      <3> QED
        BY <1>5, <1>6, <1>8, <1>11, <1>12, <2>1, <3>1, <3>2 DEF Texts1
    <2>2. CASE ~ (found >= MinRun /\ found > best.size)
      <3>1. best' = best
        BY <1>3, <2>2
      <3> QED
        BY <1>1, <1>8, <1>11, <2>2, <3>1, RefsAssumption DEF Chain
    <2> QED
      BY <2>1, <2>2
  <1>14. ASSUME NEW s \in Texts1, NEW q \in 1 .. Len(array), NEW size \in 1 .. Len(array),
                best'.size < size, Candidate(q, s, size)
         PROVE  i1' # 0 /\ i1' <= q
    <2>1. best.size < size
      BY <1>8, <1>13, <1>14
    <2>2. i1 <= q
      BY <1>1, <1>14, <2>1 DEF Chain
    <2>3. CASE i1 # q
      <3>1. i1 < q
        BY <1>5, <2>2, <2>3
      <3> QED
        BY <1>1, <1>3, <1>14, <3>1, ChainNext
    <2>4. CASE i1 = q
      <3>1. Copy(i0, new, i1, s, size) /\ BestRunSize(i0, size) = size /\ MinRun <= size
        BY <1>14, <2>4 DEF Candidate, Acceptable
      <3>2. s \in 0 .. texts - 1 /\ Start(s) <= i1 /\ i1 + size <= Limit(s) /\ Limit(s) \in Nat
        <4>1. s \in 0 .. texts - 1
          BY <1>5 DEF Texts1
        <4>2. Limit(s) \in Nat
          BY <1>1, <4>1, TextOrder
        <4>3. Start(s) <= i1 /\ i1 + size <= Limit(s)
          BY <3>1 DEF Copy
        <4> QED
          BY <4>1, <4>2, <4>3
      <3>3. s = txt1'
        BY <1>5, <1>6, <3>2
      <3>4. Matches(i0, txt1', i1, size)
        BY <1>10, <3>1, <3>3
      <3>5. size <= longest
        BY <1>9, <2>1, <3>1, <3>4
      <3>6. size <= BestRunSize(i0, longest) /\ longest # 0
        BY <1>5, <1>9, <3>1, <3>5, AcceptedKept
      <3>7. size <= found
        BY <3>6 DEF found
      <3>8. found <= best'.size
        BY <1>11, <1>13, <3>1, <3>7, RefsAssumption
      <3> QED
        BY <1>11, <1>13, <1>14, <3>7, <3>8
    <2> QED
      BY <2>3, <2>4
  <1>15. ChainAt(i1', best')
    BY <1>4, <1>13, <1>14 DEF ChainAt
  <1> QED
    BY <1>2, <1>15, ChainStep

-----------------------------------------------------------------------------
(* Every step.                                                             *)

\* Steps that take nothing from texts, references and options.
Quietly == /\ phase \in Comparing /\ phase' \in Comparing
           /\ UNCHANGED <<textVars, refVars, option>>

\* ... and enter no run: Compare_Files' place, what was found before it, and
\* what it passes are all there is to show.
LEMMA QuietStep ==
  ASSUME CompareInv, Quietly, UNCHANGED runs, Place', Chain',
         \A r \in RunType : Real(r) /\ Found(r) => Found(r)',
         \A m \in 0 .. new_texts - 1, s \in 0 .. texts - 1, p \in 1 .. Len(array) :
           Start(m) <= p /\ Past(m, s, p)' => Past(m, s, p) \/ NoneAt(m, s, p)'
  PROVE  CompareInv'
  <1>1. option \in Options /\ Ready /\ RunsOK /\ NoneMissed
    BY DEF CompareInv, Quietly
  <1>2. option' \in Options /\ Ready'
    BY <1>1, SameReady DEF Quietly
  <1>3. RunsOK'
    BY <1>1, RunsKept DEF Quietly
  <1>4. \A p, s : Covered(p, s) => Covered(p, s)'
    BY <1>1, CoveredKept DEF Quietly, RunsOK
  <1>5. NoneMissed'
    BY <1>1, <1>4, NoneKept DEF Quietly
  <1>6. phase' \notin Linking
    BY DEF Quietly, Linking, Comparing
  <1> QED
    BY <1>2, <1>3, <1>5, <1>6 DEF CompareInv, Quietly

\* The sweeps are over.
LEMMA StartCompareStep ==
  ASSUME CompareInv, StartCompare
  PROVE  CompareInv'
  <1> USE DEF StartCompare
  <1>1. phase = "compare" /\ phase' = "pair" /\ RefsInv /\ runs = <<>> /\ option \in Options
    BY DEF CompareInv, Linking
  <1>2. Ready
    BY <1>1 DEF RefsInv, TextsOK, TablesOK, ResultOK, Ready
  <1>3. Ready' /\ UNCHANGED <<textVars, option>> /\ runs' = <<>>
    BY <1>1, <1>2, SameReady
  <1>4. new' = 0 /\ first' = FirstFor(0) /\ FirstFor(0)' = FirstFor(0) /\ FirstFor(0) \in Nat
    BY <1>2, <1>3, SameBounds, FirstNat
  <1>5. Place'
    BY <1>1, <1>2, <1>3, <1>4 DEF Place, Ready, textVars
  <1>6. Chain' /\ RunsOK'
    BY <1>1, <1>3 DEF Chain, RunsOK
  <1>7. NoneMissed'
    <2> SUFFICES ASSUME NEW m \in (0 .. new_texts - 1)', NEW s \in (0 .. texts - 1)',
                        NEW p \in (1 .. Len(array))', Start(m)' <= p, Past(m, s, p)'
                 PROVE  NoneAt(m, s, p)'
      BY DEF NoneMissed
    <2>1. new_texts' \in Nat /\ texts' \in Nat
      BY <1>3 DEF Ready
    <2>2. m = 0 /\ s < FirstFor(0)
      BY <1>1, <1>4, <2>1 DEF Past
    <2>3. ~ Wanted(m, s)'
      BY <1>4, <2>1, <2>2 DEF Wanted
    <2> QED
      BY <2>3 DEF NoneAt
  <1> QED
    BY <1>1, <1>3, <1>5, <1>6, <1>7 DEF CompareInv, Linking, Comparing

\* Compare_Files.
LEMMA PairStep ==
  ASSUME CompareInv, ComparePair \/ CompareNext \/ CompareDone
  PROVE  CompareInv'
  <1>0. phase = "pair" /\ Ready /\ Place /\ RunsOK
    BY DEF CompareInv, ComparePair, CompareNext, CompareDone, Comparing
  <1>1. /\ new \in 0 .. new_texts /\ new_texts \in Nat /\ texts \in Nat /\ first \in Nat
        /\ FirstFor(new) <= first /\ FirstFor(new) \in Nat /\ new_texts <= texts
        /\ "e" \in option \/ first = FirstFor(new) \/ texts <= first
    BY <1>0, FirstNat DEF Place, Ready
  <1>2. CASE ComparePair
    <2> USE <1>2 DEF ComparePair
    <2>1. /\ new < new_texts /\ first < texts /\ phase' = "scan" /\ i0' = Start(new)
          /\ upto' = IF "e" \in option THEN first + 1 ELSE texts
          /\ UNCHANGED <<textVars, refVars, option, new, first, runs>>
      OBVIOUS
    <2>2. Quietly
      BY <1>0, <2>1 DEF Quietly, Comparing
    <2>3. Start(new) \in Nat
      BY <1>0, <1>1, <2>1, TextOrder
    <2>4. Start(new)' = Start(new) /\ FirstFor(new)' = FirstFor(new)
      BY <2>1 DEF Start, Limit, FirstFor, textVars
    <2>5. Place'
      BY <1>1, <2>1, <2>3, <2>4 DEF Place, textVars
    <2>6. Chain'
      BY <2>1 DEF Chain
    <2>7. \A r \in RunType : Real(r) /\ Found(r) => Found(r)'
      BY <1>0, <2>1 DEF Found
    <2>8. ASSUME NEW m \in 0 .. new_texts - 1, NEW s \in 0 .. texts - 1, NEW p \in 1 .. Len(array),
                 Start(m) <= p, Past(m, s, p)'
          PROVE  Past(m, s, p)
      <3>1. m = new => ~ (p < i0')
        BY <2>1, <2>3, <2>8
      <3> QED
        BY <2>1, <2>8, <3>1 DEF Past
    <2> QED
      BY <2>1, <2>2, <2>5, <2>6, <2>7, <2>8, QuietStep
  <1>3. CASE CompareNext
    <2> USE <1>3 DEF CompareNext
    <2>1. /\ new < new_texts /\ first >= texts /\ phase' = "pair"
          /\ new' = new + 1 /\ first' = FirstFor(new + 1)
          /\ UNCHANGED <<textVars, refVars, option, runs>>
      OBVIOUS
    <2>2. Quietly
      BY <1>0, <2>1 DEF Quietly, Comparing
    <2>3. FirstFor(new)' = FirstFor(new + 1) /\ FirstFor(new + 1) \in Nat
      <3>1. FirstFor(new)' = FirstFor(new + 1)
        BY <2>1 DEF FirstFor, textVars
      <3> QED
        BY <1>0, <1>1, <3>1, FirstNat
    <2>4. Place'
      BY <1>1, <2>1, <2>3 DEF Place, textVars
    <2>5. Chain'
      BY <2>1 DEF Chain
    <2>6. \A r \in RunType : Real(r) /\ Found(r) => Found(r)'
      <3> TAKE r \in RunType
      <3>1. r.text0 \in Nat
        BY DEF RunType
      <3> QED
        BY <1>1, <2>1, <3>1 DEF Found
    <2>7. ASSUME NEW m \in 0 .. new_texts - 1, NEW s \in 0 .. texts - 1, NEW p \in 1 .. Len(array),
                 Past(m, s, p)'
          PROVE  Past(m, s, p) \/ NoneAt(m, s, p)'
      <3>1. m < new + 1 \/ (m = new + 1 /\ s < FirstFor(new + 1))
        BY <2>1, <2>7 DEF Past
      <3>2. CASE m < new + 1
        BY <1>1, <2>1, <3>2 DEF Past
      <3>3. CASE m = new + 1 /\ s < FirstFor(new + 1)
        <4>1. ~ Wanted(m, s)
          BY <1>1, <2>3, <3>3 DEF Wanted
        <4> QED
          BY <2>1, <4>1, SameBounds DEF NoneAt
      <3> QED
        BY <3>1, <3>2, <3>3
    <2> QED
      BY <2>1, <2>2, <2>4, <2>5, <2>6, <2>7, QuietStep
  <1>4. CASE CompareDone
    <2> USE <1>4 DEF CompareDone
    <2>1. /\ new = new_texts /\ phase' = "done"
          /\ UNCHANGED <<textVars, refVars, option, new, first, upto, i0, runs>>
      BY DEF cmpVars, pairVars, scanVars
    <2>2. Quietly
      BY <1>0, <2>1 DEF Quietly, Comparing
    <2>3. Place' /\ Chain'
      BY <1>1, <2>1 DEF Place, Chain, textVars
    <2>4. \A r \in RunType : Real(r) /\ Found(r) => Found(r)'
      BY <2>1 DEF Found
    <2>5. \A m, s, p : Past(m, s, p)' => Past(m, s, p)
      BY <2>1 DEF Past
    <2> QED
      BY <2>1, <2>2, <2>3, <2>4, <2>5, QuietStep
  <1> QED
    BY <1>2, <1>3, <1>4

\* Where a comparison of texts is.
LEMMA PlaceIn ==
  ASSUME CompareInv, phase \in {"scan", "lcs"}
  PROVE  /\ Ready /\ Place /\ RunsOK /\ NoneMissed
         /\ new \in 0 .. texts - 1 /\ new < new_texts /\ new_texts \in Nat /\ texts \in Nat
         /\ first \in 0 .. texts - 1 /\ upto \in 1 .. texts /\ first < upto
         /\ FirstFor(new) \in Nat /\ FirstFor(new) <= first
         /\ i0 \in Nat /\ Start(new) <= i0
         /\ Limit(new) \in Nat /\ Limit(new) <= Len(array) + 1
         /\ MinRun \in Nat \ {0} /\ Len(array) \in Nat
  <1>1. Ready /\ Place /\ RunsOK /\ NoneMissed
    BY DEF CompareInv, Comparing
  <1>2. /\ new \in 0 .. texts - 1 /\ new < new_texts /\ new_texts \in Nat /\ texts \in Nat
        /\ first \in 0 .. texts - 1 /\ upto \in 1 .. texts /\ first < upto
        /\ FirstFor(new) <= first
        /\ i0 \in Nat /\ Start(new) <= i0
        /\ Len(array) \in Nat
    BY <1>1 DEF Place, Ready
  <1>3. FirstFor(new) \in Nat
    BY <1>1, <1>2, FirstNat
  <1>4. Limit(new) \in Nat /\ Limit(new) <= Len(array) + 1
    BY <1>1, <1>2, TextOrder
  <1> QED
    BY <1>1, <1>2, <1>3, <1>4, RefsAssumption

\* The loop of compare_one_text.
LEMMA ScanStep ==
  ASSUME CompareInv, ScanPosition \/ ScanDone
  PROVE  CompareInv'
  <1>0. phase = "scan" /\ phase \in {"scan", "lcs"}
    BY DEF ScanPosition, ScanDone
  <1>1. CASE ScanPosition
    <2>1. /\ i0 + MinRun <= Limit(new) /\ phase' = "lcs" /\ i1' = i0 /\ best' = None
          /\ UNCHANGED <<textVars, refVars, option, new, first, upto, i0, runs>>
      BY <1>1 DEF ScanPosition, pairVars
    <2>2. Quietly
      BY <1>0, <2>1 DEF Quietly, Comparing
    <2>3. /\ Start(new)' = Start(new) /\ Limit(new)' = Limit(new) /\ FirstFor(new)' = FirstFor(new)
          /\ new_texts' = new_texts /\ texts' = texts
      BY <2>1 DEF Start, Limit, FirstFor, textVars
    <2>4. Place'
      BY <1>0, <2>1, <2>3, PlaceIn DEF Place
    <2>5. ChainAt(i0, None)
      <3>1. i0 \in 0 .. Len(array)
        BY <1>0, <2>1, PlaceIn
      <3>2. ASSUME NEW s, NEW q \in 1 .. Len(array), NEW size \in 1 .. Len(array),
                   Candidate(q, s, size)
            PROVE  i0 # 0 /\ i0 <= q
        <4>1. i0 + size <= q
          BY <3>2 DEF Candidate, Copy
        <4>2. Start(new) \in Nat \ {0}
          BY <1>0, PlaceIn, TextOrder
        <4> QED
          BY <1>0, <4>1, <4>2, PlaceIn
      <3> QED
        BY <3>1, <3>2 DEF ChainAt, None
    <2>6. Chain'
      BY <2>1, <2>5, ChainStep
    <2>7. \A r \in RunType : Real(r) /\ Found(r) => Found(r)'
      BY <1>0, <2>1 DEF Found
    <2>8. \A m, s, p : Past(m, s, p)' => Past(m, s, p)
      BY <1>0, <2>1 DEF Past
    <2> QED
      BY <2>1, <2>2, <2>4, <2>6, <2>7, <2>8, QuietStep
  <1>2. CASE ScanDone
    <2>1. /\ i0 + MinRun > Limit(new) /\ first' = upto /\ phase' = "pair"
          /\ UNCHANGED <<textVars, refVars, option, new, upto, i0, runs>>
      BY <1>2 DEF ScanDone, scanVars
    <2>2. Quietly
      BY <1>0, <2>1 DEF Quietly, Comparing
    <2>3. FirstFor(new)' = FirstFor(new) /\ new_texts' = new_texts /\ texts' = texts
      BY <2>1 DEF FirstFor, textVars
    <2>4. "e" \in option \/ upto = texts
      BY <1>0, PlaceIn DEF Place
    <2>5. Place'
      BY <1>0, <2>1, <2>3, <2>4, PlaceIn DEF Place
    <2>6. Chain'
      BY <2>1 DEF Chain
    <2>7. \A r \in RunType : Real(r) /\ Found(r) => Found(r)'
      <3> TAKE r \in RunType
      <3>1. r.text1 \in Nat
        BY DEF RunType
      <3> QED
        BY <1>0, <2>1, <3>1, PlaceIn DEF Found
    <2>8. ASSUME NEW m \in 0 .. new_texts - 1, NEW s \in 0 .. texts - 1, NEW p \in 1 .. Len(array),
                 Start(m) <= p, Past(m, s, p)'
          PROVE  Past(m, s, p) \/ NoneAt(m, s, p)'
      <3>1. m < new \/ (m = new /\ s < upto)
        BY <2>1, <2>8 DEF Past
      <3>2. CASE m < new \/ p < i0
        BY <1>0, <3>1, <3>2 DEF Past
      <3>3. CASE m = new /\ i0 <= p
        <4>1. ASSUME NEW q, NEW size \in 1 .. Len(array), Copy(p, m, q, s, size), MinRun <= size
              PROVE  FALSE
          <5>1. p + size <= Limit(new)
            BY <3>3, <4>1 DEF Copy
          <5> QED
            BY <1>0, <2>1, <3>3, <4>1, <5>1, PlaceIn
        <4>2. NoneAt(m, s, p)
          BY <4>1 DEF NoneAt, Acceptable
        <4>3. \A k, l : Covered(k, l) => Covered(k, l)'
          BY <1>0, <2>1, CoveredKept, PlaceIn DEF RunsOK
        <4> QED
          BY <2>1, <4>2, <4>3, NoneSame
      <3> QED
        BY <1>0, <3>1, <3>2, <3>3, PlaceIn
    <2> QED
      BY <2>1, <2>2, <2>5, <2>6, <2>7, <2>8, QuietStep
  <1> QED
    BY <1>1, <1>2

\* lcs looks at one candidate.
LEMMA LcsStep ==
  ASSUME CompareInv, SkipCandidate \/ TryCandidate
  PROVE  CompareInv'
  <1>1. /\ phase = "lcs" /\ phase' = "lcs"
        /\ UNCHANGED <<textVars, refVars, option, new, first, upto, i0, runs>>
    BY DEF SkipCandidate, TryCandidate, pairVars
  <1>2. Quietly
    BY <1>1 DEF Quietly, Comparing
  <1>3. Chain'
    BY SkipStep, TryStep
  <1>4. /\ Start(new)' = Start(new) /\ Limit(new)' = Limit(new) /\ FirstFor(new)' = FirstFor(new)
        /\ new_texts' = new_texts /\ texts' = texts
    BY <1>1 DEF Start, Limit, FirstFor, textVars
  <1>5. Place'
    BY <1>1, <1>4, PlaceIn DEF Place
  <1>6. \A r \in RunType : Real(r) /\ Found(r) => Found(r)'
    BY <1>1 DEF Found
  <1>7. \A m, s, p : Past(m, s, p)' => Past(m, s, p)
    BY <1>1 DEF Past
  <1> QED
    BY <1>1, <1>2, <1>3, <1>5, <1>6, <1>7, QuietStep

\* At the end of the chain there is no better copy.
LEMMA NoBetter ==
  ASSUME CompareInv, phase = "lcs", ~ InRange,
         NEW s \in Texts1, NEW q \in 1 .. Len(array), NEW size \in 1 .. Len(array),
         best.size < size
  PROVE  ~ Candidate(q, s, size)
  <1> SUFFICES ASSUME Candidate(q, s, size) PROVE FALSE
    OBVIOUS
  <1>1. Chain
    BY DEF CompareInv, Comparing
  <1>2. i1 # 0 /\ i1 <= q /\ i1 \in Nat
    BY <1>1 DEF Chain
  <1>3. ~ (i1 < Limit(upto - 1))
    BY <1>2 DEF InRange
  <1>4. s \in 0 .. texts - 1 /\ upto - 1 \in 0 .. texts - 1 /\ s <= upto - 1 /\ Ready
    BY PlaceIn DEF Texts1
  <1>5. /\ Limit(s) \in Nat /\ Limit(upto - 1) \in Nat
        /\ Start(upto - 1) <= Limit(upto - 1) /\ Start(upto - 1) \in Nat
    BY <1>4, TextOrder
  <1>6. s < upto - 1 => Limit(s) <= Start(upto - 1)
    BY <1>4, TextOrder
  <1>7. Limit(s) <= Limit(upto - 1)
    BY <1>4, <1>5, <1>6
  <1>8. q + size <= Limit(s)
    BY DEF Candidate, Copy
  <1> QED
    BY <1>2, <1>3, <1>5, <1>7, <1>8

\* No run starts here.
LEMMA NextTokenStep ==
  ASSUME CompareInv, TryNextToken
  PROVE  CompareInv'
  <1>1. /\ phase = "lcs" /\ phase' = "scan" /\ ~ InRange /\ best.size = 0 /\ i0' = i0 + 1
        /\ UNCHANGED <<textVars, refVars, option, new, first, upto, runs>>
    BY DEF TryNextToken, pairVars
  <1>2. Quietly
    BY <1>1 DEF Quietly, Comparing
  <1>3. Chain'
    BY <1>1 DEF Chain
  <1>4. /\ Start(new)' = Start(new) /\ FirstFor(new)' = FirstFor(new)
        /\ new_texts' = new_texts /\ texts' = texts
    BY <1>1 DEF Start, Limit, FirstFor, textVars
  <1>5. Start(new) \in Nat
    BY <1>1, PlaceIn, TextOrder
  <1>6. Place'
    BY <1>1, <1>4, <1>5, PlaceIn DEF Place
  <1>7. \A r \in RunType : Real(r) /\ Found(r) => Found(r)'
    <2> TAKE r \in RunType
    <2>1. r.at0 + r.size \in Nat
      BY DEF RunType
    <2> QED
      BY <1>1, <2>1, PlaceIn DEF Found
  <1>8. ASSUME NEW m \in 0 .. new_texts - 1, NEW s \in 0 .. texts - 1, NEW p \in 1 .. Len(array),
               Start(m) <= p, Past(m, s, p)'
        PROVE  Past(m, s, p) \/ NoneAt(m, s, p)'
    <2>1. Past(m, s, p) \/ (m = new /\ s < upto /\ first <= s /\ p = i0)
      BY <1>1, <1>8, PlaceIn DEF Past
    <2>2. CASE m = new /\ s < upto /\ first <= s /\ p = i0
      <3>1. s \in Texts1
        BY <1>1, <2>2, PlaceIn DEF Texts1
      <3>2. \A q, size \in 1 .. Len(array) : ~ Candidate(q, s, size)
        BY <1>1, <3>1, NoBetter
      <3>3. NoneAt(m, s, p)
        BY <2>2, <3>2 DEF NoneAt, Candidate
      <3>4. \A k, l : Covered(k, l) => Covered(k, l)'
        BY <1>1, CoveredKept, PlaceIn DEF RunsOK
      <3> QED
        BY <1>1, <3>3, <3>4, NoneSame
    <2> QED
      BY <2>1, <2>2
  <1> QED
    BY <1>1, <1>2, <1>3, <1>6, <1>7, <1>8, QuietStep

\* The best run is entered: it is real, the longest, behind all others that
\* were found with it, and covers what is passed.
LEMMA EnterStep ==
  ASSUME CompareInv, EnterRun
  PROVE  CompareInv'
  <1>1. /\ phase = "lcs" /\ phase' = "scan" /\ ~ InRange /\ best.size # 0
        /\ i0' = i0 + best.size /\ runs' = Append(runs, BestRun)
        /\ UNCHANGED <<textVars, refVars, option, new, first, upto>>
    BY DEF EnterRun, pairVars
  <1>2. /\ Chain /\ option \in Options
        /\ IF "e" \in option THEN upto = first + 1 ELSE first = FirstFor(new) /\ upto = texts
    BY <1>1, PlaceIn DEF CompareInv, Comparing, Place
  <1>3. /\ best.size \in Nat \ {0} /\ best.text \in Nat /\ best.at \in Nat
        /\ best.text \in Texts1 /\ Candidate(best.at, best.text, best.size)
    BY <1>1, <1>2 DEF Chain
  <1>4. best.text \in first .. upto - 1 /\ best.text \in 0 .. texts - 1
    <2>1. first \in 0 .. texts - 1 /\ upto \in 1 .. texts /\ texts \in Nat
      BY <1>1, PlaceIn
    <2>2. best.text \in first .. upto - 1
      BY <1>3 DEF Texts1
    <2> QED
      BY <2>1, <2>2
  <1>5. PICK r0 \in RunType :
           /\ r0.text0 = new /\ r0.at0 = i0 /\ r0.text1 = best.text /\ r0.at1 = best.at
           /\ r0.size = best.size /\ r0 = BestRun
    <2>1. new \in Nat /\ i0 \in Nat
      BY <1>1, PlaceIn
    <2>2. BestRun \in RunType
      BY <1>3, <2>1 DEF BestRun, RunType
    <2> QED
      BY <2>2 DEF BestRun
  <1>6. \A s : s \in Together(best.text) /\ Wanted(new, s) /\ s \in Int => s \in Texts1
    BY <1>1, <1>2, <1>4, PlaceIn DEF Together, Wanted, Texts1
  <1>7. \A s \in Texts1 : best.text \in Together(s)
    BY <1>1, <1>2, <1>4, PlaceIn DEF Together, Texts1
  <1>8. Real(r0)
    <2>1. Wanted(new, best.text)
      BY <1>1, <1>4, PlaceIn DEF Wanted
    <2> QED
      BY <1>1, <1>3, <1>5, <2>1, PlaceIn DEF Real, Candidate
  <1>9. Longest(r0)
    <2> SUFFICES ASSUME NEW s \in Together(best.text), NEW size \in best.size + 1 .. Len(array),
                        NEW q \in i0 + 1 .. Len(array), Wanted(new, s), Candidate(q, s, size)
                 PROVE  FALSE
      BY <1>5 DEF Longest, Candidate
    <2>1. s \in Int
      BY <1>4 DEF Together
    <2>2. s \in Texts1
      BY <1>6, <2>1
    <2>3. q \in 1 .. Len(array) /\ size \in 1 .. Len(array) /\ best.size < size
      <3>1. i0 \in Nat /\ best.size \in Nat /\ Len(array) \in Nat
        BY <1>1, <1>3, PlaceIn
      <3> QED
        BY <3>1
    <2> QED
      BY <1>1, <2>2, <2>3, NoBetter
  <1>10. \A r \in RunType : Real(r) /\ Found(r) => Found(r)' /\ InOrder(r, r0)
    <2> TAKE r \in RunType
    <2>1. r.at0 + r.size \in Nat /\ r.text1 \in Nat
      BY DEF RunType
    <2>2. Found(r) => Found(r)'
      BY <1>1, <1>3, <2>1, PlaceIn DEF Found
    <2>3. ASSUME Real(r), Found(r), r.text0 = new, r.text1 \in Together(best.text)
          PROVE  r.at0 + r.size <= i0
      <3>1. r.text1 < first \/ r.at0 + r.size <= i0
        BY <1>1, <2>3 DEF Found
      <3>2. r.text1 \in Texts1
        BY <1>6, <2>1, <2>3 DEF Real
      <3> QED
        BY <1>1, <2>1, <3>1, <3>2, PlaceIn DEF Texts1
    <2> QED
      BY <1>5, <2>2, <2>3 DEF InOrder
  <1>11. Found(r0)'
    BY <1>1, <1>4, <1>5, PlaceIn DEF Found
  <1>12. /\ Start(new)' = Start(new) /\ FirstFor(new)' = FirstFor(new)
         /\ new_texts' = new_texts /\ texts' = texts
    BY <1>1 DEF Start, Limit, FirstFor, textVars
  <1>13. Start(new) \in Nat
    BY <1>1, PlaceIn, TextOrder
  <1>14. Place' /\ Chain'
    <2>1. Place'
      <3>1. i0 + best.size \in Nat /\ Start(new) <= i0 + best.size
        <4>1. i0 \in Nat /\ Start(new) <= i0
          BY <1>1, PlaceIn
        <4> QED
          BY <1>3, <1>13, <4>1
      <3> QED
        BY <1>1, <1>2, <1>12, <3>1, PlaceIn DEF Place
    <2> QED
      BY <1>1, <2>1 DEF Chain
  <1>15. RunsOK'
    <2>0. RunsOK /\ runs \in Seq(RunType)
      BY <1>1, PlaceIn DEF RunsOK
    <2>1. \A r : (Real(r)' <=> Real(r)) /\ (Longest(r)' <=> Longest(r))
      BY <1>1, SameRuns
    <2>2. \A l, r : InOrder(l, r)' <=> InOrder(l, r)
      BY <1>1, SameBounds DEF InOrder
    <2>3. /\ runs' \in Seq(RunType) /\ Len(runs') = Len(runs) + 1 /\ Len(runs) \in Nat
          /\ runs'[Len(runs) + 1] = r0
          /\ \A k \in 1 .. Len(runs) : runs'[k] = runs[k] /\ runs[k] \in RunType
      BY <1>1, <1>5, <2>0
    <2>4. Real(r0)' /\ Longest(r0)' /\ Found(r0)'
      BY <1>8, <1>9, <1>11, <2>1
    <2>5. \A k \in 1 .. Len(runs) : Real(runs[k]) /\ Longest(runs[k]) /\ Found(runs[k])
      BY <2>0 DEF RunsOK
    <2>6. \A r \in RunType : Real(r) /\ Longest(r) /\ Found(r) =>
                              Real(r)' /\ Longest(r)' /\ Found(r)' /\ InOrder(r, r0)'
      BY <1>10, <2>1, <2>2
    <2>7. (\A k \in 1 .. Len(runs) : Real(runs[k]) /\ Longest(runs[k]) /\ Found(runs[k]))'
      BY <2>3, <2>4, <2>5, <2>6
    <2>8. (\A k \in 1 .. Len(runs) : \A l \in 1 .. k - 1 : InOrder(runs[l], runs[k]))'
      <3>1. \A k \in 1 .. Len(runs) : \A l \in 1 .. k - 1 : InOrder(runs[l], runs[k])
        BY <2>0 DEF RunsOK
      <3> SUFFICES ASSUME NEW k \in (1 .. Len(runs))', NEW l \in 1 .. k - 1
                   PROVE  InOrder(runs[l], runs[k])'
        OBVIOUS
      <3>2. CASE k \in 1 .. Len(runs)
        <4>1. l \in 1 .. Len(runs) /\ runs'[l] = runs[l] /\ runs'[k] = runs[k]
          BY <2>3, <3>2
        <4>2. InOrder(runs[l], runs[k])
          BY <3>1, <3>2
        <4> QED
          BY <2>2, <4>1, <4>2
      <3>3. CASE k = Len(runs) + 1
        <4>1. l \in 1 .. Len(runs) /\ runs'[l] = runs[l] /\ runs[l] \in RunType /\ runs'[k] = r0
          BY <2>3, <3>3
        <4>2. PICK r \in RunType : r = runs[l]
          BY <4>1
        <4>3. InOrder(r, r0)'
          BY <2>5, <2>6, <4>1, <4>2
        <4> QED
          BY <4>1, <4>2, <4>3
      <3> QED
        BY <2>3, <3>2, <3>3
    <2> QED
      BY <2>3, <2>7, <2>8 DEF RunsOK
  <1>16. NoneMissed'
    <2>1. runs \in Seq(RunType)
      BY <1>1, PlaceIn DEF RunsOK
    <2>2. \A p, s : Covered(p, s) => Covered(p, s)'
      BY <1>1, <1>5, <2>1, CoveredKept
    <2>3. ASSUME NEW m \in 0 .. new_texts - 1, NEW s \in 0 .. texts - 1, NEW p \in 1 .. Len(array),
                 Start(m) <= p, Past(m, s, p)'
          PROVE  Past(m, s, p) \/ NoneAt(m, s, p)'
      <3>1. Past(m, s, p) \/ (m = new /\ s < upto /\ first <= s /\ i0 <= p /\ p < i0 + best.size)
        BY <1>1, <2>3, PlaceIn DEF Past
      <3>2. CASE m = new /\ s < upto /\ first <= s /\ i0 <= p /\ p < i0 + best.size
        <4>1. s \in Texts1
          BY <1>1, <3>2, PlaceIn DEF Texts1
        <4>2. best.text \in Together(s)
          BY <1>7, <4>1
        <4>3. Len(runs') = Len(runs) + 1 /\ Len(runs) + 1 \in DOMAIN runs'
              /\ runs'[Len(runs) + 1] = r0
          BY <1>1, <1>5, <2>1
        <4>4. Covered(p, s)'
          BY <1>1, <1>5, <3>2, <4>2, <4>3, SameBounds DEF Covered
        <4> QED
          BY <4>4 DEF NoneAt
      <3> QED
        BY <3>1, <3>2
    <2> QED
      BY <1>1, <2>2, <2>3, NoneKept, PlaceIn
  <1> QED
    BY <1>1, <1>14, <1>15, <1>16, SameReady, PlaceIn DEF CompareInv, Comparing, Linking

\* The two sweeps, whose invariant is RefsInv.
LEMMA LinkingStep ==
  ASSUME CompareInv, MakeReferences
  PROVE  CompareInv'
  <1>1. RefsNext /\ UNCHANGED <<option, runs>>
    BY DEF MakeReferences, cmpVars, pairVars
  <1>2. phase \in Linking /\ phase' \in Linking
    BY <1>1 DEF RefsNext, Reading, ReadText, ReadSeparator, StartHash, HashPosition, HashNextText,
                HashDone, CleanFollow, CleanSet, CleanDone, Cleaning, Linking, TextsRead
  <1>3. RefsInv /\ runs = <<>> /\ option \in Options
    BY <1>2 DEF CompareInv
  <1>4. RefsInv'
    BY <1>1, <1>3, ReadStep, StartStep, HashPositionStep, HashNextTextStep, HashDoneStep,
       CleanFollowStep, CleanSetStep, CleanDoneStep
       DEF RefsNext
  <1>5. phase' \notin Comparing
    BY <1>2 DEF Linking, Comparing
  <1> QED
    BY <1>1, <1>2, <1>3, <1>4, <1>5 DEF CompareInv

\* Percentages and what is printed of them are of no concern here.
LEMMA OtherStep ==
  ASSUME CompareInv, UNCHANGED simVars
  PROVE  CompareInv'
  <1>1. UNCHANGED <<textVars, phase, refVars, option, new, first, upto, i0, i1, best, runs>>
    BY DEF simVars, cmpVars, pairVars, scanVars
  <1>2. CASE phase \in Linking
    <2>1. RefsInv'
      BY <1>1, <1>2, StutterStep DEF CompareInv, RefsVars
    <2>2. phase' \notin Comparing
      BY <1>1, <1>2 DEF Linking, Comparing
    <2> QED
      BY <1>1, <1>2, <2>1, <2>2 DEF CompareInv
  <1>3. CASE phase \in Comparing
    <2>1. Quietly
      BY <1>1, <1>3 DEF Quietly
    <2>2. Place'
      BY <1>1, <1>3 DEF CompareInv, Place, FirstFor, Start, Limit, textVars
    <2>3. Chain'
      <3>1. CASE phase = "lcs"
        <4>1. ChainAt(i1', best')
          BY <1>1, <1>3, <3>1 DEF CompareInv, Chain, ChainAt
        <4> QED
          BY <1>1, <4>1, ChainStep
      <3>2. CASE phase # "lcs"
        BY <1>1, <3>2 DEF Chain
      <3> QED
        BY <3>1, <3>2
    <2>4. \A r \in RunType : Real(r) /\ Found(r) => Found(r)'
      BY <1>1 DEF Found
    <2>5. \A m, s, p : Past(m, s, p)' => Past(m, s, p)
      BY <1>1 DEF Past
    <2> QED
      BY <1>1, <2>1, <2>2, <2>3, <2>4, <2>5, QuietStep
  <1> QED
    BY <1>2, <1>3 DEF CompareInv

-----------------------------------------------------------------------------
(* The theorems.                                                           *)

\* The invariant of read_and_compare_files, from the first file that is read
\* to the last percentage.
THEOREM CompareInvariance == SimSpec => []CompareInv
  <1>1. SimInit => CompareInv
    BY RefsInitOK
       DEF SimInit, CompareInit, CompareInv, RefsInit, TextsInit, Linking, Comparing
  <1>2. CompareInv /\ [SimNext]_<<simVars, percentVars>> => CompareInv'
    <2> SUFFICES ASSUME CompareInv, [SimNext]_<<simVars, percentVars>> PROVE CompareInv'
      OBVIOUS
    <2>1. \/ MakeReferences \/ Search \/ EnterRun
          \/ UNCHANGED simVars
      BY DEF SimNext, ReadAndCompare, AddRun, ShowPercentages, Show
    <2>2. Search => CompareInv'
      BY StartCompareStep, PairStep, ScanStep, LcsStep, NextTokenStep DEF Search
    <2> QED
      BY <2>1, <2>2, LinkingStep, EnterStep, OtherStep
  <1> QED
    BY <1>1, <1>2, PTL DEF SimSpec

\* No run is entered before the comparison starts.
LEMMA RunsThere ==
  ASSUME CompareInv
  PROVE  runs = <<>> \/ (Ready /\ RunsOK)
  BY DEF CompareInv

\* Every run SIM enters is a run: compare.c:92, add_run.c.
THEOREM RunsAreReal == SimSpec => []RunsReal
  <1>1. CompareInv => RunsReal
    <2> SUFFICES ASSUME CompareInv, NEW k \in DOMAIN runs
                 PROVE  /\ Real(runs[k])
                        /\ \A l \in 1 .. k - 1 : InOrder(runs[l], runs[k])
      BY DEF RunsReal, Real, InOrder
    <2>1. RunsOK
      BY RunsThere
    <2> QED
      BY <2>1 DEF RunsOK
  <1> QED
    BY <1>1, CompareInvariance, PTL

\* No longer run could have been entered in its place: compare.c:142.
THEOREM RunsAreLongest == SimSpec => []RunsLongest
  <1>1. CompareInv => RunsLongest
    <2> SUFFICES ASSUME CompareInv, NEW k \in DOMAIN runs PROVE Longest(runs[k])
      BY DEF RunsLongest, Longest
    <2>1. RunsOK
      BY RunsThere
    <2> QED
      BY <2>1 DEF RunsOK
  <1> QED
    BY <1>1, CompareInvariance, PTL

\* What is in no run could be in none: sim.1, compare.c:92.
THEOREM NoneIsMissed == SimSpec => []NothingMissed
  <1>1. CompareInv => NothingMissed
    <2> SUFFICES ASSUME CompareInv, phase = "done",
                        NEW m \in 0 .. new_texts - 1, NEW s \in 0 .. texts - 1,
                        NEW p \in Start(m) .. Limit(m) - 1, NEW q \in Start(s) .. Limit(s) - 1,
                        Wanted(m, s), ~ Covered(p, s),
                        NEW size \in MinRun .. Len(array),
                        Copy(p, m, q, s, size), Acceptable(p, size)
                 PROVE  FALSE
      BY DEF NothingMissed
    <2>1. Ready /\ Place /\ NoneMissed /\ MinRun \in Nat \ {0}
      BY RefsAssumption DEF CompareInv, Comparing
    <2>2. new = new_texts /\ texts \in Nat /\ new_texts \in 0 .. texts /\ Len(array) \in Nat
      BY <2>1 DEF Place, Ready
    <2>3. m \in 0 .. texts - 1 /\ Past(m, s, p)
      BY <2>2 DEF Past
    <2>4. /\ Start(m) \in Nat \ {0} /\ Limit(m) \in Nat /\ Limit(m) <= Len(array) + 1
          /\ Start(s) \in Nat \ {0} /\ Limit(s) \in Nat /\ Limit(s) <= Len(array) + 1
      BY <2>1, <2>3, TextOrder
    <2>5. /\ p \in 1 .. Len(array) /\ q \in 1 .. Len(array) /\ size \in 1 .. Len(array)
          /\ Start(m) <= p
      BY <2>1, <2>2, <2>4
    <2>6. NoneAt(m, s, p)
      BY <2>1, <2>3, <2>5 DEF NoneMissed
    <2> QED
      BY <2>5, <2>6 DEF NoneAt
  <1> QED
    BY <1>1, CompareInvariance, PTL

\* Under -f runs are balanced, also after Best_Run_Size has cut off what cannot
\* be last: algollike.c:50.
THEOREM RunsAreBalanced == SimSpec => []RunsBalanced
  <1>1. CompareInv => RunsBalanced
    <2> SUFFICES ASSUME CompareInv, "f" \in option, NEW k \in DOMAIN runs,
                        NEW l \in DOMAIN Opener
                 PROVE  Balance(l, runs[k].at0, runs[k].size) = 0
      BY DEF RunsBalanced
    <2>1. RunsOK
      BY RunsThere
    <2>2. runs[k] \in RunType /\ Real(runs[k])
      BY <2>1 DEF RunsOK
    <2>3. /\ runs[k].at0 \in Nat /\ runs[k].size \in Nat \ {0}
          /\ BestRunSize(runs[k].at0, runs[k].size) = runs[k].size
      BY <2>2, RefsAssumption DEF RunType, Real, Acceptable
    <2>4. Closed(runs[k].at0, runs[k].size)
      BY <2>3, AcceptedKept
    <2> QED
      BY <2>4 DEF Closed
  <1> QED
    BY <1>1, CompareInvariance, PTL
====
