------------------------------ MODULE RunsProofs ------------------------------
(***************************************************************************)
(* Proofs about runs once they are found.  Their lines: for texts and runs *)
(* of any size, the second pass finds the right ones, on the buffer and on *)
(* the files, and pass 3 prints these.  Their order: whatever the tree of  *)
(* runs does, the list stays sorted.                                       *)
(***************************************************************************)
EXTENDS ShowRuns, Aiso, WellFoundedInduction, NaturalsInduction, FiniteSetTheorems,
        SequenceTheorems, TLAPS

-----------------------------------------------------------------------------
(* The invariant.                                                          *)

\* Lexemes x among the first k of text t.
Count(t, x, k) == Cardinality({l \in 1 .. k : file[t][l] = x})
Newlines(t) == Count(t, "nl", Len(file[t]))

\* The tokens up to the end of line n of text t; line 0 is before it.
TokensTo(t, n) == Count(t, "tk", Behind(t, n))

\* What the buffer counts as lines: tokens after the last newline make one.
Ended(t) == file[t] = <<>> \/ file[t][Len(file[t])] = "nl"
Entries(t) == Newlines(t) + (IF Ended(t) THEN 0 ELSE 1)

PosType == [type : {"first", "last"}, tk : Nat]
FoundType == [text : TextIds, type : {"first", "last"}, tk : Nat, line : Nat]

LinesTypes ==
  /\ file \in UNION {[1 .. k -> Content] : k \in 1 .. MaxTexts}
  /\ cur \in TextIds
  /\ at \in Nat /\ lex_tk_cnt \in Nat /\ lex_nl_cnt \in Nat \ {0} /\ last_tk_cnt \in Nat
  /\ old_nl_cnt \in Nat \ {0} /\ nl_next \in Nat
  /\ nl_buff \in Seq(Nat) /\ kept \in BOOLEAN
  /\ tx_nl_start \in [TextIds -> Nat] /\ tx_nl_limit \in [TextIds -> Nat]
  /\ tx_EOL_terminated \in [TextIds -> BOOLEAN]
  /\ tx_pos \in [TextIds -> SUBSET PosType]
  /\ found \subseteq FoundType
  /\ modified = FALSE

\* The first n entries of text t in the buffer.
EntriesRight(t, n) ==
  /\ tx_nl_start[t] + n <= Len(nl_buff)
  /\ \A j \in 1 .. n : nl_buff[tx_nl_start[t] + j] = TokensTo(t, j) - TokensTo(t, j - 1)

\* What the first pass has noted of a text.
Noted(t) ==
  /\ kept => tx_nl_limit[t] = tx_nl_start[t] + Entries(t) /\ EntriesRight(t, Entries(t))
  /\ file[t] # <<>> => (tx_EOL_terminated[t] <=> Ended(t))

\* In the middle of the first pass.
Reading ==
  LET n == Count(cur, "nl", at) IN
  /\ at <= Len(file[cur])
  /\ lex_tk_cnt = Count(cur, "tk", at) /\ last_tk_cnt = TokensTo(cur, n)
  /\ at # 0 => lex_token = file[cur][at]
  /\ kept => Len(nl_buff) = tx_nl_start[cur] + n /\ EntriesRight(cur, n)

FirstPass == /\ \A t \in TextIds : t < cur => Noted(t)
             /\ pc = "read1" => Reading
             /\ \A t \in TextIds : tx_pos[t] = {}
             /\ found = {}

\* A position of a run, found or not.
Has(t, type, tk) == \/ [type |-> type, tk |-> tk] \in tx_pos[t]
                    \/ \E f \in found : f.text = t /\ f.type = type /\ f.tk = tk

\* A text has the positions of one run, or none.
OneRun(t) ==
  /\ \A type \in {"first", "last"}, k, l \in Nat : Has(t, type, k) /\ Has(t, type, l) => k = l
  /\ \A k, l \in Nat : Has(t, "first", k) /\ Has(t, "last", l) => k <= l
  /\ \A k \in Nat : Has(t, "first", k) => \E l \in Nat : Has(t, "last", l)
  /\ \A l \in Nat : Has(t, "last", l) => l < Tokens(t) /\ \E k \in Nat : Has(t, "first", k)

\* Each position is looked for or found, and found once.
Once == /\ \A f \in found : \A p \in tx_pos[f.text] : f.type # p.type
        /\ \A f, g \in found : f.text = g.text /\ f.type = g.type => f = g

\* The line a position has got: see BufferedLinesRight.
LineRight(f) ==
  LET n == LineOf(f.text, f.tk) IN
  \/ RightLine(f)
  \/ f.type = "last" /\ f.line = n /\ ~kept /\ ~Ended(f.text) /\ n = Newlines(f.text) + 1

\* In the middle of the second pass: behind line n, or behind a last line that
\* has no end.
Scanning ==
  LET n == lex_nl_cnt - 1 IN
  /\ \/ /\ lex_tk_cnt = TokensTo(cur, n)
        /\ old_nl_cnt = IF n = 0 THEN 1 ELSE n
        /\ kept => nl_next = tx_nl_start[cur] + n /\ last_tk_cnt = lex_tk_cnt /\ n <= Entries(cur)
        /\ ~kept => at = Behind(cur, n) /\ n <= Newlines(cur)
     \/ /\ ~kept /\ ~Ended(cur) /\ n = Newlines(cur)
        /\ lex_tk_cnt = Tokens(cur) /\ old_nl_cnt = lex_nl_cnt /\ at = Len(file[cur])
  /\ \A p \in tx_pos[cur] : TokensTo(cur, old_nl_cnt - 1) <= p.tk

SecondPass ==
  /\ \A t \in TextIds : Noted(t) /\ OneRun(t)
  /\ Once
  /\ \A f \in found : LineRight(f)
  /\ \A f \in found : f.text <= cur
  /\ \A t \in TextIds : t < cur => tx_pos[t] = {}
  /\ pc = "open2" => \A f \in found : f.text # cur
  /\ pc = "scan" => Scanning
  /\ pc \in {"end", "show", "shown"} => \A t \in TextIds : tx_pos[t] = {}

LinesInv ==
  /\ LinesTypes
  /\ pc \in {"open1", "read1", "runs", "open2", "scan", "end", "show", "shown"}
  /\ pc \in {"open1", "read1"} => FirstPass
  /\ pc = "runs" => /\ \A t \in TextIds : Noted(t) /\ tx_pos[t] = {}
                    /\ found = {} /\ cur = 1
  /\ pc \in {"open2", "scan", "end", "show", "shown"} => SecondPass

\* The difference of the lines of a chunk, as show_run counts it.
LinesFound(t) == LineFound(t, "last") - LineFound(t, "first")

\* Pass 3: so many lines of a chunk were printed, and these.
Showing ==
  /\ chunk \in [1 .. 2 -> TextIds] /\ \A c \in 1 .. 2 : HasChunk(chunk[c])
  /\ lost \subseteq TextIds
  /\ DOMAIN shown = 1 .. 2 /\ DOMAIN nl_cnt = 1 .. 2 /\ DOMAIN offset = 1 .. 2
  /\ \A c \in 1 .. 2 :
       LET t == chunk[c] IN
       /\ shown[c] \in Seq(SUBSET Nat)
       /\ nl_cnt[c] = LinesFound(t) - Len(shown[c]) /\ nl_cnt[c] \in Nat
       /\ offset[c] = IF t \in lost THEN Len(file[t]) ELSE Behind(t, Skipped(t) + Len(shown[c]))
       /\ \A k \in DOMAIN shown[c] :
            shown[c][k] = IF t \in lost THEN {} ELSE OnLine(t, FirstLine(t) + k - 1)

ShowInv == /\ LinesInv
           /\ pc = "show" => format \in {"columns", "diff"}
           /\ pc \in {"show", "shown"} /\ format \in {"columns", "diff"} =>
                /\ Showing
                /\ pc = "shown" => \A c \in 1 .. 2 : nl_cnt[c] = 0
           /\ pc \notin {"show", "shown"} => format = "none"

-----------------------------------------------------------------------------
\* What CHOOSE picks is the smallest number.
LEMMA ChooseSmallest ==
  ASSUME NEW S, S \subseteq Nat, NEW b \in S, \A k \in S : b <= k
  PROVE  (CHOOSE k \in S : \A l \in S : k <= l) = b
  <1> DEFINE P(k) == \A l \in S : k <= l
  <1>1. P(b)
    OBVIOUS
  <1>2. \A k \in S : P(k) => k = b
    OBVIOUS
  <1> HIDE DEF P
  <1>3. (CHOOSE k \in S : P(k)) = b
    BY <1>1, <1>2
  <1> QED
    BY <1>3 DEF P

-----------------------------------------------------------------------------
(* Numbers.                                                                *)

\* Numbers have a smallest one.
LEMMA SmallestIn ==
  ASSUME NEW T, T \subseteq Nat, T # {}
  PROVE  \E x \in T : \A y \in T : x <= y
  <1>1. IsWellFoundedOn(OpToRel(<, Nat), Nat)
    BY NatLessThanWellFounded
  <1>2. \E x \in T : \A y \in T : ~ (<<y, x>> \in OpToRel(<, Nat))
    BY <1>1, WFMin
  <1>3. PICK x \in T : \A y \in T : ~ (<<y, x>> \in OpToRel(<, Nat))
    BY <1>2
  <1>4. \A y \in T : ~ (y < x)
    <2> SUFFICES ASSUME NEW y \in T, y < x PROVE FALSE
      OBVIOUS
    <2>1. <<y, x>> \in OpToRel(<, Nat)
      BY DEF OpToRel
    <2> QED
      BY <2>1, <1>3
  <1> QED
    BY <1>4

\* Numbers up to n have a largest one.
LEMMA LargestUpTo ==
  ASSUME NEW T, NEW n \in Nat, T \subseteq 0 .. n, T # {}
  PROVE  \E x \in T : \A y \in T : y <= x
  <1> DEFINE U == {k \in Nat : \E x \in T : k = n - x}
  <1>1. \A x \in T : x \in 0 .. n /\ n - x \in U
    OBVIOUS
  <1>2. U \subseteq Nat /\ U # {}
    BY <1>1
  <1>3. PICK u \in U : \A y \in U : u <= y
    BY <1>2, SmallestIn
  <1>4. PICK x \in T : u = n - x
    BY <1>3
  <1>5. \A y \in T : n - x <= n - y
    BY <1>1, <1>3, <1>4
  <1> QED
    BY <1>1, <1>4, <1>5

-----------------------------------------------------------------------------
(* Counting lexemes.                                                       *)

\* One lexeme more.
LEMMA CountStep ==
  ASSUME NEW t, NEW x, NEW k \in Nat
  PROVE  /\ Count(t, x, k) \in Nat
         /\ Count(t, x, 0) = 0
         /\ Count(t, x, k + 1) = Count(t, x, k) + (IF file[t][k + 1] = x THEN 1 ELSE 0)
  <1> DEFINE C(n) == {l \in 1 .. n : file[t][l] = x}
  <1>1. \A n \in Nat : IsFiniteSet(C(n)) /\ Cardinality(C(n)) \in Nat
    <2> TAKE n \in Nat
    <2>1. IsFiniteSet(1 .. n)
      BY FS_Interval
    <2>2. IsFiniteSet(C(n))
      BY <2>1, FS_Subset
    <2> QED
      BY <2>2, FS_CardinalityType
  <1>2. Cardinality(C(0)) = 0
    <2>1. C(0) = {}
      OBVIOUS
    <2> QED
      BY <2>1, FS_EmptySet
  <1>3. Cardinality(C(k + 1)) = Cardinality(C(k)) + (IF file[t][k + 1] = x THEN 1 ELSE 0)
    <2>1. CASE file[t][k + 1] = x
      <3>1. C(k + 1) = C(k) \cup {k + 1} /\ k + 1 \notin C(k)
        BY <2>1
      <3>2. Cardinality(C(k) \cup {k + 1}) = Cardinality(C(k)) + 1
        BY <1>1, <3>1, FS_AddElement
      <3> QED
        BY <2>1, <3>1, <3>2
    <2>2. CASE file[t][k + 1] # x
      <3>1. C(k + 1) = C(k)
        BY <2>2
      <3>2. Cardinality(C(k + 1)) = Cardinality(C(k)) /\ Cardinality(C(k)) \in Nat
        BY <1>1, <3>1, Zenon
      <3>3. (IF file[t][k + 1] = x THEN 1 ELSE 0) = 0
        BY <2>2
      <3> HIDE DEF C
      <3> QED
        BY <3>2, <3>3
    <2> QED
      BY <2>1, <2>2
  <1>4. \A n : Count(t, x, n) = Cardinality(C(n))
    BY DEF Count
  <1> QED
    BY <1>1, <1>2, <1>3, <1>4

\* ... at a place where x is.
LEMMA CountAt ==
  ASSUME NEW t, NEW x, NEW k \in Nat \ {0}, file[t][k] = x
  PROVE  Count(t, x, k - 1) \in Nat /\ Count(t, x, k) = Count(t, x, k - 1) + 1
  <1>1. k - 1 \in Nat /\ (k - 1) + 1 = k
    OBVIOUS
  <1>2. /\ Count(t, x, k - 1) \in Nat
        /\ Count(t, x, (k - 1) + 1) = Count(t, x, k - 1) + (IF file[t][(k - 1) + 1] = x THEN 1 ELSE 0)
    BY <1>1, CountStep
  <1> QED
    BY <1>1, <1>2

\* More lexemes are not less, and as many only if there is no x among them.
LEMMA CountMono ==
  ASSUME NEW t, NEW x, NEW j \in Nat, NEW k \in Nat, j <= k
  PROVE  /\ Count(t, x, j) <= Count(t, x, k)
         /\ Count(t, x, j) = Count(t, x, k) <=> \A l \in j + 1 .. k : file[t][l] # x
  <1> DEFINE OK(n) == /\ Count(t, x, j) <= Count(t, x, n)
                      /\ Count(t, x, j) = Count(t, x, n)
                           <=> \A l \in j + 1 .. n : file[t][l] # x
             Bad == {n \in Nat : j <= n /\ ~OK(n)}
  <1>1. SUFFICES Bad = {}
    BY <1>1
  <1>2. SUFFICES ASSUME Bad # {} PROVE FALSE
    OBVIOUS
  <1>3. PICK n \in Bad : \A m \in Bad : n <= m
    BY <1>2, SmallestIn
  <1>4. n \in Nat /\ j <= n /\ ~OK(n)
    BY <1>3
  <1>5. n # j
    <2>1. OK(j)
      BY CountStep
    <2> QED
      BY <1>4, <2>1
  <1>6. n - 1 \in Nat /\ j <= n - 1 /\ n = (n - 1) + 1
    BY <1>4, <1>5
  <1>7. OK(n - 1)
    <2>1. n - 1 \notin Bad
      BY <1>3, <1>4
    <2> QED
      BY <1>6, <2>1
  <1>8. /\ Count(t, x, j) \in Nat /\ Count(t, x, n - 1) \in Nat /\ Count(t, x, n) \in Nat
        /\ Count(t, x, n) = Count(t, x, n - 1) + (IF file[t][n] = x THEN 1 ELSE 0)
    <2>1. Count(t, x, (n - 1) + 1) = Count(t, x, n - 1) + (IF file[t][(n - 1) + 1] = x THEN 1 ELSE 0)
      BY <1>6, CountStep
    <2> QED
      BY <1>4, <1>6, <2>1, CountStep
  <1>9. Count(t, x, j) <= Count(t, x, n - 1)
    BY <1>7
  <1>10. (\A l \in j + 1 .. n : file[t][l] # x)
           <=> (\A l \in j + 1 .. n - 1 : file[t][l] # x) /\ file[t][n] # x
    <2>1. n \in j + 1 .. n /\ \A l \in j + 1 .. n : l = n \/ l \in j + 1 .. n - 1
      BY <1>4, <1>6
    <2>2. \A l \in j + 1 .. n - 1 : l \in j + 1 .. n
      BY <1>4
    <2> QED
      BY <2>1, <2>2
  <1>11. OK(n)
    BY <1>7, <1>8, <1>9, <1>10
  <1> QED
    BY <1>4, <1>11

\* The lexemes between two places.
LEMMA CountBetween ==
  ASSUME NEW t, NEW x, NEW j \in Nat, NEW k \in Nat, j <= k
  PROVE  Cardinality({l \in j + 1 .. k : file[t][l] = x}) = Count(t, x, k) - Count(t, x, j)
  <1> DEFINE A == {l \in 1 .. j : file[t][l] = x}
             B == {l \in j + 1 .. k : file[t][l] = x}
  <1>1. IsFiniteSet(A) /\ IsFiniteSet(B)
    <2>1. IsFiniteSet(1 .. j) /\ IsFiniteSet(j + 1 .. k)
      BY FS_Interval
    <2> QED
      BY <2>1, FS_Subset
  <1>2. A \cap B = {} /\ A \cup B = {l \in 1 .. k : file[t][l] = x}
    OBVIOUS
  <1>3. Cardinality(A \cup B) = Cardinality(A) + Cardinality(B) - Cardinality(A \cap B)
    BY <1>1, FS_Union
  <1>4. Cardinality(A) \in Nat /\ Cardinality(B) \in Nat /\ Cardinality(A \cap B) = 0
    BY <1>1, <1>2, FS_CardinalityType, FS_EmptySet
  <1>5. Count(t, x, j) = Cardinality(A) /\ Count(t, x, k) = Cardinality(A \cup B)
    BY <1>2 DEF Count
  <1> QED
    BY <1>3, <1>4, <1>5

\* Counting reaches every number on its way.
LEMMA CountReach ==
  ASSUME NEW t, NEW x, NEW k \in Nat, NEW n \in Nat \ {0}, n <= Count(t, x, k)
  PROVE  \E j \in 1 .. k : file[t][j] = x /\ Count(t, x, j) = n
  <1> DEFINE T == {j \in Nat : n <= Count(t, x, j)}
  <1>1. k \in T
    OBVIOUS
  <1>2. PICK j \in T : \A l \in T : j <= l
    BY <1>1, SmallestIn
  <1>3. j # 0
    BY <1>2, CountStep
  <1>4. j - 1 \in Nat /\ j = (j - 1) + 1 /\ j - 1 \notin T
    BY <1>2, <1>3
  <1>5. /\ Count(t, x, j - 1) \in Nat
        /\ Count(t, x, (j - 1) + 1)
             = Count(t, x, j - 1) + (IF file[t][(j - 1) + 1] = x THEN 1 ELSE 0)
    BY <1>4, CountStep
  <1>6. Count(t, x, j - 1) < n /\ n <= Count(t, x, j)
    BY <1>2, <1>4, <1>5
  <1>7. file[t][j] = x /\ Count(t, x, j) = n
    BY <1>4, <1>5, <1>6
  <1>8. j \in 1 .. k
    BY <1>1, <1>2, <1>3
  <1> QED
    BY <1>7, <1>8

\* The n-th x is in one place.
LEMMA CountOnce ==
  ASSUME NEW t, NEW x, NEW j \in Nat \ {0}, NEW k \in Nat \ {0},
         file[t][j] = x, file[t][k] = x, Count(t, x, j) = Count(t, x, k)
  PROVE  j = k
  <1>1. ASSUME NEW l \in Nat \ {0}, NEW m \in Nat, l < m, file[t][m] = x
        PROVE  Count(t, x, l) # Count(t, x, m)
    <2>1. m \in l + 1 .. m /\ l <= m
      BY <1>1
    <2> QED
      BY <1>1, <2>1, CountMono
  <1> QED
    BY <1>1

\* No more lexemes x than lexemes.
LEMMA CountBound ==
  ASSUME NEW t, NEW x, NEW k \in Nat
  PROVE  Count(t, x, k) \in 0 .. k
  <1> DEFINE C == {l \in 1 .. k : file[t][l] = x}
  <1>1. IsFiniteSet(1 .. k) /\ Cardinality(1 .. k) = k
    BY FS_Interval
  <1>2. C \subseteq 1 .. k
    OBVIOUS
  <1>3. IsFiniteSet(C) /\ Cardinality(C) <= Cardinality(1 .. k)
    BY <1>1, <1>2, FS_Subset
  <1>4. Cardinality(C) \in Nat
    BY <1>3, FS_CardinalityType
  <1>5. Cardinality(C) \in 0 .. k
    <2> HIDE DEF C
    <2> QED
      BY <1>1, <1>3, <1>4
  <1> QED
    BY <1>5 DEF Count

-----------------------------------------------------------------------------
(* Lines of a text.                                                        *)

\* What the files hold.
LEMMA TextFacts ==
  ASSUME LinesTypes, NEW t \in TextIds
  PROVE  /\ TextIds = 1 .. Len(file) /\ Len(file) \in Nat \ {0} /\ Len(file) <= MaxTexts
         /\ Len(file[t]) \in 0 .. MaxLexemes /\ Len(file[t]) \in Nat
         /\ DOMAIN file[t] = 1 .. Len(file[t])
         /\ \A k \in 1 .. Len(file[t]) : file[t][k] \in {"tk", "nl"}
         /\ file[t] = <<>> <=> Len(file[t]) = 0
  <1>1. PICK n \in 1 .. MaxTexts : file \in [1 .. n -> Content]
    BY DEF LinesTypes
  <1>2. n \in Nat \ {0} /\ MaxTexts \in Nat /\ MaxLexemes \in Nat
    BY LinesAssumption
  <1>3. file \in Seq(Content) /\ Len(file) = n /\ DOMAIN file = 1 .. n
    BY <1>1, <1>2
  <1>4. file[t] \in Content
    BY <1>1, <1>3 DEF TextIds
  <1>5. PICK m \in 0 .. MaxLexemes : file[t] \in [1 .. m -> {"tk", "nl"}]
    BY <1>4 DEF Content
  <1>6. m \in Nat
    BY <1>2
  <1>7. file[t] \in Seq({"tk", "nl"}) /\ Len(file[t]) = m /\ DOMAIN file[t] = 1 .. m
    BY <1>5, <1>6
  <1>8. file[t] = <<>> <=> m = 0
    BY <1>6, <1>7
  <1> QED
    BY <1>1, <1>2, <1>3, <1>5, <1>6, <1>7, <1>8 DEF TextIds

\* The position behind n newlines.
LEMMA BehindIs ==
  ASSUME LinesTypes, NEW t \in TextIds, NEW n \in Nat
  PROVE  /\ Newlines(t) \in Nat /\ Len(file[t]) \in Nat
         /\ Behind(t, n) \in Nat /\ Behind(t, n) \in 0 .. Len(file[t])
         /\ Behind(t, n) <= Len(file[t])
         /\ n <= Newlines(t) => /\ Count(t, "nl", Behind(t, n)) = n
                                /\ n # 0 => Behind(t, n) # 0 /\ file[t][Behind(t, n)] = "nl"
         /\ n > Newlines(t) => Behind(t, n) = Len(file[t])
         /\ n = 0 => Behind(t, n) = 0
  <1> DEFINE Ends == {k \in DOMAIN file[t] : file[t][k] = "nl" /\ Count(t, "nl", k) = n}
  <1>1. /\ Len(file[t]) \in Nat /\ DOMAIN file[t] = 1 .. Len(file[t])
        /\ Newlines(t) \in Nat /\ Count(t, "nl", 0) = 0
    BY TextFacts, CountStep DEF Newlines
  <1>2. Behind(t, n) = IF n <= 0 THEN 0
                       ELSE IF Ends = {} THEN Len(file[t]) ELSE CHOOSE k \in Ends : TRUE
    BY DEF Behind, Count
  <1>3. CASE n = 0
    BY <1>1, <1>2, <1>3
  <1>4. CASE n # 0 /\ n <= Newlines(t)
    <2>1. n \in Nat \ {0} /\ n <= Count(t, "nl", Len(file[t]))
      BY <1>4 DEF Newlines
    <2>2. \E j \in 1 .. Len(file[t]) : file[t][j] = "nl" /\ Count(t, "nl", j) = n
      BY <1>1, <2>1, CountReach
    <2>3. Ends # {}
      BY <1>1, <2>2
    <2>4. Behind(t, n) = CHOOSE k \in Ends : TRUE
      BY <1>2, <1>4, <2>3
    <2>5. Behind(t, n) \in Ends
      BY <2>3, <2>4, Zenon
    <2> QED
      BY <1>1, <1>4, <2>5
  <1>5. CASE n > Newlines(t)
    <2>1. Ends = {}
      <3> SUFFICES ASSUME NEW k \in 1 .. Len(file[t]), Count(t, "nl", k) = n PROVE FALSE
        BY <1>1
      <3>1. k \in Nat /\ k <= Len(file[t])
        BY <1>1
      <3>2. Count(t, "nl", k) <= Count(t, "nl", Len(file[t]))
        BY <1>1, <3>1, CountMono
      <3> QED
        BY <1>1, <1>5, <3>2 DEF Newlines
    <2> QED
      BY <1>1, <1>2, <1>5, <2>1
  <1> QED
    BY <1>1, <1>3, <1>4, <1>5

\* Behind a newline.
LEMMA BehindNewline ==
  ASSUME LinesTypes, NEW t \in TextIds, NEW k \in 1 .. Len(file[t]), file[t][k] = "nl"
  PROVE  Behind(t, Count(t, "nl", k)) = k /\ Count(t, "nl", k) \in 1 .. Newlines(t)
  <1> DEFINE n == Count(t, "nl", k)
  <1>1. Len(file[t]) \in Nat /\ k \in Nat \ {0} /\ k <= Len(file[t]) /\ 0 \in Nat /\ 0 <= k
    BY TextFacts
  <1>2. n \in Nat /\ Newlines(t) \in Nat /\ n <= Newlines(t)
    BY <1>1, CountMono, CountStep DEF Newlines
  <1>3. n # 0
    <2>1. Count(t, "nl", 0) # Count(t, "nl", k)
      <3>1. k \in 0 + 1 .. k
        BY <1>1
      <3> QED
        BY <1>1, <3>1, CountMono
    <2> QED
      BY <1>1, <2>1, CountStep
  <1>4. /\ Behind(t, n) \in Nat \ {0} /\ file[t][Behind(t, n)] = "nl"
        /\ Count(t, "nl", Behind(t, n)) = n
    BY <1>2, <1>3, BehindIs
  <1>5. Behind(t, n) = k
    BY <1>1, <1>4, CountOnce
  <1> QED
    BY <1>2, <1>3, <1>5

\* Lines end one after the other.
LEMMA BehindMono ==
  ASSUME LinesTypes, NEW t \in TextIds, NEW m \in Nat, NEW n \in Nat, m <= n
  PROVE  Behind(t, m) <= Behind(t, n)
  <1>1. /\ Behind(t, m) \in 0 .. Len(file[t]) /\ Behind(t, n) \in 0 .. Len(file[t])
        /\ Newlines(t) \in Nat /\ Len(file[t]) \in Nat
    BY BehindIs
  <1>2. CASE n > Newlines(t)
    <2>1. Behind(t, n) = Len(file[t])
      BY <1>2, BehindIs
    <2> QED
      BY <1>1, <2>1
  <1>3. CASE n <= Newlines(t)
    <2>1. Count(t, "nl", Behind(t, n)) = n
      BY <1>3, BehindIs
    <2>2. m <= Newlines(t)
      BY <1>1, <1>3
    <2>3. Count(t, "nl", Behind(t, m)) = m
      BY <2>2, BehindIs
    <2>4. CASE Behind(t, n) < Behind(t, m)
      <3>1. Behind(t, n) \in Nat /\ Behind(t, m) \in Nat /\ Behind(t, n) <= Behind(t, m)
        BY <1>1, <2>4
      <3>2. Count(t, "nl", Behind(t, n)) <= Count(t, "nl", Behind(t, m))
        BY <3>1, CountMono
      <3>3. m = n
        BY <2>1, <2>3, <3>2
      <3> QED
        BY <1>1, <3>3
    <2> QED
      BY <1>1, <2>4
  <1> QED
    BY <1>1, <1>2, <1>3

\* The next newline ends the next line, and there is none behind the last one.
LEMMA NextNewline ==
  ASSUME LinesTypes, NEW t \in TextIds, NEW n \in Nat
  PROVE  /\ n < Newlines(t) =>
              /\ Behind(t, n + 1) \in Behind(t, n) + 1 .. Len(file[t])
              /\ file[t][Behind(t, n + 1)] = "nl"
              /\ \A l \in Behind(t, n) + 1 .. Len(file[t]) :
                   file[t][l] = "nl" => Behind(t, n + 1) <= l
         /\ n >= Newlines(t) => \A l \in Behind(t, n) + 1 .. Len(file[t]) : file[t][l] # "nl"
  <1>1. /\ Behind(t, n) \in Nat /\ Behind(t, n) <= Len(file[t])
        /\ Newlines(t) \in Nat /\ Len(file[t]) \in Nat
    BY BehindIs
  <1>2. CASE n < Newlines(t)
    <2>1. n + 1 \in Nat /\ n + 1 <= Newlines(t) /\ n <= Newlines(t) /\ n + 1 # 0
      BY <1>1, <1>2
    <2>2. /\ Behind(t, n + 1) \in 0 .. Len(file[t]) /\ file[t][Behind(t, n + 1)] = "nl"
          /\ Count(t, "nl", Behind(t, n + 1)) = n + 1
      BY <2>1, BehindIs
    <2>3. Behind(t, n) <= Behind(t, n + 1)
      BY <2>1, BehindMono
    <2>4. Count(t, "nl", Behind(t, n)) = n
      BY <2>1, BehindIs
    <2>5. Behind(t, n) # Behind(t, n + 1)
      BY <2>2, <2>4
    <2>6. Behind(t, n + 1) \in Behind(t, n) + 1 .. Len(file[t])
      BY <1>1, <2>2, <2>3, <2>5
    <2>7. ASSUME NEW l \in Behind(t, n) + 1 .. Len(file[t]), file[t][l] = "nl"
          PROVE  Behind(t, n + 1) <= l
      <3>1. l \in Nat /\ l \in 1 .. Len(file[t]) /\ Behind(t, n) < l
        BY <1>1
      <3>2. Behind(t, Count(t, "nl", l)) = l /\ Count(t, "nl", l) \in 1 .. Newlines(t)
        BY <2>7, <3>1, BehindNewline
      <3>3. PICK c \in Nat : c = Count(t, "nl", l)
        BY <1>1, <3>2
      <3>4. CASE c <= n
        <4>1. Behind(t, c) <= Behind(t, n)
          BY <3>4, BehindMono
        <4> QED
          BY <1>1, <3>1, <3>2, <3>3, <4>1
      <3>5. CASE n + 1 <= c
        BY <2>1, <3>2, <3>3, <3>5, BehindMono
      <3> QED
        BY <3>4, <3>5
    <2>8. ~ (n >= Newlines(t))
      BY <1>1, <1>2
    <2> QED
      BY <2>2, <2>6, <2>7, <2>8
  <1>3. CASE n = Newlines(t)
    <2>1. Count(t, "nl", Behind(t, n)) = Count(t, "nl", Len(file[t]))
      BY <1>3, BehindIs DEF Newlines
    <2> QED
      BY <1>1, <1>3, <2>1, CountMono
  <1>4. CASE n > Newlines(t)
    <2>1. Behind(t, n) = Len(file[t])
      BY <1>4, BehindIs
    <2> QED
      BY <1>1, <1>4, <2>1
  <1> QED
    BY <1>1, <1>2, <1>3, <1>4

\* Whether the last line of a text has an end.
LEMMA EndedIs ==
  ASSUME LinesTypes, NEW t \in TextIds
  PROVE  /\ Ended(t) <=> Behind(t, Newlines(t)) = Len(file[t])
         /\ ~Ended(t) => Len(file[t]) # 0 /\ file[t][Len(file[t])] = "tk"
  <1> DEFINE n == Newlines(t)
             k == Len(file[t])
  <1>1. /\ n \in Nat /\ k \in Nat
        /\ Behind(t, n) \in Nat /\ Behind(t, n) <= k
        /\ n # 0 => file[t][Behind(t, n)] = "nl"
        /\ n = 0 => Behind(t, n) = 0
    <2>1. n \in Nat /\ n <= n
      BY BehindIs
    <2> QED
      BY <2>1, BehindIs
  <1>5. /\ file[t] = <<>> <=> k = 0
        /\ \A l \in 1 .. k : file[t][l] \in {"tk", "nl"}
    BY TextFacts
  <1>2. ASSUME k # 0, file[t][k] = "nl" PROVE Behind(t, n) = k
    <2>1. k \in 1 .. Len(file[t])
      BY <1>1, <1>2
    <2>2. Behind(t, Count(t, "nl", k)) = k
      BY <1>2, <2>1, BehindNewline
    <2> QED
      BY <2>2 DEF Newlines
  <1>3. ASSUME k # 0, Behind(t, n) = k PROVE file[t][k] = "nl"
    BY <1>1, <1>3
  <1>4. k # 0 => k \in 1 .. k
    BY <1>1
  <1> QED
    BY <1>1, <1>2, <1>3, <1>4, <1>5 DEF Ended

\* The tokens of a text.
LEMMA TokensAre ==
  ASSUME LinesTypes, NEW t \in TextIds
  PROVE  Tokens(t) \in Nat /\ Tokens(t) = Count(t, "tk", Len(file[t]))
  <1>1. Len(file[t]) \in Nat /\ DOMAIN file[t] = 1 .. Len(file[t])
    BY TextFacts
  <1>2. Tokens(t) = Count(t, "tk", Len(file[t]))
    BY <1>1 DEF Tokens, Count
  <1> QED
    BY <1>1, <1>2, CountStep

\* The tokens up to the ends of lines.
LEMMA TokensToIs ==
  ASSUME LinesTypes, NEW t \in TextIds, NEW n \in Nat
  PROVE  /\ TokensTo(t, n) \in Nat /\ Tokens(t) \in Nat
         /\ TokensTo(t, 0) = 0
         /\ TokensTo(t, n) <= TokensTo(t, n + 1) /\ TokensTo(t, n) <= Tokens(t)
         /\ n > Newlines(t) => TokensTo(t, n) = Tokens(t)
         /\ Ended(t) => TokensTo(t, Newlines(t)) = Tokens(t)
         /\ ~Ended(t) => TokensTo(t, Newlines(t)) < Tokens(t)
  <1> DEFINE k == Len(file[t])
             m == Newlines(t)
  <1>1. /\ k \in Nat /\ m \in Nat /\ n + 1 \in Nat /\ n <= n + 1
        /\ DOMAIN file[t] = 1 .. k
    BY TextFacts, CountStep DEF Newlines
  <1>2. /\ Behind(t, n) \in Nat /\ Behind(t, n) <= k
        /\ Behind(t, n + 1) \in Nat /\ Behind(t, n) <= Behind(t, n + 1)
        /\ Behind(t, m) \in Nat /\ Behind(t, m) <= k
    <2>1. Behind(t, n) \in Nat /\ Behind(t, n) <= k
      BY BehindIs
    <2>2. Behind(t, n + 1) \in Nat
      BY <1>1, BehindIs
    <2>3. Behind(t, m) \in Nat /\ Behind(t, m) <= k
      BY <1>1, BehindIs
    <2>4. Behind(t, n) <= Behind(t, n + 1)
      BY <1>1, BehindMono
    <2> QED
      BY <2>1, <2>2, <2>3, <2>4
  <1>3. Tokens(t) = Count(t, "tk", k)
    BY TokensAre
  <1>4. /\ Count(t, "tk", k) \in Nat /\ TokensTo(t, n) \in Nat /\ TokensTo(t, m) \in Nat
    BY <1>1, <1>2, CountStep DEF TokensTo
  <1>5. TokensTo(t, 0) = 0
    <2>1. Behind(t, 0) = 0
      BY BehindIs
    <2> QED
      BY <2>1, CountStep DEF TokensTo
  <1>6. TokensTo(t, n) <= TokensTo(t, n + 1) /\ TokensTo(t, n) <= Tokens(t)
    BY <1>1, <1>2, <1>3, CountMono DEF TokensTo
  <1>7. n > Newlines(t) => TokensTo(t, n) = Tokens(t)
    BY <1>3, BehindIs DEF TokensTo
  <1>8. Ended(t) => TokensTo(t, m) = Tokens(t)
    BY <1>3, EndedIs DEF TokensTo
  <1>9. ~Ended(t) => TokensTo(t, m) < Tokens(t)
    <2> SUFFICES ASSUME ~Ended(t) PROVE TokensTo(t, m) < Tokens(t)
      OBVIOUS
    <2>1. k # 0 /\ file[t][k] = "tk" /\ Behind(t, m) # k
      BY EndedIs
    <2>2. k \in Behind(t, m) + 1 .. k
      BY <1>1, <1>2, <2>1
    <2>3. Count(t, "tk", Behind(t, m)) <= Count(t, "tk", k)
          /\ Count(t, "tk", Behind(t, m)) # Count(t, "tk", k)
      BY <1>1, <1>2, <2>1, <2>2, CountMono
    <2> QED
      BY <1>3, <1>4, <2>3 DEF TokensTo
  <1> QED
    BY <1>3, <1>4, <1>5, <1>6, <1>7, <1>8, <1>9

\* Every token has a place.
LEMMA TokenPlace ==
  ASSUME LinesTypes, NEW t \in TextIds, NEW tk \in Nat, tk < Tokens(t)
  PROVE  \E k \in 1 .. Len(file[t]) :
           /\ k \in Nat \ {0} /\ file[t][k] = "tk" /\ Count(t, "tk", k) = tk + 1
           /\ LineOf(t, tk) = 1 + Count(t, "nl", k)
  <1> DEFINE P(l) == file[t][l] = "tk" /\ Count(t, "tk", l - 1) = tk
             c == CHOOSE l \in DOMAIN file[t] : P(l)
  <1>1. DOMAIN file[t] = 1 .. Len(file[t]) /\ Len(file[t]) \in Nat
    BY TextFacts
  <1>2. tk + 1 \in Nat \ {0} /\ tk + 1 <= Count(t, "tk", Len(file[t]))
    BY TokensAre
  <1>3. PICK k \in 1 .. Len(file[t]) : file[t][k] = "tk" /\ Count(t, "tk", k) = tk + 1
    BY <1>1, <1>2, CountReach
  <1>4. ASSUME NEW l \in 1 .. Len(file[t]), file[t][l] = "tk"
        PROVE  Count(t, "tk", l - 1) \in Nat /\ Count(t, "tk", l) = Count(t, "tk", l - 1) + 1
    <2>1. l \in Nat \ {0}
      BY <1>1
    <2> QED
      BY <1>4, <2>1, CountAt
  <1>5. k \in DOMAIN file[t] /\ P(k)
    BY <1>1, <1>3, <1>4
  <1>6. c \in DOMAIN file[t] /\ P(c)
    <2> HIDE DEF P
    <2> QED
      BY <1>5, Zenon
  <1>7. LineOf(t, tk) = 1 + Count(t, "nl", c)
    BY DEF LineOf, IsTokenAt, Count
  <1>8. PICK l \in 1 .. Len(file[t]) : P(l) /\ LineOf(t, tk) = 1 + Count(t, "nl", l)
    <2> HIDE DEF P, c
    <2> QED
      BY <1>1, <1>6, <1>7
  <1> QED
    BY <1>1, <1>4, <1>8

\* A token is behind the end of a line if there are fewer tokens up to there.
LEMMA LineFromCounts ==
  ASSUME LinesTypes, NEW t \in TextIds, NEW tk \in Nat, tk < Tokens(t),
         NEW n \in Nat, n <= Newlines(t)
  PROVE  LineOf(t, tk) > n <=> TokensTo(t, n) <= tk
  <1>1. PICK k \in 1 .. Len(file[t]) :
           /\ k \in Nat \ {0} /\ file[t][k] = "tk" /\ Count(t, "tk", k) = tk + 1
           /\ LineOf(t, tk) = 1 + Count(t, "nl", k)
    BY TokenPlace
  <1>2. PICK b \in Nat : /\ b = Behind(t, n) /\ Count(t, "nl", b) = n
                         /\ n # 0 => file[t][b] = "nl"
                         /\ n = 0 => b = 0
    BY BehindIs
  <1>3. Count(t, "tk", b) \in Nat /\ Count(t, "nl", k) \in Nat /\ TokensTo(t, n) = Count(t, "tk", b)
    BY <1>1, <1>2, CountStep DEF TokensTo
  <1>4. CASE b < k
    <2>1. b <= k /\ k \in b + 1 .. k
      BY <1>1, <1>2, <1>4
    <2>2. n <= Count(t, "nl", k)
      BY <1>1, <1>2, <2>1, CountMono
    <2>3. Count(t, "tk", b) <= tk + 1 /\ Count(t, "tk", b) # tk + 1
      BY <1>1, <1>2, <2>1, CountMono
    <2> QED
      BY <1>1, <1>2, <1>3, <2>2, <2>3
  <1>5. CASE k < b
    <2>1. k <= b /\ b \in k + 1 .. b /\ n # 0
      BY <1>1, <1>2, <1>5
    <2>2. Count(t, "nl", k) <= n /\ Count(t, "nl", k) # n
      BY <1>1, <1>2, <2>1, CountMono
    <2>3. tk + 1 <= Count(t, "tk", b)
      BY <1>1, <1>2, <2>1, CountMono
    <2> QED
      BY <1>1, <1>2, <1>3, <2>2, <2>3
  <1>6. b # k
    BY <1>1, <1>2
  <1> QED
    BY <1>1, <1>2, <1>4, <1>5, <1>6

\* Which lines tokens are in: the order of tokens is that of their lines.
LEMMA LineBounds ==
  ASSUME LinesTypes, NEW t \in TextIds, NEW tk \in Nat, tk < Tokens(t)
  PROVE  /\ LineOf(t, tk) \in Nat /\ LineOf(t, tk) \in 1 .. Newlines(t) + 1
         /\ LineOf(t, tk) <= MaxLexemes + 1
         /\ \A k \in Nat : k <= tk => LineOf(t, k) <= LineOf(t, tk)
  <1>1. /\ Newlines(t) \in Nat /\ Newlines(t) <= MaxLexemes /\ MaxLexemes \in Nat
    <2>1. Len(file[t]) \in Nat /\ Len(file[t]) \in 0 .. MaxLexemes /\ MaxLexemes \in Nat
      BY TextFacts, LinesAssumption
    <2>2. Newlines(t) \in 0 .. Len(file[t])
      BY <2>1, CountBound DEF Newlines
    <2> QED
      BY <2>1, <2>2
  <1>2. ASSUME NEW k \in Nat, k < Tokens(t)
        PROVE  LineOf(t, k) \in Nat /\ LineOf(t, k) \in 1 .. Newlines(t) + 1
    <2>1. PICK l \in 1 .. Len(file[t]) : LineOf(t, k) = 1 + Count(t, "nl", l)
      BY <1>2, TokenPlace
    <2>2. l \in Nat /\ l <= Len(file[t]) /\ Len(file[t]) \in Nat
      BY TextFacts
    <2>3. Count(t, "nl", l) \in Nat /\ Count(t, "nl", l) <= Newlines(t)
      BY <2>2, CountStep, CountMono DEF Newlines
    <2> QED
      BY <1>1, <2>1, <2>3
  <1>3. ASSUME NEW k \in Nat, k <= tk PROVE LineOf(t, k) <= LineOf(t, tk)
    <2>1. k < Tokens(t) /\ Tokens(t) \in Nat
      BY <1>3, TokensAre
    <2>2. PICK n \in Nat : n = LineOf(t, k) - 1 /\ n <= Newlines(t)
      BY <1>1, <1>2, <2>1
    <2>3. LineOf(t, k) > n
      BY <1>2, <2>1, <2>2
    <2>4. TokensTo(t, n) <= k
      BY <2>1, <2>2, <2>3, LineFromCounts
    <2>5. TokensTo(t, n) <= tk
      BY <1>3, <2>4, TokensToIs
    <2>6. LineOf(t, tk) > n
      BY <2>2, <2>5, LineFromCounts
    <2> QED
      BY <1>2, <2>1, <2>2, <2>6
  <1> QED
    BY <1>1, <1>2, <1>3

\* The line of a token from the counts at its ends.
LEMMA LineIs ==
  ASSUME LinesTypes, NEW t \in TextIds, NEW tk \in Nat, tk < Tokens(t),
         NEW n \in Nat, n <= Newlines(t), TokensTo(t, n) <= tk,
         n < Newlines(t) => tk < TokensTo(t, n + 1)
  PROVE  LineOf(t, tk) = n + 1
  <1>1. LineOf(t, tk) > n
    BY LineFromCounts
  <1>2. LineOf(t, tk) \in Nat /\ LineOf(t, tk) \in 1 .. Newlines(t) + 1 /\ Newlines(t) \in Nat
    BY LineBounds, BehindIs
  <1>3. CASE n < Newlines(t)
    <2>1. n + 1 \in Nat /\ n + 1 <= Newlines(t) /\ TokensTo(t, n + 1) \in Nat
      BY <1>2, <1>3, TokensToIs
    <2>2. ~ (LineOf(t, tk) > n + 1)
      BY <1>3, <2>1, LineFromCounts
    <2> QED
      BY <1>1, <1>2, <2>2
  <1>4. CASE n = Newlines(t)
    BY <1>1, <1>2, <1>4
  <1> QED
    BY <1>2, <1>3, <1>4

-----------------------------------------------------------------------------
(* First pass: every step keeps the invariant.                             *)

\* Files do not change, and with them nothing that is counted in them.
LEMMA SameFile ==
  ASSUME file' = file
  PROVE  /\ TextIds' = TextIds
         /\ \A t, x, k : Count(t, x, k)' = Count(t, x, k)
         /\ \A t, n : Behind(t, n)' = Behind(t, n)
         /\ \A t, n : TokensTo(t, n)' = TokensTo(t, n)
         /\ \A t : /\ Newlines(t)' = Newlines(t) /\ Ended(t)' = Ended(t)
                   /\ Entries(t)' = Entries(t) /\ Tokens(t)' = Tokens(t)
         /\ \A t, tk : LineOf(t, tk)' = LineOf(t, tk)
  <1>1. TextIds' = TextIds
    BY DEF TextIds
  <1>2. \A t, x, k : Count(t, x, k)' = Count(t, x, k)
    BY DEF Count
  <1>3. \A t, n : Behind(t, n)' = Behind(t, n)
    BY DEF Behind
  <1>4. \A t, n : TokensTo(t, n)' = TokensTo(t, n)
    BY <1>2, <1>3 DEF TokensTo
  <1>5. \A t : Newlines(t)' = Newlines(t) /\ Ended(t)' = Ended(t)
    BY <1>2 DEF Newlines, Ended
  <1>6. \A t : Entries(t)' = Entries(t)
    BY <1>5 DEF Entries
  <1>7. \A t : Tokens(t)' = Tokens(t)
    BY DEF Tokens
  <1>8. \A t, tk : LineOf(t, tk)' = LineOf(t, tk)
    BY DEF LineOf, IsTokenAt
  <1> QED
    BY <1>1, <1>2, <1>3, <1>4, <1>5, <1>6, <1>7, <1>8

\* Nothing is read yet.
LEMMA LinesInitial == LinesInit => LinesInv
  <1> SUFFICES ASSUME LinesInit PROVE LinesInv
    OBVIOUS
  <1> USE DEF LinesInit
  <1>1. 1 \in TextIds
    <2>1. PICK n \in 1 .. MaxTexts : file \in [1 .. n -> Content]
      OBVIOUS
    <2> QED
      BY <2>1, LinesAssumption DEF TextIds
  <1>2. LinesTypes
    BY <1>1 DEF LinesTypes
  <1>3. FirstPass
    <2>1. \A t \in TextIds : ~ (t < cur)
      BY <1>2, TextFacts
    <2> QED
      BY <2>1 DEF FirstPass
  <1> QED
    BY <1>2, <1>3 DEF LinesInv

\* What was noted of a text stays while the buffer grows.
LEMMA NotedStays ==
  ASSUME LinesTypes, NEW t \in TextIds, Noted(t), file' = file,
         tx_nl_start'[t] = tx_nl_start[t], tx_nl_limit'[t] = tx_nl_limit[t],
         tx_EOL_terminated'[t] = tx_EOL_terminated[t],
         kept' => /\ kept /\ Len(nl_buff) <= Len(nl_buff') /\ Len(nl_buff') \in Nat
                  /\ \A j \in 1 .. Len(nl_buff) : nl_buff'[j] = nl_buff[j]
  PROVE  Noted(t)'
  <1>1. file[t]' = file[t] /\ Ended(t)' = Ended(t) /\ Entries(t)' = Entries(t)
        /\ \A n : TokensTo(t, n)' = TokensTo(t, n)
    BY SameFile
  <1>2. ASSUME kept' PROVE EntriesRight(t, Entries(t))'
    <2>1. EntriesRight(t, Entries(t))
      BY <1>2 DEF Noted
    <2>2. /\ tx_nl_start[t] \in Nat /\ Len(nl_buff) \in Nat
          /\ Entries(t) \in Nat
      <3>1. tx_nl_start[t] \in Nat /\ Len(nl_buff) \in Nat
        BY DEF LinesTypes
      <3>2. 0 \in Nat /\ Newlines(t) \in Nat
        BY BehindIs
      <3> QED
        BY <3>1, <3>2 DEF Entries
    <2>3. tx_nl_start[t] + Entries(t) <= Len(nl_buff')
      BY <1>2, <2>1, <2>2 DEF EntriesRight
    <2>4. ASSUME NEW j \in 1 .. Entries(t)
          PROVE  nl_buff'[tx_nl_start[t] + j] = TokensTo(t, j) - TokensTo(t, j - 1)
      <3>1. tx_nl_start[t] + j \in 1 .. Len(nl_buff)
        BY <2>1, <2>2 DEF EntriesRight
      <3>2. nl_buff[tx_nl_start[t] + j] = TokensTo(t, j) - TokensTo(t, j - 1)
        BY <2>1 DEF EntriesRight
      <3> QED
        BY <1>2, <3>1, <3>2
    <2> QED
      BY <1>1, <2>3, <2>4 DEF EntriesRight
  <1> QED
    BY <1>1, <1>2 DEF Noted

\* Open_Text(First_Pass).
LEMMA OpenFirstStep ==
  ASSUME LinesInv, OpenFirst
  PROVE  LinesInv'
  <1> USE DEF OpenFirst, lexVars, buffVars, textInfo, passTwo
  <1>1. LinesTypes /\ FirstPass /\ cur \in TextIds /\ Len(nl_buff) \in Nat
    BY DEF LinesInv, LinesTypes
  <1>2. LinesTypes'
    BY <1>1 DEF LinesTypes, TextIds, FoundType
  <1>3. ASSUME NEW t \in TextIds, t < cur PROVE Noted(t)'
    <2>1. t # cur
      BY <1>1, <1>3, TextFacts
    <2>2. Noted(t) /\ tx_nl_start'[t] = tx_nl_start[t]
      BY <1>1, <1>3, <2>1 DEF FirstPass, LinesTypes
    <2> QED
      BY <1>1, <2>2, NotedStays
  <1>4. Reading'
    <2>1. Count(cur, "nl", 0) = 0 /\ Count(cur, "tk", 0) = 0 /\ TokensTo(cur, 0) = 0
      BY <1>1, CountStep, TokensToIs
    <2>2. Len(file[cur]) \in Nat
      BY <1>1, TextFacts
    <2>3. tx_nl_start'[cur] = Len(nl_buff)
      BY <1>1 DEF LinesTypes
    <2>4. EntriesRight(cur, 0)'
      BY <1>1, <2>3 DEF EntriesRight
    <2>5. Count(cur, "nl", 0)' = 0 /\ Count(cur, "tk", 0)' = 0 /\ TokensTo(cur, 0)' = 0
      BY <2>1, SameFile
    <2> QED
      BY <1>1, <2>2, <2>3, <2>4, <2>5 DEF Reading
  <1>5. FirstPass'
    BY <1>1, <1>3, <1>4 DEF FirstPass, TextIds
  <1> QED
    BY <1>2, <1>5 DEF LinesInv

\* store_newline at the end of line n + 1 of a text.
LEMMA StoreStep ==
  ASSUME LinesTypes, file' = file, tx_nl_start' = tx_nl_start, StoreNewline,
         NEW t \in TextIds, NEW n \in Nat,
         last_tk_cnt = TokensTo(t, n), lex_tk_cnt = TokensTo(t, n + 1),
         kept => Len(nl_buff) = tx_nl_start[t] + n /\ EntriesRight(t, n)
  PROVE  /\ nl_buff' \in Seq(Nat) /\ kept' \in BOOLEAN
         /\ kept' => /\ kept /\ Len(nl_buff') = Len(nl_buff) + 1
                     /\ \A j \in 1 .. Len(nl_buff) : nl_buff'[j] = nl_buff[j]
                     /\ Len(nl_buff') = tx_nl_start[t] + (n + 1) /\ EntriesRight(t, n + 1)'
  <1> DEFINE d == lex_tk_cnt - last_tk_cnt
  <1>1. d \in Nat /\ d = TokensTo(t, n + 1) - TokensTo(t, n)
    <2>1. n + 1 \in Nat
      OBVIOUS
    <2>2. TokensTo(t, n) \in Nat /\ TokensTo(t, n) <= TokensTo(t, n + 1)
      BY TokensToIs
    <2>3. TokensTo(t, n + 1) \in Nat
      BY <2>1, TokensToIs
    <2> QED
      BY <2>2, <2>3
  <1>2. nl_buff \in Seq(Nat) /\ tx_nl_start[t] \in Nat /\ Len(nl_buff) \in Nat
    BY DEF LinesTypes
  <1>3. \/ kept /\ nl_buff' = Append(nl_buff, d) /\ kept' = kept
        \/ nl_buff' = <<>> /\ kept' = FALSE
    BY DEF StoreNewline
  <1>4. CASE kept /\ nl_buff' = Append(nl_buff, d) /\ kept' = kept
    <2> HIDE DEF d
    <2>1. /\ nl_buff' \in Seq(Nat) /\ Len(nl_buff') = Len(nl_buff) + 1
          /\ \A j \in 1 .. Len(nl_buff) : nl_buff'[j] = nl_buff[j]
          /\ nl_buff'[Len(nl_buff) + 1] = d
      BY <1>1, <1>2, <1>4
    <2>2. Len(nl_buff') = tx_nl_start[t] + (n + 1)
      <3>1. Len(nl_buff) = tx_nl_start[t] + n
        BY <1>4
      <3>2. PICK start \in Nat : start = tx_nl_start[t]
        BY <1>2
      <3>3. Len(nl_buff') = (start + n) + 1
        BY <2>1, <3>1, <3>2
      <3> QED
        BY <3>2, <3>3
    <2>3. ASSUME NEW j \in 1 .. n + 1
          PROVE  nl_buff'[tx_nl_start[t] + j] = TokensTo(t, j) - TokensTo(t, j - 1)
      <3>1. CASE j = n + 1
        <4>1. tx_nl_start[t] + j = Len(nl_buff) + 1 /\ j - 1 = n
          BY <1>2, <1>4, <3>1
        <4> QED
          BY <1>1, <2>1, <3>1, <4>1
      <3>2. CASE j \in 1 .. n
        <4>1. tx_nl_start[t] + j \in 1 .. Len(nl_buff)
          BY <1>2, <1>4, <3>2
        <4>2. nl_buff[tx_nl_start[t] + j] = TokensTo(t, j) - TokensTo(t, j - 1)
          BY <1>4, <3>2 DEF EntriesRight
        <4> QED
          BY <2>1, <4>1, <4>2
      <3> QED
        BY <3>1, <3>2
    <2>4. EntriesRight(t, n + 1)'
      <3>1. \A j : TokensTo(t, j)' = TokensTo(t, j)
        BY SameFile
      <3> QED
        BY <1>2, <2>2, <2>3, <3>1 DEF EntriesRight
    <2> QED
      BY <1>4, <2>1, <2>2, <2>4
  <1>5. CASE nl_buff' = <<>> /\ kept' = FALSE
    <2>1. <<>> \in Seq(Nat)
      OBVIOUS
    <2>2. kept' \in BOOLEAN /\ ~kept'
      BY <1>5, Zenon
    <2> QED
      BY <1>5, <2>1, <2>2
  <1> QED
    BY <1>3, <1>4, <1>5

\* After k lexemes of text t.
LEMMA ReadingNext ==
  ASSUME file' = file, NEW t, NEW k, NEW n, cur' = t, at' = k,
         k <= Len(file[t]), n = Count(t, "nl", k),
         lex_tk_cnt' = Count(t, "tk", k), last_tk_cnt' = TokensTo(t, n),
         k # 0 => lex_token' = file[t][k],
         kept' => Len(nl_buff') = tx_nl_start'[t] + n /\ EntriesRight(t, n)'
  PROVE  Reading'
  <1>1. /\ Count(cur, "nl", at)' = n /\ Count(cur, "tk", at)' = Count(t, "tk", k)
        /\ TokensTo(cur, n)' = TokensTo(t, n)
    <2>1. /\ Count(t, "nl", k)' = Count(t, "nl", k) /\ Count(t, "tk", k)' = Count(t, "tk", k)
          /\ TokensTo(t, n)' = TokensTo(t, n)
      BY SameFile
    <2> QED
      BY <2>1
  <1>2. EntriesRight(t, n)' => EntriesRight(cur, n)'
    OBVIOUS
  <1> QED
    BY <1>1, <1>2 DEF Reading

\* Next_Token_Obtained yields a token.
LEMMA ReadTokenStep ==
  ASSUME LinesInv, ReadToken
  PROVE  LinesInv'
  <1> USE DEF ReadToken, More, lexVars, buffVars, textInfo, passTwo
  <1>1. LinesTypes /\ FirstPass /\ Reading /\ cur \in TextIds /\ at \in Nat
    BY DEF LinesInv, LinesTypes, FirstPass
  <1>2. LinesTypes'
    BY <1>1 DEF LinesTypes, TextIds, FoundType
  <1>3. ASSUME NEW t \in TextIds, t < cur PROVE Noted(t)'
    <2>1. Noted(t) /\ Len(nl_buff) \in Nat /\ Len(nl_buff) <= Len(nl_buff)
      BY <1>1, <1>3 DEF FirstPass, LinesTypes
    <2> QED
      BY <1>1, <2>1, NotedStays
  <1>4. Reading'
    <2>1. PICK t \in TextIds : t = cur
      BY <1>1
    <2>2. PICK k \in Nat : k = at
      BY <1>1
    <2>3. /\ Len(file[t]) \in Nat /\ k + 1 \in Nat \ {0} /\ (k + 1) - 1 = k
          /\ k <= k + 1 /\ k + 1 <= Len(file[t])
      BY <1>1, <2>1, <2>2, TextFacts
    <2>4. Count(t, "tk", k + 1) = Count(t, "tk", k) + 1
      BY <2>1, <2>2, <2>3, CountAt
    <2>5. Count(t, "nl", k + 1) = Count(t, "nl", k)
      <3>1. \A l \in k + 1 .. k + 1 : file[t][l] # "nl"
        BY <2>1, <2>2, <2>3
      <3>2. Count(t, "nl", k) = Count(t, "nl", k + 1)
        BY <2>2, <2>3, <3>1, CountMono
      <3> QED
        BY <3>2
    <2>6. PICK n : n = Count(t, "nl", k + 1)
      OBVIOUS
    <2>7. EntriesRight(t, n) => EntriesRight(t, n)'
      <3>1. \A j : TokensTo(t, j)' = TokensTo(t, j)
        BY SameFile
      <3> QED
        BY <3>1 DEF EntriesRight
    <2>8. /\ lex_tk_cnt = Count(t, "tk", k) /\ last_tk_cnt = TokensTo(t, n)
          /\ kept => Len(nl_buff) = tx_nl_start[t] + n /\ EntriesRight(t, n)
      BY <1>1, <2>1, <2>2, <2>5, <2>6 DEF Reading
    <2>9. cur' = t /\ at' = k + 1 /\ lex_tk_cnt' = Count(t, "tk", k + 1)
          /\ last_tk_cnt' = TokensTo(t, n) /\ lex_token' = file[t][k + 1]
          /\ (kept' => Len(nl_buff') = tx_nl_start'[t] + n /\ EntriesRight(t, n)')
      BY <2>1, <2>2, <2>4, <2>7, <2>8
    <2> QED
      BY <2>3, <2>6, <2>9, ReadingNext
  <1>5. FirstPass'
    BY <1>1, <1>3, <1>4 DEF FirstPass, TextIds
  <1> QED
    BY <1>2, <1>5 DEF LinesInv

\* ... or a newline.
LEMMA ReadNewlineStep ==
  ASSUME LinesInv, ReadNewline
  PROVE  LinesInv'
  <1> USE DEF ReadNewline, More, lexVars, buffVars, textInfo, passTwo
  <1>1. LinesTypes /\ FirstPass /\ Reading /\ cur \in TextIds /\ at \in Nat
    BY DEF LinesInv, LinesTypes, FirstPass
  <1>t. PICK t \in TextIds : t = cur
    BY <1>1
  <1>k. PICK k \in Nat : k = at
    BY <1>1
  <1>2. Len(file[t]) \in Nat /\ k + 1 \in Nat \ {0} /\ (k + 1) - 1 = k
        /\ k + 1 \in 1 .. Len(file[t]) /\ k + 1 <= Len(file[t]) /\ k <= k + 1
        /\ file[t][k + 1] = "nl"
    BY <1>1, <1>t, <1>k, TextFacts
  <1>3. PICK n \in Nat : n = Count(t, "nl", k)
    BY CountStep
  <1>4. Count(t, "nl", k + 1) = n + 1
    BY <1>2, <1>3, CountAt
  <1>5. Count(t, "tk", k + 1) = Count(t, "tk", k)
    <2>1. \A l \in k + 1 .. k + 1 : file[t][l] # "tk"
      BY <1>2
    <2>2. Count(t, "tk", k) = Count(t, "tk", k + 1)
      BY <1>2, <2>1, CountMono
    <2> QED
      BY <2>2
  <1>6. Behind(t, n + 1) = k + 1
    BY <1>1, <1>2, <1>4, BehindNewline
  <1>7. lex_tk_cnt = TokensTo(t, n + 1) /\ last_tk_cnt = TokensTo(t, n)
    BY <1>1, <1>t, <1>k, <1>3, <1>5, <1>6 DEF Reading, TokensTo
  <1>8. /\ nl_buff' \in Seq(Nat) /\ kept' \in BOOLEAN
        /\ kept' => /\ kept /\ Len(nl_buff') = Len(nl_buff) + 1
                    /\ \A j \in 1 .. Len(nl_buff) : nl_buff'[j] = nl_buff[j]
                    /\ Len(nl_buff') = tx_nl_start[t] + (n + 1) /\ EntriesRight(t, n + 1)'
    <2>1. kept => Len(nl_buff) = tx_nl_start[t] + n /\ EntriesRight(t, n)
      BY <1>1, <1>t, <1>k, <1>3 DEF Reading
    <2>2. file' = file /\ tx_nl_start' = tx_nl_start /\ StoreNewline
      OBVIOUS
    <2> HIDE DEF ReadNewline
    <2> QED
      BY <1>1, <1>7, <2>1, <2>2, StoreStep
  <1>9. LinesTypes'
    <2>1. lex_nl_cnt + 1 \in Nat \ {0} /\ at + 1 \in Nat
      <3>1. PICK m \in Nat, j \in Nat : m = lex_nl_cnt /\ j = at
        BY <1>1 DEF LinesTypes
      <3> QED
        BY <3>1
    <2> QED
      BY <1>1, <1>8, <2>1 DEF LinesTypes, TextIds, FoundType
  <1>10. ASSUME NEW u \in TextIds, u < cur PROVE Noted(u)'
    <2>1. Noted(u) /\ Len(nl_buff) \in Nat
      BY <1>1, <1>10 DEF FirstPass, LinesTypes
    <2>2. kept' => /\ kept /\ Len(nl_buff) <= Len(nl_buff') /\ Len(nl_buff') \in Nat
                   /\ \A j \in 1 .. Len(nl_buff) : nl_buff'[j] = nl_buff[j]
      <3>1. Len(nl_buff) <= Len(nl_buff) + 1 /\ Len(nl_buff) + 1 \in Nat
        BY <2>1
      <3> QED
        BY <1>8, <3>1, Zenon
    <2> QED
      BY <1>1, <2>1, <2>2, NotedStays
  <1>11. Reading'
    <2>1. /\ cur' = t /\ at' = k + 1 /\ lex_tk_cnt' = Count(t, "tk", k + 1)
          /\ last_tk_cnt' = TokensTo(t, n + 1) /\ lex_token' = file[t][k + 1]
      BY <1>1, <1>t, <1>k, <1>2, <1>5, <1>7 DEF Reading
    <2>2. kept' => Len(nl_buff') = tx_nl_start'[t] + (n + 1) /\ EntriesRight(t, n + 1)'
      BY <1>8
    <2> QED
      BY <1>2, <1>4, <2>1, <2>2, ReadingNext
  <1>12. FirstPass'
    BY <1>1, <1>10, <1>11 DEF FirstPass, TextIds
  <1> QED
    BY <1>9, <1>12 DEF LinesInv

\* Close_Text(First_Pass): all of the text is noted.
LEMMA CloseFirstStep ==
  ASSUME LinesInv, CloseFirst
  PROVE  LinesInv'
  <1> USE DEF lexVars, buffVars, textInfo, passTwo
  <1>1. /\ LinesTypes /\ FirstPass /\ Reading /\ cur \in TextIds /\ nl_buff \in Seq(Nat)
        /\ Len(nl_buff) \in Nat /\ kept \in BOOLEAN
    BY DEF LinesInv, LinesTypes, FirstPass, CloseFirst
  <1>2. PICK t \in TextIds : t = cur
    BY <1>1
  <1>3. Len(file[t]) \in Nat /\ at = Len(file[t])
    <2>1. Len(file[t]) \in Nat
      BY <1>1, TextFacts
    <2>2. at \in Nat /\ at <= Len(file[t]) /\ ~ (at < Len(file[t]))
      BY <1>1, <1>2 DEF LinesTypes, Reading, CloseFirst, More
    <2> QED
      BY <2>1, <2>2
  <1>4. PICK n \in Nat : n = Newlines(t)
    BY <1>1, BehindIs, CountStep
  <1>5. /\ last_tk_cnt = TokensTo(t, n) /\ lex_tk_cnt = Tokens(t)
        /\ at # 0 => lex_token = file[t][at]
        /\ kept => Len(nl_buff) = tx_nl_start[t] + n /\ EntriesRight(t, n)
    BY <1>1, <1>2, <1>3, <1>4, TokensAre DEF Reading, Newlines
  <1>6. lex_tk_cnt = TokensTo(t, n + 1)
    <2>1. n + 1 \in Nat /\ n + 1 > Newlines(t)
      BY <1>4
    <2>2. TokensTo(t, n + 1) = Tokens(t)
      BY <1>1, <2>1, TokensToIs
    <2> QED
      BY <1>5, <2>2
  <1>7. Ended(t) <=> last_tk_cnt = lex_tk_cnt
    <2>1. /\ TokensTo(t, n) \in Nat /\ Tokens(t) \in Nat
          /\ Ended(t) => TokensTo(t, Newlines(t)) = Tokens(t)
          /\ ~Ended(t) => TokensTo(t, Newlines(t)) < Tokens(t)
      BY <1>1, TokensToIs
    <2> QED
      BY <1>4, <1>5, <2>1
  <1>8. file' = file /\ tx_nl_start' = tx_nl_start /\ tx_pos' = tx_pos /\ found' = found
    BY DEF CloseFirst
  <1>e. PICK e \in Nat : e = Entries(t)
    BY <1>4 DEF Entries
  <1>9. /\ nl_buff' \in Seq(Nat) /\ kept' \in BOOLEAN
        /\ kept' => /\ kept /\ Len(nl_buff) <= Len(nl_buff') /\ Len(nl_buff') \in Nat
                    /\ \A j \in 1 .. Len(nl_buff) : nl_buff'[j] = nl_buff[j]
                    /\ Len(nl_buff') = tx_nl_start[t] + e /\ EntriesRight(t, e)'
    <2>1. CASE kept /\ last_tk_cnt # lex_tk_cnt
      <3>1. e = n + 1
        BY <1>4, <1>e, <1>7, <2>1 DEF Entries
      <3>2. StoreNewline
        BY <2>1 DEF CloseFirst
      <3>3. /\ nl_buff' \in Seq(Nat) /\ kept' \in BOOLEAN
            /\ kept' => /\ kept /\ Len(nl_buff') = Len(nl_buff) + 1
                        /\ \A j \in 1 .. Len(nl_buff) : nl_buff'[j] = nl_buff[j]
                        /\ Len(nl_buff') = tx_nl_start[t] + (n + 1) /\ EntriesRight(t, n + 1)'
        BY <1>1, <1>5, <1>6, <1>8, <3>2, StoreStep
      <3>4. Len(nl_buff) <= Len(nl_buff) + 1 /\ Len(nl_buff) + 1 \in Nat
        BY <1>1
      <3> QED
        BY <3>1, <3>3, <3>4, Zenon
    <2>2. CASE ~ (kept /\ last_tk_cnt # lex_tk_cnt)
      <3>1. nl_buff' = nl_buff /\ kept' = kept
        BY <2>2 DEF CloseFirst
      <3>2. kept => e = n
        BY <1>4, <1>e, <1>7, <2>2 DEF Entries
      <3>3. EntriesRight(t, n) => EntriesRight(t, n)'
        <4>1. \A j : TokensTo(t, j)' = TokensTo(t, j)
          BY <1>8, SameFile
        <4> QED
          BY <1>8, <3>1, <4>1 DEF EntriesRight
      <3>4. kept => Len(nl_buff) = tx_nl_start[t] + e /\ EntriesRight(t, e)'
        BY <1>5, <3>2, <3>3
      <3> QED
        BY <1>1, <3>1, <3>4
    <2> QED
      BY <2>1, <2>2
  <1>10. /\ tx_nl_limit'[t] = Len(nl_buff') /\ tx_EOL_terminated'[t] = (lex_token = "nl")
         /\ \A u \in TextIds : u # t => tx_nl_limit'[u] = tx_nl_limit[u]
                                        /\ tx_EOL_terminated'[u] = tx_EOL_terminated[u]
         /\ Len(nl_buff') \in Nat
         /\ tx_nl_limit' \in [TextIds -> Nat] /\ tx_EOL_terminated' \in [TextIds -> BOOLEAN]
    <2>1. Len(nl_buff') \in Nat
      BY <1>9
    <2> QED
      BY <1>1, <1>2, <2>1 DEF LinesTypes, CloseFirst
  <1>11. Noted(t)'
    <2>1. file[t]' = file[t] /\ Ended(t)' = Ended(t) /\ Entries(t)' = e
      BY <1>8, <1>e, SameFile
    <2>2. kept' => tx_nl_limit'[t] = tx_nl_start'[t] + e /\ EntriesRight(t, e)'
      BY <1>8, <1>9, <1>10
    <2>4. EntriesRight(t, e)' => EntriesRight(t, Entries(t))'
      BY <2>1
    <2>3. file[t] # <<>> => (Ended(t) <=> lex_token = "nl")
      BY <1>1, <1>3, <1>5, TextFacts DEF Ended
    <2> QED
      BY <1>10, <2>1, <2>2, <2>3, <2>4 DEF Noted
  <1>12. ASSUME NEW u \in TextIds, u < t PROVE Noted(u)'
    <2>1. Noted(u) /\ u # t
      BY <1>1, <1>2, <1>12, TextFacts DEF FirstPass
    <2>2. tx_nl_start'[u] = tx_nl_start[u] /\ tx_nl_limit'[u] = tx_nl_limit[u]
          /\ tx_EOL_terminated'[u] = tx_EOL_terminated[u]
      BY <1>8, <1>10, <2>1
    <2> QED
      BY <1>1, <1>8, <1>9, <2>1, <2>2, NotedStays
  <1>13. TextIds' = TextIds /\ TextIds = 1 .. Len(file) /\ Len(file) \in Nat \ {0}
    BY <1>1, <1>8, TextFacts, SameFile
  <1>14. LinesTypes'
    <2>1. cur' \in TextIds
      BY <1>1, <1>2, <1>13 DEF CloseFirst
    <2> QED
      BY <1>1, <1>8, <1>9, <1>10, <1>13, <2>1 DEF LinesTypes, CloseFirst, FoundType
  <1>15. CASE t = Len(file)
    <2>1. pc' = "runs" /\ cur' = 1
      BY <1>2, <1>15 DEF CloseFirst
    <2>2. \A u \in TextIds : Noted(u)'
      BY <1>11, <1>12, <1>13, <1>15
    <2> QED
      BY <1>1, <1>8, <1>13, <1>14, <2>1, <2>2 DEF LinesInv, FirstPass
  <1>16. CASE t # Len(file)
    <2>1. pc' = "open1" /\ cur' = t + 1
      BY <1>2, <1>16 DEF CloseFirst
    <2>2. \A u \in TextIds : u < t + 1 => Noted(u)'
      BY <1>11, <1>12, <1>13
    <2>3. FirstPass'
      BY <1>1, <1>8, <1>13, <2>1, <2>2 DEF FirstPass
    <2> QED
      BY <1>14, <2>1, <2>3 DEF LinesInv
  <1> QED
    BY <1>15, <1>16

-----------------------------------------------------------------------------
(* Second pass: every step keeps the invariant.                            *)

\* Compare_Files has chosen the runs.
LEMMA FindRunsStep ==
  ASSUME LinesInv, FindRuns
  PROVE  LinesInv'
  <1> USE DEF lexVars, buffVars, textInfo
  <1>1. /\ LinesTypes /\ \A t \in TextIds : Noted(t)
        /\ found = {} /\ cur = 1
    BY DEF LinesInv, FindRuns
  <1>2. /\ file' = file /\ found' = {} /\ cur' = cur /\ pc' = "open2"
        /\ kept' = kept /\ nl_buff' = nl_buff /\ tx_nl_start' = tx_nl_start
        /\ tx_nl_limit' = tx_nl_limit /\ tx_EOL_terminated' = tx_EOL_terminated
    BY <1>1 DEF FindRuns
  <1>3. TextIds' = TextIds /\ \A t : Tokens(t)' = Tokens(t)
    BY <1>2, SameFile
  <1>4. ASSUME NEW t \in TextIds
        PROVE  \/ tx_pos'[t] = {}
               \/ \E f, l \in Nat : /\ tx_pos'[t] = {[type |-> "first", tk |-> f],
                                                     [type |-> "last", tk |-> l]}
                                    /\ f <= l /\ l < Tokens(t)
    <2>1. /\ tx_pos'[t] \in {{}} \cup {{[type |-> "first", tk |-> f], [type |-> "last", tk |-> l]} :
                                         f, l \in 0 .. MaxLexemes}
          /\ \A p \in tx_pos'[t] : p.tk < Tokens(t)
          /\ \A p, q \in tx_pos'[t] : p.type = "first" /\ q.type = "last" => p.tk <= q.tk
      BY DEF FindRuns
    <2>2. CASE tx_pos'[t] # {}
      <3>1. PICK f \in 0 .. MaxLexemes, l \in 0 .. MaxLexemes :
              tx_pos'[t] = {[type |-> "first", tk |-> f], [type |-> "last", tk |-> l]}
        BY <2>1, <2>2
      <3>2. f \in Nat /\ l \in Nat
        BY LinesAssumption
      <3>3. /\ [type |-> "first", tk |-> f] \in tx_pos'[t]
            /\ [type |-> "last", tk |-> l] \in tx_pos'[t]
        BY <3>1
      <3>4. f <= l /\ l < Tokens(t)
        BY <2>1, <3>3
      <3> QED
        BY <3>1, <3>2, <3>4
    <2> QED
      BY <2>2
  <1>5. LinesTypes'
    <2>1. tx_pos' \in [TextIds -> SUBSET PosType]
      <3> DEFINE S == {{}} \cup {{[type |-> "first", tk |-> f], [type |-> "last", tk |-> l]} :
                                   f, l \in 0 .. MaxLexemes}
      <3>1. tx_pos' \in [TextIds -> S]
        BY DEF FindRuns
      <3> HIDE DEF S
      <3>2. \A t \in TextIds : tx_pos'[t] \subseteq PosType
        BY <1>4 DEF PosType
      <3> QED
        BY <3>1, <3>2
    <2> QED
      BY <1>1, <1>2, <1>3, <2>1 DEF LinesTypes, FindRuns, FoundType
  <1>6. ASSUME NEW t \in TextIds PROVE OneRun(t)'
    <2>2. CASE tx_pos'[t] = {}
      BY <1>2, <2>2 DEF OneRun, Has
    <2>3. CASE tx_pos'[t] # {}
      <3>1. PICK f \in Nat, l \in Nat :
              /\ tx_pos'[t] = {[type |-> "first", tk |-> f], [type |-> "last", tk |-> l]}
              /\ f <= l /\ l < Tokens(t)
        BY <1>4, <2>3
      <3>2. \A y, k, z, m : [type |-> y, tk |-> k] = [type |-> z, tk |-> m] <=> y = z /\ k = m
        OBVIOUS
      <3>3. \A y, k : [type |-> y, tk |-> k] \in tx_pos'[t]
                        <=> (y = "first" /\ k = f) \/ (y = "last" /\ k = l)
        BY <3>1, <3>2
      <3>4. Tokens(t)' = Tokens(t)
        BY <1>3
      <3> QED
        BY <1>2, <3>1, <3>3, <3>4 DEF OneRun, Has
    <2> QED
      BY <2>2, <2>3
  <1>7. ASSUME NEW t \in TextIds PROVE Noted(t)'
    <2>1. Noted(t) /\ Len(nl_buff) \in Nat /\ Len(nl_buff) <= Len(nl_buff)
      BY <1>1 DEF LinesTypes
    <2> QED
      BY <1>1, <1>2, <2>1, NotedStays
  <1>8. SecondPass'
    <2>1. \A t \in TextIds : ~ (t < 1)
      BY <1>1, TextFacts
    <2> QED
      BY <1>1, <1>2, <1>3, <1>6, <1>7, <2>1 DEF SecondPass, Once
  <1> QED
    BY <1>2, <1>5, <1>8 DEF LinesInv

\* What a step of the second pass keeps that finds no position.
LEMMA SecondFrame ==
  ASSUME LinesTypes, SecondPass, file' = file, found' = found, tx_pos' = tx_pos,
         UNCHANGED <<nl_buff, kept, tx_nl_start, tx_nl_limit, tx_EOL_terminated>>
  PROVE  /\ TextIds' = TextIds
         /\ \A t \in TextIds : Noted(t)' /\ OneRun(t)'
         /\ Once'
         /\ \A f \in found : LineRight(f)'
  <1>1. TextIds' = TextIds
    BY SameFile
  <1>2. ASSUME NEW t \in TextIds PROVE Noted(t)'
    <2>1. Noted(t) /\ Len(nl_buff) \in Nat /\ Len(nl_buff) <= Len(nl_buff)
      BY DEF SecondPass, LinesTypes
    <2> QED
      BY <2>1, NotedStays
  <1>3. ASSUME NEW t \in TextIds PROVE OneRun(t)'
    <2>1. OneRun(t)
      BY DEF SecondPass
    <2>2. \A type, k : Has(t, type, k)' <=> Has(t, type, k)
      BY DEF Has
    <2>3. Tokens(t)' = Tokens(t)
      BY SameFile
    <2> QED
      BY <2>1, <2>2, <2>3 DEF OneRun
  <1>4. Once'
    BY DEF SecondPass, Once
  <1>5. ASSUME NEW f \in found PROVE LineRight(f)'
    <2>1. LineRight(f)
      BY DEF SecondPass
    <2>2. LineOf(f.text, f.tk)' = LineOf(f.text, f.tk) /\ Ended(f.text)' = Ended(f.text)
          /\ Newlines(f.text)' = Newlines(f.text)
      BY SameFile
    <2> QED
      BY <2>1, <2>2 DEF LineRight, RightLine
  <1> QED
    BY <1>1, <1>2, <1>3, <1>4, <1>5

\* A text is finished, and the next one is begun, if there is one.
LEMMA NextTextStep ==
  ASSUME LinesTypes, SecondPass, tx_pos[cur] = {}, NextText,
         UNCHANGED <<file, at, lexVars, buffVars, textInfo, passTwo>>
  PROVE  LinesInv'
  <1> USE DEF lexVars, buffVars, textInfo, passTwo
  <1>1. /\ TextIds' = TextIds
        /\ \A t \in TextIds : Noted(t)' /\ OneRun(t)'
        /\ Once'
        /\ \A f \in found : LineRight(f)'
    BY SecondFrame
  <1>2. cur \in TextIds /\ TextIds = 1 .. Len(file) /\ Len(file) \in Nat \ {0}
    BY TextFacts DEF LinesTypes
  <1>3. \A f \in found : f.text \in TextIds /\ f.text <= cur
    BY DEF LinesTypes, FoundType, SecondPass
  <1>4. \A t \in TextIds : t <= cur => tx_pos[t] = {}
    <2>1. \A t \in TextIds : t <= cur => t < cur \/ t = cur
      BY <1>2
    <2> QED
      BY <2>1 DEF SecondPass
  <1>5. CASE cur = Len(file)
    <2>1. cur' = cur /\ pc' = "end"
      BY <1>5 DEF NextText
    <2>2. \A t \in TextIds : tx_pos[t] = {}
      BY <1>2, <1>4, <1>5
    <2>3. LinesTypes'
      BY <1>1, <2>1 DEF LinesTypes, FoundType
    <2>4. SecondPass'
      BY <1>1, <1>3, <2>1, <2>2 DEF SecondPass
    <2> QED
      BY <2>1, <2>3, <2>4 DEF LinesInv
  <1>6. CASE cur # Len(file)
    <2>1. cur' = cur + 1 /\ pc' = "open2"
      BY <1>6 DEF NextText
    <2>2. cur + 1 \in TextIds
      BY <1>2, <1>6
    <2>3. LinesTypes'
      BY <1>1, <2>1, <2>2 DEF LinesTypes, FoundType
    <2>4. \A f \in found : f.text <= cur + 1 /\ f.text # cur + 1
      BY <1>2, <1>3
    <2>5. \A t \in TextIds : t < cur + 1 => tx_pos[t] = {}
      BY <1>2, <1>4
    <2>6. SecondPass'
      BY <1>1, <2>1, <2>4, <2>5 DEF SecondPass
    <2> QED
      BY <2>1, <2>3, <2>6 DEF LinesInv
  <1> QED
    BY <1>5, <1>6

\* Open_Text(Second_Pass).
LEMMA OpenSecondStep ==
  ASSUME LinesInv, OpenSecond
  PROVE  LinesInv'
  <1> USE DEF lexVars, buffVars, textInfo
  <1>1. LinesTypes /\ SecondPass /\ cur \in TextIds
    BY DEF LinesInv, OpenSecond, LinesTypes
  <1>2. PICK t \in TextIds : t = cur
    BY <1>1
  <1>3. /\ file' = file /\ found' = found /\ tx_pos' = tx_pos /\ cur' = t /\ pc' = "scan"
        /\ UNCHANGED <<nl_buff, kept, tx_nl_start, tx_nl_limit, tx_EOL_terminated, modified>>
        /\ lex_tk_cnt' = 0 /\ lex_nl_cnt' = 1 /\ last_tk_cnt' = 0 /\ old_nl_cnt' = 1
        /\ kept => nl_next' = tx_nl_start[t] /\ at' = at
        /\ ~kept => at' = 0 /\ nl_next' = nl_next
    BY <1>2 DEF OpenSecond
  <1>4. /\ TextIds' = TextIds
        /\ \A u \in TextIds : Noted(u)' /\ OneRun(u)'
        /\ Once'
        /\ \A f \in found : LineRight(f)'
    BY <1>1, <1>3, SecondFrame
  <1>5. LinesTypes'
    <2>1. nl_next' \in Nat /\ at' \in Nat
      BY <1>1, <1>3 DEF LinesTypes
    <2> QED
      BY <1>1, <1>3, <1>4, <2>1 DEF LinesTypes, FoundType
  <1>6. Scanning'
    <2>1. TokensTo(t, 0) = 0 /\ Behind(t, 0) = 0 /\ Newlines(t) \in Nat
      BY <1>1, TokensToIs, BehindIs
    <2>2. tx_nl_start[t] \in Nat /\ Entries(t) \in Nat /\ \A p \in tx_pos[t] : p.tk \in Nat
      BY <1>1, <2>1 DEF LinesTypes, PosType, Entries
    <2>3. TokensTo(t, 0)' = 0 /\ Behind(t, 0)' = 0 /\ Newlines(t)' = Newlines(t)
          /\ Entries(t)' = Entries(t)
      BY <1>3, <2>1, SameFile
    <2>4. lex_nl_cnt' - 1 = 0 /\ old_nl_cnt' - 1 = 0
      BY <1>3
    <2> QED
      BY <1>3, <2>1, <2>2, <2>3, <2>4 DEF Scanning
  <1>7. SecondPass'
    BY <1>1, <1>2, <1>3, <1>4, <1>6 DEF SecondPass
  <1> QED
    BY <1>3, <1>5, <1>7 DEF LinesInv

\* Positions are at tokens of their text.
LEMMA HasFacts ==
  ASSUME SecondPass, NEW t \in TextIds, NEW type \in {"first", "last"}, NEW k \in Nat,
         Has(t, type, k), Tokens(t) \in Nat
  PROVE  k < Tokens(t)
  <1>1. OneRun(t)
    BY DEF SecondPass
  <1>2. CASE type = "last"
    BY <1>1, <1>2 DEF OneRun
  <1>3. CASE type = "first"
    <2>1. PICK l \in Nat : Has(t, "last", l)
      BY <1>1, <1>3 DEF OneRun
    <2>2. k <= l /\ l < Tokens(t)
      BY <1>1, <1>3, <2>1 DEF OneRun
    <2> QED
      BY <2>2
  <1> QED
    BY <1>2, <1>3

\* A position that is looked for.
LEMMA PosFacts ==
  ASSUME LinesTypes, SecondPass, NEW t \in TextIds, NEW p \in tx_pos[t]
  PROVE  /\ p.tk \in Nat /\ p.tk < Tokens(t) /\ p.type \in {"first", "last"}
         /\ p = [type |-> p.type, tk |-> p.tk] /\ Has(t, p.type, p.tk)
  <1>1. p.tk \in Nat /\ p.type \in {"first", "last"} /\ p = [type |-> p.type, tk |-> p.tk]
    BY DEF LinesTypes, PosType
  <1>2. Has(t, p.type, p.tk)
    BY <1>1 DEF Has
  <1>3. Tokens(t) \in Nat
    BY TokensAre
  <1> QED
    BY <1>1, <1>2, <1>3, HasFacts

\* The next position to be found has the smallest token.
LEMMA NextTkIs ==
  ASSUME LinesTypes, SecondPass, NEW t \in TextIds, t = cur, tx_pos[t] # {}
  PROVE  /\ NextTk \in Nat /\ NextTk < Tokens(t)
         /\ \A p \in tx_pos[t] : NextTk <= p.tk /\ (IsNextPos(p) => p.tk = NextTk)
  <1>1. Tokens(t) \in Nat /\ Tokens(t) <= MaxLexemes /\ MaxLexemes \in Nat
    <2>1. Len(file[t]) \in Nat /\ Len(file[t]) \in 0 .. MaxLexemes
      BY TextFacts
    <2>2. Tokens(t) = Count(t, "tk", Len(file[t])) /\ Count(t, "tk", Len(file[t])) \in 0 .. Len(file[t])
      BY <2>1, TokensAre, CountBound
    <2> QED
      BY <2>1, <2>2, LinesAssumption
  <1>2. \A p \in tx_pos[t] : p.tk \in Nat /\ p.tk < Tokens(t)
    BY PosFacts
  <1> DEFINE T == {p.tk : p \in tx_pos[t]}
  <1>3. T \subseteq Nat /\ T # {}
    BY <1>2
  <1>4. PICK x \in T : \A y \in T : x <= y
    BY <1>3, SmallestIn
  <1>5. PICK q \in tx_pos[t] : q.tk = x
    BY <1>4
  <1>6. \A p \in tx_pos[t] : q.tk <= p.tk
    BY <1>4, <1>5
  <1>7. IsNextPos(q)
    BY <1>5, <1>6 DEF IsNextPos
  <1>8. \A p \in tx_pos[t] : IsNextPos(p) => p.tk = q.tk
    BY <1>2, <1>6 DEF IsNextPos
  <1>9. q.tk \in 0 .. MaxLexemes
    BY <1>1, <1>2
  <1>10. NextTk = q.tk
    BY <1>7, <1>8, <1>9 DEF NextTk
  <1> QED
    BY <1>2, <1>6, <1>8, <1>10

\* The next line end is line n + 1's, whether the buffer or the file tells it.
LEMMA NextLineStep ==
  ASSUME LinesInv, NextLine
  PROVE  LinesInv'
  <1> USE DEF lexVars, buffVars, textInfo
  <1>1. /\ LinesTypes /\ SecondPass /\ Scanning /\ cur \in TextIds
        /\ lex_nl_cnt \in Nat \ {0} /\ nl_next \in Nat /\ at \in Nat /\ lex_tk_cnt \in Nat
    BY DEF LinesInv, NextLine, LinesTypes, SecondPass
  <1>2. PICK t \in TextIds : t = cur
    BY <1>1
  <1>3. PICK n \in Nat : n = lex_nl_cnt - 1 /\ lex_nl_cnt = n + 1
    BY <1>1
  <1>4. /\ file' = file /\ found' = found /\ tx_pos' = tx_pos /\ cur' = t /\ pc' = "scan"
        /\ UNCHANGED <<nl_buff, kept, tx_nl_start, tx_nl_limit, tx_EOL_terminated, modified>>
        /\ old_nl_cnt' = n + 1 /\ lex_nl_cnt' = n + 2
        /\ tx_pos[t] # {} /\ NextTk >= lex_tk_cnt /\ EolObtained
    BY <1>2, <1>3 DEF NextLine
  <1>5. /\ TextIds' = TextIds
        /\ \A u \in TextIds : Noted(u)' /\ OneRun(u)'
        /\ Once'
        /\ \A f \in found : LineRight(f)'
    BY <1>1, <1>4, SecondFrame
  <1>6. /\ Newlines(t) \in Nat /\ Entries(t) \in Nat /\ Len(file[t]) \in Nat
        /\ tx_nl_start[t] \in Nat /\ Behind(t, n) \in Nat /\ Behind(t, n) <= Len(file[t])
        /\ Noted(t)
    <2>1. /\ Newlines(t) \in Nat /\ Len(file[t]) \in Nat
          /\ Behind(t, n) \in Nat /\ Behind(t, n) <= Len(file[t])
      BY <1>1, BehindIs
    <2>2. Entries(t) \in Nat
      BY <2>1 DEF Entries
    <2>3. Noted(t) /\ tx_nl_start[t] \in Nat
      BY <1>1 DEF SecondPass, LinesTypes
    <2> QED
      BY <2>1, <2>2, <2>3
  <1>7. /\ lex_tk_cnt = TokensTo(t, n)
        /\ kept => nl_next = tx_nl_start[t] + n /\ last_tk_cnt = lex_tk_cnt
        /\ ~kept => at = Behind(t, n) /\ n <= Newlines(t)
    <2>1. CASE at = Len(file[t]) /\ ~kept
      <3>1. FALSE
        BY <1>2, <1>4, <1>6, <2>1 DEF EolObtained, EolInFile
      <3> QED
        BY <3>1
    <2> QED
      BY <1>1, <1>2, <1>3, <2>1 DEF Scanning
  <1>8. TokensTo(t, n) \in Nat /\ TokensTo(t, n + 1) \in Nat /\ n + 1 \in Nat
    <2>1. n + 1 \in Nat
      OBVIOUS
    <2> QED
      BY <1>1, <2>1, TokensToIs
  <1>9. /\ lex_tk_cnt' = TokensTo(t, n + 1)
        /\ kept => nl_next' = tx_nl_start[t] + (n + 1) /\ last_tk_cnt' = lex_tk_cnt' /\ n + 1 <= Entries(t)
        /\ ~kept => at' = Behind(t, n + 1) /\ n + 1 <= Newlines(t)
        /\ nl_next' \in Nat /\ last_tk_cnt' \in Nat /\ at' \in Nat
    <2>1. CASE kept
      <3>1. n < Entries(t) /\ EntriesRight(t, Entries(t))
        BY <1>2, <1>4, <1>6, <1>7, <2>1 DEF EolObtained, Noted
      <3>2. n + 1 \in 1 .. Entries(t) /\ (n + 1) - 1 = n /\ n + 1 <= Entries(t)
        BY <1>6, <3>1
      <3>3. nl_buff[tx_nl_start[t] + (n + 1)] = TokensTo(t, n + 1) - TokensTo(t, n)
        BY <3>1, <3>2 DEF EntriesRight
      <3>4. nl_next + 1 = tx_nl_start[t] + (n + 1) /\ nl_next + 1 \in Nat
        BY <1>6, <1>7, <2>1
      <3>5. /\ nl_next' = tx_nl_start[t] + (n + 1) /\ at' = at
            /\ last_tk_cnt' = last_tk_cnt + nl_buff[nl_next + 1] /\ lex_tk_cnt' = last_tk_cnt'
        BY <2>1, <3>4 DEF NextLine, FromBuffer, FromFile
      <3>6. last_tk_cnt' = TokensTo(t, n + 1)
        BY <1>7, <1>8, <2>1, <3>3, <3>4, <3>5
      <3> QED
        BY <1>1, <1>8, <2>1, <3>2, <3>4, <3>5, <3>6
    <2>2. CASE ~kept
      <3>1. at = Behind(t, n) /\ n <= Newlines(t)
        BY <1>7, <2>2
      <3>2. EolInFile = {k \in Behind(t, n) + 1 .. Len(file[t]) : file[t][k] = "nl"} /\ EolInFile # {}
        BY <1>2, <1>4, <2>2, <3>1 DEF EolObtained, EolInFile
      <3>3. n < Newlines(t)
        <4>1. ~ (n >= Newlines(t))
          BY <1>1, <3>2, NextNewline
        <4> QED
          BY <1>6, <4>1
      <3>4. /\ Behind(t, n + 1) \in Behind(t, n) + 1 .. Len(file[t])
            /\ file[t][Behind(t, n + 1)] = "nl"
            /\ \A l \in Behind(t, n) + 1 .. Len(file[t]) :
                 file[t][l] = "nl" => Behind(t, n + 1) <= l
        BY <1>1, <3>3, NextNewline
      <3>5. PICK b \in Nat : b = Behind(t, n + 1) /\ b <= Len(file[t]) /\ Behind(t, n) <= b
        BY <1>6, <3>4
      <3>6. b \in EolInFile /\ EolInFile \subseteq Nat /\ \A k \in EolInFile : b <= k
        BY <1>6, <3>2, <3>4, <3>5
      <3>7. NextEol = b
        BY <3>6, ChooseSmallest DEF NextEol
      <3>8. at' = b /\ lex_tk_cnt' = lex_tk_cnt + TokensIn(at + 1, b)
            /\ nl_next' = nl_next /\ last_tk_cnt' = last_tk_cnt
        BY <2>2, <3>7 DEF NextLine, FromBuffer, FromFile
      <3>9. TokensIn(at + 1, b) = Count(t, "tk", b) - Count(t, "tk", Behind(t, n))
        BY <1>2, <1>6, <3>1, <3>5, CountBetween DEF TokensIn
      <3>10. TokensTo(t, n + 1) = Count(t, "tk", b) /\ TokensTo(t, n) = Count(t, "tk", Behind(t, n))
        BY <3>5 DEF TokensTo
      <3>11. lex_tk_cnt' = TokensTo(t, n + 1)
        BY <1>7, <1>8, <3>8, <3>9, <3>10
      <3>12. n + 1 <= Newlines(t) /\ last_tk_cnt \in Nat
        BY <1>1, <1>6, <3>3 DEF LinesTypes
      <3> QED
        BY <1>1, <2>2, <3>5, <3>8, <3>11, <3>12
    <2> QED
      BY <2>1, <2>2
  <1>10. \A p \in tx_pos[t] : TokensTo(t, n) <= p.tk
    <2>1. \A p \in tx_pos[t] : p.tk \in Nat
      BY <1>1, PosFacts
    <2>2. NextTk \in Nat /\ \A p \in tx_pos[t] : NextTk <= p.tk
      BY <1>1, <1>2, <1>4, NextTkIs
    <2> QED
      BY <1>4, <1>7, <1>8, <2>1, <2>2
  <1>11. LinesTypes'
    <2>1. /\ lex_nl_cnt' \in Nat \ {0} /\ old_nl_cnt' \in Nat \ {0} /\ lex_tk_cnt' \in Nat
          /\ cur' \in TextIds
      BY <1>4, <1>8, <1>9
    <2> QED
      BY <1>1, <1>4, <1>5, <1>9, <2>1 DEF LinesTypes, FoundType
  <1>12. Scanning'
    <2>1. /\ TokensTo(t, n + 1)' = TokensTo(t, n + 1) /\ TokensTo(t, n)' = TokensTo(t, n)
          /\ Behind(t, n + 1)' = Behind(t, n + 1)
          /\ Newlines(t)' = Newlines(t) /\ Entries(t)' = Entries(t)
      BY <1>4, SameFile
    <2>2. lex_nl_cnt' - 1 = n + 1 /\ old_nl_cnt' - 1 = n /\ n + 1 # 0
      BY <1>4
    <2> QED
      BY <1>4, <1>9, <1>10, <2>1, <2>2 DEF Scanning
  <1>13. SecondPass'
    BY <1>1, <1>2, <1>4, <1>5, <1>12 DEF SecondPass
  <1> QED
    BY <1>4, <1>11, <1>13 DEF LinesInv

\* A position is filled: it keeps its place in the run and gets its line.
LEMMA FillStep ==
  ASSUME LinesTypes, SecondPass, NEW t \in TextIds, t = cur, NEW old \in Nat, NEW new \in Nat,
         Fill(old, new), UNCHANGED <<file, cur, nl_buff, kept, tx_nl_start, tx_nl_limit>>,
         tx_EOL_terminated' = tx_EOL_terminated,
         \A p \in tx_pos[t] : IsNextPos(p) => LineOf(t, p.tk) = old,
         new = old + 1 \/ (new = old /\ ~kept /\ ~Ended(t) /\ old = Newlines(t) + 1)
  PROVE  /\ TextIds' = TextIds
         /\ tx_pos' \in [TextIds -> SUBSET PosType] /\ found' \subseteq FoundType
         /\ \A u \in TextIds : tx_pos'[u] \subseteq tx_pos[u]
         /\ \A u \in TextIds : Noted(u)' /\ OneRun(u)'
         /\ Once'
         /\ \A f \in found' : LineRight(f)' /\ f.text <= cur
  <1>1. PICK p \in tx_pos[t] :
          /\ IsNextPos(p)
          /\ found' = found \cup {[text |-> t, type |-> p.type, tk |-> p.tk,
                                   line |-> IF p.type = "first" THEN old ELSE new]}
          /\ tx_pos' = [tx_pos EXCEPT ![t] = @ \ {p}]
    BY DEF Fill
  <1>2. PICK line \in Nat : line = IF p.type = "first" THEN old ELSE new
    OBVIOUS
  <1>3. PICK g : g = [text |-> t, type |-> p.type, tk |-> p.tk, line |-> line]
    OBVIOUS
  <1>4. /\ p.tk \in Nat /\ p.tk < Tokens(t) /\ p.type \in {"first", "last"}
        /\ p = [type |-> p.type, tk |-> p.tk] /\ Has(t, p.type, p.tk)
    BY PosFacts
  <1>5. /\ g.text = t /\ g.type = p.type /\ g.tk = p.tk /\ g.line = line /\ g \in FoundType
        /\ found' = found \cup {g}
    BY <1>1, <1>2, <1>3, <1>4 DEF FoundType
  <1>6. /\ tx_pos' \in [TextIds -> SUBSET PosType] /\ tx_pos'[t] = tx_pos[t] \ {p}
        /\ \A u \in TextIds : tx_pos'[u] \subseteq tx_pos[u] /\ (u # t => tx_pos'[u] = tx_pos[u])
    BY <1>1 DEF LinesTypes
  <1>7. TextIds' = TextIds /\ \A u : Tokens(u)' = Tokens(u)
    BY SameFile
  <1>8. ASSUME NEW u \in TextIds PROVE Noted(u)'
    <2>1. Noted(u) /\ Len(nl_buff) \in Nat /\ Len(nl_buff) <= Len(nl_buff)
      BY DEF SecondPass, LinesTypes
    <2> QED
      BY <2>1, NotedStays
  <1>9. ASSUME NEW u \in TextIds PROVE OneRun(u)'
    <2>1. OneRun(u)
      BY DEF SecondPass
    <2>2. \A type, k : Has(u, type, k)' <=> Has(u, type, k)
      <3>1. CASE u # t
        BY <1>5, <1>6, <3>1 DEF Has
      <3>2. CASE u = t
        <4>1. \A type, k : [type |-> type, tk |-> k] = p <=> type = p.type /\ k = p.tk
          BY <1>4
        <4> QED
          BY <1>5, <1>6, <3>2, <4>1 DEF Has
      <3> QED
        BY <3>1, <3>2
    <2> QED
      BY <1>7, <2>1, <2>2 DEF OneRun
  <1>10. ASSUME NEW q \in tx_pos[t], q # p PROVE q.type # p.type
    <2>1. /\ q.tk \in Nat /\ q.type \in {"first", "last"}
          /\ q = [type |-> q.type, tk |-> q.tk] /\ Has(t, q.type, q.tk)
      BY PosFacts
    <2>2. ASSUME q.type = p.type PROVE FALSE
      <3>1. OneRun(t)
        BY DEF SecondPass
      <3>2. Has(t, p.type, q.tk)
        BY <2>1, <2>2
      <3>3. q.tk = p.tk
        BY <1>4, <2>1, <3>1, <3>2 DEF OneRun
      <3> QED
        BY <1>4, <1>10, <2>1, <2>2, <3>3
    <2> QED
      BY <2>2
  <1>11. Once'
    <2>1. \A f \in found : f.text \in TextIds
      BY DEF LinesTypes, FoundType
    <2>2. ASSUME NEW f \in found', NEW q \in tx_pos'[f.text] PROVE f.type # q.type
      <3>1. CASE f \in found
        BY <1>6, <2>1, <2>2, <3>1 DEF SecondPass, Once
      <3>2. CASE f = g
        BY <1>5, <1>6, <1>10, <2>2, <3>2
      <3> QED
        BY <1>5, <3>1, <3>2
    <2>3. ASSUME NEW f \in found, f.text = t, f.type = p.type PROVE FALSE
      BY <2>3 DEF SecondPass, Once
    <2>4. ASSUME NEW f \in found', NEW h \in found', f.text = h.text, f.type = h.type PROVE f = h
      BY <1>5, <2>3, <2>4 DEF SecondPass, Once
    <2> QED
      BY <2>2, <2>4 DEF Once
  <1>12. ASSUME NEW f \in found' PROVE LineRight(f)' /\ f.text <= cur
    <2>1. LineOf(f.text, f.tk)' = LineOf(f.text, f.tk) /\ Ended(f.text)' = Ended(f.text)
          /\ Newlines(f.text)' = Newlines(f.text)
      BY SameFile
    <2>2. CASE f \in found
      <3>1. LineRight(f) /\ f.text <= cur
        BY <2>2 DEF SecondPass
      <3> QED
        BY <2>1, <3>1 DEF LineRight, RightLine
    <2>3. CASE f = g
      <3>1. LineOf(t, p.tk) = old
        BY <1>1
      <3>2. f.text <= cur
        BY <1>5, <2>3, TextFacts
      <3>3. LineRight(f)
        <4>1. CASE p.type = "first"
          BY <1>2, <1>5, <2>3, <3>1, <4>1 DEF LineRight, RightLine
        <4>2. CASE p.type = "last"
          BY <1>2, <1>5, <2>3, <3>1, <4>2 DEF LineRight, RightLine
        <4> QED
          BY <1>4, <4>1, <4>2
      <3> QED
        BY <2>1, <3>2, <3>3 DEF LineRight, RightLine
    <2> QED
      BY <1>5, <2>2, <2>3
  <1> QED
    BY <1>5, <1>6, <1>7, <1>8, <1>9, <1>11, <1>12 DEF LinesTypes

\* A position before the line end that was reached is in the line that ends
\* there, or in the last line, which has no end.
LEMMA FillPosStep ==
  ASSUME LinesInv, FillPos
  PROVE  LinesInv'
  <1> USE DEF lexVars, buffVars, textInfo
  <1>1. /\ LinesTypes /\ SecondPass /\ Scanning /\ cur \in TextIds
        /\ lex_nl_cnt \in Nat \ {0} /\ old_nl_cnt \in Nat \ {0} /\ lex_tk_cnt \in Nat
    BY DEF LinesInv, FillPos, LinesTypes, SecondPass
  <1>2. PICK t \in TextIds : t = cur
    BY <1>1
  <1>3. PICK n \in Nat : n = lex_nl_cnt - 1 /\ lex_nl_cnt = n + 1
    BY <1>1
  <1>4. PICK old \in Nat \ {0} : old = old_nl_cnt
    BY <1>1
  <1>5. /\ file' = file /\ cur' = t /\ pc' = "scan" /\ old_nl_cnt' = old_nl_cnt
        /\ UNCHANGED <<nl_buff, kept, tx_nl_start, tx_nl_limit, tx_EOL_terminated, modified>>
        /\ UNCHANGED <<at, lex_token, lex_tk_cnt, lex_nl_cnt, last_tk_cnt, nl_next>>
        /\ tx_pos[t] # {} /\ NextTk < lex_tk_cnt /\ Fill(old, n + 1)
    BY <1>2, <1>3, <1>4 DEF FillPos
  <1>6. /\ NextTk \in Nat /\ NextTk < Tokens(t)
        /\ \A p \in tx_pos[t] : NextTk <= p.tk /\ (IsNextPos(p) => p.tk = NextTk)
    BY <1>1, <1>2, <1>5, NextTkIs
  <1>7. /\ Newlines(t) \in Nat /\ Entries(t) \in Nat /\ Entries(t) <= Newlines(t) + 1
        /\ TokensTo(t, 0) = 0 /\ n + 1 \in Nat
    <2>1. Newlines(t) \in Nat /\ TokensTo(t, 0) = 0
      BY <1>1, BehindIs, TokensToIs
    <2> QED
      BY <2>1 DEF Entries
  <1>8. TokensTo(t, old - 1) <= NextTk
    <2>1. \A p \in tx_pos[t] : TokensTo(t, old - 1) <= p.tk
      BY <1>1, <1>2, <1>4 DEF Scanning
    <2>2. PICK p \in tx_pos[t] : IsNextPos(p)
      BY <1>2, <1>5 DEF Fill
    <2> QED
      BY <1>6, <2>1, <2>2
  <1>9. /\ LineOf(t, NextTk) = old
        /\ n + 1 = old + 1 \/ (n + 1 = old /\ ~kept /\ ~Ended(t) /\ old = Newlines(t) + 1)
    <2>1. CASE /\ lex_tk_cnt = TokensTo(t, n) /\ old = (IF n = 0 THEN 1 ELSE n)
               /\ n <= Newlines(t) + 1
      <3>1. n # 0
        BY <1>5, <1>6, <1>7, <2>1
      <3>2. PICK m \in Nat : m = n - 1 /\ m + 1 = n /\ m <= Newlines(t) /\ old = n /\ old - 1 = m
        BY <1>7, <2>1, <3>1
      <3>3. TokensTo(t, m) <= NextTk /\ NextTk < TokensTo(t, m + 1)
        BY <1>5, <1>8, <2>1, <3>2
      <3>4. LineOf(t, NextTk) = m + 1
        BY <1>1, <1>6, <3>2, <3>3, LineIs
      <3> QED
        BY <3>2, <3>4
    <2>2. CASE ~kept /\ ~Ended(t) /\ n = Newlines(t) /\ old = n + 1
      <3>1. old - 1 = n /\ n <= Newlines(t) /\ ~ (n < Newlines(t))
        BY <1>7, <2>2
      <3>2. LineOf(t, NextTk) = n + 1
        BY <1>1, <1>6, <1>8, <3>1, LineIs
      <3> QED
        BY <2>2, <3>2
    <2>3. \/ /\ lex_tk_cnt = TokensTo(t, n) /\ old = (IF n = 0 THEN 1 ELSE n)
             /\ n <= Newlines(t) + 1
          \/ ~kept /\ ~Ended(t) /\ n = Newlines(t) /\ old = n + 1
      BY <1>1, <1>2, <1>3, <1>4, <1>7 DEF Scanning
    <2> QED
      BY <2>1, <2>2, <2>3
  <1>10. /\ TextIds' = TextIds
         /\ tx_pos' \in [TextIds -> SUBSET PosType] /\ found' \subseteq FoundType
         /\ \A u \in TextIds : tx_pos'[u] \subseteq tx_pos[u]
         /\ \A u \in TextIds : Noted(u)' /\ OneRun(u)'
         /\ Once'
         /\ \A f \in found' : LineRight(f)' /\ f.text <= cur
    BY <1>1, <1>2, <1>5, <1>6, <1>7, <1>9, FillStep
  <1>11. LinesTypes'
    BY <1>1, <1>2, <1>5, <1>10 DEF LinesTypes, FoundType
  <1>12. Scanning'
    <2>1. /\ TokensTo(t, n)' = TokensTo(t, n) /\ TokensTo(t, old - 1)' = TokensTo(t, old - 1)
          /\ Behind(t, n)' = Behind(t, n) /\ Tokens(t)' = Tokens(t) /\ Ended(t)' = Ended(t)
          /\ Newlines(t)' = Newlines(t) /\ Entries(t)' = Entries(t)
      BY <1>5, SameFile
    <2>2. lex_nl_cnt' - 1 = n /\ old_nl_cnt' = old
      BY <1>3, <1>4, <1>5
    <2>3. \A p \in tx_pos'[t] : p \in tx_pos[t]
      BY <1>10
    <2>4. Scanning
      BY <1>1
    <2> QED
      BY <1>2, <1>3, <1>4, <1>5, <2>1, <2>2, <2>3, <2>4 DEF Scanning
  <1>13. SecondPass'
    BY <1>1, <1>2, <1>5, <1>10, <1>12 DEF SecondPass
  <1> QED
    BY <1>5, <1>11, <1>13 DEF LinesInv

\* No line end is left: only where the file is read, and in a last line that
\* has no end, so the message about a modified file is not printed.
LEMMA FillAtEndStep ==
  ASSUME LinesInv, FillAtEnd
  PROVE  LinesInv'
  <1> USE DEF lexVars, buffVars, textInfo
  <1>1. /\ LinesTypes /\ SecondPass /\ Scanning /\ cur \in TextIds
        /\ lex_nl_cnt \in Nat \ {0} /\ lex_tk_cnt \in Nat /\ at \in Nat /\ modified = FALSE
    BY DEF LinesInv, FillAtEnd, LinesTypes, SecondPass
  <1>2. PICK t \in TextIds : t = cur
    BY <1>1
  <1>3. PICK n \in Nat : n = lex_nl_cnt - 1 /\ lex_nl_cnt = n + 1
    BY <1>1
  <1>4. /\ file' = file /\ cur' = t /\ pc' = "scan" /\ old_nl_cnt' = n + 1
        /\ UNCHANGED <<nl_buff, kept, tx_nl_start, tx_nl_limit, tx_EOL_terminated>>
        /\ UNCHANGED <<lex_nl_cnt, last_tk_cnt, nl_next>>
        /\ tx_pos[t] # {} /\ NextTk >= lex_tk_cnt /\ ~EolObtained /\ Fill(n + 1, n + 1)
        /\ modified' = (modified \/ tx_EOL_terminated[t])
    BY <1>2, <1>3 DEF FillAtEnd
  <1>5. /\ NextTk \in Nat /\ NextTk < Tokens(t)
        /\ \A p \in tx_pos[t] : NextTk <= p.tk /\ (IsNextPos(p) => p.tk = NextTk)
    BY <1>1, <1>2, <1>4, NextTkIs
  <1>6. /\ Newlines(t) \in Nat /\ Entries(t) \in Nat /\ Len(file[t]) \in Nat
        /\ Behind(t, n) \in Nat /\ Behind(t, n) <= Len(file[t])
        /\ tx_nl_start[t] \in Nat /\ Noted(t)
        /\ TokensTo(t, n) \in Nat /\ Tokens(t) \in Nat /\ TokensTo(t, n) <= Tokens(t)
    <2>1. /\ Newlines(t) \in Nat /\ Len(file[t]) \in Nat
          /\ Behind(t, n) \in Nat /\ Behind(t, n) <= Len(file[t])
      BY <1>1, BehindIs
    <2>2. Entries(t) \in Nat
      BY <2>1 DEF Entries
    <2>3. Noted(t) /\ tx_nl_start[t] \in Nat
      BY <1>1 DEF SecondPass, LinesTypes
    <2>4. TokensTo(t, n) \in Nat /\ Tokens(t) \in Nat /\ TokensTo(t, n) <= Tokens(t)
      BY <1>1, TokensToIs
    <2> QED
      BY <2>1, <2>2, <2>3, <2>4
  <1>7. /\ lex_tk_cnt = TokensTo(t, n)
        /\ kept => nl_next = tx_nl_start[t] + n /\ n <= Entries(t)
        /\ ~kept => at = Behind(t, n) /\ n <= Newlines(t)
    <2>1. lex_tk_cnt # Tokens(t)
      BY <1>1, <1>4, <1>5, <1>6
    <2> QED
      BY <1>1, <1>2, <1>3, <2>1 DEF Scanning
  <1>8. ~kept
    <2>1. ASSUME kept PROVE FALSE
      <3>1. n = Entries(t)
        BY <1>2, <1>4, <1>6, <1>7, <2>1 DEF EolObtained, Noted
      <3>2. /\ Ended(t) => TokensTo(t, Newlines(t)) = Tokens(t)
            /\ n > Newlines(t) => TokensTo(t, n) = Tokens(t)
        BY <1>1, TokensToIs
      <3>3. TokensTo(t, n) = Tokens(t)
        <4>1. CASE Ended(t)
          BY <1>6, <3>1, <3>2, <4>1 DEF Entries
        <4>2. CASE ~Ended(t)
          <5>1. n > Newlines(t)
            BY <1>6, <3>1, <4>2 DEF Entries
          <5> QED
            BY <3>2, <5>1
        <4> QED
          BY <4>1, <4>2
      <3> QED
        BY <1>4, <1>5, <1>6, <1>7, <3>3
    <2> QED
      BY <2>1
  <1>9. n = Newlines(t)
    <2>1. \A k \in Behind(t, n) + 1 .. Len(file[t]) : file[t][k] # "nl"
      BY <1>2, <1>4, <1>7, <1>8 DEF EolObtained, EolInFile
    <2>2. ~ (n < Newlines(t))
      BY <1>1, <2>1, NextNewline
    <2> QED
      BY <1>6, <1>7, <1>8, <2>2
  <1>10. ~Ended(t) /\ tx_EOL_terminated[t] = FALSE
    <2>1. Ended(t) => TokensTo(t, Newlines(t)) = Tokens(t)
      BY <1>1, <1>6, TokensToIs
    <2>2. ~Ended(t)
      BY <1>4, <1>5, <1>6, <1>7, <1>9, <2>1
    <2>3. file[t] # <<>>
      BY <2>2 DEF Ended
    <2>4. tx_EOL_terminated[t] \in BOOLEAN
      BY <1>1 DEF LinesTypes
    <2> QED
      BY <1>6, <2>2, <2>3, <2>4 DEF Noted
  <1>11. LineOf(t, NextTk) = n + 1
    <2>1. TokensTo(t, n) <= NextTk /\ n <= Newlines(t) /\ ~ (n < Newlines(t))
      BY <1>4, <1>5, <1>6, <1>7, <1>9
    <2> QED
      BY <1>1, <1>5, <2>1, LineIs
  <1>12. /\ TextIds' = TextIds
         /\ tx_pos' \in [TextIds -> SUBSET PosType] /\ found' \subseteq FoundType
         /\ \A u \in TextIds : tx_pos'[u] \subseteq tx_pos[u]
         /\ \A u \in TextIds : Noted(u)' /\ OneRun(u)'
         /\ Once'
         /\ \A f \in found' : LineRight(f)' /\ f.text <= cur
    <2>1. n + 1 \in Nat
      OBVIOUS
    <2> QED
      BY <1>1, <1>2, <1>4, <1>5, <1>8, <1>9, <1>10, <1>11, <2>1, FillStep
  <1>13. at' = Len(file[t]) /\ lex_tk_cnt' = Tokens(t) /\ at' \in Nat /\ lex_tk_cnt' \in Nat
    <2>1. at' = Len(file[t]) /\ lex_tk_cnt' = lex_tk_cnt + TokensIn(at + 1, Len(file[t]))
      BY <1>2, <1>8 DEF FillAtEnd
    <2>2. TokensIn(at + 1, Len(file[t]))
            = Count(t, "tk", Len(file[t])) - Count(t, "tk", Behind(t, n))
      BY <1>2, <1>6, <1>7, <1>8, CountBetween DEF TokensIn
    <2>3. TokensTo(t, n) = Count(t, "tk", Behind(t, n)) /\ Tokens(t) = Count(t, "tk", Len(file[t]))
      BY <1>1, TokensAre DEF TokensTo
    <2> QED
      BY <1>6, <1>7, <2>1, <2>2, <2>3
  <1>14. LinesTypes'
    <2>1. modified' = FALSE
      BY <1>1, <1>4, <1>10, Zenon
    <2>2. old_nl_cnt' \in Nat \ {0}
      BY <1>4
    <2> QED
      BY <1>1, <1>2, <1>4, <1>12, <1>13, <2>1, <2>2 DEF LinesTypes, FoundType
  <1>15. Scanning'
    <2>1. /\ TokensTo(t, n)' = TokensTo(t, n) /\ Tokens(t)' = Tokens(t) /\ Ended(t)' = Ended(t)
          /\ Newlines(t)' = Newlines(t)
      BY <1>4, SameFile
    <2>2. lex_nl_cnt' - 1 = n /\ lex_nl_cnt' = n + 1 /\ old_nl_cnt' - 1 = n
      BY <1>3, <1>4
    <2>3. \A p \in tx_pos'[t] : TokensTo(t, n) <= p.tk
      <3>1. \A p \in tx_pos[t] : p.tk \in Nat /\ NextTk <= p.tk
        BY <1>1, <1>5, PosFacts
      <3> QED
        BY <1>4, <1>5, <1>6, <1>7, <1>12, <3>1
    <2> QED
      BY <1>4, <1>8, <1>9, <1>10, <1>13, <2>1, <2>2, <2>3 DEF Scanning
  <1>16. SecondPass'
    BY <1>1, <1>2, <1>4, <1>12, <1>15 DEF SecondPass
  <1> QED
    BY <1>4, <1>14, <1>16 DEF LinesInv

\* Every step of the two passes.
LEMMA LinesStep ==
  ASSUME LinesInv, LinesNext
  PROVE  LinesInv'
  <1>1. CASE OpenFirst
    BY <1>1, OpenFirstStep
  <1>2. CASE ReadToken
    BY <1>2, ReadTokenStep
  <1>3. CASE ReadNewline
    BY <1>3, ReadNewlineStep
  <1>4. CASE CloseFirst
    BY <1>4, CloseFirstStep
  <1>5. CASE FindRuns
    BY <1>5, FindRunsStep
  <1>6. CASE SkipText
    <2>1. LinesTypes /\ SecondPass
      BY <1>6 DEF SkipText, LinesInv
    <2> QED
      BY <1>6, <2>1, NextTextStep DEF SkipText
  <1>7. CASE OpenSecond
    BY <1>7, OpenSecondStep
  <1>8. CASE NextLine
    BY <1>8, NextLineStep
  <1>9. CASE FillPos
    BY <1>9, FillPosStep
  <1>10. CASE FillAtEnd
    BY <1>10, FillAtEndStep
  <1>11. CASE CloseSecond
    <2>1. LinesTypes /\ SecondPass
      BY <1>11 DEF CloseSecond, LinesInv
    <2> QED
      BY <1>11, <2>1, NextTextStep DEF CloseSecond
  <1> QED
    BY <1>1, <1>2, <1>3, <1>4, <1>5, <1>6, <1>7, <1>8, <1>9, <1>10, <1>11 DEF LinesNext

\* Steps of pass 3 change nothing of the two passes but pc.
LEMMA LinesFrame ==
  ASSUME LinesInv, UNCHANGED <<file, cur, at, lexVars, buffVars, textInfo, passTwo>>,
         \/ pc' = pc
         \/ pc \in {"end", "show", "shown"} /\ pc' \in {"end", "show", "shown"}
  PROVE  LinesInv'
  <1> USE DEF lexVars, buffVars, textInfo, passTwo
  <1>1. LinesTypes /\ cur \in TextIds
    BY DEF LinesInv, LinesTypes
  <1>2. TextIds' = TextIds
    BY SameFile
  <1>3. LinesTypes'
    BY <1>1, <1>2 DEF LinesTypes, FoundType
  <1>4. ASSUME NEW t \in TextIds, Noted(t) PROVE Noted(t)'
    <2>1. Len(nl_buff) \in Nat /\ Len(nl_buff) <= Len(nl_buff)
      BY <1>1 DEF LinesTypes
    <2> QED
      BY <1>1, <1>4, <2>1, NotedStays
  <1>5. CASE pc' = pc /\ pc \in {"open1", "read1"}
    <2>1. FirstPass
      BY <1>5 DEF LinesInv
    <2>2. Reading => Reading'
      <3> SUFFICES ASSUME Reading PROVE Reading'
        OBVIOUS
      <3>1. PICK t : t = cur
        OBVIOUS
      <3>2. PICK k : k = at
        OBVIOUS
      <3>3. PICK n : n = Count(t, "nl", k)
        OBVIOUS
      <3>4. EntriesRight(t, n) => EntriesRight(t, n)'
        <4>1. \A j : TokensTo(t, j)' = TokensTo(t, j)
          BY SameFile
        <4> QED
          BY <4>1 DEF EntriesRight
      <3>5. /\ k <= Len(file[t]) /\ lex_tk_cnt' = Count(t, "tk", k) /\ last_tk_cnt' = TokensTo(t, n)
            /\ k # 0 => lex_token' = file[t][k]
            /\ kept' => Len(nl_buff') = tx_nl_start'[t] + n /\ EntriesRight(t, n)'
        BY <3>1, <3>2, <3>3, <3>4 DEF Reading
      <3> QED
        BY <3>1, <3>2, <3>3, <3>5, ReadingNext
    <2>3. FirstPass'
      BY <1>2, <1>4, <1>5, <2>1, <2>2 DEF FirstPass
    <2> QED
      BY <1>3, <1>5, <2>3 DEF LinesInv
  <1>6. CASE pc' = pc /\ pc = "runs"
    BY <1>2, <1>3, <1>4, <1>6 DEF LinesInv
  <1>7. CASE \/ pc' = pc /\ pc \in {"open2", "scan", "end", "show", "shown"}
             \/ pc \in {"end", "show", "shown"} /\ pc' \in {"end", "show", "shown"}
    <2>1. SecondPass
      BY <1>7 DEF LinesInv
    <2>2. /\ \A t \in TextIds : Noted(t)' /\ OneRun(t)'
          /\ Once'
          /\ \A f \in found : LineRight(f)'
      BY <1>1, <2>1, SecondFrame
    <2>3. Scanning => Scanning'
      <3>1. PICK t : t = cur
        OBVIOUS
      <3>2. PICK n : n = lex_nl_cnt - 1
        OBVIOUS
      <3>3. PICK old : old = old_nl_cnt - 1
        OBVIOUS
      <3>4. /\ TokensTo(t, n)' = TokensTo(t, n) /\ TokensTo(t, old)' = TokensTo(t, old)
            /\ Behind(t, n)' = Behind(t, n) /\ Tokens(t)' = Tokens(t) /\ Ended(t)' = Ended(t)
            /\ Newlines(t)' = Newlines(t) /\ Entries(t)' = Entries(t)
        BY SameFile
      <3> QED
        BY <3>1, <3>2, <3>3, <3>4 DEF Scanning
    <2>4. SecondPass'
      BY <1>2, <1>7, <2>1, <2>2, <2>3 DEF SecondPass
    <2> QED
      BY <1>3, <1>7, <2>4 DEF LinesInv
  <1> QED
    BY <1>5, <1>6, <1>7 DEF LinesInv

\* What the invariant says of the lines that were found.
LEMMA LinesRight == LinesInv => BufferedLinesRight /\ NoFalseAlarm
  <1> SUFFICES ASSUME LinesInv PROVE BufferedLinesRight /\ NoFalseAlarm
    OBVIOUS
  <1>1. LinesTypes
    BY DEF LinesInv
  <1>2. NoFalseAlarm
    BY <1>1 DEF LinesTypes, NoFalseAlarm
  <1>3. ASSUME NEW f \in found,
               kept \/ tx_EOL_terminated[f.text]
                 \/ LineOf(f.text, f.tk) < LineOf(f.text, Tokens(f.text) - 1)
        PROVE  RightLine(f)
    <2>1. SecondPass
      BY <1>3 DEF LinesInv, FirstPass
    <2>2. PICK t \in TextIds : t = f.text
      BY <1>1 DEF LinesTypes, FoundType
    <2>3. f.type \in {"first", "last"} /\ f.tk \in Nat /\ Has(t, f.type, f.tk)
      BY <1>1, <2>2 DEF LinesTypes, FoundType, Has
    <2>4. Tokens(t) \in Nat /\ f.tk < Tokens(t)
      BY <1>1, <2>1, <2>3, HasFacts, TokensAre
    <2>5. CASE /\ ~kept /\ ~Ended(t) /\ LineOf(t, f.tk) = Newlines(t) + 1
      <3>1. file[t] # <<>>
        BY <2>5 DEF Ended
      <3>2. ~tx_EOL_terminated[t]
        BY <2>1, <2>5, <3>1 DEF SecondPass, Noted
      <3>3. Tokens(t) - 1 \in Nat /\ Tokens(t) - 1 < Tokens(t)
        BY <2>3, <2>4
      <3>4. LineOf(t, Tokens(t) - 1) \in 1 .. Newlines(t) + 1 /\ Newlines(t) \in Nat
        <4>1. PICK k \in Nat : k = Tokens(t) - 1 /\ k < Tokens(t)
          BY <3>3
        <4>2. LineOf(t, k) \in 1 .. Newlines(t) + 1
          BY <1>1, <4>1, LineBounds
        <4>3. 0 \in Nat
          OBVIOUS
        <4>4. Newlines(t) \in Nat
          BY <1>1, <4>3, BehindIs
        <4> QED
          BY <4>1, <4>2, <4>4
      <3> QED
        BY <1>3, <2>2, <2>5, <3>2, <3>4
    <2> QED
      BY <2>1, <2>2, <2>5 DEF SecondPass, LineRight
  <1> QED
    BY <1>2, <1>3 DEF BufferedLinesRight

-----------------------------------------------------------------------------
(* Pass 3: the lines that are printed.                                     *)

\* Whether a token is behind the end of a line.
LEMMA PlaceOnLine ==
  ASSUME LinesTypes, NEW t \in TextIds, NEW k \in 1 .. Len(file[t]), file[t][k] = "tk",
         NEW n \in Nat
  PROVE  Count(t, "nl", k) >= n <=> Behind(t, n) < k
  <1>1. /\ Len(file[t]) \in Nat /\ k \in Nat \ {0} /\ k <= Len(file[t])
        /\ Newlines(t) \in Nat /\ Behind(t, n) \in Nat
    <2>1. Len(file[t]) \in Nat
      BY TextFacts
    <2>2. Newlines(t) \in Nat /\ Behind(t, n) \in Nat
      BY BehindIs
    <2> QED
      BY <2>1, <2>2
  <1>2. Count(t, "nl", k) \in Nat /\ Count(t, "nl", k) <= Newlines(t)
    BY <1>1, CountStep, CountMono DEF Newlines
  <1>3. CASE n > Newlines(t)
    <2>1. Behind(t, n) = Len(file[t])
      BY <1>3, BehindIs
    <2> QED
      BY <1>1, <1>2, <1>3, <2>1
  <1>4. CASE n <= Newlines(t)
    <2>1. PICK b \in Nat : /\ b = Behind(t, n) /\ Count(t, "nl", b) = n
                           /\ n # 0 => file[t][b] = "nl"
                           /\ n = 0 => b = 0
      BY <1>4, BehindIs
    <2>2. CASE b < k
      <3>1. b <= k
        BY <1>1, <2>1, <2>2
      <3>2. n <= Count(t, "nl", k)
        BY <1>1, <2>1, <3>1, CountMono
      <3> QED
        BY <1>2, <2>1, <2>2, <3>2
    <2>3. CASE k < b
      <3>1. k <= b /\ b \in k + 1 .. b /\ n # 0
        BY <1>1, <2>1, <2>3
      <3>2. Count(t, "nl", k) <= n /\ Count(t, "nl", k) # n
        BY <1>1, <2>1, <3>1, CountMono
      <3> QED
        BY <1>1, <1>2, <2>1, <2>3, <3>2
    <2>4. b # k
      BY <1>1, <2>1
    <2> QED
      BY <1>1, <2>1, <2>2, <2>3, <2>4
  <1> QED
    BY <1>1, <1>3, <1>4

\* The tokens of a line are those between two line ends.
LEMMA OnLineIs ==
  ASSUME LinesTypes, NEW t \in TextIds, NEW n \in Nat
  PROVE  OnLine(t, n + 1) = {k \in Behind(t, n) + 1 .. Behind(t, n + 1) : file[t][k] = "tk"}
  <1>1. n + 1 \in Nat
    OBVIOUS
  <1>2. /\ Len(file[t]) \in Nat /\ DOMAIN file[t] = 1 .. Len(file[t])
        /\ Behind(t, n) \in Nat /\ Behind(t, n + 1) \in Nat /\ Behind(t, n + 1) <= Len(file[t])
    BY <1>1, TextFacts, BehindIs
  <1>3. OnLine(t, n + 1) = {k \in 1 .. Len(file[t]) : file[t][k] = "tk" /\ 1 + Count(t, "nl", k) = n + 1}
    BY <1>2 DEF OnLine, Count
  <1>4. ASSUME NEW k \in 1 .. Len(file[t]), file[t][k] = "tk"
        PROVE  1 + Count(t, "nl", k) = n + 1 <=> Behind(t, n) < k /\ k <= Behind(t, n + 1)
    <2>1. Count(t, "nl", k) >= n <=> Behind(t, n) < k
      BY <1>4, PlaceOnLine
    <2>2. Count(t, "nl", k) >= n + 1 <=> Behind(t, n + 1) < k
      BY <1>1, <1>4, PlaceOnLine
    <2>3. Count(t, "nl", k) \in Nat /\ k \in Nat
      BY <1>2, CountStep
    <2> QED
      BY <1>2, <2>1, <2>2, <2>3
  <1> HIDE DEF Count
  <1> QED
    BY <1>2, <1>3, <1>4

\* What was found of a chunk: the lines of its first and its last token.
LEMMA ChunkFacts ==
  ASSUME LinesTypes, SecondPass, NEW t \in TextIds, HasChunk(t), tx_pos[t] = {}
  PROVE  /\ FirstLine(t) \in Nat \ {0} /\ LastLine(t) \in Nat /\ FirstLine(t) <= LastLine(t)
         /\ FirstLine(t) <= MaxLexemes + 1 /\ LastLine(t) <= MaxLexemes + 1
         /\ LineFound(t, "first") = FirstLine(t)
         /\ LineFound(t, "last") = LastLine(t) \/ LineFound(t, "last") = LastLine(t) + 1
         /\ kept \/ tx_EOL_terminated[t] \/ LastLine(t) < LineOf(t, Tokens(t) - 1)
              => LineFound(t, "last") = LastLine(t) + 1
  <1>1. PICK h \in found : h.text = t
    BY DEF HasChunk
  <1>2. h.type \in {"first", "last"} /\ h.tk \in Nat /\ Has(t, h.type, h.tk)
    BY <1>1 DEF LinesTypes, FoundType, Has
  <1>3. OneRun(t) /\ Tokens(t) \in Nat
    BY TokensAre DEF SecondPass
  <1>4. PICK i \in Nat, j \in Nat : Has(t, "first", i) /\ Has(t, "last", j)
    <2>1. CASE h.type = "first"
      BY <1>2, <1>3, <2>1 DEF OneRun
    <2>2. CASE h.type = "last"
      BY <1>2, <1>3, <2>2 DEF OneRun
    <2> QED
      BY <1>2, <2>1, <2>2
  <1>5. i <= j /\ i < Tokens(t) /\ j < Tokens(t)
    BY <1>3, <1>4, HasFacts DEF OneRun
  <1>6. PICK f \in found : f.text = t /\ f.type = "first" /\ f.tk = i
    BY <1>4 DEF Has
  <1>7. PICK l \in found : l.text = t /\ l.type = "last" /\ l.tk = j
    BY <1>4 DEF Has
  <1>8. ASSUME NEW type, NEW g \in found, g.text = t, g.type = type, g.line \in 0 .. MaxLexemes + 2
        PROVE  TokenOf(t, type) = g.tk /\ LineFound(t, type) = g.line
    <2> DEFINE P(e) == e.text = t /\ e.type = type
               Q(n) == \E e \in found : e.text = t /\ e.type = type /\ e.line = n
    <2>1. \A e \in found : P(e) => e = g
      BY <1>8 DEF SecondPass, Once
    <2>2. P(g) /\ Q(g.line)
      BY <1>8
    <2>3. \A n : Q(n) => n = g.line
      BY <2>1
    <2> HIDE DEF P, Q
    <2>4. (CHOOSE e \in found : P(e)) = g
      BY <2>1, <2>2
    <2>5. (CHOOSE n \in 0 .. MaxLexemes + 2 : Q(n)) = g.line
      BY <1>8, <2>2, <2>3
    <2> QED
      BY <2>4, <2>5 DEF P, Q, TokenOf, LineFound
  <1>9. /\ LineOf(t, i) \in Nat \ {0} /\ LineOf(t, j) \in Nat /\ LineOf(t, i) <= LineOf(t, j)
        /\ LineOf(t, i) <= MaxLexemes + 1 /\ LineOf(t, j) <= MaxLexemes + 1 /\ MaxLexemes \in Nat
    <2>1. /\ LineOf(t, j) \in Nat /\ LineOf(t, j) <= MaxLexemes + 1
          /\ \A k \in Nat : k <= j => LineOf(t, k) <= LineOf(t, j)
      BY <1>5, LineBounds
    <2>2. LineOf(t, i) \in Nat /\ LineOf(t, i) \in 1 .. Newlines(t) + 1 /\ LineOf(t, i) <= MaxLexemes + 1
      BY <1>5, LineBounds
    <2> QED
      BY <1>5, <2>1, <2>2, LinesAssumption
  <1>10. f.line = LineOf(t, i)
    BY <1>6, <1>9 DEF SecondPass, LineRight, RightLine
  <1>11. l.line = LineOf(t, j) \/ l.line = LineOf(t, j) + 1
    BY <1>7, <1>9 DEF SecondPass, LineRight, RightLine
  <1>12. TokenOf(t, "first") = i /\ LineFound(t, "first") = LineOf(t, i)
    <2>1. f.line \in 0 .. MaxLexemes + 2
      BY <1>9, <1>10
    <2> QED
      BY <1>6, <1>8, <1>10, <2>1
  <1>13. TokenOf(t, "last") = j /\ LineFound(t, "last") = l.line
    <2>1. l.line \in 0 .. MaxLexemes + 2
      BY <1>9, <1>11
    <2> QED
      BY <1>7, <1>8, <2>1
  <1>14. FirstLine(t) = LineOf(t, i) /\ LastLine(t) = LineOf(t, j)
    BY <1>12, <1>13 DEF FirstLine, LastLine
  <1>15. ASSUME kept \/ tx_EOL_terminated[t] \/ LastLine(t) < LineOf(t, Tokens(t) - 1)
         PROVE  l.line = LineOf(t, j) + 1
    <2>1. kept \/ tx_EOL_terminated[l.text] \/ LineOf(l.text, l.tk) < LineOf(l.text, Tokens(l.text) - 1)
      BY <1>7, <1>14, <1>15
    <2>2. CASE /\ ~kept /\ ~Ended(t) /\ LineOf(t, j) = Newlines(t) + 1
      <3>1. file[t] # <<>>
        BY <2>2 DEF Ended
      <3>2. ~tx_EOL_terminated[t]
        BY <2>2, <3>1 DEF SecondPass, Noted
      <3>3. PICK k \in Nat : k = Tokens(t) - 1 /\ k < Tokens(t)
        BY <1>3, <1>5
      <3>4. LineOf(t, k) \in 1 .. Newlines(t) + 1 /\ LineOf(t, k) \in Nat
        BY <3>3, LineBounds
      <3>5. Newlines(t) \in Nat
        BY <1>5, BehindIs
      <3> QED
        BY <1>14, <1>15, <2>2, <3>2, <3>3, <3>4, <3>5
    <2>3. \/ l.line = LineOf(t, j) + 1
          \/ ~kept /\ ~Ended(t) /\ LineOf(t, j) = Newlines(t) + 1
      BY <1>7 DEF SecondPass, LineRight, RightLine
    <2> QED
      BY <2>2, <2>3
  <1> QED
    BY <1>9, <1>11, <1>12, <1>13, <1>14, <1>15

\* fill_line reads one line more of a chunk.
LEMMA LineEndIs ==
  ASSUME LinesTypes, NEW c, NEW t \in TextIds, chunk[c] = t, NEW n \in Nat, offset[c] = Behind(t, n)
  PROVE  LineEnd(c) = Behind(t, n + 1)
  <1> DEFINE Ends == {k \in offset[c] + 1 .. Len(file[t]) : file[t][k] = "nl"}
  <1>1. LineEnd(c) = IF Ends = {} THEN Len(file[t]) ELSE CHOOSE k \in Ends : \A l \in Ends : k <= l
    BY DEF LineEnd
  <1>2. /\ Newlines(t) \in Nat /\ Len(file[t]) \in Nat /\ Behind(t, n) \in Nat
    BY BehindIs
  <1>3. CASE n < Newlines(t)
    <2>1. /\ Behind(t, n + 1) \in Behind(t, n) + 1 .. Len(file[t])
          /\ file[t][Behind(t, n + 1)] = "nl"
          /\ \A l \in Behind(t, n) + 1 .. Len(file[t]) : file[t][l] = "nl" => Behind(t, n + 1) <= l
      BY <1>3, NextNewline
    <2>2. PICK b : b = Behind(t, n + 1)
      OBVIOUS
    <2>3. b \in Ends /\ Ends \subseteq Nat /\ \A k \in Ends : b <= k
      BY <1>2, <2>1, <2>2
    <2>4. (CHOOSE k \in Ends : \A l \in Ends : k <= l) = b
      <3> HIDE DEF Ends
      <3> QED
        BY <2>3, ChooseSmallest
    <2> HIDE DEF Ends
    <2> QED
      BY <1>1, <2>2, <2>3, <2>4
  <1>4. CASE n >= Newlines(t)
    <2>1. Ends = {}
      BY <1>4, NextNewline
    <2>2. n + 1 \in Nat /\ n + 1 > Newlines(t)
      BY <1>2, <1>4
    <2>3. Behind(t, n + 1) = Len(file[t])
      BY <2>2, BehindIs
    <2> QED
      BY <1>1, <2>1, <2>3
  <1> QED
    BY <1>2, <1>3, <1>4

\* Lines of chunks do not change in pass 3.
LEMMA SameLines ==
  ASSUME file' = file, found' = found
  PROVE  /\ \A t : HasChunk(t)' = HasChunk(t)
         /\ \A t : /\ LinesFound(t)' = LinesFound(t) /\ Skipped(t)' = Skipped(t)
                   /\ FirstLine(t)' = FirstLine(t) /\ LastLine(t)' = LastLine(t)
         /\ \A t, n : OnLine(t, n)' = OnLine(t, n)
  <1>1. \A t : HasChunk(t)' = HasChunk(t)
    BY DEF HasChunk
  <1>2. \A t : LinesFound(t)' = LinesFound(t) /\ Skipped(t)' = Skipped(t)
    BY DEF LinesFound, Skipped, LineFound
  <1>3. \A t : FirstLine(t)' = FirstLine(t) /\ LastLine(t)' = LastLine(t)
    BY DEF FirstLine, LastLine, TokenOf, LineOf, IsTokenAt
  <1>4. \A t, n : OnLine(t, n)' = OnLine(t, n)
    BY DEF OnLine
  <1> QED
    BY <1>1, <1>2, <1>3, <1>4

\* One chunk of the run that is shown, as Showing has it.
ChunkShowing(c, t) ==
  /\ chunk[c] = t
  /\ shown[c] \in Seq(SUBSET Nat)
  /\ nl_cnt[c] = LinesFound(t) - Len(shown[c]) /\ nl_cnt[c] \in Nat
  /\ offset[c] = IF t \in lost THEN Len(file[t]) ELSE Behind(t, Skipped(t) + Len(shown[c]))
  /\ \A k \in DOMAIN shown[c] :
       shown[c][k] = IF t \in lost THEN {} ELSE OnLine(t, FirstLine(t) + k - 1)

\* Showing is that of both chunks.
LEMMA ShowingIs ==
  Showing <=> /\ chunk \in [1 .. 2 -> TextIds] /\ \A c \in 1 .. 2 : HasChunk(chunk[c])
              /\ lost \subseteq TextIds
              /\ DOMAIN shown = 1 .. 2 /\ DOMAIN nl_cnt = 1 .. 2 /\ DOMAIN offset = 1 .. 2
              /\ \A c \in 1 .. 2 : ChunkShowing(c, chunk[c])
  BY DEF Showing, ChunkShowing

\* ... in the next state.
LEMMA ShowingNext ==
  ASSUME chunk' \in [1 .. 2 -> TextIds'], lost' \subseteq TextIds',
         DOMAIN shown' = 1 .. 2, DOMAIN nl_cnt' = 1 .. 2, DOMAIN offset' = 1 .. 2,
         \A c \in 1 .. 2 : HasChunk(chunk[c])' /\ ChunkShowing(c, chunk[c])'
  PROVE  Showing'
  BY DEF Showing, ChunkShowing

\* A line of one chunk is printed.
PrintLine(c, t) ==
  /\ shown'[c] = Append(shown[c], {k \in offset[c] + 1 .. LineEnd(c) : file[t][k] = "tk"})
  /\ offset'[c] = LineEnd(c)
  /\ nl_cnt'[c] = (nl_cnt[c] - 1) % SizeMod

\* One more line of a chunk is the next line of its run.
LEMMA PrintChunk ==
  ASSUME LinesTypes, SecondPass, NEW t \in TextIds, HasChunk(t), tx_pos[t] = {},
         NEW c \in 1 .. 2, ChunkShowing(c, t), nl_cnt[c] # 0,
         UNCHANGED <<file, found, chunk, lost>>, PrintLine(c, t)
  PROVE  ChunkShowing(c, t)'
  <1> DEFINE line == {k \in offset[c] + 1 .. LineEnd(c) : file[t][k] = "tk"}
  <1>1. PICK m \in Nat : m = Len(shown[c])
    BY DEF ChunkShowing
  <1>2. /\ FirstLine(t) \in Nat \ {0} /\ LastLine(t) \in Nat /\ FirstLine(t) <= LastLine(t)
        /\ LastLine(t) <= MaxLexemes + 1
        /\ LineFound(t, "first") = FirstLine(t)
        /\ LineFound(t, "last") = LastLine(t) \/ LineFound(t, "last") = LastLine(t) + 1
    BY ChunkFacts
  <1>3. PICK n \in Nat : n = Skipped(t) + m /\ n + 1 = FirstLine(t) + m /\ n + 1 = Skipped(t) + (m + 1)
    BY <1>1, <1>2 DEF Skipped
  <1>4. PICK size \in Nat, left \in Nat :
          /\ size = SizeMod /\ nl_cnt[c] = left + 1 /\ left < size
          /\ left = LinesFound(t) - (m + 1)
    <2>1. SizeMod \in Nat /\ SizeMod > MaxTexts + MaxLexemes /\ MaxLexemes \in Nat /\ MaxTexts \in Nat
          /\ MaxTexts >= 1
      <3>1. Len(file) \in Nat \ {0} /\ Len(file) <= MaxTexts
        BY TextFacts
      <3> QED
        BY <3>1, SizeAssumption, LinesAssumption
    <2>2. LinesFound(t) \in Int /\ LinesFound(t) <= MaxLexemes + 1
      BY <1>2, <2>1 DEF LinesFound
    <2>3. nl_cnt[c] = LinesFound(t) - m /\ nl_cnt[c] \in Nat
      BY <1>1 DEF ChunkShowing
    <2>4. PICK found_lines \in Int : found_lines = LinesFound(t)
      BY <2>2
    <2>5. nl_cnt[c] - 1 \in Nat /\ nl_cnt[c] - 1 < SizeMod
          /\ nl_cnt[c] - 1 = LinesFound(t) - (m + 1)
      BY <2>1, <2>2, <2>3, <2>4
    <2> QED
      BY <2>1, <2>3, <2>5
  <1>5. nl_cnt'[c] = left
    <2>1. left % size = left
      BY <1>4
    <2>2. nl_cnt'[c] = (nl_cnt[c] - 1) % size
      BY <1>4 DEF PrintLine
    <2>3. nl_cnt[c] - 1 = left
      BY <1>4
    <2> QED
      BY <2>1, <2>2, <2>3
  <1>6. nl_cnt'[c] = LinesFound(t) - (m + 1) /\ nl_cnt'[c] \in Nat
    BY <1>4, <1>5
  <1>7. /\ offset'[c] = IF t \in lost THEN Len(file[t]) ELSE Behind(t, n + 1)
        /\ line = IF t \in lost THEN {} ELSE OnLine(t, n + 1)
        /\ line \in SUBSET Nat
    <2>1. CASE t \in lost
      <3>1. offset[c] = Len(file[t]) /\ chunk[c] = t /\ Len(file[t]) \in Nat
        BY <2>1, TextFacts DEF ChunkShowing
      <3>2. LineEnd(c) = Len(file[t])
        BY <3>1 DEF LineEnd
      <3> QED
        BY <2>1, <3>1, <3>2 DEF PrintLine
    <2>2. CASE t \notin lost
      <3>1. offset[c] = Behind(t, n) /\ chunk[c] = t /\ Behind(t, n) \in Nat
        BY <1>1, <1>3, <2>2, BehindIs DEF ChunkShowing
      <3>2. LineEnd(c) = Behind(t, n + 1)
        BY <3>1, LineEndIs
      <3>3. line = {k \in Behind(t, n) + 1 .. Behind(t, n + 1) : file[t][k] = "tk"}
        BY <3>1, <3>2
      <3>4. OnLine(t, n + 1) = {k \in Behind(t, n) + 1 .. Behind(t, n + 1) : file[t][k] = "tk"}
        BY OnLineIs
      <3>5. n + 1 \in Nat
        OBVIOUS
      <3>6. Behind(t, n + 1) \in Nat
        BY <3>5, BehindIs
      <3>7. line \in SUBSET Nat
        BY <3>1, <3>3, <3>6
      <3> QED
        BY <2>2, <3>2, <3>3, <3>4, <3>7 DEF PrintLine
    <2> QED
      BY <2>1, <2>2
  <1>8. PICK l \in SUBSET Nat : l = line
    BY <1>7
  <1>9. /\ shown'[c] \in Seq(SUBSET Nat) /\ Len(shown'[c]) = m + 1
        /\ DOMAIN shown'[c] = 1 .. m + 1 /\ DOMAIN shown[c] = 1 .. m
        /\ \A k \in 1 .. m : shown'[c][k] = shown[c][k]
        /\ shown'[c][m + 1] = l
    <2>1. shown[c] \in Seq(SUBSET Nat) /\ shown'[c] = Append(shown[c], l)
      BY <1>8 DEF ChunkShowing, PrintLine
    <2> QED
      BY <1>1, <2>1
  <1>10. ASSUME NEW k \in 1 .. m + 1
         PROVE  shown'[c][k] = IF t \in lost THEN {} ELSE OnLine(t, FirstLine(t) + k - 1)
    <2>1. CASE k \in 1 .. m
      BY <1>9, <2>1 DEF ChunkShowing
    <2>2. CASE k = m + 1
      <3>1. FirstLine(t) + k - 1 = n + 1
        BY <1>2, <1>3, <2>2
      <3> QED
        BY <1>7, <1>8, <1>9, <2>2, <3>1
    <2> QED
      BY <2>1, <2>2
  <1>11. /\ LinesFound(t)' = LinesFound(t) /\ Skipped(t)' = Skipped(t)
         /\ FirstLine(t)' = FirstLine(t) /\ \A j : OnLine(t, j)' = OnLine(t, j)
         /\ \A j : Behind(t, j)' = Behind(t, j)
    BY SameLines, SameFile
  <1>12. chunk'[c] = t
    BY DEF ChunkShowing
  <1>13. offset'[c] = (IF t \in lost THEN Len(file[t]) ELSE Behind(t, Skipped(t) + Len(shown[c])))'
    <2>1. (Skipped(t) + Len(shown[c]))' = n + 1
      BY <1>3, <1>9, <1>11
    <2>2. Behind(t, Skipped(t) + Len(shown[c]))' = Behind(t, n + 1)
      BY <1>11, <2>1
    <2> QED
      BY <1>7, <2>2
  <1> QED
    BY <1>6, <1>9, <1>10, <1>11, <1>12, <1>13 DEF ChunkShowing

\* show_1_run and show_1C_line print lines of one chunk or of both.
LEMMA PrintStep ==
  ASSUME ShowInv, pc = "show", NEW C, C \subseteq Left, PrintLines(C)
  PROVE  ShowInv'
  <1> USE DEF lexVars, buffVars, textInfo, passTwo
  <1>1. /\ LinesInv /\ LinesTypes /\ SecondPass /\ Showing /\ format \in {"columns", "diff"}
        /\ \A t \in TextIds : tx_pos[t] = {}
    BY DEF ShowInv, LinesInv, SecondPass
  <1>2. /\ pc' = pc /\ UNCHANGED <<file, found, chunk, lost, format>>
        /\ UNCHANGED <<file, cur, at, lexVars, buffVars, textInfo, passTwo>>
    BY DEF PrintLines, lineVars
  <1>3. LinesInv'
    BY <1>1, <1>2, LinesFrame
  <1>4. DOMAIN shown' = 1 .. 2 /\ DOMAIN nl_cnt' = 1 .. 2 /\ DOMAIN offset' = 1 .. 2
    BY DEF PrintLines
  <1>5. ASSUME NEW c \in 1 .. 2, NEW t \in TextIds, t = chunk[c] PROVE ChunkShowing(c, t)'
    <2>1. ChunkShowing(c, t) /\ HasChunk(t)
      BY <1>1, <1>5, ShowingIs
    <2>2. CASE c \in C
      <3>1. PrintLine(c, t)
        BY <1>5, <2>2 DEF PrintLines, PrintLine
      <3>2. nl_cnt[c] # 0
        BY <2>2 DEF Left
      <3> QED
        BY <1>1, <1>2, <2>1, <3>1, <3>2, PrintChunk
    <2>3. CASE c \notin C
      <3>1. shown'[c] = shown[c] /\ nl_cnt'[c] = nl_cnt[c] /\ offset'[c] = offset[c]
        BY <2>3 DEF PrintLines
      <3>2. PICK s : s = shown[c]
        OBVIOUS
      <3>3. PICK k : k = Skipped(t) + Len(s)
        OBVIOUS
      <3>4. /\ LinesFound(t)' = LinesFound(t) /\ Skipped(t)' = Skipped(t)
            /\ FirstLine(t)' = FirstLine(t) /\ \A j : OnLine(t, j)' = OnLine(t, j)
            /\ Behind(t, k)' = Behind(t, k)
        BY <1>2, SameLines, SameFile
      <3>5. (Skipped(t) + Len(shown[c]))' = k
        BY <3>1, <3>2, <3>3, <3>4
      <3>6. Behind(t, Skipped(t) + Len(shown[c]))' = Behind(t, Skipped(t) + Len(shown[c]))
        BY <3>2, <3>3, <3>4, <3>5
      <3> QED
        BY <1>2, <2>1, <3>1, <3>4, <3>6 DEF ChunkShowing
    <2> QED
      BY <2>2, <2>3
  <1>6. Showing'
    <2>1. TextIds' = TextIds /\ \A t : HasChunk(t)' = HasChunk(t)
      BY <1>2, SameFile, SameLines
    <2>2. ASSUME NEW c \in 1 .. 2 PROVE ChunkShowing(c, chunk[c])' /\ HasChunk(chunk[c])'
      <3>1. PICK t \in TextIds : t = chunk[c]
        BY <1>1 DEF Showing
      <3>2. chunk'[c] = t
        BY <1>2, <3>1
      <3>3. ChunkShowing(c, t)' /\ HasChunk(t)'
        BY <1>1, <1>5, <2>1, <3>1 DEF Showing
      <3> QED
        BY <3>2, <3>3
    <2>3. chunk' \in [1 .. 2 -> TextIds'] /\ lost' \subseteq TextIds'
      BY <1>1, <1>2, <2>1 DEF Showing
    <2> QED
      BY <1>4, <2>2, <2>3, ShowingNext
  <1> QED
    BY <1>1, <1>2, <1>3, <1>6 DEF ShowInv

\* show_run opens both chunks at their first lines.
LEMMA OpenChunksStep ==
  ASSUME ShowInv, OpenChunks
  PROVE  ShowInv'
  <1> USE DEF lexVars, buffVars, textInfo, passTwo
  <1>1. /\ LinesInv /\ LinesTypes /\ SecondPass /\ pc = "end"
        /\ \A t \in TextIds : tx_pos[t] = {}
    BY DEF ShowInv, LinesInv, SecondPass, OpenChunks
  <1>2. /\ UNCHANGED <<file, found, cur, at, lexVars, buffVars, textInfo, passTwo>>
        /\ format' \in {"columns", "diff", "headings"} /\ lost' \subseteq TextIds
        /\ pc' = IF format' = "headings" THEN "shown" ELSE "show"
        /\ shown' = <<<<>>, <<>>>>
    BY DEF OpenChunks
  <1>3. LinesInv'
    BY <1>1, <1>2, LinesFrame
  <1>4. TextIds = 1 .. Len(file) /\ Len(file) \in Nat \ {0} /\ Len(file) <= MaxTexts
    BY <1>1, TextFacts DEF LinesTypes
  <1>5. PICK t0 \in TextIds, t1 \in TextIds :
          HasChunk(t0) /\ HasChunk(t1) /\ chunk' = <<t0, t1>>
    <2> DEFINE T == {t \in TextIds : HasChunk(t)}
               P0(t) == HasChunk(t) /\ \A u \in TextIds : HasChunk(u) => t <= u
               P1(t) == HasChunk(t) /\ \A u \in TextIds : HasChunk(u) => t >= u
    <2>1. T # {} /\ T \subseteq Nat /\ T \subseteq 0 .. Len(file)
      BY <1>4 DEF OpenChunks
    <2>2. \E t \in T : \A u \in T : t <= u
      BY <2>1, SmallestIn
    <2>3. \E t \in T : \A u \in T : u <= t
      BY <1>4, <2>1, LargestUpTo
    <2>4. \E t \in TextIds : P0(t)
      BY <2>2
    <2>5. \E t \in TextIds : P1(t)
      BY <1>4, <2>3
    <2>6. chunk' = <<CHOOSE t \in TextIds : P0(t), CHOOSE t \in TextIds : P1(t)>>
      BY DEF OpenChunks
    <2>7. \A t : (P0(t) => HasChunk(t)) /\ (P1(t) => HasChunk(t))
      OBVIOUS
    <2> HIDE DEF P0, P1
    <2> QED
      BY <2>4, <2>5, <2>6, <2>7
  <1>6. chunk' \in [1 .. 2 -> TextIds]
    BY <1>5
  <1>7. ASSUME NEW c \in 1 .. 2, NEW t \in TextIds, t = chunk'[c], HasChunk(t)
        PROVE  ChunkShowing(c, t)'
    <2>1. /\ FirstLine(t) \in Nat \ {0} /\ LastLine(t) \in Nat /\ FirstLine(t) <= LastLine(t)
          /\ LastLine(t) <= MaxLexemes + 1
          /\ LineFound(t, "first") = FirstLine(t)
          /\ LineFound(t, "last") = LastLine(t) \/ LineFound(t, "last") = LastLine(t) + 1
      BY <1>1, <1>7, ChunkFacts
    <2>2. PICK size \in Nat : size = SizeMod /\ size > MaxLexemes + 1
      <3>1. MaxTexts \in Nat /\ MaxLexemes \in Nat
        BY LinesAssumption
      <3> QED
        BY <1>4, <3>1, SizeAssumption
    <2>3. PICK n \in Nat : n = LinesFound(t) /\ n < size
      BY <2>1, <2>2, LinesAssumption DEF LinesFound
    <2>4. nl_cnt'[c] = n
      <3>1. n % size = n
        BY <2>3
      <3>2. nl_cnt'[c] = LinesFound(t) % SizeMod
        BY <1>7 DEF OpenChunks, LinesFound
      <3> QED
        BY <2>2, <2>3, <3>1, <3>2
    <2>5. PICK k \in Nat : k = Skipped(t)
      BY <2>1 DEF Skipped
    <2>6. offset'[c] = IF t \in lost' THEN Len(file[t]) ELSE Behind(t, k)
      BY <1>7, <2>5 DEF OpenChunks
    <2>7. shown'[c] = <<>> /\ Len(shown'[c]) = 0 /\ DOMAIN shown'[c] = {}
          /\ shown'[c] \in Seq(SUBSET Nat)
      <3>1. shown'[1] = <<>> /\ shown'[2] = <<>>
        BY <1>2
      <3>2. shown'[c] = <<>>
        BY <3>1
      <3>3. Len(<<>>) = 0 /\ DOMAIN <<>> = {} /\ <<>> \in Seq(SUBSET Nat)
        OBVIOUS
      <3> QED
        BY <3>2, <3>3
    <2>8. LinesFound(t)' = n /\ Skipped(t)' = k /\ Behind(t, k)' = Behind(t, k)
      BY <1>2, <2>3, <2>5, SameLines, SameFile
    <2>9. (Skipped(t) + Len(shown[c]))' = k
      BY <2>5, <2>7, <2>8
    <2>10. Behind(t, Skipped(t) + Len(shown[c]))' = Behind(t, k)
      BY <2>8, <2>9
    <2>11. nl_cnt'[c] = (LinesFound(t) - Len(shown[c]))' /\ nl_cnt'[c] \in Nat
      BY <2>3, <2>4, <2>7, <2>8
    <2>12. offset'[c] = (IF t \in lost THEN Len(file[t]) ELSE Behind(t, Skipped(t) + Len(shown[c])))'
      BY <1>2, <2>6, <2>10
    <2> QED
      BY <1>7, <2>7, <2>11, <2>12 DEF ChunkShowing
  <1>8. Showing'
    <2>1. TextIds' = TextIds /\ \A t : HasChunk(t)' = HasChunk(t)
      BY <1>2, SameFile, SameLines
    <2>2. ASSUME NEW c \in 1 .. 2 PROVE ChunkShowing(c, chunk[c])' /\ HasChunk(chunk[c])'
      <3>1. PICK t \in TextIds : t = chunk'[c] /\ HasChunk(t)
        BY <1>5
      <3>2. ChunkShowing(c, t)' /\ HasChunk(t)'
        BY <1>7, <2>1, <3>1
      <3> QED
        BY <3>1, <3>2
    <2>3. chunk' \in [1 .. 2 -> TextIds'] /\ lost' \subseteq TextIds'
      BY <1>2, <1>6, <2>1
    <2>4. DOMAIN shown' = 1 .. 2 /\ DOMAIN nl_cnt' = 1 .. 2 /\ DOMAIN offset' = 1 .. 2
      BY DEF OpenChunks
    <2> QED
      BY <2>2, <2>3, <2>4, ShowingNext
  <1> QED
    BY <1>2, <1>3, <1>8 DEF ShowInv

\* Steps that print nothing change nothing of what was printed.
LEMMA ShowingFrame ==
  ASSUME UNCHANGED showVars, UNCHANGED <<file, found>>, Showing
  PROVE  Showing'
  <1>1. /\ TextIds' = TextIds /\ \A t, n : Behind(t, n)' = Behind(t, n)
        /\ \A t : /\ HasChunk(t)' = HasChunk(t) /\ LinesFound(t)' = LinesFound(t)
                  /\ Skipped(t)' = Skipped(t) /\ FirstLine(t)' = FirstLine(t)
        /\ \A t, n : OnLine(t, n)' = OnLine(t, n)
    BY SameFile, SameLines
  <1>2. ASSUME NEW c \in 1 .. 2 PROVE HasChunk(chunk[c])' /\ ChunkShowing(c, chunk[c])'
    <2>1. PICK t : t = chunk[c]
      OBVIOUS
    <2>2. ChunkShowing(c, t) /\ HasChunk(t) /\ chunk'[c] = t
      BY <2>1, ShowingIs DEF showVars
    <2>3. PICK k : k = Skipped(t) + Len(shown[c])
      OBVIOUS
    <2>4. (Skipped(t) + Len(shown[c]))' = k
      BY <1>1, <2>3 DEF showVars
    <2>5. Behind(t, Skipped(t) + Len(shown[c]))' = Behind(t, k)
      BY <1>1, <2>4
    <2>6. ChunkShowing(c, t)' /\ HasChunk(t)'
      BY <1>1, <2>2, <2>3, <2>5 DEF ChunkShowing, showVars
    <2> QED
      BY <2>2, <2>6
  <1>3. /\ chunk' \in [1 .. 2 -> TextIds'] /\ lost' \subseteq TextIds'
        /\ DOMAIN shown' = 1 .. 2 /\ DOMAIN nl_cnt' = 1 .. 2 /\ DOMAIN offset' = 1 .. 2
    BY <1>1 DEF Showing, showVars
  <1> QED
    BY <1>2, <1>3, ShowingNext

\* Every step keeps the invariant of all three passes.
LEMMA ShowStepInv ==
  ASSUME ShowInv, [ShowNext]_<<lineVars, showVars>>
  PROVE  ShowInv'
  <1> USE DEF lexVars, buffVars, textInfo, passTwo
  <1>1. LinesInv
    BY DEF ShowInv
  <1>2. ASSUME UNCHANGED showVars, UNCHANGED <<file, found>>, LinesInv',
               \/ pc' = pc
               \/ pc \notin {"show", "shown"} /\ pc' \notin {"show", "shown"}
        PROVE  ShowInv'
    <2>1. Showing => Showing'
      BY <1>2, ShowingFrame
    <2>3. ~ (pc' \in {"show", "shown"}) => format' = "none"
      BY <1>2 DEF ShowInv, showVars
    <2> QED
      BY <1>2, <2>1, <2>3 DEF ShowInv, showVars
  <1>3. CASE LinesNext /\ UNCHANGED showVars
    <2>1. LinesInv'
      BY <1>1, <1>3, LinesStep
    <2>2. /\ pc \notin {"show", "shown"} /\ pc' \notin {"show", "shown"}
      BY <1>3 DEF LinesNext, OpenFirst, ReadToken, ReadNewline, CloseFirst, FindRuns,
                  SkipText, OpenSecond, NextLine, FillPos, FillAtEnd, CloseSecond, NextText
    <2>3. format' = "none" /\ format = "none"
      BY <1>3, <2>2 DEF ShowInv, showVars
    <2> QED
      BY <2>1, <2>2, <2>3 DEF ShowInv
  <1>4. CASE OpenChunks
    BY <1>4, OpenChunksStep
  <1>5. CASE NothingToShow
    <2>1. LinesInv'
      BY <1>1, <1>5, LinesFrame DEF NothingToShow
    <2>2. format' = "none" /\ pc' = "shown"
      BY <1>5 DEF NothingToShow, ShowInv, showVars
    <2> QED
      BY <2>1, <2>2 DEF ShowInv
  <1>6. CASE ShowColumns
    BY <1>6, PrintStep DEF ShowColumns
  <1>7. CASE ShowDiff
    <2>1. (IF 1 \in Left THEN {1} ELSE {2}) \subseteq Left
      BY <1>7 DEF ShowDiff, Left
    <2> QED
      BY <1>7, <2>1, PrintStep DEF ShowDiff
  <1>8. CASE CloseChunks
    <2>1. LinesInv'
      BY <1>1, <1>8, LinesFrame DEF CloseChunks
    <2>2. /\ pc = "show" /\ pc' = "shown" /\ UNCHANGED showVars /\ UNCHANGED <<file, found>>
          /\ \A c \in 1 .. 2 : nl_cnt[c] = 0
      BY <1>8 DEF CloseChunks, Left
    <2>3. Showing => Showing'
      BY <2>2, ShowingFrame
    <2> QED
      BY <2>1, <2>2, <2>3 DEF ShowInv, showVars
  <1>9. CASE UNCHANGED <<lineVars, showVars>>
    <2>1. LinesInv'
      BY <1>1, <1>9, LinesFrame DEF lineVars
    <2> QED
      BY <1>2, <1>9, <2>1 DEF lineVars
  <1> QED
    BY <1>3, <1>4, <1>5, <1>6, <1>7, <1>8, <1>9 DEF ShowNext

\* What the invariant says of the lines that are printed.
LEMMA ShowInvRight == ShowInv => ShownRight
  <1> SUFFICES ASSUME ShowInv, pc \in {"show", "shown"}, format \in {"columns", "diff"},
                      NEW c \in 1 .. 2, NEW t, t = chunk[c]
               PROVE  LET lines == LastLine(t) - FirstLine(t) + 1
                      IN /\ Len(shown[c]) <= lines
                         /\ \A k \in DOMAIN shown[c] :
                              shown[c][k] = IF t \in lost THEN {} ELSE OnLine(t, FirstLine(t) + k - 1)
                         /\ /\ pc = "shown"
                            /\ kept \/ tx_EOL_terminated[t] \/ LastLine(t) < LineOf(t, Tokens(t) - 1)
                            => Len(shown[c]) = lines
    BY DEF ShownRight
  <1>1. /\ LinesTypes /\ SecondPass /\ Showing /\ \A u \in TextIds : tx_pos[u] = {}
    BY DEF ShowInv, LinesInv, SecondPass
  <1>2. t \in TextIds /\ HasChunk(t) /\ ChunkShowing(c, t)
    BY <1>1, ShowingIs
  <1>3. /\ FirstLine(t) \in Nat \ {0} /\ LastLine(t) \in Nat /\ FirstLine(t) <= LastLine(t)
        /\ LineFound(t, "first") = FirstLine(t)
        /\ LineFound(t, "last") = LastLine(t) \/ LineFound(t, "last") = LastLine(t) + 1
        /\ kept \/ tx_EOL_terminated[t] \/ LastLine(t) < LineOf(t, Tokens(t) - 1)
             => LineFound(t, "last") = LastLine(t) + 1
    BY <1>1, <1>2, ChunkFacts
  <1>4. PICK m \in Nat, left \in Nat :
          m = Len(shown[c]) /\ left = nl_cnt[c] /\ left = LinesFound(t) - m
    BY <1>2 DEF ChunkShowing
  <1>5. m <= LastLine(t) - FirstLine(t) + 1
    BY <1>3, <1>4 DEF LinesFound
  <1>6. pc = "shown" => left = 0
    BY <1>4 DEF ShowInv
  <1>7. /\ pc = "shown"
        /\ kept \/ tx_EOL_terminated[t] \/ LastLine(t) < LineOf(t, Tokens(t) - 1)
        => m = LastLine(t) - FirstLine(t) + 1
    BY <1>3, <1>4, <1>6 DEF LinesFound
  <1> QED
    BY <1>2, <1>4, <1>5, <1>7 DEF ChunkShowing

-----------------------------------------------------------------------------
(* Theorems.                                                               *)

\* The invariant of the three passes.
LEMMA ShowInductive == ShowSpec => []ShowInv
  <1>1. ShowInit => ShowInv
    <2> SUFFICES ASSUME ShowInit PROVE ShowInv
      OBVIOUS
    <2>1. LinesInv
      BY LinesInitial DEF ShowInit
    <2> QED
      BY <2>1 DEF ShowInv, ShowInit, LinesInit
  <1>2. ShowInv /\ [ShowNext]_<<lineVars, showVars>> => ShowInv'
    BY ShowStepInv
  <1> QED
    BY <1>1, <1>2, PTL DEF ShowSpec

\* pass2.c finds the lines of every run from the buffer of differences, however
\* large the texts, and from the files for all tokens but those of a last line
\* that has no newline.
THEOREM LinesFoundRight == ShowSpec => []BufferedLinesRight
  <1>1. ShowInv => BufferedLinesRight
    BY LinesRight DEF ShowInv
  <1> QED
    BY <1>1, ShowInductive, PTL

\* pass2.c never says of a text that it was modified that was not.
THEOREM NotModified == ShowSpec => []NoFalseAlarm
  <1>1. ShowInv => NoFalseAlarm
    BY LinesRight DEF ShowInv
  <1> QED
    BY <1>1, ShowInductive, PTL

\* pass3.c prints the lines of a run from its first to its last token, in order,
\* and never more: the unsigned counts of lines do not pass 0.
THEOREM RunsShown == ShowSpec => []ShownRight
  BY ShowInductive, ShowInvRight, PTL

-----------------------------------------------------------------------------
(* The order of the runs: ord gives them from first to last, and pos the   *)
(* places in it.  Each pointer of the tree spans a part of it.             *)
TreePlaces(N) == {Root} \cup ({"left", "right"} \X N)

InOrd(n, ord, pos) ==
  /\ ord \in [1 .. n -> 1 .. n]
  /\ pos \in [1 .. n -> 1 .. n]
  /\ \A k \in 1 .. n : ord[pos[k]] = k /\ pos[ord[k]] = k

\* The list goes through the runs in order.
ListThreads(n, links, ord) ==
  /\ links[List] = IF n = 0 THEN 0 ELSE ord[1]
  /\ \A k \in 1 .. n : links[<<"next", ord[k]>>] = IF k = n THEN 0 ELSE ord[k + 1]

\* What a pointer of the tree spans, in terms of what its node does: all, the
\* part before the node, or the part behind it.
First(p, pos, lo) ==
  IF p = Root THEN 1 ELSE IF p[1] = "left" THEN lo[p[2]] ELSE pos[p[2]] + 1
Final(p, n, pos, hi) ==
  IF p = Root THEN n ELSE IF p[1] = "left" THEN pos[p[2]] - 1 ELSE hi[p[2]]

Spans(p, n, links, pos, lo, hi) ==
  IF links[p] = 0 THEN First(p, pos, lo) = Final(p, n, pos, hi) + 1
  ELSE lo[links[p]] = First(p, pos, lo) /\ hi[links[p]] = Final(p, n, pos, hi)

TreeSpans(n, links, pos, lo, hi) ==
  /\ lo \in [1 .. n -> 1 .. n]
  /\ hi \in [1 .. n -> 1 .. n]
  /\ \A k \in 1 .. n : lo[k] <= pos[k] /\ pos[k] <= hi[k]
  /\ \A p \in TreePlaces(1 .. n) : Spans(p, n, links, pos, lo, hi)

\* No two pointers of the tree lead to the same node.
OneParent(n, links) ==
  \A p, q \in TreePlaces(1 .. n) : links[p] = links[q] /\ links[p] # 0 => p = q

LinksTyped(n, links) ==
  links \in [Places(1 .. n) -> 0 .. n]

Sorted(n, values, ord) ==
  \A k, m \in 1 .. n : k < m =>
    \/ values[ord[k]] > values[ord[m]]
    \/ values[ord[k]] = values[ord[m]] /\ ord[k] < ord[m]

Woven(n, values, links, ord, pos, lo, hi) ==
  /\ InOrd(n, ord, pos)
  /\ LinksTyped(n, links)
  /\ ListThreads(n, links, ord)
  /\ TreeSpans(n, links, pos, lo, hi)
  /\ OneParent(n, links)
  /\ Sorted(n, values, ord)

\* A run of this size belongs behind the first t runs.
Belongs(size, t, n, values, ord) ==
  /\ t \in 0 .. n
  /\ \A k \in 1 .. t : values[ord[k]] >= size
  /\ \A k \in t + 1 .. n : values[ord[k]] < size

PrevAt(m, ord) == IF m = 0 THEN List ELSE <<"next", ord[m]>>

\* During an insertion the place where the run belongs is among those that
\* hook spans, and prev is not behind it.
Seeks(size, t, n, values, p, q, ord, pos, lo, hi) ==
  /\ p \in TreePlaces(1 .. n)
  /\ Belongs(size, t, n, values, ord)
  /\ First(p, pos, lo) - 1 <= t /\ t <= Final(p, n, pos, hi)
  /\ \E m \in 0 .. t : First(p, pos, lo) - 1 <= m /\ q = PrevAt(m, ord)

AisoInv ==
  /\ value \in Seq(Size)
  /\ v \in Size \cup {0}
  /\ \E ord, pos, lo, hi :
       /\ Woven(AisoSize, value, link, ord, pos, lo, hi)
       /\ v # 0 => \E t : Seeks(v, t, AisoSize, value, hook, prev, ord, pos, lo, hi)

-----------------------------------------------------------------------------
(* Pointers.                                                               *)

\* The pointers of the tree are no others.
LEMMA PlacesAre ==
  ASSUME NEW N
  PROVE  /\ TreePlaces(N) \subseteq Places(N) /\ List \in Places(N)
         /\ \A k \in N : <<"next", k>> \in Places(N) /\ <<"next", k>> \notin TreePlaces(N)
         /\ Root \in TreePlaces(N) /\ List \notin TreePlaces(N)
         /\ \A k \in N : <<"left", k>> \in TreePlaces(N) /\ <<"right", k>> \in TreePlaces(N)
         /\ \A p \in TreePlaces(N) :
              p = Root \/ \E k \in N : p = <<"left", k>> \/ p = <<"right", k>>
         /\ \A k : <<"left", k>> # Root /\ <<"right", k>> # Root
         /\ \A k, m : <<"left", k>> # <<"right", m>>
         /\ \A k, m : <<"left", k>> = <<"left", m>> \/ <<"right", k>> = <<"right", m>> => k = m
  BY DEF TreePlaces, Places, Root, List

\* What the root spans.
LEMMA RootSpans ==
  ASSUME NEW n, NEW pos, NEW lo, NEW hi
  PROVE  First(Root, pos, lo) = 1 /\ Final(Root, n, pos, hi) = n
  BY DEF First, Final

\* A pointer of the tree is the root or a side of a node.
LEMMA APlace ==
  ASSUME NEW N, NEW p \in TreePlaces(N)
  PROVE  p = Root \/ \E k \in N : p = <<"left", k>> \/ p = <<"right", k>>
  BY DEF TreePlaces

\* The sides of a node are not the root.
LEMMA SideIsNotRoot ==
  \A k : <<"left", k>> # Root /\ <<"right", k>> # Root
  BY DEF Root

\* The nodes that are linked.
LEMMA Linked ==
  ASSUME NEW n \in Nat, NEW links, LinksTyped(n, links), NEW p \in TreePlaces(1 .. n),
         links[p] # 0
  PROVE  links[p] \in 1 .. n
  <1>1. p \in Places(1 .. n)
    BY PlacesAre
  <1> QED
    BY <1>1 DEF LinksTyped

\* The sizes of runs are numbers.
LEMMA SizeNat ==
  ASSUME NEW values \in Seq(Size)
  PROVE  /\ Len(values) \in Nat
         /\ \A k \in 1 .. Len(values) : values[k] \in Nat /\ values[k] \in Size
         /\ \A s \in Size : s \in Nat /\ s # 0
  <1>1. Len(values) \in Nat
    OBVIOUS
  <1>2. \A s \in Size : s \in Nat /\ s # 0
    BY AisoAssumption
  <1>3. \A k \in 1 .. Len(values) : values[k] \in Size
    OBVIOUS
  <1> QED
    BY <1>1, <1>2, <1>3

\* Every run belongs somewhere.
LEMMA Somewhere ==
  ASSUME NEW values \in Seq(Size), NEW size \in Size, NEW n, n = Len(values),
         NEW ord \in [1 .. n -> 1 .. n], Sorted(n, values, ord)
  PROVE  \E t : Belongs(size, t, n, values, ord)
  <1> DEFINE T == {k \in 0 .. n : k = 0 \/ values[ord[k]] >= size}
  <1>0. n \in Nat /\ \A k \in 1 .. n : values[ord[k]] \in Nat
    BY SizeNat
  <1>1. T \subseteq 0 .. n /\ 0 \in T
    BY <1>0
  <1>2. PICK t \in T : \A k \in T : k <= t
    BY <1>0, <1>1, LargestUpTo
  <1>3. t \in 0 .. n /\ (t = 0 \/ values[ord[t]] >= size)
    BY <1>2
  <1>4. size \in Nat
    BY SizeNat
  <1>5. ASSUME NEW k \in 1 .. t PROVE values[ord[k]] >= size
    <2>1. k \in 1 .. n /\ t \in 1 .. n
      BY <1>0, <1>3
    <2>2. k = t \/ values[ord[k]] >= values[ord[t]]
      BY <1>0, <2>1 DEF Sorted
    <2> QED
      BY <1>0, <1>3, <1>4, <2>1, <2>2
  <1>6. ASSUME NEW k \in t + 1 .. n PROVE values[ord[k]] < size
    <2>1. k \in 1 .. n /\ k \notin T
      BY <1>0, <1>2, <1>3
    <2> QED
      BY <1>0, <1>4, <2>1
  <1> QED
    BY <1>3, <1>5, <1>6 DEF Belongs

-----------------------------------------------------------------------------
(* Steps that change neither the tree nor the list.                        *)

\* The empty tree.
LEMMA AisoInitOK == AisoInit => AisoInv
  <1> SUFFICES ASSUME AisoInit PROVE AisoInv
    OBVIOUS
  <1> DEFINE e == [k \in 1 .. 0 |-> 1]
  <1>0. 1 .. 0 = {}
    OBVIOUS
  <1>1. value = <<>> /\ AisoSize = 0 /\ v = 0 /\ link = [p \in Places({}) |-> 0]
    BY DEF AisoInit, AisoSize
  <1>2. TreePlaces(1 .. 0) = {Root} /\ Places(1 .. 0) = {Root, List}
    BY <1>0 DEF TreePlaces, Places
  <1>3. link \in [Places(1 .. 0) -> 0 .. 0] /\ link[Root] = 0 /\ link[List] = 0
    BY <1>0, <1>1, <1>2
  <1>4. e \in [1 .. 0 -> 1 .. 0]
    BY <1>0
  <1> HIDE DEF e
  <1>5. InOrd(0, e, e)
    BY <1>0, <1>4 DEF InOrd
  <1>6. ListThreads(0, link, e)
    BY <1>0, <1>3 DEF ListThreads
  <1>7. Spans(Root, 0, link, e, e, e)
    BY <1>3, RootSpans DEF Spans
  <1>8. TreeSpans(0, link, e, e, e)
    BY <1>0, <1>2, <1>4, <1>7 DEF TreeSpans
  <1>9. OneParent(0, link)
    BY <1>2 DEF OneParent
  <1>10. Sorted(0, value, e)
    BY <1>0 DEF Sorted
  <1>11. Woven(AisoSize, value, link, e, e, e, e)
    BY <1>1, <1>3, <1>5, <1>6, <1>8, <1>9, <1>10 DEF Woven, LinksTyped
  <1>12. value \in Seq(Size)
    BY <1>1
  <1> QED
    BY <1>1, <1>11, <1>12 DEF AisoInv

\* The search begins at the root and the start of the list.
LEMMA EnterStep ==
  ASSUME AisoInv, EnterInsert
  PROVE  AisoInv'
  <1>1. value' = value /\ link' = link /\ v' \in Size /\ hook' = Root /\ prev' = List
    BY DEF EnterInsert
  <1>2. AisoSize' = AisoSize /\ AisoSize = Len(value)
    BY <1>1 DEF AisoSize
  <1>3. value \in Seq(Size)
    BY DEF AisoInv
  <1>4. PICK ord, pos, lo, hi : Woven(AisoSize, value, link, ord, pos, lo, hi)
    BY DEF AisoInv
  <1>5. PICK size \in Size : size = v'
    BY <1>1
  <1>6. PICK n : n = AisoSize
    OBVIOUS
  <1>7. PICK t : Belongs(size, t, n, value, ord)
    <2>1. ord \in [1 .. n -> 1 .. n] /\ Sorted(n, value, ord)
      BY <1>4, <1>6 DEF Woven, InOrd
    <2> QED
      BY <1>2, <1>3, <1>6, <2>1, Somewhere
  <1>8. n \in Nat /\ t \in 0 .. n
    BY <1>2, <1>3, <1>6, <1>7 DEF Belongs
  <1>9. Seeks(size, t, n, value, Root, List, ord, pos, lo, hi)
    <2>1. Root \in TreePlaces(1 .. n)
      BY PlacesAre
    <2>2. First(Root, pos, lo) = 1 /\ Final(Root, n, pos, hi) = n
      BY RootSpans
    <2>3. 0 \in 0 .. t /\ List = PrevAt(0, ord)
      BY <1>8 DEF PrevAt
    <2> QED
      BY <1>7, <1>8, <2>1, <2>2, <2>3 DEF Seeks
  <1>10. /\ Woven(AisoSize', value', link', ord, pos, lo, hi)
         /\ Seeks(v', t, AisoSize', value', hook', prev', ord, pos, lo, hi)
    BY <1>1, <1>2, <1>4, <1>5, <1>6, <1>9
  <1> QED
    BY <1>1, <1>3, <1>10 DEF AisoInv

\* A run that there is no memory for is not seen.
LEMMA FailsStep ==
  ASSUME AisoInv, InsertFails \/ UNCHANGED aisoVars
  PROVE  AisoInv'
  <1>1. value' = value /\ link' = link /\ v' = v /\ hook' = hook /\ prev' = prev
    BY DEF InsertFails, aisoVars
  <1>2. AisoSize' = AisoSize
    BY <1>1 DEF AisoSize
  <1> QED
    BY <1>1, <1>2 DEF AisoInv

-----------------------------------------------------------------------------
(* One turn of the loop.                                                   *)

\* The node at the hook lies in what the hook spans, and it is known on which
\* of its sides the run belongs.
LEMMA AtHook ==
  ASSUME NEW values \in Seq(Size), NEW size \in Size, NEW n, n = Len(values),
         NEW links, NEW p, NEW q, NEW ord, NEW pos, NEW lo, NEW hi,
         Woven(n, values, links, ord, pos, lo, hi),
         NEW t, Seeks(size, t, n, values, p, q, ord, pos, lo, hi),
         NEW a, a = links[p], a # 0
  PROVE  /\ n \in Nat /\ t \in 0 .. n /\ a \in 1 .. n /\ p \in TreePlaces(1 .. n)
         /\ pos[a] \in 1 .. n /\ lo[a] \in 1 .. n /\ hi[a] \in 1 .. n
         /\ lo[a] = First(p, pos, lo) /\ hi[a] = Final(p, n, pos, hi)
         /\ lo[a] <= pos[a] /\ pos[a] <= hi[a]
         /\ lo[a] - 1 <= t /\ t <= hi[a]
         /\ IF size > values[a] THEN t < pos[a] ELSE pos[a] <= t
  <1>1. n \in Nat /\ p \in TreePlaces(1 .. n) /\ t \in 0 .. n
    BY DEF Seeks, Belongs
  <1>2. a \in 1 .. n
    BY <1>1, Linked DEF Woven
  <1>3. pos[a] \in 1 .. n /\ ord[pos[a]] = a
    BY <1>2 DEF Woven, InOrd
  <1>4. lo[a] \in 1 .. n /\ hi[a] \in 1 .. n /\ lo[a] <= pos[a] /\ pos[a] <= hi[a]
    BY <1>2 DEF Woven, TreeSpans
  <1>5. lo[a] = First(p, pos, lo) /\ hi[a] = Final(p, n, pos, hi)
    BY <1>1 DEF Woven, TreeSpans, Spans
  <1>6. lo[a] - 1 <= t /\ t <= hi[a]
    BY <1>5 DEF Seeks
  <1>7. values[a] \in Nat /\ size \in Nat
    BY <1>2, SizeNat
  <1>8. (pos[a] \in 1 .. t => values[a] >= size) /\ (pos[a] \in t + 1 .. n => values[a] < size)
    BY <1>3 DEF Seeks, Belongs
  <1>9. IF size > values[a] THEN t < pos[a] ELSE pos[a] <= t
    BY <1>1, <1>3, <1>7, <1>8
  <1> QED
    BY <1>1, <1>2, <1>3, <1>4, <1>5, <1>6, <1>9

\* Walking down leads to the side on which the run belongs.
LEMMA DownKnit ==
  ASSUME NEW values \in Seq(Size), NEW size \in Size, NEW n, n = Len(values),
         NEW links, NEW p, NEW q,
         NEW ord, NEW pos, NEW lo, NEW hi,
         Woven(n, values, links, ord, pos, lo, hi),
         NEW t, Seeks(size, t, n, values, p, q, ord, pos, lo, hi),
         NEW a, a = links[p], a # 0
  PROVE  IF size > values[a]
         THEN Seeks(size, t, n, values, <<"left", a>>, q, ord, pos, lo, hi)
         ELSE Seeks(size, t, n, values, <<"right", a>>, <<"next", a>>, ord, pos, lo, hi)
  <1>1. /\ n \in Nat /\ t \in 0 .. n /\ a \in 1 .. n
        /\ pos[a] \in 1 .. n /\ lo[a] \in 1 .. n /\ hi[a] \in 1 .. n
        /\ lo[a] = First(p, pos, lo)
        /\ lo[a] - 1 <= t /\ t <= hi[a]
        /\ IF size > values[a] THEN t < pos[a] ELSE pos[a] <= t
    BY AtHook
  <1>2. <<"left", a>> \in TreePlaces(1 .. n) /\ <<"right", a>> \in TreePlaces(1 .. n)
    BY <1>1, PlacesAre
  <1>3. /\ First(<<"left", a>>, pos, lo) = lo[a] /\ Final(<<"left", a>>, n, pos, hi) = pos[a] - 1
        /\ First(<<"right", a>>, pos, lo) = pos[a] + 1 /\ Final(<<"right", a>>, n, pos, hi) = hi[a]
    BY SideIsNotRoot DEF First, Final
  <1>4. Belongs(size, t, n, values, ord)
    BY DEF Seeks
  <1>5. CASE size > values[a]
    <2>1. PICK m \in 0 .. t : lo[a] - 1 <= m /\ q = PrevAt(m, ord)
      BY <1>1 DEF Seeks
    <2>2. t <= pos[a] - 1
      BY <1>1, <1>5
    <2>3. Seeks(size, t, n, values, <<"left", a>>, q, ord, pos, lo, hi)
      BY <1>1, <1>2, <1>3, <1>4, <2>1, <2>2 DEF Seeks
    <2> QED
      BY <1>5, <2>3
  <1>6. CASE ~ (size > values[a])
    <2>1. pos[a] \in 0 .. t /\ pos[a] # 0
      BY <1>1, <1>6
    <2>2. <<"next", a>> = PrevAt(pos[a], ord)
      BY <1>1, <2>1 DEF PrevAt, Woven, InOrd
    <2>3. pos[a] + 1 - 1 = pos[a] /\ pos[a] <= t
      BY <1>1, <1>6
    <2>4. PICK f : f = First(<<"right", a>>, pos, lo)
      OBVIOUS
    <2>5. f - 1 = pos[a]
      BY <1>1, <1>3, <2>4
    <2>6. f - 1 <= t /\ \E m \in 0 .. t : f - 1 <= m /\ <<"next", a>> = PrevAt(m, ord)
      BY <1>1, <2>1, <2>2, <2>3, <2>5
    <2>7. Seeks(size, t, n, values, <<"right", a>>, <<"next", a>>, ord, pos, lo, hi)
      BY <1>1, <1>2, <1>3, <1>4, <2>4, <2>6 DEF Seeks
    <2> QED
      BY <1>6, <2>7
  <1> QED
    BY <1>5, <1>6

\* How the child c of a comes to a's place.
Turned(links, s, o, p, a, c) ==
  [links EXCEPT ![<<s, a>>] = links[<<o, c>>], ![<<o, c>>] = a, ![p] = c]

\* Only the three pointers differ.
IsTurned(n, links, links2, ord, s, o, p, a, c) ==
  /\ p # <<s, a>> /\ <<s, a>> # <<o, c>>
  /\ links2[p] = c /\ links2[<<s, a>>] = links[<<o, c>>] /\ links2[<<o, c>>] = a
  /\ \A x \in TreePlaces(1 .. n) \ {p, <<s, a>>, <<o, c>>} :
       links2[x] = links[x] /\ links2[x] # a /\ links2[x] # c
  /\ LinksTyped(n, links2) /\ OneParent(n, links2) /\ ListThreads(n, links2, ord)

\* Which of the pointers are changed, and that all nodes are linked as before.
LEMMA TurnedLinks ==
  ASSUME NEW n \in Nat, NEW links, LinksTyped(n, links), OneParent(n, links),
         NEW ord, ListThreads(n, links, ord), ord \in [1 .. n -> 1 .. n],
         NEW s \in {"left", "right"}, NEW o \in {"left", "right"}, s # o,
         NEW p \in TreePlaces(1 .. n), NEW a \in 1 .. n, NEW c \in 1 .. n, a # c,
         links[p] = a, links[<<s, a>>] = c, p # <<o, c>>,
         NEW links2, links2 = Turned(links, s, o, p, a, c)
  PROVE  IsTurned(n, links, links2, ord, s, o, p, a, c)
  <1>a. (s = "left" /\ o = "right") \/ (s = "right" /\ o = "left")
    OBVIOUS
  <1>b. a # 0 /\ c # 0
    <2>1. \A k \in 1 .. n : k # 0
      OBVIOUS
    <2> QED
      BY <2>1
  <1>1. p # <<s, a>> /\ <<s, a>> # <<o, c>>
    BY <1>a
  <1>2. /\ <<s, a>> \in TreePlaces(1 .. n) /\ <<o, c>> \in TreePlaces(1 .. n)
        /\ <<s, a>> \in Places(1 .. n) /\ <<o, c>> \in Places(1 .. n) /\ p \in Places(1 .. n)
    BY <1>a, PlacesAre
  <1>3. links \in [Places(1 .. n) -> 0 .. n]
    BY DEF LinksTyped
  <1>4. /\ links2 \in [Places(1 .. n) -> 0 .. n]
        /\ links2[p] = c /\ links2[<<s, a>>] = links[<<o, c>>] /\ links2[<<o, c>>] = a
        /\ \A x \in Places(1 .. n) \ {p, <<s, a>>, <<o, c>>} : links2[x] = links[x]
    BY <1>1, <1>2, <1>3 DEF Turned
  <1>5. LinksTyped(n, links2)
    BY <1>4 DEF LinksTyped
  <1>6. ASSUME NEW x \in TreePlaces(1 .. n) \ {p, <<s, a>>, <<o, c>>}
        PROVE  links2[x] = links[x] /\ links2[x] # a /\ links2[x] # c
    <2>1. x \in Places(1 .. n)
      BY PlacesAre
    <2>3. links[x] # a /\ links[x] # c
      BY <1>2, <1>b DEF OneParent
    <2> QED
      BY <1>4, <2>1, <2>3
  <1>7. OneParent(n, links2)
    <2> DEFINE Was(x) == IF x = p THEN <<s, a>> ELSE IF x = <<s, a>> THEN <<o, c>>
                         ELSE IF x = <<o, c>> THEN p ELSE x
    <2>1. \A x \in TreePlaces(1 .. n) : Was(x) \in TreePlaces(1 .. n)
      BY <1>2
    <2>2. \A x, y \in TreePlaces(1 .. n) : Was(x) = Was(y) => x = y
      BY <1>1
    <2>3. \A x \in TreePlaces(1 .. n) : links2[x] = links[Was(x)]
      BY <1>1, <1>4, <1>6
    <2> HIDE DEF Was
    <2>4. ASSUME NEW x \in TreePlaces(1 .. n), NEW y \in TreePlaces(1 .. n),
                 links2[x] = links2[y], links2[x] # 0
          PROVE  x = y
      <3>1. Was(x) = Was(y)
        <4>1. Was(x) \in TreePlaces(1 .. n) /\ Was(y) \in TreePlaces(1 .. n)
          BY <2>1
        <4>2. links[Was(x)] = links[Was(y)] /\ links[Was(x)] # 0
          BY <2>3, <2>4
        <4> QED
          BY <4>1, <4>2 DEF OneParent
      <3> QED
        BY <2>2, <3>1
    <2> QED
      BY <2>4 DEF OneParent
  <1>8. ListThreads(n, links2, ord)
    <2>1. List \in Places(1 .. n) /\ List \notin {p, <<s, a>>, <<o, c>>}
      <3>1. List \in Places(1 .. n) /\ List \notin TreePlaces(1 .. n)
        BY PlacesAre
      <3> QED
        BY <1>2, <3>1
    <2>2. \A k \in 1 .. n : <<"next", k>> \in Places(1 .. n) /\ <<"next", k>> \notin {p, <<s, a>>, <<o, c>>}
      <3> SUFFICES ASSUME NEW k \in 1 .. n
                   PROVE  <<"next", k>> \in Places(1 .. n) /\ <<"next", k>> \notin {p, <<s, a>>, <<o, c>>}
        OBVIOUS
      <3>1. <<"next", k>> \in Places(1 .. n) /\ <<"next", k>> \notin TreePlaces(1 .. n)
        BY PlacesAre
      <3> QED
        BY <1>2, <3>1
    <2>3. links2[List] = links[List] /\ \A k \in 1 .. n : links2[<<"next", k>>] = links[<<"next", k>>]
      BY <1>4, <2>1, <2>2
    <2> QED
      BY <2>3 DEF ListThreads
  <1> QED
    BY <1>1, <1>4, <1>5, <1>6, <1>7, <1>8 DEF IsTurned

\* The nodes and spans at a turn to the right: the left child c takes a's place.
LEMMA LeftTurn ==
  ASSUME NEW n \in Nat, NEW values, NEW links, NEW ord, NEW pos, NEW lo, NEW hi,
         Woven(n, values, links, ord, pos, lo, hi),
         NEW p \in TreePlaces(1 .. n), NEW a \in 1 .. n, NEW c,
         links[p] = a, links[<<"left", a>>] = c, c # 0,
         NEW links2, links2 = Turned(links, "left", "right", p, a, c)
  PROVE  \E lo2, hi2 :
           /\ Woven(n, values, links2, ord, pos, lo2, hi2)
           /\ First(p, pos, lo2) = First(p, pos, lo) /\ Final(p, n, pos, hi2) = Final(p, n, pos, hi)
  <1>0. PICK lo2, hi2 : lo2 = [lo EXCEPT ![a] = pos[c] + 1] /\ hi2 = [hi EXCEPT ![c] = hi[a]]
    OBVIOUS
  <1>1. <<"left", a>> \in TreePlaces(1 .. n)
    BY PlacesAre
  <1>2. c \in 1 .. n
    BY <1>1, Linked DEF Woven
  <1>3. <<"right", c>> \in TreePlaces(1 .. n)
    BY <1>2, PlacesAre
  <1>4. \A k \in 1 .. n : pos[k] \in 1 .. n /\ lo[k] \in 1 .. n /\ hi[k] \in 1 .. n
                          /\ lo[k] <= pos[k] /\ pos[k] <= hi[k]
    BY DEF Woven, TreeSpans, InOrd
  <1>5. \A x \in TreePlaces(1 .. n) : Spans(x, n, links, pos, lo, hi)
    BY DEF Woven, TreeSpans
  <1>6. lo[c] = lo[a] /\ hi[c] = pos[a] - 1
    <2>1. Spans(<<"left", a>>, n, links, pos, lo, hi)
      BY <1>1, <1>5
    <2> QED
      BY <2>1, SideIsNotRoot DEF Spans, First, Final
  <1>7. lo[a] = First(p, pos, lo) /\ hi[a] = Final(p, n, pos, hi)
    <2>1. Spans(p, n, links, pos, lo, hi) /\ links[p] # 0
      BY <1>5
    <2> QED
      BY <2>1 DEF Spans
  <1>8. pos[c] < pos[a] /\ a # c
    <2>1. pos[c] <= pos[a] - 1
      BY <1>2, <1>4, <1>6
    <2> QED
      BY <1>2, <1>4, <2>1
  <1>9. p = Root \/ \E k \in 1 .. n : k # a /\ k # c /\ (p = <<"left", k>> \/ p = <<"right", k>>)
    <2>1. ASSUME p = <<"right", c>> PROVE FALSE
      <3>1. lo[a] = pos[c] + 1
        BY <1>7, <2>1, SideIsNotRoot DEF First
      <3> QED
        BY <1>2, <1>4, <1>6, <3>1
    <2>2. ASSUME p = <<"left", c>> PROVE FALSE
      <3>1. hi[a] = pos[c] - 1
        BY <1>7, <2>2, SideIsNotRoot DEF Final
      <3> QED
        BY <1>2, <1>4, <1>8, <3>1
    <2>3. ASSUME p = <<"right", a>> PROVE FALSE
      <3>1. lo[a] = pos[a] + 1
        BY <1>7, <2>3, SideIsNotRoot DEF First
      <3> QED
        BY <1>4, <3>1
    <2>4. p # <<"left", a>>
      BY <1>8
    <2> QED
      BY <2>1, <2>2, <2>3, <2>4, APlace
  <1>10. p # <<"right", c>>
    BY <1>9, PlacesAre
  <1>11. /\ p # <<"left", a>> /\ <<"left", a>> # <<"right", c>>
         /\ links2[p] = c /\ links2[<<"left", a>>] = links[<<"right", c>>] /\ links2[<<"right", c>>] = a
         /\ \A x \in TreePlaces(1 .. n) \ {p, <<"left", a>>, <<"right", c>>} :
              links2[x] = links[x] /\ links2[x] # a /\ links2[x] # c
         /\ LinksTyped(n, links2) /\ OneParent(n, links2) /\ ListThreads(n, links2, ord)
    <2>1. "left" \in {"left", "right"} /\ "right" \in {"left", "right"} /\ "left" # "right"
      OBVIOUS
    <2>2. LinksTyped(n, links) /\ OneParent(n, links) /\ ListThreads(n, links, ord)
          /\ ord \in [1 .. n -> 1 .. n]
      BY DEF Woven, InOrd
    <2>3. IsTurned(n, links, links2, ord, "left", "right", p, a, c)
      BY <1>2, <1>8, <1>10, <2>1, <2>2, TurnedLinks
    <2> QED
      BY <2>3 DEF IsTurned
  <1>12. /\ lo2 \in [1 .. n -> 1 .. n] /\ hi2 \in [1 .. n -> 1 .. n]
         /\ lo2[a] = pos[c] + 1 /\ hi2[c] = hi[a]
         /\ \A k \in 1 .. n : k # a => lo2[k] = lo[k]
         /\ \A k \in 1 .. n : k # c => hi2[k] = hi[k]
    <2>1. lo \in [1 .. n -> 1 .. n] /\ hi \in [1 .. n -> 1 .. n]
      BY DEF Woven, TreeSpans
    <2>2. pos[c] + 1 \in 1 .. n /\ hi[a] \in 1 .. n
      BY <1>2, <1>4, <1>8
    <2> QED
      BY <1>0, <1>2, <2>1, <2>2
  <1>13. First(p, pos, lo2) = First(p, pos, lo) /\ Final(p, n, pos, hi2) = Final(p, n, pos, hi)
    <2>1. CASE p = Root
      BY <2>1, RootSpans
    <2>2. ASSUME NEW k \in 1 .. n, k # a, k # c, p = <<"left", k>>
          PROVE  First(p, pos, lo2) = First(p, pos, lo) /\ Final(p, n, pos, hi2) = Final(p, n, pos, hi)
      BY <1>12, <2>2, SideIsNotRoot DEF First, Final
    <2>3. ASSUME NEW k \in 1 .. n, k # a, k # c, p = <<"right", k>>
          PROVE  First(p, pos, lo2) = First(p, pos, lo) /\ Final(p, n, pos, hi2) = Final(p, n, pos, hi)
      BY <1>12, <2>3, SideIsNotRoot DEF First, Final
    <2> QED
      BY <1>9, <2>1, <2>2, <2>3
  <1>14. ASSUME NEW k \in 1 .. n PROVE lo2[k] <= pos[k] /\ pos[k] <= hi2[k]
    <2>1. CASE k = a
      <3>1. pos[c] + 1 <= pos[a]
        BY <1>2, <1>4, <1>8
      <3> QED
        BY <1>4, <1>8, <1>12, <2>1, <3>1
    <2>2. CASE k = c
      <3>1. pos[c] <= hi[a]
        BY <1>2, <1>4, <1>8
      <3> QED
        BY <1>2, <1>4, <1>8, <1>12, <2>2, <3>1
    <2>3. CASE k # a /\ k # c
      BY <1>4, <1>12, <2>3
    <2> QED
      BY <2>1, <2>2, <2>3
  <1>15. Spans(p, n, links2, pos, lo2, hi2)
    <2>1. links2[p] = c /\ c # 0
      BY <1>11
    <2>2. lo2[c] = lo[a] /\ hi2[c] = hi[a]
      BY <1>2, <1>6, <1>8, <1>12
    <2>3. lo2[c] = First(p, pos, lo2) /\ hi2[c] = Final(p, n, pos, hi2)
      BY <1>7, <1>13, <2>2
    <2> QED
      BY <2>1, <2>3 DEF Spans
  <1>16. Spans(<<"right", c>>, n, links2, pos, lo2, hi2)
    <2>1. a # 0
      BY <1>4
    <2>2. links2[<<"right", c>>] = a
      BY <1>11
    <2>3. lo2[a] = pos[c] + 1 /\ hi2[a] = hi2[c]
      BY <1>2, <1>8, <1>12
    <2> QED
      BY <2>1, <2>2, <2>3, SideIsNotRoot DEF Spans, First, Final
  <1>17. Spans(<<"left", a>>, n, links2, pos, lo2, hi2)
    <2>1. Spans(<<"right", c>>, n, links, pos, lo, hi)
      BY <1>3, <1>5
    <2>2. CASE links[<<"right", c>>] = 0
      <3>1. pos[c] + 1 = hi[c] + 1
        BY <2>1, <2>2, SideIsNotRoot DEF Spans, First, Final
      <3>2. links2[<<"left", a>>] = 0
        BY <1>11, <2>2
      <3>3. lo2[a] = pos[a] - 1 + 1
        BY <1>6, <1>12, <3>1
      <3> QED
        BY <3>2, <3>3, SideIsNotRoot DEF Spans, First, Final
    <2>3. CASE links[<<"right", c>>] # 0
      <3>1. PICK d : d = links[<<"right", c>>]
        OBVIOUS
      <3>2. d \in 1 .. n
        BY <1>3, <2>3, <3>1, Linked DEF Woven
      <3>3. lo[d] = pos[c] + 1 /\ hi[d] = hi[c]
        BY <2>1, <2>3, <3>1, SideIsNotRoot DEF Spans, First, Final
      <3>4. d # a /\ d # c
        BY <1>2, <1>4, <1>6, <3>2, <3>3
      <3>5. links2[<<"left", a>>] = d /\ d # 0
        BY <1>11, <2>3, <3>1
      <3>6. lo2[d] = lo2[a] /\ hi2[d] = pos[a] - 1
        BY <1>6, <1>12, <3>2, <3>3, <3>4
      <3> QED
        BY <3>5, <3>6, SideIsNotRoot DEF Spans, First, Final
    <2> QED
      BY <2>2, <2>3
  <1>18. ASSUME NEW x \in TreePlaces(1 .. n) \ {p, <<"left", a>>, <<"right", c>>}
         PROVE  Spans(x, n, links2, pos, lo2, hi2)
    <2>1. Spans(x, n, links, pos, lo, hi)
      BY <1>5
    <2>2. links2[x] = links[x] /\ links2[x] # a /\ links2[x] # c
      BY <1>11
    <2>3. First(x, pos, lo2) = First(x, pos, lo) /\ Final(x, n, pos, hi2) = Final(x, n, pos, hi)
      <3>1. CASE x = Root
        BY <3>1, RootSpans
      <3>2. ASSUME NEW k \in 1 .. n, x = <<"left", k>>
            PROVE  First(x, pos, lo2) = First(x, pos, lo) /\ Final(x, n, pos, hi2) = Final(x, n, pos, hi)
        <4>1. k # a
          BY <3>2
        <4> QED
          BY <1>12, <3>2, <4>1, SideIsNotRoot DEF First, Final
      <3>3. ASSUME NEW k \in 1 .. n, x = <<"right", k>>
            PROVE  First(x, pos, lo2) = First(x, pos, lo) /\ Final(x, n, pos, hi2) = Final(x, n, pos, hi)
        <4>1. k # c
          BY <3>3
        <4> QED
          BY <1>12, <3>3, <4>1, SideIsNotRoot DEF First, Final
      <3>4. x = Root \/ \E k \in 1 .. n : x = <<"left", k>> \/ x = <<"right", k>>
        BY APlace
      <3> QED
        BY <3>1, <3>2, <3>3, <3>4
    <2>4. links[x] # 0 => lo2[links[x]] = lo[links[x]] /\ hi2[links[x]] = hi[links[x]]
      <3>1. links[x] # 0 => links[x] \in 1 .. n
        BY Linked DEF Woven
      <3> QED
        BY <1>12, <2>2, <3>1
    <2> QED
      BY <2>1, <2>2, <2>3, <2>4 DEF Spans
  <1>19. TreeSpans(n, links2, pos, lo2, hi2)
    BY <1>12, <1>14, <1>15, <1>16, <1>17, <1>18 DEF TreeSpans
  <1> QED
    BY <1>11, <1>13, <1>19 DEF Woven

\* The nodes and spans at a turn to the left: the right child c takes a's place.
LEMMA RightTurn ==
  ASSUME NEW n \in Nat, NEW values, NEW links, NEW ord, NEW pos, NEW lo, NEW hi,
         Woven(n, values, links, ord, pos, lo, hi),
         NEW p \in TreePlaces(1 .. n), NEW a \in 1 .. n, NEW c,
         links[p] = a, links[<<"right", a>>] = c, c # 0,
         NEW links2, links2 = Turned(links, "right", "left", p, a, c)
  PROVE  \E lo2, hi2 :
           /\ Woven(n, values, links2, ord, pos, lo2, hi2)
           /\ First(p, pos, lo2) = First(p, pos, lo) /\ Final(p, n, pos, hi2) = Final(p, n, pos, hi)
  <1>0. PICK lo2, hi2 : lo2 = [lo EXCEPT ![c] = lo[a]] /\ hi2 = [hi EXCEPT ![a] = pos[c] - 1]
    OBVIOUS
  <1>1. <<"right", a>> \in TreePlaces(1 .. n)
    BY PlacesAre
  <1>2. c \in 1 .. n
    BY <1>1, Linked DEF Woven
  <1>3. <<"left", c>> \in TreePlaces(1 .. n)
    BY <1>2, PlacesAre
  <1>4. \A k \in 1 .. n : pos[k] \in 1 .. n /\ lo[k] \in 1 .. n /\ hi[k] \in 1 .. n
                          /\ lo[k] <= pos[k] /\ pos[k] <= hi[k]
    BY DEF Woven, TreeSpans, InOrd
  <1>5. \A x \in TreePlaces(1 .. n) : Spans(x, n, links, pos, lo, hi)
    BY DEF Woven, TreeSpans
  <1>6. lo[c] = pos[a] + 1 /\ hi[c] = hi[a]
    <2>1. Spans(<<"right", a>>, n, links, pos, lo, hi)
      BY <1>1, <1>5
    <2> QED
      BY <2>1, SideIsNotRoot DEF Spans, First, Final
  <1>7. lo[a] = First(p, pos, lo) /\ hi[a] = Final(p, n, pos, hi)
    <2>1. Spans(p, n, links, pos, lo, hi) /\ links[p] # 0
      BY <1>5
    <2> QED
      BY <2>1 DEF Spans
  <1>8. pos[a] < pos[c] /\ a # c
    <2>1. pos[a] + 1 <= pos[c]
      BY <1>2, <1>4, <1>6
    <2> QED
      BY <1>2, <1>4, <2>1
  <1>9. p = Root \/ \E k \in 1 .. n : k # a /\ k # c /\ (p = <<"left", k>> \/ p = <<"right", k>>)
    <2>1. ASSUME p = <<"left", c>> PROVE FALSE
      <3>1. hi[a] = pos[c] - 1
        BY <1>7, <2>1, SideIsNotRoot DEF Final
      <3> QED
        BY <1>2, <1>4, <1>6, <3>1
    <2>2. ASSUME p = <<"right", c>> PROVE FALSE
      <3>1. lo[a] = pos[c] + 1
        BY <1>7, <2>2, SideIsNotRoot DEF First
      <3> QED
        BY <1>2, <1>4, <1>8, <3>1
    <2>3. ASSUME p = <<"left", a>> PROVE FALSE
      <3>1. hi[a] = pos[a] - 1
        BY <1>7, <2>3, SideIsNotRoot DEF Final
      <3> QED
        BY <1>4, <3>1
    <2>4. p # <<"right", a>>
      BY <1>8
    <2> QED
      BY <2>1, <2>2, <2>3, <2>4, APlace
  <1>10. p # <<"left", c>>
    BY <1>9, PlacesAre
  <1>11. /\ p # <<"right", a>> /\ <<"right", a>> # <<"left", c>>
         /\ links2[p] = c /\ links2[<<"right", a>>] = links[<<"left", c>>] /\ links2[<<"left", c>>] = a
         /\ \A x \in TreePlaces(1 .. n) \ {p, <<"right", a>>, <<"left", c>>} :
              links2[x] = links[x] /\ links2[x] # a /\ links2[x] # c
         /\ LinksTyped(n, links2) /\ OneParent(n, links2) /\ ListThreads(n, links2, ord)
    <2>1. "left" \in {"left", "right"} /\ "right" \in {"left", "right"} /\ "right" # "left"
      OBVIOUS
    <2>2. LinksTyped(n, links) /\ OneParent(n, links) /\ ListThreads(n, links, ord)
          /\ ord \in [1 .. n -> 1 .. n]
      BY DEF Woven, InOrd
    <2>3. IsTurned(n, links, links2, ord, "right", "left", p, a, c)
      BY <1>2, <1>8, <1>10, <2>1, <2>2, TurnedLinks
    <2> QED
      BY <2>3 DEF IsTurned
  <1>12. /\ lo2 \in [1 .. n -> 1 .. n] /\ hi2 \in [1 .. n -> 1 .. n]
         /\ lo2[c] = lo[a] /\ hi2[a] = pos[c] - 1
         /\ \A k \in 1 .. n : k # c => lo2[k] = lo[k]
         /\ \A k \in 1 .. n : k # a => hi2[k] = hi[k]
    <2>1. lo \in [1 .. n -> 1 .. n] /\ hi \in [1 .. n -> 1 .. n]
      BY DEF Woven, TreeSpans
    <2>2. pos[c] - 1 \in 1 .. n /\ lo[a] \in 1 .. n
      BY <1>2, <1>4, <1>8
    <2> QED
      BY <1>0, <1>2, <2>1, <2>2
  <1>13. First(p, pos, lo2) = First(p, pos, lo) /\ Final(p, n, pos, hi2) = Final(p, n, pos, hi)
    <2>1. CASE p = Root
      BY <2>1, RootSpans
    <2>2. ASSUME NEW k \in 1 .. n, k # a, k # c, p = <<"left", k>>
          PROVE  First(p, pos, lo2) = First(p, pos, lo) /\ Final(p, n, pos, hi2) = Final(p, n, pos, hi)
      BY <1>12, <2>2, SideIsNotRoot DEF First, Final
    <2>3. ASSUME NEW k \in 1 .. n, k # a, k # c, p = <<"right", k>>
          PROVE  First(p, pos, lo2) = First(p, pos, lo) /\ Final(p, n, pos, hi2) = Final(p, n, pos, hi)
      BY <1>12, <2>3, SideIsNotRoot DEF First, Final
    <2> QED
      BY <1>9, <2>1, <2>2, <2>3
  <1>14. ASSUME NEW k \in 1 .. n PROVE lo2[k] <= pos[k] /\ pos[k] <= hi2[k]
    <2>1. CASE k = a
      <3>1. pos[a] <= pos[c] - 1
        BY <1>2, <1>4, <1>8
      <3> QED
        BY <1>4, <1>8, <1>12, <2>1, <3>1
    <2>2. CASE k = c
      <3>1. lo[a] <= pos[c]
        BY <1>2, <1>4, <1>8
      <3> QED
        BY <1>2, <1>4, <1>8, <1>12, <2>2, <3>1
    <2>3. CASE k # a /\ k # c
      BY <1>4, <1>12, <2>3
    <2> QED
      BY <2>1, <2>2, <2>3
  <1>15. Spans(p, n, links2, pos, lo2, hi2)
    <2>1. links2[p] = c /\ c # 0
      BY <1>11
    <2>2. lo2[c] = lo[a] /\ hi2[c] = hi[a]
      BY <1>2, <1>6, <1>8, <1>12
    <2>3. lo2[c] = First(p, pos, lo2) /\ hi2[c] = Final(p, n, pos, hi2)
      BY <1>7, <1>13, <2>2
    <2> QED
      BY <2>1, <2>3 DEF Spans
  <1>16. Spans(<<"left", c>>, n, links2, pos, lo2, hi2)
    <2>1. a # 0
      BY <1>4
    <2>2. links2[<<"left", c>>] = a
      BY <1>11
    <2>3. lo2[a] = lo2[c] /\ hi2[a] = pos[c] - 1
      BY <1>2, <1>8, <1>12
    <2> QED
      BY <2>1, <2>2, <2>3, SideIsNotRoot DEF Spans, First, Final
  <1>17. Spans(<<"right", a>>, n, links2, pos, lo2, hi2)
    <2>1. Spans(<<"left", c>>, n, links, pos, lo, hi)
      BY <1>3, <1>5
    <2>2. CASE links[<<"left", c>>] = 0
      <3>1. lo[c] = pos[c] - 1 + 1
        BY <2>1, <2>2, SideIsNotRoot DEF Spans, First, Final
      <3>2. links2[<<"right", a>>] = 0
        BY <1>11, <2>2
      <3>3. pos[a] + 1 = hi2[a] + 1
        BY <1>6, <1>12, <3>1
      <3> QED
        BY <3>2, <3>3, SideIsNotRoot DEF Spans, First, Final
    <2>3. CASE links[<<"left", c>>] # 0
      <3>1. PICK d : d = links[<<"left", c>>]
        OBVIOUS
      <3>2. d \in 1 .. n
        BY <1>3, <2>3, <3>1, Linked DEF Woven
      <3>3. lo[d] = lo[c] /\ hi[d] = pos[c] - 1
        BY <2>1, <2>3, <3>1, SideIsNotRoot DEF Spans, First, Final
      <3>4. d # a /\ d # c
        BY <1>2, <1>4, <1>6, <3>2, <3>3
      <3>5. links2[<<"right", a>>] = d /\ d # 0
        BY <1>11, <2>3, <3>1
      <3>6. lo2[d] = pos[a] + 1 /\ hi2[d] = hi2[a]
        BY <1>6, <1>12, <3>2, <3>3, <3>4
      <3> QED
        BY <3>5, <3>6, SideIsNotRoot DEF Spans, First, Final
    <2> QED
      BY <2>2, <2>3
  <1>18. ASSUME NEW x \in TreePlaces(1 .. n) \ {p, <<"right", a>>, <<"left", c>>}
         PROVE  Spans(x, n, links2, pos, lo2, hi2)
    <2>1. Spans(x, n, links, pos, lo, hi)
      BY <1>5
    <2>2. links2[x] = links[x] /\ links2[x] # a /\ links2[x] # c
      BY <1>11
    <2>3. First(x, pos, lo2) = First(x, pos, lo) /\ Final(x, n, pos, hi2) = Final(x, n, pos, hi)
      <3>1. CASE x = Root
        BY <3>1, RootSpans
      <3>2. ASSUME NEW k \in 1 .. n, x = <<"left", k>>
            PROVE  First(x, pos, lo2) = First(x, pos, lo) /\ Final(x, n, pos, hi2) = Final(x, n, pos, hi)
        <4>1. k # c
          BY <3>2
        <4> QED
          BY <1>12, <3>2, <4>1, SideIsNotRoot DEF First, Final
      <3>3. ASSUME NEW k \in 1 .. n, x = <<"right", k>>
            PROVE  First(x, pos, lo2) = First(x, pos, lo) /\ Final(x, n, pos, hi2) = Final(x, n, pos, hi)
        <4>1. k # a
          BY <3>3
        <4> QED
          BY <1>12, <3>3, <4>1, SideIsNotRoot DEF First, Final
      <3>4. x = Root \/ \E k \in 1 .. n : x = <<"left", k>> \/ x = <<"right", k>>
        BY APlace
      <3> QED
        BY <3>1, <3>2, <3>3, <3>4
    <2>4. links[x] # 0 => lo2[links[x]] = lo[links[x]] /\ hi2[links[x]] = hi[links[x]]
      <3>1. links[x] # 0 => links[x] \in 1 .. n
        BY Linked DEF Woven
      <3> QED
        BY <1>12, <2>2, <3>1
    <2> QED
      BY <2>1, <2>2, <2>3, <2>4 DEF Spans
  <1>19. TreeSpans(n, links2, pos, lo2, hi2)
    BY <1>12, <1>14, <1>15, <1>16, <1>17, <1>18 DEF TreeSpans
  <1> QED
    BY <1>11, <1>13, <1>19 DEF Woven

\* What is known in the loop.
LEMMA LoopKnit ==
  ASSUME AisoInv, InLoop
  PROVE  /\ value \in Seq(Size) /\ v \in Size /\ AisoSize = Len(value)
         /\ \E ord, pos, lo, hi, t :
              /\ Woven(AisoSize, value, link, ord, pos, lo, hi)
              /\ Seeks(v, t, AisoSize, value, hook, prev, ord, pos, lo, hi)
  <1>1. v # 0
    BY DEF InLoop
  <1> QED
    BY <1>1 DEF AisoInv, AisoSize

\* Walking down.
LEMMA DownStep ==
  ASSUME AisoInv, Down
  PROVE  AisoInv'
  <1>1. /\ InLoop /\ value' = value /\ link' = link /\ v' = v
        /\ hook' = <<Side, an>> /\ prev' = IF Side = "right" THEN <<"next", an>> ELSE prev
    BY DEF Down, PassList
  <1>2. AisoSize' = AisoSize /\ AisoSize = Len(value) /\ value \in Seq(Size) /\ v \in Size
    BY <1>1, LoopKnit DEF AisoSize
  <1>3. PICK ord, pos, lo, hi, t :
          /\ Woven(AisoSize, value, link, ord, pos, lo, hi)
          /\ Seeks(v, t, AisoSize, value, hook, prev, ord, pos, lo, hi)
    BY <1>1, LoopKnit
  <1>4. PICK a : a = an
    OBVIOUS
  <1>5. a = link[hook] /\ a # 0
    BY <1>1, <1>4 DEF an, InLoop
  <1>6. IF v > value[a]
        THEN Seeks(v, t, AisoSize, value, <<"left", a>>, prev, ord, pos, lo, hi)
        ELSE Seeks(v, t, AisoSize, value, <<"right", a>>, <<"next", a>>, ord, pos, lo, hi)
    BY <1>2, <1>3, <1>5, DownKnit
  <1>7. Side = (IF v > value[a] THEN "left" ELSE "right")
    BY <1>4 DEF Side, Before
  <1>8. Seeks(v, t, AisoSize, value, hook', prev', ord, pos, lo, hi)
    BY <1>1, <1>4, <1>6, <1>7
  <1>9. /\ Woven(AisoSize', value', link', ord, pos, lo, hi)
        /\ Seeks(v', t, AisoSize', value', hook', prev', ord, pos, lo, hi)
    BY <1>1, <1>2, <1>3, <1>8
  <1>10. value' \in Seq(Size) /\ v' \in Size \cup {0}
    BY <1>1, <1>2
  <1> QED
    BY <1>9, <1>10 DEF AisoInv

\* Rotating.  The order stays.
SameOrder == \E ord, pos, lo, hi, lo2, hi2 :
               /\ Woven(AisoSize, value, link, ord, pos, lo, hi)
               /\ Woven(AisoSize', value', link', ord, pos, lo2, hi2)

\* A rotation keeps the invariant, and the order.
LEMMA RotateStep ==
  ASSUME AisoInv, Rotate
  PROVE  AisoInv' /\ SameOrder
  <1>1. /\ InLoop /\ Child # 0 /\ value' = value /\ v' = v /\ hook' = hook
        /\ link' = Turned(link, Side, Other(Side), hook, an, Child)
        /\ prev' = IF Side = "right" THEN <<"next", an>> ELSE prev
    BY DEF Rotate, PassList, MustRotate, Turned
  <1>2. AisoSize' = AisoSize /\ AisoSize = Len(value) /\ value \in Seq(Size) /\ v \in Size
    BY <1>1, LoopKnit DEF AisoSize
  <1>3. PICK ord, pos, lo, hi, t :
          /\ Woven(AisoSize, value, link, ord, pos, lo, hi)
          /\ Seeks(v, t, AisoSize, value, hook, prev, ord, pos, lo, hi)
    BY <1>1, LoopKnit
  <1>4. PICK a, c, n, p, size, links2 :
          a = an /\ c = Child /\ n = AisoSize /\ p = hook /\ size = v /\ links2 = link'
    OBVIOUS
  <1>5. a = link[hook] /\ a # 0
    BY <1>1, <1>4 DEF an, InLoop
  <1>6. /\ n \in Nat /\ t \in 0 .. n /\ a \in 1 .. n /\ p \in TreePlaces(1 .. n)
        /\ pos[a] \in 1 .. n /\ lo[a] \in 1 .. n /\ hi[a] \in 1 .. n
        /\ lo[a] = First(p, pos, lo)
        /\ lo[a] <= pos[a]
        /\ IF size > value[a] THEN t < pos[a] ELSE pos[a] <= t
    BY <1>2, <1>3, <1>4, <1>5, AtHook
  <1>7. Side = (IF size > value[a] THEN "left" ELSE "right")
    BY <1>4 DEF Side, Before
  <1>8. PICK q : q = prev'
    OBVIOUS
  <1>9. Belongs(size, t, n, value, ord)
        /\ First(p, pos, lo) - 1 <= t /\ t <= Final(p, n, pos, hi)
    BY <1>3, <1>4 DEF Seeks
  <1>0. link[p] = a /\ Woven(n, value, link, ord, pos, lo, hi)
    BY <1>3, <1>4, <1>5
  <1>10. CASE size > value[a]
    <2>1. Side = "left" /\ Other(Side) = "right"
      BY <1>7, <1>10 DEF Other
    <2>2. c = link[<<"left", a>>] /\ c # 0 /\ links2 = Turned(link, "left", "right", p, a, c) /\ q = prev
      BY <1>1, <1>4, <1>8, <2>1 DEF Child
    <2>4. PICK lo2, hi2 :
            /\ Woven(n, value, links2, ord, pos, lo2, hi2)
            /\ First(p, pos, lo2) = First(p, pos, lo) /\ Final(p, n, pos, hi2) = Final(p, n, pos, hi)
      BY <1>0, <1>6, <2>2, LeftTurn
    <2>5. \E m \in 0 .. t : First(p, pos, lo2) - 1 <= m /\ q = PrevAt(m, ord)
      BY <1>3, <1>4, <2>2, <2>4 DEF Seeks
    <2>6. Seeks(size, t, n, value, p, q, ord, pos, lo2, hi2)
      BY <1>6, <1>9, <2>4, <2>5 DEF Seeks
    <2>7. AisoInv'
      BY <1>1, <1>2, <1>4, <1>8, <2>4, <2>6 DEF AisoInv
    <2>8. SameOrder
      BY <1>1, <1>2, <1>3, <1>4, <2>4 DEF SameOrder
    <2> QED
      BY <2>7, <2>8
  <1>11. CASE ~ (size > value[a])
    <2>1. Side = "right" /\ Other(Side) = "left"
      BY <1>7, <1>11 DEF Other
    <2>2. c = link[<<"right", a>>] /\ c # 0 /\ links2 = Turned(link, "right", "left", p, a, c)
          /\ q = <<"next", a>>
      BY <1>1, <1>4, <1>8, <2>1 DEF Child
    <2>4. PICK lo2, hi2 :
            /\ Woven(n, value, links2, ord, pos, lo2, hi2)
            /\ First(p, pos, lo2) = First(p, pos, lo) /\ Final(p, n, pos, hi2) = Final(p, n, pos, hi)
      BY <1>0, <1>6, <2>2, RightTurn
    <2>5. q = PrevAt(pos[a], ord)
      <3>1. pos[a] # 0 /\ ord[pos[a]] = a
        BY <1>3, <1>4, <1>6 DEF Woven, InOrd
      <3> QED
        BY <2>2, <3>1 DEF PrevAt
    <2>6. pos[a] \in 0 .. t /\ lo[a] - 1 <= pos[a]
      BY <1>6, <1>11
    <2>7. \E m \in 0 .. t : First(p, pos, lo2) - 1 <= m /\ q = PrevAt(m, ord)
      BY <1>6, <2>4, <2>5, <2>6
    <2>8. Seeks(size, t, n, value, p, q, ord, pos, lo2, hi2)
      BY <1>6, <1>9, <2>4, <2>7 DEF Seeks
    <2>9. AisoInv'
      BY <1>1, <1>2, <1>4, <1>8, <2>4, <2>8 DEF AisoInv
    <2>10. SameOrder
      BY <1>1, <1>2, <1>3, <1>4, <2>4 DEF SameOrder
    <2> QED
      BY <2>9, <2>10
  <1> QED
    BY <1>10, <1>11

-----------------------------------------------------------------------------
(* The run is linked in.                                                   *)

\* The order with a new run behind the first t.
WithNew(n, t, ord) ==
  [k \in 1 .. n + 1 |-> IF k <= t THEN ord[k] ELSE IF k = t + 1 THEN n + 1 ELSE ord[k - 1]]
PosWithNew(n, t, pos) ==
  [k \in 1 .. n + 1 |-> IF k = n + 1 THEN t + 1 ELSE IF pos[k] <= t THEN pos[k] ELSE pos[k] + 1]

\* The spans with the new run at one side of the run whose position is b.
FirstsWithNew(n, t, b, lo) ==
  [k \in 1 .. n + 1 |-> IF k = n + 1 THEN t + 1 ELSE IF lo[k] > b THEN lo[k] + 1 ELSE lo[k]]
FinalsWithNew(n, t, b, hi) ==
  [k \in 1 .. n + 1 |-> IF k = n + 1 THEN t + 1 ELSE IF hi[k] >= b THEN hi[k] + 1 ELSE hi[k]]

LinksWithNew(n, links, p, q) ==
  [x \in Places(1 .. n + 1) |->
     IF x \in {p, q} THEN n + 1
     ELSE IF x = <<"next", n + 1>> THEN links[q]
     ELSE IF x[2] = n + 1 THEN 0
     ELSE links[x]]

\* What is known of the order with the new run.
IsWithNew(n, t, ord, ord2) ==
  /\ \A k \in 1 .. t : ord2[k] = ord[k]
  /\ ord2[t + 1] = n + 1
  /\ \A k \in t + 1 .. n : ord2[k + 1] = ord[k]

\* Positions with the new run.
IsPosWithNew(n, t, pos, pos2) ==
  /\ pos2 \in [1 .. n + 1 -> 1 .. n + 1]
  /\ pos2[n + 1] = t + 1
  /\ \A k \in 1 .. n : pos2[k] = IF pos[k] <= t THEN pos[k] ELSE pos[k] + 1

\* Where the runs are.
LEMMA NewOrd ==
  ASSUME NEW n \in Nat, NEW t \in 0 .. n, NEW ord, NEW pos, InOrd(n, ord, pos),
         NEW ord2, ord2 = WithNew(n, t, ord), NEW pos2, pos2 = PosWithNew(n, t, pos)
  PROVE  InOrd(n + 1, ord2, pos2) /\ IsWithNew(n, t, ord, ord2) /\ IsPosWithNew(n, t, pos, pos2)
  <1>1. /\ \A k \in 1 .. n : ord[k] \in 1 .. n /\ pos[k] \in 1 .. n
        /\ \A k \in 1 .. n : ord[pos[k]] = k /\ pos[ord[k]] = k
    BY DEF InOrd
  <1>2. \A k \in 1 .. n + 1 :
          ord2[k] = IF k <= t THEN ord[k] ELSE IF k = t + 1 THEN n + 1 ELSE ord[k - 1]
    BY DEF WithNew
  <1>3. \A k \in 1 .. n + 1 :
          pos2[k] = IF k = n + 1 THEN t + 1 ELSE IF pos[k] <= t THEN pos[k] ELSE pos[k] + 1
    BY DEF PosWithNew
  <1>4. \A k \in 1 .. t : k \in 1 .. n /\ k \in 1 .. n + 1 /\ ord2[k] = ord[k]
    BY <1>2
  <1>5. t + 1 \in 1 .. n + 1 /\ ord2[t + 1] = n + 1
    <2>1. t + 1 \in 1 .. n + 1 /\ ~ (t + 1 <= t)
      OBVIOUS
    <2> QED
      BY <1>2, <2>1
  <1>6. \A k \in t + 1 .. n : k \in 1 .. n /\ k + 1 \in 1 .. n + 1 /\ ord2[k + 1] = ord[k]
    <2> SUFFICES ASSUME NEW k \in t + 1 .. n
                 PROVE  k \in 1 .. n /\ k + 1 \in 1 .. n + 1 /\ ord2[k + 1] = ord[k]
      OBVIOUS
    <2>1. k \in 1 .. n /\ k + 1 \in 1 .. n + 1 /\ ~ (k + 1 <= t) /\ k + 1 # t + 1 /\ (k + 1) - 1 = k
      OBVIOUS
    <2> QED
      BY <1>2, <2>1
  <1>7. n + 1 \in 1 .. n + 1 /\ pos2[n + 1] = t + 1
    <2>1. n + 1 \in 1 .. n + 1
      OBVIOUS
    <2> QED
      BY <1>3, <2>1
  <1>8. \A k \in 1 .. n : pos2[k] = IF pos[k] <= t THEN pos[k] ELSE pos[k] + 1
    <2>1. \A k \in 1 .. n : k \in 1 .. n + 1 /\ k # n + 1
      OBVIOUS
    <2> QED
      BY <1>3, <2>1
  <1>9. ASSUME NEW k \in 1 .. n + 1
        PROVE  ord2[k] \in 1 .. n + 1 /\ pos2[ord2[k]] = k
    <2>1. CASE k \in 1 .. t
      BY <1>1, <1>4, <1>8, <2>1
    <2>2. CASE k = t + 1
      BY <1>5, <1>7, <2>2
    <2>3. CASE k \notin 1 .. t /\ k # t + 1
      <3>1. k - 1 \in t + 1 .. n /\ (k - 1) + 1 = k /\ k - 1 \in 1 .. n /\ ~ (k - 1 <= t)
        BY <2>3
      <3>2. ord2[k] = ord[k - 1]
        BY <1>6, <3>1
      <3>3. ord[k - 1] \in 1 .. n /\ pos[ord[k - 1]] = k - 1
        BY <1>1, <3>1
      <3> QED
        BY <1>8, <3>1, <3>2, <3>3
    <2> QED
      BY <2>1, <2>2, <2>3
  <1>10. ASSUME NEW k \in 1 .. n + 1
         PROVE  pos2[k] \in 1 .. n + 1 /\ ord2[pos2[k]] = k
    <2>1. CASE k = n + 1
      BY <1>5, <1>7, <2>1
    <2>2. CASE k # n + 1
      <3>1. k \in 1 .. n
        BY <2>2
      <3>2. pos[k] \in 1 .. n /\ ord[pos[k]] = k
        BY <1>1, <3>1
      <3>3. CASE pos[k] <= t
        <4>1. pos2[k] = pos[k] /\ pos[k] \in 1 .. t
          BY <1>8, <3>1, <3>2, <3>3
        <4> QED
          BY <1>4, <3>2, <4>1
      <3>4. CASE ~ (pos[k] <= t)
        <4>1. pos2[k] = pos[k] + 1 /\ pos[k] \in t + 1 .. n
          BY <1>8, <3>1, <3>2, <3>4
        <4> QED
          BY <1>6, <3>2, <4>1
      <3> QED
        BY <3>3, <3>4
    <2> QED
      BY <2>1, <2>2
  <1>11. ord2 \in [1 .. n + 1 -> 1 .. n + 1] /\ pos2 \in [1 .. n + 1 -> 1 .. n + 1]
    BY <1>9, <1>10 DEF WithNew, PosWithNew
  <1>12. InOrd(n + 1, ord2, pos2)
    BY <1>9, <1>10, <1>11 DEF InOrd
  <1> QED
    BY <1>4, <1>5, <1>6, <1>7, <1>8, <1>11, <1>12 DEF IsWithNew, IsPosWithNew

\* Behind all that are not smaller, the new run is in its place.
LEMMA NewSorted ==
  ASSUME NEW values \in Seq(Size), NEW size \in Size, NEW n, n = Len(values),
         NEW ord \in [1 .. n -> 1 .. n], Sorted(n, values, ord),
         NEW t, Belongs(size, t, n, values, ord),
         NEW ord2 \in [1 .. n + 1 -> 1 .. n + 1], IsWithNew(n, t, ord, ord2),
         NEW values2, values2 = Append(values, size)
  PROVE  Sorted(n + 1, values2, ord2)
  <1>1. n \in Nat /\ t \in 0 .. n /\ size \in Nat
    <2>1. Len(values) \in Nat /\ size \in Nat
      BY SizeNat
    <2> QED
      BY <2>1 DEF Belongs
  <1>2. values2[n + 1] = size /\ \A k \in 1 .. n : values2[k] = values[k] /\ values[k] \in Nat
    <2>1. \A k \in 1 .. n : values[k] \in Nat
      BY SizeNat
    <2> QED
      BY <1>1, <2>1
  <1>3. \A k \in 1 .. n : ord[k] \in 1 .. n
    OBVIOUS
  <1>4. \A k \in 1 .. t : k \in 1 .. n /\ ord2[k] = ord[k] /\ values2[ord2[k]] = values[ord[k]]
                          /\ values[ord[k]] >= size
    <2> SUFFICES ASSUME NEW k \in 1 .. t
                 PROVE  k \in 1 .. n /\ ord2[k] = ord[k] /\ values2[ord2[k]] = values[ord[k]]
                        /\ values[ord[k]] >= size
      OBVIOUS
    <2>1. k \in 1 .. n
      BY <1>1
    <2>2. ord2[k] = ord[k]
      BY DEF IsWithNew
    <2>3. values[ord[k]] >= size
      BY DEF Belongs
    <2> QED
      BY <1>2, <1>3, <2>1, <2>2, <2>3
  <1>5. ord2[t + 1] = n + 1 /\ values2[ord2[t + 1]] = size
    BY <1>2 DEF IsWithNew
  <1>6. \A k \in 1 .. n + 1 : k > t + 1 =>
          /\ k - 1 \in 1 .. n /\ k - 1 > t /\ ord2[k] = ord[k - 1]
          /\ values2[ord2[k]] = values[ord[k - 1]] /\ values[ord[k - 1]] < size
    <2> SUFFICES ASSUME NEW k \in 1 .. n + 1, k > t + 1
                 PROVE  /\ k - 1 \in 1 .. n /\ k - 1 > t /\ ord2[k] = ord[k - 1]
                        /\ values2[ord2[k]] = values[ord[k - 1]] /\ values[ord[k - 1]] < size
      OBVIOUS
    <2>1. k - 1 \in 1 .. n /\ k - 1 \in t + 1 .. n /\ k - 1 > t /\ (k - 1) + 1 = k
      BY <1>1
    <2>2. ord2[(k - 1) + 1] = ord[k - 1]
      BY <2>1 DEF IsWithNew
    <2>3. values[ord[k - 1]] < size
      BY <2>1 DEF Belongs
    <2>4. ord2[k] = ord[k - 1]
      BY <2>1, <2>2
    <2>5. ord[k - 1] \in 1 .. n
      BY <1>3, <2>1
    <2> QED
      BY <1>2, <2>1, <2>3, <2>4, <2>5
  <1>7. ASSUME NEW k \in 1 .. n + 1, NEW m \in 1 .. n + 1, k < m
        PROVE  \/ values2[ord2[k]] > values2[ord2[m]]
               \/ values2[ord2[k]] = values2[ord2[m]] /\ ord2[k] < ord2[m]
    <2>1. CASE m <= t
      <3>1. k \in 1 .. t /\ m \in 1 .. t
        BY <1>1, <1>7, <2>1
      <3>2. \/ values[ord[k]] > values[ord[m]]
            \/ values[ord[k]] = values[ord[m]] /\ ord[k] < ord[m]
        BY <1>4, <1>7, <3>1 DEF Sorted
      <3> QED
        BY <1>4, <3>1, <3>2
    <2>2. CASE m = t + 1
      <3>1. k \in 1 .. t
        BY <1>1, <1>7, <2>2
      <3>2. values2[ord2[k]] >= size /\ ord2[k] \in 1 .. n
        BY <1>3, <1>4, <3>1
      <3>3. values2[ord2[m]] = size /\ ord2[m] = n + 1
        BY <1>5, <2>2
      <3>4. values2[ord2[k]] \in Nat
        BY <1>2, <3>2
      <3> QED
        BY <1>1, <3>2, <3>3, <3>4
    <2>3. CASE m > t + 1 /\ k <= t + 1
      <3>1. values2[ord2[m]] < size /\ values2[ord2[m]] \in Nat
        BY <1>2, <1>3, <1>6, <2>3
      <3>2. values2[ord2[k]] >= size /\ values2[ord2[k]] \in Nat
        <4>1. CASE k = t + 1
          BY <1>1, <1>5, <4>1
        <4>2. CASE k # t + 1
          <5>1. k \in 1 .. t
            BY <1>1, <2>3, <4>2
          <5> QED
            BY <1>2, <1>3, <1>4, <5>1
        <4> QED
          BY <4>1, <4>2
      <3>3. PICK x \in Nat, y \in Nat, z \in Nat :
              x = values2[ord2[k]] /\ y = values2[ord2[m]] /\ z = size
        BY <1>1, <3>1, <3>2
      <3>4. x >= z /\ y < z
        BY <3>1, <3>2, <3>3
      <3>5. x > y
        BY <3>4
      <3> QED
        BY <3>3, <3>5
    <2>4. CASE k > t + 1
      <3>1. m > t + 1
        BY <1>1, <1>7, <2>4
      <3>2. k - 1 \in 1 .. n /\ m - 1 \in 1 .. n /\ k - 1 < m - 1
        BY <1>6, <1>7, <2>4, <3>1
      <3>3. \/ values[ord[k - 1]] > values[ord[m - 1]]
            \/ values[ord[k - 1]] = values[ord[m - 1]] /\ ord[k - 1] < ord[m - 1]
        BY <3>2 DEF Sorted
      <3> QED
        BY <1>6, <2>4, <3>1, <3>3
    <2>5. m <= t \/ m = t + 1 \/ (m > t + 1 /\ k <= t + 1) \/ k > t + 1
      BY <1>1
    <2> QED
      BY <2>1, <2>2, <2>3, <2>4, <2>5
  <1> QED
    BY <1>7 DEF Sorted

\* What is known of the pointers with the new run.
IsLinkedIn(n, links, p, q, links2) ==
  /\ LinksTyped(n + 1, links2)
  /\ links2[p] = n + 1 /\ links2[q] = n + 1
  /\ links2[<<"next", n + 1>>] = links[q]
  /\ links2[<<"left", n + 1>>] = 0 /\ links2[<<"right", n + 1>>] = 0
  /\ \A x \in Places(1 .. n) \ {p, q} : links2[x] = links[x]

\* The pointers with the new run.
LEMMA NewLinks ==
  ASSUME NEW n \in Nat, NEW links, LinksTyped(n, links),
         NEW p \in TreePlaces(1 .. n), NEW q \in Places(1 .. n),
         NEW links2, links2 = LinksWithNew(n, links, p, q)
  PROVE  IsLinkedIn(n, links, p, q, links2)
  <1>0. Places(1 .. n) \subseteq Places(1 .. n + 1)
    <2>1. 1 .. n \subseteq 1 .. n + 1
      OBVIOUS
    <2> QED
      BY <2>1 DEF Places
  <1>1. p \in Places(1 .. n)
    BY PlacesAre
  <1>2. \A x \in Places(1 .. n) : x[2] \in 0 .. n /\ x[2] # n + 1
    <2>1. \A x \in Places(1 .. n) : x[2] = 0 \/ x[2] \in 1 .. n
      BY DEF Places, Root, List
    <2>2. \A k \in 1 .. n : k \in 0 .. n /\ k # n + 1
      OBVIOUS
    <2>3. 0 \in 0 .. n /\ 0 # n + 1
      OBVIOUS
    <2> QED
      BY <2>1, <2>2, <2>3
  <1>3. /\ <<"next", n + 1>> \in Places(1 .. n + 1)
        /\ <<"left", n + 1>> \in Places(1 .. n + 1)
        /\ <<"right", n + 1>> \in Places(1 .. n + 1)
    <2>1. n + 1 \in 1 .. n + 1
      OBVIOUS
    <2> QED
      BY <2>1 DEF Places
  <1>4. \A k \in {"next", "left", "right"} : <<k, n + 1>> \notin Places(1 .. n)
    BY <1>2
  <1>5. \A x \in Places(1 .. n + 1) :
          links2[x] = IF x \in {p, q} THEN n + 1
                      ELSE IF x = <<"next", n + 1>> THEN links[q]
                      ELSE IF x[2] = n + 1 THEN 0
                      ELSE links[x]
    BY DEF LinksWithNew
  <1>6. links2[p] = n + 1 /\ links2[q] = n + 1
    BY <1>0, <1>1, <1>5
  <1>7. links2[<<"next", n + 1>>] = links[q]
    BY <1>1, <1>3, <1>4, <1>5
  <1>8. links2[<<"left", n + 1>>] = 0 /\ links2[<<"right", n + 1>>] = 0
    BY <1>1, <1>3, <1>4, <1>5
  <1>9. ASSUME NEW x \in Places(1 .. n) \ {p, q}
        PROVE  links2[x] = links[x]
    <2>1. x \in Places(1 .. n + 1) /\ x # <<"next", n + 1>> /\ x[2] # n + 1
      BY <1>0, <1>2, <1>4
    <2> QED
      BY <1>5, <2>1
  <1>10. ASSUME NEW x \in Places(1 .. n + 1)
         PROVE  links2[x] \in 0 .. n + 1
    <2>1. \A y \in Places(1 .. n) : links[y] \in 0 .. n + 1
      <3>1. \A y \in Places(1 .. n) : links[y] \in 0 .. n
        BY DEF LinksTyped
      <3>2. 0 .. n \subseteq 0 .. n + 1
        OBVIOUS
      <3> QED
        BY <3>1, <3>2
    <2>2. 0 \in 0 .. n + 1 /\ n + 1 \in 0 .. n + 1
      OBVIOUS
    <2>3. x \in Places(1 .. n) \/ x[2] = n + 1
      <3>1. 1 .. n + 1 = 1 .. n \cup {n + 1}
        OBVIOUS
      <3> QED
        BY <3>1 DEF Places
    <2> QED
      BY <1>1, <1>5, <2>1, <2>2, <2>3
  <1>11. LinksTyped(n + 1, links2)
    BY <1>10 DEF LinksTyped, LinksWithNew
  <1> QED
    BY <1>6, <1>7, <1>8, <1>9, <1>11 DEF IsLinkedIn

\* Every node still has one pointer that leads to it.
LEMMA NewOneParent ==
  ASSUME NEW n \in Nat, NEW links, LinksTyped(n, links), OneParent(n, links),
         NEW p \in TreePlaces(1 .. n), NEW q \in Places(1 .. n) \ TreePlaces(1 .. n),
         NEW links2, IsLinkedIn(n, links, p, q, links2)
  PROVE  OneParent(n + 1, links2)
  <1>1. /\ links2[p] = n + 1
        /\ links2[<<"left", n + 1>>] = 0 /\ links2[<<"right", n + 1>>] = 0
        /\ \A x \in Places(1 .. n) \ {p, q} : links2[x] = links[x]
    BY DEF IsLinkedIn
  <1>2. \A x \in TreePlaces(1 .. n + 1) :
          x \in TreePlaces(1 .. n) \/ x = <<"left", n + 1>> \/ x = <<"right", n + 1>>
    <2>1. 1 .. n + 1 = 1 .. n \cup {n + 1}
      OBVIOUS
    <2> QED
      BY <2>1 DEF TreePlaces
  <1>3. ASSUME NEW x \in TreePlaces(1 .. n), x # p
        PROVE  links2[x] = links[x] /\ links2[x] # n + 1
    <2>1. x \in Places(1 .. n) \ {p, q}
      BY <1>3, PlacesAre
    <2>2. links[x] \in 0 .. n
      BY <2>1 DEF LinksTyped
    <2>3. \A k \in 0 .. n : k # n + 1
      OBVIOUS
    <2>4. links2[x] = links[x]
      BY <1>1, <2>1
    <2> QED
      BY <2>2, <2>3, <2>4
  <1>4. ASSUME NEW x \in TreePlaces(1 .. n + 1), NEW y \in TreePlaces(1 .. n + 1),
               links2[x] = links2[y], links2[x] # 0
        PROVE  x = y
    <2>1. x \in TreePlaces(1 .. n) /\ y \in TreePlaces(1 .. n)
      BY <1>1, <1>2, <1>4
    <2>2. CASE x = p \/ y = p
      BY <1>1, <1>3, <1>4, <2>1, <2>2
    <2>3. CASE x # p /\ y # p
      <3>1. links[x] = links[y] /\ links[x] # 0
        BY <1>3, <1>4, <2>1, <2>3
      <3> QED
        BY <2>1, <3>1 DEF OneParent
    <2> QED
      BY <2>2, <2>3
  <1> QED
    BY <1>4 DEF OneParent

\* prev is a pointer of the list.
LEMMA PrevIsPlace ==
  ASSUME NEW n \in Nat, NEW t \in 0 .. n, NEW ord, NEW pos, InOrd(n, ord, pos),
         NEW q, q = PrevAt(t, ord)
  PROVE  q \in Places(1 .. n) \ TreePlaces(1 .. n)
  <1>1. CASE t = 0
    <2>1. q = List
      BY <1>1 DEF PrevAt
    <2> QED
      BY <2>1, PlacesAre
  <1>2. CASE t # 0
    <2>1. t \in 1 .. n /\ q = <<"next", ord[t]>>
      BY <1>2 DEF PrevAt
    <2>2. ord[t] \in 1 .. n
      BY <2>1 DEF InOrd
    <2> QED
      BY <2>1, <2>2, PlacesAre
  <1> QED
    BY <1>1, <1>2

\* The list goes through the new run where it belongs.
LEMMA NewThread ==
  ASSUME NEW n \in Nat, NEW t \in 0 .. n, NEW links, LinksTyped(n, links),
         NEW ord, NEW pos, InOrd(n, ord, pos), ListThreads(n, links, ord),
         NEW p \in TreePlaces(1 .. n), NEW q, q = PrevAt(t, ord),
         NEW links2, IsLinkedIn(n, links, p, q, links2),
         NEW ord2, IsWithNew(n, t, ord, ord2)
  PROVE  ListThreads(n + 1, links2, ord2)
  <1>1. \A k \in 1 .. n : ord[k] \in 1 .. n /\ pos[ord[k]] = k
    BY DEF InOrd
  <1>2. IF t = 0 THEN q = List ELSE t \in 1 .. n /\ q = <<"next", ord[t]>>
    BY DEF PrevAt
  <1>3. q \in Places(1 .. n) \ TreePlaces(1 .. n)
    BY PrevIsPlace
  <1>4. p # List /\ p # q /\ \A k : p # <<"next", k>>
    BY <1>3 DEF TreePlaces, Root, List
  <1>5. /\ links2[q] = n + 1
        /\ \A x \in Places(1 .. n) \ {p, q} : links2[x] = links[x]
    BY DEF IsLinkedIn
  <1>7. links2[<<"next", n + 1>>] = links[q]
    BY DEF IsLinkedIn
  <1>8. links[List] = IF n = 0 THEN 0 ELSE ord[1]
    BY DEF ListThreads
  <1>9. \A k \in 1 .. n : links[<<"next", ord[k]>>] = IF k = n THEN 0 ELSE ord[k + 1]
    BY DEF ListThreads
  <1>10. links[q] = IF t = n THEN 0 ELSE ord[t + 1]
    <2>1. CASE t = 0
      BY <1>2, <1>8, <2>1
    <2>2. CASE t # 0
      BY <1>2, <1>9, <2>2
    <2> QED
      BY <2>1, <2>2
  <1>11. links2[List] = ord2[1]
    <2>1. CASE t = 0
      <3>1. ord2[0 + 1] = n + 1
        BY <2>1 DEF IsWithNew
      <3> QED
        BY <1>2, <1>5, <2>1, <3>1
    <2>2. CASE t # 0
      <3>1. List \in Places(1 .. n) \ {p, q}
        BY <1>2, <1>4, <2>2, PlacesAre DEF List
      <3>2. 1 \in 1 .. t /\ n # 0
        BY <2>2
      <3>3. ord2[1] = ord[1]
        BY <3>2 DEF IsWithNew
      <3> QED
        BY <1>5, <1>8, <3>1, <3>2, <3>3
    <2> QED
      BY <2>1, <2>2
  <1>12. ASSUME NEW k \in 1 .. n, k # t
         PROVE  links2[<<"next", ord[k]>>] = IF k = n THEN 0 ELSE ord[k + 1]
    <2>1. <<"next", ord[k]>> # q
      <3>1. t # 0 => ord[k] # ord[t]
        BY <1>1, <1>2, <1>12
      <3>2. <<"next", ord[k]>> # List
        BY DEF List
      <3> QED
        BY <1>2, <3>1, <3>2
    <2>2. <<"next", ord[k]>> \in Places(1 .. n) \ {p, q}
      BY <1>1, <1>4, <2>1, PlacesAre
    <2> QED
      BY <1>5, <1>9, <2>2
  <1>13. ASSUME NEW k \in 1 .. n + 1
         PROVE  links2[<<"next", ord2[k]>>] = IF k = n + 1 THEN 0 ELSE ord2[k + 1]
    <2>1. CASE k < t
      <3>1. k \in 1 .. n /\ k # t /\ k # n /\ k # n + 1 /\ k \in 1 .. t /\ k + 1 \in 1 .. t
        BY <2>1
      <3>2. ord2[k] = ord[k] /\ ord2[k + 1] = ord[k + 1]
        BY <3>1 DEF IsWithNew
      <3> QED
        BY <1>12, <3>1, <3>2
    <2>2. CASE k = t
      <3>1. t # 0 /\ k \in 1 .. t /\ k # n + 1
        BY <2>2
      <3>2. ord2[k] = ord[t] /\ ord2[k + 1] = n + 1
        BY <2>2, <3>1 DEF IsWithNew
      <3> QED
        BY <1>2, <1>5, <3>1, <3>2
    <2>3. CASE k = t + 1
      <3>1. ord2[k] = n + 1
        BY <2>3 DEF IsWithNew
      <3>2. links2[<<"next", ord2[k]>>] = IF t = n THEN 0 ELSE ord[t + 1]
        BY <1>7, <1>10, <3>1
      <3>3. t # n => ord2[k + 1] = ord[t + 1]
        <4> SUFFICES ASSUME t # n PROVE ord2[k + 1] = ord[t + 1]
          OBVIOUS
        <4>1. t + 1 \in t + 1 .. n
          OBVIOUS
        <4> QED
          BY <2>3, <4>1 DEF IsWithNew
      <3>4. k = n + 1 <=> t = n
        BY <2>3
      <3> QED
        BY <3>2, <3>3, <3>4
    <2>4. CASE k > t + 1
      <3>1. k - 1 \in t + 1 .. n /\ k - 1 \in 1 .. n /\ k - 1 # t /\ (k - 1) + 1 = k
            /\ (k - 1 = n <=> k = n + 1) /\ (k # n + 1 => k \in t + 1 .. n)
        BY <2>4
      <3>2. ord2[k] = ord[k - 1]
        BY <3>1 DEF IsWithNew
      <3>3. k # n + 1 => ord2[k + 1] = ord[k]
        BY <3>1 DEF IsWithNew
      <3>4. links2[<<"next", ord[k - 1]>>] = IF k - 1 = n THEN 0 ELSE ord[k]
        BY <1>12, <3>1
      <3> QED
        BY <3>1, <3>2, <3>3, <3>4
    <2>5. k < t \/ k = t \/ k = t + 1 \/ k > t + 1
      OBVIOUS
    <2> QED
      BY <2>1, <2>2, <2>3, <2>4, <2>5
  <1>14. n + 1 # 0
    OBVIOUS
  <1> QED
    BY <1>11, <1>13, <1>14 DEF ListThreads

\* Where the empty pointer p is.
EmptyAt(n, t, links, p, pos, lo, hi) ==
  /\ links[p] = 0
  /\ First(p, pos, lo) = t + 1
  /\ Final(p, n, pos, hi) = t

\* The first run is all that the tree spans.
LEMMA FirstRunSpans ==
  ASSUME NEW links, NEW q \in Places({}) \ {Root},
         NEW links2, IsLinkedIn(0, links, Root, q, links2),
         NEW pos2, pos2 \in [1 .. 1 -> 1 .. 1]
  PROVE  TreeSpans(1, links2, pos2, [k \in 1 .. 1 |-> 1], [k \in 1 .. 1 |-> 1])
  <1>0. 1 .. 1 = {1} /\ 0 + 1 = 1
    OBVIOUS
  <1>1. PICK one : one = [k \in 1 .. 1 |-> 1]
    OBVIOUS
  <1>2. one \in [1 .. 1 -> 1 .. 1] /\ one[1] = 1 /\ pos2[1] = 1
    BY <1>0, <1>1
  <1>3. links2[Root] = 1 /\ links2[<<"left", 1>>] = 0 /\ links2[<<"right", 1>>] = 0
    BY <1>0 DEF IsLinkedIn
  <1>4. ASSUME NEW x \in TreePlaces(1 .. 1)
        PROVE  Spans(x, 1, links2, pos2, one, one)
    <2>1. x = Root \/ x = <<"left", 1>> \/ x = <<"right", 1>>
      BY <1>0, APlace
    <2>2. CASE x = Root
      BY <1>2, <1>3, <2>2, RootSpans DEF Spans
    <2>3. CASE x = <<"left", 1>>
      <3>1. First(x, pos2, one) = 1 /\ Final(x, 1, pos2, one) = 0
        BY <1>2, <2>3, SideIsNotRoot DEF First, Final
      <3> QED
        BY <1>3, <2>3, <3>1 DEF Spans
    <2>4. CASE x = <<"right", 1>>
      <3>1. First(x, pos2, one) = 2 /\ Final(x, 1, pos2, one) = 1
        BY <1>2, <2>4, SideIsNotRoot DEF First, Final
      <3> QED
        BY <1>3, <2>4, <3>1 DEF Spans
    <2> QED
      BY <2>1, <2>2, <2>3, <2>4
  <1>5. TreeSpans(1, links2, pos2, one, one)
    BY <1>0, <1>2, <1>4 DEF TreeSpans
  <1> QED
    BY <1>1, <1>5

\* Beside another run, the new one is one more for all that span it.
LEMMA NextRunSpans ==
  ASSUME NEW n \in Nat, NEW t \in 0 .. n, NEW links, NEW ord, NEW pos, NEW lo, NEW hi,
         InOrd(n, ord, pos), LinksTyped(n, links), TreeSpans(n, links, pos, lo, hi),
         NEW p \in TreePlaces(1 .. n), p # Root, EmptyAt(n, t, links, p, pos, lo, hi),
         NEW q \in Places(1 .. n) \ TreePlaces(1 .. n),
         NEW links2, IsLinkedIn(n, links, p, q, links2),
         NEW pos2, IsPosWithNew(n, t, pos, pos2)
  PROVE  \E lo2, hi2 : TreeSpans(n + 1, links2, pos2, lo2, hi2)
  <1>1. PICK w \in 1 .. n : p = <<"left", w>> \/ p = <<"right", w>>
    BY APlace
  <1>2. \A k \in 1 .. n : pos[k] \in 1 .. n /\ lo[k] \in 1 .. n /\ hi[k] \in 1 .. n
                          /\ lo[k] <= pos[k] /\ pos[k] <= hi[k] /\ ord[pos[k]] = k
    BY DEF InOrd, TreeSpans
  <1>3. PICK b \in 1 .. n : b = pos[w]
    BY <1>2
  <1>4. /\ p = <<"left", w>> => b = t + 1 /\ lo[w] = t + 1
        /\ p = <<"right", w>> => b = t /\ hi[w] = t
    <2>1. First(p, pos, lo) = t + 1 /\ Final(p, n, pos, hi) = t
      BY DEF EmptyAt
    <2>2. ASSUME p = <<"left", w>> PROVE b = t + 1 /\ lo[w] = t + 1
      <3>1. lo[w] = t + 1 /\ b - 1 = t
        BY <1>3, <2>1, <2>2, SideIsNotRoot DEF First, Final
      <3> QED
        BY <3>1
    <2>3. ASSUME p = <<"right", w>> PROVE b = t /\ hi[w] = t
      <3>1. b + 1 = t + 1 /\ hi[w] = t
        BY <1>3, <2>1, <2>3, SideIsNotRoot DEF First, Final
      <3> QED
        BY <3>1
    <2> QED
      BY <2>2, <2>3
  <1>5. \A k \in 1 .. n : pos[k] = b => k = w
    BY <1>2, <1>3
  <1>6. ASSUME NEW k \in 1 .. n, <<"left", k>> # p
        PROVE  pos[k] > b <=> pos[k] > t
    <2>1. CASE p = <<"left", w>>
      <3>1. k # w /\ b = t + 1
        BY <1>4, <1>6, <2>1
      <3>2. pos[k] # b /\ pos[k] \in 1 .. n
        BY <1>2, <1>5, <3>1
      <3> QED
        BY <3>1, <3>2
    <2>2. CASE p = <<"right", w>>
      BY <1>4, <2>2
    <2> QED
      BY <1>1, <2>1, <2>2
  <1>7. ASSUME NEW k \in 1 .. n, <<"right", k>> # p
        PROVE  pos[k] >= b <=> pos[k] > t
    <2>1. CASE p = <<"right", w>>
      <3>1. k # w /\ b = t
        BY <1>4, <1>7, <2>1
      <3>2. pos[k] # b /\ pos[k] \in 1 .. n
        BY <1>2, <1>5, <3>1
      <3> QED
        BY <3>1, <3>2
    <2>2. CASE p = <<"left", w>>
      <3>1. b = t + 1 /\ pos[k] \in 1 .. n
        BY <1>2, <1>4, <2>2
      <3> QED
        BY <3>1
    <2> QED
      BY <1>1, <2>1, <2>2
  <1>8. t <= b /\ b <= t + 1
    BY <1>1, <1>4
  <1>9. PICK lo2, hi2 : lo2 = FirstsWithNew(n, t, b, lo) /\ hi2 = FinalsWithNew(n, t, b, hi)
    OBVIOUS
  <1>10. /\ \A k \in 1 .. n : lo2[k] = IF lo[k] > b THEN lo[k] + 1 ELSE lo[k]
         /\ \A k \in 1 .. n : hi2[k] = IF hi[k] >= b THEN hi[k] + 1 ELSE hi[k]
         /\ lo2[n + 1] = t + 1 /\ hi2[n + 1] = t + 1
    <2>1. n + 1 \in 1 .. n + 1 /\ \A k \in 1 .. n : k \in 1 .. n + 1 /\ k # n + 1
      OBVIOUS
    <2>2. \A k \in 1 .. n + 1 :
            lo2[k] = IF k = n + 1 THEN t + 1 ELSE IF lo[k] > b THEN lo[k] + 1 ELSE lo[k]
      BY <1>9 DEF FirstsWithNew
    <2>3. \A k \in 1 .. n + 1 :
            hi2[k] = IF k = n + 1 THEN t + 1 ELSE IF hi[k] >= b THEN hi[k] + 1 ELSE hi[k]
      BY <1>9 DEF FinalsWithNew
    <2> QED
      BY <2>1, <2>2, <2>3
  <1>11. \A k \in 1 .. n : pos2[k] = IF pos[k] <= t THEN pos[k] ELSE pos[k] + 1
    BY DEF IsPosWithNew
  <1>12. pos2[n + 1] = t + 1
    BY DEF IsPosWithNew
  <1>13. ASSUME NEW k \in 1 .. n + 1
         PROVE  lo2[k] \in 1 .. n + 1 /\ hi2[k] \in 1 .. n + 1 /\ lo2[k] <= pos2[k] /\ pos2[k] <= hi2[k]
    <2>1. CASE k = n + 1
      <3>1. t + 1 \in 1 .. n + 1
        OBVIOUS
      <3> QED
        BY <1>10, <1>12, <2>1, <3>1
    <2>2. CASE k # n + 1
      <3>1. k \in 1 .. n
        BY <2>2
      <3>2. PICK l \in 1 .. n, m \in 1 .. n, h \in 1 .. n :
              l = lo[k] /\ m = pos[k] /\ h = hi[k] /\ l <= m /\ m <= h
        BY <1>2, <3>1
      <3>3. /\ lo2[k] = IF l > b THEN l + 1 ELSE l
            /\ pos2[k] = IF m <= t THEN m ELSE m + 1
            /\ hi2[k] = IF h >= b THEN h + 1 ELSE h
        BY <1>10, <1>11, <3>1, <3>2
      <3>4. (l > b => ~ (m <= t)) /\ (~ (m <= t) => h >= b)
        BY <1>8, <3>2
      <3>5. PICK l2 \in Nat, m2 \in Nat, h2 \in Nat :
              /\ l2 = IF l > b THEN l + 1 ELSE l
              /\ m2 = IF m <= t THEN m ELSE m + 1
              /\ h2 = IF h >= b THEN h + 1 ELSE h
        OBVIOUS
      <3>6. l2 = lo2[k] /\ m2 = pos2[k] /\ h2 = hi2[k]
        BY <3>3, <3>5
      <3>7. l2 <= m2 /\ m2 <= h2
        <4>1. l <= m /\ m <= h
          BY <3>2
        <4>2. CASE m <= t
          <5>1. l2 = l /\ m2 = m
            BY <3>4, <3>5, <4>2
          <5> QED
            BY <3>5, <4>1, <5>1
        <4>3. CASE ~ (m <= t)
          <5>1. m2 = m + 1 /\ h2 = h + 1
            BY <3>4, <3>5, <4>3
          <5> QED
            BY <3>5, <4>1, <5>1
        <4> QED
          BY <4>2, <4>3
      <3>8. l2 \in 1 .. n + 1 /\ h2 \in 1 .. n + 1
        BY <3>5
      <3> QED
        BY <3>6, <3>7, <3>8
    <2> QED
      BY <2>1, <2>2
  <1>14. \A x \in TreePlaces(1 .. n) : Spans(x, n, links, pos, lo, hi)
    BY DEF TreeSpans
  <1>15. Spans(p, n + 1, links2, pos2, lo2, hi2)
    <2>1. links2[p] = n + 1 /\ n + 1 # 0
      BY DEF IsLinkedIn
    <2>2. CASE p = <<"left", w>>
      <3>1. lo2[w] = t + 1
        <4>1. ~ (lo[w] > b) /\ lo[w] = t + 1
          BY <1>4, <2>2
        <4> QED
          BY <1>10, <4>1
      <3>2. pos2[w] - 1 = t + 1
        <4>1. ~ (pos[w] <= t) /\ pos[w] = t + 1
          BY <1>3, <1>4, <2>2
        <4>2. pos2[w] = (t + 1) + 1
          BY <1>11, <4>1
        <4> QED
          BY <4>2
      <3> QED
        BY <1>10, <2>1, <2>2, <3>1, <3>2, SideIsNotRoot DEF Spans, First, Final
    <2>3. CASE p = <<"right", w>>
      <3>1. hi2[w] = t + 1
        <4>1. hi[w] >= b /\ hi[w] = t
          BY <1>4, <2>3
        <4> QED
          BY <1>10, <4>1
      <3>2. pos2[w] + 1 = t + 1
        <4>1. pos[w] <= t /\ pos[w] = t
          BY <1>3, <1>4, <2>3
        <4> QED
          BY <1>11, <4>1
      <3> QED
        BY <1>10, <2>1, <2>3, <3>1, <3>2, SideIsNotRoot DEF Spans, First, Final
    <2> QED
      BY <1>1, <2>2, <2>3
  <1>16. /\ Spans(<<"left", n + 1>>, n + 1, links2, pos2, lo2, hi2)
         /\ Spans(<<"right", n + 1>>, n + 1, links2, pos2, lo2, hi2)
    <2>1. links2[<<"left", n + 1>>] = 0 /\ links2[<<"right", n + 1>>] = 0
      BY DEF IsLinkedIn
    <2>2. lo2[n + 1] = pos2[n + 1] - 1 + 1 /\ pos2[n + 1] + 1 = hi2[n + 1] + 1
      BY <1>10, <1>12
    <2>3. Spans(<<"left", n + 1>>, n + 1, links2, pos2, lo2, hi2)
      BY <2>1, <2>2, SideIsNotRoot DEF Spans, First, Final
    <2>4. Spans(<<"right", n + 1>>, n + 1, links2, pos2, lo2, hi2)
      BY <2>1, <2>2, SideIsNotRoot DEF Spans, First, Final
    <2> QED
      BY <2>3, <2>4
  <1>17. ASSUME NEW x \in TreePlaces(1 .. n), x # p
         PROVE  links2[x] = links[x] /\ (links[x] # 0 => links[x] \in 1 .. n)
    <2>1. x \in Places(1 .. n) \ {p, q}
      BY <1>17, PlacesAre
    <2>2. links2[x] = links[x]
      BY <2>1 DEF IsLinkedIn
    <2>3. links[x] # 0 => links[x] \in 1 .. n
      BY Linked
    <2> QED
      BY <2>2, <2>3
  <1>18. Spans(Root, n + 1, links2, pos2, lo2, hi2)
    <2>1. Root \in TreePlaces(1 .. n) /\ Root # p
      BY PlacesAre
    <2>2. Spans(Root, n, links, pos, lo, hi)
      BY <1>14, <2>1
    <2>3. links[Root] # 0
      <3>1. links[Root] = 0 => 1 = n + 1
        BY <2>2, RootSpans DEF Spans
      <3>2. n # 0
        BY <1>1
      <3> QED
        BY <3>1, <3>2
    <2>4. PICK d \in 1 .. n : d = links[Root] /\ d = links2[Root] /\ d # 0
      BY <1>17, <2>1, <2>3
    <2>5. lo[d] = 1 /\ hi[d] = n
      BY <2>2, <2>4, RootSpans DEF Spans
    <2>6. lo2[d] = 1 /\ hi2[d] = n + 1
      <3>1. ~ (1 > b) /\ n >= b
        OBVIOUS
      <3> QED
        BY <1>10, <2>4, <2>5, <3>1
    <2> QED
      BY <2>4, <2>6, RootSpans DEF Spans
  <1>19. ASSUME NEW k \in 1 .. n, <<"left", k>> # p
         PROVE  Spans(<<"left", k>>, n + 1, links2, pos2, lo2, hi2)
    <2>1. <<"left", k>> \in TreePlaces(1 .. n)
      BY PlacesAre
    <2>2. Spans(<<"left", k>>, n, links, pos, lo, hi) /\ links2[<<"left", k>>] = links[<<"left", k>>]
      BY <1>14, <1>17, <1>19, <2>1
    <2>3. PICK m \in 1 .. n : m = pos[k]
      BY <1>2
    <2>4. (m > b <=> m > t) /\ pos2[k] = IF m <= t THEN m ELSE m + 1
      BY <1>6, <1>11, <1>19, <2>3
    <2>5. CASE links[<<"left", k>>] = 0
      <3>1. lo[k] = m - 1 + 1
        BY <2>2, <2>3, <2>5, SideIsNotRoot DEF Spans, First, Final
      <3>2. lo2[k] = IF m > b THEN m + 1 ELSE m
        BY <1>10, <3>1
      <3>3. lo2[k] = pos2[k] - 1 + 1
        BY <2>4, <3>2
      <3>4. links2[<<"left", k>>] = 0
        BY <2>2, <2>5
      <3> QED
        BY <3>3, <3>4, SideIsNotRoot DEF Spans, First, Final
    <2>6. CASE links[<<"left", k>>] # 0
      <3>1. PICK d \in 1 .. n : d = links[<<"left", k>>] /\ d # 0
        BY <1>17, <1>19, <2>1, <2>6
      <3>2. lo[d] = lo[k] /\ hi[d] = m - 1
        BY <2>2, <2>3, <3>1, SideIsNotRoot DEF Spans, First, Final
      <3>3. lo2[d] = lo2[k]
        BY <1>10, <3>2
      <3>4. hi2[d] = IF m - 1 >= b THEN m - 1 + 1 ELSE m - 1
        BY <1>10, <3>2
      <3>5. hi2[d] = pos2[k] - 1
        BY <2>4, <3>4
      <3>6. links2[<<"left", k>>] = d
        BY <2>2, <3>1
      <3> QED
        BY <3>1, <3>3, <3>5, <3>6, SideIsNotRoot DEF Spans, First, Final
    <2> QED
      BY <2>5, <2>6
  <1>20. ASSUME NEW k \in 1 .. n, <<"right", k>> # p
         PROVE  Spans(<<"right", k>>, n + 1, links2, pos2, lo2, hi2)
    <2>1. <<"right", k>> \in TreePlaces(1 .. n)
      BY PlacesAre
    <2>2. Spans(<<"right", k>>, n, links, pos, lo, hi) /\ links2[<<"right", k>>] = links[<<"right", k>>]
      BY <1>14, <1>17, <1>20, <2>1
    <2>3. PICK m \in 1 .. n : m = pos[k]
      BY <1>2
    <2>4. (m >= b <=> m > t) /\ pos2[k] = IF m <= t THEN m ELSE m + 1
      BY <1>7, <1>11, <1>20, <2>3
    <2>5. CASE links[<<"right", k>>] = 0
      <3>0. PICK h \in 1 .. n : h = hi[k]
        BY <1>2
      <3>1. h = m
        <4>1. m + 1 = h + 1
          BY <2>2, <2>3, <2>5, <3>0, SideIsNotRoot DEF Spans, First, Final
        <4> QED
          BY <4>1
      <3>2. hi2[k] = IF m >= b THEN m + 1 ELSE m
        BY <1>10, <3>0, <3>1
      <3>3. pos2[k] + 1 = hi2[k] + 1
        BY <2>4, <3>2
      <3>4. links2[<<"right", k>>] = 0
        BY <2>2, <2>5
      <3> QED
        BY <3>3, <3>4, SideIsNotRoot DEF Spans, First, Final
    <2>6. CASE links[<<"right", k>>] # 0
      <3>1. PICK d \in 1 .. n : d = links[<<"right", k>>] /\ d # 0
        BY <1>17, <1>20, <2>1, <2>6
      <3>2. lo[d] = m + 1 /\ hi[d] = hi[k]
        BY <2>2, <2>3, <3>1, SideIsNotRoot DEF Spans, First, Final
      <3>3. hi2[d] = hi2[k]
        BY <1>10, <3>2
      <3>4. lo2[d] = IF m + 1 > b THEN m + 1 + 1 ELSE m + 1
        BY <1>10, <3>2
      <3>5. lo2[d] = pos2[k] + 1
        BY <2>4, <3>4
      <3>6. links2[<<"right", k>>] = d
        BY <2>2, <3>1
      <3> QED
        BY <3>1, <3>3, <3>5, <3>6, SideIsNotRoot DEF Spans, First, Final
    <2> QED
      BY <2>5, <2>6
  <1>21. ASSUME NEW x \in TreePlaces(1 .. n + 1)
         PROVE  Spans(x, n + 1, links2, pos2, lo2, hi2)
    <2>1. x = Root \/ \E k \in 1 .. n + 1 : x = <<"left", k>> \/ x = <<"right", k>>
      BY APlace
    <2>2. \A k \in 1 .. n + 1 : k = n + 1 \/ k \in 1 .. n
      OBVIOUS
    <2> QED
      BY <1>15, <1>16, <1>18, <1>19, <1>20, <2>1, <2>2
  <1>22. lo2 \in [1 .. n + 1 -> 1 .. n + 1] /\ hi2 \in [1 .. n + 1 -> 1 .. n + 1]
    BY <1>9, <1>13 DEF FirstsWithNew, FinalsWithNew
  <1>23. TreeSpans(n + 1, links2, pos2, lo2, hi2)
    BY <1>13, <1>21, <1>22 DEF TreeSpans
  <1> QED
    BY <1>23

\* What a pointer spans are positions.
LEMMA SpanTyped ==
  ASSUME NEW n \in Nat, NEW values, NEW links, NEW ord, NEW pos, NEW lo, NEW hi,
         Woven(n, values, links, ord, pos, lo, hi), NEW p \in TreePlaces(1 .. n)
  PROVE  First(p, pos, lo) \in Nat /\ Final(p, n, pos, hi) \in Nat
  <1>1. \A k \in 1 .. n : pos[k] \in 1 .. n /\ lo[k] \in 1 .. n /\ hi[k] \in 1 .. n
    BY DEF Woven, TreeSpans, InOrd
  <1>2. \A k \in 1 .. n : pos[k] + 1 \in Nat /\ pos[k] - 1 \in Nat /\ lo[k] \in Nat /\ hi[k] \in Nat
    BY <1>1
  <1>3. CASE p = Root
    BY <1>3, RootSpans
  <1>4. ASSUME NEW k \in 1 .. n, p = <<"left", k>>
        PROVE  First(p, pos, lo) \in Nat /\ Final(p, n, pos, hi) \in Nat
    BY <1>2, <1>4, SideIsNotRoot DEF First, Final
  <1>5. ASSUME NEW k \in 1 .. n, p = <<"right", k>>
        PROVE  First(p, pos, lo) \in Nat /\ Final(p, n, pos, hi) \in Nat
    BY <1>2, <1>5, SideIsNotRoot DEF First, Final
  <1>6. p = Root \/ \E k \in 1 .. n : p = <<"left", k>> \/ p = <<"right", k>>
    BY APlace
  <1> QED
    BY <1>3, <1>4, <1>5, <1>6

\* The new run comes behind those that are not smaller, and tree and list agree.
LEMMA LinkedIn ==
  ASSUME NEW values \in Seq(Size), NEW size \in Size, NEW n, n = Len(values),
         NEW links, NEW p, NEW q, NEW ord, NEW pos, NEW lo, NEW hi,
         Woven(n, values, links, ord, pos, lo, hi),
         NEW t, Seeks(size, t, n, values, p, q, ord, pos, lo, hi),
         links[p] = 0,
         NEW links2, links2 = LinksWithNew(n, links, p, q),
         NEW values2, values2 = Append(values, size)
  PROVE  \E ord2, pos2, lo2, hi2 :
           /\ Woven(n + 1, values2, links2, ord2, pos2, lo2, hi2)
           /\ IsWithNew(n, t, ord, ord2)
  <1>1. n \in Nat /\ p \in TreePlaces(1 .. n) /\ t \in 0 .. n /\ Belongs(size, t, n, values, ord)
    BY SizeNat DEF Seeks, Belongs
  <1>2. /\ InOrd(n, ord, pos) /\ LinksTyped(n, links) /\ ListThreads(n, links, ord)
        /\ TreeSpans(n, links, pos, lo, hi) /\ OneParent(n, links) /\ Sorted(n, values, ord)
        /\ ord \in [1 .. n -> 1 .. n]
    BY DEF Woven, InOrd
  <1>3. PICK f \in Nat, g \in Nat : f = First(p, pos, lo) /\ g = Final(p, n, pos, hi)
    BY <1>1, SpanTyped
  <1>4. f = g + 1
    <2>1. Spans(p, n, links, pos, lo, hi)
      BY <1>1, <1>2 DEF TreeSpans
    <2> QED
      BY <1>3, <2>1 DEF Spans
  <1>5. PICK m \in 0 .. t : f - 1 <= m /\ q = PrevAt(m, ord)
    BY <1>3 DEF Seeks
  <1>6. f - 1 <= t /\ t <= g
    BY <1>3 DEF Seeks
  <1>7. f = t + 1 /\ g = t /\ m = t
    BY <1>1, <1>4, <1>5, <1>6
  <1>8. EmptyAt(n, t, links, p, pos, lo, hi)
    BY <1>3, <1>7 DEF EmptyAt
  <1>9. q = PrevAt(t, ord)
    BY <1>5, <1>7
  <1>10. q \in Places(1 .. n) \ TreePlaces(1 .. n)
    BY <1>1, <1>2, <1>9, PrevIsPlace
  <1>11. IsLinkedIn(n, links, p, q, links2)
    BY <1>1, <1>2, <1>10, NewLinks
  <1>12. PICK ord2, pos2 : ord2 = WithNew(n, t, ord) /\ pos2 = PosWithNew(n, t, pos)
    OBVIOUS
  <1>13. InOrd(n + 1, ord2, pos2) /\ IsWithNew(n, t, ord, ord2) /\ IsPosWithNew(n, t, pos, pos2)
    BY <1>1, <1>2, <1>12, NewOrd
  <1>14. /\ IsWithNew(n, t, ord, ord2) /\ IsPosWithNew(n, t, pos, pos2)
         /\ ord2 \in [1 .. n + 1 -> 1 .. n + 1]
    BY <1>13 DEF InOrd
  <1>15. Sorted(n + 1, values2, ord2)
    BY <1>1, <1>2, <1>14, NewSorted
  <1>16. ListThreads(n + 1, links2, ord2)
    BY <1>1, <1>2, <1>9, <1>11, <1>14, NewThread
  <1>17. OneParent(n + 1, links2)
    BY <1>1, <1>2, <1>10, <1>11, NewOneParent
  <1>18. \E lo2, hi2 : TreeSpans(n + 1, links2, pos2, lo2, hi2)
    <2>1. CASE p = Root
      <3>1. n = 0 /\ t = 0
        <4>1. First(Root, pos, lo) = 1 /\ Final(Root, n, pos, hi) = n
          BY RootSpans
        <4>2. f = 1 /\ g = n
          BY <1>3, <2>1, <4>1
        <4> QED
          BY <1>1, <1>7, <4>2
      <3>2. q \in Places({}) \ {Root}
        <4>1. 1 .. 0 = {}
          OBVIOUS
        <4>2. q \in Places(1 .. 0) /\ q # Root
          BY <1>10, <3>1, PlacesAre
        <4> QED
          BY <4>1, <4>2
      <3>3. IsLinkedIn(0, links, Root, q, links2)
        BY <1>11, <2>1, <3>1
      <3>4. pos2 \in [1 .. 1 -> 1 .. 1] /\ n + 1 = 1
        BY <1>14, <3>1 DEF IsPosWithNew
      <3> QED
        BY <3>2, <3>3, <3>4, FirstRunSpans
    <2>2. CASE p # Root
      BY <1>1, <1>2, <1>8, <1>10, <1>11, <1>14, <2>2, NextRunSpans
    <2> QED
      BY <2>1, <2>2
  <1>19. LinksTyped(n + 1, links2)
    BY <1>11 DEF IsLinkedIn
  <1>20. PICK lo2, hi2 : TreeSpans(n + 1, links2, pos2, lo2, hi2)
    BY <1>18
  <1>21. Woven(n + 1, values2, links2, ord2, pos2, lo2, hi2)
    BY <1>13, <1>15, <1>16, <1>17, <1>19, <1>20 DEF Woven
  <1> QED
    BY <1>14, <1>21

\* Linking in a run.
LEMMA LinkStep ==
  ASSUME AisoInv, LinkNode
  PROVE  /\ AisoInv'
         /\ \E ord, pos, lo, hi, t, ord2, pos2, lo2, hi2 :
              /\ Woven(AisoSize, value, link, ord, pos, lo, hi)
              /\ Belongs(v, t, AisoSize, value, ord)
              /\ IsWithNew(AisoSize, t, ord, ord2)
              /\ Woven(AisoSize + 1, value', link', ord2, pos2, lo2, hi2)
  <1>1. v # 0 /\ link[hook] = 0 /\ value' = Append(value, v) /\ v' = 0
    BY DEF LinkNode, an
  <1>2. value \in Seq(Size) /\ v \in Size /\ AisoSize = Len(value)
    BY <1>1 DEF AisoInv, AisoSize
  <1>3. PICK ord, pos, lo, hi, t :
          /\ Woven(AisoSize, value, link, ord, pos, lo, hi)
          /\ Seeks(v, t, AisoSize, value, hook, prev, ord, pos, lo, hi)
    BY <1>1 DEF AisoInv
  <1>4. PICK n, p, q, size, values2, links2 :
          n = AisoSize /\ p = hook /\ q = prev /\ size = v /\ values2 = value' /\ links2 = link'
    OBVIOUS
  <1>5. n \in Nat /\ n = Len(value) /\ values2 = Append(value, size) /\ size \in Size
    BY <1>1, <1>2, <1>4, SizeNat
  <1>6. AisoSize' = n + 1 /\ value' \in Seq(Size) /\ DOMAIN value' = 1 .. n + 1
    BY <1>1, <1>2, <1>5 DEF AisoSize
  <1>7. links2 = LinksWithNew(n, link, p, q)
    BY <1>4, <1>6 DEF LinkNode, LinksWithNew
  <1>8. Woven(n, value, link, ord, pos, lo, hi) /\ Seeks(size, t, n, value, p, q, ord, pos, lo, hi)
        /\ link[p] = 0
    BY <1>1, <1>3, <1>4
  <1>9. PICK ord2, pos2, lo2, hi2 :
          /\ Woven(n + 1, values2, links2, ord2, pos2, lo2, hi2)
          /\ IsWithNew(n, t, ord, ord2)
    BY <1>2, <1>5, <1>7, <1>8, LinkedIn
  <1>10. AisoInv'
    BY <1>1, <1>4, <1>6, <1>9 DEF AisoInv
  <1>11. Belongs(size, t, n, value, ord)
    BY <1>8 DEF Seeks
  <1> QED
    BY <1>3, <1>4, <1>9, <1>10, <1>11

\* The invariant is one.
LEMMA AisoStep ==
  ASSUME AisoInv, [AisoNext]_aisoVars
  PROVE  AisoInv'
  BY EnterStep, FailsStep, DownStep, RotateStep, LinkStep DEF AisoNext

\* It holds at every moment of every insertion.
LEMMA AisoInvariance == AisoSpec => []AisoInv
  BY AisoInitOK, AisoStep, PTL DEF AisoSpec

-----------------------------------------------------------------------------
(* What the list and the tree yield.                                       *)

\* What holds of a node if it holds of those of a smaller measure holds of all.
LEMMA ByMeasure ==
  ASSUME NEW n \in Nat, NEW m, \A k \in 1 .. n : m[k] \in Nat, NEW G,
         \A k \in 1 .. n : (\A j \in 1 .. n : m[j] < m[k] => j \in G) => k \in G
  PROVE  1 .. n \subseteq G
  <1> DEFINE T == {d \in Nat : \E k \in 1 .. n : d = m[k] /\ k \notin G}
  <1>1. T \subseteq Nat
    OBVIOUS
  <1>2. ASSUME NEW d \in T, \A e \in T : d <= e PROVE FALSE
    <2>1. PICK k \in 1 .. n : d = m[k] /\ k \notin G
      OBVIOUS
    <2>2. PICK j \in 1 .. n : m[j] < m[k] /\ j \notin G
      BY <2>1
    <2>3. m[j] \in T /\ d \in Nat /\ m[j] \in Nat
      BY <2>2
    <2>4. d <= m[j]
      BY <1>2, <2>3
    <2> QED
      BY <2>1, <2>2, <2>3, <2>4
  <1>3. T = {}
    <2> HIDE DEF T
    <2> QED
      BY <1>1, <1>2, SmallestIn
  <1> QED
    BY <1>3

\* The order, as a sequence.
LEMMA AsSeq ==
  ASSUME NEW S, NEW n \in Nat, NEW f \in [1 .. n -> S]
  PROVE  f \in Seq(S) /\ Len(f) = n
  <1>1. f \in Seq(S)
    BY SeqDef
  <1>2. DOMAIN f = 1 .. n /\ DOMAIN f = 1 .. Len(f) /\ Len(f) \in Nat
    BY <1>1, LenProperties
  <1> QED
    BY <1>1, <1>2

\* The run before the rest.
LEMMA RunThenRest ==
  ASSUME NEW n \in Nat, NEW ord \in [1 .. n -> 1 .. n], NEW i \in 1 .. n, NEW j \in i .. n
  PROVE  /\ SubSeq(ord, i, j) = <<ord[i]>> \o SubSeq(ord, i + 1, j)
         /\ SubSeq(ord, i, i) = <<ord[i]>>
  <1>1. ord \in Seq(1 .. n) /\ Len(ord) = n
    BY AsSeq
  <1>2. SubSeq(ord, i, j) = <<ord[i]>> \o SubSeq(ord, i + 1, j)
    BY <1>1, SubSeqRecursiveFirst
  <1>3. SubSeq(ord, i, i) = <<ord[i]>> \o SubSeq(ord, i + 1, i)
    <2>1. i \in i .. n
      OBVIOUS
    <2> QED
      BY <1>1, <2>1, SubSeqRecursiveFirst
  <1>4. SubSeq(ord, i + 1, i) = <<>>
    BY SubSeqEmpty
  <1>5. <<ord[i]>> \in Seq(1 .. n)
    OBVIOUS
  <1> QED
    BY <1>2, <1>3, <1>4, <1>5, ConcatEmptySeq

\* A function from nodes on that follows the next pointers.
FollowsNext(f, links, n) ==
  f = [k \in 1 .. n |->
         LET nxt == links[<<"next", k>>]
         IN <<k>> \o (IF nxt = 0 THEN <<>> ELSE f[nxt])]

\* There is one such function.
LEMMA NextFollowed ==
  ASSUME NEW n \in Nat, NEW links, NEW ord, NEW pos, InOrd(n, ord, pos), ListThreads(n, links, ord)
  PROVE  FollowsNext([k \in 1 .. n |-> SubSeq(ord, pos[k], n)], links, n)
  <1> DEFINE W == [k \in 1 .. n |-> SubSeq(ord, pos[k], n)]
  <1>1. ord \in [1 .. n -> 1 .. n] /\ \A k \in 1 .. n : pos[k] \in 1 .. n /\ ord[pos[k]] = k /\ ord[k] \in 1 .. n
        /\ pos[ord[k]] = k
    BY DEF InOrd
  <1>2. \A k \in 1 .. n : W[k] = SubSeq(ord, pos[k], n)
    OBVIOUS
  <1> HIDE DEF W
  <1>3. ASSUME NEW k \in 1 .. n
        PROVE  W[k] = <<k>> \o (IF links[<<"next", k>>] = 0 THEN <<>> ELSE W[links[<<"next", k>>]])
    <2>1. PICK i \in 1 .. n : i = pos[k] /\ ord[i] = k
      BY <1>1
    <2>2. links[<<"next", k>>] = IF i = n THEN 0 ELSE ord[i + 1]
      BY <2>1 DEF ListThreads
    <2>3. n \in i .. n
      OBVIOUS
    <2>4. W[k] = <<k>> \o SubSeq(ord, i + 1, n)
      <3>1. SubSeq(ord, i, n) = <<ord[i]>> \o SubSeq(ord, i + 1, n)
        BY <1>1, <2>3, RunThenRest
      <3> QED
        BY <1>2, <2>1, <3>1
    <2>5. CASE i = n
      <3>1. SubSeq(ord, i + 1, n) = <<>>
        BY <2>5, SubSeqEmpty
      <3> QED
        BY <2>2, <2>4, <2>5, <3>1
    <2>6. CASE i # n
      <3>1. i + 1 \in 1 .. n
        BY <2>6
      <3>2. ord[i + 1] \in 1 .. n /\ pos[ord[i + 1]] = i + 1 /\ ord[i + 1] # 0
        BY <1>1, <3>1
      <3>3. W[ord[i + 1]] = SubSeq(ord, i + 1, n)
        BY <1>2, <3>2
      <3> QED
        BY <2>2, <2>4, <2>6, <3>2, <3>3
    <2> QED
      BY <2>5, <2>6
  <1>4. W = [k \in 1 .. n |-> W[k]]
    BY DEF W
  <1>5. FollowsNext(W, links, n)
    BY <1>3, <1>4 DEF FollowsNext
  <1> QED
    BY <1>5 DEF W

\* What it yields at a node.
YieldsRest(f, k, n, ord, pos) == f[k] = SubSeq(ord, pos[k], n)

\* There is no other.
LEMMA NextOnly ==
  ASSUME NEW n \in Nat, NEW links, NEW ord, NEW pos, InOrd(n, ord, pos), ListThreads(n, links, ord),
         NEW f, FollowsNext(f, links, n), NEW k \in 1 .. n
  PROVE  YieldsRest(f, k, n, ord, pos)
  <1>1. ord \in [1 .. n -> 1 .. n] /\ \A j \in 1 .. n : pos[j] \in 1 .. n /\ ord[pos[j]] = j /\ ord[j] \in 1 .. n
        /\ pos[ord[j]] = j
    BY DEF InOrd
  <1> DEFINE G == {j \in 1 .. n : f[j] = SubSeq(ord, pos[j], n)}
             rest == [j \in 1 .. n |-> n - pos[j]]
  <1>2. \A j \in 1 .. n : rest[j] = n - pos[j] /\ rest[j] \in Nat
    BY <1>1
  <1> HIDE DEF rest
  <1>3. ASSUME NEW j \in 1 .. n, \A m \in 1 .. n : rest[m] < rest[j] => m \in G
        PROVE  j \in G
    <2>1. PICK i \in 1 .. n : i = pos[j] /\ ord[i] = j
      BY <1>1
    <2>2. links[<<"next", j>>] = IF i = n THEN 0 ELSE ord[i + 1]
      BY <2>1 DEF ListThreads
    <2>3. f[j] = <<j>> \o (IF links[<<"next", j>>] = 0 THEN <<>> ELSE f[links[<<"next", j>>]])
      BY DEF FollowsNext
    <2>4. SubSeq(ord, i, n) = <<j>> \o SubSeq(ord, i + 1, n)
      <3>1. n \in i .. n
        OBVIOUS
      <3>2. SubSeq(ord, i, n) = <<ord[i]>> \o SubSeq(ord, i + 1, n)
        BY <1>1, <3>1, RunThenRest
      <3> QED
        BY <2>1, <3>2
    <2>5. f[j] = SubSeq(ord, i, n)
      <3>1. CASE i = n
        <4>1. SubSeq(ord, i + 1, n) = <<>>
          BY <3>1, SubSeqEmpty
        <4> QED
          BY <2>2, <2>3, <2>4, <3>1, <4>1
      <3>2. CASE i # n
        <4>1. i + 1 \in 1 .. n
          BY <3>2
        <4>2. PICK m : m = ord[i + 1]
          OBVIOUS
        <4>3. m \in 1 .. n /\ pos[m] = i + 1
          BY <1>1, <4>1, <4>2
        <4>4. rest[m] < rest[j]
          <5>1. rest[m] = n - (i + 1) /\ rest[j] = n - i
            BY <1>2, <2>1, <4>3
          <5> QED
            BY <5>1
        <4>5. f[m] = SubSeq(ord, i + 1, n)
          BY <1>3, <4>3, <4>4
        <4>6. m # 0
          BY <4>3
        <4> QED
          BY <2>2, <2>3, <2>4, <3>2, <4>2, <4>5, <4>6
      <3> QED
        BY <3>1, <3>2
    <2> QED
      BY <2>1, <2>5
  <1>4. 1 .. n \subseteq G
    <2> HIDE DEF G
    <2> QED
      BY <1>2, <1>3, ByMeasure
  <1> QED
    BY <1>4 DEF YieldsRest

\* So the list is the order.
LEMMA ChainIsOrder ==
  ASSUME NEW n \in Nat, NEW values, NEW links, NEW ord, NEW pos, NEW lo, NEW hi,
         Woven(n, values, links, ord, pos, lo, hi)
  PROVE  ChainIn(links, 1 .. n) = ord
  <1>1. InOrd(n, ord, pos) /\ ListThreads(n, links, ord) /\ ord \in [1 .. n -> 1 .. n]
    BY DEF Woven, InOrd
  <1>2. FollowsNext(ListFrom(links, 1 .. n), links, n)
    <2> DEFINE P(f) == FollowsNext(f, links, n)
    <2>1. \E f : P(f)
      BY <1>1, NextFollowed
    <2>2. ListFrom(links, 1 .. n) = CHOOSE f : P(f)
      BY DEF ListFrom, FollowsNext
    <2> HIDE DEF P
    <2>3. P(ListFrom(links, 1 .. n))
      BY <2>1, <2>2
    <2> QED
      BY <2>3 DEF P
  <1>3. ord \in Seq(1 .. n) /\ Len(ord) = n
    BY <1>1, AsSeq
  <1>4. CASE n = 0
    <2>1. links[List] = 0
      BY <1>1, <1>4 DEF ListThreads
    <2>2. ord = <<>>
      BY <1>3, <1>4, EmptySeq
    <2> QED
      BY <2>1, <2>2 DEF ChainIn
  <1>5. CASE n # 0
    <2>1. 1 \in 1 .. n
      BY <1>5
    <2>2. links[List] = ord[1] /\ ord[1] \in 1 .. n /\ pos[ord[1]] = 1 /\ ord[1] # 0
      BY <1>1, <1>5, <2>1 DEF ListThreads, InOrd
    <2>3. ListFrom(links, 1 .. n)[ord[1]] = SubSeq(ord, 1, n)
      <3>1. ListFrom(links, 1 .. n)[ord[1]] = SubSeq(ord, pos[ord[1]], n)
        <4>1. PICK f, k : f = ListFrom(links, 1 .. n) /\ k = ord[1]
          OBVIOUS
        <4>2. FollowsNext(f, links, n) /\ k \in 1 .. n
          BY <1>2, <2>2, <4>1
        <4>3. YieldsRest(f, k, n, ord, pos)
          BY <1>1, <4>2, NextOnly
        <4> QED
          BY <4>1, <4>3 DEF YieldsRest
      <3> QED
        BY <2>2, <3>1
    <2>4. SubSeq(ord, 1, n) = ord
      BY <1>3, SubSeqFull
    <2> QED
      BY <2>2, <2>3, <2>4 DEF ChainIn
  <1> QED
    BY <1>4, <1>5

\* A function from nodes on that goes through the tree.
AtNode(f, links, k) ==
  LET l == links[<<"left", k>>]
      r == links[<<"right", k>>]
  IN (IF l = 0 THEN <<>> ELSE f[l]) \o <<k>> \o (IF r = 0 THEN <<>> ELSE f[r])

GoesUnder(f, links, n) == f = [k \in 1 .. n |-> AtNode(f, links, k)]

YieldsSpan(f, k, ord, lo, hi) == f[k] = SubSeq(ord, lo[k], hi[k])

\* What a node spans is what its left side spans, the node, and what its right
\* side spans.
LEMMA SpanSplits ==
  ASSUME NEW n \in Nat, NEW ord \in [1 .. n -> 1 .. n],
         NEW i \in 1 .. n, NEW l \in 1 .. i, NEW h \in i .. n
  PROVE  (SubSeq(ord, l, i - 1) \o <<ord[i]>>) \o SubSeq(ord, i + 1, h) = SubSeq(ord, l, h)
  <1>1. ord \in Seq(1 .. n) /\ Len(ord) = n
    BY AsSeq
  <1>2. SubSeq(ord, l, i - 1) \o <<ord[i]>> = SubSeq(ord, l, i)
    <2>1. l \in 1 .. Len(ord) /\ i \in l .. Len(ord)
      BY <1>1
    <2> QED
      BY <1>1, <2>1, SubSeqRecursiveSecond
  <1>3. SubSeq(ord, l, i) \o SubSeq(ord, i + 1, h) = SubSeq(ord, l, h)
    <2>1. l \in 1 .. Len(ord) + 1 /\ i \in l - 1 .. Len(ord) /\ h \in i .. Len(ord)
      BY <1>1
    <2> QED
      BY <1>1, <2>1, ConcatAdjacentSubSeq
  <1> QED
    BY <1>2, <1>3

\* The parts that the sides of a node span.
SidesOf(n, links, ord, pos, lo, hi, k) ==
  /\ links[<<"left", k>>] = 0 => SubSeq(ord, lo[k], pos[k] - 1) = <<>>
  /\ links[<<"left", k>>] # 0 =>
       /\ links[<<"left", k>>] \in 1 .. n
       /\ lo[links[<<"left", k>>]] = lo[k] /\ hi[links[<<"left", k>>]] = pos[k] - 1
  /\ links[<<"right", k>>] = 0 => SubSeq(ord, pos[k] + 1, hi[k]) = <<>>
  /\ links[<<"right", k>>] # 0 =>
       /\ links[<<"right", k>>] \in 1 .. n
       /\ lo[links[<<"right", k>>]] = pos[k] + 1 /\ hi[links[<<"right", k>>]] = hi[k]

\* They are so if tree and list are woven.
LEMMA SidesAre ==
  ASSUME NEW n \in Nat, NEW values, NEW links, NEW ord, NEW pos, NEW lo, NEW hi,
         Woven(n, values, links, ord, pos, lo, hi), NEW k \in 1 .. n
  PROVE  SidesOf(n, links, ord, pos, lo, hi, k)
  <1>1. pos[k] \in 1 .. n /\ lo[k] \in 1 .. n /\ hi[k] \in 1 .. n
    BY DEF Woven, TreeSpans, InOrd
  <1>2. <<"left", k>> \in TreePlaces(1 .. n) /\ <<"right", k>> \in TreePlaces(1 .. n)
    BY PlacesAre
  <1>3. Spans(<<"left", k>>, n, links, pos, lo, hi) /\ Spans(<<"right", k>>, n, links, pos, lo, hi)
    BY <1>2 DEF Woven, TreeSpans
  <1>4. IF links[<<"left", k>>] = 0 THEN lo[k] = pos[k] - 1 + 1
        ELSE lo[links[<<"left", k>>]] = lo[k] /\ hi[links[<<"left", k>>]] = pos[k] - 1
    BY <1>3, SideIsNotRoot DEF Spans, First, Final
  <1>5. IF links[<<"right", k>>] = 0 THEN pos[k] + 1 = hi[k] + 1
        ELSE lo[links[<<"right", k>>]] = pos[k] + 1 /\ hi[links[<<"right", k>>]] = hi[k]
    BY <1>3, SideIsNotRoot DEF Spans, First, Final
  <1>6. lo[k] = pos[k] - 1 + 1 => SubSeq(ord, lo[k], pos[k] - 1) = <<>>
    BY <1>1, SubSeqEmpty
  <1>7. pos[k] + 1 = hi[k] + 1 => SubSeq(ord, pos[k] + 1, hi[k]) = <<>>
    BY <1>1, SubSeqEmpty
  <1>8. /\ links[<<"left", k>>] # 0 => links[<<"left", k>>] \in 1 .. n
        /\ links[<<"right", k>>] # 0 => links[<<"right", k>>] \in 1 .. n
    BY <1>2, Linked DEF Woven
  <1> QED
    BY <1>4, <1>5, <1>6, <1>7, <1>8 DEF SidesOf

\* What the function yields, if it does so for the nodes at the sides.
LEMMA NodeYields ==
  ASSUME NEW n \in Nat, NEW values, NEW links, NEW ord, NEW pos, NEW lo, NEW hi,
         Woven(n, values, links, ord, pos, lo, hi), NEW k \in 1 .. n, NEW f,
         \A j \in {links[<<"left", k>>], links[<<"right", k>>]} \ {0} : YieldsSpan(f, j, ord, lo, hi),
         f[k] = AtNode(f, links, k)
  PROVE  YieldsSpan(f, k, ord, lo, hi)
  <1>1. SidesOf(n, links, ord, pos, lo, hi, k)
    BY SidesAre
  <1>2. PICK i, l, h : i = pos[k] /\ l = lo[k] /\ h = hi[k]
    OBVIOUS
  <1>3. i \in 1 .. n /\ l \in 1 .. i /\ h \in i .. n /\ ord[i] = k /\ ord \in [1 .. n -> 1 .. n]
    <2>1. i \in 1 .. n /\ l \in 1 .. n /\ h \in 1 .. n /\ l <= i /\ i <= h
      BY <1>2 DEF Woven, TreeSpans, InOrd
    <2>2. ord[i] = k /\ ord \in [1 .. n -> 1 .. n]
      BY <1>2 DEF Woven, InOrd
    <2> QED
      BY <2>1, <2>2
  <1>4. (IF links[<<"left", k>>] = 0 THEN <<>> ELSE f[links[<<"left", k>>]]) = SubSeq(ord, l, i - 1)
    BY <1>1, <1>2 DEF SidesOf, YieldsSpan
  <1>5. (IF links[<<"right", k>>] = 0 THEN <<>> ELSE f[links[<<"right", k>>]]) = SubSeq(ord, i + 1, h)
    BY <1>1, <1>2 DEF SidesOf, YieldsSpan
  <1>6. (SubSeq(ord, l, i - 1) \o <<ord[i]>>) \o SubSeq(ord, i + 1, h) = SubSeq(ord, l, h)
    BY <1>3, SpanSplits
  <1>7. AtNode(f, links, k) = (SubSeq(ord, l, i - 1) \o <<ord[i]>>) \o SubSeq(ord, i + 1, h)
    BY <1>3, <1>4, <1>5 DEF AtNode
  <1> QED
    BY <1>2, <1>6, <1>7 DEF YieldsSpan

\* There is one such function.
LEMMA UnderGone ==
  ASSUME NEW n \in Nat, NEW values, NEW links, NEW ord, NEW pos, NEW lo, NEW hi,
         Woven(n, values, links, ord, pos, lo, hi)
  PROVE  GoesUnder([k \in 1 .. n |-> SubSeq(ord, lo[k], hi[k])], links, n)
  <1> DEFINE W == [k \in 1 .. n |-> SubSeq(ord, lo[k], hi[k])]
  <1>1. W = [k \in 1 .. n |-> W[k]] /\ \A k \in 1 .. n : W[k] = SubSeq(ord, lo[k], hi[k])
    OBVIOUS
  <1> HIDE DEF W
  <1>2. ASSUME NEW k \in 1 .. n
        PROVE  W[k] = AtNode(W, links, k)
    <2>1. PICK i, l, h : i = pos[k] /\ l = lo[k] /\ h = hi[k]
      OBVIOUS
    <2>2. SidesOf(n, links, ord, pos, lo, hi, k)
      BY SidesAre
    <2>3. i \in 1 .. n /\ l \in 1 .. i /\ h \in i .. n /\ ord[i] = k /\ ord \in [1 .. n -> 1 .. n]
      <3>1. i \in 1 .. n /\ l \in 1 .. n /\ h \in 1 .. n /\ l <= i /\ i <= h
        BY <2>1 DEF Woven, TreeSpans, InOrd
      <3>2. ord[i] = k /\ ord \in [1 .. n -> 1 .. n]
        BY <2>1 DEF Woven, InOrd
      <3> QED
        BY <3>1, <3>2
    <2>4. (IF links[<<"left", k>>] = 0 THEN <<>> ELSE W[links[<<"left", k>>]]) = SubSeq(ord, l, i - 1)
      BY <1>1, <2>1, <2>2 DEF SidesOf
    <2>5. (IF links[<<"right", k>>] = 0 THEN <<>> ELSE W[links[<<"right", k>>]]) = SubSeq(ord, i + 1, h)
      BY <1>1, <2>1, <2>2 DEF SidesOf
    <2>6. (SubSeq(ord, l, i - 1) \o <<ord[i]>>) \o SubSeq(ord, i + 1, h) = SubSeq(ord, l, h)
      BY <2>3, SpanSplits
    <2>7. AtNode(W, links, k) = (SubSeq(ord, l, i - 1) \o <<ord[i]>>) \o SubSeq(ord, i + 1, h)
      BY <2>3, <2>4, <2>5 DEF AtNode
    <2>8. W[k] = SubSeq(ord, l, h)
      BY <1>1, <2>1
    <2> QED
      BY <2>6, <2>7, <2>8
  <1>3. GoesUnder(W, links, n)
    BY <1>1, <1>2 DEF GoesUnder
  <1> QED
    BY <1>3 DEF W

\* It yields, under each node, the runs that the node spans.
LEMMA UnderOnly ==
  ASSUME NEW n \in Nat, NEW values, NEW links, NEW ord, NEW pos, NEW lo, NEW hi,
         Woven(n, values, links, ord, pos, lo, hi),
         NEW f, GoesUnder(f, links, n), NEW k \in 1 .. n
  PROVE  YieldsSpan(f, k, ord, lo, hi)
  <1> DEFINE G == {j \in 1 .. n : YieldsSpan(f, j, ord, lo, hi)}
             span == [j \in 1 .. n |-> hi[j] - lo[j]]
  <1>1. \A j \in 1 .. n : pos[j] \in 1 .. n /\ lo[j] \in 1 .. n /\ hi[j] \in 1 .. n
                          /\ lo[j] <= pos[j] /\ pos[j] <= hi[j]
    BY DEF Woven, TreeSpans, InOrd
  <1>2. \A j \in 1 .. n : span[j] = hi[j] - lo[j] /\ span[j] \in Nat
    BY <1>1
  <1> HIDE DEF span
  <1>3. ASSUME NEW j \in 1 .. n, \A m \in 1 .. n : span[m] < span[j] => m \in G
        PROVE  j \in G
    <2>1. SidesOf(n, links, ord, pos, lo, hi, j)
      BY SidesAre
    <2>2. ASSUME NEW m \in {links[<<"left", j>>], links[<<"right", j>>]} \ {0}
          PROVE  YieldsSpan(f, m, ord, lo, hi)
      <3>1. m \in 1 .. n /\ \/ lo[m] = lo[j] /\ hi[m] = pos[j] - 1
                            \/ lo[m] = pos[j] + 1 /\ hi[m] = hi[j]
        BY <2>1 DEF SidesOf
      <3>2. PICK l \in 1 .. n, i \in 1 .. n, h \in 1 .. n :
              l = lo[j] /\ i = pos[j] /\ h = hi[j] /\ l <= i /\ i <= h
        BY <1>1
      <3>3. span[j] = h - l
        BY <1>2, <3>2
      <3>4. span[m] = (i - 1) - l \/ span[m] = h - (i + 1)
        BY <1>2, <3>1, <3>2
      <3>5. span[m] < span[j]
        BY <3>2, <3>3, <3>4
      <3> QED
        BY <1>3, <3>1, <3>5
    <2>3. f[j] = AtNode(f, links, j)
      BY DEF GoesUnder
    <2>4. YieldsSpan(f, j, ord, lo, hi)
      BY <2>2, <2>3, NodeYields
    <2> QED
      BY <2>4
  <1>4. 1 .. n \subseteq G
    <2> HIDE DEF G
    <2> QED
      BY <1>2, <1>3, ByMeasure
  <1> QED
    BY <1>4

\* The tree is the order, too.
LEMMA InOrderIsOrder ==
  ASSUME NEW n \in Nat, NEW values, NEW links, NEW ord, NEW pos, NEW lo, NEW hi,
         Woven(n, values, links, ord, pos, lo, hi)
  PROVE  InOrderIn(links, 1 .. n) = ord
  <1>1. ord \in [1 .. n -> 1 .. n]
    BY DEF Woven, InOrd
  <1>2. GoesUnder(TreeUnder(links, 1 .. n), links, n)
    <2> DEFINE P(f) == GoesUnder(f, links, n)
    <2>1. \E f : P(f)
      BY UnderGone
    <2>2. TreeUnder(links, 1 .. n) = CHOOSE f : P(f)
      BY DEF TreeUnder, GoesUnder, AtNode
    <2> HIDE DEF P
    <2>3. P(TreeUnder(links, 1 .. n))
      BY <2>1, <2>2
    <2> QED
      BY <2>3 DEF P
  <1>3. ord \in Seq(1 .. n) /\ Len(ord) = n
    BY <1>1, AsSeq
  <1>4. Root \in TreePlaces(1 .. n)
    BY PlacesAre
  <1>5. IF links[Root] = 0 THEN 1 = n + 1 ELSE lo[links[Root]] = 1 /\ hi[links[Root]] = n
    <2>1. Spans(Root, n, links, pos, lo, hi)
      BY <1>4 DEF Woven, TreeSpans
    <2> QED
      BY <2>1, RootSpans DEF Spans
  <1>6. CASE links[Root] = 0
    <2>1. n = 0
      BY <1>5, <1>6
    <2>2. ord = <<>>
      BY <1>3, <2>1, EmptySeq
    <2> QED
      BY <1>6, <2>2 DEF InOrderIn
  <1>7. CASE links[Root] # 0
    <2>1. PICK f, k : f = TreeUnder(links, 1 .. n) /\ k = links[Root]
      OBVIOUS
    <2>2. GoesUnder(f, links, n) /\ k \in 1 .. n /\ lo[k] = 1 /\ hi[k] = n
      BY <1>2, <1>4, <1>5, <1>7, <2>1, Linked DEF Woven
    <2>3. YieldsSpan(f, k, ord, lo, hi)
      BY <2>2, UnderOnly
    <2>4. SubSeq(ord, 1, n) = ord
      BY <1>3, SubSeqFull
    <2> QED
      BY <1>7, <2>1, <2>2, <2>3, <2>4 DEF InOrderIn, YieldsSpan
  <1> QED
    BY <1>6, <1>7

\* The list is another way through the tree (aiso.spc:74), at every moment.
THEOREM TreeMatchesList == AisoSpec => []TreeIsList
  <1>1. AisoInv => TreeIsList
    <2> SUFFICES ASSUME AisoInv PROVE TreeIsList
      OBVIOUS
    <2>1. PICK ord, pos, lo, hi : Woven(AisoSize, value, link, ord, pos, lo, hi)
      BY DEF AisoInv
    <2>2. AisoSize \in Nat /\ Node = 1 .. AisoSize
      BY SizeNat DEF AisoInv, AisoSize, Node
    <2>3. ChainIn(link, 1 .. AisoSize) = ord /\ InOrderIn(link, 1 .. AisoSize) = ord
      BY <2>1, <2>2, ChainIsOrder, InOrderIsOrder
    <2> QED
      BY <2>2, <2>3 DEF TreeIsList, Chain, InOrder
  <1> QED
    BY <1>1, AisoInvariance, PTL

-----------------------------------------------------------------------------
(* What iterating over the list yields is what aiso.spc promises.          *)

Listed(n, values, ord) == [k \in 1 .. n |-> [found |-> ord[k], size |-> values[ord[k]]]]

\* The list of runs is the order.
LEMMA RunListIs ==
  ASSUME NEW values \in Seq(Size), NEW n, n = Len(values), NEW links, NEW ord, NEW pos, NEW lo, NEW hi,
         Woven(n, values, links, ord, pos, lo, hi)
  PROVE  /\ n \in Nat
         /\ [k \in DOMAIN ChainIn(links, 1 .. n) |->
               [found |-> ChainIn(links, 1 .. n)[k], size |-> values[ChainIn(links, 1 .. n)[k]]]]
            = Listed(n, values, ord)
  <1>1. n \in Nat
    BY SizeNat
  <1>2. ChainIn(links, 1 .. n) = ord
    BY <1>1, ChainIsOrder
  <1>3. DOMAIN ord = 1 .. n
    BY DEF Woven, InOrd
  <1> QED
    BY <1>1, <1>2, <1>3 DEF Listed

\* R2 is the list R of n runs with the next one, of this size, behind the first t.
HasInserted(n, t, size, R, R2) ==
  /\ Len(R) = n
  /\ R2 = SubSeq(R, 1, t) \o <<[found |-> n + 1, size |-> size]>> \o SubSeq(R, t + 1, n)

\* The list with a new run.
LEMMA ListedWithNew ==
  ASSUME NEW values \in Seq(Size), NEW size \in Size, NEW n, n = Len(values), NEW t \in 0 .. n,
         NEW ord \in [1 .. n -> 1 .. n], NEW ord2 \in [1 .. n + 1 -> 1 .. n + 1],
         IsWithNew(n, t, ord, ord2),
         NEW values2, values2 = Append(values, size)
  PROVE  HasInserted(n, t, size, Listed(n, values, ord), Listed(n + 1, values2, ord2))
  <1> DEFINE S == [found : Nat, size : Nat]
             x == [found |-> n + 1, size |-> size]
  <1>1. n \in Nat /\ size \in Nat
    BY SizeNat
  <1>2. /\ values2[n + 1] = size
        /\ \A k \in 1 .. n : values2[k] = values[k] /\ values[k] \in Nat
    <2>1. \A k \in 1 .. n : values[k] \in Nat
      BY SizeNat
    <2> QED
      BY <1>1, <2>1
  <1>3. PICK R, R2 : R = Listed(n, values, ord) /\ R2 = Listed(n + 1, values2, ord2)
    OBVIOUS
  <1>4. \A k \in 1 .. n : R[k] = [found |-> ord[k], size |-> values[ord[k]]] /\ R[k] \in S
    <2>1. \A k \in 1 .. n : ord[k] \in 1 .. n /\ ord[k] \in Nat
      OBVIOUS
    <2> QED
      BY <1>2, <1>3, <2>1 DEF Listed
  <1>5. \A k \in 1 .. n + 1 : R2[k] = [found |-> ord2[k], size |-> values2[ord2[k]]]
    BY <1>3 DEF Listed
  <1>6. R \in Seq(S) /\ Len(R) = n
    <2>1. R \in [1 .. n -> S]
      BY <1>3, <1>4 DEF Listed
    <2> HIDE DEF S
    <2> QED
      BY <1>1, <2>1, AsSeq
  <1>7. x \in S
    BY <1>1
  <1> HIDE DEF S, x
  <1>8. PICK A, C : A = SubSeq(R, 1, t) /\ C = SubSeq(R, t + 1, n)
    OBVIOUS
  <1>9. A \in Seq(S) /\ Len(A) = t /\ \A k \in 1 .. t : A[k] = R[k]
    <2>0. \A k \in 1 .. t : k \in 1 .. n
      BY <1>1
    <2>1. \A k \in 1 .. t : R[k] \in S
      BY <1>4, <2>0
    <2>2. 1 \in Int /\ t \in Int
      BY <1>1
    <2>3. /\ A \in Seq(S) /\ Len(A) = IF 1 <= t THEN t - 1 + 1 ELSE 0
          /\ \A k \in 1 .. t - 1 + 1 : A[k] = R[1 + k - 1]
      BY <1>8, <2>1, <2>2, SubSeqProperties
    <2>4. t - 1 + 1 = t /\ \A k \in 1 .. t : 1 + k - 1 = k
      BY <1>1
    <2>5. Len(A) = t
      BY <1>1, <2>3
    <2> QED
      BY <2>3, <2>4, <2>5
  <1>10. C \in Seq(S) /\ Len(C) = n - t /\ \A k \in 1 .. n - t : C[k] = R[t + k]
    <2>0. \A k \in t + 1 .. n : k \in 1 .. n
      BY <1>1
    <2>1. \A k \in t + 1 .. n : R[k] \in S
      BY <1>4, <2>0
    <2>2. t + 1 \in Int /\ n \in Int
      BY <1>1
    <2>3. /\ C \in Seq(S) /\ Len(C) = IF t + 1 <= n THEN n - (t + 1) + 1 ELSE 0
          /\ \A k \in 1 .. n - (t + 1) + 1 : C[k] = R[(t + 1) + k - 1]
      BY <1>8, <2>1, <2>2, SubSeqProperties
    <2>4. n - (t + 1) + 1 = n - t /\ \A k \in 1 .. n - t : (t + 1) + k - 1 = t + k
      BY <1>1
    <2>5. Len(C) = n - t
      BY <1>1, <2>3
    <2> QED
      BY <2>3, <2>4, <2>5
  <1>11. <<x>> \in Seq(S) /\ Len(<<x>>) = 1 /\ <<x>>[1] = x
    BY <1>7
  <1>12. PICK B : B = A \o <<x>>
    OBVIOUS
  <1>13. B \in Seq(S) /\ Len(B) = t + 1 /\ B[t + 1] = x /\ \A k \in 1 .. t : B[k] = R[k]
    <2>1. /\ B \in Seq(S) /\ Len(B) = Len(A) + Len(<<x>>)
          /\ \A k \in 1 .. Len(A) + Len(<<x>>) :
               B[k] = IF k <= Len(A) THEN A[k] ELSE <<x>>[k - Len(A)]
      BY <1>9, <1>11, <1>12, ConcatProperties
    <2>2. \A k \in 1 .. t + 1 : B[k] = IF k <= t THEN A[k] ELSE <<x>>[k - t]
      BY <1>9, <1>11, <2>1
    <2>3. t + 1 \in 1 .. t + 1 /\ ~ (t + 1 <= t) /\ (t + 1) - t = 1
      BY <1>1
    <2>4. B[t + 1] = x
      BY <1>11, <2>2, <2>3
    <2>5. \A k \in 1 .. t : k \in 1 .. t + 1 /\ k <= t
      BY <1>1
    <2>6. \A k \in 1 .. t : B[k] = R[k]
      BY <1>9, <2>2, <2>5
    <2> QED
      BY <1>9, <1>11, <2>1, <2>4, <2>6
  <1>14. PICK D : D = B \o C
    OBVIOUS
  <1>15. /\ D \in Seq(S) /\ Len(D) = n + 1
         /\ \A k \in 1 .. n + 1 : D[k] = IF k <= t + 1 THEN B[k] ELSE C[k - (t + 1)]
    <2>1. /\ D \in Seq(S) /\ Len(D) = Len(B) + Len(C)
          /\ \A k \in 1 .. Len(B) + Len(C) :
               D[k] = IF k <= Len(B) THEN B[k] ELSE C[k - Len(B)]
      BY <1>10, <1>13, <1>14, ConcatProperties
    <2>2. Len(B) + Len(C) = n + 1
      BY <1>1, <1>10, <1>13
    <2> QED
      BY <1>13, <2>1, <2>2
  <1>16. ASSUME NEW k \in 1 .. n + 1
         PROVE  R2[k] = D[k]
    <2>1. CASE k <= t
      <3>1. k \in 1 .. t /\ k <= t + 1 /\ k \in 1 .. n
        BY <1>1, <2>1
      <3>2. ord2[k] = ord[k] /\ ord[k] \in 1 .. n
        BY <3>1 DEF IsWithNew
      <3>3. D[k] = R[k]
        BY <1>13, <1>15, <3>1
      <3>4. R2[k] = [found |-> ord[k], size |-> values[ord[k]]]
        BY <1>2, <1>5, <3>2
      <3> QED
        BY <1>4, <3>1, <3>3, <3>4
    <2>2. CASE k = t + 1
      <3>1. ord2[k] = n + 1
        BY <2>2 DEF IsWithNew
      <3>2. R2[k] = x
        BY <1>2, <1>5, <3>1 DEF x
      <3>3. k <= t + 1
        BY <1>1, <2>2
      <3> QED
        BY <1>13, <1>15, <2>2, <3>2, <3>3
    <2>3. CASE k > t + 1
      <3>1. k - 1 \in t + 1 .. n /\ k - 1 \in 1 .. n /\ (k - 1) + 1 = k /\ ~ (k <= t + 1)
            /\ k - (t + 1) \in 1 .. n - t /\ t + (k - (t + 1)) = k - 1
        BY <1>1, <2>3
      <3>2. ord2[k] = ord[k - 1] /\ ord[k - 1] \in 1 .. n
        BY <3>1 DEF IsWithNew
      <3>3. C[k - (t + 1)] = R[k - 1]
        BY <1>10, <3>1
      <3>4. D[k] = R[k - 1]
        BY <1>15, <3>1, <3>3
      <3>5. R2[k] = [found |-> ord[k - 1], size |-> values[ord[k - 1]]]
        BY <1>2, <1>5, <3>2
      <3> QED
        BY <1>4, <3>1, <3>4, <3>5
    <2>4. k <= t \/ k = t + 1 \/ k > t + 1
      BY <1>1
    <2> QED
      BY <2>1, <2>2, <2>3, <2>4
  <1>17. R2 = D
    <2>1. R2 = [k \in 1 .. n + 1 |-> R2[k]]
      BY <1>3 DEF Listed
    <2>2. DOMAIN D = 1 .. n + 1
      BY <1>1, <1>15, LenProperties
    <2>3. D = [k \in 1 .. n + 1 |-> D[k]]
      <3>1. D = [k \in DOMAIN D |-> D[k]]
        BY <1>15, LenProperties
      <3> QED
        BY <2>2, <3>1
    <2> QED
      BY <1>16, <2>1, <2>3
  <1> QED
    BY <1>3, <1>6, <1>8, <1>12, <1>14, <1>17 DEF x, HasInserted

\* The list of runs, as it is and after a step, is that of the order.
LEMMA RunListNow ==
  ASSUME AisoInv,
         NEW ord, NEW pos, NEW lo, NEW hi, Woven(AisoSize, value, link, ord, pos, lo, hi)
  PROVE  RunList = Listed(AisoSize, value, ord) /\ AisoSize \in Nat
  <1>1. value \in Seq(Size) /\ AisoSize = Len(value)
    BY DEF AisoInv, AisoSize
  <1>2. AisoSize \in Nat /\ Node = 1 .. AisoSize
    BY <1>1, SizeNat DEF Node
  <1> QED
    BY <1>1, <1>2, RunListIs DEF RunList, Chain

\* The same of the next state.
LEMMA RunListNext ==
  ASSUME value' \in Seq(Size), NEW n, n = Len(value'),
         NEW ord, NEW pos, NEW lo, NEW hi, Woven(n, value', link', ord, pos, lo, hi)
  PROVE  RunList' = Listed(n, value', ord) /\ AisoSize' = n
  <1>1. PICK values, links : values = value' /\ links = link'
    OBVIOUS
  <1>2. values \in Seq(Size) /\ n = Len(values) /\ Woven(n, values, links, ord, pos, lo, hi)
    BY <1>1
  <1>3. n \in Nat /\ DOMAIN values = 1 .. n
    BY <1>2, SizeNat
  <1>4. RunList' = [k \in DOMAIN ChainIn(links, 1 .. n) |->
               [found |-> ChainIn(links, 1 .. n)[k], size |-> values[ChainIn(links, 1 .. n)[k]]]]
    BY <1>1, <1>3 DEF RunList, Chain, Node
  <1>5. RunList' = Listed(n, values, ord)
    BY <1>2, <1>4, RunListIs
  <1> QED
    BY <1>1, <1>5 DEF AisoSize

\* Walking down and rotating do not change the list of runs.
LEMMA RunListStays ==
  ASSUME AisoInv, EnterInsert \/ InsertFails \/ Down \/ Rotate \/ UNCHANGED aisoVars
  PROVE  UNCHANGED <<RunList, AisoSize>>
  <1>1. value' = value
    BY DEF EnterInsert, InsertFails, Down, Rotate, aisoVars
  <1>2. CASE link' = link
    BY <1>1, <1>2 DEF RunList, Chain, Node, AisoSize
  <1>3. CASE Rotate
    <2>1. PICK ord, pos, lo, hi, lo2, hi2 :
            /\ Woven(AisoSize, value, link, ord, pos, lo, hi)
            /\ Woven(AisoSize', value', link', ord, pos, lo2, hi2)
      BY <1>3, RotateStep DEF SameOrder
    <2>2. RunList = Listed(AisoSize, value, ord)
      BY <2>1, RunListNow
    <2>3. AisoSize' = Len(value') /\ AisoSize' = AisoSize
      BY <1>1 DEF AisoSize
    <2>4. value' \in Seq(Size)
      BY <1>1 DEF AisoInv
    <2>5. RunList' = Listed(AisoSize', value', ord)
      BY <2>1, <2>3, <2>4, RunListNext
    <2> QED
      BY <1>1, <2>2, <2>3, <2>5
  <1> QED
    BY <1>2, <1>3 DEF EnterInsert, InsertFails, Down, aisoVars

\* Linking a run in inserts it behind all runs that are not smaller.
LEMMA RunInserted ==
  ASSUME AisoInv, LinkNode
  PROVE  RunsSorted!Insert
  <1>1. v # 0 /\ value' = Append(value, v)
    BY DEF LinkNode
  <1>2. value \in Seq(Size) /\ v \in Size /\ AisoSize = Len(value) /\ value' \in Seq(Size)
    BY <1>1 DEF AisoInv, AisoSize
  <1>3. PICK ord, pos, lo, hi, t, ord2, pos2, lo2, hi2 :
          /\ Woven(AisoSize, value, link, ord, pos, lo, hi)
          /\ Belongs(v, t, AisoSize, value, ord)
          /\ IsWithNew(AisoSize, t, ord, ord2)
          /\ Woven(AisoSize + 1, value', link', ord2, pos2, lo2, hi2)
    BY LinkStep
  <1>4. PICK n, size, values2, R : n = AisoSize /\ size = v /\ values2 = value'
                                   /\ R = Listed(n, value, ord)
    OBVIOUS
  <1>5. RunList = R /\ n \in Nat /\ t \in 0 .. n
    BY <1>3, <1>4, RunListNow DEF Belongs
  <1>6. n + 1 = Len(value')
    BY <1>1, <1>2, <1>4
  <1>7. RunList' = Listed(n + 1, values2, ord2) /\ AisoSize' = n + 1
    BY <1>2, <1>3, <1>4, <1>6, RunListNext
  <1>8. ord \in [1 .. n -> 1 .. n] /\ ord2 \in [1 .. n + 1 -> 1 .. n + 1]
    BY <1>3, <1>4 DEF Woven, InOrd
  <1>9. /\ Len(R) = n
        /\ Listed(n + 1, values2, ord2)
           = SubSeq(R, 1, t) \o <<[found |-> n + 1, size |-> size]>> \o SubSeq(R, t + 1, n)
    <2>1. IsWithNew(n, t, ord, ord2) /\ values2 = Append(value, size) /\ size \in Size
          /\ n = Len(value)
      BY <1>1, <1>2, <1>3, <1>4
    <2>2. PICK values : values = value
      OBVIOUS
    <2>3. values \in Seq(Size) /\ n = Len(values) /\ values2 = Append(values, size)
          /\ IsWithNew(n, t, ord, ord2) /\ size \in Size /\ t \in 0 .. n
      BY <1>2, <1>5, <2>1, <2>2
    <2>4. HasInserted(n, t, size, Listed(n, values, ord), Listed(n + 1, values2, ord2))
      BY <1>8, <2>3, ListedWithNew
    <2> QED
      BY <1>4, <2>2, <2>4 DEF HasInserted
  <1>10. \A k \in 1 .. n : R[k].size = value[ord[k]]
    BY <1>4 DEF Listed
  <1>11. \A k \in 1 .. t : R[k].size >= size
    <2>1. \A k \in 1 .. t : k \in 1 .. n /\ value[ord[k]] >= size
      BY <1>3, <1>4, <1>5 DEF Belongs
    <2> QED
      BY <1>10, <2>1
  <1>12. \A k \in t + 1 .. n : R[k].size < size
    <2>1. \A k \in t + 1 .. n : k \in 1 .. n /\ value[ord[k]] < size
      BY <1>3, <1>4, <1>5 DEF Belongs
    <2> QED
      BY <1>10, <2>1
  <1>13. /\ size \in Size /\ t \in 0 .. Len(RunList)
         /\ \A i \in 1 .. t : RunList[i].size >= size
         /\ \A i \in t + 1 .. Len(RunList) : RunList[i].size < size
         /\ AisoSize' = AisoSize + 1
         /\ RunList' = SubSeq(RunList, 1, t) \o <<[found |-> AisoSize', size |-> size]>>
                         \o SubSeq(RunList, t + 1, Len(RunList))
    BY <1>2, <1>4, <1>5, <1>7, <1>9, <1>11, <1>12
  <1> QED
    BY <1>13 DEF RunsSorted!Insert

\* Whatever the tree does, what iterating over the list yields is what aiso.spc
\* promises: each run in its proper place (aiso.spc:41), and in the order of
\* finding among runs of the same size.
THEOREM ListStaysSorted == AisoSpec => SortedSpec
  <1>1. AisoInit => RunsSorted!Init
    <2> SUFFICES ASSUME AisoInit PROVE RunsSorted!Init
      OBVIOUS
    <2>1. value = <<>> /\ link[List] = 0
      BY DEF AisoInit, Places
    <2>2. Chain = <<>> /\ AisoSize = 0
      BY <2>1 DEF Chain, ChainIn, AisoSize
    <2>3. RunList = <<>>
      BY <2>2 DEF RunList
    <2> QED
      BY <2>2, <2>3 DEF RunsSorted!Init
  <1>2. AisoInv /\ [AisoNext]_aisoVars => [RunsSorted!Insert]_<<RunList, AisoSize>>
    <2> SUFFICES ASSUME AisoInv, [AisoNext]_aisoVars
                 PROVE  [RunsSorted!Insert]_<<RunList, AisoSize>>
      OBVIOUS
    <2>1. CASE LinkNode
      BY <2>1, RunInserted
    <2>2. CASE EnterInsert \/ InsertFails \/ Down \/ Rotate \/ UNCHANGED aisoVars
      BY <2>2, RunListStays
    <2> QED
      BY <2>1, <2>2 DEF AisoNext
  <1> QED
    BY <1>1, <1>2, AisoInvariance, PTL DEF AisoSpec, SortedSpec, RunsSorted!Spec
====
