-------------------------- MODULE CommandLineProofs --------------------------
(***************************************************************************)
(* Proofs about SIM's command line: for any options, spelled in any way,   *)
(* any files and any lines on standard input, what was meant is what is    *)
(* read, and what is refused is exactly what is no proper use.             *)
(***************************************************************************)
EXTENDS CommandLine, WellFoundedInduction, NaturalsInduction, SequenceTheorems, FiniteSetTheorems,
        TLAPS

-----------------------------------------------------------------------------
(* The invariant.                                                          *)

\* The symbols of arguments.
Symbols == STRING \cup {"-", NL}
Texts == Seq(Seq(Symbols))

\* What the value of l is after m options.
ValueAfter(opts, l, m) ==
  LET Ones == {j \in 1 .. m : opts[j].letter = l}
  IN IF Ones = {} THEN NoValue ELSE opts[Max(Ones)].value

\* The first m options have been read.
ReadUpTo(opts, m) ==
  /\ set = {opts[j].letter : j \in 1 .. m}
  /\ set \subseteq Known
  /\ \A l \in WithValue : value[l] = ValueAfter(opts, l, m)

\* The arguments still to be read spell the options still to be read.
Parsing ==
  \E joined, apart \in SUBSET (1 .. Len(meant.opts)), m \in 0 .. Len(meant.opts) :
    /\ argv = Spelling(meant.opts, joined, apart)[m + 1] \o meant.files
    /\ ReadUpTo(meant.opts, m)

\* The letters of the options that were meant; only empty names were given.
Letters(m) == {m.opts[k].letter : k \in DOMAIN m.opts}
Nameless(m) == \A k \in DOMAIN m.lines : m.lines[k] = <<>>

Exclusive == {"d", "n", "p", "P", "T"}
Fits(letters) == /\ \A l, m \in letters \cap Exclusive : l = m
                 /\ "t" \in letters => letters \cap {"p", "P"} # {}

Presumed(letters) ==
  letters \cup (IF letters \cap {"p", "P"} # {} THEN {"p", "e", "s"} ELSE {})

\* No lines, or none that lacks its newline.
InputProper ==
  meant.files = <<>> /\ (meant.ended \/ Nameless(meant) \/ Last(meant.lines) = <<>>)

Later == {"values", "output", "input", "recurse", "scan", "work"}

\* What has been found out when control is at pc.
Passed ==
  /\ Letters(meant) \subseteq Known /\ Fits(Letters(meant)) /\ "v" \notin Letters(meant)
  /\ set = Presumed(Letters(meant))
  /\ pc # "values" => ~BadValue
  /\ pc \notin {"values", "output"} => (Given("o") => CanOpen)
  /\ pc \in {"values", "output", "input"} => argv = meant.files
  /\ pc \notin {"values", "output", "input"} => ("i" \in Letters(meant) => InputProper)

ValuesMeant == \A l \in WithValue : value[l] = ValueAfter(meant.opts, l, Len(meant.opts))

CmdInv ==
  /\ meant.opts \in Options /\ meant.files \in Arguments /\ meant.lines \in Inputs
  /\ meant.ended \in BOOLEAN
  /\ value \in [WithValue -> Seq(Symbols)]
  /\ pc \in {"options", "check", "exit"} \cup Later
  /\ pc # "scan" => ~Scanning
  /\ pc \in {"options", "check", "values", "output"} => tree \in Trees
  /\ pc = "options" => Parsing
  /\ pc = "check" => ReadUpTo(meant.opts, Len(meant.opts)) /\ argv = meant.files
  /\ pc \in Later => Passed
  /\ pc \in Later => ValuesMeant
  /\ pc # "exit" => work = "none"
  /\ pc = "exit" => WorkFits

-----------------------------------------------------------------------------
(* Numbers and sequences.                                                  *)

\* Numbers have a smallest one.
LEMMA SmallestIn ==
  ASSUME NEW T, T \subseteq Nat, T # {}
  PROVE  \E x \in T : \A y \in T : x <= y
  <1>1. IsWellFoundedOn(OpToRel(<, Nat), Nat)
    BY NatLessThanWellFounded
  <1>2. \E x \in T : \A y \in T : ~ (<<y, x>> \in OpToRel(<, Nat))
    BY <1>1, WFMin
  <1>3. PICK x \in T : \A y \in T : ~ (<<y, x>> \in OpToRel(<, Nat))
    BY <1>2
  <1>4. \A y \in T : ~ (y < x)
    <2> SUFFICES ASSUME NEW y \in T, y < x PROVE FALSE
      OBVIOUS
    <2>1. <<y, x>> \in OpToRel(<, Nat)
      BY DEF OpToRel
    <2> QED
      BY <2>1, <1>3
  <1> QED
    BY <1>4

\* Numbers up to n have a largest one.
LEMMA LargestUpTo ==
  ASSUME NEW T, NEW n \in Nat, T \subseteq 0 .. n, T # {}
  PROVE  \E x \in T : \A y \in T : y <= x
  <1> DEFINE U == {k \in Nat : \E x \in T : k = n - x}
  <1>1. \A x \in T : x \in 0 .. n /\ n - x \in U
    OBVIOUS
  <1>2. U \subseteq Nat /\ U # {}
    BY <1>1
  <1>3. PICK u \in U : \A y \in U : u <= y
    BY <1>2, SmallestIn
  <1>4. PICK x \in T : u = n - x
    BY <1>3
  <1>5. \A y \in T : n - x <= n - y
    BY <1>1, <1>3, <1>4
  <1> QED
    BY <1>1, <1>4, <1>5

\* What holds of 0, and of the next number if of one, holds of all.
LEMMA Upwards ==
  ASSUME NEW G, 0 \in G, \A m \in Nat : m \in G => m + 1 \in G
  PROVE  Nat \subseteq G
  <1> DEFINE T == Nat \ G
  <1>1. ASSUME NEW x \in T, \A y \in T : x <= y PROVE FALSE
    <2>1. x # 0 /\ x - 1 \in Nat /\ (x - 1) + 1 = x
      OBVIOUS
    <2>2. x - 1 \in G
      BY <1>1, <2>1
    <2> QED
      BY <2>1, <2>2
  <1>2. T \subseteq Nat
    OBVIOUS
  <1>3. T = {}
    <2> HIDE DEF T
    <2> QED
      BY <1>1, <1>2, SmallestIn
  <1> QED
    BY <1>3

\* A pair is a sequence.
LEMMA Pair ==
  ASSUME NEW S, NEW x \in S, NEW y \in S
  PROVE  /\ <<x, y>> \in Seq(S) /\ Len(<<x, y>>) = 2
         /\ <<x, y>>[1] = x /\ <<x, y>>[2] = y
  OBVIOUS

\* What is known of z before Q.
OneBefore(S, z, Q) ==
  /\ <<z>> \o Q \in Seq(S) /\ Len(<<z>> \o Q) = Len(Q) + 1 /\ <<z>> \o Q # <<>>
  /\ (<<z>> \o Q)[1] = z /\ Tail(<<z>> \o Q) = Q
  /\ \A i \in 1 .. Len(Q) : (<<z>> \o Q)[i + 1] = Q[i]

\* An element before a sequence.
LEMMA HeadAndRest ==
  ASSUME NEW S, NEW z \in S, NEW Q \in Seq(S)
  PROVE  OneBefore(S, z, Q)
  <1> SUFFICES
         /\ <<z>> \o Q \in Seq(S) /\ Len(<<z>> \o Q) = Len(Q) + 1 /\ <<z>> \o Q # <<>>
         /\ (<<z>> \o Q)[1] = z /\ Tail(<<z>> \o Q) = Q
         /\ \A i \in 1 .. Len(Q) : (<<z>> \o Q)[i + 1] = Q[i]
    BY DEF OneBefore
  <1>1. <<z>> \in Seq(S) /\ Len(<<z>>) = 1 /\ <<z>>[1] = z
    OBVIOUS
  <1>2. Len(Q) \in Nat
    BY LenProperties
  <1>3. PICK C : C = <<z>> \o Q
    OBVIOUS
  <1>4. /\ C \in Seq(S) /\ Len(C) = 1 + Len(Q)
        /\ \A i \in 1 .. 1 + Len(Q) : C[i] = IF i <= 1 THEN <<z>>[i] ELSE Q[i - 1]
    BY <1>1, <1>3, ConcatProperties
  <1>5. C[1] = z /\ \A i \in 1 .. Len(Q) : C[i + 1] = Q[i]
    BY <1>1, <1>2, <1>4
  <1>6. C # <<>>
    BY <1>2, <1>4
  <1>7. Tail(C) = Q
    <2>1. /\ Tail(C) \in Seq(S) /\ Len(Tail(C)) = Len(C) - 1
          /\ \A i \in 1 .. Len(Tail(C)) : Tail(C)[i] = C[i + 1]
      BY <1>4, <1>6, HeadTailProperties
    <2>2. Len(Tail(C)) = Len(Q) /\ \A i \in 1 .. Len(Tail(C)) : Tail(C)[i] = Q[i]
      BY <1>2, <1>4, <1>5, <2>1
    <2> QED
      BY <2>1, <2>2, SeqEqual
  <1>8. Len(C) = Len(Q) + 1
    BY <1>2, <1>4
  <1> QED
    BY <1>3, <1>4, <1>5, <1>6, <1>7, <1>8

\* What is known of x and y before R.
TwoBefore(S, x, y, R) ==
  /\ <<x, y>> \o R \in Seq(S) /\ Len(<<x, y>> \o R) = Len(R) + 2 /\ <<x, y>> \o R # <<>>
  /\ (<<x, y>> \o R)[1] = x /\ (<<x, y>> \o R)[2] = y
  /\ Tail(<<x, y>> \o R) = <<y>> \o R /\ <<x>> \o (<<y>> \o R) = <<x, y>> \o R

\* Two elements before a sequence.
LEMMA Prefixed ==
  ASSUME NEW S, NEW x \in S, NEW y \in S, NEW R \in Seq(S)
  PROVE  TwoBefore(S, x, y, R)
  <1>1. <<x>> \in Seq(S) /\ Len(<<x>>) = 1 /\ <<y>> \in Seq(S) /\ Len(<<y>>) = 1
    OBVIOUS
  <1>2. <<x, y>> = <<x>> \o <<y>>
    <2>1. <<x, y>> \in Seq(S) /\ Len(<<x, y>>) = 2 /\ <<x, y>>[1] = x /\ <<x, y>>[2] = y
      OBVIOUS
    <2>2. <<x>>[1] = x /\ <<y>>[1] = y
      OBVIOUS
    <2>3. PICK D : D = <<x>> \o <<y>>
      OBVIOUS
    <2>4. /\ D \in Seq(S) /\ Len(D) = Len(<<x>>) + Len(<<y>>)
          /\ \A i \in 1 .. Len(<<x>>) + Len(<<y>>) :
               D[i] = IF i <= Len(<<x>>) THEN <<x>>[i] ELSE <<y>>[i - Len(<<x>>)]
      BY <1>1, <2>3, ConcatProperties
    <2>5. Len(D) = 2 /\ D[1] = x /\ D[2] = y
      BY <1>1, <2>2, <2>4
    <2>6. \A i \in 1 .. 2 : i = 1 \/ i = 2
      OBVIOUS
    <2>7. \A i \in 1 .. Len(D) : D[i] = <<x, y>>[i]
      BY <2>1, <2>5, <2>6
    <2> QED
      BY <2>1, <2>3, <2>4, <2>5, <2>7, SeqEqual
  <1>3. ASSUME NEW z \in S, NEW Q \in Seq(S)
        PROVE  /\ <<z>> \o Q \in Seq(S) /\ Len(<<z>> \o Q) = Len(Q) + 1 /\ <<z>> \o Q # <<>>
               /\ (<<z>> \o Q)[1] = z /\ Tail(<<z>> \o Q) = Q
               /\ \A i \in 1 .. Len(Q) : (<<z>> \o Q)[i + 1] = Q[i]
    BY HeadAndRest DEF OneBefore
  <1>4. PICK Y : Y = <<y>> \o R
    OBVIOUS
  <1>5. Y \in Seq(S) /\ Len(Y) = Len(R) + 1 /\ Y[1] = y
    BY <1>3, <1>4
  <1>6. <<x>> \o Y = <<x, y>> \o R
    BY <1>1, <1>2, <1>4, ConcatAssociative
  <1>7. Len(R) \in Nat
    BY LenProperties
  <1>8. /\ <<x>> \o Y \in Seq(S) /\ Len(<<x>> \o Y) = Len(Y) + 1 /\ <<x>> \o Y # <<>>
        /\ (<<x>> \o Y)[1] = x /\ Tail(<<x>> \o Y) = Y
        /\ (<<x>> \o Y)[2] = y
    <2>1. 1 \in 1 .. Len(Y)
      BY <1>5, <1>7
    <2>2. (<<x>> \o Y)[1 + 1] = Y[1]
      BY <1>3, <1>5, <2>1
    <2> QED
      BY <1>3, <1>5, <2>2
  <1>9. Len(<<x, y>> \o R) = Len(R) + 2
    BY <1>5, <1>6, <1>7, <1>8
  <1> QED
    BY <1>3, <1>4, <1>5, <1>6, <1>8, <1>9 DEF TwoBefore

-----------------------------------------------------------------------------
(* How options are spelled.                                                *)

\* What the recursion of Spelling asks of a function.
SpellStep(f, opts, joined, apart, k) ==
  IF k = Len(opts) + 1 THEN <<>>
  ELSE LET letter == <<"-", opts[k].letter>>
           rest == f[k + 1]
       IN IF opts[k].value # NoValue
            THEN (IF k \in apart THEN <<letter, opts[k].value>>
                                 ELSE <<letter \o opts[k].value>>) \o rest
          ELSE IF k # Len(opts) /\ k + 1 \in joined
            THEN <<letter \o Tail(Head(rest))>> \o Tail(rest)
          ELSE <<letter>> \o rest

SpelledBy(f, opts, joined, apart) ==
  f = [k \in 1 .. Len(opts) + 1 |-> SpellStep(f, opts, joined, apart, k)]

\* There is such a function: one for the later options has a value for the one
\* before.
LEMMA SpellingExists ==
  ASSUME NEW opts, NEW n \in Nat, n = Len(opts), NEW joined, NEW apart
  PROVE  \E f : SpelledBy(f, opts, joined, apart)
  <1> DEFINE From(m) == n + 1 - m .. n + 1
             Has(m) == \E f : f = [k \in From(m) |-> SpellStep(f, opts, joined, apart, k)]
             G == {m \in Nat : Has(m)}
  <1>1. 0 \in G
    <2> DEFINE f == [k \in n + 1 .. n + 1 |-> <<>>]
    <2>1. From(0) = n + 1 .. n + 1
      OBVIOUS
    <2>2. \A k \in From(0) : SpellStep(f, opts, joined, apart, k) = <<>>
      BY <2>1 DEF SpellStep
    <2>3. f = [k \in From(0) |-> SpellStep(f, opts, joined, apart, k)]
      BY <2>1, <2>2
    <2> QED
      BY <2>3
  <1>2. ASSUME NEW m \in Nat, m \in G
        PROVE  m + 1 \in G
    <2>1. PICK f : f = [k \in From(m) |-> SpellStep(f, opts, joined, apart, k)]
      BY <1>2
    <2> DEFINE j == n + 1 - (m + 1)
               g == [k \in From(m + 1) |->
                       IF k = j THEN SpellStep(f, opts, joined, apart, j) ELSE f[k]]
    <2>2. \A k \in From(m + 1) : k = j \/ k \in From(m)
      OBVIOUS
    <2>3. \A k \in From(m + 1) : k # n + 1 => k + 1 \in From(m)
      OBVIOUS
    <2>4. \A k \in From(m) : k \in From(m + 1) /\ k # j
      OBVIOUS
    <2>5. \A k \in From(m) : g[k] = f[k]
      BY <2>4
    <2>6. g[j] = SpellStep(f, opts, joined, apart, j)
      OBVIOUS
    <2>7. \A k \in From(m) : f[k] = SpellStep(f, opts, joined, apart, k)
      BY <2>1
    <2>8. g = [k \in From(m + 1) |-> g[k]]
      OBVIOUS
    <2> HIDE DEF g
    <2>9. \A k \in From(m + 1) :
            SpellStep(g, opts, joined, apart, k) = SpellStep(f, opts, joined, apart, k)
      BY <2>3, <2>5 DEF SpellStep
    <2>10. \A k \in From(m + 1) : g[k] = SpellStep(g, opts, joined, apart, k)
      BY <2>2, <2>5, <2>6, <2>7, <2>9
    <2>11. g = [k \in From(m + 1) |-> SpellStep(g, opts, joined, apart, k)]
      BY <2>8, <2>10
    <2> QED
      BY <2>11
  <1>3. n \in G
    <2> HIDE DEF G
    <2>1. Nat \subseteq G
      BY <1>1, <1>2, Upwards
    <2> QED
      BY <2>1
  <1>4. From(n) = 1 .. n + 1
    OBVIOUS
  <1> QED
    BY <1>3, <1>4 DEF SpelledBy

\* Spelling is one.
LEMMA SpellingIs ==
  ASSUME NEW opts \in Options, NEW joined, NEW apart, NEW f, f = Spelling(opts, joined, apart)
  PROVE  /\ Len(opts) \in Nat
         /\ \A k \in 1 .. Len(opts) + 1 : f[k] = SpellStep(f, opts, joined, apart, k)
  <1>1. Len(opts) \in Nat
    BY CommandAssumption, LenProperties
  <1> DEFINE P(g) == g = [k \in 1 .. Len(opts) + 1 |-> SpellStep(g, opts, joined, apart, k)]
  <1>2. \E g : P(g)
    <2>1. PICK n \in Nat : n = Len(opts)
      BY <1>1
    <2>2. \E g : SpelledBy(g, opts, joined, apart)
      BY <2>1, SpellingExists
    <2> QED
      BY <2>2 DEF SpelledBy
  <1>3. Spelling(opts, joined, apart) = CHOOSE g : P(g)
    BY DEF Spelling, SpellStep
  <1> HIDE DEF P
  <1>4. P(f)
    BY <1>2, <1>3
  <1> QED
    BY <1>1, <1>4 DEF P

-----------------------------------------------------------------------------
(* One argument with options.                                              *)

\* f[k] starts with arg, which holds the options k to m; the value of the last
\* one, if it has one, is the rest of arg or the next argument.
Group(opts, f, k, m, arg) ==
  LET len == m - k + 2 IN
  /\ k <= m /\ m <= Len(opts)
  /\ arg \in Seq(Symbols) /\ Len(arg) >= len /\ arg[1] = "-"
  /\ \A j \in k .. m : arg[j - k + 2] = opts[j].letter
  /\ \A j \in k .. m : j # m => opts[j].value = NoValue
  /\ \/ /\ opts[m].value = NoValue /\ Len(arg) = len
        /\ f[k] = <<arg>> \o f[m + 1]
     \/ /\ opts[m].value # NoValue /\ Len(arg) = len
        /\ f[k] = <<arg, opts[m].value>> \o f[m + 1]
     \/ /\ opts[m].value # NoValue /\ SubSeq(arg, len + 1, Len(arg)) = opts[m].value
        /\ f[k] = <<arg>> \o f[m + 1]

\* A sequence is one over any set that has its elements.
LEMMA SeqOver ==
  ASSUME NEW S, NEW T, NEW s \in Seq(S), \A i \in 1 .. Len(s) : s[i] \in T
  PROVE  s \in Seq(T)
  <1>1. PICK n \in Nat : n = Len(s)
    BY LenProperties
  <1>2. s \in [1 .. n -> S]
    BY <1>1, LenProperties
  <1>3. s \in [1 .. n -> T]
    BY <1>1, <1>2
  <1> QED
    BY <1>3, SeqDef

\* Strings are symbols.
LEMMA SymbolSeq ==
  ASSUME NEW s \in Seq(STRING)
  PROVE  s \in Seq(Symbols)
  <1>1. \A i \in 1 .. Len(s) : s[i] \in Symbols
    BY ElementOfSeq DEF Symbols
  <1> QED
    BY <1>1, SeqOver

\* What is known of an option.
LEMMA OptionTypes ==
  ASSUME NEW opts \in Options, NEW k \in 1 .. Len(opts)
  PROVE  /\ opts[k].letter \in Symbols /\ opts[k].value \in Seq(Symbols)
         /\ (opts[k].value # NoValue <=> opts[k].letter \in WithValue)
  <1>1. opts \in Seq([letter : STRING, value : Seq(STRING)])
    BY CommandAssumption
  <1>2. opts[k] \in [letter : STRING, value : Seq(STRING)] /\ k \in DOMAIN opts
    BY <1>1, ElementOfSeq, LenProperties
  <1>3. opts[k].letter \in STRING /\ opts[k].value \in Seq(STRING)
    BY <1>2
  <1>4. STRING \subseteq Symbols
    BY DEF Symbols
  <1>5. opts[k].value \in Seq(Symbols)
    BY <1>3, SymbolSeq
  <1> QED
    BY <1>2, <1>3, <1>4, <1>5, CommandAssumption

\* An argument that starts with the letter a.
OptionArg(a, rest) == <<"-", a>> \o rest

\* new holds a and what arg holds behind its "-".
Extended(new, a, arg) ==
  /\ new \in Seq(Symbols) /\ Len(new) = Len(arg) + 1 /\ new[1] = "-" /\ new[2] = a
  /\ \A i \in 2 .. Len(arg) : new[i + 1] = arg[i]

\* A letter before what another argument holds behind its "-".
LEMMA Joined ==
  ASSUME NEW a \in Symbols, NEW arg \in Seq(Symbols), Len(arg) >= 2
  PROVE  Extended(OptionArg(a, Tail(arg)), a, arg)
  <1> PICK new : new = OptionArg(a, Tail(arg))
    OBVIOUS
  <1>1. arg # <<>> /\ Len(arg) \in Nat
    BY LenProperties, EmptySeq
  <1>2. /\ Tail(arg) \in Seq(Symbols) /\ Len(Tail(arg)) = Len(arg) - 1
        /\ \A i \in 1 .. Len(Tail(arg)) : Tail(arg)[i] = arg[i + 1]
    BY <1>1, HeadTailProperties
  <1>3. /\ <<"-", a>> \in Seq(Symbols) /\ Len(<<"-", a>>) = 2
        /\ <<"-", a>>[1] = "-" /\ <<"-", a>>[2] = a
    <2>1. "-" \in Symbols
      BY DEF Symbols
    <2> QED
      BY <2>1, Pair
  <1>4. /\ new \in Seq(Symbols) /\ Len(new) = 2 + (Len(arg) - 1)
        /\ \A i \in 1 .. 2 + (Len(arg) - 1) :
             new[i] = IF i <= 2 THEN <<"-", a>>[i] ELSE Tail(arg)[i - 2]
    BY <1>2, <1>3, ConcatProperties DEF OptionArg
  <1>5. Len(new) = Len(arg) + 1 /\ new[1] = "-" /\ new[2] = a
    BY <1>1, <1>3, <1>4
  <1>6. ASSUME NEW i \in 2 .. Len(arg) PROVE new[i + 1] = arg[i]
    <2>1. new[i + 1] = Tail(arg)[i - 1]
      <3>1. i + 1 \in 1 .. 2 + (Len(arg) - 1) /\ ~ (i + 1 <= 2) /\ (i + 1) - 2 = i - 1
        BY <1>1
      <3> QED
        BY <1>4, <3>1
    <2>2. i - 1 \in 1 .. Len(Tail(arg)) /\ (i - 1) + 1 = i
      BY <1>1, <1>2
    <2> QED
      BY <1>2, <2>1, <2>2
  <1> QED
    BY <1>4, <1>5, <1>6 DEF Extended

\* A letter with its value behind it.
LEMMA WithRest ==
  ASSUME NEW a \in Symbols, NEW v \in Seq(Symbols)
  PROVE  LET new == OptionArg(a, v) IN
         /\ new \in Seq(Symbols) /\ Len(new) = 2 + Len(v) /\ new[1] = "-" /\ new[2] = a
         /\ SubSeq(new, 3, Len(new)) = v
  <1> PICK new : new = OptionArg(a, v)
    OBVIOUS
  <1>1. /\ <<"-", a>> \in Seq(Symbols) /\ Len(<<"-", a>>) = 2
        /\ <<"-", a>>[1] = "-" /\ <<"-", a>>[2] = a
    <2>1. "-" \in Symbols
      BY DEF Symbols
    <2> QED
      BY <2>1, Pair
  <1>2. Len(v) \in Nat
    BY LenProperties
  <1>3. /\ new \in Seq(Symbols) /\ Len(new) = 2 + Len(v)
        /\ \A i \in 1 .. 2 + Len(v) : new[i] = IF i <= 2 THEN <<"-", a>>[i] ELSE v[i - 2]
    BY <1>1, ConcatProperties DEF OptionArg
  <1>4. new[1] = "-" /\ new[2] = a
    BY <1>1, <1>2, <1>3
  <1>5. \A i \in 1 .. Len(v) : new[i + 2] = v[i]
    <2>1. \A i \in 1 .. Len(v) : i + 2 \in 1 .. 2 + Len(v) /\ ~ (i + 2 <= 2) /\ (i + 2) - 2 = i
      BY <1>2
    <2> QED
      BY <1>3, <2>1
  <1>6. SubSeq(new, 3, Len(new)) = v
    <2>1. PICK s : s = SubSeq(new, 3, Len(new))
      OBVIOUS
    <2>2. s \in Seq(Symbols)
      BY <1>3, <2>1, SubSeqProperties
    <2>3. Len(s) = Len(v)
      BY <1>2, <1>3, <2>1, SubSeqProperties
    <2>4. \A i \in 1 .. Len(v) : s[i] = new[i + 2]
      <3>1. \A i \in 1 .. Len(v) : s[i] = new[3 + i - 1] /\ 3 + i - 1 = i + 2
        BY <1>2, <1>3, <2>1, SubSeqProperties
      <3> QED
        BY <3>1
    <2> QED
      BY <1>5, <2>1, <2>2, <2>3, <2>4, SeqEqual
  <1> QED
    BY <1>3, <1>4, <1>6

\* Option k is joined to what follows.
JoinedAt(opts, f, k) ==
  f[k] = <<OptionArg(opts[k].letter, Tail(Head(f[k + 1])))>> \o Tail(f[k + 1])

\* What the recursion gives for an option.
SpelledAt(opts, f, k) ==
  LET a == opts[k].letter
      v == opts[k].value IN
  \/ v # NoValue /\ f[k] = <<<<"-", a>>, v>> \o f[k + 1]
  \/ v # NoValue /\ f[k] = <<OptionArg(a, v)>> \o f[k + 1]
  \/ v = NoValue /\ f[k] = <<<<"-", a>>>> \o f[k + 1]
  \/ v = NoValue /\ k < Len(opts) /\ JoinedAt(opts, f, k)

\* The recursion at an option.
LEMMA SpellOption ==
  ASSUME NEW opts, NEW joined, NEW apart, NEW f, NEW k \in 1 .. Len(opts), Len(opts) \in Nat,
         f[k] = SpellStep(f, opts, joined, apart, k)
  PROVE  SpelledAt(opts, f, k)
  <1> PICK a, v : a = opts[k].letter /\ v = opts[k].value
    OBVIOUS
  <1>1. k # Len(opts) + 1
    OBVIOUS
  <1>2. k # Len(opts) => k < Len(opts)
    OBVIOUS
  <1>3. CASE v # NoValue
    <2>1. f[k] = (IF k \in apart THEN <<<<"-", a>>, v>> ELSE <<OptionArg(a, v)>>) \o f[k + 1]
      BY <1>1, <1>3 DEF SpellStep, OptionArg
    <2> QED
      BY <1>3, <2>1 DEF SpelledAt
  <1>4. CASE v = NoValue /\ ~ (k # Len(opts) /\ k + 1 \in joined)
    <2>1. f[k] = <<<<"-", a>>>> \o f[k + 1]
      BY <1>1, <1>4 DEF SpellStep
    <2> QED
      BY <1>4, <2>1 DEF SpelledAt
  <1>5. CASE v = NoValue /\ (k # Len(opts) /\ k + 1 \in joined)
    <2>1. f[k] = <<OptionArg(a, Tail(Head(f[k + 1])))>> \o Tail(f[k + 1])
      BY <1>1, <1>5 DEF SpellStep, OptionArg
    <2> QED
      BY <1>2, <1>5, <2>1 DEF SpelledAt, JoinedAt
  <1> QED
    BY <1>3, <1>4, <1>5

\* What becomes of a sequence that starts with arg if new replaces arg.
Rejoins(T, arg, new, w, S) ==
  /\ Head(<<arg>> \o S) = arg /\ Tail(<<arg>> \o S) = S
  /\ Head(<<arg, w>> \o S) = arg /\ <<new>> \o Tail(<<arg, w>> \o S) = <<new, w>> \o S
  /\ <<new>> \o S \in Seq(T) /\ <<new, w>> \o S \in Seq(T)

\* The first element is replaced.
LEMMA Rejoining ==
  ASSUME NEW T, NEW arg \in T, NEW new \in T, NEW w \in T, NEW S \in Seq(T)
  PROVE  Rejoins(T, arg, new, w, S)
  <1>1. OneBefore(T, arg, S) /\ TwoBefore(T, arg, w, S)
    BY HeadAndRest, Prefixed
  <1>2. OneBefore(T, new, S) /\ TwoBefore(T, new, w, S)
    BY HeadAndRest, Prefixed
  <1>3. PICK A \in Seq(T) : A = <<arg>> \o S /\ A # <<>> /\ A[1] = arg
    BY <1>1 DEF OneBefore
  <1>4. PICK B \in Seq(T) : B = <<arg, w>> \o S /\ B # <<>> /\ B[1] = arg
    BY <1>1 DEF TwoBefore
  <1>5. Head(A) = arg /\ Head(B) = arg
    BY <1>3, <1>4
  <1>6. Tail(<<arg>> \o S) = S /\ Tail(<<arg, w>> \o S) = <<w>> \o S
    BY <1>1 DEF OneBefore, TwoBefore
  <1>7. /\ <<new>> \o (<<w>> \o S) = <<new, w>> \o S /\ <<new>> \o S \in Seq(T)
        /\ <<new, w>> \o S \in Seq(T)
    BY <1>2 DEF OneBefore, TwoBefore
  <1> QED
    BY <1>3, <1>4, <1>5, <1>6, <1>7 DEF Rejoins

\* What is behind a letter stays behind it.
LEMMA ShiftedRest ==
  ASSUME NEW new, NEW a, NEW arg \in Seq(Symbols), Extended(new, a, arg), NEW s \in Nat, s >= 2
  PROVE  SubSeq(new, s + 1, Len(arg) + 1) = SubSeq(arg, s, Len(arg))
  <1>1. PICK n \in Nat : n = Len(arg)
    BY LenProperties
  <1>2. \A i \in s .. n : arg[i] \in Symbols
    <2>1. \A i \in s .. n : i \in 1 .. Len(arg)
      BY <1>1
    <2> QED
      BY <2>1, ElementOfSeq
  <1>3. \A i \in s .. n : new[i + 1] = arg[i]
    BY <1>1 DEF Extended
  <1>4. \A i \in s + 1 .. n + 1 : new[i] \in Symbols
    <2>1. \A i \in s + 1 .. n + 1 : i - 1 \in s .. n /\ (i - 1) + 1 = i
      BY <1>1
    <2>2. \A i \in s + 1 .. n + 1 : new[(i - 1) + 1] = arg[i - 1] /\ arg[i - 1] \in Symbols
      BY <1>2, <1>3, <2>1
    <2> QED
      BY <2>1, <2>2
  <1>5. PICK A : A = SubSeq(arg, s, n)
    OBVIOUS
  <1>6. /\ A \in Seq(Symbols) /\ Len(A) = (IF s <= n THEN n - s + 1 ELSE 0)
        /\ \A i \in 1 .. n - s + 1 : A[i] = arg[s + i - 1]
    BY <1>2, <1>5, SubSeqProperties
  <1>7. PICK B : B = SubSeq(new, s + 1, n + 1)
    OBVIOUS
  <1>8. /\ B \in Seq(Symbols)
        /\ Len(B) = (IF s + 1 <= n + 1 THEN n + 1 - (s + 1) + 1 ELSE 0)
        /\ \A i \in 1 .. n + 1 - (s + 1) + 1 : B[i] = new[s + 1 + i - 1]
    BY <1>4, <1>7, SubSeqProperties
  <1>9. Len(A) = Len(B) /\ (s <= n => Len(A) = n - s + 1) /\ (s > n => Len(A) = 0)
    BY <1>6, <1>8
  <1>10. ASSUME NEW i \in 1 .. Len(A) PROVE A[i] = B[i]
    <2>1. s <= n /\ i \in 1 .. n - s + 1
      BY <1>9
    <2>2. /\ s + i - 1 \in s .. n /\ s + 1 + i - 1 = (s + i - 1) + 1
          /\ i \in 1 .. n + 1 - (s + 1) + 1
      BY <2>1
    <2>3. A[i] = arg[s + i - 1] /\ B[i] = new[(s + i - 1) + 1]
      BY <1>6, <1>8, <2>1, <2>2
    <2> QED
      BY <1>3, <2>2, <2>3
  <1>11. A = B
    BY <1>6, <1>8, <1>9, <1>10, SeqEqual
  <1> QED
    BY <1>1, <1>5, <1>7, <1>11

\* Places of letters.
LEMMA Distances ==
  ASSUME NEW k \in Nat, NEW m \in Nat, NEW n \in Nat, NEW d \in Nat, d = m - (k + 1)
  PROVE  m - k + 2 + 1 = d + 4 /\ (n = d + 2 => n + 1 = m - k + 2)
  OBVIOUS

\* An option that is joined to those behind it.
LEMMA GroupJoined ==
  ASSUME NEW opts \in Options, NEW f, NEW k \in Nat, k >= 1, NEW m \in Nat, NEW arg,
         Group(opts, f, k + 1, m, arg), f[k + 1] \in Texts, f[m + 1] \in Texts,
         Len(opts) \in Nat, opts[k].letter \in Symbols, opts[k].value = NoValue,
         JoinedAt(opts, f, k)
  PROVE  f[k] \in Texts /\ \E new : Group(opts, f, k, m, new)
  <1> PICK a \in Symbols : a = opts[k].letter
    OBVIOUS
  <1> PICK R : R = f[k + 1]
    OBVIOUS
  <1> PICK S : S = f[m + 1]
    OBVIOUS
  <1> PICK w : w = opts[m].value
    OBVIOUS
  <1>1. k + 1 <= m /\ m <= Len(opts) /\ arg \in Seq(Symbols) /\ Len(arg) >= m - (k + 1) + 2
    BY DEF Group
  <1>2. Len(arg) \in Nat /\ Len(arg) >= 2
    BY <1>1, LenProperties
  <1>3. PICK new : new = OptionArg(a, Tail(arg))
    OBVIOUS
  <1>4. Extended(new, a, arg)
    BY <1>1, <1>2, <1>3, Joined
  <1>5. Len(new) = Len(arg) + 1
    BY <1>4 DEF Extended
  <1>6. PICK n, d \in Nat : n = Len(arg) /\ d = m - (k + 1)
    BY <1>1, <1>2
  <1>7. /\ n >= d + 2 /\ m - k = d + 1 /\ m - k + 2 = d + 3 /\ m - (k + 1) + 2 = d + 2
        /\ k <= m
    BY <1>1, <1>6
  <1>8. ASSUME NEW j \in k .. m PROVE new[j - k + 2] = opts[j].letter
    <2>1. CASE j = k
      <3>1. j - k + 2 = 2
        BY <2>1
      <3> QED
        BY <1>4, <2>1, <3>1 DEF Extended
    <2>2. CASE j # k
      <3>1. PICK i : i = j - (k + 1) + 2
        OBVIOUS
      <3>2. j \in k + 1 .. m /\ i \in 2 .. Len(arg) /\ i + 1 = j - k + 2
        BY <1>2, <1>6, <1>7, <2>2, <3>1
      <3>3. arg[i] = opts[j].letter
        BY <3>1, <3>2 DEF Group
      <3>4. new[i + 1] = arg[i]
        BY <1>4, <3>2 DEF Extended
      <3> QED
        BY <3>2, <3>3, <3>4
    <2> QED
      BY <2>1, <2>2
  <1>9. ASSUME NEW j \in k .. m, j # m PROVE opts[j].value = NoValue
    <2>1. j = k \/ j \in k + 1 .. m
      OBVIOUS
    <2>2. j \in k + 1 .. m => opts[j].value = NoValue
      BY <1>9 DEF Group
    <2> QED
      BY <2>1, <2>2
  <1>10. w \in Seq(Symbols)
    <2>1. m \in 1 .. Len(opts)
      BY <1>1
    <2> QED
      BY <2>1, OptionTypes
  <1>11. arg # <<>>
    BY <1>2, EmptySeq
  <1>12. new \in Seq(Symbols)
    BY <1>4 DEF Extended
  <1>13. PICK T : T = Seq(Symbols)
    OBVIOUS
  <1>14. arg \in T /\ S \in Seq(T) /\ R \in Seq(T) /\ w \in T /\ new \in T
    BY <1>1, <1>10, <1>12, <1>13 DEF Texts
  <1>15. \/ w = NoValue /\ n = d + 2 /\ R = <<arg>> \o S
         \/ w # NoValue /\ n = d + 2 /\ R = <<arg, w>> \o S
         \/ w # NoValue /\ SubSeq(arg, d + 3, n) = w /\ R = <<arg>> \o S
    <2>1. d + 2 + 1 = d + 3
      BY <1>6
    <2> QED
      BY <1>6, <1>7, <2>1 DEF Group
  <1>23. Rejoins(T, arg, new, w, S)
    BY <1>14, Rejoining
  <1>16. ASSUME R = <<arg>> \o S PROVE f[k] = <<new>> \o S
    <2>1. Head(R) = arg /\ Tail(R) = S
      BY <1>16, <1>23 DEF Rejoins
    <2> QED
      BY <1>3, <2>1 DEF JoinedAt
  <1>17. ASSUME R = <<arg, w>> \o S PROVE f[k] = <<new, w>> \o S
    <2>1. Head(R) = arg /\ <<new>> \o Tail(R) = <<new, w>> \o S
      BY <1>17, <1>23 DEF Rejoins
    <2> QED
      BY <1>3, <2>1 DEF JoinedAt
  <1>18. f[k] \in Seq(T)
    <2>1. <<new>> \o S \in Seq(T) /\ <<new, w>> \o S \in Seq(T)
      BY <1>23 DEF Rejoins
    <2> QED
      BY <1>15, <1>16, <1>17, <2>1
  <1>19. ASSUME SubSeq(arg, d + 3, n) = w PROVE SubSeq(new, d + 4, n + 1) = w
    <2>1. d + 3 \in Nat /\ d + 3 >= 2 /\ (d + 3) + 1 = d + 4
      BY <1>6
    <2>2. SubSeq(new, (d + 3) + 1, Len(arg) + 1) = SubSeq(arg, d + 3, Len(arg))
      BY <1>1, <1>4, <2>1, ShiftedRest
    <2> QED
      BY <1>6, <1>19, <2>1, <2>2
  <1>20. Len(new) >= m - k + 2
    BY <1>5, <1>6, <1>7
  <1>21. \/ w = NoValue /\ Len(new) = m - k + 2 /\ f[k] = <<new>> \o f[m + 1]
         \/ w # NoValue /\ Len(new) = m - k + 2 /\ f[k] = <<new, w>> \o f[m + 1]
         \/ w # NoValue /\ SubSeq(new, m - k + 2 + 1, Len(new)) = w /\ f[k] = <<new>> \o f[m + 1]
    <2>1. m - k + 2 + 1 = d + 4 /\ (n = d + 2 => n + 1 = m - k + 2)
      BY <1>6, <1>7, Distances
    <2>2. Len(new) = n + 1
      BY <1>5, <1>6
    <2> QED
      BY <1>15, <1>16, <1>17, <1>19, <2>1, <2>2
  <1>22. new[1] = "-"
    BY <1>4 DEF Extended
  <1> QED
    BY <1>1, <1>3, <1>7, <1>8, <1>9, <1>12, <1>13, <1>18, <1>20, <1>21, <1>22 DEF Group, Texts

\* The arguments from option k on start with a group.
Grouped(opts, f, k) ==
  /\ f[k] \in Texts
  /\ k <= Len(opts) => \E m \in Nat : \E arg : Group(opts, f, k, m, arg) /\ f[m + 1] \in Texts

\* A group of one option, with its value in the next argument or without one.
LEMMA GroupOfOne ==
  ASSUME NEW opts \in Options, NEW f, NEW k \in 1 .. Len(opts), f[k + 1] \in Texts,
         NEW a \in Symbols, a = opts[k].letter, NEW v \in Seq(Symbols), v = opts[k].value,
         \/ v # NoValue /\ f[k] = <<<<"-", a>>, v>> \o f[k + 1]
         \/ v = NoValue /\ f[k] = <<<<"-", a>>>> \o f[k + 1]
  PROVE  f[k] \in Texts /\ Group(opts, f, k, k, <<"-", a>>)
  <1>1. PICK arg : arg = <<"-", a>>
    OBVIOUS
  <1>2. arg \in Seq(Symbols) /\ Len(arg) = 2 /\ arg[1] = "-" /\ arg[2] = a
    <2>1. "-" \in Symbols
      BY DEF Symbols
    <2> QED
      BY <1>1, <2>1, Pair
  <1>3. k \in Nat /\ k <= Len(opts) /\ k - k + 2 = 2 /\ \A j \in k .. k : j = k
    OBVIOUS
  <1>4. f[k] \in Texts
    <2>1. PICK T : T = Seq(Symbols)
      OBVIOUS
    <2>2. arg \in T /\ v \in T /\ f[k + 1] \in Seq(T)
      BY <1>2, <2>1 DEF Texts
    <2>3. OneBefore(T, arg, f[k + 1]) /\ TwoBefore(T, arg, v, f[k + 1])
      BY <2>2, HeadAndRest, Prefixed
    <2>4. <<arg>> \o f[k + 1] \in Seq(T) /\ <<arg, v>> \o f[k + 1] \in Seq(T)
      BY <2>3 DEF OneBefore, TwoBefore
    <2> QED
      BY <1>1, <2>1, <2>4 DEF Texts
  <1>5. Group(opts, f, k, k, arg)
    <2>1. PICK len : len = k - k + 2
      OBVIOUS
    <2>2. len = 2 /\ Len(arg) >= len /\ k <= k
      BY <1>2, <1>3, <2>1
    <2>3. \A j \in k .. k : arg[j - k + 2] = opts[j].letter
      BY <1>2, <1>3
    <2>4. \A j \in k .. k : j # k => opts[j].value = NoValue
      BY <1>3
    <2>5. \/ /\ opts[k].value = NoValue /\ Len(arg) = len
             /\ f[k] = <<arg>> \o f[k + 1]
          \/ /\ opts[k].value # NoValue /\ Len(arg) = len
             /\ f[k] = <<arg, opts[k].value>> \o f[k + 1]
      BY <1>1, <1>2, <2>2
    <2> QED
      BY <1>2, <1>3, <2>1, <2>2, <2>3, <2>4, <2>5, Zenon DEF Group
  <1> QED
    BY <1>1, <1>4, <1>5

\* A group of one option with its value in the same argument.
LEMMA GroupWithRest ==
  ASSUME NEW opts \in Options, NEW f, NEW k \in 1 .. Len(opts), f[k + 1] \in Texts,
         NEW a \in Symbols, a = opts[k].letter, NEW v \in Seq(Symbols), v = opts[k].value,
         v # NoValue, f[k] = <<OptionArg(a, v)>> \o f[k + 1]
  PROVE  f[k] \in Texts /\ Group(opts, f, k, k, OptionArg(a, v))
  <1>1. PICK arg : arg = OptionArg(a, v)
    OBVIOUS
  <1>2. /\ arg \in Seq(Symbols) /\ Len(arg) = 2 + Len(v) /\ arg[1] = "-" /\ arg[2] = a
        /\ SubSeq(arg, 3, Len(arg)) = v
    BY <1>1, WithRest
  <1>3. k \in Nat /\ k <= Len(opts) /\ k - k + 2 = 2 /\ \A j \in k .. k : j = k
    OBVIOUS
  <1>4. f[k] \in Texts
    <2>1. PICK T : T = Seq(Symbols)
      OBVIOUS
    <2>2. arg \in T /\ f[k + 1] \in Seq(T)
      BY <1>2, <2>1 DEF Texts
    <2>3. OneBefore(T, arg, f[k + 1])
      BY <2>2, HeadAndRest
    <2>4. <<arg>> \o f[k + 1] \in Seq(T)
      BY <2>3 DEF OneBefore
    <2> QED
      BY <1>1, <2>1, <2>4 DEF Texts
  <1>5. Len(arg) >= 2 /\ 2 + 1 = 3
    BY <1>2, LenProperties
  <1>6. Group(opts, f, k, k, arg)
    BY <1>1, <1>2, <1>3, <1>5 DEF Group
  <1> QED
    BY <1>1, <1>4, <1>6

\* If the arguments from option k + 1 on start with a group, so do those from k.
LEMMA GroupBefore ==
  ASSUME NEW opts \in Options, NEW f, NEW k \in 1 .. Len(opts), SpelledAt(opts, f, k),
         Grouped(opts, f, k + 1)
  PROVE  Grouped(opts, f, k)
  <1>1. Len(opts) \in Nat
    BY CommandAssumption, LenProperties
  <1>2. PICK a, v : a = opts[k].letter /\ v = opts[k].value
    OBVIOUS
  <1>3. a \in Symbols /\ v \in Seq(Symbols)
    BY <1>2, OptionTypes
  <1>4. f[k + 1] \in Texts /\ k \in Nat /\ k >= 1
    BY DEF Grouped
  <1>5. CASE \/ v # NoValue /\ f[k] = <<<<"-", a>>, v>> \o f[k + 1]
             \/ v = NoValue /\ f[k] = <<<<"-", a>>>> \o f[k + 1]
    <2>1. f[k] \in Texts /\ Group(opts, f, k, k, <<"-", a>>)
      BY <1>2, <1>3, <1>4, <1>5, GroupOfOne
    <2> QED
      BY <1>4, <2>1 DEF Grouped
  <1>6. CASE v # NoValue /\ f[k] = <<OptionArg(a, v)>> \o f[k + 1]
    <2>1. f[k] \in Texts /\ Group(opts, f, k, k, OptionArg(a, v))
      BY <1>2, <1>3, <1>4, <1>6, GroupWithRest
    <2> QED
      BY <1>4, <2>1 DEF Grouped
  <1>7. CASE v = NoValue /\ k < Len(opts) /\ JoinedAt(opts, f, k)
    <2>1. k + 1 <= Len(opts)
      BY <1>1, <1>7
    <2>2. PICK m \in Nat : \E arg : Group(opts, f, k + 1, m, arg) /\ f[m + 1] \in Texts
      BY <2>1 DEF Grouped
    <2>3. PICK arg : Group(opts, f, k + 1, m, arg) /\ f[m + 1] \in Texts
      BY <2>2
    <2>4. f[k] \in Texts /\ \E new : Group(opts, f, k, m, new)
      BY <1>1, <1>2, <1>3, <1>4, <1>7, <2>3, GroupJoined
    <2> QED
      BY <2>3, <2>4 DEF Grouped
  <1> QED
    BY <1>2, <1>5, <1>6, <1>7 DEF SpelledAt

\* However options are spelled, the arguments from each one on that starts an
\* argument are a group and what follows it.
LEMMA SpellingGroups ==
  ASSUME NEW opts \in Options, NEW joined, NEW apart, NEW f, f = Spelling(opts, joined, apart)
  PROVE  /\ Len(opts) \in Nat /\ f[Len(opts) + 1] = <<>>
         /\ \A k \in 1 .. Len(opts) + 1 : Grouped(opts, f, k)
  <1>1. PICK n \in Nat : n = Len(opts)
    BY CommandAssumption, LenProperties
  <1>2. \A k \in 1 .. n + 1 : f[k] = SpellStep(f, opts, joined, apart, k)
    BY <1>1, SpellingIs
  <1>3. f[n + 1] = <<>>
    <2>1. n + 1 \in 1 .. n + 1
      OBVIOUS
    <2> QED
      BY <1>1, <1>2, <2>1 DEF SpellStep
  <1> DEFINE G == {i \in Nat : i <= n => Grouped(opts, f, n + 1 - i)}
  <1>4. 0 \in G
    <2>1. n + 1 - 0 = n + 1 /\ ~ (n + 1 <= n)
      OBVIOUS
    <2>2. <<>> \in Texts
      BY EmptySeq DEF Texts
    <2>3. Grouped(opts, f, n + 1)
      BY <1>1, <1>3, <2>1, <2>2 DEF Grouped
    <2> QED
      BY <2>1, <2>3
  <1>5. ASSUME NEW i \in Nat, i \in G PROVE i + 1 \in G
    <2> SUFFICES ASSUME i + 1 <= n PROVE Grouped(opts, f, n + 1 - (i + 1))
      OBVIOUS
    <2>1. PICK k : k = n + 1 - (i + 1)
      OBVIOUS
    <2>2. k \in 1 .. n /\ k + 1 = n + 1 - i /\ i <= n /\ k \in 1 .. n + 1
      BY <2>1
    <2>3. Grouped(opts, f, k + 1)
      BY <1>5, <2>2
    <2>4. SpelledAt(opts, f, k)
      <3>1. f[k] = SpellStep(f, opts, joined, apart, k)
        BY <1>2, <2>2
      <3> QED
        BY <1>1, <2>2, <3>1, SpellOption
    <2>5. Grouped(opts, f, k)
      BY <1>1, <2>2, <2>3, <2>4, GroupBefore
    <2> QED
      BY <2>1, <2>5
  <1>6. Nat \subseteq G
    <2> HIDE DEF G
    <2> QED
      BY <1>4, <1>5, Upwards
  <1>7. ASSUME NEW k \in 1 .. n + 1 PROVE Grouped(opts, f, k)
    <2>1. n + 1 - k \in Nat /\ n + 1 - k <= n /\ n + 1 - (n + 1 - k) = k
      OBVIOUS
    <2> QED
      BY <1>6, <2>1
  <1> QED
    BY <1>1, <1>3, <1>7

-----------------------------------------------------------------------------
(* What do_options makes of one argument.                                  *)

\* The last of the letters of arg is that of option e, of those from k on, and
\* the program knows them all.
AllLetters(opts, k, e, arg) ==
  /\ LastLetter(arg) = e - k + 2
  /\ arg[LastLetter(arg)] = opts[e].letter
  /\ {arg[l] : l \in 2 .. LastLetter(arg)} = {opts[j].letter : j \in k .. e}
  /\ {opts[j].letter : j \in k .. e} \subseteq Known

\* Letters are read up to the one that has a value, or to an unknown one.
LEMMA LettersOf ==
  ASSUME NEW opts \in Options, NEW f, NEW k \in Nat, k >= 1, NEW e \in Nat, NEW arg,
         Len(opts) \in Nat, Group(opts, f, k, e, arg)
  PROVE  \/ /\ arg[LastLetter(arg)] \notin Known
            /\ \E j \in 1 .. Len(opts) : opts[j].letter \notin Known
         \/ AllLetters(opts, k, e, arg)
  <1>1. PICK len : len = e - k + 2
    OBVIOUS
  <1>2. /\ k <= e /\ e <= Len(opts) /\ arg \in Seq(Symbols) /\ Len(arg) >= len
        /\ \A j \in k .. e : arg[j - k + 2] = opts[j].letter
        /\ \A j \in k .. e : j # e => opts[j].value = NoValue
    BY <1>1 DEF Group
  <1>3. PICK n \in Nat : n = Len(arg)
    BY <1>2, LenProperties
  <1>4. len \in Nat /\ len >= 2 /\ len <= n
    BY <1>1, <1>2, <1>3
  <1>5. ASSUME NEW j \in k .. e
        PROVE  j \in 1 .. Len(opts) /\ (opts[j].value # NoValue <=> opts[j].letter \in WithValue)
    <2>1. j \in 1 .. Len(opts)
      BY <1>2
    <2> QED
      BY <2>1, OptionTypes
  <1>6. ASSUME NEW l \in 2 .. len
        PROVE  l + k - 2 \in k .. e /\ arg[l] = opts[l + k - 2].letter
    <2>1. l + k - 2 \in k .. e /\ (l + k - 2) - k + 2 = l
      BY <1>1, <1>2
    <2> QED
      BY <1>2, <2>1
  <1>7. ASSUME NEW l \in 2 .. len, l # len PROVE arg[l] \notin WithValue
    <2>1. l + k - 2 # e
      BY <1>1, <1>7
    <2> QED
      BY <1>2, <1>5, <1>6, <2>1
  <1>8. n = len \/ arg[len] \in WithValue
    <2>1. e \in k .. e /\ arg[len] = opts[e].letter
      BY <1>1, <1>2
    <2>2. opts[e].value = NoValue => n = len
      BY <1>1, <1>3 DEF Group
    <2> QED
      BY <1>5, <2>1, <2>2
  <1> DEFINE Stops == {l \in 2 .. Len(arg) : arg[l] \in WithValue \/ arg[l] \notin Known}
  <1>9. PICK K : K = LastLetter(arg)
    OBVIOUS
  <1>10. /\ Stops = {} => K = n
         /\ Stops # {} => K \in Stops /\ \A l \in Stops : K <= l
    <2>1. ASSUME Stops # {} PROVE \E x \in Stops : \A l \in Stops : x <= l
      <3>1. Stops \subseteq Nat
        BY <1>3
      <3> QED
        BY <2>1, <3>1, SmallestIn
    <2>2. K = IF Stops = {} THEN n ELSE CHOOSE x \in Stops : \A l \in Stops : x <= l
      BY <1>3, <1>9 DEF LastLetter
    <2> HIDE DEF Stops
    <2> QED
      BY <2>1, <2>2
  <1>11. K \in 2 .. len
    <2>1. CASE Stops = {}
      <3>1. arg[len] \notin WithValue
        BY <1>3, <1>4, <2>1
      <3> QED
        BY <1>4, <1>8, <1>10, <2>1, <3>1
    <2>2. CASE Stops # {} /\ len \in Stops
      BY <1>3, <1>10, <2>2
    <2>3. CASE Stops # {} /\ len \notin Stops
      <3>1. n = len
        BY <1>3, <1>4, <1>8, <2>3
      <3> QED
        BY <1>3, <1>10, <2>3, <3>1
    <2> QED
      BY <2>1, <2>2, <2>3
  <1>12. CASE arg[K] \notin Known
    BY <1>5, <1>6, <1>9, <1>11, <1>12
  <1>13. CASE arg[K] \in Known
    <2>1. K = len
      <3>1. CASE Stops = {}
        BY <1>4, <1>10, <1>11, <3>1
      <3>2. CASE Stops # {}
        <4>1. arg[K] \in WithValue
          BY <1>10, <1>13, <3>2
        <4> QED
          BY <1>7, <1>11, <4>1
      <3> QED
        BY <3>1, <3>2
    <2>2. ASSUME NEW l \in 2 .. K PROVE arg[l] \in Known
      <3>1. CASE l = K
        BY <1>13, <3>1
      <3>2. CASE l # K
        <4>1. l \notin Stops
          BY <1>4, <1>10, <2>1, <3>2
        <4>2. l \in 2 .. Len(arg)
          BY <1>3, <1>4, <2>1
        <4> QED
          BY <4>1, <4>2
      <3> QED
        BY <3>1, <3>2
    <2>3. \A l \in 2 .. K : \E j \in k .. e : arg[l] = opts[j].letter
      BY <1>6, <2>1
    <2>4. \A j \in k .. e : \E l \in 2 .. K : arg[l] = opts[j].letter
      <3> SUFFICES ASSUME NEW j \in k .. e PROVE \E l \in 2 .. K : arg[l] = opts[j].letter
        OBVIOUS
      <3>1. j - k + 2 \in 2 .. K /\ arg[j - k + 2] = opts[j].letter
        <4>1. k <= j /\ j <= e /\ k \in Nat /\ e \in Nat /\ j \in Nat
          BY <1>2
        <4>2. j - k + 2 \in 2 .. K
          BY <1>1, <2>1, <4>1
        <4> QED
          BY <1>2, <4>2
      <3> QED
        BY <3>1
    <2>5. {arg[l] : l \in 2 .. K} = {opts[j].letter : j \in k .. e}
      <3> HIDE DEF Stops
      <3> DEFINE L == {arg[l] : l \in 2 .. K}
                 M == {opts[j].letter : j \in k .. e}
      <3>1. \A x \in L : x \in M
        BY <2>3
      <3>2. \A x \in M : x \in L
        BY <2>4
      <3> HIDE DEF L, M
      <3>3. L = M
        BY <3>1, <3>2
      <3> QED
        BY <3>3 DEF L, M
    <2>6. {opts[j].letter : j \in k .. e} \subseteq Known
      <3> HIDE DEF Stops
      <3> QED
        BY <2>2, <2>5
    <2>7. arg[K] = opts[e].letter
      <3>1. e \in k .. e /\ e - k + 2 = K
        BY <1>1, <1>2, <2>1
      <3> QED
        BY <1>2, <3>1
    <2> QED
      BY <1>1, <1>9, <2>1, <2>5, <2>6, <2>7 DEF AllLetters
  <1> QED
    BY <1>12, <1>13

\* Options without a value for l leave it as it is.
LEMMA ValueSame ==
  ASSUME NEW opts, NEW l, NEW m \in Nat, NEW e \in Nat, m <= e,
         \A j \in m + 1 .. e : opts[j].letter # l
  PROVE  ValueAfter(opts, l, e) = ValueAfter(opts, l, m)
  <1>1. \A j \in 1 .. e : j \in 1 .. m \/ j \in m + 1 .. e
    OBVIOUS
  <1>2. \A j \in 1 .. m : j \in 1 .. e
    OBVIOUS
  <1>3. {j \in 1 .. e : opts[j].letter = l} = {j \in 1 .. m : opts[j].letter = l}
    BY <1>1, <1>2
  <1> QED
    BY <1>3 DEF ValueAfter

\* The last one gives it.
LEMMA ValueNew ==
  ASSUME NEW opts, NEW l, NEW e \in Nat, e >= 1, opts[e].letter = l
  PROVE  ValueAfter(opts, l, e) = opts[e].value
  <1> DEFINE Ones == {j \in 1 .. e : opts[j].letter = l}
  <1>1. e \in Ones /\ \A j \in Ones : e >= j /\ j \in Nat
    OBVIOUS
  <1>2. Max(Ones) = e
    <2>1. \A x \in Ones : (\A y \in Ones : x >= y) => x = e
      BY <1>1
    <2>2. Max(Ones) = CHOOSE x \in Ones : \A y \in Ones : x >= y
      BY DEF Max
    <2> HIDE DEF Ones
    <2> QED
      BY <1>1, <2>1, <2>2
  <1>3. Ones # {}
    BY <1>1
  <1>4. ValueAfter(opts, l, e) = IF Ones = {} THEN NoValue ELSE opts[Max(Ones)].value
    BY DEF ValueAfter
  <1> QED
    BY <1>2, <1>3, <1>4

\* A begins with the group of the options k to e and continues with rest.
Begins(opts, k, e, arg, A, rest) ==
  /\ A # <<>> /\ A[1] = arg
  /\ \/ opts[e].value = NoValue /\ Len(arg) = e - k + 2 /\ Tail(A) = rest
     \/ /\ opts[e].value # NoValue /\ Len(arg) = e - k + 2
        /\ Len(A) > 1 /\ A[2] = opts[e].value /\ Tail(Tail(A)) = rest
     \/ /\ opts[e].value # NoValue /\ SubSeq(arg, e - k + 3, Len(arg)) = opts[e].value
        /\ Tail(A) = rest

\* One element before a sequence and what follows it.
LEMMA OneAndRest ==
  ASSUME NEW T, NEW x \in T, NEW R \in Seq(T), NEW F \in Seq(T), NEW A, A = (<<x>> \o R) \o F
  PROVE  A # <<>> /\ A[1] = x /\ Tail(A) = R \o F
  <1>1. PICK Q \in Seq(T) : Q = R \o F
    BY ConcatProperties
  <1>2. <<x>> \in Seq(T)
    OBVIOUS
  <1>3. A = <<x>> \o Q
    BY <1>1, <1>2, ConcatAssociative
  <1>4. OneBefore(T, x, Q)
    BY HeadAndRest
  <1> QED
    BY <1>1, <1>3, <1>4 DEF OneBefore

\* Two elements before a sequence and what follows it.
LEMMA TwoAndRest ==
  ASSUME NEW T, NEW x \in T, NEW y \in T, NEW R \in Seq(T), NEW F \in Seq(T),
         NEW A, A = (<<x, y>> \o R) \o F
  PROVE  A # <<>> /\ A[1] = x /\ Len(A) > 1 /\ A[2] = y /\ Tail(Tail(A)) = R \o F
  <1>1. PICK Q \in Seq(T) : Q = R \o F
    BY ConcatProperties
  <1>2. <<x, y>> \in Seq(T)
    BY Pair
  <1>3. A = <<x, y>> \o Q
    BY <1>1, <1>2, ConcatAssociative
  <1>4. TwoBefore(T, x, y, Q) /\ OneBefore(T, y, Q)
    BY HeadAndRest, Prefixed
  <1>5. Len(A) > 1
    <2>1. Len(A) = Len(Q) + 2 /\ Len(Q) \in Nat
      BY <1>3, <1>4, LenProperties DEF TwoBefore
    <2> QED
      BY <2>1
  <1>6. A # <<>> /\ A[1] = x /\ A[2] = y /\ Tail(A) = <<y>> \o Q
    BY <1>3, <1>4 DEF TwoBefore
  <1>7. Tail(<<y>> \o Q) = Q
    BY <1>4 DEF OneBefore
  <1> QED
    BY <1>1, <1>5, <1>6, <1>7

\* Arguments and files are texts.
LEMMA TextsSeq ==
  ASSUME NEW s \in Seq(Seq(STRING))
  PROVE  s \in Texts
  <1>1. \A i \in 1 .. Len(s) : s[i] \in Seq(Symbols)
    <2>1. \A i \in 1 .. Len(s) : s[i] \in Seq(STRING)
      BY ElementOfSeq
    <2> QED
      BY <2>1, SymbolSeq
  <1> QED
    BY <1>1, SeqOver DEF Texts

\* What is left of the arguments begins with a group.
LEMMA Following ==
  ASSUME NEW opts \in Options, NEW f, NEW k \in 1 .. Len(opts), Len(opts) \in Nat,
         Grouped(opts, f, k), NEW files \in Texts, NEW A, A = f[k] \o files
  PROVE  \E e \in Nat : \E arg : /\ Group(opts, f, k, e, arg)
                                 /\ Begins(opts, k, e, arg, A, f[e + 1] \o files)
  <1>1. k <= Len(opts)
    OBVIOUS
  <1>2. PICK e \in Nat : \E arg : Group(opts, f, k, e, arg) /\ f[e + 1] \in Texts
    BY <1>1 DEF Grouped
  <1>3. PICK arg : Group(opts, f, k, e, arg) /\ f[e + 1] \in Texts
    BY <1>2
  <1>4. PICK w : w = opts[e].value
    OBVIOUS
  <1>5. PICK T : T = Seq(Symbols)
    OBVIOUS
  <1>6. arg \in T /\ w \in T
    <2>1. e \in 1 .. Len(opts) /\ arg \in Seq(Symbols)
      BY <1>3 DEF Group
    <2> QED
      BY <1>4, <1>5, <2>1, OptionTypes
  <1>7. PICK R : R = f[e + 1]
    OBVIOUS
  <1>8. R \in Seq(T) /\ files \in Seq(T)
    BY <1>3, <1>5, <1>7 DEF Texts
  <1>9. e - k + 2 + 1 = e - k + 3
    BY <1>1
  <1>10. \/ w = NoValue /\ Len(arg) = e - k + 2 /\ f[k] = <<arg>> \o R
         \/ w # NoValue /\ Len(arg) = e - k + 2 /\ f[k] = <<arg, w>> \o R
         \/ w # NoValue /\ SubSeq(arg, e - k + 2 + 1, Len(arg)) = w /\ f[k] = <<arg>> \o R
    BY <1>3, <1>4, <1>7 DEF Group
  <1>11. ASSUME f[k] = <<arg>> \o R PROVE A # <<>> /\ A[1] = arg /\ Tail(A) = R \o files
    <2>1. A = (<<arg>> \o R) \o files
      BY <1>11
    <2> QED
      BY <1>6, <1>8, <2>1, OneAndRest, SMTT(30)
  <1>12. ASSUME f[k] = <<arg, w>> \o R
         PROVE A # <<>> /\ A[1] = arg /\ Len(A) > 1 /\ A[2] = w /\ Tail(Tail(A)) = R \o files
    <2>1. A = (<<arg, w>> \o R) \o files
      BY <1>12
    <2> QED
      BY <1>6, <1>8, <2>1, TwoAndRest, SMTT(30)
  <1>13. Begins(opts, k, e, arg, A, R \o files)
    BY <1>4, <1>9, <1>10, <1>11, <1>12 DEF Begins
  <1> QED
    BY <1>3, <1>7, <1>13

-----------------------------------------------------------------------------
(* The steps.                                                              *)

\* File, CanOpen and ProperUse, of a file system and of what was meant.
FileIn(t, lost, name) ==
  LET at[k \in 0 .. Len(name)] ==
        IF k = 0 THEN "cwd"
        ELSE LET f == at[k - 1] IN
             IF f = Absent \/ name[k] \in {".", "/"} THEN f
             ELSE IF /\ t.kind[f] = "dir" /\ name[k] \in DOMAIN t.entry[f]
                     /\ <<f, name[k]>> \notin lost
                  THEN t.entry[f][name[k]] ELSE Absent
  IN at[Len(name)]

Opens(t, lost, name) ==
  FileIn(t, lost, name) # Absent => t.kind[FileIn(t, lost, name)] \in {"file", "empty"}

NumberFor(m, l) == Atoi(m.opts[Max({j \in DOMAIN m.opts : m.opts[j].letter = l})].value)
Proper(m, open) ==
  /\ Letters(m) \subseteq Known
  /\ \A x, y \in Exclusive : x \in Letters(m) /\ y \in Letters(m) => x = y
  /\ "t" \in Letters(m) => "p" \in Letters(m) \/ "P" \in Letters(m)
  /\ \/ "v" \in Letters(m)
     \/ /\ "r" \in Letters(m) => NumberFor(m, "r") # 0
        /\ "w" \in Letters(m) => NumberFor(m, "w") > 0
        /\ "t" \in Letters(m) => NumberFor(m, "t") \in 1 .. 100
        /\ "o" \in Letters(m) => open
        /\ "i" \in Letters(m) =>
             m.files = <<>> /\ (m.ended \/ Nameless(m) \/ Last(m.lines) = <<>>)

\* Now and in the next state.
LEMMA WhatItIs ==
  /\ CanOpen <=> Opens(tree, gone, value["o"])
  /\ CanOpen' <=> Opens(tree', gone', value'["o"])
  /\ ProperUse <=> Proper(meant, CanOpen)
  /\ ProperUse' <=> Proper(meant', CanOpen')
  /\ MeantLetters = Letters(meant) /\ MeantLetters' = Letters(meant')
  /\ (NoNames <=> Nameless(meant)) /\ (NoNames' <=> Nameless(meant'))
  /\ File(value["o"]) = FileIn(tree, gone, value["o"])
  <1>1. CanOpen <=> Opens(tree, gone, value["o"])
    BY DEF CanOpen, File, FileWithout, Opens, FileIn
  <1>2. CanOpen' <=> Opens(tree', gone', value'["o"])
    BY DEF CanOpen, File, FileWithout, Opens, FileIn
  <1>3. ProperUse <=> Proper(meant, CanOpen)
    BY DEF ProperUse, Proper, Meant, MeantLetters, MeantValue, NoNames, Letters, NumberFor,
           Nameless, Exclusive
  <1>4. ProperUse' <=> Proper(meant', CanOpen')
    BY DEF ProperUse, Proper, Meant, MeantLetters, MeantValue, NoNames, Letters, NumberFor,
           Nameless, Exclusive
  <1>5. MeantLetters = Letters(meant) /\ MeantLetters' = Letters(meant')
    BY DEF MeantLetters, Letters
  <1>6. (NoNames <=> Nameless(meant)) /\ (NoNames' <=> Nameless(meant'))
    BY DEF NoNames, Nameless
  <1>7. File(value["o"]) = FileIn(tree, gone, value["o"])
    BY DEF File, FileWithout, FileIn
  <1> QED
    BY <1>1, <1>2, <1>3, <1>4, <1>5, <1>6, <1>7

\* What WorkFits says of the end.
Judged(m, open, letters, done, s) ==
  LET percent == "p" \in Letters(m) \/ "P" \in Letters(m) IN
  /\ s = 0 => Proper(m, open)
  /\ s # 0 => ~Proper(m, open) \/ ("i" \in Letters(m) /\ Nameless(m))
  /\ done # "none" <=> s = 0 /\ "v" \notin Letters(m)
  /\ done # "none" =>
       /\ done = (IF "-" \in Letters(m) THEN "scan" ELSE IF percent THEN "percentages" ELSE "runs")
       /\ letters = Letters(m) \cup (IF percent THEN {"p", "e", "s"} ELSE {})

\* The end, and any state before it.
LEMMA AtTheEnd ==
  ASSUME pc' = "exit"
  PROVE  WorkFits' <=> Judged(meant', CanOpen', set', work', status')
  <1>1. ProperUse' <=> Proper(meant', CanOpen')
    BY WhatItIs
  <1>2. MeantLetters' = Letters(meant') /\ (NoNames' <=> Nameless(meant'))
    BY WhatItIs
  <1>3. \A l : Meant(l)' <=> l \in Letters(meant')
    BY <1>2 DEF Meant
  <1> QED
    BY <1>1, <1>2, <1>3 DEF WorkFits, Judged

\* The variables that keep control, in a step to the end.
LEMMA Ending ==
  ASSUME CmdInv, pc \notin {"exit", "scan"}, pc' = "exit",
         UNCHANGED <<tree, gone, fn, entering, frames, meant, value>>,
         Judged(meant, CanOpen, set', work', status')
  PROVE  CmdInv'
  <1>1. CanOpen' <=> CanOpen
    <2>1. CanOpen <=> Opens(tree, gone, value["o"])
      BY WhatItIs
    <2>2. CanOpen' <=> Opens(tree', gone', value'["o"])
      BY WhatItIs
    <2> QED
      BY <2>1, <2>2
  <1>2. WorkFits'
    <2>1. Judged(meant', CanOpen', set', work', status')
      BY <1>1
    <2> QED
      BY <2>1, AtTheEnd
  <1>3. ~Scanning'
    BY DEF CmdInv, Scanning
  <1>4. /\ meant'.opts \in Options /\ meant'.files \in Arguments /\ meant'.lines \in Inputs
        /\ meant'.ended \in BOOLEAN /\ value' \in [WithValue -> Seq(Symbols)]
    BY DEF CmdInv
  <1> QED
    BY <1>2, <1>3, <1>4 DEF CmdInv, Later

\* A command line is refused.
LEMMA Refusing ==
  ASSUME CmdInv, pc \notin {"exit", "scan"}, pc' = "exit", status' = 1,
         UNCHANGED <<tree, gone, fn, entering, frames, meant, value, work>>,
         ~Proper(meant, CanOpen) \/ ("i" \in Letters(meant) /\ Nameless(meant))
  PROVE  CmdInv'
  <1>1. work' = "none"
    BY DEF CmdInv
  <1>2. Judged(meant, CanOpen, set', work', status')
    BY <1>1 DEF Judged
  <1> QED
    BY <1>2, Ending

\* What the arguments were spelled from.
LEMMA MeantTypes ==
  ASSUME CmdInv
  PROVE  /\ meant.opts \in Options /\ Len(meant.opts) \in Nat
         /\ DOMAIN meant.opts = 1 .. Len(meant.opts)
         /\ meant.files \in Texts /\ (meant.files # <<>> => ~IsOption(meant.files[1]))
  <1>1. meant.opts \in Options /\ meant.files \in Arguments
    BY DEF CmdInv
  <1>2. PICK opts : opts = meant.opts
    OBVIOUS
  <1>3. opts \in Seq([letter : STRING, value : Seq(STRING)])
    BY <1>1, <1>2, CommandAssumption
  <1>4. Len(opts) \in Nat /\ DOMAIN opts = 1 .. Len(opts)
    BY <1>3, LenProperties
  <1>5. PICK files : files = meant.files
    OBVIOUS
  <1>6. files \in Seq(Seq(STRING)) /\ (files # <<>> => ~IsOption(files[1]))
    BY <1>1, <1>5, CommandAssumption
  <1>7. files \in Texts
    BY <1>6, TextsSeq
  <1> QED
    BY <1>1, <1>2, <1>4, <1>5, <1>6, <1>7

\* After m options the arguments begin with the group of those up to e.
NextGroup(m, e, arg, joined, apart) ==
  LET f == Spelling(meant.opts, joined, apart) IN
  /\ m < Len(meant.opts) /\ ReadUpTo(meant.opts, m)
  /\ Group(meant.opts, f, m + 1, e, arg)
  /\ Begins(meant.opts, m + 1, e, arg, argv, f[e + 1] \o meant.files)

\* The arguments begin with a group, or no options are left.
LEMMA ParsingAt ==
  ASSUME CmdInv, pc = "options"
  PROVE  \/ ReadUpTo(meant.opts, Len(meant.opts)) /\ argv = meant.files
         \/ \E m \in Nat, e \in Nat : \E arg : \E joined, apart \in SUBSET (1 .. Len(meant.opts)) :
              NextGroup(m, e, arg, joined, apart)
  <1>1. PICK opts, files : opts = meant.opts /\ files = meant.files
    OBVIOUS
  <1>2. /\ opts \in Options /\ Len(opts) \in Nat /\ files \in Texts
    BY <1>1, MeantTypes
  <1>3. PICK n \in Nat : n = Len(opts)
    BY <1>2
  <1>4. PICK joined \in SUBSET (1 .. n), apart \in SUBSET (1 .. n), m \in 0 .. n :
          argv = Spelling(opts, joined, apart)[m + 1] \o files /\ ReadUpTo(opts, m)
    BY <1>1, <1>3 DEF CmdInv, Parsing
  <1>5. PICK f : f = Spelling(opts, joined, apart)
    OBVIOUS
  <1>6. f[n + 1] = <<>> /\ \A k \in 1 .. n + 1 : Grouped(opts, f, k)
    BY <1>2, <1>3, <1>5, SpellingGroups
  <1>7. CASE m = n
    <2>1. argv = <<>> \o files
      BY <1>4, <1>5, <1>6, <1>7
    <2>2. argv = files
      BY <1>2, <2>1, ConcatEmptySeq DEF Texts
    <2> QED
      BY <1>1, <1>3, <1>4, <1>7, <2>2
  <1>8. CASE m < n
    <2>1. m + 1 \in 1 .. n /\ m + 1 \in 1 .. n + 1 /\ m \in Nat
      BY <1>8
    <2>2. Grouped(opts, f, m + 1)
      BY <1>6, <2>1
    <2>3. PICK A : A = f[m + 1] \o files
      OBVIOUS
    <2>4. PICK e \in Nat :
            \E arg : /\ Group(opts, f, m + 1, e, arg)
                     /\ Begins(opts, m + 1, e, arg, A, f[e + 1] \o files)
      BY <1>2, <1>3, <2>1, <2>2, <2>3, Following
    <2>5. PICK arg : /\ Group(opts, f, m + 1, e, arg)
                     /\ Begins(opts, m + 1, e, arg, A, f[e + 1] \o files)
      BY <2>4
    <2>6. argv = A
      BY <1>4, <1>5, <2>3
    <2>7. NextGroup(m, e, arg, joined, apart)
      BY <1>1, <1>3, <1>4, <1>5, <1>8, <2>5, <2>6 DEF NextGroup
    <2>8. m \in Nat /\ e \in Nat /\ joined \in SUBSET (1 .. Len(meant.opts))
          /\ apart \in SUBSET (1 .. Len(meant.opts))
      BY <1>1, <1>3, <2>1
    <2> QED
      BY <2>7, <2>8
  <1> QED
    BY <1>7, <1>8

\* What reading one argument changes, if it is a group.
LEMMA GroupRead ==
  ASSUME CmdInv, DoArg, NEW opts, opts = meant.opts, NEW k \in Nat, NEW e \in Nat, NEW arg,
         NEW rest,
         k <= e, Len(arg) \in Nat, Begins(opts, k, e, arg, argv, rest), AllLetters(opts, k, e, arg),
         opts[e].value # NoValue <=> opts[e].letter \in WithValue
  PROVE  /\ argv' = rest /\ pc' = pc
         /\ set' = set \cup {opts[j].letter : j \in k .. e}
         /\ value' = IF opts[e].value = NoValue THEN value
                     ELSE [value EXCEPT ![opts[e].letter] = opts[e].value]
  <1>1. PICK K, w, a, L : /\ K = LastLetter(arg) /\ w = opts[e].value /\ a = opts[e].letter
                          /\ L = {opts[j].letter : j \in k .. e}
    OBVIOUS
  <1>2. K = e - k + 2 /\ arg[K] = a /\ {arg[l] : l \in 2 .. K} = L /\ L \subseteq Known /\ a \in L
    <2>1. e \in k .. e
      OBVIOUS
    <2> QED
      BY <1>1, <2>1 DEF AllLetters
  <1>3. argv # <<>> /\ argv[1] = arg
    BY DEF Begins
  <1>4. PICK tail : tail = SubSeq(arg, K + 1, Len(arg))
    OBVIOUS
  <1>5. {arg[l] : l \in 2 .. K} \cap Known = L
    BY <1>2
  <1>6. set' = set \cup L
    <2>1. set' = set \cup ({arg[l] : l \in 2 .. K} \cap Known)
      BY <1>1, <1>3 DEF DoArg
    <2> QED
      BY <1>5, <2>1
  <1>7. \/ arg[K] \in Known \ WithValue /\ argv' = Tail(argv) /\ UNCHANGED <<value, pc>>
        \/ /\ arg[K] \in WithValue /\ tail # <<>>
           /\ value' = [value EXCEPT ![arg[K]] = tail] /\ argv' = Tail(argv) /\ pc' = pc
        \/ /\ arg[K] \in WithValue /\ tail = <<>> /\ Len(argv) > 1
           /\ value' = [value EXCEPT ![arg[K]] = argv[2]] /\ argv' = Tail(Tail(argv)) /\ pc' = pc
        \/ arg[K] \in WithValue /\ tail = <<>> /\ Len(argv) = 1
    BY <1>1, <1>2, <1>3, <1>4, Zenon DEF DoArg
  <1>8. w # NoValue <=> a \in WithValue
    BY <1>1
  <1>9. \/ w = NoValue /\ Len(arg) = K /\ Tail(argv) = rest
        \/ w # NoValue /\ Len(arg) = K /\ Len(argv) > 1 /\ argv[2] = w /\ Tail(Tail(argv)) = rest
        \/ w # NoValue /\ tail = w /\ Tail(argv) = rest
    <2>1. K + 1 = e - k + 3
      BY <1>2
    <2> QED
      BY <1>1, <1>2, <1>4, <2>1 DEF Begins
  <1>10. Len(arg) = K => tail = <<>>
    <2>1. Len(arg) = K => Len(arg) < K + 1 /\ K \in Int
      OBVIOUS
    <2> QED
      BY <1>2, <1>4, <2>1, SubSeqEmpty
  <1>11. CASE w = NoValue
    <2>1. argv' = Tail(argv) /\ UNCHANGED <<value, pc>>
      BY <1>2, <1>7, <1>8, <1>11
    <2> QED
      BY <1>1, <1>6, <1>9, <1>11, <2>1
  <1>12. CASE w # NoValue /\ tail = <<>>
    <2>1. Len(argv) > 1 /\ argv[2] = w /\ Tail(Tail(argv)) = rest
      BY <1>9, <1>12 DEF NoValue
    <2>2. Len(argv) # 1
      BY <2>1
    <2>3. /\ value' = [value EXCEPT ![arg[K]] = argv[2]] /\ argv' = Tail(Tail(argv))
          /\ pc' = pc
      BY <1>2, <1>7, <1>8, <1>12, <2>2, Zenon
    <2> QED
      BY <1>1, <1>2, <1>6, <1>12, <2>1, <2>3
  <1>13. CASE w # NoValue /\ tail # <<>>
    <2>1. tail = w /\ Tail(argv) = rest
      BY <1>9, <1>10, <1>13
    <2>2. value' = [value EXCEPT ![a] = w] /\ argv' = rest /\ pc' = pc
      BY <1>2, <1>7, <1>8, <1>13, <2>1
    <2> QED
      BY <1>1, <1>6, <1>13, <2>2
  <1> QED
    BY <1>11, <1>12, <1>13

\* What is read after a group.
LEMMA ReadOn ==
  ASSUME NEW opts \in Options, Len(opts) \in Nat, NEW m \in Nat, NEW e \in Nat,
         m < e, e <= Len(opts), ReadUpTo(opts, m), value \in [WithValue -> Seq(Symbols)],
         NEW L, L = {opts[j].letter : j \in m + 1 .. e}, L \subseteq Known, set' = set \cup L,
         value' = IF opts[e].value = NoValue THEN value
                  ELSE [value EXCEPT ![opts[e].letter] = opts[e].value],
         \A j \in m + 1 .. e : j # e => opts[j].value = NoValue
  PROVE  ReadUpTo(opts, e)' /\ value' \in [WithValue -> Seq(Symbols)]
  <1>1. PICK w, a : w = opts[e].value /\ a = opts[e].letter
    OBVIOUS
  <1>2. /\ w \in Seq(Symbols) /\ (w # NoValue <=> a \in WithValue)
        /\ \A j \in m + 1 .. e : opts[j].value # NoValue <=> opts[j].letter \in WithValue
    <2>1. e \in 1 .. Len(opts) /\ \A j \in m + 1 .. e : j \in 1 .. Len(opts)
      OBVIOUS
    <2> QED
      BY <1>1, <2>1, OptionTypes
  <1>3. value' \in [WithValue -> Seq(Symbols)]
    BY <1>1, <1>2
  <1>4. set' = {opts[j].letter : j \in 1 .. e}
    <2>1. set = {opts[j].letter : j \in 1 .. m}
      BY DEF ReadUpTo
    <2>2. \A j \in 1 .. e : j \in 1 .. m \/ j \in m + 1 .. e
      OBVIOUS
    <2>3. \A j \in 1 .. m : j \in 1 .. e
      OBVIOUS
    <2>4. \A j \in m + 1 .. e : j \in 1 .. e
      OBVIOUS
    <2>5. \A x \in set' : \E j \in 1 .. e : x = opts[j].letter
      BY <2>1, <2>3, <2>4
    <2>6. \A j \in 1 .. e : opts[j].letter \in set'
      BY <2>1, <2>2
    <2> QED
      BY <2>5, <2>6
  <1>5. set' \subseteq Known
    BY DEF ReadUpTo
  <1>6. ASSUME NEW l \in WithValue PROVE value'[l] = ValueAfter(opts, l, e)
    <2>1. value[l] = ValueAfter(opts, l, m)
      BY DEF ReadUpTo
    <2>2. CASE l = a
      <3>1. w # NoValue
        BY <1>2, <2>2
      <3>2. value'[l] = w
        BY <1>1, <2>2, <3>1
      <3>3. e >= 1
        OBVIOUS
      <3> QED
        BY <1>1, <2>2, <3>2, <3>3, ValueNew
    <2>3. CASE l # a
      <3>1. value'[l] = value[l]
        BY <1>1, <1>2, <2>3
      <3>2. \A j \in m + 1 .. e : opts[j].letter # l
        <4>1. \A j \in m + 1 .. e : j # e => opts[j].letter \notin WithValue
          BY <1>2
        <4> QED
          BY <1>1, <2>3, <4>1
      <3>3. ValueAfter(opts, l, e) = ValueAfter(opts, l, m)
        <4>1. m <= e
          OBVIOUS
        <4> QED
          BY <3>2, <4>1, ValueSame
      <3> QED
        BY <2>1, <3>1, <3>3
    <2> QED
      BY <2>2, <2>3
  <1> QED
    BY <1>3, <1>4, <1>5, <1>6 DEF ReadUpTo

\* Reading an argument.
LEMMA DoArgStep ==
  ASSUME CmdInv, DoArg
  PROVE  CmdInv'
  <1>1. /\ pc = "options" /\ argv # <<>> /\ IsOption(argv[1])
        /\ UNCHANGED <<tree, gone, fn, entering, frames, args, meant, argc, output, work>>
    BY DEF DoArg, treeVars
  <1>2. PICK opts, files : opts = meant.opts /\ files = meant.files
    OBVIOUS
  <1>3. /\ opts \in Options /\ Len(opts) \in Nat /\ DOMAIN opts = 1 .. Len(opts)
        /\ files \in Texts /\ (files # <<>> => ~IsOption(files[1]))
    BY <1>2, MeantTypes
  <1>4. argv # files
    BY <1>1, <1>3
  <1>5. PICK m \in Nat, e \in Nat : \E arg : \E joined, apart \in SUBSET (1 .. Len(opts)) :
          NextGroup(m, e, arg, joined, apart)
    BY <1>1, <1>2, <1>4, ParsingAt
  <1>6. PICK arg :
          \E joined, apart \in SUBSET (1 .. Len(opts)) : NextGroup(m, e, arg, joined, apart)
    BY <1>5
  <1>7. PICK joined \in SUBSET (1 .. Len(opts)), apart \in SUBSET (1 .. Len(opts)) :
          NextGroup(m, e, arg, joined, apart)
    BY <1>6
  <1>8. PICK f, rest : f = Spelling(opts, joined, apart) /\ rest = f[e + 1] \o files
    OBVIOUS
  <1>9. /\ m < Len(opts) /\ ReadUpTo(opts, m) /\ Group(opts, f, m + 1, e, arg)
        /\ Begins(opts, m + 1, e, arg, argv, rest)
    BY <1>2, <1>7, <1>8 DEF NextGroup
  <1>10. /\ m + 1 \in Nat /\ m + 1 >= 1 /\ m + 1 <= e /\ m < e /\ e <= Len(opts)
         /\ e \in 1 .. Len(opts)
         /\ \A j \in m + 1 .. e : j # e => opts[j].value = NoValue
         /\ Len(arg) \in Nat
    <2>1. m + 1 <= e /\ e <= Len(opts) /\ arg \in Seq(Symbols)
      BY <1>9 DEF Group
    <2>2. \A j \in m + 1 .. e : j # e => opts[j].value = NoValue
      BY <1>9 DEF Group
    <2> QED
      BY <2>1, <2>2, LenProperties
  <1>11. CASE /\ arg[LastLetter(arg)] \notin Known
              /\ \E j \in 1 .. Len(opts) : opts[j].letter \notin Known
    <2>1. argv[1] = arg
      BY <1>9 DEF Begins
    <2>2. WithValue \subseteq Known
      BY DEF Known
    <2>3. pc' = "exit" /\ status' = 1 /\ value' = value
      BY <1>11, <2>1, <2>2 DEF DoArg, Fatal, Exit
    <2>4. ~ (Letters(meant) \subseteq Known)
      BY <1>2, <1>3, <1>11 DEF Letters
    <2>5. ~Proper(meant, CanOpen)
      BY <2>4 DEF Proper
    <2> QED
      BY <1>1, <2>3, <2>5, Refusing
  <1>12. CASE AllLetters(opts, m + 1, e, arg)
    <2>1. opts[e].value # NoValue <=> opts[e].letter \in WithValue
      BY <1>3, <1>10, OptionTypes
    <2>2. /\ argv' = rest /\ pc' = pc
          /\ set' = set \cup {opts[j].letter : j \in m + 1 .. e}
          /\ value' = IF opts[e].value = NoValue THEN value
                      ELSE [value EXCEPT ![opts[e].letter] = opts[e].value]
      BY <1>2, <1>9, <1>10, <1>12, <2>1, GroupRead, SMTT(30)
    <2>3. PICK L : L = {opts[j].letter : j \in m + 1 .. e}
      OBVIOUS
    <2>4. L \subseteq Known
      BY <1>12, <2>3 DEF AllLetters
    <2>5. value \in [WithValue -> Seq(Symbols)]
      BY DEF CmdInv
    <2>6. ReadUpTo(opts, e)' /\ value' \in [WithValue -> Seq(Symbols)]
      BY <1>3, <1>9, <1>10, <2>2, <2>3, <2>4, <2>5, ReadOn
    <2>7. Parsing'
      <3>1. meant' = meant /\ e \in 0 .. Len(opts)
        BY <1>1, <1>10
      <3>2. argv' = Spelling(opts, joined, apart)[e + 1] \o files
        BY <1>8, <2>2
      <3> QED
        BY <1>2, <2>6, <3>1, <3>2 DEF Parsing
    <2>8. ~Scanning'
      BY <1>1 DEF CmdInv, Scanning
    <2> QED
      BY <1>1, <2>2, <2>6, <2>7, <2>8 DEF CmdInv, Later
  <1> QED
    BY <1>3, <1>9, <1>10, <1>11, <1>12, LettersOf

\* The end of the options.
LEMMA EndOfOptionsStep ==
  ASSUME CmdInv, EndOfOptions
  PROVE  CmdInv'
  <1>1. /\ pc = "options" /\ (argv # <<>> => ~IsOption(argv[1])) /\ pc' = "check"
        /\ UNCHANGED <<tree, gone, fn, entering, frames, meant, argv, set, value, work>>
    BY DEF EndOfOptions, Goto, treeVars
  <1>2. ReadUpTo(meant.opts, Len(meant.opts)) /\ argv = meant.files
    <2> SUFFICES ASSUME NEW m \in Nat, NEW e \in Nat, NEW arg, NEW joined, NEW apart,
                        NextGroup(m, e, arg, joined, apart)
                 PROVE  FALSE
      BY <1>1, ParsingAt
    <2>1. PICK f : f = Spelling(meant.opts, joined, apart)
      OBVIOUS
    <2>2. /\ Group(meant.opts, f, m + 1, e, arg)
          /\ Begins(meant.opts, m + 1, e, arg, argv, f[e + 1] \o meant.files)
      BY <2>1 DEF NextGroup
    <2>3. argv # <<>> /\ argv[1] = arg
      BY <2>2 DEF Begins
    <2>4. /\ arg \in Seq(Symbols) /\ arg[1] = "-" /\ m + 1 <= e /\ Len(arg) >= e - (m + 1) + 2
      BY <2>2 DEF Group
    <2>5. Len(arg) \in Nat
      BY <2>4, LenProperties
    <2>6. Len(arg) > 1
      BY <2>4, <2>5
    <2> QED
      BY <1>1, <2>3, <2>4, <2>6 DEF IsOption
  <1>3. ReadUpTo(meant.opts, Len(meant.opts))'
    BY <1>1, <1>2 DEF ReadUpTo
  <1>4. ~Scanning'
    BY <1>1 DEF CmdInv, Scanning
  <1> QED
    BY <1>1, <1>2, <1>3, <1>4 DEF CmdInv, Later

\* What atoi gives is a number.
LEMMA AtoiInt ==
  ASSUME NEW s
  PROVE  Atoi(s) \in Int
  <1>1. \A n \in DOMAIN Number : Number[n] \in Int
    BY DEF Number
  <1>2. PICK a, b, c : a = Number[s[2]] /\ b = Number[s[1]] /\ c = Len(s)
    OBVIOUS
  <1>3. CASE s[1] = "-" /\ (Len(s) > 1 /\ s[2] \in DOMAIN Number)
    <2>1. Number[s[2]] \in Int
      BY <1>1, <1>3
    <2>2. Atoi(s) = 0 - Number[s[2]]
      BY <1>3 DEF Atoi
    <2> HIDE DEF Number
    <2> QED
      BY <2>1, <2>2
  <1>4. CASE s[1] = "-" /\ ~ (Len(s) > 1 /\ s[2] \in DOMAIN Number)
    <2>1. Atoi(s) = 0 - 0
      BY <1>4 DEF Atoi
    <2> QED
      BY <2>1
  <1>5. CASE s[1] # "-" /\ s[1] \in DOMAIN Number
    <2>1. Number[s[1]] \in Int
      BY <1>1, <1>5
    <2> QED
      BY <1>5, <2>1 DEF Atoi
  <1>6. CASE s[1] # "-" /\ s[1] \notin DOMAIN Number
    BY <1>6 DEF Atoi
  <1> QED
    BY <1>3, <1>4, <1>5, <1>6

\* The letters that were read, and the numbers given with them.
LEMMA ValuesGiven ==
  ASSUME CmdInv, ValuesMeant
  PROVE  \A l \in WithValue :
           /\ Given(l) <=> l \in Letters(meant)
           /\ l \in Letters(meant) => Atoi(value[l]) = NumberFor(meant, l)
  <1> SUFFICES ASSUME NEW l \in WithValue
               PROVE  /\ Given(l) <=> l \in Letters(meant)
                      /\ l \in Letters(meant) => Atoi(value[l]) = NumberFor(meant, l)
    OBVIOUS
  <1>1. PICK opts : opts = meant.opts
    OBVIOUS
  <1>2. opts \in Options /\ Len(opts) \in Nat /\ DOMAIN opts = 1 .. Len(opts)
    BY <1>1, MeantTypes
  <1>3. PICK n \in Nat : n = Len(opts)
    BY <1>2
  <1> DEFINE Ones == {j \in 1 .. n : opts[j].letter = l}
  <1>4. value[l] = IF Ones = {} THEN NoValue ELSE opts[Max(Ones)].value
    BY <1>1, <1>3 DEF ValuesMeant, ValueAfter
  <1>5. l \in Letters(meant) <=> Ones # {}
    BY <1>1, <1>2, <1>3 DEF Letters
  <1>6. NumberFor(meant, l) = Atoi(opts[Max(Ones)].value)
    BY <1>1, <1>2, <1>3 DEF NumberFor
  <1>7. ASSUME Ones # {} PROVE Max(Ones) \in Ones
    <2>1. Ones \subseteq 0 .. n
      OBVIOUS
    <2>2. \A x, y \in Ones : y <= x <=> x >= y
      OBVIOUS
    <2> HIDE DEF Ones
    <2>3. \E x \in Ones : \A y \in Ones : y <= x
      BY <1>7, <2>1, LargestUpTo
    <2>4. \E x \in Ones : \A y \in Ones : x >= y
      BY <2>2, <2>3
    <2>5. Max(Ones) = CHOOSE x \in Ones : \A y \in Ones : x >= y
      BY DEF Max
    <2> QED
      BY <2>4, <2>5
  <1>8. ASSUME NEW j \in Ones PROVE opts[j].value # NoValue
    <2>1. j \in 1 .. Len(opts) /\ opts[j].letter = l
      BY <1>3
    <2> QED
      BY <1>2, <2>1, OptionTypes
  <1>9. Given(l) <=> Ones # {}
    <2> HIDE DEF Ones
    <2> QED
      BY <1>4, <1>7, <1>8 DEF Given
  <1> HIDE DEF Ones
  <1>10. Ones # {} => value[l] = opts[Max(Ones)].value
    BY <1>4
  <1> QED
    BY <1>5, <1>6, <1>9, <1>10

\* At most one element.
LEMMA AtMostOne ==
  ASSUME NEW S, IsFiniteSet(S)
  PROVE  Cardinality(S) <= 1 <=> \A x, y \in S : x = y
  <1>1. Cardinality(S) \in Nat
    BY FS_CardinalityType
  <1>2. ASSUME NEW x \in S, NEW y \in S, Cardinality(S) <= 1 PROVE x = y
    <2>1. IsFiniteSet({x}) /\ Cardinality({x}) = 1
      BY FS_Singleton
    <2>2. {x} \subseteq S
      OBVIOUS
    <2>3. Cardinality({x}) <= Cardinality(S) /\ (Cardinality({x}) = Cardinality(S) => {x} = S)
      BY <2>2, FS_Subset, FS_CardinalityType
    <2>4. {x} = S
      BY <1>1, <1>2, <2>1, <2>3
    <2> QED
      BY <2>4
  <1>3. ASSUME \A x, y \in S : x = y PROVE Cardinality(S) <= 1
    <2>1. CASE S = {}
      <3>1. Cardinality(S) = 0
        BY <2>1, FS_EmptySet
      <3> QED
        BY <3>1
    <2>2. CASE S # {}
      <3>1. PICK x : x \in S
        BY <2>2
      <3>2. S = {x}
        BY <1>3, <3>1
      <3>3. Cardinality(S) = 1
        BY <3>2, FS_Singleton
      <3> QED
        BY <3>3
    <2> QED
      BY <2>1, <2>2
  <1> QED
    BY <1>2, <1>3

\* The check of options that exclude each other.
LEMMA CompatibleFits == Compatible <=> Fits(set)
  <1>1. IsFiniteSet(Exclusive)
    <2>1. IsFiniteSet({})
      BY FS_EmptySet
    <2>2. IsFiniteSet({} \cup {"d"})
      BY <2>1, FS_AddElement
    <2>3. IsFiniteSet({} \cup {"d"} \cup {"n"})
      BY <2>2, FS_AddElement
    <2>4. IsFiniteSet({} \cup {"d"} \cup {"n"} \cup {"p"})
      BY <2>3, FS_AddElement
    <2>5. IsFiniteSet({} \cup {"d"} \cup {"n"} \cup {"p"} \cup {"P"})
      BY <2>4, FS_AddElement
    <2>6. IsFiniteSet({} \cup {"d"} \cup {"n"} \cup {"p"} \cup {"P"} \cup {"T"})
      BY <2>5, FS_AddElement
    <2>7. Exclusive = {} \cup {"d"} \cup {"n"} \cup {"p"} \cup {"P"} \cup {"T"}
      BY DEF Exclusive
    <2> QED
      BY <2>6, <2>7
  <1>2. PICK S : S = set \cap Exclusive
    OBVIOUS
  <1>3. IsFiniteSet(S)
    <2>1. S \subseteq Exclusive
      BY <1>2
    <2> QED
      BY <1>1, <2>1, FS_Subset
  <1>4. Cardinality(S) <= 1 <=> \A x, y \in S : x = y
    BY <1>3, AtMostOne
  <1>5. Compatible <=> Cardinality(S) <= 1 /\ ("t" \in set => set \cap {"p", "P"} # {})
    BY <1>2 DEF Compatible, Exclusive
  <1>6. Fits(set) <=> (\A x, y \in S : x = y) /\ ("t" \in set => set \cap {"p", "P"} # {})
    BY <1>2 DEF Fits
  <1> QED
    BY <1>4, <1>5, <1>6

\* What a proper use asks of the letters.
LEMMA ProperFits ==
  ASSUME NEW m, NEW open
  PROVE  /\ Proper(m, open) => Letters(m) \subseteq Known /\ Fits(Letters(m))
         /\ Letters(m) \subseteq Known /\ Fits(Letters(m)) /\ "v" \in Letters(m) => Proper(m, open)
  <1>1. PICK L : L = Letters(m)
    OBVIOUS
  <1>2. Fits(L) <=> /\ \A x, y \in Exclusive : x \in L /\ y \in L => x = y
                    /\ "t" \in L => "p" \in L \/ "P" \in L
    BY DEF Fits
  <1> QED
    BY <1>1, <1>2 DEF Proper

\* What is known after the options were read.
LEMMA AtCheck ==
  ASSUME CmdInv, pc = "check"
  PROVE  /\ set = Letters(meant) /\ set \subseteq Known /\ ValuesMeant /\ argv = meant.files
         /\ work = "none" /\ tree \in Trees /\ ~Scanning
  <1>1. ReadUpTo(meant.opts, Len(meant.opts)) /\ argv = meant.files
    BY DEF CmdInv
  <1>2. set = Letters(meant)
    BY <1>1, MeantTypes DEF ReadUpTo, Letters
  <1> QED
    BY <1>1, <1>2 DEF CmdInv, ReadUpTo, ValuesMeant

\* Options that do not go together.
LEMMA IncompatibleStep ==
  ASSUME CmdInv, Incompatible
  PROVE  CmdInv'
  <1>1. /\ pc = "check" /\ ~Compatible /\ pc' = "exit" /\ status' = 1
        /\ UNCHANGED <<tree, gone, fn, entering, frames, meant, value, work>>
    BY DEF Incompatible, Fatal, Exit, treeVars
  <1>2. ~Fits(Letters(meant))
    BY <1>1, AtCheck, CompatibleFits
  <1>3. ~Proper(meant, CanOpen)
    BY <1>2, ProperFits
  <1> QED
    BY <1>1, <1>3, Refusing

\* The version is shown.
LEMMA ShowVersionStep ==
  ASSUME CmdInv, ShowVersion
  PROVE  CmdInv'
  <1>1. /\ pc = "check" /\ Compatible /\ "v" \in set /\ pc' = "exit" /\ status' = 0
        /\ UNCHANGED <<tree, gone, fn, entering, frames, meant, value, work, set>>
    BY DEF ShowVersion, Exit, treeVars
  <1>2. /\ Fits(Letters(meant)) /\ Letters(meant) \subseteq Known
        /\ "v" \in Letters(meant) /\ work = "none"
    BY <1>1, AtCheck, CompatibleFits
  <1>3. Proper(meant, CanOpen)
    BY <1>2, ProperFits
  <1>4. Judged(meant, CanOpen, set', work', status')
    BY <1>1, <1>2, <1>3 DEF Judged
  <1> QED
    BY <1>1, <1>4, Ending

\* Simple options and what they imply.
LEMMA SimpleOptionsStep ==
  ASSUME CmdInv, SimpleOptions
  PROVE  CmdInv'
  <1>1. /\ pc = "check" /\ Compatible /\ "v" \notin set /\ pc' = "values" /\ set' = Implied
        /\ UNCHANGED <<tree, gone, fn, entering, frames, meant, argv, value, work>>
    BY DEF SimpleOptions, Goto, treeVars
  <1>2. /\ set = Letters(meant) /\ Letters(meant) \subseteq Known /\ Fits(Letters(meant))
        /\ ValuesMeant /\ argv = meant.files /\ work = "none" /\ tree \in Trees /\ ~Scanning
    BY <1>1, AtCheck, CompatibleFits
  <1>3. Implied = Presumed(Letters(meant))
    BY <1>2 DEF Implied, Presumed
  <1>4. Passed'
    BY <1>1, <1>2, <1>3 DEF Passed
  <1>5. ValuesMeant' /\ ~Scanning'
    BY <1>1, <1>2 DEF ValuesMeant, Scanning
  <1> QED
    BY <1>1, <1>2, <1>4, <1>5 DEF CmdInv, Later

-----------------------------------------------------------------------------
(* The file that a name stands for.                                        *)

\* What the recursion of FileWithout asks of a function.
PathStep(t, lost, name, at, k) ==
  IF k = 0 THEN "cwd"
  ELSE LET f == at[k - 1] IN
       IF f = Absent \/ name[k] \in {".", "/"} THEN f
       ELSE IF /\ t.kind[f] = "dir" /\ name[k] \in DOMAIN t.entry[f]
               /\ <<f, name[k]>> \notin lost
            THEN t.entry[f][name[k]] ELSE Absent

Walk(t, lost, name, at) == at = [k \in 0 .. Len(name) |-> PathStep(t, lost, name, at, k)]

\* There is such a function.
LEMMA WalkExists ==
  ASSUME NEW t, NEW lost, NEW name, NEW n \in Nat, n = Len(name)
  PROVE  \E at : Walk(t, lost, name, at)
  <1> DEFINE Has(m) == \E at : at = [k \in 0 .. m |-> PathStep(t, lost, name, at, k)]
             G == {m \in Nat : Has(m)}
  <1>1. 0 \in G
    <2> DEFINE at == [k \in 0 .. 0 |-> "cwd"]
    <2>1. \A k \in 0 .. 0 : PathStep(t, lost, name, at, k) = "cwd"
      BY DEF PathStep
    <2>2. at = [k \in 0 .. 0 |-> PathStep(t, lost, name, at, k)]
      BY <2>1
    <2> QED
      BY <2>2
  <1>2. ASSUME NEW m \in Nat, m \in G PROVE m + 1 \in G
    <2>1. PICK f : f = [k \in 0 .. m |-> PathStep(t, lost, name, f, k)]
      BY <1>2
    <2> DEFINE g == [k \in 0 .. m + 1 |-> IF k = m + 1 THEN PathStep(t, lost, name, f, k) ELSE f[k]]
    <2>2. \A k \in 0 .. m + 1 : k = m + 1 \/ k \in 0 .. m
      OBVIOUS
    <2>3. \A k \in 0 .. m + 1 : k # 0 => k - 1 \in 0 .. m
      OBVIOUS
    <2>4. \A k \in 0 .. m : k \in 0 .. m + 1 /\ k # m + 1
      OBVIOUS
    <2>5. \A k \in 0 .. m : g[k] = f[k]
      BY <2>4
    <2>6. m + 1 \in 0 .. m + 1 /\ g[m + 1] = PathStep(t, lost, name, f, m + 1)
      OBVIOUS
    <2>7. \A k \in 0 .. m : f[k] = PathStep(t, lost, name, f, k)
      BY <2>1
    <2>8. g = [k \in 0 .. m + 1 |-> g[k]]
      OBVIOUS
    <2> HIDE DEF g
    <2>9. \A k \in 0 .. m + 1 : PathStep(t, lost, name, g, k) = PathStep(t, lost, name, f, k)
      BY <2>3, <2>5 DEF PathStep
    <2>10. \A k \in 0 .. m + 1 : g[k] = PathStep(t, lost, name, g, k)
      BY <2>2, <2>5, <2>6, <2>7, <2>9
    <2>11. g = [k \in 0 .. m + 1 |-> PathStep(t, lost, name, g, k)]
      BY <2>8, <2>10
    <2> QED
      BY <2>11
  <1>3. n \in G
    <2> HIDE DEF G
    <2>1. Nat \subseteq G
      BY <1>1, <1>2, Upwards
    <2> QED
      BY <2>1
  <1> QED
    BY <1>3 DEF Walk

\* The file is where the walk ends.
LEMMA WalkEnds ==
  ASSUME NEW t, NEW lost, NEW name, NEW n \in Nat, n = Len(name)
  PROVE  \E at : /\ FileIn(t, lost, name) = at[n]
                 /\ \A k \in 0 .. n : at[k] = PathStep(t, lost, name, at, k)
  <1> DEFINE P(g) == Walk(t, lost, name, g)
  <1>1. \E g : P(g)
    BY WalkExists
  <1>2. PICK at : at = CHOOSE g : P(g)
    OBVIOUS
  <1>3. FileIn(t, lost, name) = (CHOOSE g : P(g))[n]
    BY DEF FileIn, Walk, PathStep
  <1> HIDE DEF P
  <1>4. P(at)
    BY <1>1, <1>2
  <1>5. \A k \in 0 .. n : at[k] = PathStep(t, lost, name, at, k)
    BY <1>4 DEF P, Walk
  <1> QED
    BY <1>2, <1>3, <1>5

\* The directories among the files of D are the same, with entries in D.
SameDirectories(t, u, D) ==
  /\ u.entry = t.entry /\ "cwd" \in D
  /\ \A f \in D : /\ u.kind[f] = "dir" <=> t.kind[f] = "dir"
                  /\ t.kind[f] = "dir" => \A c \in DOMAIN t.entry[f] : t.entry[f][c] \in D

\* With the same directories, and when more is lost, a name stands for the same
\* file or for none.
LEMMA FileLost ==
  ASSUME NEW t, NEW u, NEW lost, NEW more, lost \subseteq more,
         NEW D, u = t \/ SameDirectories(t, u, D), NEW name, Len(name) \in Nat
  PROVE  \/ FileIn(u, more, name) = Absent
         \/ /\ FileIn(u, more, name) = FileIn(t, lost, name)
            /\ u = t \/ FileIn(t, lost, name) \in D
  <1>1. PICK n \in Nat : n = Len(name)
    OBVIOUS
  <1>2. PICK a : /\ FileIn(t, lost, name) = a[n]
                 /\ \A k \in 0 .. n : a[k] = PathStep(t, lost, name, a, k)
    BY <1>1, WalkEnds
  <1>3. PICK b : /\ FileIn(u, more, name) = b[n]
                 /\ \A k \in 0 .. n : b[k] = PathStep(u, more, name, b, k)
    BY <1>1, WalkEnds
  <1> DEFINE Same(x, y) == y = Absent \/ (y = x /\ (u = t \/ x \in D))
             G == {k \in Nat : k <= n => Same(a[k], b[k])}
  <1>4. 0 \in G
    <2>1. 0 \in 0 .. n
      OBVIOUS
    <2>2. a[0] = PathStep(t, lost, name, a, 0) /\ b[0] = PathStep(u, more, name, b, 0)
      BY <1>2, <1>3, <2>1
    <2>3. a[0] = "cwd" /\ b[0] = "cwd"
      BY <2>2 DEF PathStep
    <2>4. u = t \/ "cwd" \in D
      BY DEF SameDirectories
    <2> QED
      BY <2>3, <2>4
  <1>5. ASSUME NEW k \in Nat, k \in G PROVE k + 1 \in G
    <2> SUFFICES ASSUME k + 1 <= n PROVE Same(a[k + 1], b[k + 1])
      OBVIOUS
    <2>1. Same(a[k], b[k])
      BY <1>5
    <2>2. PICK j : j = k + 1
      OBVIOUS
    <2>3. j \in 0 .. n /\ j # 0 /\ j - 1 = k
      BY <2>2
    <2>4. PICK f, g, c : f = a[k] /\ g = b[k] /\ c = name[j]
      OBVIOUS
    <2>5. b[j] = IF g = Absent \/ c \in {".", "/"} THEN g
                 ELSE IF u.kind[g] = "dir" /\ c \in DOMAIN u.entry[g] /\ <<g, c>> \notin more
                      THEN u.entry[g][c] ELSE Absent
      <3>1. b[j] = PathStep(u, more, name, b, j)
        BY <1>3, <2>3
      <3> QED
        BY <2>3, <2>4, <3>1 DEF PathStep
    <2>6. a[j] = IF f = Absent \/ c \in {".", "/"} THEN f
                 ELSE IF t.kind[f] = "dir" /\ c \in DOMAIN t.entry[f] /\ <<f, c>> \notin lost
                      THEN t.entry[f][c] ELSE Absent
      <3>1. a[j] = PathStep(t, lost, name, a, j)
        BY <1>2, <2>3
      <3> QED
        BY <2>3, <2>4, <3>1 DEF PathStep
    <2>7. CASE b[j] = Absent
      BY <2>2, <2>7
    <2>8. CASE b[j] # Absent
      <3>1. g # Absent
        BY <2>5, <2>8
      <3>2. g = f /\ (u = t \/ f \in D)
        BY <2>1, <2>4, <3>1
      <3>3. u.entry = t.entry /\ (u.kind[f] = "dir" <=> t.kind[f] = "dir")
        BY <3>2 DEF SameDirectories
      <3>4. CASE c \in {".", "/"}
        <4>1. a[j] = f /\ b[j] = f
          BY <2>5, <2>6, <3>2, <3>4
        <4> QED
          BY <2>2, <3>2, <4>1
      <3>5. CASE c \notin {".", "/"}
        <4>1. /\ u.kind[f] = "dir" /\ c \in DOMAIN u.entry[f] /\ <<f, c>> \notin more
              /\ b[j] = u.entry[f][c]
          BY <2>5, <2>8, <3>1, <3>2, <3>5
        <4>2. t.kind[f] = "dir" /\ c \in DOMAIN t.entry[f] /\ <<f, c>> \notin lost
          BY <3>3, <4>1
        <4>3. a[j] = t.entry[f][c]
          BY <2>6, <3>1, <3>2, <3>5, <4>2
        <4>4. a[j] = b[j]
          BY <3>3, <4>1, <4>3
        <4>5. u = t \/ a[j] \in D
          BY <3>2, <4>2, <4>3 DEF SameDirectories
        <4> QED
          BY <2>2, <4>4, <4>5
      <3> QED
        BY <3>4, <3>5
    <2> QED
      BY <2>7, <2>8
  <1>6. n \in G
    <2> HIDE DEF G
    <2>1. Nat \subseteq G
      BY <1>4, <1>5, Upwards
    <2> QED
      BY <2>1
  <1> QED
    BY <1>2, <1>3, <1>6

\* A file that can be opened, or none, is there when entries are removed.
LEMMA OpensLost ==
  ASSUME NEW t, NEW lost, NEW more, lost \subseteq more, NEW name, Len(name) \in Nat,
         Opens(t, lost, name)
  PROVE  Opens(t, more, name)
  <1>1. FileIn(t, more, name) = Absent \/ FileIn(t, more, name) = FileIn(t, lost, name)
    BY FileLost
  <1> QED
    BY <1>1 DEF Opens

\* And when it is emptied.
LEMMA OpensEmptied ==
  ASSUME NEW t \in Trees, NEW lost, NEW name, Len(name) \in Nat, Opens(t, lost, name),
         NEW f, f = FileIn(t, lost, name), f # Absent, NEW u, u = [t EXCEPT !.kind[f] = "empty"]
  PROVE  Opens(u, lost, name)
  <1>1. PICK kind, dev, shut, entry :
          t = [kind |-> kind, dev |-> dev, shut |-> shut, entry |-> entry]
    BY TreeAssumption
  <1>2. PICK D : D = DOMAIN kind
    OBVIOUS
  <1>3. /\ t.kind = kind /\ t.entry = entry /\ "cwd" \in D
        /\ kind \in [D -> {"dir", "file", "empty", "link"}]
        /\ DOMAIN entry = {d \in D : kind[d] = "dir"}
        /\ \A d \in DOMAIN entry : \A c \in DOMAIN entry[d] : entry[d][c] \in D
    <2>1. t.kind = kind /\ t.entry = entry
      BY <1>1
    <2> QED
      BY <1>2, <2>1, TreeAssumption
  <1>4. PICK new : new = [kind EXCEPT ![f] = "empty"]
    OBVIOUS
  <1>5. u.kind = new /\ u.entry = entry
    BY <1>1, <1>4
  <1>6. kind[f] \in {"file", "empty"}
    BY <1>3 DEF Opens
  <1>7. \A d \in D : new[d] = IF d = f THEN "empty" ELSE kind[d]
    BY <1>3, <1>4
  <1>8. SameDirectories(t, u, D)
    <2>1. \A d \in D : u.kind[d] = "dir" <=> t.kind[d] = "dir"
      BY <1>3, <1>5, <1>6, <1>7
    <2>2. \A d \in D : t.kind[d] = "dir" => \A c \in DOMAIN t.entry[d] : t.entry[d][c] \in D
      BY <1>3
    <2> QED
      BY <1>3, <1>5, <2>1, <2>2 DEF SameDirectories
  <1>9. \/ FileIn(u, lost, name) = Absent
        \/ FileIn(u, lost, name) = f /\ (u = t \/ f \in D)
    BY <1>8, FileLost
  <1>10. CASE FileIn(u, lost, name) = Absent
    BY <1>10 DEF Opens
  <1>11. CASE FileIn(u, lost, name) = f /\ f \in D
    BY <1>5, <1>7, <1>11 DEF Opens
  <1>12. CASE FileIn(u, lost, name) = f /\ u = t
    BY <1>12
  <1> QED
    BY <1>9, <1>10, <1>11, <1>12

-----------------------------------------------------------------------------
(* The steps after the check.                                              *)

\* What must hold to go on.
LEMMA Onward ==
  ASSUME CmdInv, pc \in Later, pc' \in Later, UNCHANGED <<meant, set, value, work>>,
         pc' # "scan" => ~Scanning',
         pc' \in {"values", "output"} => tree' \in Trees,
         pc' # "values" => ~BadValue,
         pc' \notin {"values", "output"} => (Given("o") => CanOpen'),
         pc' \in {"values", "output", "input"} => argv' = meant.files,
         pc' \notin {"values", "output", "input"} => ("i" \in Letters(meant) => InputProper)
  PROVE  CmdInv'
  <1>1. /\ Letters(meant) \subseteq Known /\ Fits(Letters(meant)) /\ "v" \notin Letters(meant)
        /\ set = Presumed(Letters(meant))
    BY DEF CmdInv, Passed
  <1>2. (BadValue' <=> BadValue) /\ (Given("o")' <=> Given("o"))
    BY DEF BadValue, Given
  <1>3. InputProper' <=> InputProper
    BY DEF InputProper
  <1>4. Passed'
    BY <1>1, <1>2, <1>3 DEF Passed
  <1>5. ValuesMeant'
    BY DEF CmdInv, ValuesMeant
  <1> QED
    BY <1>4, <1>5 DEF CmdInv, Later

\* An empty value is none.
LEMMA ValueTypes ==
  ASSUME CmdInv
  PROVE  Len(value["o"]) \in Nat
  <1>1. value["o"] \in Seq(Symbols)
    BY DEF CmdInv, WithValue
  <1> QED
    BY <1>1, LenProperties

\* The values are checked.
LEMMA ValueOptionsStep ==
  ASSUME CmdInv, ValueOptions
  PROVE  CmdInv'
  <1>1. /\ pc = "values"
        /\ UNCHANGED <<tree, gone, fn, entering, frames, meant, argv, set, value, work>>
        /\ BadValue => pc' = "exit" /\ status' = 1
        /\ ~BadValue => pc' = "output"
    BY DEF ValueOptions, Fatal, Exit, Goto, treeVars
  <1>2. ValuesMeant /\ Passed /\ ~Scanning /\ tree \in Trees
    BY <1>1 DEF CmdInv, Later
  <1>3. CASE BadValue
    <2>1. "v" \notin Letters(meant)
      BY <1>2 DEF Passed
    <2>2. /\ Given("r") <=> "r" \in Letters(meant)
          /\ "r" \in Letters(meant) => Atoi(value["r"]) = NumberFor(meant, "r")
          /\ Given("w") <=> "w" \in Letters(meant)
          /\ "w" \in Letters(meant) => Atoi(value["w"]) = NumberFor(meant, "w")
          /\ Given("t") <=> "t" \in Letters(meant)
          /\ "t" \in Letters(meant) => Atoi(value["t"]) = NumberFor(meant, "t")
      BY <1>2, ValuesGiven DEF WithValue
    <2>3. Atoi(value["w"]) \in Int /\ Atoi(value["t"]) \in Int
      BY AtoiInt
    <2>4. Atoi(value["w"]) <= 0 => ~ (Atoi(value["w"]) > 0)
      BY <2>3
    <2>5. Atoi(value["t"]) > 100 \/ Atoi(value["t"]) <= 0 => Atoi(value["t"]) \notin 1 .. 100
      BY <2>3
    <2>6. ~Proper(meant, CanOpen)
      BY <1>3, <2>1, <2>2, <2>4, <2>5 DEF BadValue, Proper
    <2> QED
      BY <1>1, <1>3, <2>6, Refusing
  <1>4. CASE ~BadValue
    <2>1. argv' = meant.files
      BY <1>1, <1>2 DEF Passed
    <2>2. ~Scanning'
      BY <1>1, <1>2 DEF Scanning
    <2> QED
      BY <1>1, <1>2, <1>4, <2>1, <2>2, Onward DEF Later
  <1> QED
    BY <1>3, <1>4

\* The output file is opened.
LEMMA OpenOutputStep ==
  ASSUME CmdInv, OpenOutput
  PROVE  CmdInv'
  <1>1. /\ pc = "output" /\ pc' = "input" /\ CanOpen
        /\ tree' = IF File(value["o"]) = Absent THEN tree
                   ELSE [tree EXCEPT !.kind[File(value["o"])] = "empty"]
        /\ UNCHANGED <<gone, fn, entering, frames, meant, argv, set, value, work>>
    <2>1. output' = value["o"] /\ tree' = IF File(output') = Absent THEN tree
                                         ELSE [tree EXCEPT !.kind[File(output')] = "empty"]
      BY DEF OpenOutput
    <2> QED
      BY <2>1 DEF OpenOutput, Goto
  <1>2. Passed /\ ~Scanning /\ tree \in Trees
    BY <1>1 DEF CmdInv, Later
  <1>3. CanOpen'
    <2>1. PICK f : f = File(value["o"])
      OBVIOUS
    <2>2. f = FileIn(tree, gone, value["o"]) /\ Opens(tree, gone, value["o"])
      BY <1>1, <2>1, WhatItIs
    <2>3. CASE f = Absent
      BY <1>1, <2>1, <2>2, <2>3, WhatItIs
    <2>4. CASE f # Absent
      <3>1. tree' = [tree EXCEPT !.kind[f] = "empty"]
        BY <1>1, <2>1, <2>4
      <3>2. Opens(tree', gone, value["o"])
        BY <1>2, <2>2, <2>4, <3>1, ValueTypes, OpensEmptied
      <3> QED
        BY <1>1, <3>2, WhatItIs
    <2> QED
      BY <2>3, <2>4
  <1>4. argv' = meant.files /\ ~BadValue
    BY <1>1, <1>2 DEF Passed
  <1>5. ~Scanning'
    BY <1>1, <1>2 DEF Scanning
  <1> QED
    BY <1>1, <1>3, <1>4, <1>5, Onward DEF Later

\* Standard output is used, or the output file cannot be opened.
LEMMA NoOutputStep ==
  ASSUME CmdInv, NoOutput
  PROVE  CmdInv'
  <1>1. /\ pc = "output"
        /\ UNCHANGED <<tree, gone, fn, entering, frames, meant, argv, set, value, work>>
        /\ \/ ~Given("o") /\ pc' = "input"
           \/ Given("o") /\ ~CanOpen /\ pc' = "exit" /\ status' = 1
    BY DEF NoOutput, Goto, Fatal, Exit, Given, treeVars
  <1>2. ValuesMeant /\ Passed /\ ~Scanning
    BY <1>1 DEF CmdInv, Later
  <1>3. CASE ~Given("o") /\ pc' = "input"
    <2>1. argv' = meant.files /\ ~BadValue
      BY <1>1, <1>2 DEF Passed
    <2>2. ~Scanning'
      BY <1>1, <1>2 DEF Scanning
    <2> QED
      BY <1>1, <1>3, <2>1, <2>2, Onward DEF Later
  <1>4. CASE Given("o") /\ ~CanOpen /\ pc' = "exit" /\ status' = 1
    <2>1. "o" \in Letters(meant)
      BY <1>2, <1>4, ValuesGiven DEF WithValue
    <2>2. "v" \notin Letters(meant)
      BY <1>2 DEF Passed
    <2>3. ~Proper(meant, CanOpen)
      BY <1>4, <2>1, <2>2 DEF Proper
    <2> QED
      BY <1>1, <1>4, <2>3, Refusing
  <1> QED
    BY <1>1, <1>3, <1>4

-----------------------------------------------------------------------------
(* Standard input.                                                         *)

OnlyNewlines(s) == \A k \in 1 .. Len(s) : s[k] = NL

\* What FlattenSeq returns is built up from the first sequence.
LEMMA Flattened ==
  ASSUME NEW ss, NEW n \in Nat, n = Len(ss), n >= 1
  PROVE  \E f : /\ FlattenSeq(ss) = f[n] /\ f[1] = ss[1]
                /\ \A i \in 2 .. n : f[i] = f[i - 1] \o ss[i]
  <1> DEFINE Item(f, i) == IF i = 1 THEN ss[i] ELSE f[i - 1] \o ss[i]
             Has(m) == \E f : f = [i \in 1 .. m |-> Item(f, i)]
             G == {m \in Nat : Has(m)}
  <1>1. 0 \in G
    <2> DEFINE f == [i \in 1 .. 0 |-> 0]
    <2>1. f = [i \in 1 .. 0 |-> Item(f, i)]
      OBVIOUS
    <2> HIDE DEF f
    <2> QED
      BY <2>1
  <1>2. ASSUME NEW m \in Nat, m \in G PROVE m + 1 \in G
    <2>1. PICK f : f = [i \in 1 .. m |-> Item(f, i)]
      BY <1>2
    <2> DEFINE g == [i \in 1 .. m + 1 |-> IF i = m + 1 THEN Item(f, i) ELSE f[i]]
    <2>2. \A i \in 1 .. m + 1 : i = m + 1 \/ i \in 1 .. m
      OBVIOUS
    <2>3. \A i \in 1 .. m + 1 : i # 1 => i - 1 \in 1 .. m
      OBVIOUS
    <2>4. \A i \in 1 .. m : i \in 1 .. m + 1 /\ i # m + 1
      OBVIOUS
    <2>5. \A i \in 1 .. m : g[i] = f[i]
      BY <2>4
    <2>6. g[m + 1] = Item(f, m + 1)
      OBVIOUS
    <2>7. \A i \in 1 .. m : f[i] = Item(f, i)
      BY <2>1
    <2>8. g = [i \in 1 .. m + 1 |-> g[i]]
      OBVIOUS
    <2> HIDE DEF g
    <2>9. \A i \in 1 .. m + 1 : Item(g, i) = Item(f, i)
      BY <2>3, <2>5
    <2>10. \A i \in 1 .. m + 1 : g[i] = Item(g, i)
      <3> HIDE DEF Item
      <3> QED
        BY <2>2, <2>5, <2>6, <2>7, <2>9
    <2>11. g = [i \in 1 .. m + 1 |-> Item(g, i)]
      <3> HIDE DEF Item
      <3> QED
        BY <2>8, <2>10
    <2> HIDE DEF Item
    <2> QED
      BY <2>11
  <1>3. n \in G
    <2> HIDE DEF G
    <2>1. Nat \subseteq G
      BY <1>1, <1>2, Upwards
    <2> QED
      BY <2>1
  <1> DEFINE P(f) == f = [i \in 1 .. n |-> Item(f, i)]
  <1>4. \E f : P(f)
    BY <1>3
  <1>5. FlattenSeq(ss) = (CHOOSE f : P(f))[n]
    BY DEF FlattenSeq
  <1>6. PICK f : f = CHOOSE g : P(g)
    OBVIOUS
  <1>7. P(f)
    <2> HIDE DEF P
    <2> QED
      BY <1>4, <1>6
  <1>8. \A i \in 1 .. n : f[i] = Item(f, i)
    BY <1>7
  <1>9. f[1] = ss[1] /\ \A i \in 2 .. n : f[i] = f[i - 1] \o ss[i]
    <2>1. 1 \in 1 .. n /\ \A i \in 2 .. n : i \in 1 .. n /\ i # 1
      OBVIOUS
    <2> QED
      BY <1>8, <2>1
  <1> QED
    BY <1>5, <1>6, <1>9, ZenonT(60)

\* Of two texts the last symbol is that of the second, if it has one.
LEMMA BehindText ==
  ASSUME NEW X \in Seq(Symbols), NEW Y \in Seq(Symbols), NEW Z, Z = X \o Y
  PROVE  /\ Z \in Seq(Symbols)
         /\ Y # <<>> => Z # <<>> /\ Last(Z) = Last(Y)
         /\ Y = <<>> => Z = X
         /\ OnlyNewlines(Z) <=> OnlyNewlines(X) /\ OnlyNewlines(Y)
  <1>1. PICK a \in Nat, b \in Nat : a = Len(X) /\ b = Len(Y)
    BY LenProperties
  <1>2. /\ Z \in Seq(Symbols) /\ Len(Z) = a + b
        /\ \A i \in 1 .. a + b : Z[i] = IF i <= a THEN X[i] ELSE Y[i - a]
    BY <1>1, ConcatProperties
  <1>3. ASSUME Y # <<>> PROVE Z # <<>> /\ Last(Z) = Last(Y)
    <2>1. b # 0
      BY <1>1, <1>3, EmptySeq
    <2>2. a + b \in 1 .. a + b /\ ~ (a + b <= a) /\ (a + b) - a = b /\ a + b # 0
      BY <2>1
    <2>3. Z[a + b] = Y[b]
      BY <1>2, <2>2
    <2>4. Z # <<>>
      BY <1>2, <2>2, EmptySeq
    <2> QED
      BY <1>1, <1>2, <2>3, <2>4 DEF Last
  <1>4. Y = <<>> => Z = X
    BY ConcatEmptySeq
  <1>5. ASSUME OnlyNewlines(Z) PROVE OnlyNewlines(X) /\ OnlyNewlines(Y)
    <2>1. \A i \in 1 .. a : i \in 1 .. a + b /\ i <= a
      OBVIOUS
    <2>2. \A i \in 1 .. b : a + i \in 1 .. a + b /\ ~ (a + i <= a) /\ (a + i) - a = i
      OBVIOUS
    <2>3. \A i \in 1 .. a + b : Z[i] = NL
      BY <1>2, <1>5 DEF OnlyNewlines
    <2>4. \A i \in 1 .. a : X[i] = NL
      BY <1>2, <2>1, <2>3
    <2>5. \A i \in 1 .. b : Y[i] = NL
      BY <1>2, <2>2, <2>3
    <2> QED
      BY <1>1, <2>4, <2>5 DEF OnlyNewlines
  <1>6. ASSUME OnlyNewlines(X), OnlyNewlines(Y) PROVE OnlyNewlines(Z)
    <2>1. \A i \in 1 .. a + b : i <= a => i \in 1 .. a
      OBVIOUS
    <2>2. \A i \in 1 .. a + b : ~ (i <= a) => i - a \in 1 .. b
      OBVIOUS
    <2>3. (\A i \in 1 .. a : X[i] = NL) /\ (\A i \in 1 .. b : Y[i] = NL)
      BY <1>1, <1>6 DEF OnlyNewlines
    <2>4. \A i \in 1 .. a + b : Z[i] = NL
      BY <1>2, <2>1, <2>2, <2>3
    <2> QED
      BY <1>2, <2>4 DEF OnlyNewlines
  <1> QED
    BY <1>2, <1>3, <1>4, <1>5, <1>6

\* A line without newlines.
Line(l) == l \in Seq(Symbols) /\ \A i \in 1 .. Len(l) : l[i] # NL

\* Z is X with the line l and its newline.
WithLine(X, l, Z) ==
  /\ Z \in Seq(Symbols) /\ Z # <<>> /\ Last(Z) = NL /\ Front(Z) = X \o l
  /\ OnlyNewlines(Z) <=> OnlyNewlines(X) /\ l = <<>>

\* Y is the line l with its newline.
Ended(l, Y) == /\ Y \in Seq(Symbols) /\ Y # <<>> /\ Len(Y) = Len(l) + 1 /\ Y[Len(l) + 1] = NL
               /\ \A i \in 1 .. Len(l) : Y[i] = l[i]

\* A newline is put behind a line.
LEMMA LineEnded ==
  ASSUME NEW l, Line(l)
  PROVE  Ended(l, Append(l, NL))
  <1>1. NL \in Symbols /\ l \in Seq(Symbols)
    BY DEF Symbols, Line
  <1> QED
    BY <1>1, AppendProperties DEF Ended

\* A line is put behind a text.
LEMMA LineBehind ==
  ASSUME NEW X \in Seq(Symbols), NEW l, Line(l), NEW Y, Ended(l, Y), NEW Z, Z = X \o Y
  PROVE  WithLine(X, l, Z)
  <1>2. PICK b \in Nat : b = Len(l) /\ l \in Seq(Symbols)
    BY LenProperties DEF Line
  <1>4. /\ Y \in Seq(Symbols) /\ Y # <<>> /\ Len(Y) = b + 1 /\ Y[b + 1] = NL
        /\ \A i \in 1 .. b : Y[i] = l[i]
    BY <1>2 DEF Ended
  <1>5. /\ Z \in Seq(Symbols) /\ Z # <<>> /\ Last(Z) = Last(Y)
        /\ OnlyNewlines(Z) <=> OnlyNewlines(X) /\ OnlyNewlines(Y)
    BY <1>4, BehindText
  <1>6. Last(Y) = NL
    BY <1>4 DEF Last
  <1>7. OnlyNewlines(Y) <=> l = <<>>
    <2>1. ASSUME l = <<>> PROVE OnlyNewlines(Y)
      <3>1. b = 0
        BY <1>2, <2>1, EmptySeq
      <3>2. \A i \in 1 .. b + 1 : i = b + 1
        BY <3>1
      <3> QED
        BY <1>4, <3>2 DEF OnlyNewlines
    <2>2. ASSUME l # <<>> PROVE ~OnlyNewlines(Y)
      <3>1. b # 0
        BY <1>2, <2>2, EmptySeq
      <3>2. 1 \in 1 .. b /\ 1 \in 1 .. b + 1
        BY <3>1
      <3>3. Y[1] # NL
        BY <1>2, <1>4, <3>2 DEF Line
      <3> QED
        BY <1>4, <3>2, <3>3 DEF OnlyNewlines
    <2> QED
      BY <2>1, <2>2
  <1>8. Front(Z) = X \o l
    <2>1. PICK a \in Nat : a = Len(X)
      BY LenProperties
    <2>2. /\ Len(Z) = a + (b + 1)
          /\ \A i \in 1 .. a + (b + 1) : Z[i] = IF i <= a THEN X[i] ELSE Y[i - a]
      <3>1. PICK c \in Nat : c = b + 1
        OBVIOUS
      <3>2. Len(Y) = c /\ Y \in Seq(Symbols)
        BY <1>4, <3>1
      <3>3. /\ Len(Z) = a + c
            /\ \A i \in 1 .. a + c : Z[i] = IF i <= a THEN X[i] ELSE Y[i - a]
        BY <2>1, <3>2, ConcatProperties
      <3> QED
        BY <3>1, <3>3
    <2>3. PICK W : W = X \o l
      OBVIOUS
    <2>4. /\ W \in Seq(Symbols) /\ Len(W) = a + b
          /\ \A i \in 1 .. a + b : W[i] = IF i <= a THEN X[i] ELSE l[i - a]
      BY <1>2, <2>1, <2>3, ConcatProperties
    <2>5. \A i \in 1 .. a + b : i \in 1 .. a + (b + 1) /\ (~ (i <= a) => i - a \in 1 .. b)
      OBVIOUS
    <2>6. \A i \in 1 .. a + b : Z[i] = W[i]
      BY <1>4, <2>2, <2>4, <2>5
    <2>7. PICK n \in Nat : n = a + b
      OBVIOUS
    <2>8. Front(Z) = SubSeq(Z, 1, n)
      <3>1. (a + (b + 1)) - 1 = n
        BY <2>7
      <3> QED
        BY <2>2, <3>1 DEF Front
    <2>9. PICK V : V = SubSeq(Z, 1, n)
      OBVIOUS
    <2>10. \A i \in 1 .. n : Z[i] \in Symbols
      <3>1. \A i \in 1 .. n : W[i] \in Symbols
        BY <2>4, <2>7, ElementOfSeq
      <3> QED
        BY <2>6, <2>7, <3>1
    <2>11. /\ V \in Seq(Symbols) /\ Len(V) = (IF 1 <= n THEN n - 1 + 1 ELSE 0)
           /\ \A i \in 1 .. n - 1 + 1 : V[i] = Z[1 + i - 1]
      <3>1. 1 \in Int /\ n \in Int
        OBVIOUS
      <3>2. /\ SubSeq(Z, 1, n) \in Seq(Symbols)
            /\ Len(SubSeq(Z, 1, n)) = (IF 1 <= n THEN n - 1 + 1 ELSE 0)
            /\ \A i \in 1 .. n - 1 + 1 : SubSeq(Z, 1, n)[i] = Z[1 + i - 1]
        BY ONLY <2>10, <3>1, SubSeqProperties
      <3> QED
        BY <2>9, <3>2
    <2>12. Len(V) = n /\ \A i \in 1 .. n : V[i] = Z[i]
      <3>1. /\ (IF 1 <= n THEN n - 1 + 1 ELSE 0) = n /\ n - 1 + 1 = n
            /\ \A i \in 1 .. n : 1 + i - 1 = i
        OBVIOUS
      <3> QED
        BY <2>11, <3>1
    <2>13. \A i \in 1 .. Len(V) : V[i] = W[i]
      BY <2>6, <2>7, <2>12
    <2> QED
      <3>1. V \in Seq(Symbols) /\ W \in Seq(Symbols) /\ Len(V) = Len(W)
        BY <2>3, <2>4, <2>7, <2>8, <2>9, <2>11, <2>12
      <3>2. V = W
        BY <2>12, <2>13, <3>1, SeqEqual
      <3> QED
        BY <2>3, <2>8, <2>9, <3>2
  <1> QED
    BY <1>5, <1>6, <1>7, <1>8 DEF WithLine

\* What getchar gives, and the last line may lack its newline.
LEMMA Collected ==
  ASSUME NEW lines, NEW n \in Nat, n = Len(lines), n >= 1, \A k \in 1 .. n : Line(lines[k]),
         NEW ss, Len(ss) = n, \A k \in 1 .. n : ss[k] = Append(lines[k], NL)
  PROVE  \E X \in Seq(Symbols) :
           /\ Terminated(X) /\ WithLine(X, lines[n], FlattenSeq(ss))
           /\ OnlyNewlines(X) <=> \A k \in 1 .. n - 1 : lines[k] = <<>>
  <1>1. PICK f : /\ FlattenSeq(ss) = f[n] /\ f[1] = ss[1]
                 /\ \A i \in 2 .. n : f[i] = f[i - 1] \o ss[i]
    BY Flattened
  <1>2. PICK g : g = [i \in 0 .. n |-> IF i = 0 THEN <<>> ELSE f[i]]
    OBVIOUS
  <1>3. \A k \in 1 .. n : Ended(lines[k], ss[k])
    BY LineEnded
  <1>4. g[0] = <<>> /\ g[n] = FlattenSeq(ss)
    BY <1>1, <1>2
  <1>5. \A i \in 1 .. n : g[i] = g[i - 1] \o ss[i]
    <2> SUFFICES ASSUME NEW i \in 1 .. n PROVE g[i] = g[i - 1] \o ss[i]
      OBVIOUS
    <2>1. CASE i = 1
      <3>1. g[1] = ss[1] /\ g[0] = <<>>
        BY <1>1, <1>2
      <3>2. ss[1] \in Seq(Symbols)
        BY <1>3 DEF Ended
      <3>3. <<>> \o ss[1] = ss[1]
        BY <3>2, ConcatEmptySeq
      <3>4. g[1] = g[0] \o ss[1] /\ i - 1 = 0
        BY <2>1, <3>1, <3>3
      <3> QED
        BY <2>1, <3>4
    <2>2. CASE i # 1
      <3>1. i \in 2 .. n /\ i \in 0 .. n /\ i # 0 /\ i - 1 \in 0 .. n /\ i - 1 # 0
        BY <2>2
      <3>2. f[i] = f[i - 1] \o ss[i]
        BY <1>1, <3>1
      <3>3. g[i] = f[i] /\ g[i - 1] = f[i - 1]
        BY <1>2, <3>1
      <3> QED
        BY <3>2, <3>3
    <2> QED
      BY <2>1, <2>2
  <1> DEFINE Good(i) == /\ g[i] \in Seq(Symbols) /\ Terminated(g[i])
                        /\ OnlyNewlines(g[i]) <=> \A k \in 1 .. i : lines[k] = <<>>
             G == {i \in Nat : i <= n => Good(i)}
  <1>6. ASSUME NEW i \in 1 .. n, Good(i - 1)
        PROVE  WithLine(g[i - 1], lines[i], g[i])
    BY <1>3, <1>5, <1>6, LineBehind
  <1>7. 0 \in G
    <2>1. <<>> \in Seq(Symbols) /\ Len(<<>>) = 0
      OBVIOUS
    <2>2. Terminated(<<>>) /\ OnlyNewlines(<<>>)
      BY <2>1 DEF Terminated, OnlyNewlines
    <2>3. \A k \in 1 .. 0 : lines[k] = <<>>
      OBVIOUS
    <2>4. Good(0)
      BY <1>4, <2>1, <2>2, <2>3
    <2> HIDE DEF Good
    <2> QED
      BY <2>4
  <1>8. ASSUME NEW i \in Nat, i \in G PROVE i + 1 \in G
    <2> SUFFICES ASSUME i + 1 <= n PROVE Good(i + 1)
      OBVIOUS
    <2>1. PICK j : j = i + 1
      OBVIOUS
    <2>2. j \in 1 .. n /\ j - 1 = i /\ \A k \in 1 .. j : k = j \/ k \in 1 .. i
      BY <2>1
    <2>3. \A k \in 1 .. i : k \in 1 .. j
      BY <2>1
    <2>4. Good(i)
      BY <1>8
    <2>5. WithLine(g[i], lines[j], g[j])
      BY <1>6, <2>2, <2>4
    <2>6. /\ g[j] \in Seq(Symbols) /\ Terminated(g[j])
          /\ OnlyNewlines(g[j]) <=> OnlyNewlines(g[i]) /\ lines[j] = <<>>
      BY <2>5 DEF WithLine, Terminated
    <2>7. j \in 1 .. j
      BY <2>2
    <2>8. Good(j)
      BY <2>2, <2>3, <2>4, <2>6, <2>7
    <2> QED
      BY <2>1, <2>8
  <1>9. \A i \in 0 .. n : Good(i)
    <2>1. Nat \subseteq G
      <3> HIDE DEF G
      <3> QED
        BY <1>7, <1>8, Upwards
    <2> HIDE DEF Good
    <2> QED
      BY <2>1
  <1>10. n \in 1 .. n /\ n - 1 \in 0 .. n
    OBVIOUS
  <1>11. Good(n - 1)
    BY <1>9, <1>10
  <1>12. WithLine(g[n - 1], lines[n], g[n])
    BY <1>6, <1>10, <1>11
  <1> QED
    BY <1>4, <1>11, <1>12

\* The lines on standard input are lines.
LEMMA InputLines ==
  ASSUME CmdInv
  PROVE  /\ Len(meant.lines) \in Nat /\ DOMAIN meant.lines = 1 .. Len(meant.lines)
         /\ \A k \in 1 .. Len(meant.lines) : Line(meant.lines[k])
  <1>1. PICK lines : lines = meant.lines
    OBVIOUS
  <1>2. lines \in Seq(Seq(STRING \ {NL}))
    BY <1>1, CommandAssumption DEF CmdInv
  <1>3. Len(lines) \in Nat /\ DOMAIN lines = 1 .. Len(lines)
    BY <1>2, LenProperties
  <1>4. ASSUME NEW k \in 1 .. Len(lines) PROVE Line(lines[k])
    <2>1. PICK l : l = lines[k]
      OBVIOUS
    <2>2. l \in Seq(STRING \ {NL})
      BY <1>2, <2>1, ElementOfSeq
    <2>3. \A i \in 1 .. Len(l) : l[i] \in STRING \ {NL}
      BY <2>2, ElementOfSeq
    <2>4. \A i \in 1 .. Len(l) : l[i] \in Symbols /\ l[i] # NL
      BY <2>3 DEF Symbols
    <2>5. l \in Seq(Symbols)
      BY <2>2, <2>4, SeqOver
    <2> QED
      BY <2>1, <2>4, <2>5 DEF Line
  <1> QED
    BY <1>1, <1>3, <1>4

\* The lines with their newlines are a sequence of as many.
LEMMA LinesWithEnds ==
  ASSUME CmdInv, NEW ss, ss = [k \in DOMAIN meant.lines |-> Append(meant.lines[k], NL)]
  PROVE  /\ Len(ss) = Len(meant.lines)
         /\ \A k \in 1 .. Len(meant.lines) : ss[k] = Append(meant.lines[k], NL)
         /\ Len(meant.lines) = 0 => FlattenSeq(ss) = <<>>
  <1>1. PICK n \in Nat : n = Len(meant.lines) /\ DOMAIN meant.lines = 1 .. n
    BY InputLines
  <1>2. \A k \in 1 .. n : ss[k] = Append(meant.lines[k], NL)
    BY <1>1
  <1>3. ss = [k \in 1 .. n |-> ss[k]]
    BY <1>1
  <1>4. \A k \in 1 .. n : ss[k] \in Seq(Symbols)
    <2>1. \A k \in 1 .. n : Line(meant.lines[k])
      BY <1>1, InputLines
    <2>2. \A k \in 1 .. n : Ended(meant.lines[k], ss[k])
      BY <1>2, <2>1, LineEnded
    <2> QED
      BY <2>2 DEF Ended
  <1> HIDE DEF Symbols
  <1>5. PICK T : T = Seq(Symbols)
    OBVIOUS
  <1>6. ss \in [1 .. n -> T]
    BY <1>3, <1>4, <1>5
  <1>7. ss \in Seq(T) /\ DOMAIN ss = 1 .. n
    BY <1>6, SeqDef
  <1>8. Len(ss) = n
    BY <1>6, <1>7, LenProperties
  <1>9. n = 0 => FlattenSeq(ss) = <<>>
    <2>1. n = 0 => ss = <<>>
      BY <1>7, <1>8, EmptySeq
    <2>2. n = 0 => FlattenSeq(ss) = ss
      BY <1>8 DEF FlattenSeq
    <2> QED
      BY <2>1, <2>2
  <1> QED
    BY <1>1, <1>2, <1>8, <1>9

\* What is read from standard input ends with a newline if the last line has
\* one, and has only newlines if there are only empty lines.
LEMMA StdinEnds ==
  ASSUME CmdInv
  PROVE  /\ Stdin \in Seq(Symbols)
         /\ Terminated(Stdin) <=> meant.ended \/ Nameless(meant) \/ Last(meant.lines) = <<>>
         /\ OnlyNewlines(Stdin) => Nameless(meant)
  <1>1. PICK ss, all, last : /\ ss = [k \in DOMAIN meant.lines |-> Append(meant.lines[k], NL)]
                             /\ all = FlattenSeq(ss) /\ last = Last(meant.lines)
    OBVIOUS
  <1>2. Stdin = IF meant.ended \/ all = <<>> THEN all ELSE Front(all)
    BY <1>1 DEF Stdin
  <1>3. PICK n \in Nat : n = Len(meant.lines) /\ DOMAIN meant.lines = 1 .. n
    BY InputLines
  <1>4. /\ Len(ss) = n /\ \A k \in 1 .. n : ss[k] = Append(meant.lines[k], NL)
        /\ n = 0 => all = <<>>
    BY <1>1, <1>3, LinesWithEnds
  <1>5. \A k \in 1 .. n : Line(meant.lines[k])
    BY <1>3, InputLines
  <1>6. <<>> \in Seq(Symbols) /\ Terminated(<<>>)
    BY DEF Terminated
  <1>7. CASE n = 0
    <2>1. Stdin = <<>>
      BY <1>2, <1>4, <1>7
    <2>2. Nameless(meant)
      BY <1>3, <1>7 DEF Nameless
    <2> QED
      BY <1>6, <2>1, <2>2
  <1>8. CASE n # 0
    <2>1. PICK X \in Seq(Symbols) :
            /\ Terminated(X) /\ WithLine(X, meant.lines[n], all)
            /\ OnlyNewlines(X) <=> \A k \in 1 .. n - 1 : meant.lines[k] = <<>>
      <3>1. n >= 1
        BY <1>8
      <3> QED
        BY <1>1, <1>3, <1>4, <1>5, <3>1, Collected
    <2>2. last = meant.lines[n] /\ Line(last)
      <3>1. n \in 1 .. n
        BY <1>8
      <3> QED
        BY <1>1, <1>3, <1>5, <3>1 DEF Last
    <2>3. /\ all \in Seq(Symbols) /\ all # <<>> /\ Last(all) = NL /\ Front(all) = X \o last
          /\ OnlyNewlines(all) <=> OnlyNewlines(X) /\ last = <<>>
      BY <2>1, <2>2 DEF WithLine
    <2>4. Nameless(meant) <=> OnlyNewlines(X) /\ last = <<>>
      <3>1. Nameless(meant) <=> \A k \in 1 .. n : meant.lines[k] = <<>>
        BY <1>3 DEF Nameless
      <3>2. \A k \in 1 .. n : k = n \/ k \in 1 .. n - 1
        OBVIOUS
      <3>3. n \in 1 .. n /\ \A k \in 1 .. n - 1 : k \in 1 .. n
        BY <1>8
      <3> QED
        BY <2>1, <2>2, <3>1, <3>2, <3>3
    <2>5. CASE meant.ended
      <3>1. Stdin = all
        BY <1>2, <2>5
      <3>2. Terminated(all)
        BY <2>3 DEF Terminated
      <3> QED
        BY <2>3, <2>4, <2>5, <3>1, <3>2
    <2>6. CASE ~meant.ended
      <3>1. PICK Z : Z = X \o last
        OBVIOUS
      <3>2. Stdin = Z
        BY <1>2, <2>3, <2>6, <3>1
      <3>3. /\ Z \in Seq(Symbols)
            /\ last # <<>> => Z # <<>> /\ Last(Z) = Last(last)
            /\ last = <<>> => Z = X
            /\ OnlyNewlines(Z) <=> OnlyNewlines(X) /\ OnlyNewlines(last)
        <4>1. last \in Seq(Symbols)
          BY <2>2 DEF Line
        <4> QED
          BY <3>1, <4>1, BehindText
      <3>4. last # <<>> => Last(last) # NL /\ ~OnlyNewlines(last)
        <4>1. PICK b \in Nat : b = Len(last) /\ \A i \in 1 .. b : last[i] # NL
          BY <2>2, LenProperties DEF Line
        <4>2. last # <<>> => b \in 1 .. b
          <5>1. last # <<>> => b # 0
            BY <2>2, <4>1, EmptySeq DEF Line
          <5> QED
            BY <5>1
        <4> QED
          BY <4>1, <4>2 DEF Last, OnlyNewlines
      <3>5. Terminated(Z) <=> last = <<>>
        BY <2>1, <3>3, <3>4 DEF Terminated
      <3> QED
        BY <1>1, <2>4, <2>6, <3>2, <3>3, <3>4, <3>5
    <2> QED
      BY <2>5, <2>6
  <1> QED
    BY <1>7, <1>8

\* The last of ascending numbers is the largest one.
LEMMA LastAscending ==
  ASSUME NEW n \in Nat, NEW Ks, Ks \subseteq 1 .. n, NEW max \in Ks, \A k \in Ks : k <= max
  PROVE  /\ Cardinality(Ks) \in Nat /\ Cardinality(Ks) # 0
         /\ Ascending(Ks)[Cardinality(Ks)] = max
  <1> DEFINE Below(k) == {l \in Ks : l <= k}
  <1>1. IsFiniteSet(Ks)
    <2>1. IsFiniteSet(1 .. n)
      BY FS_Interval
    <2> QED
      BY <2>1, FS_Subset
  <1>2. PICK c \in Nat : c = Cardinality(Ks)
    BY <1>1, FS_CardinalityType
  <1>3. c # 0
    BY <1>1, <1>2, FS_EmptySet
  <1>4. Below(max) = Ks
    OBVIOUS
  <1>5. ASSUME NEW k \in Ks, Cardinality(Below(k)) = c PROVE k = max
    <2>1. Below(k) \in SUBSET Ks
      OBVIOUS
    <2>2. Cardinality(Ks) = Cardinality(Below(k)) => Ks = Below(k)
      <3> HIDE DEF Below
      <3> QED
        BY <1>1, <2>1, FS_Subset
    <2>3. max \in Below(k)
      BY <1>2, <1>5, <2>2
    <2>4. max <= k /\ k <= max /\ k \in Int /\ max \in Int
      BY <2>3
    <2> QED
      BY <2>4
  <1>6. Ascending(Ks)[c] = CHOOSE k \in Ks : Cardinality(Below(k)) = c
    <2>1. c \in 1 .. Cardinality(Ks)
      BY <1>2, <1>3
    <2> QED
      BY <2>1 DEF Ascending
  <1>7. Cardinality(Below(max)) = c
    BY <1>2, <1>4
  <1> HIDE DEF Below
  <1>8. (CHOOSE k \in Ks : Cardinality(Below(k)) = c) = max
    BY <1>5, <1>7
  <1> QED
    BY <1>2, <1>3, <1>6, <1>8

\* std_input keeps the end of what it reads, and nothing only of newlines.
LEMMA KeptEnds ==
  ASSUME NEW text \in Seq(Symbols)
  PROVE  /\ Terminated(Kept(text)) <=> Terminated(text)
         /\ Kept(text) = <<>> => OnlyNewlines(text)
  <1>1. PICK n \in Nat : n = Len(text) /\ DOMAIN text = 1 .. n
    BY LenProperties
  <1> DEFINE Keep == {k \in DOMAIN text : ~(text[k] = NL /\ (k = 1 \/ text[k - 1] = NL))}
  <1>2. PICK Ks, A : Ks = Keep /\ A = Ascending(Ks)
    OBVIOUS
  <1>3. /\ \A k \in Ks : k \in 1 .. n
        /\ \A k \in 1 .. n : k \notin Ks => text[k] = NL /\ (k = 1 \/ text[k - 1] = NL)
    BY <1>1, <1>2
  <1>4. PICK kept : kept = [j \in 1 .. Cardinality(Ks) |-> text[A[j]]]
    OBVIOUS
  <1>5. Kept(text) = kept
    BY <1>2, <1>4 DEF Kept
  <1> HIDE DEF Keep
  <1>6. IsFiniteSet(Ks) /\ Cardinality(Ks) \in Nat
    <2>1. IsFiniteSet(1 .. n)
      BY FS_Interval
    <2>2. Ks \subseteq 1 .. n
      BY <1>3
    <2> QED
      BY <2>1, <2>2, FS_Subset, FS_CardinalityType
  <1>7. CASE Ks = {}
    <2>1. \A k \in 1 .. n : text[k] = NL
      BY <1>3, <1>7
    <2>2. OnlyNewlines(text)
      BY <1>1, <2>1 DEF OnlyNewlines
    <2>3. Terminated(text)
      <3>1. text # <<>> => n # 0
        BY <1>1, EmptySeq
      <3>2. n # 0 => n \in 1 .. n
        OBVIOUS
      <3> QED
        BY <1>1, <2>1, <3>1, <3>2 DEF Terminated, Last
    <2>4. kept = <<>>
      <3>1. Cardinality(Ks) = 0
        BY <1>7, FS_EmptySet
      <3> QED
        BY <1>4, <3>1
    <2> QED
      BY <1>5, <2>2, <2>3, <2>4 DEF Terminated
  <1>8. CASE Ks # {}
    <2>1. PICK max \in Ks : \A k \in Ks : k <= max
      <3>1. Ks \subseteq 0 .. n
        BY <1>3
      <3> QED
        BY <1>8, <3>1, LargestUpTo
    <2>2. PICK c \in Nat : c = Cardinality(Ks) /\ c # 0 /\ A[c] = max
      <3>1. Ks \subseteq 1 .. n
        BY <1>3
      <3> QED
        BY <1>2, <2>1, <3>1, LastAscending
    <2>3. /\ c \in 1 .. c /\ kept = [j \in 1 .. c |-> text[A[j]]]
      BY <1>4, <2>2
    <2>4. kept[c] = text[max] /\ Len(kept) = c /\ kept # <<>>
      <3>1. kept[c] = text[max]
        BY <2>2, <2>3
      <3>2. Len(kept) = c
        BY <2>3
      <3>3. DOMAIN kept # DOMAIN <<>>
        BY <2>3
      <3> QED
        BY <3>1, <3>2, <3>3
    <2>5. max \in 1 .. n /\ n \in 1 .. n /\ n # 0
      BY <1>3, <2>1
    <2>6. text[max] = NL <=> text[n] = NL
      <3>1. CASE max = n
        BY <3>1
      <3>2. CASE max # n
        <4>1. n \notin Ks /\ max + 1 \notin Ks /\ max + 1 \in 1 .. n /\ max + 1 # 1
              /\ (max + 1) - 1 = max
          BY <2>1, <2>5, <3>2
        <4>2. text[n] = NL
          BY <1>3, <2>5, <4>1
        <4>3. text[max] = NL
          BY <1>3, <4>1
        <4> QED
          BY <4>2, <4>3
      <3> QED
        BY <3>1, <3>2
    <2>7. text # <<>>
      BY <1>1, <2>5, EmptySeq
    <2>8. Last(kept) = text[max] /\ Last(text) = text[n]
      BY <1>1, <2>4 DEF Last
    <2> QED
      BY <1>5, <2>4, <2>6, <2>7, <2>8 DEF Terminated
  <1> QED
    BY <1>7, <1>8

-----------------------------------------------------------------------------
(* The steps that make the list of files.                                  *)

\* What is known while it is made.
LEMMA WhileListed ==
  ASSUME CmdInv, pc \in {"input", "recurse", "scan", "work"}
  PROVE  /\ ValuesMeant /\ ~BadValue /\ (Given("o") => CanOpen)
         /\ Letters(meant) \subseteq Known /\ Fits(Letters(meant)) /\ "v" \notin Letters(meant)
         /\ set = Presumed(Letters(meant)) /\ work = "none"
         /\ pc = "input" => argv = meant.files
         /\ pc # "input" => ("i" \in Letters(meant) => InputProper)
         /\ pc # "scan" => ~Scanning
         /\ \A l \in {"i", "R", "-"} : l \in set <=> l \in Letters(meant)
  <1>1. pc \in Later
    BY DEF Later
  <1>2. Passed /\ ValuesMeant
    BY <1>1 DEF CmdInv
  <1>3. set = Presumed(Letters(meant))
    BY <1>2 DEF Passed
  <1>4. \A l \in {"i", "R", "-"} : l \in set <=> l \in Letters(meant)
    BY <1>3 DEF Presumed
  <1>5. /\ Letters(meant) \subseteq Known /\ Fits(Letters(meant)) /\ "v" \notin Letters(meant)
        /\ ~BadValue /\ (Given("o") => CanOpen)
        /\ pc = "input" => argv = meant.files
        /\ pc # "input" => ("i" \in Letters(meant) => InputProper)
    BY <1>2 DEF Passed
  <1> QED
    BY <1>2, <1>3, <1>4, <1>5 DEF CmdInv

\* The output file can still be opened.
LEMMA StillOpens ==
  ASSUME CmdInv, UNCHANGED <<tree, value>>, gone \subseteq gone', CanOpen
  PROVE  CanOpen'
  <1>1. Opens(tree, gone, value["o"])
    BY WhatItIs
  <1>2. Opens(tree, gone', value["o"])
    BY <1>1, OpensLost, ValueTypes
  <1>3. Opens(tree', gone', value'["o"])
    BY <1>2
  <1> QED
    BY <1>3, WhatItIs

\* A step of the list that goes on.
LEMMA ListOn ==
  ASSUME CmdInv, pc \in {"input", "recurse", "scan", "work"}, pc' \in {"recurse", "scan", "work"},
         UNCHANGED <<tree, meant, set, value, work>>, gone \subseteq gone',
         pc' # "scan" => ~Scanning',
         pc = "input" => ("i" \in Letters(meant) => InputProper)
  PROVE  CmdInv'
  <1>1. ~BadValue /\ (Given("o") => CanOpen) /\ ("i" \in Letters(meant) => InputProper)
    BY WhileListed
  <1>2. Given("o") => CanOpen'
    BY <1>1, StillOpens
  <1>3. pc \in Later /\ pc' \in Later /\ pc' \notin {"values", "output", "input"}
    BY DEF Later
  <1> QED
    BY <1>1, <1>2, <1>3, Onward

\* The names are read from standard input.
LEMMA StdInputStep ==
  ASSUME CmdInv, StdInput
  PROVE  CmdInv'
  <1>1. PICK text : text = Kept(Stdin)
    OBVIOUS
  <1>2. /\ pc = "input" /\ "i" \in set
        /\ UNCHANGED <<tree, gone, fn, entering, frames, meant, set, value, work>>
        /\ \/ /\ argv # <<>> \/ text = <<>> \/ ~Terminated(text)
              /\ pc' = "exit" /\ status' = 1
           \/ argv = <<>> /\ Terminated(text) /\ pc' = "recurse"
    BY <1>1 DEF StdInput, Fatal, Exit, Goto
  <1>3. /\ "i" \in Letters(meant) /\ "v" \notin Letters(meant) /\ argv = meant.files /\ ~Scanning
    BY <1>2, WhileListed
  <1>4. /\ Stdin \in Seq(Symbols)
        /\ Terminated(Stdin) <=> meant.ended \/ Nameless(meant) \/ Last(meant.lines) = <<>>
        /\ OnlyNewlines(Stdin) => Nameless(meant)
    BY StdinEnds
  <1>5. /\ Terminated(text) <=> meant.ended \/ Nameless(meant) \/ Last(meant.lines) = <<>>
        /\ text = <<>> => Nameless(meant)
    BY <1>1, <1>4, KeptEnds
  <1>6. CASE /\ argv # <<>> \/ text = <<>> \/ ~Terminated(text)
             /\ pc' = "exit" /\ status' = 1
    <2>1. ~Proper(meant, CanOpen) \/ ("i" \in Letters(meant) /\ Nameless(meant))
      <3>1. argv # <<>> \/ ~Terminated(text) => ~Proper(meant, CanOpen)
        BY <1>3, <1>5 DEF Proper
      <3> QED
        BY <1>3, <1>5, <1>6, <3>1
    <2>2. pc \notin {"exit", "scan"}
      BY <1>2
    <2>3. UNCHANGED <<tree, gone, fn, entering, frames, meant, value, work>>
      BY <1>2
    <2> QED
      BY <1>6, <2>1, <2>2, <2>3, Refusing
  <1>7. CASE argv = <<>> /\ Terminated(text) /\ pc' = "recurse"
    <2>1. InputProper
      BY <1>3, <1>5, <1>7 DEF InputProper
    <2>2. ~Scanning'
      BY <1>2, <1>3 DEF Scanning
    <2>3. UNCHANGED <<tree, meant, set, value, work>> /\ gone \subseteq gone'
      BY <1>2
    <2> QED
      BY <1>2, <1>7, <2>1, <2>2, <2>3, ListOn
  <1> QED
    BY <1>2, <1>6, <1>7

\* Steps of the list that leave what was scanned.
LEMMA ListSteps ==
  ASSUME CmdInv, NoStdInput \/ Recurse \/ NoRecurse \/ EndOfScan
  PROVE  CmdInv'
  <1>1. /\ UNCHANGED <<tree, gone, fn, entering, frames, meant, set, value, work>>
        /\ \/ pc = "input" /\ "i" \notin set /\ pc' = "recurse"
           \/ pc = "recurse" /\ pc' \in {"scan", "work"}
           \/ pc = "scan" /\ ~Scanning /\ pc' = "work"
    <2>1. CASE NoStdInput
      BY <2>1 DEF NoStdInput, Goto, treeVars
    <2>2. CASE Recurse
      BY <2>2 DEF Recurse, Goto
    <2>3. CASE NoRecurse
      BY <2>3 DEF NoRecurse, Goto, treeVars
    <2>4. CASE EndOfScan
      BY <2>4 DEF EndOfScan, Goto, treeVars
    <2> QED
      BY <2>1, <2>2, <2>3, <2>4
  <1>2. pc \in {"input", "recurse", "scan", "work"} /\ pc' \in {"recurse", "scan", "work"}
    BY <1>1
  <1>3. ~Scanning /\ ~Scanning'
    <2>1. ~Scanning
      BY <1>1, WhileListed
    <2> QED
      BY <1>1, <2>1 DEF Scanning
  <1>4. pc = "input" => ("i" \in Letters(meant) => InputProper)
    BY <1>1, WhileListed
  <1>5. UNCHANGED <<tree, meant, set, value, work>> /\ gone \subseteq gone'
    BY <1>1
  <1> QED
    BY <1>2, <1>3, <1>4, <1>5, ListOn

\* Steps of a scan, and of others meanwhile.
LEMMA ScanSteps ==
  ASSUME CmdInv, NextArgument \/ ScanStep \/ OthersRemove
  PROVE  CmdInv'
  <1>1. /\ pc = "scan" /\ pc' = "scan" /\ UNCHANGED <<tree, meant, set, value, work>>
        /\ gone \subseteq gone'
    <2>1. CASE NextArgument
      BY <2>1 DEF NextArgument
    <2>2. CASE ScanStep
      <3>1. UNCHANGED <<tree, gone>>
        BY <2>2 DEF ScanStep, ScanNext, NotThere, Visit, ReadEntry, Leave
      <3> QED
        BY <2>2, <3>1 DEF ScanStep, mainVars
    <2>3. CASE OthersRemove
      <3>1. frames # <<>> /\ tree' = tree /\ gone \subseteq gone' /\ UNCHANGED mainVars
        BY <2>3 DEF OthersRemove, EntryRemoved
      <3>2. Scanning
        BY <3>1 DEF Scanning
      <3>3. pc = "scan"
        BY <3>2 DEF CmdInv
      <3> QED
        BY <3>1, <3>3 DEF mainVars
    <2> QED
      BY <2>1, <2>2, <2>3
  <1> QED
    BY <1>1, ListOn

\* The work is done for proper uses.
LEMMA WorkStep ==
  ASSUME CmdInv, Work
  PROVE  CmdInv'
  <1>1. /\ pc = "work" /\ pc' = "exit" /\ status' = 0
        /\ work' = IF "-" \in set THEN "scan" ELSE IF "p" \in set THEN "percentages" ELSE "runs"
        /\ UNCHANGED <<tree, gone, fn, entering, frames, meant, set, value>>
    BY DEF Work, Exit, treeVars
  <1>2. /\ ValuesMeant /\ ~BadValue /\ (Given("o") => CanOpen)
        /\ Letters(meant) \subseteq Known /\ Fits(Letters(meant)) /\ "v" \notin Letters(meant)
        /\ set = Presumed(Letters(meant))
        /\ "i" \in Letters(meant) => InputProper
        /\ "-" \in set <=> "-" \in Letters(meant)
    BY <1>1, WhileListed
  <1>3. /\ "r" \in Letters(meant) => NumberFor(meant, "r") # 0
        /\ "w" \in Letters(meant) => NumberFor(meant, "w") > 0
        /\ "t" \in Letters(meant) => NumberFor(meant, "t") \in 1 .. 100
        /\ "o" \in Letters(meant) => CanOpen
    <2>1. \A l \in WithValue : /\ Given(l) <=> l \in Letters(meant)
                               /\ l \in Letters(meant) => Atoi(value[l]) = NumberFor(meant, l)
      BY <1>2, ValuesGiven
    <2>2. PICK r, w, t : r = Atoi(value["r"]) /\ w = Atoi(value["w"]) /\ t = Atoi(value["t"])
      OBVIOUS
    <2>3. w \in Int /\ t \in Int
      BY <2>2, AtoiInt
    <2>4. /\ "r" \in Letters(meant) => NumberFor(meant, "r") = r /\ r # 0
          /\ "w" \in Letters(meant) => NumberFor(meant, "w") = w /\ ~ (w <= 0)
          /\ "t" \in Letters(meant) => NumberFor(meant, "t") = t /\ ~ (t > 100 \/ t <= 0)
      BY <1>2, <2>1, <2>2 DEF BadValue, WithValue
    <2>5. (~ (w <= 0) => w > 0) /\ (~ (t > 100 \/ t <= 0) => t \in 1 .. 100)
      BY <2>3
    <2>6. "o" \in Letters(meant) => CanOpen
      BY <1>2, <2>1 DEF WithValue
    <2> QED
      BY <2>4, <2>5, <2>6
  <1>4. Proper(meant, CanOpen)
    <2>1. /\ \A x, y \in Exclusive : x \in Letters(meant) /\ y \in Letters(meant) => x = y
          /\ "t" \in Letters(meant) => "p" \in Letters(meant) \/ "P" \in Letters(meant)
      BY <1>2 DEF Fits
    <2>2. "i" \in Letters(meant) =>
            meant.files = <<>> /\ (meant.ended \/ Nameless(meant) \/ Last(meant.lines) = <<>>)
      BY <1>2 DEF InputProper
    <2> QED
      BY <1>2, <1>3, <2>1, <2>2 DEF Proper
  <1>5. Judged(meant, CanOpen, set', work', status')
    <2>1. "p" \in set <=> "p" \in Letters(meant) \/ "P" \in Letters(meant)
      BY <1>2 DEF Presumed
    <2>2. set' = Letters(meant) \cup
            (IF "p" \in Letters(meant) \/ "P" \in Letters(meant) THEN {"p", "e", "s"} ELSE {})
      BY <1>1, <1>2 DEF Presumed
    <2>3. work' # "none"
      BY <1>1
    <2> QED
      BY <1>1, <1>2, <1>4, <2>1, <2>2, <2>3 DEF Judged
  <1>6. pc \notin {"exit", "scan"} /\ UNCHANGED <<tree, gone, fn, entering, frames, meant, value>>
    BY <1>1
  <1> QED
    BY <1>1, <1>5, <1>6, Ending

-----------------------------------------------------------------------------
(* The theorems.                                                           *)

\* At first nothing is read.
LEMMA Starting ==
  ASSUME MainInit
  PROVE  CmdInv
  <1>1. PICK opts \in Options, files \in Arguments, lines \in Inputs, ended \in BOOLEAN :
          \E joined, apart \in SUBSET (1 .. Len(opts)) :
            /\ meant = [opts |-> opts, files |-> files, lines |-> lines, ended |-> ended]
            /\ argv = Spelling(opts, joined, apart)[1] \o files
    BY ZenonT(60) DEF MainInit
  <1>2. PICK joined \in SUBSET (1 .. Len(opts)), apart \in SUBSET (1 .. Len(opts)) :
            /\ meant = [opts |-> opts, files |-> files, lines |-> lines, ended |-> ended]
            /\ argv = Spelling(opts, joined, apart)[1] \o files
    BY <1>1
  <1>3. meant.opts = opts /\ meant.files = files /\ meant.lines = lines /\ meant.ended = ended
    BY <1>2
  <1>4. /\ set = {} /\ value = [l \in WithValue |-> NoValue] /\ pc = "options" /\ work = "none"
        /\ tree \in Trees /\ ~Scanning
    BY DEF MainInit, TreeInit, Scanning
  <1>5. value \in [WithValue -> Seq(Symbols)]
    <2>1. NoValue \in Seq(Symbols)
      BY DEF NoValue
    <2> QED
      BY <1>4, <2>1
  <1>6. ReadUpTo(opts, 0)
    <2>1. {opts[j].letter : j \in 1 .. 0} = {}
      OBVIOUS
    <2>2. ASSUME NEW l \in WithValue PROVE value[l] = ValueAfter(opts, l, 0)
      <3>1. {j \in 1 .. 0 : opts[j].letter = l} = {}
        OBVIOUS
      <3> QED
        BY <1>4, <3>1 DEF ValueAfter
    <2> QED
      BY <1>4, <2>1, <2>2 DEF ReadUpTo
  <1>7. Parsing
    <2>1. Len(opts) \in Nat
      BY CommandAssumption, LenProperties
    <2>2. 0 \in 0 .. Len(opts) /\ 0 + 1 = 1
      BY <2>1
    <2> QED
      BY <1>2, <1>3, <1>6, <2>2 DEF Parsing
  <1> QED
    BY <1>3, <1>4, <1>5, <1>7 DEF CmdInv, Later

\* Nothing changes.
LEMMA Standing ==
  ASSUME CmdInv, UNCHANGED cmdVars
  PROVE  CmdInv'
  <1>1. UNCHANGED <<tree, gone, fn, entering, frames, meant, argv, set, value, pc, work, status>>
    BY DEF cmdVars, treeVars, mainVars
  <1>2. ASSUME Parsing PROVE Parsing'
    <2>1. PICK opts, files : opts = meant.opts /\ files = meant.files
      OBVIOUS
    <2>2. PICK joined \in SUBSET (1 .. Len(opts)), apart \in SUBSET (1 .. Len(opts)),
               m \in 0 .. Len(opts) :
            argv = Spelling(opts, joined, apart)[m + 1] \o files /\ ReadUpTo(opts, m)
      BY <1>2, <2>1 DEF Parsing
    <2>3. opts = meant'.opts /\ files = meant'.files
      BY <1>1, <2>1
    <2>4. ReadUpTo(opts, m)'
      BY <1>1, <2>2 DEF ReadUpTo
    <2>5. argv' = Spelling(opts, joined, apart)[m + 1] \o files
      BY <1>1, <2>2
    <2> QED
      BY <2>3, <2>4, <2>5 DEF Parsing
  <1>3. (Scanning' <=> Scanning) /\ (ValuesMeant' <=> ValuesMeant) /\ (BadValue' <=> BadValue)
        /\ (Given("o")' <=> Given("o")) /\ (InputProper' <=> InputProper)
    BY <1>1 DEF Scanning, ValuesMeant, BadValue, Given, InputProper
  <1>4. CanOpen' <=> CanOpen
    <2>1. /\ CanOpen <=> Opens(tree, gone, value["o"])
          /\ CanOpen' <=> Opens(tree', gone', value'["o"])
      BY WhatItIs
    <2> QED
      BY <1>1, <2>1
  <1>5. Passed' <=> Passed
    BY <1>1, <1>3, <1>4 DEF Passed
  <1>6. ASSUME pc = "exit" PROVE WorkFits' <=> WorkFits
    <2>1. (ProperUse <=> Proper(meant, CanOpen)) /\ (ProperUse' <=> Proper(meant', CanOpen'))
      BY WhatItIs
    <2>2. ProperUse' <=> ProperUse
      BY <1>1, <1>4, <2>1
    <2>3. (NoNames' <=> NoNames) /\ MeantLetters' = MeantLetters
      BY <1>1 DEF NoNames, MeantLetters
    <2>4. \A l : Meant(l)' <=> Meant(l)
      BY <2>3 DEF Meant
    <2> QED
      BY <1>1, <2>2, <2>3, <2>4 DEF WorkFits
  <1>7. ReadUpTo(meant.opts, Len(meant.opts))' <=> ReadUpTo(meant.opts, Len(meant.opts))
    BY <1>1 DEF ReadUpTo
  <1> QED
    BY <1>1, <1>2, <1>3, <1>5, <1>6, <1>7 DEF CmdInv

\* A command line is always in a state that CmdInv describes.
THEOREM CmdInvariance == CmdSpec => []CmdInv
  <1>1. MainInit => CmdInv
    BY Starting
  <1>2. CmdInv /\ [CmdNext]_cmdVars => CmdInv'
    <2> SUFFICES ASSUME CmdInv, [CmdNext]_cmdVars PROVE CmdInv'
      OBVIOUS
    <2>1. CASE DoArg \/ EndOfOptions
      BY <2>1, DoArgStep, EndOfOptionsStep
    <2>2. CASE Incompatible \/ ShowVersion \/ SimpleOptions \/ ValueOptions
      BY <2>2, IncompatibleStep, ShowVersionStep, SimpleOptionsStep, ValueOptionsStep
    <2>3. CASE OpenOutput \/ NoOutput
      BY <2>3, OpenOutputStep, NoOutputStep
    <2>4. CASE StdInput
      BY <2>4, StdInputStep
    <2>5. CASE NoStdInput \/ Recurse \/ NoRecurse \/ EndOfScan
      BY <2>5, ListSteps
    <2>6. CASE NextArgument \/ ScanStep \/ OthersRemove
      BY <2>6, ScanSteps
    <2>7. CASE Work
      BY <2>7, WorkStep
    <2>8. CASE UNCHANGED cmdVars
      BY <2>8, Standing
    <2> QED
      BY <2>1, <2>2, <2>3, <2>4, <2>5, <2>6, <2>7, <2>8 DEF CmdNext
  <1> QED
    BY <1>1, <1>2, PTL DEF CmdSpec

\* do_options reads what was meant, however options and values are joined.
THEOREM MeaningRead == CmdSpec => []MeaningKept
  <1>1. CmdInv => MeaningKept
    <2> SUFFICES ASSUME CmdInv, pc = "check"
                 PROVE  /\ set = MeantLetters /\ argv = meant.files
                        /\ \A l \in WithValue :
                             LET Ones == {k \in DOMAIN meant.opts : meant.opts[k].letter = l}
                             IN value[l] = IF Ones = {} THEN NoValue
                                           ELSE meant.opts[Max(Ones)].value
      BY DEF MeaningKept
    <2>1. set = MeantLetters /\ argv = meant.files /\ ValuesMeant
      BY AtCheck, WhatItIs
    <2>2. DOMAIN meant.opts = 1 .. Len(meant.opts)
      BY MeantTypes
    <2>3. \A l \in WithValue :
            LET Ones == {k \in DOMAIN meant.opts : meant.opts[k].letter = l}
            IN value[l] = IF Ones = {} THEN NoValue ELSE meant.opts[Max(Ones)].value
      BY <2>1, <2>2 DEF ValuesMeant, ValueAfter
    <2> QED
      BY <2>1, <2>3
  <1> QED
    BY <1>1, CmdInvariance, PTL

\* What main refuses is no proper use, and what it does is what was meant.
THEOREM WorkDone == CmdSpec => []WorkFits
  <1>1. CmdInv => WorkFits
    BY DEF CmdInv, WorkFits
  <1> QED
    BY <1>1, CmdInvariance, PTL
=============================================================================
