----------------------------- MODULE Comparison -----------------------------
(***************************************************************************)
(* compare.c, add_run.c and algollike.c of SIM: every new text is compared *)
(* with the texts it must be compared to.  At each position the longest    *)
(* run is looked for of which a copy that does not overlap it follows,     *)
(* along the chain of forward references; it is entered and skipped.       *)
(***************************************************************************)
EXTENDS ForwardRefs, FiniteSets

CONSTANTS Options,    \* option sets the program is called with
          NonFinal,   \* tokens a run must not end with (non_finals)
          Opener,     \* -f: Opener[k] opens what Closer[k] closes; an opener
          Closer      \* may lack its closer (miralang.l)

ASSUME ComparisonAssumption ==
  /\ Options \subseteq SUBSET {"e", "f", "p", "s", "S"}
  /\ \A o \in Options : "p" \in o => {"e", "s"} \subseteq o
  /\ NonFinal \subseteq Token
  /\ Opener \in Seq(Token) /\ Closer \in Seq(Token) /\ Len(Closer) <= Len(Opener)
  /\ \A k \in DOMAIN Closer : Closer[k] \notin NonFinal    \* so in every *lang.l

VARIABLES
  option,   \* is_set_option
  new,      \* n of Compare_Files and of compare_one_text: text to be compared
  first,    \* the texts it is compared with: first ...
  upto,     \* ... until before upto
  i0,       \* position in text new
  txt1, i1, \* text and position in the chain of candidates
  best,     \* best candidate: size, text and position
  runs      \* runs entered by add_run, in this order

pairVars == <<option, new, first, upto>>
scanVars == <<i0, txt1, i1, best>>
cmpVars == <<pairVars, scanVars, runs>>
simVars == <<textVars, phase, refVars, cmpVars>>

None == [size |-> 0, text |-> 0, at |-> 0]

\* first of Compare_Files: the text m is compared with and all after it.
FirstFor(m) == IF "S" \in option THEN new_texts + 1
               ELSE IF "s" \in option THEN m + 1
               ELSE m

CompareInit == /\ RefsInit
               /\ option \in Options
               /\ new = 0 /\ first = 0 /\ upto = 0
               /\ i0 = 0 /\ txt1 = 0 /\ i1 = 0
               /\ best = None
               /\ runs = <<>>

MakeReferences == RefsNext /\ UNCHANGED cmpVars

StartCompare == /\ phase = "compare"
                /\ new' = 0
                /\ first' = FirstFor(0)
                /\ phase' = "pair"
                /\ UNCHANGED <<textVars, refVars, option, upto, scanVars, runs>>

\* Compare_Files: all texts from first on in one action, or one at a time.
ComparePair == /\ phase = "pair" /\ new < new_texts /\ first < texts
               /\ upto' = IF "e" \in option THEN first + 1 ELSE texts
               /\ i0' = Start(new)
               /\ phase' = "scan"
               /\ UNCHANGED <<textVars, refVars, option, new, first, txt1, i1, best, runs>>

CompareNext == /\ phase = "pair" /\ new < new_texts /\ first >= texts
               /\ new' = new + 1
               /\ first' = FirstFor(new')
               /\ UNCHANGED <<textVars, phase, refVars, option, upto, scanVars, runs>>

CompareDone == /\ phase = "pair" /\ new = new_texts
               /\ phase' = "done"
               /\ UNCHANGED <<textVars, refVars, cmpVars>>

-----------------------------------------------------------------------------
(* compare_one_text.                                                       *)
ScanPosition == /\ phase = "scan" /\ i0 + MinRun <= Limit(new)
                /\ txt1' = new
                /\ i1' = i0
                /\ best' = None
                /\ phase' = "lcs"
                /\ UNCHANGED <<textVars, refVars, pairVars, i0, runs>>

ScanDone == /\ phase = "scan" /\ i0 + MinRun > Limit(new)
            /\ first' = upto
            /\ phase' = "pair"
            /\ UNCHANGED <<textVars, refVars, option, new, upto, scanVars, runs>>

-----------------------------------------------------------------------------
(* The language: Best_Run_Size.                                            *)
\* How many of the tokens from p on, of the given number, are in S.
CountOf(S, p, size) == Cardinality({k \in p .. p + size - 1 : array[k] \in S})

Closers(k) == {Closer[l] : l \in {k} \cap DOMAIN Closer}
Balance(k, p, size) == CountOf({Opener[k]}, p, size) - CountOf(Closers(k), p, size)

\* Mutant of Routine: what is still open at the end does not count.
RoutineOpen(p, size) ==
  CHOOSE s \in 0 .. size :
    LET NotClosed(t) == \A u \in 0 .. t, k \in DOMAIN Opener : Balance(k, p, u) >= 0
    IN NotClosed(s) /\ \A t \in s + 1 .. size : ~NotClosed(t)

\* largest_routine: the longest part, from the start, that leaves nothing
\* open, looking no further than a closer too many.
Routine(p, size) ==
  CHOOSE s \in 0 .. size :
    LET Balanced(t) == /\ \A k \in DOMAIN Opener : Balance(k, p, t) = 0
                       /\ \A u \in 0 .. t, k \in DOMAIN Opener : Balance(k, p, u) >= 0
    IN Balanced(s) /\ \A t \in s + 1 .. size : ~Balanced(t)

\* Trailing tokens that cannot end a run are cut off.
WithoutTail(p, size) ==
  CHOOSE s \in 0 .. size :
    /\ s # 0 => array[p + s - 1] \notin NonFinal
    /\ \A t \in s + 1 .. size : array[p + t - 1] \in NonFinal

BestRunSize(p, size) ==
  IF array[p] \notin Starter THEN 0
  ELSE WithoutTail(p, IF "f" \in option THEN Routine(p, size) ELSE size)

-----------------------------------------------------------------------------
(* lcs: one candidate.                                                     *)
\* Mutant of Matches: a run may overlap its copy.
MatchesOverlapping(p, m, q, size) == /\ p + size <= Limit(new)
                                     /\ q + size <= Limit(m)
                                     /\ p < q
                                     /\ \A k \in 0 .. size - 1 : array[p + k] = array[q + k]

\* Mutant of Matches: the last token of text0 is left out.
MatchesShort(p, m, q, size) == /\ p + size < Limit(new)
                               /\ q + size <= Limit(m)
                               /\ p + size <= q
                               /\ \A k \in 0 .. size - 1 : array[p + k] = array[q + k]

\* size tokens at p and q are equal, inside their texts, and do not overlap.
Matches(p, m, q, size) == /\ p + size <= Limit(new)
                          /\ q + size <= Limit(m)
                          /\ p + size <= q
                          /\ \A k \in 0 .. size - 1 : array[p + k] = array[q + k]

\* Mutant of LongestMatch: a match is not extended.
LongestMatchLeast(p, m, q) ==
  LET least == IF best.size # 0 THEN best.size + 1 ELSE MinRun
  IN IF Matches(p, m, q, least) THEN least ELSE 0

\* The longest match that is longer than the best so far, or 0.
LongestMatch(p, m, q) ==
  LET least == IF best.size # 0 THEN best.size + 1 ELSE MinRun
      fitting == {s \in least .. Len(array) : Matches(p, m, q, s)}
  IN IF least \in fitting THEN CHOOSE s \in fitting : \A t \in fitting : t <= s
     ELSE 0

InRange == i1 # 0 /\ i1 < Limit(upto - 1)

SkipCandidate == /\ phase = "lcs" /\ InRange
                 /\ i1 < Start(first)
                 /\ i1' = forward_reference[i1]
                 /\ UNCHANGED <<textVars, phase, refVars, pairVars, i0, txt1, best, runs>>

TryCandidate ==
  /\ phase = "lcs" /\ InRange
  /\ i1 >= Start(first)
  /\ txt1' = TextOf(i1)
  /\ LET longest == LongestMatch(i0, txt1', i1)
         size == IF longest = 0 THEN 0 ELSE BestRunSize(i0, longest)
     IN best' = IF size >= MinRun /\ size > best.size
                  THEN [size |-> size, text |-> txt1', at |-> i1]
                  ELSE best
  /\ i1' = forward_reference[i1]
  /\ UNCHANGED <<textVars, phase, refVars, pairVars, i0, runs>>

\* add_run: the text and position of the run, and those of its copy.
BestRun == [text0 |-> new, at0 |-> i0, text1 |-> best.text, at1 |-> best.at,
            size |-> best.size]

\* Mutant of EnterRun: scanning resumes inside the run.
EnterRunInside == /\ phase = "lcs" /\ ~InRange
                  /\ best.size # 0
                  /\ runs' = Append(runs, BestRun)
                  /\ i0' = i0 + 1
                  /\ phase' = "scan"
                  /\ UNCHANGED <<textVars, refVars, pairVars, txt1, i1, best>>

\* Mutant of EnterRun: scanning resumes one token too late.
EnterRunSkips == /\ phase = "lcs" /\ ~InRange
                 /\ best.size # 0
                 /\ runs' = Append(runs, BestRun)
                 /\ i0' = i0 + best.size + 1
                 /\ phase' = "scan"
                 /\ UNCHANGED <<textVars, refVars, pairVars, txt1, i1, best>>

EnterRun == /\ phase = "lcs" /\ ~InRange
            /\ best.size # 0
            /\ runs' = Append(runs, BestRun)
            /\ i0' = i0 + best.size
            /\ phase' = "scan"
            /\ UNCHANGED <<textVars, refVars, pairVars, txt1, i1, best>>

TryNextToken == /\ phase = "lcs" /\ ~InRange
                /\ best.size = 0
                /\ i0' = i0 + 1
                /\ phase' = "scan"
                /\ UNCHANGED <<textVars, refVars, pairVars, txt1, i1, best, runs>>

\* All but entering runs.
Search == \/ StartCompare
          \/ ComparePair
          \/ CompareNext
          \/ CompareDone
          \/ ScanPosition
          \/ ScanDone
          \/ SkipCandidate
          \/ TryCandidate
          \/ TryNextToken

-----------------------------------------------------------------------------
(* Properties.                                                             *)

\* compare.c:109: what lcs is after, from its definition.  A copy of size
\* tokens of position p of text m, in one of the texts s, at q.
Wanted(m, s) == /\ s >= FirstFor(m)
                /\ s < texts

Copy(p, m, q, s, size) ==
  /\ Start(s) <= q /\ q + size <= Limit(s)
  /\ p + size <= Limit(m)
  /\ p + size <= q
  /\ SubSeq(array, p, p + size - 1) = SubSeq(array, q, q + size - 1)

Acceptable(p, size) == size >= MinRun /\ BestRunSize(p, size) = size

\* The texts a run of text m is looked for in together with text s.
Together(s) == IF "e" \in option THEN {s} ELSE 0 .. texts - 1

\* Every run entered is real: it and its copy are equal, acceptable, within
\* two texts that sim.1 says are compared, and do not overlap; nor do two runs
\* of one comparison.
RunsReal ==
  \A k \in DOMAIN runs :
    LET r == runs[k] IN
    /\ r.text0 < new_texts
    /\ Start(r.text0) <= r.at0
    /\ Wanted(r.text0, r.text1)
    /\ Copy(r.at0, r.text0, r.at1, r.text1, r.size)
    /\ Acceptable(r.at0, r.size)
    /\ \A l \in 1 .. k - 1 :
         runs[l].text0 = r.text0 /\ runs[l].text1 \in Together(r.text1)
           => runs[l].at0 + runs[l].size <= r.at0

\* sim.1: "For each position in the text, the largest segment is found, of
\* which a non-overlapping copy occurs in the text following it."
RunsLongest ==
  \A k \in DOMAIN runs :
    LET r == runs[k] IN
    ~ \E s \in Together(r.text1), size \in r.size + 1 .. Len(array) :
        \E q \in r.at0 + 1 .. Len(array) :
          /\ Wanted(r.text0, s)
          /\ Copy(r.at0, r.text0, q, s, size)
          /\ Acceptable(r.at0, size)

\* sim.1: "That segment and its copy are reported and scanning resumes at the
\* position just after the segment": a position that is in no run has no copy.
Covered(p, s) == \E k \in DOMAIN runs :
                   /\ runs[k].at0 <= p /\ p < runs[k].at0 + runs[k].size
                   /\ runs[k].text1 \in Together(s)

NothingMissed ==
  phase = "done" =>
    \A m \in 0 .. new_texts - 1, s \in 0 .. texts - 1 :
      \A p \in Start(m) .. Limit(m) - 1, q \in Start(s) .. Limit(s) - 1 :
        Wanted(m, s) /\ ~Covered(p, s) =>
          ~ \E size \in MinRun .. Len(array) :
              Copy(p, m, q, s, size) /\ Acceptable(p, size)

\* sim.1: under -f "Runs are restricted to segments with balancing
\* parentheses", also when Best_Run_Size has cut off what cannot be last.
RunsBalanced ==
  "f" \in option =>
    \A k \in DOMAIN runs, l \in DOMAIN Opener :
      Balance(l, runs[k].at0, runs[k].size) = 0
=============================================================================
