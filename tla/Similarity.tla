----------------------------- MODULE Similarity -----------------------------
(***************************************************************************)
(* read_and_compare_files of SIM, and Show_Percentages after it: texts are *)
(* read, linked and compared; under -p (or -P), as sim.sh calls sim_text,  *)
(* each pair by itself and none with itself, and what the runs add up to   *)
(* is shown as percentages.  Without -p runs are kept (Aiso) and shown     *)
(* (TextLines).                                                            *)
(***************************************************************************)
EXTENDS Comparison, Percentages

SimInit == /\ CompareInit
           /\ PercentInit
           /\ main_only => "p" \in option

Size(t) == Limit(t) - Start(t)

\* Mutant of AddRun: each text gets the length of the other one.
AddRunSwapped == /\ EnterRun
                 /\ IF "p" \in option
                     THEN AddToPercentages(new, best.text, best.size, Size(best.text), Size(new))
                     ELSE UNCHANGED percentVars

\* add_run: the run counts for both texts under -p.
AddRun == /\ EnterRun
          /\ IF "p" \in option
               THEN AddToPercentages(new, best.text, best.size, Size(new), Size(best.text))
               ELSE UNCHANGED percentVars

ReadAndCompare == /\ MakeReferences \/ Search
                  /\ UNCHANGED percentVars

ShowPercentages == /\ phase = "done" /\ show = "collect" /\ "p" \in option
                   /\ show' = "sort"
                   /\ UNCHANGED <<simVars, match, main_only, listed, lines>>

Show == ShowNext /\ UNCHANGED simVars

SimNext == ReadAndCompare \/ AddRun \/ ShowPercentages \/ Show

SimSpec == SimInit /\ [][SimNext]_<<simVars, percentVars>>

-----------------------------------------------------------------------------
(* Properties.                                                             *)

\* Positions of text t inside some run that text u also has.
FoundIn(t, u) ==
  {p \in Start(t) .. Limit(t) - 1 :
     \E q \in Start(t) .. p, r \in Start(u) .. Limit(u) - 1 :
       /\ p < q + MinRun
       /\ q + MinRun <= Limit(t) /\ r + MinRun <= Limit(u)
       /\ SubSeq(array, q, q + MinRun - 1) = SubSeq(array, r, r + MinRun - 1)}

NotTooHigh(l) == l.percent * Size(l.text) <= 100 * Cardinality(FoundIn(l.text, l.of))

\* sim.1: "F consists for x % of G material ... meaning that x % of F's text can
\* also be found in G."
PercentMeansFound == \A k \in DOMAIN lines : NotTooHigh(lines[k])

\* The same for the lines sim.sh reads: the text comes before the other one.
FirstTextHonest ==
  \A k \in DOMAIN lines : lines[k].text < lines[k].of => NotTooHigh(lines[k])

\* Tokens that the runs between texts t and u add up to.
Shared(t, u) ==
  LET Between(r) == {r.text0, r.text1} = {t, u}
  IN FoldLeft(LAMBDA sum, r : sum + r.size, 0, SelectSeq(runs, Between))

\* Each ordered pair of different texts with runs gets its one line, with the
\* sum of their sizes, if it reaches the threshold (without -P).
EachPairOnce ==
  show = "done" /\ ~main_only =>
    /\ Cardinality({<<lines[k].text, lines[k].of>> : k \in DOMAIN lines}) = Len(lines)
    /\ \A t, u \in 0 .. texts - 1 :
         LET m == [fname0 |-> t, fname1 |-> u, size |-> Shared(t, u), size0 |-> Size(t)]
         IN IF t # u /\ m.size > 0 /\ Percent(m) >= Threshold
              THEN \E k \in DOMAIN lines : lines[k] = Line(m)
              ELSE LinesFor(m) = {}

\* What the judge wants SIM for: a text that is found as a whole in a later one,
\* and may be a run, consists for 100 % of it (unless -P prefers another such
\* text).
CopyIsCaught ==
  show = "done" =>
    \A t \in 0 .. new_texts - 1, u \in 0 .. texts - 1 :
      t < u /\ Size(t) > 0 /\ Acceptable(Start(t), Size(t))
      /\ (\E r \in Start(u) .. Limit(u) - Size(t) :
            SubSeq(array, r, r + Size(t) - 1) = SubSeq(array, Start(t), Limit(t) - 1))
      => \E k \in DOMAIN lines : /\ lines[k].text = t /\ lines[k].percent = 100
                                 /\ lines[k].of = u \/ main_only

\* What Show_Percentages shows of the runs is all there is to show, in the
\* order its comments promise.
ShownExact == EachPairOnce /\ TopFilesFirst /\ MainContributor
=============================================================================
