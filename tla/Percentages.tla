---------------------------- MODULE Percentages ----------------------------
(***************************************************************************)
(* percentages.c of SIM, with the merge sort of sortlist.bdy: the sizes of *)
(* the runs found are summed for each ordered pair of different texts, and *)
(* printed as percentages, sorted by the text with the highest one.        *)
(***************************************************************************)
EXTENDS Integers, Sequences, SequencesExt

CONSTANTS Threshold    \* Threshold_Percentage

ASSUME PercentAssumption == Threshold \in 1 .. 100

VARIABLES match,    \* the list match_start
          main_only,    \* option -P
          listed,   \* history: the list as it was printed from
          lines,    \* what was printed
          show      \* control of Show_Percentages

percentVars == <<match, main_only, listed, lines, show>>

Match == [fname0 : Nat, fname1 : Nat, size : Nat, size0 : Nat]

PercentInit == /\ match = <<>>
               /\ main_only \in BOOLEAN
               /\ listed = <<>>
               /\ lines = <<>>
               /\ show = "collect"

-----------------------------------------------------------------------------
(* add_to_percentages: both directions of a run count.                     *)
InList(list, t0, t1) ==
  {k \in DOMAIN list : list[k].fname0 = t0 /\ list[k].fname1 = t1}

\* Mutant of AddedTo: only the last run of a pair counts.
AddedToLast(list, t0, t1, size, size0) ==
  IF InList(list, t0, t1) = {}
    THEN Append(list, [fname0 |-> t0, fname1 |-> t1, size |-> size, size0 |-> size0])
    ELSE [k \in DOMAIN list |->
            IF k \in InList(list, t0, t1) THEN [list[k] EXCEPT !.size = size] ELSE list[k]]

\* do_add_to_precentages
AddedTo(list, t0, t1, size, size0) ==
  IF InList(list, t0, t1) = {}
    THEN Append(list, [fname0 |-> t0, fname1 |-> t1, size |-> size, size0 |-> size0])
    ELSE [k \in DOMAIN list |->
            IF k \in InList(list, t0, t1) THEN [list[k] EXCEPT !.size = @ + size]
                                          ELSE list[k]]

AddToPercentages(t0, t1, size, length0, length1) ==
  /\ show = "collect"
  /\ match' = IF t0 = t1 THEN match
              ELSE AddedTo(AddedTo(match, t0, t1, size, length0), t1, t0, size, length1)
  /\ UNCHANGED <<main_only, listed, lines, show>>

-----------------------------------------------------------------------------
(* print_perc_info: the quotient of the sizes as a float, of 24 bits and   *)
(* rounded to nearest, times 100, without its fraction, and at most 100.   *)
(* Exact in TLC's integers for a size0 of at most 127.                     *)
Fits24 == 23

Percent(m) ==
  IF m.size >= m.size0 THEN 100
  ELSE LET e == CHOOSE k \in 1 .. 7 : /\ m.size * 2 ^ k >= m.size0
                                      /\ m.size * 2 ^ (k - 1) < m.size0
           scaled == m.size * 2 ^ (e + Fits24)
           up == IF 2 * (scaled % m.size0) > m.size0 THEN 1 ELSE 0
           mantissa == scaled \div m.size0 + up
       IN (100 * mantissa) \div 2 ^ (e + Fits24)

\* Mutant of Before: sorted by tokens found, not by percentages.
BeforeBySize(m1, m2) == m1.size > m2.size

\* SORT_BEFORE; no two different quotients of such sizes are the same float.
Before(m1, m2) == m1.size * m2.size0 > m2.size * m1.size0

\* sort_match_list: the elements are dealt to two lists, both are sorted, and
\* merged, from the second one when neither head comes before the other.
Dealt(list, k) == [x \in 1 .. (Len(list) + 2 - k) \div 2 |-> list[2 * x - 2 + k]]

Merged[q \in Seq(Match) \X Seq(Match)] ==
  IF q[1] = <<>> THEN q[2]
  ELSE IF q[2] = <<>> THEN q[1]
  ELSE IF Before(Head(q[1]), Head(q[2]))
    THEN <<Head(q[1])>> \o Merged[<<Tail(q[1]), q[2]>>]
    ELSE <<Head(q[2])>> \o Merged[<<q[1], Tail(q[2])>>]

SortMatchList[list \in Seq(Match)] ==
  IF Len(list) <= 1 THEN list
  ELSE Merged[<<SortMatchList[Dealt(list, 1)], SortMatchList[Dealt(list, 2)]>>]

-----------------------------------------------------------------------------
(* Show_Percentages.                                                       *)
Sort == /\ show = "sort"
        /\ match' = SortMatchList[match]
        /\ listed' = match'
        /\ show' = "print"
        /\ UNCHANGED <<main_only, lines>>

Line(m) == [text |-> m.fname0, percent |-> Percent(m), of |-> m.fname1]

\* Mutant of PrintTopFile: under -P the other contributors stay in the list.
PrintTopFileKeeps ==
  /\ show = "print" /\ match # <<>>
  /\ LET top == Head(match)
         Mine(m) == m.fname0 = top.fname0
         Other(m) == m.fname0 # top.fname0
         High(m) == Percent(m) >= Threshold
         chosen == SelectSeq(IF main_only THEN <<top>> ELSE SelectSeq(match, Mine), High)
     IN /\ lines' = lines \o [k \in DOMAIN chosen |-> Line(chosen[k])]
        /\ match' = IF main_only THEN Tail(match) ELSE SelectSeq(match, Other)
  /\ UNCHANGED <<main_only, listed, show>>

\* print_and_remove_perc_info_for_top_file: the main contributor of the text
\* at the top, and, without -P, all others of the same text.
PrintTopFile ==
  /\ show = "print" /\ match # <<>>
  /\ LET top == Head(match).fname0
         Mine(m) == m.fname0 = top
         Other(m) == m.fname0 # top
         shown == IF main_only THEN <<Head(match)>> ELSE SelectSeq(match, Mine)
         High(m) == Percent(m) >= Threshold
         chosen == SelectSeq(shown, High)
     IN /\ lines' = lines \o [k \in DOMAIN chosen |-> Line(chosen[k])]
        /\ match' = SelectSeq(match, Other)
  /\ UNCHANGED <<main_only, listed, show>>

PrintDone == /\ show = "print" /\ match = <<>>
             /\ show' = "done"
             /\ UNCHANGED <<match, main_only, listed, lines>>

ShowNext == Sort \/ PrintTopFile \/ PrintDone

-----------------------------------------------------------------------------
(* Properties, of whatever list was built.                                 *)

\* The line there is for a match, or none.
LinesFor(m) == {k \in DOMAIN lines : lines[k].text = m.fname0 /\ lines[k].of = m.fname1}

\* percentages.c:71-75, the order wanted: "all contributors of the file with
\* the highest percentage, all contributors of the file with the next lower
\* percentage, etc."
TopFilesFirst ==
  \A k, l \in DOMAIN lines : k < l =>
    LET Of(t) == {x \in DOMAIN lines : lines[x].text = t}
        Best(t) == {lines[x].percent : x \in Of(t)}
    IN IF lines[k].text = lines[l].text
         THEN /\ lines[k].percent >= lines[l].percent
              /\ k .. l \subseteq Of(lines[k].text)
         ELSE \E p \in Best(lines[k].text) : \A r \in Best(lines[l].text) : p >= r

\* sim.1: -P "only the main contributor is shown".  Every text with enough of
\* another one has its line, one line, and no other text contributes more.
MainContributor ==
  show = "done" /\ main_only =>
    \A k \in DOMAIN listed :
      LET mine == {l \in DOMAIN lines : lines[l].text = listed[k].fname0} IN
      /\ Percent(listed[k]) >= Threshold => mine # {}
      /\ \A l, m \in mine : l = m /\ lines[l].percent >= Percent(listed[k])
=============================================================================
