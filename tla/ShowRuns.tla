------------------------------ MODULE ShowRuns ------------------------------
(***************************************************************************)
(* pass3.c of SIM: the lines of the two chunks of a run, which pass 2 has  *)
(* found, are read from the files once more and printed side by side, or   *)
(* one chunk after the other (-d), or only their headings are (-n).  A     *)
(* file may have disappeared since.  How a line is fitted into its column  *)
(* is left out.                                                            *)
(***************************************************************************)
EXTENDS TextLines

CONSTANTS SizeMod       \* number of values of a size_t

ASSUME SizeAssumption == SizeMod \in Nat /\ SizeMod > MaxTexts + MaxLexemes

VARIABLES format,       \* of the output
          chunk,        \* the texts of the two chunks
          lost,         \* those whose file was not there any more
          nl_cnt,       \* lines of each that are to be printed
          offset,       \* lexemes of each file that were read
          shown         \* of each chunk: the lines printed, as sets of lexemes

showVars == <<format, chunk, lost, nl_cnt, offset, shown>>

ShowInit == /\ LinesInit
            /\ format = "none"
            /\ chunk = <<>> /\ lost = {} /\ nl_cnt = <<>> /\ offset = <<>> /\ shown = <<>>

\* ps_nl_cnt
LineFound(t, type) == CHOOSE n \in 0 .. MaxLexemes + 2 :
                        \E f \in found : f.text = t /\ f.type = type /\ f.line = n
HasChunk(t) == \E f \in found : f.text = t

\* The position behind n newlines of a file, or its end.
Behind(t, n) ==
  LET Ends == {k \in DOMAIN file[t] : /\ file[t][k] = "nl"
                                      /\ Cardinality({l \in 1 .. k : file[t][l] = "nl"}) = n}
  IN IF n <= 0 THEN 0 ELSE IF Ends = {} THEN Len(file[t]) ELSE CHOOSE k \in Ends : TRUE

\* open_chunk: newlines passed to come to the first line, which is number 1.
Skipped(t) == LineFound(t, "first") - 1

\* show_run, which only prints the headings with -n.
OpenChunks ==
  /\ pc = "end" /\ \E t \in TextIds : HasChunk(t)
  /\ format' \in {"columns", "diff", "headings"}
  /\ lost' \in SUBSET TextIds
  /\ LET t0 == CHOOSE t \in TextIds : HasChunk(t) /\ \A u \in TextIds : HasChunk(u) => t <= u
         t1 == CHOOSE t \in TextIds : HasChunk(t) /\ \A u \in TextIds : HasChunk(u) => t >= u
     IN chunk' = <<t0, t1>>
  /\ nl_cnt' = [c \in 1 .. 2 |->
                  (LineFound(chunk'[c], "last") - LineFound(chunk'[c], "first")) % SizeMod]
  /\ offset' = [c \in 1 .. 2 |-> IF chunk'[c] \in lost' THEN Len(file[chunk'[c]])
                                 ELSE Behind(chunk'[c], Skipped(chunk'[c]))]
  /\ shown' = <<<<>>, <<>>>>
  /\ pc' = IF format' = "headings" THEN "shown" ELSE "show"
  /\ UNCHANGED <<file, cur, at, lexVars, buffVars, textInfo, passTwo>>

NothingToShow == /\ pc = "end" /\ \A t \in TextIds : ~HasChunk(t)
                 /\ pc' = "shown"
                 /\ UNCHANGED <<file, cur, at, lexVars, buffVars, textInfo, passTwo, showVars>>

\* fill_line and show_1C_line: up to the next newline, or the end of the file.
LineEnd(c) == LET text == file[chunk[c]]
                  Ends == {k \in offset[c] + 1 .. Len(text) : text[k] = "nl"}
              IN IF Ends = {} THEN Len(text) ELSE CHOOSE k \in Ends : \A l \in Ends : k <= l

\* One line of each of some chunks.
PrintLines(C) ==
  /\ shown' = [c \in 1 .. 2 |->
                 IF c \in C THEN Append(shown[c], {k \in offset[c] + 1 .. LineEnd(c) :
                                                     file[chunk[c]][k] = "tk"})
                            ELSE shown[c]]
  /\ offset' = [c \in 1 .. 2 |-> IF c \in C THEN LineEnd(c) ELSE offset[c]]
  /\ nl_cnt' = [c \in 1 .. 2 |-> IF c \in C THEN (nl_cnt[c] - 1) % SizeMod ELSE nl_cnt[c]]
  /\ UNCHANGED <<lineVars, format, chunk, lost>>

Left == {c \in 1 .. 2 : nl_cnt[c] # 0}

\* Mutant of ShowColumns: both chunks are printed while one has lines.
ShowColumnsBoth == /\ pc = "show" /\ format = "columns" /\ Left # {}
                   /\ PrintLines({1, 2})

ShowColumns == /\ pc = "show" /\ format = "columns" /\ Left # {}
               /\ PrintLines(Left)

ShowDiff == /\ pc = "show" /\ format = "diff" /\ Left # {}
            /\ PrintLines(IF 1 \in Left THEN {1} ELSE {2})

CloseChunks == /\ pc = "show" /\ Left = {}
               /\ pc' = "shown"
               /\ UNCHANGED <<file, cur, at, lexVars, buffVars, textInfo, passTwo, showVars>>

ShowNext == \/ LinesNext /\ UNCHANGED showVars
            \/ OpenChunks \/ NothingToShow
            \/ ShowColumns \/ ShowDiff \/ CloseChunks

ShowSpec == ShowInit /\ [][ShowNext]_<<lineVars, showVars>>
                     /\ WF_<<lineVars, showVars>>(ShowNext)

-----------------------------------------------------------------------------
(* Properties.                                                             *)

\* The tokens of a run's chunk and of the lines they are on.
TokenOf(t, type) == (CHOOSE f \in found : f.text = t /\ f.type = type).tk
OnLine(t, n) == {k \in DOMAIN file[t] :
                   file[t][k] = "tk" /\ 1 + Cardinality({l \in 1 .. k : file[t][l] = "nl"}) = n}
FirstLine(t) == LineOf(t, TokenOf(t, "first"))
LastLine(t) == LineOf(t, TokenOf(t, "last"))

\* A run is shown as the lines from its first to its last token, in order, in
\* both formats, and as blank lines if the file is gone.  Where pass 2 had to
\* read a last line without newline again, that line is left out; more lines
\* than the chunk has are never printed, which is what a run that ends before
\* it starts would do: the counts are unsigned.
ShownRight ==
  pc \in {"show", "shown"} /\ format \in {"columns", "diff"} =>
    \A c \in 1 .. 2 :
      LET t == chunk[c]
          lines == LastLine(t) - FirstLine(t) + 1
      IN /\ Len(shown[c]) <= lines
         /\ \A k \in DOMAIN shown[c] :
              shown[c][k] = IF t \in lost THEN {} ELSE OnLine(t, FirstLine(t) + k - 1)
         /\ /\ pc = "shown"
            /\ kept \/ tx_EOL_terminated[t] \/ LastLine(t) < LineOf(t, Tokens(t) - 1)
            => Len(shown[c]) = lines

\* Every position gets its line, and every run is printed: counts come to 0.
EventuallyShown == <>(pc = "shown" /\ \A t \in TextIds : tx_pos[t] = {})
=============================================================================
