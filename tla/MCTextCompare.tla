---------------------------- MODULE MCTextCompare ----------------------------
(* TextCompare on all pairs of short files.                                *)
EXTENDS TextCompare

\* The words of a file, each a sequence of its characters.
Closed(w) == IF w.word = <<>> THEN w.words ELSE Append(w.words, w.word)

WordList(t) ==
  LET take(w, c) ==
        CASE c \in Space -> [words |-> Closed(w), word |-> <<>>]
          [] c = "nul" -> [words |-> Append(Closed(w), <<c>>), word |-> <<>>]
          [] OTHER -> [w EXCEPT !.word = Append(@, c)]
  IN Closed(FoldLeft(take, [words |-> <<>>, word |-> <<>>], t))

\* Words tells two files apart exactly when their lists of words do.
ASSUME WordsAreWords ==
  LET listOf == [t \in Text |-> WordList(t)]
      wordsOf == [t \in Text |-> Words(t)]
  IN \A s, t \in Text : (wordsOf[s] = wordsOf[t]) <=> (listOf[s] = listOf[t])
=============================================================================
