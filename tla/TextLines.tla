----------------------------- MODULE TextLines -----------------------------
(***************************************************************************)
(* text.c and pass2.c of SIM: the first pass notes, in a buffer of 16-bit  *)
(* differences, after how many tokens each line of a text ends; the second *)
(* pass finds the lines of the first and last tokens of the runs.  When a  *)
(* difference does not fit or memory runs out, the buffer is abandoned and *)
(* the second pass reads the texts again.                                  *)
(*                                                                         *)
(* A text is a sequence of tokens and line ends; files do not change       *)
(* between the passes.                                                     *)
(***************************************************************************)
EXTENDS Integers, Sequences, FiniteSets

CONSTANTS MaxTexts,     \* bound on the number of texts
          MaxLexemes,   \* bound on the length of each
          MaxDiff       \* largest difference that fits: 65535 in the code

ASSUME LinesAssumption == MaxTexts \in Nat /\ MaxLexemes \in Nat /\ MaxDiff \in Nat

Content == UNION {[1 .. k -> {"tk", "nl"}] : k \in 0 .. MaxLexemes}

VARIABLES
  file,         \* what the texts hold
  pc,
  cur,          \* the text being read
  at,           \* lexemes of it that were read
  lex_token, lex_tk_cnt, lex_nl_cnt, last_tk_cnt,
  nl_buff,      \* the buffer ...
  kept,         \* ... as long as it is not 0
  nl_next,      \* entries of it read in the second pass
  tx_nl_start, tx_nl_limit, tx_EOL_terminated,
  tx_pos,       \* positions the second pass has to find: their type and token
  old_nl_cnt,
  found,        \* positions of all texts with the lines found
  modified      \* the message "File ... modified" was printed

lexVars == <<lex_token, lex_tk_cnt, lex_nl_cnt, last_tk_cnt>>
buffVars == <<nl_buff, kept>>
textInfo == <<tx_nl_start, tx_nl_limit, tx_EOL_terminated>>
passTwo == <<nl_next, tx_pos, old_nl_cnt, found, modified>>
lineVars == <<file, pc, cur, at, lexVars, buffVars, textInfo, passTwo>>

TextIds == DOMAIN file

LinesInit == /\ file \in UNION {[1 .. k -> Content] : k \in 1 .. MaxTexts}
             /\ pc = "open1"
             /\ cur = 1 /\ at = 0
             /\ lex_token = "none"
             /\ lex_tk_cnt = 0 /\ lex_nl_cnt = 1 /\ last_tk_cnt = 0
             /\ nl_buff = <<>>
             /\ kept \in BOOLEAN
             /\ nl_next = 0
             /\ tx_nl_start = [t \in TextIds |-> 0]
             /\ tx_nl_limit = [t \in TextIds |-> 0]
             /\ tx_EOL_terminated = [t \in TextIds |-> FALSE]
             /\ tx_pos = [t \in TextIds |-> {}]
             /\ old_nl_cnt = 1
             /\ found = {}
             /\ modified = FALSE

-----------------------------------------------------------------------------
(* First pass.                                                             *)

\* store_newline: one more entry, unless there is no buffer, no room for it
\* in memory, or no room for the difference in the entry.
StoreNewline ==
  LET diff == lex_tk_cnt - last_tk_cnt IN
  \/ /\ kept /\ diff <= MaxDiff
     /\ nl_buff' = Append(nl_buff, diff)
     /\ UNCHANGED kept
  \/ /\ nl_buff' = <<>>
     /\ kept' = FALSE

\* Open_Text(First_Pass) and Open_Stream.
OpenFirst == /\ pc = "open1"
             /\ at' = 0
             /\ lex_tk_cnt' = 0 /\ lex_nl_cnt' = 1 /\ last_tk_cnt' = 0
             /\ tx_nl_start' = [tx_nl_start EXCEPT ![cur] = Len(nl_buff)]
             /\ pc' = "read1"
             /\ UNCHANGED <<file, cur, lex_token, buffVars, tx_nl_limit,
                            tx_EOL_terminated, passTwo>>

More == at < Len(file[cur])

ReadToken == /\ pc = "read1" /\ More /\ file[cur][at + 1] = "tk"
             /\ at' = at + 1
             /\ lex_token' = "tk"
             /\ lex_tk_cnt' = lex_tk_cnt + 1
             /\ UNCHANGED <<file, pc, cur, lex_nl_cnt, last_tk_cnt, buffVars, textInfo, passTwo>>

ReadNewline == /\ pc = "read1" /\ More /\ file[cur][at + 1] = "nl"
               /\ at' = at + 1
               /\ lex_token' = "nl"
               /\ lex_nl_cnt' = lex_nl_cnt + 1
               /\ StoreNewline
               /\ last_tk_cnt' = lex_tk_cnt
               /\ UNCHANGED <<file, pc, cur, lex_tk_cnt, textInfo, passTwo>>

\* Mutant of CloseFirst: every text counts as terminated.
CloseFirstTerminated ==
  /\ pc = "read1" /\ ~More
  /\ IF kept /\ last_tk_cnt # lex_tk_cnt THEN StoreNewline ELSE UNCHANGED buffVars
  /\ tx_nl_limit' = [tx_nl_limit EXCEPT ![cur] = Len(nl_buff')]
  /\ tx_EOL_terminated' = [tx_EOL_terminated EXCEPT ![cur] = TRUE]
  /\ IF cur = Len(file) THEN cur' = 1 /\ pc' = "runs"
                        ELSE cur' = cur + 1 /\ pc' = "open1"
  /\ UNCHANGED <<file, at, lexVars, tx_nl_start, passTwo>>

\* Close_Text(First_Pass): tokens after the last newline end a line, too.
CloseFirst ==
  /\ pc = "read1" /\ ~More
  /\ IF kept /\ last_tk_cnt # lex_tk_cnt THEN StoreNewline ELSE UNCHANGED buffVars
  /\ tx_nl_limit' = [tx_nl_limit EXCEPT ![cur] = Len(nl_buff')]
  /\ tx_EOL_terminated' = [tx_EOL_terminated EXCEPT ![cur] = (lex_token = "nl")]
  /\ IF cur = Len(file) THEN cur' = 1 /\ pc' = "runs"
                        ELSE cur' = cur + 1 /\ pc' = "open1"
  /\ UNCHANGED <<file, at, lexVars, tx_nl_start, passTwo>>

-----------------------------------------------------------------------------
Tokens(t) == Cardinality({k \in DOMAIN file[t] : file[t][k] = "tk"})

\* Compare_Files: a run may begin and end anywhere in a text, or nowhere.
FindRuns ==
  /\ pc = "runs"
  /\ tx_pos' \in [TextIds -> {{}} \cup {{[type |-> "first", tk |-> f], [type |-> "last", tk |-> l]} :
                                  f, l \in 0 .. MaxLexemes}]
  /\ \A t \in TextIds : \A p \in tx_pos'[t] : p.tk < Tokens(t)
  /\ \A t \in TextIds : \A p, q \in tx_pos'[t] :
       p.type = "first" /\ q.type = "last" => p.tk <= q.tk
  /\ pc' = "open2"
  /\ UNCHANGED <<file, cur, at, lexVars, buffVars, textInfo, nl_next, old_nl_cnt,
                 found, modified>>

-----------------------------------------------------------------------------
(* Second pass.                                                            *)
NextText == IF cur = Len(file) THEN cur' = cur /\ pc' = "end"
                               ELSE cur' = cur + 1 /\ pc' = "open2"

\* Mutant of SkipText: break where the code has return.
SkipTextEnds == /\ pc = "open2" /\ tx_pos[cur] = {}
                /\ pc' = "end"
                /\ UNCHANGED <<file, cur, at, lexVars, buffVars, textInfo, passTwo>>

\* No runs in this text: no need to scan the file.
SkipText == /\ pc = "open2" /\ tx_pos[cur] = {}
            /\ NextText
            /\ UNCHANGED <<file, at, lexVars, buffVars, textInfo, passTwo>>

\* Mutant of OpenSecond: the second pass starts at the start of the buffer.
OpenSecondAtZero == /\ pc = "open2" /\ tx_pos[cur] # {}
                    /\ last_tk_cnt' = 0 /\ lex_tk_cnt' = 0 /\ lex_nl_cnt' = 1
                    /\ IF kept THEN nl_next' = 0 /\ UNCHANGED at
                               ELSE at' = 0 /\ UNCHANGED nl_next
                    /\ old_nl_cnt' = 1
                    /\ pc' = "scan"
                    /\ UNCHANGED <<file, cur, lex_token, buffVars, textInfo, tx_pos, found, modified>>

\* Open_Text(Second_Pass), on the buffer or on the file.
OpenSecond == /\ pc = "open2" /\ tx_pos[cur] # {}
              /\ last_tk_cnt' = 0 /\ lex_tk_cnt' = 0 /\ lex_nl_cnt' = 1
              /\ IF kept THEN nl_next' = tx_nl_start[cur] /\ UNCHANGED at
                         ELSE at' = 0 /\ UNCHANGED nl_next
              /\ old_nl_cnt' = 1
              /\ pc' = "scan"
              /\ UNCHANGED <<file, cur, lex_token, buffVars, textInfo, tx_pos, found, modified>>

\* pos of pass2_txt: the list is sorted by token counts.
IsNextPos(p) == p \in tx_pos[cur] /\ \A q \in tx_pos[cur] : p.tk <= q.tk
NextTk == CHOOSE k \in 0 .. MaxLexemes : \E p \in tx_pos[cur] : IsNextPos(p) /\ p.tk = k

\* Next_Text_EOL_Obtained: is there another line end, and the counts at it.
EolInFile == {k \in at + 1 .. Len(file[cur]) : file[cur][k] = "nl"}
NextEol == CHOOSE k \in EolInFile : \A l \in EolInFile : k <= l
EolObtained == IF kept THEN nl_next < tx_nl_limit[cur] ELSE EolInFile # {}
TokensIn(from, to) == Cardinality({k \in from .. to : file[cur][k] = "tk"})

FromBuffer == /\ kept
              /\ nl_next' = nl_next + 1
              /\ last_tk_cnt' = last_tk_cnt + nl_buff[nl_next + 1]
              /\ lex_tk_cnt' = last_tk_cnt'
              /\ UNCHANGED at

FromFile == /\ ~kept
            /\ at' = NextEol
            /\ lex_tk_cnt' = lex_tk_cnt + TokensIn(at + 1, NextEol)
            /\ UNCHANGED <<nl_next, last_tk_cnt>>

NextLine == /\ pc = "scan" /\ tx_pos[cur] # {} /\ NextTk >= lex_tk_cnt
            /\ EolObtained
            /\ old_nl_cnt' = lex_nl_cnt
            /\ lex_nl_cnt' = lex_nl_cnt + 1
            /\ lex_token' = "nl"
            /\ FromBuffer \/ FromFile
            /\ UNCHANGED <<file, pc, cur, buffVars, textInfo, tx_pos, found, modified>>

Fill(old, new) ==
  \E p \in tx_pos[cur] :
    /\ IsNextPos(p)
    /\ found' = found \cup {[text |-> cur, type |-> p.type, tk |-> p.tk,
                             line |-> IF p.type = "first" THEN old ELSE new]}
    /\ tx_pos' = [tx_pos EXCEPT ![cur] = @ \ {p}]

FillPos == /\ pc = "scan" /\ tx_pos[cur] # {} /\ NextTk < lex_tk_cnt
           /\ Fill(old_nl_cnt, lex_nl_cnt)
           /\ UNCHANGED <<file, pc, cur, at, lexVars, buffVars, textInfo, nl_next,
                          old_nl_cnt, modified>>

\* Mutant of FillAtEnd: at the end of the file, a last token ends the line before.
FillAtEndBefore ==
  /\ pc = "scan" /\ tx_pos[cur] # {} /\ NextTk >= lex_tk_cnt
  /\ ~EolObtained
  /\ old_nl_cnt' = lex_nl_cnt
  /\ Fill(lex_nl_cnt, lex_nl_cnt - 1)
  /\ modified' = (modified \/ tx_EOL_terminated[cur])
  /\ at' = IF kept THEN at ELSE Len(file[cur])
  /\ lex_tk_cnt' = IF kept THEN lex_tk_cnt
                   ELSE lex_tk_cnt + TokensIn(at + 1, Len(file[cur]))
  /\ UNCHANGED <<file, pc, cur, lex_nl_cnt, lex_token, last_tk_cnt, buffVars, textInfo, nl_next>>

\* The end of the file before a line end: fine if the text ends without one.
FillAtEnd ==
  /\ pc = "scan" /\ tx_pos[cur] # {} /\ NextTk >= lex_tk_cnt
  /\ ~EolObtained
  /\ old_nl_cnt' = lex_nl_cnt
  /\ Fill(lex_nl_cnt, lex_nl_cnt)
  /\ modified' = (modified \/ tx_EOL_terminated[cur])
  /\ IF kept THEN UNCHANGED <<at, lex_tk_cnt, lex_token>>
     ELSE /\ at' = Len(file[cur])
          /\ lex_tk_cnt' = lex_tk_cnt + TokensIn(at + 1, Len(file[cur]))
          /\ lex_token' = IF at < Len(file[cur]) THEN "tk" ELSE lex_token
  /\ UNCHANGED <<file, pc, cur, lex_nl_cnt, last_tk_cnt, buffVars, textInfo, nl_next>>

CloseSecond == /\ pc = "scan" /\ tx_pos[cur] = {}
               /\ NextText
               /\ UNCHANGED <<file, at, lexVars, buffVars, textInfo, passTwo>>

LinesNext == \/ OpenFirst \/ ReadToken \/ ReadNewline \/ CloseFirst
             \/ FindRuns
             \/ SkipText \/ OpenSecond \/ NextLine \/ FillPos \/ FillAtEnd \/ CloseSecond

-----------------------------------------------------------------------------
(* Properties.                                                             *)

\* The line, from 1, that token tk, from 0, of text t is in.
IsTokenAt(t, k, tk) ==
  /\ file[t][k] = "tk"
  /\ Cardinality({l \in 1 .. k - 1 : file[t][l] = "tk"}) = tk

LineOf(t, tk) ==
  LET k == CHOOSE l \in DOMAIN file[t] : IsTokenAt(t, l, tk)
  IN 1 + Cardinality({l \in 1 .. k : file[t][l] = "nl"})

\* What pass3.c presumes: a run goes from the line of its first token until
\* before the line after its last token.
RightLine(f) == f.line = LineOf(f.text, f.tk) + (IF f.type = "first" THEN 0 ELSE 1)

\* text.h:35 counts positions in tokens and "same, in line numbers": the lines
\* found are right with the buffer, which only serves "To speed up pass2"
\* (text.c:137), and, when it was abandoned, for every token but those of a last
\* line that has no newline.
BufferedLinesRight ==
  \A f \in found :
    kept \/ tx_EOL_terminated[f.text] \/ LineOf(f.text, f.tk) < LineOf(f.text, Tokens(f.text) - 1)
      => RightLine(f)

\* pass2.c:94: no text is said to be modified that was not.
NoFalseAlarm == ~modified
=============================================================================
