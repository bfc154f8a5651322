----------------------------- MODULE TextCompare -----------------------------
(***************************************************************************)
(* compare and find_next_nonspace of Cjudger/runner.cc: two files are read *)
(* side by side, one character of each at a time, to tell an accepted      *)
(* output from one with other white space (PE) or other words (WA).        *)
(***************************************************************************)
EXTENDS Integers, Sequences, SequencesExt

CONSTANTS Letter,    \* characters that are neither white space nor 0
          MaxLen     \* bound on the length of a file

ASSUME CompareAssumption ==
  /\ Letter \cap {"sp", "nl", "cr", "nul", "eof"} = {}
  /\ MaxLen \in Nat

Space == {"sp", "nl", "cr"}
Char == Letter \cup Space \cup {"nul"}

\* Files with at most MaxLen characters, or one that cannot be opened.
Text == SeqOf(Char, MaxLen)
Missing == <<"missing">>

VARIABLES out, user,  \* the two files
          at1, at2,   \* characters read of each
          c1, c2,     \* the last one read, or "eof"
          ret,        \* the verdict so far
          stage       \* control: "lead" and "trail" are inside
                      \* find_next_nonspace

compareVars == <<out, user, at1, at2, c1, c2, ret, stage>>
files == <<out, user>>

CompareInit == /\ out \in Text \cup {Missing}
               /\ user \in Text \cup {Missing}
               /\ at1 = 0 /\ at2 = 0
               /\ c1 = "eof" /\ c2 = "eof"
               /\ ret = "AC"
               /\ stage = "open"

Open == /\ stage = "open"
        /\ IF Missing \in {out, user}
             THEN ret' = "RE" /\ stage' = "end"
             ELSE ret' = ret /\ stage' = "line"
        /\ UNCHANGED <<files, at1, at2, c1, c2>>

-----------------------------------------------------------------------------
(* fgetc: n characters on, or as far as the file goes.                     *)
CharAt(t, i) == IF i <= Len(t) THEN t[i] ELSE "eof"

Read1(n) == at1' = at1 + n /\ c1' = CharAt(out, at1')
Read2(n) == at2' = at2 + n /\ c2' = CharAt(user, at2')
Keep1 == UNCHANGED <<at1, c1>>
Keep2 == UNCHANGED <<at2, c2>>

-----------------------------------------------------------------------------
(* find_next_nonspace: one turn of its loop, or of one of the inner ones.  *)
InGap == stage \in {"lead", "trail"} /\ (c1 \in Space \/ c2 \in Space)

\* Mutant of SkipRest: goes round the loop without reading.
SkipRestForgets == /\ InGap
                   /\ "eof" \in {c1, c2}
                   /\ UNCHANGED compareVars

\* Only white space may follow where the other file has ended.
SkipRest == /\ InGap
            /\ \/ c2 = "eof" /\ Read1(1) /\ Keep2
               \/ c1 = "eof" /\ Read2(1) /\ Keep1
            /\ UNCHANGED <<files, ret, stage>>

\* A carriage return is passed over, and then both characters, as usual.
CarriageReturn ==
  /\ InGap
  /\ \/ /\ c1 = "cr" /\ c2 = "nl"
        /\ Read1(IF CharAt(out, at1 + 1) \in Space THEN 2 ELSE 1)
        /\ Read2(1)
     \/ /\ c2 = "cr" /\ c1 = "nl"
        /\ Read2(IF CharAt(user, at2 + 1) \in Space THEN 2 ELSE 1)
        /\ Read1(1)
  /\ UNCHANGED <<files, ret, stage>>

\* Mutant of Blank: any white space is as good as any other.
BlankIgnored == /\ InGap
                /\ "eof" \notin {c1, c2}
                /\ {c1, c2} # {"cr", "nl"}
                /\ IF c1 \in Space THEN Read1(1) ELSE Keep1
                /\ IF c2 \in Space THEN Read2(1) ELSE Keep2
                /\ UNCHANGED <<files, ret, stage>>

\* White space against the same, or against anything else.
Blank == /\ InGap
         /\ "eof" \notin {c1, c2}
         /\ {c1, c2} # {"cr", "nl"}
         /\ ret' = IF c1 = c2 THEN ret ELSE "PE"
         /\ IF c1 \in Space THEN Read1(1) ELSE Keep1
         /\ IF c2 \in Space THEN Read2(1) ELSE Keep2
         /\ UNCHANGED <<files, stage>>

GapDone == /\ stage \in {"lead", "trail"}
           /\ c1 \notin Space /\ c2 \notin Space
           /\ stage' = IF stage = "lead" THEN "word" ELSE "next"
           /\ UNCHANGED <<files, at1, at2, c1, c2, ret>>

FindNextNonspace == SkipRest \/ CarriageReturn \/ Blank \/ GapDone

-----------------------------------------------------------------------------
(* compare.                                                                *)
Line == /\ stage = "line"
        /\ Read1(1) /\ Read2(1)
        /\ stage' = "lead"
        /\ UNCHANGED <<files, ret>>

\* The inner loop goes on while one of them is inside a word or at its end.
InWord == c1 \notin Space \cup {"nul"} \/ c2 \notin Space \cup {"nul"}

Same == /\ stage = "word" /\ InWord
        /\ c1 = c2 /\ c1 # "eof"
        /\ Read1(1) /\ Read2(1)
        /\ UNCHANGED <<files, ret, stage>>

Differ == /\ stage = "word" /\ InWord
          /\ c1 # c2 /\ "eof" \notin {c1, c2}
          /\ ret' = "WA"
          /\ stage' = "end"
          /\ UNCHANGED <<files, at1, at2, c1, c2>>

LeaveWord == /\ stage = "word"
             /\ ~ InWord \/ (c1 # c2 /\ "eof" \in {c1, c2})
             /\ stage' = "trail"
             /\ UNCHANGED <<files, at1, at2, c1, c2, ret>>

BothEnd == /\ stage \in {"word", "next"}
           /\ c1 = "eof" /\ c2 = "eof"
           /\ stage' = "end"
           /\ UNCHANGED <<files, at1, at2, c1, c2, ret>>

\* Mutant of OneEnds: a file that ends early is forgiven.
OneEndsWell == /\ stage = "next"
               /\ c1 # c2 /\ "eof" \in {c1, c2}
               /\ stage' = "end"
               /\ UNCHANGED <<files, at1, at2, c1, c2, ret>>

OneEnds == /\ stage = "next"
           /\ c1 # c2 /\ "eof" \in {c1, c2}
           /\ ret' = "WA"
           /\ stage' = "end"
           /\ UNCHANGED <<files, at1, at2, c1, c2>>

\* Line ends were passed over: only a 0 in both files ends a "line" here.
NextWord == /\ stage = "next"
            /\ "eof" \notin {c1, c2}
            /\ stage' = IF c1 \in {"nl", "nul"} /\ c2 \in {"nl", "nul"}
                       THEN "line" ELSE "word"
            /\ UNCHANGED <<files, at1, at2, c1, c2, ret>>

CompareNext == \/ Open \/ Line \/ FindNextNonspace
               \/ Same \/ Differ \/ LeaveWord \/ BothEnd \/ OneEnds \/ NextWord

CompareSpec == CompareInit /\ [][CompareNext]_compareVars /\ WF_compareVars(CompareNext)

-----------------------------------------------------------------------------
(* What the files mean.                                                    *)

\* The elements of s at the places of keep, up to each place of s.
KeptUpTo(s, keep) ==
  LET upTo[i \in 0 .. Len(s)] ==
        IF i = 0 THEN <<>>
        ELSE IF i \in keep THEN Append(upTo[i - 1], s[i])
        ELSE upTo[i - 1]
  IN upTo

Kept(s, keep) == KeptUpTo(s, keep)[Len(s)]

\* A word begins with the file, after white space and with or after a 0: a 0
\* is a word of its own.
Begins(t, i) == i = 1 \/ t[i] = "nul" \/ t[i - 1] \in Space \cup {"nul"}

\* The words of a file: what it has but white space, each character with
\* whether a word begins there.
Marked(t) == [i \in 1 .. Len(t) |-> <<t[i], Begins(t, i)>>]
InWords(t) == {i \in 1 .. Len(t) : t[i] \notin Space}

Words(t) == Kept(Marked(t), InWords(t))

\* Carriage returns stand before line ends and nowhere else.
WellFormed(t) == \A i \in 1 .. Len(t) : t[i] = "cr" => CharAt(t, i + 1) = "nl"

NotCR(t) == {i \in 1 .. Len(t) : t[i] # "cr"}
WithoutCR(t) == Kept(t, NotCR(t))

\* s, followed by nothing but white space.
Continues(s, t) == /\ IsPrefix(s, t)
                   /\ \A i \in Len(s) + 1 .. Len(t) : t[i] \in Space

SameLayout(s, t) == Continues(s, t) \/ Continues(t, s)

Readable == Missing \notin {out, user}

\* No layout, and no order in which the files end, makes compare miss or invent
\* a difference (runner.cc:133-226): an answer is wrong if and only if the words
\* differ, and among those with the right words exactly those are accepted that
\* have the same white space, but for carriage returns and the end of the longer
\* file.
VerdictRight ==
  stage = "end" /\ Readable =>
    /\ ret = "WA" <=> Words(out) # Words(user)
    /\ WellFormed(out) /\ WellFormed(user) =>
         (ret = "AC" <=> SameLayout(WithoutCR(out), WithoutCR(user)))

\* compare comes to an end for any two files, though its loops are left only
\* through their last characters.
EventuallyEnds == <>(stage = "end")
=============================================================================
