------------------------------ MODULE SimTexts ------------------------------
(***************************************************************************)
(* SIM's texts: pass1.c reads the files of the command line, one after the *)
(* other, into one token array (tokenarray.c).  Positions in the array     *)
(* start at 1, numbers of texts at 0, as in the code.                      *)
(*                                                                         *)
(* What a file holds is the environment's choice; a file that cannot be    *)
(* opened is read as an empty one.  Newlines, which are not stored in the  *)
(* array, are the subject of TextLines.                                    *)
(***************************************************************************)
EXTENDS Integers, Sequences

CONSTANTS Token,      \* what the lexer makes of a file, without End_Of_Line
          MaxTexts,   \* bound on the number of arguments
          MaxTokens   \* bound on the length of all files together

ASSUME TextsAssumption == MaxTexts \in Nat /\ MaxTokens \in Nat

VARIABLES array,      \* Token_Array[1 ..]
          limits,     \* limits[n + 1] is Text[n].tx_limit
          texts,      \* Number_of_Texts
          new_texts,  \* Number_of_New_Texts
          phase       \* how far read_and_compare_files has got

textVars == <<array, limits, texts, new_texts>>

Length == Len(array) + 1         \* Token_Array_Length(): position 0 is not used
Limit(n) == limits[n + 1]        \* Text[n].tx_limit
Start(n) == IF n = 0 THEN 1 ELSE Limit(n - 1)    \* Text[n].tx_start

TextsInit == /\ array = <<>>
             /\ limits = <<>>
             /\ texts \in 0 .. MaxTexts
             /\ new_texts = texts
             /\ phase = "read"

\* Contents of the next file.
File == UNION {[1 .. k -> Token] : k \in 0 .. MaxTokens - Len(array)}

ReadText == /\ phase = "read"
            /\ Len(limits) < texts
            /\ \E file \in File :
                 /\ array' = array \o file
                 /\ limits' = Append(limits, Len(array) + Len(file) + 1)
            /\ UNCHANGED <<texts, new_texts, phase>>

\* "/" or "|": a text without tokens, and all texts from here on are old.
ReadSeparator == /\ phase = "read"
                 /\ Len(limits) < texts
                 /\ limits' = Append(limits, Length)
                 /\ new_texts' = Len(limits)
                 /\ UNCHANGED <<array, texts, phase>>

TextsRead == /\ phase = "read"
             /\ Len(limits) = texts

\* The text that holds position p.
TextOf(p) == CHOOSE n \in 0 .. texts - 1 : Start(n) <= p /\ p < Limit(n)
=============================================================================
