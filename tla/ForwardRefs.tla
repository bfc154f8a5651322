---------------------------- MODULE ForwardRefs ----------------------------
(***************************************************************************)
(* hash.c of SIM: forward_reference[p] shall be the next position at which *)
(* a run of MinRun tokens with the same hash codes starts, or 0.  A sweep  *)
(* with hash1 links positions through a hash table, a second sweep removes *)
(* from the chains what differs under hash2.                               *)
(*                                                                         *)
(* A hash function is any function of the MinRun tokens.  hash1 is meant   *)
(* modulo the size of the hash table, which depends on the memory there    *)
(* is; hash2 looks at five of the tokens only.                             *)
(***************************************************************************)
EXTENDS SimTexts

CONSTANTS MinRun,    \* Min_Run_Size
          Starter,   \* tokens for which May_Be_Start_Of_Run holds
          Code,      \* hash codes
          Hashes     \* pairs of functions from runs to codes

Run == [1 .. MinRun -> Token]

ASSUME RefsAssumption ==
  /\ MinRun \in Nat \ {0}
  /\ Starter \subseteq Token
  /\ Hashes \subseteq [Run -> Code] \X [Run -> Code]

VARIABLES forward_reference,
          last_index,   \* hash table: latest position with a code, or 0
          hash,         \* <<hash1 % last_index_table_size, hash2>>
          n,            \* the text and ...
          j,            \* ... the position being hashed, or looked at in a chain
          i             \* position being cleaned

refVars == <<forward_reference, last_index, hash, n, j, i>>

RunAt(p) == [k \in 1 .. MinRun |-> array[p + k - 1]]
Hash1(p) == hash[1][RunAt(p)]
Hash2(p) == hash[2][RunAt(p)]

RefsInit == /\ TextsInit
            /\ forward_reference = <<>>
            /\ last_index = <<>>
            /\ hash \in Hashes
            /\ n = 0
            /\ j = 0
            /\ i = 0

Reading == /\ ReadText \/ ReadSeparator
           /\ UNCHANGED refVars

\* Calloc of both tables.
StartHash == /\ TextsRead
             /\ forward_reference' = [p \in 0 .. Len(array) |-> 0]
             /\ last_index' = [c \in Code |-> 0]
             /\ n' = 0
             /\ j' = 1
             /\ phase' = "hash1"
             /\ UNCHANGED <<textVars, hash, i>>

\* make_forward_references_hash1: is there a run of text n at j?
RunFits == j + MinRun - 1 < Limit(n)

HashPosition ==
  /\ phase = "hash1" /\ n < texts /\ RunFits
  /\ IF array[j] \in Starter
       THEN LET h == Hash1(j) IN
            /\ forward_reference' = IF last_index[h] # 0
                                      THEN [forward_reference EXCEPT ![last_index[h]] = j]
                                      ELSE forward_reference
            /\ last_index' = [last_index EXCEPT ![h] = j]
       ELSE UNCHANGED <<forward_reference, last_index>>
  /\ j' = j + 1
  /\ UNCHANGED <<textVars, phase, hash, n, i>>

HashNextText == /\ phase = "hash1" /\ n < texts /\ ~RunFits
                /\ n' = n + 1
                /\ j' = Limit(n)
                /\ UNCHANGED <<textVars, phase, forward_reference, last_index, hash, i>>

HashDone == /\ phase = "hash1" /\ n = texts
            /\ i' = 0
            /\ j' = 0
            /\ phase' = "clean"
            /\ UNCHANGED <<textVars, forward_reference, last_index, hash, n>>

-----------------------------------------------------------------------------
(* clean_forward_references_hash2.  The first position, 0, has no tokens;  *)
(* it has no forward reference either, and so its hash code, taken from    *)
(* memory nobody has set, is not compared with anything.                   *)
Cleaning == phase = "clean" /\ i + MinRun < Length
Next2 == forward_reference[j]
Differs == Next2 # 0 /\ Hash2(Next2) # Hash2(i)

CleanFollow == /\ Cleaning /\ Differs
               /\ j' = Next2
               /\ UNCHANGED <<textVars, phase, forward_reference, last_index, hash, n, i>>

\* Mutant of CleanSet: the search ends at the first position of the chain.
CleanSetGivesUp == /\ Cleaning
                   /\ forward_reference' = [forward_reference EXCEPT ![i] = IF Differs THEN 0 ELSE Next2]
                   /\ i' = i + 1
                   /\ j' = i + 1
                   /\ UNCHANGED <<textVars, phase, last_index, hash, n>>

CleanSet == /\ Cleaning /\ ~Differs
            /\ forward_reference' = [forward_reference EXCEPT ![i] = Next2]
            /\ i' = i + 1
            /\ j' = i + 1
            /\ UNCHANGED <<textVars, phase, last_index, hash, n>>

CleanDone == /\ phase = "clean" /\ i + MinRun >= Length
             /\ phase' = "compare"
             /\ UNCHANGED <<textVars, refVars>>

RefsNext == \/ Reading
            \/ StartHash
            \/ HashPosition
            \/ HashNextText
            \/ HashDone
            \/ CleanFollow
            \/ CleanSet
            \/ CleanDone

RefsSpec == RefsInit /\ [][RefsNext]_<<textVars, phase, refVars>>

-----------------------------------------------------------------------------
(* Properties.                                                             *)

\* Positions a run may start at.
Eligible == {p \in 1 .. Len(array) : \E m \in 0 .. texts - 1 :
               /\ Start(m) <= p
               /\ p + MinRun <= Limit(m)
               /\ array[p] \in Starter}

\* hash.c:12-16: forward_reference[p] gives the next position at which a run
\* with the same hash codes starts, and 0 if there is none.
IsNext(p, q, Same(_, _)) ==
  LET later == {r \in Eligible : r > p /\ Same(p, r)} IN
  IF p \notin Eligible \/ later = {} THEN q = 0
  ELSE q \in later /\ \A r \in later : q <= r

Same1(p, q) == Hash1(p) = Hash1(q)
Same2(p, q) == Same1(p, q) /\ Hash2(p) = Hash2(q)

RefsExact == phase = "compare" =>
               \A p \in 0 .. Len(array) : IsNext(p, forward_reference[p], Same2)
=============================================================================
