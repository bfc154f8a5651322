----------------------------- MODULE SortedRuns -----------------------------
(***************************************************************************)
(* What aiso.spc promises for SIM's runs: each is inserted in its proper   *)
(* place, behind all runs that are not smaller, unless memory runs out.    *)
(***************************************************************************)
EXTENDS Integers, Sequences

CONSTANT Size    \* rn_size of a run

VARIABLES sorted,    \* runs that can be iterated over: when found, and size
          inserted   \* runs inserted so far

Init == sorted = <<>> /\ inserted = 0

Insert == \E size \in Size, k \in 0 .. Len(sorted) :
            /\ \A i \in 1 .. k : sorted[i].size >= size
            /\ \A i \in k + 1 .. Len(sorted) : sorted[i].size < size
            /\ inserted' = inserted + 1
            /\ sorted' = SubSeq(sorted, 1, k) \o <<[found |-> inserted', size |-> size]>>
                           \o SubSeq(sorted, k + 1, Len(sorted))

Spec == Init /\ [][Insert]_<<sorted, inserted>>
=============================================================================
