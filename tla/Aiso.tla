-------------------------------- MODULE Aiso --------------------------------
(***************************************************************************)
(* aiso.bdy as runs.c instantiates it: runs are inserted into a binary     *)
(* tree and, at the same place, into a linked list.  Walking down, the     *)
(* insertion counts its accesses; when 2 to the power of them exceeds the  *)
(* size of the tree, it rotates, on the way it goes.                       *)
(***************************************************************************)
EXTENDS Integers, Sequences

CONSTANTS Size,     \* rn_size of a run
          MaxRuns   \* bound on the number of runs

ASSUME AisoAssumption == Size \subseteq Nat \ {0} /\ MaxRuns \in Nat

VARIABLES value,      \* an_value of the nodes, in the order they were made
          link,       \* all pointers: root, list, and those in the nodes
          acc_mark,
          v,          \* the argument of InsertAiso, or 0 outside of it
          hook, prev, \* which pointer they point to
          aiso_overflow

aisoVars == <<value, link, acc_mark, v, hook, prev, aiso_overflow>>

Root == <<"root", 0>>
List == <<"list", 0>>
Places(N) == {Root, List} \cup ({"left", "right", "next"} \X N)

Node == DOMAIN value
AisoSize == Len(value)    \* aiso_size

AisoInit == /\ value = <<>>
            /\ link = [p \in Places({}) |-> 0]
            /\ acc_mark = 1
            /\ v = 0
            /\ hook = Root /\ prev = List
            /\ aiso_overflow = FALSE

\* Mutant of Before: a run comes before runs of the same size.
BeforeOrEqual(size, k) == size >= value[k]

\* AISO_BEFORE
Before(size, an) == size > value[an]

\* add_to_runs, InsertAiso until its loop.
EnterInsert == /\ v = 0
               /\ AisoSize < MaxRuns
               /\ v' \in Size
               /\ hook' = Root
               /\ prev' = List
               /\ UNCHANGED <<value, link, acc_mark, aiso_overflow>>

\* TryMalloc fails: the run is dropped.
InsertFails == /\ v = 0
               /\ AisoSize < MaxRuns
               /\ aiso_overflow' = TRUE
               /\ UNCHANGED <<value, link, acc_mark, v, hook, prev>>

-----------------------------------------------------------------------------
(* One turn of the loop, at the node an.                                   *)
an == link[hook]
Side == IF Before(v, an) THEN "left" ELSE "right"
Other(side) == IF side = "left" THEN "right" ELSE "left"
Child == link[<<Side, an>>]
CountAccess == acc_mark' = 2 * acc_mark

InLoop == v # 0 /\ an # 0

\* Mutant of MustRotate: it always rotates if it can.
MustRotateAlways == Child # 0

MustRotate == Child # 0 /\ 2 * acc_mark > AisoSize

PassList == prev' = IF Side = "right" THEN <<"next", an>> ELSE prev

Down == /\ InLoop /\ ~MustRotate
        /\ CountAccess
        /\ hook' = <<Side, an>>
        /\ PassList
        /\ UNCHANGED <<value, link, v, aiso_overflow>>

\* Mutant of Rotate: the inner subtree of the child is not moved.
RotateDrops == /\ InLoop /\ MustRotate
               /\ link' = [link EXCEPT ![<<Side, an>>] = 0,
                                       ![<<Other(Side), Child>>] = an,
                                       ![hook] = Child]
               /\ acc_mark' = 1
               /\ PassList
               /\ UNCHANGED <<value, v, hook, aiso_overflow>>

\* The child takes the place of an, which takes the child's inner subtree.
Rotate == /\ InLoop /\ MustRotate
          /\ link' = [link EXCEPT ![<<Side, an>>] = link[<<Other(Side), Child>>],
                                  ![<<Other(Side), Child>>] = an,
                                  ![hook] = Child]
          /\ acc_mark' = 1
          /\ PassList
          /\ UNCHANGED <<value, v, hook, aiso_overflow>>

\* The loop ends at an empty place.
LinkNode ==
  /\ v # 0 /\ an = 0
  /\ value' = Append(value, v)
  /\ LET new == AisoSize + 1 IN
       link' = [p \in Places(DOMAIN value') |->
                  IF p \in {hook, prev} THEN new
                  ELSE IF p = <<"next", new>> THEN link[prev]
                  ELSE IF p[2] = new THEN 0
                  ELSE link[p]]
  /\ v' = 0
  /\ UNCHANGED <<acc_mark, hook, prev, aiso_overflow>>

AisoNext == EnterInsert \/ InsertFails \/ Down \/ Rotate \/ LinkNode

AisoSpec == /\ AisoInit /\ [][AisoNext]_aisoVars
            /\ WF_aisoVars(Down \/ Rotate \/ LinkNode)

-----------------------------------------------------------------------------
(* Properties.                                                             *)

\* The linked list, from its start or any pointer on (OpenIter, GetAisoItem).
ListFrom(links, nodes) ==
  LET from[k \in nodes] ==
        LET nxt == links[<<"next", k>>]
        IN <<k>> \o (IF nxt = 0 THEN <<>> ELSE from[nxt])
  IN from

ChainIn(links, nodes) ==
  IF links[List] = 0 THEN <<>> ELSE ListFrom(links, nodes)[links[List]]

\* The tree from left to right.
TreeUnder(links, nodes) ==
  LET under[k \in nodes] ==
        LET l == links[<<"left", k>>]
            r == links[<<"right", k>>]
        IN (IF l = 0 THEN <<>> ELSE under[l]) \o <<k>> \o (IF r = 0 THEN <<>> ELSE under[r])
  IN under

InOrderIn(links, nodes) ==
  IF links[Root] = 0 THEN <<>> ELSE TreeUnder(links, nodes)[links[Root]]

Chain == ChainIn(link, Node)
InOrder == InOrderIn(link, Node)

\* aiso.spc:74: the list is another way through the tree.  It agrees with the
\* tree at every moment, in the middle of an insertion, too.
TreeIsList == Chain = InOrder

\* What iterating over the list yields is sorted, in the order of finding when
\* sizes are equal (aiso.spc:41).
RunList == [k \in DOMAIN Chain |-> [found |-> Chain[k], size |-> value[Chain[k]]]]

RunsSorted == INSTANCE SortedRuns WITH sorted <- RunList, inserted <- AisoSize

SortedSpec == RunsSorted!Spec

\* No insertion walks on forever, although it changes the tree below itself.
EventuallyInserted == (v # 0) ~> (v = 0)
=============================================================================
