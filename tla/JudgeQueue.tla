----------------------------- MODULE JudgeQueue -----------------------------
(***************************************************************************)
(* What the waiting queue of RunServer promises to the web front end, with *)
(* no lock, no list and no loop: a judge request that was accepted is      *)
(* handed to a Judge goroutine once, in the order of acceptance.           *)
(*                                                                         *)
(* The queue is what separates the two histories: accepted requests that   *)
(* are not dispatched yet.                                                 *)
(***************************************************************************)
EXTENDS Naturals, Sequences

CONSTANT Request      \* the HTTP requests, each one judge request (Info)

VARIABLES accepted,   \* requests in the order AddQueue linked them
          dispatched  \* requests in the order "go Judge" was executed

vars == <<accepted, dispatched>>

Init == accepted = <<>> /\ dispatched = <<>>

IsAccepted(r) == \E i \in DOMAIN accepted : accepted[i] = r

Accept(r) == /\ ~ IsAccepted(r)
             /\ accepted' = Append(accepted, r)
             /\ UNCHANGED dispatched

Dispatch == /\ Len(dispatched) < Len(accepted)
            /\ dispatched' = Append(dispatched, accepted[Len(dispatched) + 1])
            /\ UNCHANGED accepted

Next == Dispatch \/ \E r \in Request : Accept(r)

Safety == Init /\ [][Next]_vars

Spec == Safety /\ WF_vars(Dispatch)
=============================================================================
