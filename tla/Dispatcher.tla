----------------------------- MODULE Dispatcher -----------------------------
(***************************************************************************)
(* main.go: HTTP handlers append judge requests to waittingQueue, and the  *)
(* single JudgeForever loop polls the queue once per second, takes its     *)
(* front element and starts one Judge goroutine for it.                    *)
(*                                                                         *)
(* Handlers run concurrently with each other and with the loop (net/http   *)
(* starts a goroutine per connection).  A critical section of Sync is as   *)
(* many steps as it has accesses to the list: without the lock two         *)
(* handlers would link their element behind the same tail.                 *)
(***************************************************************************)
EXTENDS Naturals, Sequences

CONSTANTS Request,    \* the HTTP requests
          Loop,       \* the JudgeForever goroutine, as an owner of the lock
          Free,       \* the lock has no owner
          NoInfo      \* the loop's info is out of scope

ASSUME NamesAssumption ==
  /\ Loop \notin Request
  /\ Free \notin Request \cup {Loop}
  /\ NoInfo \notin Request

VARIABLES queue,      \* waittingQueue
          lock,       \* SyncControll.lock: Free or its owner
          tail,       \* tail[r]: the list as handler r found it in PushBack
          hpc,        \* hpc[r]: control of the handler of request r
          lpc,        \* control of JudgeForever
          info,       \* the loop's local variable
          dispatched  \* history: the requests a Judge goroutine was started for

handlerVars == <<tail, hpc>>
loopVars == <<lpc, info, dispatched>>
vars == <<queue, lock, tail, hpc, lpc, info, dispatched>>

HandlerState == {"new", "locking", "linking", "queued", "rejected"}
LoopState == {"poll", "take", "remove", "spawn", "sleep", "panic"}

Init == /\ queue = <<>>
        /\ lock = Free
        /\ tail = [r \in Request |-> <<>>]
        /\ hpc = [r \in Request |-> "new"]
        /\ lpc = "poll"
        /\ info = NoInfo
        /\ dispatched = <<>>

-----------------------------------------------------------------------------
(* Handler and AddQueue.                                                   *)

\* The request body is decoded; one that is no Info is dropped.
Handler(r) == /\ hpc[r] = "new"
              /\ \E step \in {"locking", "rejected"} :
                   hpc' = [hpc EXCEPT ![r] = step]
              /\ UNCHANGED <<queue, lock, tail, loopVars>>

\* Mutant of AddLock: AddQueue does not lock.
AddLockUnguarded(r) == /\ hpc[r] = "locking"
                       /\ tail' = [tail EXCEPT ![r] = queue]
                       /\ hpc' = [hpc EXCEPT ![r] = "linking"]
                       /\ UNCHANGED <<queue, lock, loopVars>>

\* AddQueue takes the lock, and PushBack finds the last element.
AddLock(r) == /\ hpc[r] = "locking"
              /\ lock = Free
              /\ lock' = r
              /\ tail' = [tail EXCEPT ![r] = queue]
              /\ hpc' = [hpc EXCEPT ![r] = "linking"]
              /\ UNCHANGED <<queue, loopVars>>

\* Mutant of AddLink: PushFront instead of PushBack.
AddLinkInFront(r) == /\ hpc[r] = "linking"
                     /\ queue' = <<r>> \o tail[r]
                     /\ lock' = Free
                     /\ hpc' = [hpc EXCEPT ![r] = "queued"]
                     /\ UNCHANGED <<tail, loopVars>>

\* PushBack links the element behind it; the deferred Unlock runs.
AddLink(r) == /\ hpc[r] = "linking"
              /\ queue' = Append(tail[r], r)
              /\ lock' = Free
              /\ hpc' = [hpc EXCEPT ![r] = "queued"]
              /\ UNCHANGED <<tail, loopVars>>

-----------------------------------------------------------------------------
(* JudgeForever, IsEmpty and GetFrontAndRemove.                            *)

\* Mutant of IsEmpty: the loop does not ask whether there is anything.
IsEmptyAlwaysTakes == /\ lpc = "poll"
                      /\ lock = Free
                      /\ lpc' = "take"
                      /\ UNCHANGED <<queue, lock, info, dispatched, handlerVars>>

\* Mutant of IsEmpty: one element counts as none.
IsEmptyOffByOne == /\ lpc = "poll"
                   /\ lock = Free
                   /\ lpc' = IF Len(queue) <= 1 THEN "sleep" ELSE "take"
                   /\ UNCHANGED <<queue, lock, info, dispatched, handlerVars>>

\* One read of the length, under the lock.
IsEmpty == /\ lpc = "poll"
           /\ lock = Free
           /\ lpc' = IF queue = <<>> THEN "sleep" ELSE "take"
           /\ UNCHANGED <<queue, lock, info, dispatched, handlerVars>>

\* The lock is taken again: whatever IsEmpty saw may have changed.  Front()
\* of an empty list is nil, and reading its Value panics.
TakeFront == /\ lpc = "take"
             /\ lock = Free
             /\ lock' = Loop
             /\ IF queue = <<>>
                  THEN lpc' = "panic" /\ info' = info
                  ELSE lpc' = "remove" /\ info' = Head(queue)
             /\ UNCHANGED <<queue, dispatched, handlerVars>>

\* Remove(Front()): the front is looked up a second time.
TakeRemove == /\ lpc = "remove"
              /\ queue' = Tail(queue)
              /\ lock' = Free
              /\ lpc' = "spawn"
              /\ UNCHANGED <<info, dispatched, handlerVars>>

Spawn == /\ lpc = "spawn"
         /\ dispatched' = Append(dispatched, info)
         /\ info' = NoInfo
         /\ lpc' = "sleep"
         /\ UNCHANGED <<queue, lock, handlerVars>>

Sleep == /\ lpc = "sleep"
         /\ lpc' = "poll"
         /\ UNCHANGED <<queue, lock, info, dispatched, handlerVars>>

-----------------------------------------------------------------------------
AddQueue(r) == AddLock(r) \/ AddLink(r)
JudgeForever == IsEmpty \/ TakeFront \/ TakeRemove \/ Spawn \/ Sleep

Next == JudgeForever \/ \E r \in Request : Handler(r) \/ AddQueue(r)

(***************************************************************************)
(* Clients need not send anything.  A handler that decoded its request and *)
(* the loop keep running: goroutines are scheduled, and the loop spends    *)
(* all but an instant of every second asleep without the lock.             *)
(***************************************************************************)
Fairness == /\ WF_vars(JudgeForever)
            /\ \A r \in Request : WF_vars(AddQueue(r))

Safety == Init /\ [][Next]_vars
Spec == Safety /\ Fairness

-----------------------------------------------------------------------------
InHand == IF lpc = "spawn" THEN <<info>> ELSE <<>>

\* Every request that left AddQueue, in the order it went through.
Flow == dispatched \o InHand \o queue

Occurs(r, s) == \E i \in DOMAIN s : s[i] = r

NoRepeats(s) == \A i, j \in DOMAIN s : s[i] = s[j] => i = j

\* Type invariant.
TypeOK == /\ queue \in Seq(Request)
          /\ lock \in Request \cup {Loop, Free}
          /\ tail \in [Request -> Seq(Request)]
          /\ hpc \in [Request -> HandlerState]
          /\ lpc \in LoopState
          /\ info \in Request \cup {NoInfo}
          /\ dispatched \in Seq(Request)

\* The lock has exactly one owner, the goroutine inside a critical section,
\* and no one else changes the list meanwhile.
Exclusion == /\ \A r \in Request : lock = r <=> hpc[r] = "linking"
             /\ lock = Loop <=> lpc \in {"remove", "panic"}
             /\ \A r \in Request : hpc[r] = "linking" => tail[r] = queue

\* What IsEmpty saw still holds when the loop comes back for the front
\* element: only the loop removes.
FrontStays == /\ lpc \in {"take", "remove"} => queue # <<>>
              /\ lpc = "remove" => info = Head(queue)
              /\ lpc = "spawn" => info \in Request

\* A request that went through AddQueue is waiting, in the loop's hand or
\* dispatched, and only once: none is lost and none is judged twice, whatever
\* the handlers and the loop did in between.
NothingLost == /\ \A r \in Request : hpc[r] = "queued" <=> Occurs(r, Flow)
               /\ NoRepeats(Flow)

\* GetFrontAndRemove never dereferences the Front() of an empty list, though
\* the lock is released between IsEmpty and it (main.go:119).
NeverTakesFromEmpty == lpc # "panic"

\* The inductive invariant: the parts above together.
DispatcherInv == /\ TypeOK
                 /\ Exclusion
                 /\ FrontStays
                 /\ NothingLost
                 /\ NeverTakesFromEmpty

\* The queue implements JudgeQueue: first come, first dispatched, once each.
Abstract == INSTANCE JudgeQueue WITH accepted <- Flow

AbstractSafety == Abstract!Safety

\* ... and it keeps dispatching as long as something waits.
AbstractSpec == Abstract!Spec
=============================================================================
