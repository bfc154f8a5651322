--------------------------- MODULE DispatcherProofs ---------------------------
(***************************************************************************)
(* Proofs about Dispatcher, for any set of requests: the inductive         *)
(* invariant, the safety properties it implies, and that the locked list   *)
(* implements the abstract queue.                                          *)
(*                                                                         *)
(* Everything rests on what a step does to Flow, the requests in the order *)
(* they went through AddQueue: it appends the request whose handler        *)
(* unlocks, and otherwise nothing (lemma FlowStep).                        *)
(***************************************************************************)
EXTENDS Dispatcher, SequenceTheorems, TLAPS

(* Facts about sequences.                                                  *)

\* Appending to the last of two sequences appends to both together.
LEMMA AppendToConcat ==
  ASSUME NEW S, NEW s \in Seq(S), NEW t \in Seq(S), NEW e \in S
  PROVE  s \o Append(t, e) = Append(s \o t, e)
  <1>1. <<e>> \in Seq(S) /\ s \o t \in Seq(S)
    BY ConcatProperties
  <1>2. Append(t, e) = t \o <<e>> /\ Append(s \o t, e) = (s \o t) \o <<e>>
    BY <1>1, AppendIsConcat
  <1>3. (s \o t) \o <<e>> = s \o (t \o <<e>>)
    BY <1>1, ConcatAssociative
  <1> QED
    BY <1>2, <1>3

\* The head of the second of two sequences may be counted to the first.
LEMMA MoveHead ==
  ASSUME NEW S, NEW s \in Seq(S), NEW t \in Seq(S), t # <<>>
  PROVE  (s \o <<Head(t)>>) \o Tail(t) = s \o t
  <1>1. Head(t) \in S /\ Tail(t) \in Seq(S)
    BY HeadTailProperties
  <1>2. <<Head(t)>> \in Seq(S)
    BY <1>1
  <1>3. (s \o <<Head(t)>>) \o Tail(t) = s \o (<<Head(t)>> \o Tail(t))
    BY <1>1, <1>2, ConcatAssociative
  <1>4. <<Head(t)>> \o Tail(t) = t
    BY HeadTailAppend, <1>1, <1>2
  <1> QED
    BY <1>3, <1>4

\* A fresh element keeps a sequence free of repetitions.
LEMMA AppendFresh ==
  ASSUME NEW S, NEW s \in Seq(S), NEW e \in S
  PROVE  /\ \A x : Occurs(x, Append(s, e)) <=> Occurs(x, s) \/ x = e
         /\ NoRepeats(s) /\ ~ Occurs(e, s) => NoRepeats(Append(s, e))
  <1>1. /\ Append(s, e) \in Seq(S)
        /\ DOMAIN Append(s, e) = 1 .. Len(s) + 1
        /\ DOMAIN s = 1 .. Len(s)
        /\ Len(s) \in Nat
    BY AppendProperties, LenProperties
  <1>2. \A i \in DOMAIN Append(s, e) :
          Append(s, e)[i] = IF i = Len(s) + 1 THEN e ELSE s[i]
    BY <1>1
  <1>3. \A x : Occurs(x, Append(s, e)) <=> Occurs(x, s) \/ x = e
    BY <1>1, <1>2 DEF Occurs
  <1>4. NoRepeats(s) /\ ~ Occurs(e, s) => NoRepeats(Append(s, e))
    BY <1>1, <1>2 DEF Occurs, NoRepeats
  <1> QED
    BY <1>3, <1>4

-----------------------------------------------------------------------------
(* Typing, exclusion and the front element.                                *)

\* Nothing is queued, held or dispatched yet, and the lock is free.
LEMMA InitInv == Init => DispatcherInv
  <1> SUFFICES ASSUME Init PROVE DispatcherInv
    OBVIOUS
  <1> USE DEF Init
  <1>1. TypeOK
    BY NamesAssumption DEF TypeOK, HandlerState, LoopState
  <1>2. Exclusion
    BY NamesAssumption DEF Exclusion
  <1>3. FrontStays /\ NeverTakesFromEmpty
    BY DEF FrontStays, NeverTakesFromEmpty
  <1>4. Flow = <<>>
    BY ConcatEmptySeq, EmptySeq DEF Flow, InHand
  <1>5. DOMAIN Flow = {}
    BY <1>4
  <1>6. NothingLost
    BY <1>5 DEF NothingLost, Occurs, NoRepeats
  <1> QED
    BY <1>1, <1>2, <1>3, <1>6 DEF DispatcherInv

\* TakeFront finds an element because the list is not empty.
LEMMA TypeStep ==
  ASSUME TypeOK, FrontStays, [Next]_vars
  PROVE  TypeOK'
  <1> USE NamesAssumption DEF TypeOK, HandlerState, LoopState, loopVars, handlerVars
  <1>1. ASSUME NEW r \in Request, Handler(r) PROVE TypeOK'
    BY <1>1 DEF Handler
  <1>2. ASSUME NEW r \in Request, AddLock(r) PROVE TypeOK'
    BY <1>2 DEF AddLock
  <1>3. ASSUME NEW r \in Request, AddLink(r) PROVE TypeOK'
    <2>1. queue' \in Seq(Request)
      BY <1>3, AppendProperties DEF AddLink
    <2> QED
      BY <1>3, <2>1 DEF AddLink
  <1>4. CASE IsEmpty
    BY <1>4 DEF IsEmpty
  <1>5. CASE TakeFront
    <2>1. queue # <<>> => Head(queue) \in Request
      BY HeadTailProperties
    <2> QED
      BY <1>5, <2>1 DEF TakeFront
  <1>6. CASE TakeRemove
    <2>1. queue' \in Seq(Request)
      BY <1>6, HeadTailProperties DEF TakeRemove, FrontStays
    <2> QED
      BY <1>6, <2>1 DEF TakeRemove
  <1>7. CASE Spawn
    <2>1. dispatched' \in Seq(Request)
      BY <1>7, AppendProperties DEF Spawn, FrontStays
    <2> QED
      BY <1>7, <2>1 DEF Spawn
  <1>8. CASE Sleep
    BY <1>8 DEF Sleep
  <1>9. CASE UNCHANGED vars
    BY <1>9 DEF vars
  <1> QED
    BY <1>1, <1>2, <1>3, <1>4, <1>5, <1>6, <1>7, <1>8, <1>9
    DEF Next, AddQueue, JudgeForever

\* The lock is taken by who finds it free, and released by who holds it.
LEMMA ExclusionStep ==
  ASSUME TypeOK, Exclusion, FrontStays, NeverTakesFromEmpty, [Next]_vars
  PROVE  Exclusion'
  <1> USE NamesAssumption DEF TypeOK, Exclusion, loopVars, handlerVars
  <1>1. ASSUME NEW r \in Request, Handler(r) PROVE Exclusion'
    BY <1>1 DEF Handler
  <1>2. ASSUME NEW r \in Request, AddLock(r) PROVE Exclusion'
    BY <1>2 DEF AddLock
  <1>3. ASSUME NEW r \in Request, AddLink(r) PROVE Exclusion'
    BY <1>3 DEF AddLink
  <1>4. CASE IsEmpty
    BY <1>4 DEF IsEmpty
  <1>5. CASE TakeFront
    BY <1>5 DEF TakeFront
  <1>6. CASE TakeRemove
    BY <1>6 DEF TakeRemove
  <1>7. CASE Spawn
    BY <1>7 DEF Spawn
  <1>8. CASE Sleep
    BY <1>8 DEF Sleep
  <1>9. CASE UNCHANGED vars
    BY <1>9 DEF vars
  <1> QED
    BY <1>1, <1>2, <1>3, <1>4, <1>5, <1>6, <1>7, <1>8, <1>9
    DEF Next, AddQueue, JudgeForever

\* Handlers only append, so the front the loop counts on stays.
LEMMA FrontStep ==
  ASSUME TypeOK, Exclusion, FrontStays, NeverTakesFromEmpty, [Next]_vars
  PROVE  FrontStays' /\ NeverTakesFromEmpty'
  <1> USE NamesAssumption
      DEF TypeOK, FrontStays, NeverTakesFromEmpty, loopVars, handlerVars
  <1>1. ASSUME NEW r \in Request, Handler(r)
        PROVE  FrontStays' /\ NeverTakesFromEmpty'
    BY <1>1 DEF Handler
  <1>2. ASSUME NEW r \in Request, AddLock(r)
        PROVE  FrontStays' /\ NeverTakesFromEmpty'
    BY <1>2 DEF AddLock
  <1>3. ASSUME NEW r \in Request, AddLink(r)
        PROVE  FrontStays' /\ NeverTakesFromEmpty'
    <2>1. queue' = Append(queue, r) /\ lpc' = lpc /\ info' = info /\ lpc # "remove"
      BY <1>3 DEF AddLink, Exclusion
    <2>2. queue' \in Seq(Request) /\ Len(queue') = Len(queue) + 1 /\ Len(queue) \in Nat
      BY <2>1, AppendProperties, LenProperties
    <2>3. queue' # <<>>
      BY <2>2, EmptySeq
    <2> QED
      BY <2>1, <2>3
  <1>4. CASE IsEmpty
    BY <1>4 DEF IsEmpty
  <1>5. CASE TakeFront
    BY <1>5 DEF TakeFront
  <1>6. CASE TakeRemove
    <2>1. info \in Request
      BY <1>6, HeadTailProperties DEF TakeRemove
    <2> QED
      BY <1>6, <2>1 DEF TakeRemove
  <1>7. CASE Spawn
    BY <1>7 DEF Spawn
  <1>8. CASE Sleep
    BY <1>8 DEF Sleep
  <1>9. CASE UNCHANGED vars
    BY <1>9 DEF vars
  <1> QED
    BY <1>1, <1>2, <1>3, <1>4, <1>5, <1>6, <1>7, <1>8, <1>9
    DEF Next, AddQueue, JudgeForever

-----------------------------------------------------------------------------
(* What a step does to Flow.                                               *)

Unchanged(r) == hpc'[r] = "queued" <=> hpc[r] = "queued"

\* What is dispatched, in hand and queued are requests.
LEMMA FlowIsSeq ==
  ASSUME TypeOK, FrontStays
  PROVE  /\ InHand \in Seq(Request)
         /\ dispatched \o InHand \in Seq(Request)
         /\ Flow \in Seq(Request)
  <1>1. InHand \in Seq(Request)
    BY DEF InHand, FrontStays, TypeOK
  <1> QED
    BY <1>1, ConcatProperties DEF TypeOK, Flow

\* A step appends the one request that AddLink queues, or keeps the order
\* there is.
LEMMA FlowStep ==
  ASSUME DispatcherInv, [Next]_vars
  PROVE  \/ /\ Flow' = Flow
            /\ \A r \in Request : Unchanged(r)
            /\ dispatched' = dispatched \/ Spawn
         \/ \E r \in Request :
              /\ Flow' = Append(Flow, r)
              /\ hpc[r] = "linking"
              /\ hpc'[r] = "queued"
              /\ \A q \in Request \ {r} : Unchanged(q)
              /\ dispatched' = dispatched
  <1> DEFINE Same == /\ Flow' = Flow
                     /\ \A r \in Request : Unchanged(r)
                     /\ dispatched' = dispatched \/ Spawn
  <1> USE DEF Unchanged, loopVars, handlerVars
  <1>0. /\ TypeOK /\ Exclusion /\ FrontStays
        /\ InHand \in Seq(Request)
        /\ dispatched \o InHand \in Seq(Request)
        /\ dispatched \in Seq(Request)
        /\ queue \in Seq(Request)
    BY FlowIsSeq DEF DispatcherInv, TypeOK
  <1>1. ASSUME NEW r \in Request, Handler(r) PROVE Same
    BY <1>0, <1>1 DEF Handler, TypeOK, Flow, InHand
  <1>2. ASSUME NEW r \in Request, AddLock(r) PROVE Same
    BY <1>0, <1>2 DEF AddLock, TypeOK, Flow, InHand
  <1>3. ASSUME NEW r \in Request, AddLink(r)
        PROVE  /\ Flow' = Append(Flow, r)
               /\ hpc[r] = "linking"
               /\ hpc'[r] = "queued"
               /\ \A q \in Request \ {r} : Unchanged(q)
               /\ dispatched' = dispatched
    <2>1. /\ queue' = Append(queue, r)
          /\ dispatched' = dispatched
          /\ InHand' = InHand
      BY <1>0, <1>3 DEF AddLink, Exclusion, InHand
    <2>2. Flow' = Append(Flow, r)
      BY <1>0, <2>1, AppendToConcat DEF Flow
    <2> QED
      BY <1>0, <1>3, <2>1, <2>2 DEF AddLink, TypeOK
  <1>4. CASE IsEmpty
    BY <1>0, <1>4 DEF IsEmpty, Flow, InHand
  <1>5. CASE TakeFront
    BY <1>0, <1>5 DEF TakeFront, Flow, InHand
  <1>6. CASE TakeRemove
    <2>1. /\ InHand = <<>> /\ InHand' = <<Head(queue)>>
          /\ dispatched' = dispatched /\ queue' = Tail(queue)
          /\ queue # <<>>
      BY <1>0, <1>6 DEF TakeRemove, FrontStays, InHand
    <2>2. Flow' = (dispatched \o <<Head(queue)>>) \o Tail(queue)
      BY <2>1 DEF Flow
    <2>3. Flow = dispatched \o queue
      BY <1>0, <2>1, ConcatEmptySeq DEF Flow
    <2>4. Flow' = Flow
      BY <1>0, <2>1, <2>2, <2>3, MoveHead
    <2> QED
      BY <1>6, <2>4 DEF TakeRemove
  <1>7. CASE Spawn
    <2>1. /\ InHand = <<info>> /\ InHand' = <<>>
          /\ dispatched' = Append(dispatched, info) /\ queue' = queue
          /\ info \in Request
      BY <1>0, <1>7 DEF Spawn, FrontStays, InHand
    <2>2. dispatched' = dispatched \o <<info>>
      BY <1>0, <2>1, AppendIsConcat
    <2>3. dispatched' \o InHand' = dispatched \o InHand
      BY <1>0, <2>1, <2>2, ConcatEmptySeq
    <2>4. Flow' = Flow
      BY <2>1, <2>3 DEF Flow
    <2> QED
      BY <1>7, <2>4 DEF Spawn
  <1>8. CASE Sleep
    BY <1>0, <1>8 DEF Sleep, Flow, InHand
  <1>9. CASE UNCHANGED vars
    BY <1>0, <1>9 DEF vars, Flow, InHand
  <1> QED
    BY <1>1, <1>2, <1>3, <1>4, <1>5, <1>6, <1>7, <1>8, <1>9
    DEF Next, AddQueue, JudgeForever

\* Each request is where its handler left it.
LEMMA NothingLostStep ==
  ASSUME DispatcherInv, [Next]_vars
  PROVE  NothingLost'
  <1>1. /\ NothingLost /\ Flow \in Seq(Request)
    BY FlowIsSeq DEF DispatcherInv
  <1>2. CASE Flow' = Flow /\ \A r \in Request : Unchanged(r)
    BY <1>1, <1>2 DEF NothingLost, Unchanged
  <1>3. ASSUME NEW r \in Request,
               Flow' = Append(Flow, r), hpc[r] = "linking", hpc'[r] = "queued",
               \A q \in Request \ {r} : Unchanged(q)
        PROVE  NothingLost'
    <2>1. ~ Occurs(r, Flow)
      BY <1>1, <1>3 DEF NothingLost
    <2>2. NoRepeats(Flow') /\ \A q : Occurs(q, Flow') <=> Occurs(q, Flow) \/ q = r
      BY <1>1, <1>3, <2>1, AppendFresh DEF NothingLost
    <2>3. \A q \in Request : hpc'[q] = "queued" <=> Occurs(q, Flow')
      BY <1>1, <1>3, <2>2 DEF NothingLost, Unchanged
    <2> QED
      BY <2>2, <2>3 DEF NothingLost
  <1> QED
    BY <1>2, <1>3, FlowStep

-----------------------------------------------------------------------------
(* The theorems.                                                           *)

\* Whatever the handlers and the loop do, the list, the lock and the loop's
\* variables keep their types and the invariant below holds (main.go:89-124).
THEOREM Invariance == Safety => []DispatcherInv
  <1>1. Init => DispatcherInv
    BY InitInv
  <1>2. DispatcherInv /\ [Next]_vars => DispatcherInv'
    <2> SUFFICES ASSUME DispatcherInv, [Next]_vars PROVE DispatcherInv'
      OBVIOUS
    <2>1. TypeOK /\ Exclusion /\ FrontStays /\ NeverTakesFromEmpty
      BY DEF DispatcherInv
    <2> QED
      BY <2>1, TypeStep, ExclusionStep, FrontStep, NothingLostStep DEF DispatcherInv
  <1> QED
    BY <1>1, <1>2, PTL DEF Safety

\* The variables keep their types.
THEOREM TypeCorrect == Safety => []TypeOK
  <1>1. DispatcherInv => TypeOK
    BY DEF DispatcherInv
  <1> QED
    BY <1>1, Invariance, PTL

\* GetFrontAndRemove finds an element although IsEmpty has long released the
\* lock: with one consumer the check stays true (main.go:118-119).
THEOREM NoPanic == Safety => []NeverTakesFromEmpty
  <1>1. DispatcherInv => NeverTakesFromEmpty
    BY DEF DispatcherInv
  <1> QED
    BY <1>1, Invariance, PTL

\* A request that left AddQueue is in exactly one place of exactly one of
\* the list, the loop's hand and the started goroutines (main.go:89-124).
THEOREM NoLoss == Safety => []NothingLost
  <1>1. DispatcherInv => NothingLost
    BY DEF DispatcherInv
  <1> QED
    BY <1>1, Invariance, PTL

\* The list under its lock implements the abstract queue: judge requests are
\* dispatched in the order of acceptance, each of them once.
THEOREM Refinement == Safety => AbstractSafety
  <1>1. Init => Abstract!Init
    <2> SUFFICES ASSUME Init PROVE Abstract!Init
      OBVIOUS
    <2>1. Flow = <<>>
      BY ConcatEmptySeq, EmptySeq DEF Init, Flow, InHand
    <2> QED
      BY <2>1 DEF Init, Abstract!Init
  <1>2. DispatcherInv /\ [Next]_vars => [Abstract!Next]_(Abstract!vars)
    <2> SUFFICES ASSUME DispatcherInv, [Next]_vars
                 PROVE  [Abstract!Next]_(Abstract!vars)
      OBVIOUS
    <2>1. CASE Flow' = Flow /\ dispatched' = dispatched
      BY <2>1 DEF Abstract!vars
    <2>2. CASE Flow' = Flow /\ Spawn
      <3>1. /\ dispatched \in Seq(Request) /\ queue \in Seq(Request)
            /\ info \in Request /\ InHand = <<info>>
            /\ <<info>> \in Seq(Request)
        BY <2>2 DEF Spawn, InHand, DispatcherInv, FrontStays, TypeOK
      <3>2. /\ dispatched \o <<info>> \in Seq(Request)
            /\ Len(dispatched \o <<info>>) = Len(dispatched) + 1
            /\ (dispatched \o <<info>>)[Len(dispatched) + 1] = info
            /\ Len(dispatched) \in Nat
        BY <3>1, ConcatProperties, LenProperties
      <3>3. /\ Len(dispatched) < Len(Flow)
            /\ Flow[Len(dispatched) + 1] = info
        BY <3>1, <3>2, ConcatProperties, LenProperties DEF Flow
      <3>4. Abstract!Dispatch
        BY <2>2, <3>3 DEF Abstract!Dispatch, Spawn
      <3> QED
        BY <3>4 DEF Abstract!Next
    <2>3. ASSUME NEW r \in Request, Flow' = Append(Flow, r),
                 hpc[r] = "linking", dispatched' = dispatched
          PROVE  Abstract!Accept(r)
      <3>1. ~ Abstract!IsAccepted(r)
        BY <2>3 DEF DispatcherInv, NothingLost, Occurs, Abstract!IsAccepted
      <3> QED
        BY <2>3, <3>1 DEF Abstract!Accept
    <2> QED
      BY <2>1, <2>2, <2>3, FlowStep DEF Abstract!Next
  <1> QED
    BY <1>1, <1>2, Invariance, PTL DEF Safety, AbstractSafety, Abstract!Safety
=============================================================================
