---------------------------- MODULE RunServerProofs ----------------------------
(***************************************************************************)
(* Proofs about the whole server, for any number of requests and any       *)
(* overlap of the goroutines it starts.                                    *)
(*                                                                         *)
(* A step of the server is a step of the dispatcher, of one goroutine, or, *)
(* with the go statement, of both.  So the invariants of the parts hold of *)
(* the whole, and one that connects them: a goroutine exists for exactly   *)
(* the requests that were dispatched.                                      *)
(***************************************************************************)
EXTENDS RunServer, SequenceTheorems, TLAPS

DP == INSTANCE DispatcherProofs
JP == INSTANCE JudgingProofs WITH Job <- Request, MaxInFlight <- Cardinality(Request)

\* The assumptions of the parts.
LEMMA Names == DP!NamesAssumption
  BY ServerAssumption DEF D!NamesAssumption, DP!NamesAssumption

\* The goroutines of the server judge what Judging assumes of solutions.
LEMMA Solutions == JP!JudgingAssumption
  BY ServerAssumption
     DEF J!JudgingAssumption, J!Sid, J!NoSid, J!OurTokens, J!NoProblem,
         JP!JudgingAssumption, JP!Sid, JP!NoSid, JP!OurTokens, JP!NoProblem

-----------------------------------------------------------------------------
(* Steps of the server are steps of its parts.                             *)

\* The counters, by either name.
LEMMA SameCounters ==
  /\ J!ExactRecords = JP!ExactRecords
  /\ \A p : J!SolvedOf(p) = JP!SolvedOf(p)
  /\ \A u : J!AchievedBy(u) = JP!AchievedBy(u)
  <1>1. \A p : J!SolvedOf(p) = JP!SolvedOf(p)
    BY DEF J!SolvedOf, JP!SolvedOf, J!Solved, JP!Solved, J!Cardinality, JP!Cardinality
  <1>2. \A u : J!AchievedBy(u) = JP!AchievedBy(u)
    BY DEF J!AchievedBy, JP!AchievedBy, J!Solved, JP!Solved, J!Cardinality, JP!Cardinality
  <1>3. J!Problem = JP!Problem /\ J!User = JP!User
    BY DEF J!Problem, JP!Problem, J!User, JP!User, J!Sid, JP!Sid
  <1> QED
    BY <1>1, <1>2, <1>3 DEF J!ExactRecords, JP!ExactRecords

\* Both parts start as they do by themselves.
LEMMA InitParts == Init => DP!Init /\ JP!Init
  <1>1. D!Init => DP!Init
    BY DEF D!Init, DP!Init
  <1>2. J!Init => JP!Init
    BY SameCounters
       DEF J!Init, J!Zero, J!NoSid, J!NoProblem, J!Removed, J!Sid,
           JP!Init, JP!Zero, JP!NoSid, JP!NoProblem, JP!Removed, JP!Sid
  <1> QED
    BY <1>1, <1>2 DEF Init

\* What the dispatcher's variables do.
LEMMA QueueStep ==
  ASSUME [Next]_vars
  PROVE  [DP!Next]_(DP!vars)
  <1> USE DEF D!loopVars, D!handlerVars, DP!loopVars, DP!handlerVars
  <1>1. CASE JudgeForever
    BY <1>1 DEF JudgeForever, GoJudge, D!IsEmpty, D!TakeFront, D!TakeRemove, D!Sleep, D!Spawn,
                DP!IsEmpty, DP!TakeFront, DP!TakeRemove, DP!Sleep, DP!Spawn, DP!Next,
                DP!JudgeForever
  <1>2. ASSUME NEW r \in Request, Handler(r) \/ AddQueue(r) PROVE DP!Next
    BY <1>2 DEF Handler, AddQueue, D!Handler, D!AddQueue, D!AddLock, D!AddLink,
                DP!Handler, DP!AddQueue, DP!AddLock, DP!AddLink, DP!Next
  <1>3. ASSUME NEW r \in Request, Judge(r) PROVE UNCHANGED DP!vars
    BY <1>3 DEF Judge, dispatching, DP!vars
  <1>4. CASE UNCHANGED vars
    BY <1>4 DEF vars, dispatching, DP!vars
  <1> QED
    BY <1>1, <1>2, <1>3, <1>4 DEF Next

\* A step of a goroutine.
LEMMA GoroutineStep ==
  ASSUME NEW r \in Request, J!Judge(r)
  PROVE  JP!Judge(r)
  <1> USE DEF J!Step, J!Panic, J!SetResult, J!RemoveAll, J!Removed, J!Sid, J!NoSid, J!NoProblem,
              J!ProblemOf, J!OurTokens, J!Zero,
              JP!Step, JP!Panic, JP!SetResult, JP!RemoveAll, JP!Removed, JP!Sid, JP!NoSid,
              JP!NoProblem, JP!ProblemOf, JP!OurTokens, JP!Zero
  <1>1. CASE J!UserInit(r)
    BY <1>1 DEF J!UserInit, JP!UserInit, JP!Judge
  <1>2. CASE J!Match(r)
    BY <1>2 DEF J!Match, JP!Match, JP!Judge
  <1>3. CASE J!Run(r)
    <2>0. SUFFICES JP!Run(r)
      BY DEF JP!Judge
    <2>1. CASE J!SetWorkdir(r) \/ J!Mkdir(r) \/ J!Files(r)
      BY <2>1 DEF J!SetWorkdir, J!Mkdir, J!Files, JP!SetWorkdir, JP!Mkdir, JP!Files, JP!Run
    <2>2. CASE J!LoginTime(r) \/ J!LoginMem(r)
      BY <2>2 DEF J!LoginTime, J!LoginMem, JP!LoginTime, JP!LoginMem, JP!Run
    <2>3. CASE J!Compile(r)
      BY <2>3 DEF J!Compile, J!Compiles, JP!Compile, JP!Compiles, JP!Run
    <2>4. CASE J!SetRunning(r) \/ J!Cleanup(r)
      BY <2>4 DEF J!SetRunning, J!Cleanup, JP!SetRunning, JP!Cleanup, JP!Run
    <2>5. CASE J!CopyTests(r)
      BY <2>5 DEF J!CopyTests, JP!CopyTests, JP!Run
    <2>6. CASE J!GetStatus(r)
      BY <2>6 DEF J!GetStatus, J!Verdicts, JP!GetStatus, JP!Verdicts, JP!Run
    <2> QED
      BY <1>3, <2>1, <2>2, <2>3, <2>4, <2>5, <2>6 DEF J!Run
  <1>4. CASE J!UpdateSim(r) \/ J!UpdateSolution(r)
    BY <1>4 DEF J!UpdateSim, J!UpdateSolution, JP!UpdateSim, JP!UpdateSolution, JP!Judge
  <1>5. CASE J!GetSim(r)
    BY <1>5 DEF J!GetSim, J!SimPool, J!SimScript, J!SimRead, J!SimRemove, J!SimCleanup, J!Pool,
                J!Oldest, J!Solved,
                JP!GetSim, JP!SimPool, JP!SimScript, JP!SimRead, JP!SimRemove, JP!SimCleanup,
                JP!Pool, JP!Oldest, JP!Solved, JP!Judge
  <1>6. CASE J!UpdateRecord(r)
    BY <1>6, SameCounters
       DEF J!UpdateRecord, J!CountProblem, J!RecordProblem, J!CountUser, J!RecordUser,
           JP!UpdateRecord, JP!CountProblem, JP!RecordProblem, JP!CountUser, JP!RecordUser,
           JP!Judge
  <1> QED
    BY <1>1, <1>2, <1>3, <1>4, <1>5, <1>6 DEF J!Judge

\* Nothing limits the goroutines that overlap but their number.
LEMMA GoroutineStart ==
  ASSUME NEW r, J!Start(r)
  PROVE  JP!Start(r)
  BY DEF J!Start, J!Step, J!InFlight, J!Cardinality, JP!Start, JP!Step, JP!InFlight, JP!Cardinality

\* What the server does is the start of a goroutine for the request in the
\* loop's hand, the step of a goroutine, or none of both.
LEMMA JudgingStep ==
  ASSUME [Next]_vars
  PROVE  \/ UNCHANGED <<dispatched, judging>>
         \/ D!Spawn /\ JP!Start(info)
         \/ \E r \in Request : JP!Judge(r) /\ UNCHANGED dispatched
  <1>1. CASE JudgeForever
    BY <1>1, GoroutineStart
       DEF JudgeForever, GoJudge, D!IsEmpty, D!TakeFront, D!TakeRemove, D!Sleep
  <1>2. ASSUME NEW r \in Request, Handler(r) \/ AddQueue(r)
        PROVE  UNCHANGED <<dispatched, judging>>
    BY <1>2 DEF Handler, AddQueue, D!Handler, D!AddQueue, D!AddLock, D!AddLink, D!loopVars
  <1>3. ASSUME NEW r \in Request, Judge(r) PROVE JP!Judge(r) /\ UNCHANGED dispatched
    BY <1>3, GoroutineStep DEF Judge, dispatching
  <1>4. CASE UNCHANGED vars
    BY <1>4 DEF vars, dispatching
  <1> QED
    BY <1>1, <1>2, <1>3, <1>4 DEF Next

-----------------------------------------------------------------------------
(* The invariant.                                                          *)

\* The goroutines that exist are those of the requests that were dispatched.
Started(r) == pc[r] # "waiting" <=> D!Occurs(r, dispatched)

ServerInv == /\ DP!DispatcherInv
             /\ JP!OverlapInv
             /\ \A r \in Request : Started(r)

\* The invariants of the parts are kept.
LEMMA PartsStep ==
  ASSUME ServerInv, [Next]_vars
  PROVE  DP!DispatcherInv' /\ JP!OverlapInv'
  <1>1. DP!DispatcherInv'
    <2>1. DP!TypeOK /\ DP!Exclusion /\ DP!FrontStays /\ DP!NeverTakesFromEmpty /\ DP!DispatcherInv
      BY DEF ServerInv, DP!DispatcherInv
    <2>2. [DP!Next]_(DP!vars)
      BY QueueStep
    <2>3. DP!TypeOK'
      BY <2>1, <2>2, Names, DP!TypeStep DEF DP!NamesAssumption
    <2>4. DP!Exclusion'
      BY <2>1, <2>2, Names, DP!ExclusionStep DEF DP!NamesAssumption
    <2>5. DP!FrontStays' /\ DP!NeverTakesFromEmpty'
      BY <2>1, <2>2, Names, DP!FrontStep DEF DP!NamesAssumption
    <2>6. DP!NothingLost'
      BY <2>1, <2>2, Names, DP!NothingLostStep DEF DP!NamesAssumption
    <2> QED
      BY <2>3, <2>4, <2>5, <2>6 DEF DP!DispatcherInv
  <1>2. JP!OverlapInv'
    <2>1. JP!OverlapInv
      BY DEF ServerInv
    <2>2. CASE UNCHANGED JP!vars
      BY <2>1, <2>2, Solutions, JP!OverlapStutter DEF JP!JudgingAssumption
    <2>3. CASE D!Spawn /\ JP!Start(info)
      <3>1. info \in Request
        BY <2>3 DEF D!Spawn, ServerInv, DP!DispatcherInv, DP!FrontStays
      <3> QED
        BY <2>1, <2>3, <3>1, Solutions, JP!OverlapStart DEF JP!JudgingAssumption
    <2>4. ASSUME NEW r \in Request, JP!Judge(r) PROVE JP!OverlapInv'
      BY <2>1, <2>4, Solutions, JP!OverlapStep DEF JP!JudgingAssumption
    <2> QED
      BY <2>2, <2>3, <2>4, JudgingStep DEF judging, JP!vars
  <1> QED
    BY <1>1, <1>2

\* With the go statement a request is dispatched and its goroutine exists.
LEMMA StartedStep ==
  ASSUME ServerInv, [Next]_vars
  PROVE  \A r \in Request : Started(r)'
  <1>1. /\ \A r \in Request : Started(r)
        /\ dispatched \in Seq(Request)
        /\ pc \in [Request -> JP!Running \cup {"waiting", "done"}]
    BY DEF ServerInv, DP!DispatcherInv, DP!TypeOK, JP!OverlapInv, JP!Types, JP!PcOK
  <1>2. CASE UNCHANGED <<dispatched, judging>>
    BY <1>1, <1>2 DEF judging, Started, D!Occurs
  <1>3. CASE D!Spawn /\ JP!Start(info)
    <2>1. info \in Request /\ dispatched' = Append(dispatched, info)
      BY <1>3 DEF D!Spawn, ServerInv, DP!DispatcherInv, DP!FrontStays
    <2>2. \A r \in Request : pc'[r] = IF r = info THEN "init" ELSE pc[r]
      BY <1>1, <1>3 DEF JP!Start, JP!Step
    <2>3. \A r : DP!Occurs(r, Append(dispatched, info)) <=> DP!Occurs(r, dispatched) \/ r = info
      BY <1>1, <2>1, Names, DP!AppendFresh DEF DP!NamesAssumption
    <2>4. \A r : D!Occurs(r, dispatched') <=> D!Occurs(r, dispatched) \/ r = info
      BY <2>1, <2>3 DEF D!Occurs, DP!Occurs
    <2> QED
      BY <1>1, <2>2, <2>4 DEF Started
  <1>4. ASSUME NEW g \in Request, JP!Judge(g), UNCHANGED dispatched
        PROVE  \A r \in Request : Started(r)'
    <2>1. JP!Types
      BY DEF ServerInv, JP!OverlapInv
    <2>2. /\ pc[g] \in JP!Running /\ pc'[g] \in JP!Running \cup {"done"}
          /\ \A h \in Request \ {g} : pc'[h] = pc[h]
      BY <1>4, <2>1, Solutions, JP!StepOfOne DEF JP!JudgingAssumption
    <2>3. pc[g] # "waiting" /\ pc'[g] # "waiting"
      BY <2>2 DEF JP!Running
    <2> QED
      BY <1>1, <1>4, <2>2, <2>3 DEF Started, D!Occurs
  <1> QED
    BY <1>2, <1>3, <1>4, JudgingStep

\* At the beginning nothing was dispatched.
LEMMA InitInv == Init => ServerInv
  <1> SUFFICES ASSUME Init PROVE ServerInv
    OBVIOUS
  <1>1. DP!DispatcherInv
    BY InitParts, Names, DP!InitInv DEF DP!NamesAssumption
  <1>2. JP!OverlapInv
    BY InitParts, Solutions, JP!OverlapInit DEF JP!JudgingAssumption
  <1>3. \A r \in Request : Started(r)
    BY DEF Init, D!Init, J!Init, Started, D!Occurs
  <1> QED
    BY <1>1, <1>2, <1>3 DEF ServerInv

-----------------------------------------------------------------------------
(* The theorems.                                                           *)

\* The parts and what connects them, whatever the server does.
THEOREM Invariance == Spec => []ServerInv
  <1>1. ServerInv /\ [Next]_vars => ServerInv'
    BY PartsStep, StartedStep DEF ServerInv
  <1> QED
    BY InitInv, <1>1, PTL DEF Spec

\* The server's queue is the queue of Dispatcher, although now a goroutine's
\* panic ends everything: requests are still dispatched in the order in which
\* they were accepted, each of them once (main.go:89-139).
THEOREM QueueOfServer == Spec => DP!AbstractSafety
  <1>1. Spec => DP!Safety
    BY InitParts, QueueStep, PTL DEF Spec, DP!Safety
  <1>2. DP!Safety => DP!AbstractSafety
    BY Names, DP!Refinement DEF DP!NamesAssumption
  <1> QED
    BY <1>1, <1>2

\* simfile has an owner, however many goroutines the dispatcher starts
\* (judge.go:199-204).
THEOREM SimfileOwned == Spec => []SimfileHasOwner
  <1>1. ServerInv => SimfileHasOwner
    BY DEF ServerInv, JP!OverlapInv, JP!Simfile, SimfileHasOwner, J!SimfileHasOwner, JP!NoSid,
           J!NoSid
  <1> QED
    BY <1>1, Invariance, PTL

\* When the server is idle, every request for our judger that it took over has
\* been judged and its solution has a verdict (main.go:90-139).
\* The other judgers may give up without one.
THEOREM AllJudged ==
  ASSUME \A r \in Request : Info[r].oj \in J!OurTokens
  PROVE  Spec => []IdleMeansJudged
  <1> DEFINE Settling == \A r \in Request : JP!Settles(r)
  <1>1. Init => Settling
    BY InitParts, Solutions, JP!SettlesInit DEF JP!JudgingAssumption
  <1>2. ServerInv /\ Settling /\ [Next]_vars => Settling'
    <2> SUFFICES ASSUME ServerInv, Settling, [Next]_vars PROVE Settling'
      OBVIOUS
    <2>1. JP!OverlapInv /\ \A r \in Request : Info[r].oj \in JP!OurTokens
      BY DEF ServerInv, J!OurTokens, JP!OurTokens
    <2>2. UNCHANGED JP!vars \/ \E r \in Request : JP!Start(r) \/ JP!Judge(r)
      <3>1. D!Spawn => info \in Request
        BY DEF D!Spawn, ServerInv, DP!DispatcherInv, DP!FrontStays
      <3> QED
        BY <3>1, JudgingStep DEF judging, JP!vars
    <2> QED
      BY <2>1, <2>2, Solutions, JP!SettlesStep DEF JP!JudgingAssumption
  <1>3. ServerInv /\ Settling => IdleMeansJudged
    <2> SUFFICES ASSUME ServerInv, Settling, Idle, NEW r \in Request, hpc[r] = "queued"
                 PROVE  pc[r] = "done" /\ db[Info[r].sid].judge \in J!Settled
      BY DEF IdleMeansJudged
    <2>1. /\ DP!NothingLost /\ dispatched \in Seq(Request)
          /\ queue = <<>> /\ DP!InHand = <<>>
      BY DEF ServerInv, DP!DispatcherInv, DP!TypeOK, Idle, D!InHand, DP!InHand
    <2>2. DP!Flow = dispatched
      BY <2>1, ConcatEmptySeq DEF DP!Flow
    <2>3. pc[r] # "waiting"
      BY <2>1, <2>2 DEF DP!NothingLost, ServerInv, Started, DP!Occurs, D!Occurs
    <2>4. \A g \in Request : pc[g] \in {"waiting", "done"}
      BY DEF Idle, J!InFlight
    <2>5. pc[r] = "done"
      BY <2>3, <2>4
    <2>6. user[r].sid \in JP!Sid
      BY <2>5 DEF ServerInv, JP!OverlapInv, JP!Known, JP!Unknown
    <2>7. user[r].sid = Info[r].sid
      BY <2>5, <2>6, Solutions DEF JP!Settles, JP!JudgingAssumption
    <2>8. db[user[r].sid].judge \in JP!Settled
      BY <2>4, <2>5 DEF JP!Settles, JP!Written, JP!Pending, JP!Deciding, JP!InSim
    <2> QED
      BY <2>5, <2>7, <2>8 DEF J!Settled, J!Verdict, JP!Settled, JP!Verdict
  <1> QED
    BY <1>1, <1>2, <1>3, Invariance, PTL DEF Spec
=============================================================================
