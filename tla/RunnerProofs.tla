---------------------------- MODULE RunnerProofs ----------------------------
(***************************************************************************)
(* Proofs about the runner.  The first are about Runner, for any           *)
(* directory, limits and table of calls: what it means that a program was  *)
(* accepted, that the limits judge_solution checks again were kept, and    *)
(* that one child is over before the next one is started.                  *)
(*                                                                         *)
(* The argument follows the one way a test leaves watch_solution with its  *)
(* verdict still AC: through Exits, within the limits, and with the child  *)
(* gone.                                                                   *)
(*                                                                         *)
(* The second part is about system calls: one that is forbidden is an      *)
(* error, and one that is limited does not come back too often.  A second  *)
(* invariant relates the counters to the calls that came back, and to the  *)
(* one the child is inside of.  The last part is about compare.            *)
(***************************************************************************)
EXTENDS Runner, TextCompare, WellFoundedInduction, NaturalsInduction, SequenceTheorems, TLAPS

\* The numbers are numbers.
Numbers == /\ usedtime \in Nat
           /\ topmemory \in Nat
           /\ count \in Nat
           /\ event.cpu \in Nat
           /\ event \in [kind : {"none", "enter", "leave", "signal", "exit"},
                         signal : Signal \cup {"none"}, cpu : Nat, big : BOOLEAN]

\* Tests that were read and are not the one at hand have passed.
Progress ==
  /\ left \subseteq Entry
  /\ passed \subseteq InFile
  /\ pc = "read" /\ flag = "AC" => passed = InFile \ left
  /\ pc \in {"wait", "check", "judge"} =>
       test \in InFile \ left /\ passed = InFile \ (left \cup {test})
  /\ count # 0 => InFile # {}

\* Only a child that is gone lets a test end with AC.
Gone == /\ pc = "check" /\ event.kind = "exit" => child = "gone"
        /\ pc = "judge" /\ flag = "AC" => child = "gone"
        /\ OneChild

\* The inductive invariant.
RunnerInv == /\ pc \in {"read", "wait", "check", "judge", "done"}
             /\ Numbers
             /\ Progress
             /\ Gone
             /\ LimitsChecked
             /\ AcceptedMeansAll

-----------------------------------------------------------------------------
\* What wait4 returns disturbs no part of the invariant but the numbers.
LEMMA HappensStep ==
  ASSUME RunnerInv, NEW kind \in {"enter", "leave", "signal", "exit"},
         NEW signal \in Signal \cup {"none"},
         pc = "wait", Happens(kind, signal),
         kind = "exit" => child' = "gone"
  PROVE  RunnerInv'
  <1> USE DEF RunnerInv, Happens, main
  <1>1. PICK more \in {0, 1}, big \in BOOLEAN :
          event' = [kind |-> kind, signal |-> signal,
                    cpu |-> event.cpu + more, big |-> big]
    OBVIOUS
  <1>2. PICK sample \in 0 .. MemLimit + 1 :
          topmemory' = IF sample > topmemory THEN sample ELSE topmemory
    OBVIOUS
  <1>3. event'.cpu \in Nat /\ event'.kind = kind
    BY <1>1 DEF Numbers
  <1>4. topmemory' \in Nat
    BY <1>2, RunnerAssumption DEF Numbers
  <1>5. Numbers'
    BY <1>1, <1>3, <1>4 DEF Numbers
  <1>6. Progress'
    BY DEF Progress
  <1>7. Gone'
    BY <1>3 DEF Gone, OneChild
  <1> QED
    BY <1>5, <1>6, <1>7 DEF LimitsChecked, AcceptedMeansAll

\* Leaving the loop with a verdict other than AC, or within the limits and
\* with the child gone, is all the rest of main counts on.
LEMMA BreakStep ==
  ASSUME RunnerInv, pc = "check", Break,
         flag' = "AC" => /\ Cpu < TimeLimit
                         /\ topmemory <= MemLimit
                         /\ child = "gone"
  PROVE  RunnerInv'
  <1> USE DEF RunnerInv, Break, main, trace
  <1>1. Numbers'
    BY DEF Numbers, Cpu
  <1>2. Progress'
    BY DEF Progress
  <1>3. Gone'
    BY DEF Gone, OneChild
  <1>4. LimitsChecked'
    BY DEF LimitsChecked
  <1> QED
    BY <1>1, <1>2, <1>3, <1>4 DEF AcceptedMeansAll

\* Going on to the next stop of the child leaves directory and limits
\* alone.
LEMMA ResumeStep ==
  ASSUME RunnerInv, pc = "check", Resume
  PROVE  RunnerInv'
  <1> USE DEF RunnerInv, Resume, main, limits
  <1>1. Numbers' /\ Progress' /\ Gone'
    BY DEF Numbers, Progress, Gone, OneChild
  <1> QED
    BY <1>1 DEF LimitsChecked, AcceptedMeansAll

-----------------------------------------------------------------------------
\* No child, no test and nothing used yet.
LEMMA InitRunnerInv == Init => RunnerInv
  BY RunnerAssumption
  DEF Init, RunnerInv, Numbers, Progress, Gone, OneChild, LimitsChecked,
      AcceptedMeansAll, Idle

\* main's loop: only a directory that is read to its end with AC is accepted.
LEMMA ReadDirStep ==
  ASSUME RunnerInv, ReadDir
  PROVE  RunnerInv'
  <1> USE DEF RunnerInv
  <1>1. ASSUME NEW e \in Entry, Skip(e) PROVE RunnerInv'
    BY <1>1 DEF Skip, limits, trace, Numbers, Progress, Gone, OneChild,
                LimitsChecked, AcceptedMeansAll
  <1>2. ASSUME NEW e \in Entry, Fork(e) PROVE RunnerInv'
    <2>1. Numbers'
      BY <1>2 DEF Fork, Numbers, limits, Idle
    <2>2. Progress'
      BY <1>2 DEF Fork, Progress
    <2>3. Gone' /\ LimitsChecked' /\ AcceptedMeansAll'
      BY <1>2 DEF Fork, Gone, OneChild, LimitsChecked, AcceptedMeansAll
    <2> QED
      BY <1>2, <2>1, <2>2, <2>3 DEF Fork
  <1>3. CASE Report
    <2>1. Numbers' /\ Progress' /\ Gone' /\ LimitsChecked'
      BY <1>3, RunnerAssumption
      DEF Report, main, trace, Numbers, Progress, Gone, OneChild, LimitsChecked
    <2>2. ASSUME flag' = "AC" PROVE AcceptedMeansAll'
      <3>1. flag = "AC" /\ left = {} /\ count # 0
        BY <1>3, <2>2 DEF Report
      <3>2. passed' = InFile /\ usedtime' = usedtime /\ topmemory' = topmemory
        BY <1>3, <2>2, <3>1 DEF Report, Progress, main
      <3> QED
        BY <1>3, <3>1, <3>2 DEF Report, Progress, LimitsChecked, AcceptedMeansAll
    <2> QED
      BY <1>3, <2>1, <2>2 DEF Report, AcceptedMeansAll
  <1> QED
    BY <1>1, <1>2, <1>3 DEF ReadDir

\* What the child does is noticed, or not, but decides nothing by itself.
LEMMA Wait4Step ==
  ASSUME RunnerInv, Wait4
  PROVE  RunnerInv'
  <1>1. ASSUME NEW c \in Call, EnterCall(c) PROVE RunnerInv'
    BY <1>1, HappensStep DEF EnterCall
  <1>2. CASE LeaveCall
    BY <1>2, HappensStep DEF LeaveCall
  <1>3. ASSUME NEW s \in Signal, Stop(s) PROVE RunnerInv'
    BY <1>3, HappensStep DEF Stop
  <1>4. ASSUME NEW kind \in {"exit", "kill"}, End(kind) PROVE RunnerInv'
    <2>1. CASE kind = "exit"
      BY <1>4, <2>1, HappensStep DEF End
    <2>2. CASE kind = "kill"
      <3>1. "KILL" \in Signal
        BY DEF Signal
      <3> QED
        BY <1>4, <2>2, <3>1, HappensStep DEF End
    <2> QED
      BY <1>4, <2>1, <2>2
  <1> QED
    BY <1>1, <1>2, <1>3, <1>4 DEF Wait4

\* Every way out of watch_solution's loop, and the way round it.
LEMMA WatchStep ==
  ASSUME RunnerInv, Watch
  PROVE  RunnerInv'
  <1>1. CASE MemoryExceeded
    BY <1>1, BreakStep DEF MemoryExceeded
  <1>2. CASE TimeExceeded
    BY <1>2, BreakStep DEF TimeExceeded
  <1>3. CASE Exits
    BY <1>3, BreakStep DEF Exits, WithinLimits, RunnerInv, Gone
  <1>4. CASE ErrorOutput
    BY <1>4, BreakStep DEF ErrorOutput, GoesOn
  <1>5. CASE OutputExceeded
    BY <1>5, BreakStep DEF OutputExceeded, GoesOn
  <1>6. CASE Signalled
    BY <1>6, BreakStep DEF Signalled, Inspects, GoesOn
  <1>7. CASE NotAllowed
    BY <1>7, ResumeStep DEF NotAllowed, Inspects, GoesOn
  <1>8. CASE Allowed
    BY <1>8, ResumeStep DEF Allowed, Inspects, GoesOn
  <1> QED
    BY <1>1, <1>2, <1>3, <1>4, <1>5, <1>6, <1>7, <1>8 DEF Watch

\* judge_solution: a test that is left with AC has passed.
LEMMA JudgeStep ==
  ASSUME RunnerInv, Judge
  PROVE  RunnerInv'
  <1> USE DEF RunnerInv, Judge, limits, trace
  <1>1. Numbers'
    BY DEF Numbers
  <1>2. flag' = "AC" => flag = "AC"
    OBVIOUS
  <1>3. /\ test \in InFile \ left
        /\ passed = InFile \ (left \cup {test})
        /\ left \subseteq Entry
    BY DEF Progress
  <1>4. Progress'
    <2>1. CASE flag' = "AC"
      <3>1. passed' = InFile \ left
        BY <1>3, <2>1
      <3> QED
        BY <1>3, <3>1 DEF Progress
    <2>2. CASE flag' # "AC"
      BY <1>3, <2>2 DEF Progress
    <2> QED
      BY <2>1, <2>2
  <1>5. Gone'
    BY <1>2 DEF Gone, OneChild
  <1>6. LimitsChecked' /\ AcceptedMeansAll'
    BY <1>2 DEF LimitsChecked, AcceptedMeansAll
  <1> QED
    BY <1>1, <1>4, <1>5, <1>6

-----------------------------------------------------------------------------
\* The invariant holds of every run, whatever the child does.
THEOREM Invariance == Spec => []RunnerInv
  <1>1. Init => RunnerInv
    BY InitRunnerInv
  <1>2. RunnerInv /\ [Next]_vars => RunnerInv'
    <2> SUFFICES ASSUME RunnerInv, [Next]_vars PROVE RunnerInv'
      OBVIOUS
    <2>1. CASE ReadDir
      BY <2>1, ReadDirStep
    <2>2. CASE Alarm
      BY <2>2 DEF Alarm, main, limits, trace, RunnerInv, Numbers, Progress, Gone,
                  OneChild, LimitsChecked, AcceptedMeansAll
    <2>3. CASE Wait4
      BY <2>3, Wait4Step
    <2>4. CASE Watch
      BY <2>4, WatchStep
    <2>5. CASE Judge
      BY <2>5, JudgeStep
    <2>6. CASE UNCHANGED vars
      BY <2>6 DEF vars, RunnerInv, Numbers, Progress, Gone,
                  OneChild, LimitsChecked, AcceptedMeansAll
    <2> QED
      BY <2>1, <2>2, <2>3, <2>4, <2>5, <2>6 DEF Next
  <1> QED
    BY <1>1, <1>2, PTL DEF Spec

\* An accepted program has passed every .in file, of which there was one, and
\* kept the limits over all of them together (runner.cc:628-654).
THEOREM Accepted == Spec => []AcceptedMeansAll
  <1>1. RunnerInv => AcceptedMeansAll
    BY DEF RunnerInv
  <1> QED
    BY <1>1, Invariance, PTL

\* The two limits at the head of judge_solution never decide a verdict:
\* watch_solution has kept them (runner.cc:339-347).
THEOREM LimitsKept == Spec => []LimitsChecked
  <1>1. RunnerInv => LimitsChecked
    BY DEF RunnerInv
  <1> QED
    BY <1>1, Invariance, PTL

\* No child is started before the one before it is gone (runner.cc:642).
THEOREM OneAtATime == Spec => []OneChild
  <1>1. RunnerInv => OneChild
    BY DEF RunnerInv, Gone
  <1> QED
    BY <1>1, Invariance, PTL

-----------------------------------------------------------------------------
(* The system calls: what is forbidden is an error, and what is limited is *)
(* counted.                                                                *)

\* Types of what the tracer keeps about calls.
TraceTypes == /\ counter \in [Call -> Nat \cup {Unlimited}]
              /\ completed \in [Call -> Nat]
              /\ sub \in {0, 1}
              /\ call \in Call \cup {NoCall}
              /\ forbidden \in BOOLEAN

\* sub is 1 exactly when the next stop enters a call, as long as the child
\* lives.
Alternates ==
  /\ pc = "check" => event.kind \in {"enter", "leave", "signal", "exit"}
  /\ pc = "wait" /\ child = "running" => (sub = 1 <=> call = NoCall)
  /\ pc = "check" /\ event.kind = "enter" => sub = 1 /\ call # NoCall
  /\ pc = "check" /\ event.kind = "leave" => sub = 0 /\ call # NoCall

\* Between the two stops of call c.
Inside(c) == call = c /\ sub = 0

\* The exec the first child starts inside of is not counted.
Extra(c) == IF c = Exec THEN 1 ELSE 0

\* Each call that came back, and the one the child is in, took one off.
Balanced ==
  \A c \in Call : Limit[c] > 0 =>
    /\ counter[c] \in Nat
    /\ completed[c] + counter[c] <= Limit[c] + Extra(c)
    /\ Inside(c) => completed[c] + counter[c] + 1 <= Limit[c] + Extra(c)
    /\ completed[c] + 1 <= Limit[c] + Extra(c)

\* A call that is not allowed stays so.
NeverAllowed == \A c \in Call : Limit[c] = 0 => counter[c] = 0

\* A forbidden call is either still to be looked at, or has left its line in
\* error.out and a child that can only be killed, or has decided the verdict.
ForbiddenSeen ==
  forbidden =>
    /\ pc = "wait" => errorout /\ child = "dying"
    /\ pc = "check" => \/ event.kind = "enter" /\ call \in Call /\ Limit[call] = 0
                       \/ event.kind = "signal" /\ errorout
    /\ pc = "read" => flag # "AC"

TraceInv == TraceTypes /\ Alternates /\ Balanced /\ NeverAllowed /\ ForbiddenSeen
              /\ ForbiddenIsError

\* Every counter starts at its limit, and no call has been made.
LEMMA InitTraceInv == Init => TraceInv
  <1> SUFFICES ASSUME Init PROVE TraceInv
    OBVIOUS
  <1> USE RunnerAssumption DEF Init
  <1>1. TraceTypes /\ NeverAllowed
    BY DEF TraceTypes, NeverAllowed
  <1>2. Alternates /\ ForbiddenSeen /\ ForbiddenIsError
    BY DEF Alternates, ForbiddenSeen, ForbiddenIsError
  <1>3. Balanced
    <2>1. \A c \in Call : Limit[c] > 0 => Limit[c] \in Nat \ {0}
      BY DEF Unlimited
    <2> QED
      BY <2>1 DEF Balanced, Inside, Extra
  <1> QED
    BY <1>1, <1>2, <1>3 DEF TraceInv

\* What a stop or the end of the child leaves alone.
LEMMA HappensTrace ==
  ASSUME TraceInv, NEW kind \in {"enter", "leave", "signal", "exit"},
         NEW signal, Happens(kind, signal), UNCHANGED completed,
         call' \in Call \cup {NoCall},
         call' = call \/ (kind = "enter" /\ child = "running" /\ call = NoCall),
         pc = "wait",
         kind = "enter" => child = "running" /\ call = NoCall /\ call' # NoCall,
         kind = "leave" => child = "running" /\ call # NoCall,
         kind = "exit" => child = "running",
         forbidden' \in BOOLEAN,
         forbidden' => \/ forbidden /\ kind \notin {"enter", "leave"}
                       \/ kind = "enter" /\ call' \in Call /\ Limit[call'] = 0
  PROVE  TraceInv'
  <1> USE DEF TraceInv, Happens, main
  <1>1. /\ event'.kind = kind
        /\ pc' = "check"
        /\ UNCHANGED <<counter, sub, completed>>
        /\ errorout => errorout'
    <2>1. PICK more \in {0, 1}, big \in BOOLEAN :
            event' = [kind |-> kind, signal |-> signal,
                      cpu |-> event.cpu + more, big |-> big]
      OBVIOUS
    <2>2. event'.kind = kind
      BY <2>1
    <2>3. errorout => errorout'
      OBVIOUS
    <2> QED
      BY <2>2, <2>3
  <1>2. TraceTypes' /\ NeverAllowed'
    BY <1>1 DEF TraceTypes, NeverAllowed
  <1>3. Alternates'
    BY <1>1 DEF Alternates, TraceTypes
  <1>4. Balanced'
    <2>1. kind = "enter" => sub = 1
      BY DEF Alternates
    <2>2. \A c \in Call : Inside(c)' => Inside(c)
      BY <1>1, <2>1 DEF Inside
    <2> QED
      BY <1>1, <2>2 DEF Balanced, Extra
  <1>5. ForbiddenSeen' /\ ForbiddenIsError'
    BY <1>1 DEF ForbiddenSeen, ForbiddenIsError
  <1> QED
    BY <1>2, <1>3, <1>4, <1>5

\* Leaving watch_solution: only the verdict matters.
LEMMA BreakTrace ==
  ASSUME TraceInv, Break, pc = "check",
         forbidden => \/ flag' \in {"RE", "OLE"}
                      \/ flag' = "MLE" /\ topmemory > MemLimit
                      \/ flag' = "TLE" /\ Cpu >= TimeLimit
  PROVE  TraceInv'
  BY DEF TraceInv, Break, trace, TraceTypes, Alternates, Balanced, Inside, Extra, NeverAllowed,
         ForbiddenSeen, ForbiddenIsError

\* watch_solution counts what it sees, and stops what has no calls left.
LEMMA WatchTrace ==
  ASSUME TraceInv, Watch
  PROVE  TraceInv'
  <1>1. CASE MemoryExceeded
    BY <1>1, BreakTrace DEF MemoryExceeded
  <1>2. CASE TimeExceeded
    BY <1>2, BreakTrace DEF TimeExceeded
  <1>3. CASE Exits
    BY <1>3, BreakTrace DEF Exits, TraceInv, ForbiddenSeen
  <1>4. CASE ErrorOutput
    BY <1>4, BreakTrace DEF ErrorOutput, GoesOn
  <1>5. CASE OutputExceeded
    BY <1>5, BreakTrace DEF OutputExceeded, GoesOn
  <1>6. CASE Signalled
    BY <1>6, BreakTrace DEF Signalled, Inspects, GoesOn, TraceInv, ForbiddenSeen
  <1>7. CASE NotAllowed
    <2> USE <1>7 DEF NotAllowed, Resume, Inspects, GoesOn, TraceInv
    <2>1. TraceTypes' /\ NeverAllowed'
      BY DEF TraceTypes, NeverAllowed
    <2>2. Alternates'
      BY DEF Alternates
    <2>3. Balanced'
      <3> SUFFICES ASSUME NEW c \in Call, Limit[c] > 0
                   PROVE  /\ counter'[c] \in Nat
                          /\ completed'[c] + counter'[c] <= Limit[c] + Extra(c)
                          /\ Inside(c)' => completed'[c] + counter'[c] + 1 <= Limit[c] + Extra(c)
                          /\ completed'[c] + 1 <= Limit[c] + Extra(c)
        BY DEF Balanced, Extra
      <3>1. Inside(c)' => call = c /\ counter[c] = 0
        BY DEF Inside, Alternates
      <3>2. completed[c] \in Nat /\ Limit[c] \in Int
        BY RunnerAssumption DEF TraceTypes, Unlimited
      <3> QED
        BY <3>1, <3>2 DEF Balanced, Extra
    <2>4. ForbiddenSeen' /\ ForbiddenIsError'
      BY DEF ForbiddenSeen, ForbiddenIsError
    <2> QED
      BY <2>1, <2>2, <2>3, <2>4
  <1>8. CASE Allowed
    <2> USE <1>8 DEF Allowed, Resume, Inspects, GoesOn, TraceInv
    <2>1. event.kind \in {"enter", "leave"} => call \in Call
      BY DEF Alternates, TraceTypes
    <2>2. ~ forbidden
      BY DEF ForbiddenSeen, NeverAllowed
    <2>3. event.kind \in {"enter", "leave"} /\ call \in Call
      BY <2>1 DEF Alternates
    <2>4. /\ call' = IF event.kind = "leave" THEN NoCall ELSE call
          /\ sub' = 1 - sub
          /\ event.kind = "enter" <=> sub = 1
          /\ NoCall \notin Call
      BY <2>3, RunnerAssumption DEF Alternates
    <2>5. counter' \in [Call -> Nat \cup {Unlimited}]
      BY <2>3 DEF TraceTypes, Unlimited
    <2>6. completed' \in [Call -> Nat]
      BY <2>3 DEF TraceTypes
    <2>7. TraceTypes' /\ NeverAllowed' /\ Alternates'
      BY <2>3, <2>4, <2>5, <2>6 DEF TraceTypes, NeverAllowed, Alternates
    <2>8. Balanced'
      <3> SUFFICES ASSUME NEW c \in Call, Limit[c] > 0
                   PROVE  /\ counter'[c] \in Nat
                          /\ completed'[c] + counter'[c] <= Limit[c] + Extra(c)
                          /\ Inside(c)' => completed'[c] + counter'[c] + 1 <= Limit[c] + Extra(c)
                          /\ completed'[c] + 1 <= Limit[c] + Extra(c)
        BY DEF Balanced, Extra
      <3>1. /\ completed[c] \in Nat /\ counter[c] \in Nat
            /\ Limit[c] \in Nat /\ Limit[c] # Unlimited /\ Extra(c) \in Nat
        BY RunnerAssumption DEF TraceTypes, Balanced, Unlimited, Extra
      <3>2. CASE event.kind = "enter"
        <4>1. completed' = completed /\ sub = 1 /\ sub' = 0 /\ call' = call
          BY <2>4, <3>2
        <4>2. counter'[c] = IF c = call THEN counter[c] - 1 ELSE counter[c]
          BY <4>1, <3>1, <2>3 DEF TraceTypes
        <4>3. Inside(c)' => c = call
          BY <4>1 DEF Inside
        <4> QED
          BY <3>1, <4>1, <4>2, <4>3 DEF Balanced
      <3>3. CASE event.kind = "leave"
        <4>1. counter' = counter /\ sub = 0 /\ ~ Inside(c)'
          <5>1. sub = 0
            BY <3>3 DEF Alternates
          <5>2. counter' = counter
            BY <5>1
          <5>3. call' = NoCall
            BY <2>4, <3>3
          <5> QED
            BY <2>4, <5>1, <5>2, <5>3 DEF Inside
        <4>2. completed'[c] = IF c = call THEN completed[c] + 1 ELSE completed[c]
          BY <3>1, <3>3, <2>3 DEF TraceTypes
        <4>3. c = call => Inside(c) /\ counter[c] # 0
          BY <4>1 DEF Inside
        <4> QED
          BY <3>1, <4>1, <4>2, <4>3 DEF Balanced
      <3> QED
        BY <2>3, <3>2, <3>3
    <2>9. ForbiddenSeen' /\ ForbiddenIsError'
      BY <2>2 DEF ForbiddenSeen, ForbiddenIsError
    <2> QED
      BY <2>7, <2>8, <2>9
  <1> QED
    BY <1>1, <1>2, <1>3, <1>4, <1>5, <1>6, <1>7, <1>8 DEF Watch


\* A new child is first seen inside its exec, with fresh counters.
LEMMA ReadDirTrace ==
  ASSUME TraceInv, ReadDir
  PROVE  TraceInv'
  <1> USE DEF TraceInv
  <1>1. ASSUME NEW e \in Entry, Skip(e) PROVE TraceInv'
    BY <1>1 DEF Skip, trace, TraceTypes, Alternates, Balanced, Inside, Extra,
                NeverAllowed, ForbiddenSeen, ForbiddenIsError
  <1>2. ASSUME NEW e \in Entry, Fork(e) PROVE TraceInv'
    <2> USE <1>2, RunnerAssumption DEF Fork
    <2>1. TraceTypes' /\ NeverAllowed'
      BY DEF TraceTypes, NeverAllowed
    <2>2. Alternates' /\ ForbiddenSeen' /\ ForbiddenIsError'
      BY DEF Alternates, ForbiddenSeen, ForbiddenIsError
    <2>3. Balanced'
      <3>1. \A c \in Call : Limit[c] > 0 => Limit[c] \in Nat \ {0}
        BY DEF Unlimited
      <3> QED
        BY <3>1 DEF Balanced, Inside, Extra
    <2> QED
      BY <2>1, <2>2, <2>3
  <1>3. CASE Report
    BY <1>3 DEF Report, trace, TraceTypes, Alternates, Balanced, Inside, Extra,
                NeverAllowed, ForbiddenSeen, ForbiddenIsError
  <1> QED
    BY <1>1, <1>2, <1>3 DEF ReadDir

\* Entry and exit stops alternate, until the child is killed or ends.
LEMMA Wait4Trace ==
  ASSUME TraceInv, Wait4
  PROVE  TraceInv'
  <1>1. /\ call \in Call \cup {NoCall} /\ NoCall \notin Call
        /\ forbidden \in BOOLEAN
        /\ pc = "wait" /\ forbidden => child = "dying"
    BY RunnerAssumption DEF TraceInv, TraceTypes, ForbiddenSeen
  <1>2. ASSUME NEW c \in Call, EnterCall(c) PROVE TraceInv'
    <2>1. forbidden' \in BOOLEAN
      BY <1>2 DEF EnterCall
    <2> QED
      BY <1>1, <1>2, <2>1, HappensTrace DEF EnterCall
  <1>3. CASE LeaveCall
    BY <1>1, <1>3, HappensTrace DEF LeaveCall
  <1>4. ASSUME NEW s \in Signal, Stop(s) PROVE TraceInv'
    BY <1>1, <1>4, HappensTrace DEF Stop
  <1>5. ASSUME NEW kind \in {"exit", "kill"}, End(kind) PROVE TraceInv'
    BY <1>1, <1>5, HappensTrace DEF End
  <1> QED
    BY <1>2, <1>3, <1>4, <1>5 DEF Wait4

\* judge_solution leaves the counters alone, and error.out stays.
LEMMA JudgeTrace ==
  ASSUME TraceInv, Judge
  PROVE  TraceInv'
  <1> USE DEF TraceInv, Judge, trace, limits
  <1>1. forbidden => flag' # "AC"
    BY DEF ForbiddenIsError
  <1> QED
    BY <1>1 DEF TraceTypes, Alternates, Balanced, Inside, Extra, NeverAllowed,
                ForbiddenSeen, ForbiddenIsError

\* The invariant about calls, whatever the child calls and when it stops.
THEOREM TraceInvariance == Spec => []TraceInv
  <1>1. TraceInv /\ [Next]_vars => TraceInv'
    <2> SUFFICES ASSUME TraceInv, [Next]_vars PROVE TraceInv'
      OBVIOUS
    <2>1. CASE ReadDir
      BY <2>1, ReadDirTrace
    <2>2. CASE Alarm
      BY <2>2 DEF Alarm, main, limits, trace, TraceInv, TraceTypes, Alternates, Balanced,
                  Inside, Extra, NeverAllowed, ForbiddenSeen, ForbiddenIsError
    <2>3. CASE Wait4
      BY <2>3, Wait4Trace
    <2>4. CASE Watch
      BY <2>4, WatchTrace
    <2>5. CASE Judge
      BY <2>5, JudgeTrace
    <2>6. CASE UNCHANGED vars
      BY <2>6 DEF vars, TraceInv, TraceTypes, Alternates, Balanced,
                  Inside, Extra, NeverAllowed, ForbiddenSeen, ForbiddenIsError
    <2> QED
      BY <2>1, <2>2, <2>3, <2>4, <2>5, <2>6 DEF Next
  <1> QED
    BY InitTraceInv, <1>1, PTL DEF Spec

\* A child that made a call that is not allowed is never judged by its output,
\* nor by the signal it was killed with (runner.cc:507-515).
THEOREM ForbiddenNoticed == Spec => []ForbiddenIsError
  <1>1. TraceInv => ForbiddenIsError
    BY DEF TraceInv
  <1> QED
    BY <1>1, TraceInvariance, PTL

\* No call comes back more often than the table of limits lets it, for any
\* table and any order of stops (runner.cc:516-522).
THEOREM CallsCounted == Spec => []CallsLimited
  <1>1. TraceInv => CallsLimited
    <2> SUFFICES ASSUME TraceInv, NEW c \in Call, Limit[c] > 0
                 PROVE  completed[c] <= IF c = Exec THEN Limit[c] ELSE Limit[c] - 1
      BY DEF CallsLimited
    <2>1. completed[c] \in Nat /\ Limit[c] \in Int
      BY RunnerAssumption DEF TraceInv, TraceTypes, Unlimited
    <2> QED
      BY <2>1 DEF TraceInv, Balanced, Extra
  <1> QED
    BY <1>1, TraceInvariance, PTL

-----------------------------------------------------------------------------
(***************************************************************************)
(* compare, for files of any length over any letters: its verdict says     *)
(* whether the words of the two files are the same and, of files with the  *)
(* same words, whether their layout is.                                    *)
(*                                                                         *)
(* The invariant compares what has been read of the files: the same words, *)
(* character by character and word by word, and while no presentation      *)
(* error has been seen also the same layout, unless one file is at its end *)
(* and the other goes on with white space.                                 *)
(***************************************************************************)

\* The words and the layout of the first i characters.
WordsUpTo(t, i) == KeptUpTo(Marked(t), InWords(t))[i]
LayoutUpTo(t, i) == KeptUpTo(t, NotCR(t))[i]

\* Nothing of a word has been read before the i-th character.
Fresh(t, i) == i = 1 \/ t[i - 1] \in Space \cup {"nul"}

Reading == {"lead", "word", "trail", "next"}

Done1 == IF stage = "line" THEN at1 ELSE at1 - 1
Done2 == IF stage = "line" THEN at2 ELSE at2 - 1

Typed ==
  /\ out \in Text \cup {Missing}
  /\ user \in Text \cup {Missing}
  /\ ret \in {"AC", "PE", "WA", "RE"}
  /\ stage \in Reading \cup {"open", "line", "end"}
  /\ stage = "open" => at1 = 0 /\ at2 = 0 /\ ret = "AC"
  /\ stage \in Reading \cup {"line"} => Readable /\ ret \in {"AC", "PE"}

AtLine(t, at) == at \in 0 .. Len(t) /\ (at # 0 => t[at] = "nul")
InText(t, at, c) == at \in 1 .. Len(t) + 1 /\ c = CharAt(t, at)

Placed ==
  /\ stage = "line" => AtLine(out, at1) /\ AtLine(user, at2)
  /\ stage \in Reading => InText(out, at1, c1) /\ InText(user, at2, c2)

\* What has been read has the same words ...
WordsMatch ==
  stage \in Reading \cup {"line"} => WordsUpTo(out, Done1) = WordsUpTo(user, Done2)

\* ... and the next characters go on with them, or begin new ones, alike.
BoundariesMatch ==
  /\ stage = "word" =>
       /\ c1 \in Letter /\ c2 \in Letter => (Fresh(out, at1) <=> Fresh(user, at2))
       /\ c1 \in Space \/ c2 \in Space => ~ Fresh(out, at1) /\ ~ Fresh(user, at2)
  /\ stage \in {"lead", "trail", "next"} =>
       /\ c1 \in Letter /\ c2 # "eof" => Fresh(out, at1)
       /\ c2 \in Letter /\ c1 # "eof" => Fresh(user, at2)
  /\ stage = "next" => c1 \notin Space /\ c2 \notin Space

\* What has been read has the same layout, or one file has nothing but white
\* space where the other has ended.
LayoutsMatch ==
  \/ LayoutUpTo(out, Done1) = LayoutUpTo(user, Done2)
  \/ /\ stage # "line" /\ c2 = "eof"
     /\ Continues(LayoutUpTo(user, Done2), LayoutUpTo(out, Done1))
  \/ /\ stage # "line" /\ c1 = "eof"
     /\ Continues(LayoutUpTo(out, Done1), LayoutUpTo(user, Done2))

LayoutInv ==
  stage \in Reading \cup {"line"} /\ WellFormed(out) /\ WellFormed(user) =>
    /\ ret = "AC" => LayoutsMatch
    /\ ret = "PE" => ~ SameLayout(WithoutCR(out), WithoutCR(user))

CompareInv == /\ Typed /\ Placed /\ WordsMatch /\ BoundariesMatch /\ LayoutInv
              /\ VerdictRight

-----------------------------------------------------------------------------
(* Elements kept of a sequence.                                            *)

\* Numbers have a smallest one.
LEMMA SmallestIn ==
  ASSUME NEW T, T \subseteq Nat, T # {}
  PROVE  \E x \in T : \A y \in T : x <= y
  <1>1. IsWellFoundedOn(OpToRel(<, Nat), Nat)
    BY NatLessThanWellFounded
  <1>2. \E x \in T : \A y \in T : ~ (<<y, x>> \in OpToRel(<, Nat))
    BY <1>1, WFMin
  <1>3. PICK x \in T : \A y \in T : ~ (<<y, x>> \in OpToRel(<, Nat))
    BY <1>2
  <1>4. \A y \in T : ~ (y < x)
    <2> SUFFICES ASSUME NEW y \in T, y < x PROVE FALSE
      OBVIOUS
    <2>1. <<y, x>> \in OpToRel(<, Nat)
      BY DEF OpToRel
    <2> QED
      BY <2>1, <1>3
  <1> QED
    BY <1>4

\* What the recursion of KeptUpTo asks of a function.
KeepsUpTo(f, s, keep, n) ==
  /\ f[0] = <<>>
  /\ \A i \in 1 .. n : f[i] = IF i \in keep THEN Append(f[i - 1], s[i]) ELSE f[i - 1]

\* There is such a function: one for fewer elements has a next value.
LEMMA KeptExists ==
  ASSUME NEW s, NEW keep, NEW n \in Nat
  PROVE  \E f : f = [i \in 0 .. n |-> f[i]] /\ KeepsUpTo(f, s, keep, n)
  <1> DEFINE Has(m) == \E f : f = [i \in 0 .. m |-> f[i]] /\ KeepsUpTo(f, s, keep, m)
             Lacks == {m \in Nat : ~ Has(m)}
  <1>1. Has(0)
    <2> DEFINE f == [i \in 0 .. 0 |-> <<>>]
    <2>1. f = [i \in 0 .. 0 |-> f[i]] /\ f[0] = <<>>
      OBVIOUS
    <2>2. KeepsUpTo(f, s, keep, 0)
      BY <2>1 DEF KeepsUpTo
    <2> QED
      BY <2>1, <2>2
  <1>2. ASSUME NEW m \in Nat, Has(m)
        PROVE  Has(m + 1)
    <2>1. PICK f : f = [i \in 0 .. m |-> f[i]] /\ KeepsUpTo(f, s, keep, m)
      BY <1>2
    <2> DEFINE last == IF m + 1 \in keep THEN Append(f[m], s[m + 1]) ELSE f[m]
               g == [i \in 0 .. m + 1 |-> IF i = m + 1 THEN last ELSE f[i]]
    <2>2. g = [i \in 0 .. m + 1 |-> g[i]]
      OBVIOUS
    <2>3. KeepsUpTo(g, s, keep, m + 1)
      <3>1. g[m + 1] = last
        OBVIOUS
      <3>2. \A i \in 0 .. m : g[i] = f[i]
        OBVIOUS
      <3>3. g[0] = <<>>
        BY <3>2, <2>1 DEF KeepsUpTo
      <3>4. g[m + 1] = IF m + 1 \in keep THEN Append(g[m + 1 - 1], s[m + 1]) ELSE g[m + 1 - 1]
        BY <3>1, <3>2
      <3> HIDE DEF g, last
      <3>5. \A i \in 1 .. m : i \in 0 .. m /\ i - 1 \in 0 .. m
        OBVIOUS
      <3>6. \A i \in 1 .. m : g[i] = IF i \in keep THEN Append(g[i - 1], s[i]) ELSE g[i - 1]
        BY <3>2, <3>5, <2>1 DEF KeepsUpTo
      <3>7. \A i \in 1 .. m + 1 : i \in 1 .. m \/ i = m + 1
        OBVIOUS
      <3> QED
        BY <3>3, <3>4, <3>6, <3>7 DEF KeepsUpTo
    <2> HIDE DEF g
    <2> QED
      BY <2>2, <2>3
  <1>3. Lacks = {}
    <2> SUFFICES ASSUME Lacks # {} PROVE FALSE
      OBVIOUS
    <2>1. PICK m \in Lacks : \A k \in Lacks : m <= k
      BY SmallestIn
    <2>2. m # 0 /\ m \in Nat /\ ~ Has(m)
      BY <1>1
    <2>3. m - 1 \in Nat /\ m - 1 \notin Lacks
      BY <2>1, <2>2
    <2>4. Has(m - 1)
      BY <2>3
    <2>5. Has(m - 1 + 1)
      BY <2>3, <2>4, <1>2
    <2> QED
      BY <2>2, <2>5
  <1> QED
    BY <1>3

\* The recursion of KeptUpTo.
LEMMA KeptIs ==
  ASSUME NEW S, NEW s \in Seq(S), NEW keep
  PROVE  KeepsUpTo(KeptUpTo(s, keep), s, keep, Len(s))
  <1> DEFINE P(f) == f = [i \in 0 .. Len(s) |->
                            IF i = 0 THEN <<>>
                            ELSE IF i \in keep THEN Append(f[i - 1], s[i])
                            ELSE f[i - 1]]
  <1>1. Len(s) \in Nat
    OBVIOUS
  <1>2. PICK f : f = [i \in 0 .. Len(s) |-> f[i]] /\ KeepsUpTo(f, s, keep, Len(s))
    BY <1>1, KeptExists
  <1>3. P(f)
    <2>1. \A i \in 0 .. Len(s) : i = 0 \/ i \in 1 .. Len(s)
      BY <1>1
    <2>2. \A i \in 0 .. Len(s) :
            f[i] = IF i = 0 THEN <<>>
                   ELSE IF i \in keep THEN Append(f[i - 1], s[i]) ELSE f[i - 1]
      BY <2>1, <1>2 DEF KeepsUpTo
    <2> QED
      BY <2>2, <1>2
  <1>4. KeptUpTo(s, keep) = CHOOSE g : P(g)
    BY DEF KeptUpTo
  <1>5. P(KeptUpTo(s, keep))
    <2> HIDE DEF P
    <2> QED
      BY <1>3, <1>4
  <1>6. KeptUpTo(s, keep)[0] = <<>>
    BY <1>1, <1>5
  <1>7. \A i \in 1 .. Len(s) :
          KeptUpTo(s, keep)[i] = IF i \in keep THEN Append(KeptUpTo(s, keep)[i - 1], s[i])
                                 ELSE KeptUpTo(s, keep)[i - 1]
    <2> DEFINE k == KeptUpTo(s, keep)
    <2> SUFFICES ASSUME NEW i \in 1 .. Len(s)
                 PROVE  k[i] = IF i \in keep THEN Append(k[i - 1], s[i]) ELSE k[i - 1]
      OBVIOUS
    <2>1. i \in 0 .. Len(s) /\ i # 0
      BY <1>1
    <2>2. k = [j \in 0 .. Len(s) |-> IF j = 0 THEN <<>>
                                     ELSE IF j \in keep THEN Append(k[j - 1], s[j])
                                     ELSE k[j - 1]]
      BY <1>5
    <2> HIDE DEF k
    <2> QED
      BY <2>1, <2>2
  <1> QED
    BY <1>6, <1>7 DEF KeepsUpTo

\* ... by one element.
LEMMA KeptStep ==
  ASSUME NEW S, NEW s \in Seq(S), NEW keep, NEW i \in 1 .. Len(s)
  PROVE  /\ i \in keep => KeptUpTo(s, keep)[i] = Append(KeptUpTo(s, keep)[i - 1], s[i])
         /\ i \notin keep => KeptUpTo(s, keep)[i] = KeptUpTo(s, keep)[i - 1]
  <1>1. KeepsUpTo(KeptUpTo(s, keep), s, keep, Len(s))
    BY KeptIs
  <1> QED
    BY <1>1 DEF KeepsUpTo

\* What is kept is a sequence.
LEMMA KeptTyped ==
  ASSUME NEW S, NEW s \in Seq(S), NEW keep, NEW i \in 0 .. Len(s)
  PROVE  KeptUpTo(s, keep)[i] \in Seq(S)
  <1> DEFINE k == KeptUpTo(s, keep)
             Wrong == {j \in 0 .. Len(s) : k[j] \notin Seq(S)}
  <1> SUFFICES ASSUME Wrong # {} PROVE FALSE
    OBVIOUS
  <1>1. Wrong \subseteq Nat
    OBVIOUS
  <1>2. PICK j \in Wrong : \A m \in Wrong : j <= m
    BY <1>1, SmallestIn
  <1>3. k[0] = <<>>
    <2>1. KeepsUpTo(k, s, keep, Len(s))
      BY KeptIs
    <2> QED
      BY <2>1 DEF KeepsUpTo
  <1>4. j # 0 /\ j \in 1 .. Len(s) /\ k[j] \notin Seq(S)
    <2>1. k[0] \in Seq(S)
      <3> HIDE DEF k
      <3> QED
        BY <1>3
    <2>2. j \in 0 .. Len(s) /\ k[j] \notin Seq(S)
      BY <1>2
    <2> HIDE DEF k
    <2> QED
      BY <2>1, <2>2
  <1>5. k[j - 1] \in Seq(S)
    BY <1>2, <1>4
  <1>6. k[j] = Append(k[j - 1], s[j]) \/ k[j] = k[j - 1]
    BY <1>4, KeptStep
  <1>7. s[j] \in S
    BY <1>4
  <1>8. Append(k[j - 1], s[j]) \in Seq(S)
    BY <1>5, <1>7, AppendProperties
  <1> QED
    BY <1>4, <1>5, <1>6, <1>8

\* Between two places of s only elements kept between them are added.
KeptBetween(s, keep, i, j) ==
  LET u == KeptUpTo(s, keep)[i]
      v == KeptUpTo(s, keep)[j]
  IN /\ Len(u) <= Len(v)
     /\ \A m \in 1 .. Len(u) : v[m] = u[m]
     /\ \A m \in Len(u) + 1 .. Len(v) : \E p \in i + 1 .. j : p \in keep /\ v[m] = s[p]

\* ... for any two places.
LEMMA KeptGrows ==
  ASSUME NEW S, NEW s \in Seq(S), NEW keep, NEW i \in 0 .. Len(s), NEW j \in i .. Len(s)
  PROVE  KeptBetween(s, keep, i, j)
  <1> DEFINE k == KeptUpTo(s, keep)
             Wrong == {n \in i .. Len(s) : ~ KeptBetween(s, keep, i, n)}
  <1> SUFFICES ASSUME Wrong # {} PROVE FALSE
    OBVIOUS
  <1>1. Wrong \subseteq Nat
    OBVIOUS
  <1>2. PICK n \in Wrong : \A m \in Wrong : n <= m
    BY <1>1, SmallestIn
  <1>3. k[i] \in Seq(S) /\ Len(k[i]) \in Nat
    <2>1. k[i] \in Seq(S)
      BY KeptTyped
    <2> QED
      BY <2>1
  <1>4. KeptBetween(s, keep, i, i)
    BY <1>3 DEF KeptBetween
  <1>5. n # i /\ n \in i + 1 .. Len(s) /\ n - 1 \in i .. Len(s) /\ n - 1 \notin Wrong
    BY <1>2, <1>4
  <1>6. KeptBetween(s, keep, i, n - 1)
    BY <1>5
  <1>7. n - 1 \in 0 .. Len(s) /\ n \in 1 .. Len(s)
    BY <1>5
  <1>8. k[n - 1] \in Seq(S) /\ k[n] \in Seq(S)
    <2>1. n \in 0 .. Len(s)
      BY <1>7
    <2> QED
      BY <2>1, <1>7, KeptTyped
  <1>9. s[n] \in S
    BY <1>7
  <1> DEFINE u == k[i]
             v == k[n - 1]
             w == k[n]
  <1>10. /\ Len(u) <= Len(v)
         /\ \A m \in 1 .. Len(u) : v[m] = u[m]
         /\ \A m \in Len(u) + 1 .. Len(v) :
              \E p \in i + 1 .. n - 1 : p \in keep /\ v[m] = s[p]
    BY <1>6 DEF KeptBetween
  <1>11. \/ n \in keep /\ w = Append(v, s[n])
         \/ w = v
    BY <1>7, KeptStep
  <1>12. \A p \in i + 1 .. n - 1 : p \in i + 1 .. n
    BY <1>5
  <1>13. n \in i + 1 .. n
    BY <1>5
  <1>14. u \in Seq(S) /\ v \in Seq(S) /\ Len(u) \in Nat /\ Len(v) \in Nat
    BY <1>3, <1>8
  <1> HIDE DEF k, u, v, w
  <1>15. CASE w = v
    <2>1. \A m \in Len(u) + 1 .. Len(w) :
              \E p \in i + 1 .. n : p \in keep /\ w[m] = s[p]
      BY <1>10, <1>12, <1>15
    <2>2. Len(u) <= Len(w) /\ \A m \in 1 .. Len(u) : w[m] = u[m]
      BY <1>10, <1>15
    <2>3. KeptBetween(s, keep, i, n)
      BY <2>1, <2>2 DEF KeptBetween, k, u, w
    <2> QED
      BY <2>3, <1>2
  <1>16. CASE n \in keep /\ w = Append(v, s[n])
    <2>1. Len(w) = Len(v) + 1 /\ w[Len(v) + 1] = s[n] /\ \A m \in 1 .. Len(v) : w[m] = v[m]
      BY <1>14, <1>9, <1>16
    <2>2. \A m \in Len(u) + 1 .. Len(w) : m \in Len(u) + 1 .. Len(v) \/ m = Len(v) + 1
      BY <1>14, <2>1
    <2>3. \A m \in 1 .. Len(u) : m \in 1 .. Len(v)
      BY <1>10, <1>14
    <2>4. \A m \in Len(u) + 1 .. Len(v) : m \in 1 .. Len(v)
      BY <1>14
    <2>5. \A m \in Len(u) + 1 .. Len(v) :
              \E p \in i + 1 .. n : p \in keep /\ w[m] = s[p]
      BY <2>1, <2>4, <1>10, <1>12
    <2>6. \A m \in Len(u) + 1 .. Len(w) :
              \E p \in i + 1 .. n : p \in keep /\ w[m] = s[p]
      BY <2>1, <2>2, <2>5, <1>13, <1>16
    <2>7. Len(u) <= Len(w) /\ \A m \in 1 .. Len(u) : w[m] = u[m]
      BY <2>1, <2>3, <1>10, <1>14
    <2>8. KeptBetween(s, keep, i, n)
      BY <2>6, <2>7 DEF KeptBetween, k, u, w
    <2> QED
      BY <2>8, <1>2
  <1> QED
    BY <1>11, <1>15, <1>16

\* The next element kept.
LEMMA KeptNext ==
  ASSUME NEW S, NEW s \in Seq(S), NEW keep, NEW i \in 1 .. Len(s), i \in keep
  PROVE  /\ Len(KeptUpTo(s, keep)[i - 1]) + 1 \in 1 .. Len(Kept(s, keep))
         /\ Kept(s, keep)[Len(KeptUpTo(s, keep)[i - 1]) + 1] = s[i]
  <1> DEFINE u == KeptUpTo(s, keep)[i - 1]
             v == KeptUpTo(s, keep)[i]
             w == KeptUpTo(s, keep)[Len(s)]
  <1>1. Len(s) \in Nat /\ i - 1 \in 0 .. Len(s) /\ i \in 0 .. Len(s) /\ Len(s) \in i .. Len(s)
    OBVIOUS
  <1>2. u \in Seq(S)
    BY <1>1, KeptTyped
  <1>3. w \in Seq(S)
    <2>1. Len(s) \in 0 .. Len(s)
      BY <1>1
    <2> QED
      BY <2>1, KeptTyped
  <1>4. v = Append(u, s[i])
    BY KeptStep
  <1>5. KeptBetween(s, keep, i, Len(s))
    BY <1>1, KeptGrows
  <1>6. Len(v) <= Len(w) /\ \A m \in 1 .. Len(v) : w[m] = v[m]
    BY <1>5 DEF KeptBetween
  <1>7. s[i] \in S
    OBVIOUS
  <1>8. Kept(s, keep) = w
    BY DEF Kept
  <1> HIDE DEF u, v, w
  <1>9. Len(v) = Len(u) + 1 /\ v[Len(u) + 1] = s[i] /\ Len(u) \in Nat /\ Len(w) \in Nat
    BY <1>2, <1>3, <1>4, <1>7
  <1>10. Len(u) + 1 \in 1 .. Len(w) /\ w[Len(u) + 1] = s[i]
    BY <1>6, <1>9
  <1> QED
    BY <1>8, <1>10 DEF u

\* Nothing is kept where there is nothing to keep.
LEMMA KeptNothing ==
  ASSUME NEW S, NEW s \in Seq(S), NEW keep, NEW i \in 0 .. Len(s), NEW j \in i .. Len(s),
         \A p \in i + 1 .. j : p \notin keep
  PROVE  KeptUpTo(s, keep)[j] = KeptUpTo(s, keep)[i]
  <1> DEFINE u == KeptUpTo(s, keep)[i]
             v == KeptUpTo(s, keep)[j]
  <1>1. j \in 0 .. Len(s)
    OBVIOUS
  <1>2. u \in Seq(S)
    BY KeptTyped
  <1>3. v \in Seq(S)
    BY <1>1, KeptTyped
  <1>4. KeptBetween(s, keep, i, j)
    BY KeptGrows
  <1>5. /\ Len(u) <= Len(v)
        /\ \A m \in 1 .. Len(u) : v[m] = u[m]
        /\ \A m \in Len(u) + 1 .. Len(v) : \E p \in i + 1 .. j : p \in keep /\ v[m] = s[p]
    BY <1>4 DEF KeptBetween
  <1> HIDE DEF u, v
  <1>6. Len(u) \in Nat /\ Len(v) \in Nat
    BY <1>2, <1>3
  <1>7. Len(u) = Len(v)
    <2> SUFFICES ASSUME Len(u) < Len(v) PROVE FALSE
      BY <1>5, <1>6
    <2>1. Len(u) + 1 \in Len(u) + 1 .. Len(v)
      BY <1>6
    <2> QED
      BY <2>1, <1>5
  <1>8. u = v
    BY <1>2, <1>3, <1>5, <1>7
  <1> QED
    BY <1>8 DEF u, v

-----------------------------------------------------------------------------
(* The words of a file.                                                    *)

Item == Char \X BOOLEAN

\* Files are sequences of characters.
LEMMA TextIs ==
  ASSUME NEW t \in Text
  PROVE  t \in Seq(Char) /\ Len(t) \in Nat /\ \A i \in 1 .. Len(t) : t[i] \in Char
  BY DEF Text, SeqOf

\* Marked goes along with the file.
LEMMA MarkedIs ==
  ASSUME NEW t \in Text
  PROVE  /\ Marked(t) \in Seq(Item)
         /\ Len(Marked(t)) = Len(t)
         /\ \A i \in 1 .. Len(t) : Marked(t)[i] = <<t[i], Begins(t, i)>>
  <1>1. Len(t) \in Nat /\ \A i \in 1 .. Len(t) : t[i] \in Char
    BY TextIs
  <1>2. \A i \in 1 .. Len(t) : Begins(t, i) \in BOOLEAN
    BY DEF Begins
  <1>3. \A i \in 1 .. Len(t) : <<t[i], Begins(t, i)>> \in Item
    BY <1>1, <1>2 DEF Item
  <1>4. Marked(t) = [i \in 1 .. Len(t) |-> <<t[i], Begins(t, i)>>]
    BY DEF Marked
  <1>5. \A i \in 1 .. Len(t) : Marked(t)[i] = <<t[i], Begins(t, i)>>
    BY <1>4
  <1>6. Marked(t) \in [1 .. Len(t) -> Item]
    BY <1>3, <1>4
  <1> QED
    BY <1>1, <1>5, <1>6

\* The words read so far, and all of them.
LEMMA WordsTyped ==
  ASSUME NEW t \in Text
  PROVE  /\ \A i \in 0 .. Len(t) : WordsUpTo(t, i) \in Seq(Item)
         /\ Words(t) = WordsUpTo(t, Len(t))
         /\ WordsUpTo(t, 0) = <<>>
  <1>1. Marked(t) \in Seq(Item) /\ Len(Marked(t)) = Len(t)
    BY MarkedIs
  <1>2. \A i \in 0 .. Len(t) : KeptUpTo(Marked(t), InWords(t))[i] \in Seq(Item)
    BY <1>1, KeptTyped
  <1>3. KeptUpTo(Marked(t), InWords(t))[0] = <<>>
    <2>1. KeepsUpTo(KeptUpTo(Marked(t), InWords(t)), Marked(t), InWords(t), Len(Marked(t)))
      BY <1>1, KeptIs
    <2> QED
      BY <2>1 DEF KeepsUpTo
  <1>4. Words(t) = KeptUpTo(Marked(t), InWords(t))[Len(t)]
    BY <1>1 DEF Words, Kept
  <1> QED
    BY <1>2, <1>3, <1>4 DEF WordsUpTo

\* ... with one more character.
LEMMA WordsStep ==
  ASSUME NEW t \in Text, NEW i \in 1 .. Len(t)
  PROVE  /\ t[i] \in Space => WordsUpTo(t, i) = WordsUpTo(t, i - 1)
         /\ t[i] \notin Space =>
              WordsUpTo(t, i) = Append(WordsUpTo(t, i - 1), <<t[i], Begins(t, i)>>)
  <1>1. Marked(t) \in Seq(Item) /\ Len(Marked(t)) = Len(t)
    BY MarkedIs
  <1>2. Marked(t)[i] = <<t[i], Begins(t, i)>>
    BY MarkedIs
  <1>3. /\ i \in InWords(t) => KeptUpTo(Marked(t), InWords(t))[i]
                                 = Append(KeptUpTo(Marked(t), InWords(t))[i - 1], Marked(t)[i])
        /\ i \notin InWords(t) => KeptUpTo(Marked(t), InWords(t))[i]
                                    = KeptUpTo(Marked(t), InWords(t))[i - 1]
    BY <1>1, KeptStep
  <1>4. i \in InWords(t) <=> t[i] \notin Space
    BY DEF InWords
  <1> QED
    BY <1>2, <1>3, <1>4 DEF WordsUpTo

\* The next character of a word.
LEMMA NextInWords ==
  ASSUME NEW t \in Text, NEW i \in 1 .. Len(t), t[i] \notin Space
  PROVE  /\ Len(WordsUpTo(t, i - 1)) + 1 \in 1 .. Len(Words(t))
         /\ Words(t)[Len(WordsUpTo(t, i - 1)) + 1] = <<t[i], Begins(t, i)>>
  <1>1. Marked(t) \in Seq(Item) /\ Len(Marked(t)) = Len(t)
    BY MarkedIs
  <1>2. Marked(t)[i] = <<t[i], Begins(t, i)>>
    BY MarkedIs
  <1>3. i \in InWords(t)
    BY DEF InWords
  <1>4. /\ Len(KeptUpTo(Marked(t), InWords(t))[i - 1]) + 1
             \in 1 .. Len(Kept(Marked(t), InWords(t)))
        /\ Kept(Marked(t), InWords(t))[Len(KeptUpTo(Marked(t), InWords(t))[i - 1]) + 1]
             = Marked(t)[i]
    BY <1>1, <1>3, KeptNext
  <1> QED
    BY <1>2, <1>4 DEF WordsUpTo, Words

\* After white space a word begins.
LEMMA NextAfterSpace ==
  ASSUME NEW t \in Text, NEW i \in 1 .. Len(t), t[i] \in Space,
         Len(WordsUpTo(t, i - 1)) + 1 \in 1 .. Len(Words(t))
  PROVE  \E c : Words(t)[Len(WordsUpTo(t, i - 1)) + 1] = <<c, TRUE>>
  <1> DEFINE k == KeptUpTo(Marked(t), InWords(t))
             Later == {p \in i .. Len(t) : p \in InWords(t)}
  <1>0. Len(t) \in Nat /\ i \in Nat /\ i - 1 \in 0 .. Len(t)
    BY TextIs
  <1>1. Marked(t) \in Seq(Item) /\ Len(Marked(t)) = Len(t)
    BY MarkedIs
  <1>2. k[i - 1] = WordsUpTo(t, i - 1) /\ k[Len(t)] = Words(t)
    BY WordsTyped DEF WordsUpTo
  <1>3. Later # {}
    <2> SUFFICES ASSUME Later = {} PROVE FALSE
      OBVIOUS
    <2>1. \A p \in i - 1 + 1 .. Len(t) : p \notin InWords(t)
      BY <1>0
    <2>2. Len(t) \in i - 1 .. Len(t)
      BY <1>0
    <2>3. k[Len(t)] = k[i - 1]
      BY <1>0, <1>1, <2>1, <2>2, KeptNothing
    <2>4. WordsUpTo(t, i - 1) \in Seq(Item)
      BY <1>0, WordsTyped
    <2>5. Len(WordsUpTo(t, i - 1)) \in Nat
      BY <2>4
    <2>6. Words(t) = WordsUpTo(t, i - 1)
      BY <1>2, <2>3
    <2> QED
      BY <2>5, <2>6
  <1>4. Later \subseteq Nat
    BY <1>0
  <1>5. PICK p \in Later : \A q \in Later : p <= q
    BY <1>3, <1>4, SmallestIn
  <1>6. p \in i .. Len(t) /\ p \in InWords(t) /\ t[p] \notin Space
    BY <1>5 DEF InWords
  <1>7. p # i /\ p - 1 \in i .. Len(t) /\ p \in 1 .. Len(t) /\ p # 1
    BY <1>0, <1>6
  <1>8. \A q \in i .. p - 1 : q \notin InWords(t)
    BY <1>0, <1>5, <1>6
  <1>9. t[p - 1] \in Space
    <2>1. p - 1 \notin InWords(t) /\ p - 1 \in 1 .. Len(t)
      BY <1>0, <1>7, <1>8
    <2> QED
      BY <2>1 DEF InWords
  <1>10. Begins(t, p) = TRUE
    BY <1>9 DEF Begins
  <1>11. k[p - 1] = k[i - 1]
    <2>1. \A q \in i - 1 + 1 .. p - 1 : q \notin InWords(t)
      BY <1>0, <1>8
    <2>2. p - 1 \in i - 1 .. Len(t)
      BY <1>0, <1>7
    <2> QED
      BY <1>0, <1>1, <2>1, <2>2, KeptNothing
  <1>12. Words(t)[Len(WordsUpTo(t, p - 1)) + 1] = <<t[p], Begins(t, p)>>
    BY <1>6, <1>7, NextInWords
  <1>13. WordsUpTo(t, p - 1) = WordsUpTo(t, i - 1)
    BY <1>11 DEF WordsUpTo
  <1> QED
    BY <1>10, <1>12, <1>13

\* Letters are none of the others.
LEMMA Letters ==
  /\ \A c \in Letter : c \notin Space /\ c # "nul" /\ c # "eof"
  /\ \A c \in Char : c # "eof" /\ (c \in Letter \/ c \in Space \/ c = "nul")
  /\ "nul" \notin Space /\ "eof" \notin Space /\ Space \subseteq Char /\ "nul" \in Char
  BY CompareAssumption DEF Char, Space

\* Files that have had the same words go on with different ones, if one goes on
\* with a letter and the other with anything else; with white space, if that
\* ends a word.
LEMMA WordsDiffer ==
  ASSUME NEW s \in Text, NEW t \in Text, NEW i \in 1 .. Len(s), NEW j \in 1 .. Len(t),
         WordsUpTo(s, i - 1) = WordsUpTo(t, j - 1),
         s[i] \in Letter, s[i] # t[j],
         t[j] \in Space => ~ Fresh(s, i)
  PROVE  Words(s) # Words(t)
  <1> DEFINE n == Len(WordsUpTo(s, i - 1)) + 1
  <1> SUFFICES ASSUME Words(s) = Words(t) PROVE FALSE
    OBVIOUS
  <1>1. s[i] \notin Space /\ s[i] # "nul"
    BY Letters
  <1>2. n \in 1 .. Len(Words(s)) /\ Words(s)[n] = <<s[i], Begins(s, i)>>
    BY <1>1, NextInWords
  <1>3. n = Len(WordsUpTo(t, j - 1)) + 1
    OBVIOUS
  <1>4. CASE t[j] \notin Space
    <2>1. Words(t)[n] = <<t[j], Begins(t, j)>>
      BY <1>3, <1>4, NextInWords
    <2> QED
      BY <1>2, <2>1
  <1>5. CASE t[j] \in Space
    <2>1. Begins(s, i) = FALSE
      BY <1>1, <1>5 DEF Begins, Fresh
    <2>2. n \in 1 .. Len(Words(t))
      BY <1>2
    <2>3. PICK c : Words(t)[n] = <<c, TRUE>>
      BY <1>3, <1>5, <2>2, NextAfterSpace
    <2>4. Words(t)[n] = <<s[i], FALSE>>
      BY <1>2, <2>1
    <2>5. <<c, TRUE>>[2] = TRUE /\ <<s[i], FALSE>>[2] = FALSE
      OBVIOUS
    <2>6. <<c, TRUE>> = <<s[i], FALSE>>
      BY <2>3, <2>4
    <2>7. <<c, TRUE>>[2] = <<s[i], FALSE>>[2]
      BY <2>6
    <2> QED
      BY <2>5, <2>7
  <1> QED
    BY <1>4, <1>5

\* ... and if one has ended and the other has not.
LEMMA WordsLonger ==
  ASSUME NEW s \in Text, NEW t \in Text, NEW i \in 1 .. Len(s),
         WordsUpTo(s, i - 1) = Words(t), s[i] \notin Space
  PROVE  Words(s) # Words(t)
  <1>1. Len(WordsUpTo(s, i - 1)) + 1 \in 1 .. Len(Words(s))
    BY NextInWords
  <1>2. Len(t) \in 0 .. Len(t)
    BY TextIs
  <1>3. Words(t) \in Seq(Item)
    BY <1>2, WordsTyped
  <1>4. Len(Words(t)) \in Nat
    BY <1>3
  <1> QED
    BY <1>1, <1>4

-----------------------------------------------------------------------------
(* The layout of a file.                                                   *)

\* The layout read so far, and all of it.
LEMMA LayoutTyped ==
  ASSUME NEW t \in Text
  PROVE  /\ \A i \in 0 .. Len(t) : LayoutUpTo(t, i) \in Seq(Char)
         /\ WithoutCR(t) = LayoutUpTo(t, Len(t))
         /\ LayoutUpTo(t, 0) = <<>>
  <1>1. t \in Seq(Char) /\ Len(t) \in Nat
    BY TextIs
  <1>2. \A i \in 0 .. Len(t) : KeptUpTo(t, NotCR(t))[i] \in Seq(Char)
    BY <1>1, KeptTyped
  <1>3. KeptUpTo(t, NotCR(t))[0] = <<>>
    <2>1. KeepsUpTo(KeptUpTo(t, NotCR(t)), t, NotCR(t), Len(t))
      BY <1>1, KeptIs
    <2> QED
      BY <2>1 DEF KeepsUpTo
  <1> QED
    BY <1>2, <1>3 DEF LayoutUpTo, WithoutCR, Kept

\* ... with one more character.
LEMMA LayoutStep ==
  ASSUME NEW t \in Text, NEW i \in 1 .. Len(t)
  PROVE  /\ t[i] = "cr" => LayoutUpTo(t, i) = LayoutUpTo(t, i - 1)
         /\ t[i] # "cr" => LayoutUpTo(t, i) = Append(LayoutUpTo(t, i - 1), t[i])
  <1>1. t \in Seq(Char)
    BY TextIs
  <1>2. /\ i \in NotCR(t) => KeptUpTo(t, NotCR(t))[i]
                               = Append(KeptUpTo(t, NotCR(t))[i - 1], t[i])
        /\ i \notin NotCR(t) => KeptUpTo(t, NotCR(t))[i] = KeptUpTo(t, NotCR(t))[i - 1]
    BY <1>1, KeptStep
  <1> QED
    BY <1>2 DEF LayoutUpTo, NotCR

\* What a character stands for: a carriage return for the line end it precedes.
Visible(c) == IF c = "cr" THEN "nl" ELSE c

\* The next character of the layout.
LEMMA NextInLayout ==
  ASSUME NEW t \in Text, WellFormed(t), NEW i \in 1 .. Len(t)
  PROVE  /\ Len(LayoutUpTo(t, i - 1)) + 1 \in 1 .. Len(WithoutCR(t))
         /\ WithoutCR(t)[Len(LayoutUpTo(t, i - 1)) + 1] = Visible(t[i])
  <1>0. t \in Seq(Char) /\ Len(t) \in Nat
    BY TextIs
  <1>1. \A j \in 1 .. Len(t) : t[j] # "cr" =>
          /\ Len(LayoutUpTo(t, j - 1)) + 1 \in 1 .. Len(WithoutCR(t))
          /\ WithoutCR(t)[Len(LayoutUpTo(t, j - 1)) + 1] = t[j]
    <2> SUFFICES ASSUME NEW j \in 1 .. Len(t), t[j] # "cr"
                 PROVE  /\ Len(LayoutUpTo(t, j - 1)) + 1 \in 1 .. Len(WithoutCR(t))
                        /\ WithoutCR(t)[Len(LayoutUpTo(t, j - 1)) + 1] = t[j]
      OBVIOUS
    <2>1. j \in NotCR(t)
      BY DEF NotCR
    <2>2. /\ Len(KeptUpTo(t, NotCR(t))[j - 1]) + 1 \in 1 .. Len(Kept(t, NotCR(t)))
          /\ Kept(t, NotCR(t))[Len(KeptUpTo(t, NotCR(t))[j - 1]) + 1] = t[j]
      BY <1>0, <2>1, KeptNext
    <2> QED
      BY <2>2 DEF LayoutUpTo, WithoutCR
  <1>2. CASE t[i] # "cr"
    BY <1>1, <1>2 DEF Visible
  <1>3. CASE t[i] = "cr"
    <2>1. CharAt(t, i + 1) = "nl"
      BY <1>3 DEF WellFormed
    <2>2. i + 1 \in 1 .. Len(t) /\ t[i + 1] = "nl"
      BY <1>0, <2>1 DEF CharAt
    <2>3. LayoutUpTo(t, i + 1 - 1) = LayoutUpTo(t, i - 1)
      BY <1>3, LayoutStep
    <2>4. /\ Len(LayoutUpTo(t, i + 1 - 1)) + 1 \in 1 .. Len(WithoutCR(t))
          /\ WithoutCR(t)[Len(LayoutUpTo(t, i + 1 - 1)) + 1] = t[i + 1]
      BY <1>1, <2>2
    <2> QED
      BY <1>3, <2>2, <2>3, <2>4 DEF Visible
  <1> QED
    BY <1>2, <1>3

\* What it means that a sequence begins with another.
LEMMA PrefixMeans ==
  ASSUME NEW S, NEW s \in Seq(S), NEW t \in Seq(S)
  PROVE  IsPrefix(s, t) <=> /\ Len(s) <= Len(t)
                            /\ \A i \in 1 .. Len(s) : t[i] = s[i]
  <1>1. Len(s) \in Nat /\ Len(t) \in Nat
    OBVIOUS
  <1>2. SubSeq(s, 1, Len(s)) = s
    OBVIOUS
  <1>3. ASSUME Len(s) <= Len(t)
        PROVE  /\ SubSeq(t, 1, Len(s)) \in Seq(S)
               /\ Len(SubSeq(t, 1, Len(s))) = Len(s)
               /\ \A i \in 1 .. Len(s) : SubSeq(t, 1, Len(s))[i] = t[i]
    BY <1>1, <1>3, SubSeqProperties
  <1>4. ASSUME IsPrefix(s, t)
        PROVE  Len(s) <= Len(t) /\ \A i \in 1 .. Len(s) : t[i] = s[i]
    BY <1>2, <1>3, <1>4 DEF IsPrefix
  <1>5. ASSUME Len(s) <= Len(t), \A i \in 1 .. Len(s) : t[i] = s[i]
        PROVE  IsPrefix(s, t)
    <2>1. s = SubSeq(t, 1, Len(s))
      BY <1>3, <1>5, SeqEqual
    <2> QED
      BY <1>2, <1>5, <2>1 DEF IsPrefix
  <1> QED
    BY <1>4, <1>5

\* Files whose layout has been the same go on with another, if a character says
\* so that is not a carriage return before a line end.
LEMMA LayoutsDiffer ==
  ASSUME NEW s \in Text, NEW t \in Text, WellFormed(s), WellFormed(t),
         NEW i \in 1 .. Len(s), NEW j \in 1 .. Len(t),
         LayoutUpTo(s, i - 1) = LayoutUpTo(t, j - 1),
         Visible(s[i]) # Visible(t[j])
  PROVE  ~ SameLayout(WithoutCR(s), WithoutCR(t))
  <1> DEFINE u == WithoutCR(s)
             v == WithoutCR(t)
             n == Len(LayoutUpTo(s, i - 1)) + 1
  <1>1. n \in 1 .. Len(u) /\ u[n] = Visible(s[i])
    BY NextInLayout
  <1>2. n \in 1 .. Len(v) /\ v[n] = Visible(t[j])
    BY NextInLayout
  <1>3. u \in Seq(Char) /\ v \in Seq(Char)
    <2>1. Len(s) \in 0 .. Len(s) /\ Len(t) \in 0 .. Len(t)
      BY TextIs
    <2> QED
      BY <2>1, LayoutTyped
  <1>4. ~ IsPrefix(u, v)
    <2>1. IsPrefix(u, v) => \A m \in 1 .. Len(u) : v[m] = u[m]
      BY <1>3, PrefixMeans
    <2> QED
      BY <1>1, <1>2, <2>1
  <1>5. ~ IsPrefix(v, u)
    <2>1. IsPrefix(v, u) => \A m \in 1 .. Len(v) : u[m] = v[m]
      BY <1>3, PrefixMeans
    <2> QED
      BY <1>1, <1>2, <2>1
  <1> QED
    BY <1>4, <1>5 DEF SameLayout, Continues

\* ... and if one has ended and the other goes on with more than white space.
LEMMA LayoutLonger ==
  ASSUME NEW s \in Text, NEW t \in Text, WellFormed(s), NEW i \in 1 .. Len(s),
         Continues(WithoutCR(t), LayoutUpTo(s, i - 1)), s[i] \notin Space
  PROVE  ~ Continues(WithoutCR(t), WithoutCR(s)) /\ ~ Continues(WithoutCR(s), WithoutCR(t))
  <1> DEFINE u == WithoutCR(s)
             v == WithoutCR(t)
             w == LayoutUpTo(s, i - 1)
  <1>1. u \in Seq(Char) /\ v \in Seq(Char) /\ w \in Seq(Char)
    <2>1. Len(s) \in 0 .. Len(s) /\ Len(t) \in 0 .. Len(t) /\ i - 1 \in 0 .. Len(s)
      BY TextIs
    <2> QED
      BY <2>1, LayoutTyped
  <1>2. Len(u) \in Nat /\ Len(v) \in Nat /\ Len(w) \in Nat
    BY <1>1
  <1>3. Len(v) <= Len(w)
    <2>1. IsPrefix(v, w)
      BY DEF Continues
    <2> QED
      BY <1>1, <2>1, PrefixMeans
  <1>4. Len(w) + 1 \in 1 .. Len(u) /\ u[Len(w) + 1] = Visible(s[i])
    BY NextInLayout
  <1>5. u[Len(w) + 1] \notin Space
    BY <1>4 DEF Visible, Space
  <1> HIDE DEF u, v, w
  <1>6. Len(w) + 1 \in Len(v) + 1 .. Len(u) /\ ~ (Len(u) <= Len(v))
    BY <1>2, <1>3, <1>4
  <1>7. ~ Continues(v, u)
    BY <1>5, <1>6 DEF Continues
  <1>8. ~ Continues(u, v)
    <2>1. ~ IsPrefix(u, v)
      BY <1>1, <1>6, PrefixMeans
    <2> QED
      BY <2>1 DEF Continues
  <1> QED
    BY <1>7, <1>8 DEF u, v

\* A layout goes on with nothing but white space, and more of it.
LEMMA ContinuesOn ==
  ASSUME NEW u \in Seq(Char), NEW v \in Seq(Char), NEW c \in Space,
         u = v \/ Continues(u, v)
  PROVE  Continues(u, Append(v, c)) /\ Continues(u, v)
  <1> DEFINE w == Append(v, c)
  <1>1. Len(u) \in Nat /\ Len(v) \in Nat
    OBVIOUS
  <1>2. c \in Char
    BY Letters
  <1>3. /\ w \in Seq(Char) /\ Len(w) = Len(v) + 1 /\ w[Len(v) + 1] = c
        /\ \A m \in 1 .. Len(v) : w[m] = v[m]
    BY <1>2, AppendProperties
  <1> HIDE DEF w
  <1>4. Len(u) <= Len(v) /\ \A m \in 1 .. Len(u) : v[m] = u[m]
    <2>1. CASE u = v
      BY <1>1, <2>1
    <2>2. CASE Continues(u, v)
      <3>1. IsPrefix(u, v)
        BY <2>2 DEF Continues
      <3> QED
        BY <3>1, PrefixMeans
    <2> QED
      BY <2>1, <2>2
  <1>5. \A m \in Len(u) + 1 .. Len(v) : v[m] \in Space
    <2>1. CASE u = v
      BY <1>1, <2>1
    <2>2. CASE Continues(u, v)
      BY <2>2 DEF Continues
    <2> QED
      BY <2>1, <2>2
  <1>6. Len(u) <= Len(w) /\ \A m \in 1 .. Len(u) : w[m] = u[m]
    BY <1>1, <1>3, <1>4
  <1>7. \A m \in Len(u) + 1 .. Len(w) : w[m] \in Space
    <2>1. \A m \in Len(u) + 1 .. Len(w) : m \in Len(u) + 1 .. Len(v) \/ m = Len(v) + 1
      BY <1>1, <1>3
    <2>2. \A m \in Len(u) + 1 .. Len(v) : m \in 1 .. Len(v)
      BY <1>1
    <2> QED
      BY <1>3, <1>5, <2>1, <2>2
  <1>8. IsPrefix(u, v)
    BY <1>4, PrefixMeans
  <1>9. IsPrefix(u, w)
    BY <1>3, <1>6, PrefixMeans
  <1> QED
    BY <1>5, <1>7, <1>8, <1>9 DEF Continues, w

-----------------------------------------------------------------------------
(* Reading.                                                                *)

\* The last character read, by its place.
LEMMA CharIs ==
  ASSUME NEW t \in Text, NEW at, NEW c, InText(t, at, c)
  PROVE  /\ c # "eof" => at \in 1 .. Len(t) /\ c = t[at] /\ c \in Char
         /\ c = "eof" => at = Len(t) + 1 /\ at - 1 = Len(t)
         /\ at \in Nat
  <1>1. Len(t) \in Nat /\ \A i \in 1 .. Len(t) : t[i] \in Char
    BY TextIs
  <1>2. at \in 1 .. Len(t) + 1 /\ c = CharAt(t, at)
    BY DEF InText
  <1>3. CASE at \in 1 .. Len(t)
    <2>1. c = t[at]
      BY <1>1, <1>2, <1>3 DEF CharAt
    <2>2. c \in Char
      BY <1>1, <1>3, <2>1
    <2>3. c # "eof"
      BY <2>2, Letters
    <2> QED
      BY <1>1, <1>2, <1>3, <2>1, <2>2, <2>3
  <1>4. CASE at = Len(t) + 1
    <2>1. c = "eof"
      BY <1>1, <1>2, <1>4 DEF CharAt
    <2> QED
      BY <1>1, <1>4, <2>1
  <1> QED
    BY <1>1, <1>2, <1>3, <1>4

\* Reading on after a character.
LEMMA ReadOn ==
  ASSUME NEW t \in Text, NEW at \in 1 .. Len(t)
  PROVE  InText(t, at + 1, CharAt(t, at + 1))
  BY TextIs DEF InText

\* ... that was white space: no word, and one more character of the layout.
LEMMA ReadSpace ==
  ASSUME NEW t \in Text, NEW at \in 1 .. Len(t), t[at] \in Space
  PROVE  /\ Fresh(t, at + 1)
         /\ WordsUpTo(t, at) = WordsUpTo(t, at - 1)
  <1>1. at + 1 - 1 = at
    OBVIOUS
  <1>2. Fresh(t, at + 1)
    BY <1>1 DEF Fresh
  <1> QED
    BY <1>2, WordsStep

\* The first character of a file.
LEMMA ReadFirst ==
  ASSUME NEW t \in Text, NEW at, AtLine(t, at)
  PROVE  InText(t, at + 1, CharAt(t, at + 1)) /\ Fresh(t, at + 1)
  <1>1. Len(t) \in Nat /\ at \in 0 .. Len(t) /\ (at = 0 \/ t[at] = "nul")
    BY TextIs DEF AtLine
  <1>2. InText(t, at + 1, CharAt(t, at + 1))
    BY <1>1 DEF InText
  <1>3. at + 1 - 1 = at
    BY <1>1
  <1> QED
    BY <1>1, <1>2, <1>3 DEF Fresh

\* A layout goes on with itself.
LEMMA ContinuesSelf ==
  ASSUME NEW u \in Seq(Char)
  PROVE  Continues(u, u)
  <1>1. Len(u) \in Nat
    OBVIOUS
  <1>2. IsPrefix(u, u)
    BY PrefixMeans
  <1>3. \A m \in Len(u) + 1 .. Len(u) : u[m] \in Space
    BY <1>1
  <1> QED
    BY <1>2, <1>3 DEF Continues

-----------------------------------------------------------------------------
(* The steps.                                                              *)

\* Both files can be read.
LEMMA FilesRead ==
  ASSUME CompareInv, stage \in Reading \cup {"line"}
  PROVE  /\ out \in Text /\ user \in Text /\ Readable
         /\ ret \in {"AC", "PE"}
  BY DEF CompareInv, Typed, Readable

\* What the invariant says while reading.
LEMMA WhileReading ==
  ASSUME CompareInv, stage \in Reading
  PROVE  /\ InText(out, at1, c1) /\ InText(user, at2, c2)
         /\ WordsUpTo(out, at1 - 1) = WordsUpTo(user, at2 - 1)
         /\ Done1 = at1 - 1 /\ Done2 = at2 - 1
  <1>1. stage # "line"
    BY DEF Reading
  <1> QED
    BY <1>1 DEF CompareInv, Placed, WordsMatch, Done1, Done2

\* ... and of the layout, if no file has ended.
LEMMA SameSoFar ==
  ASSUME CompareInv, stage \in Reading, c1 # "eof", c2 # "eof", ret = "AC",
         WellFormed(out), WellFormed(user)
  PROVE  LayoutUpTo(out, at1 - 1) = LayoutUpTo(user, at2 - 1)
  <1>1. LayoutsMatch
    BY DEF CompareInv, LayoutInv
  <1> QED
    BY <1>1, WhileReading DEF LayoutsMatch

\* What a step that goes on reading has to keep.
LEMMA KeepReading ==
  ASSUME CompareInv, stage \in Reading \cup {"line"}, UNCHANGED files, stage' \in Reading,
         ret' \in {"AC", "PE"},
         InText(out, at1', c1'), InText(user, at2', c2'),
         WordsUpTo(out, at1' - 1) = WordsUpTo(user, at2' - 1),
         BoundariesMatch', LayoutInv'
  PROVE  CompareInv'
  <1>1. out \in Text /\ user \in Text /\ Readable
    BY FilesRead
  <1>2. stage' # "end" /\ stage' # "line" /\ stage' # "open"
    BY DEF Reading
  <1>3. out' = out /\ user' = user
    BY DEF files
  <1>4. Typed'
    BY <1>1, <1>2, <1>3 DEF Typed, Readable
  <1>5. Placed'
    BY <1>2, <1>3 DEF Placed
  <1>6. WordsMatch'
    BY <1>2, <1>3 DEF WordsMatch, Done1, Done2
  <1>7. VerdictRight'
    BY <1>2 DEF VerdictRight
  <1> QED
    BY <1>4, <1>5, <1>6, <1>7 DEF CompareInv

\* Initially nothing has been read.
LEMMA CompareInitOK == CompareInit => CompareInv
  <1> SUFFICES ASSUME CompareInit PROVE CompareInv
    OBVIOUS
  <1>1. stage = "open" /\ ret = "AC" /\ at1 = 0 /\ at2 = 0
    BY DEF CompareInit
  <1>2. Typed
    BY <1>1 DEF Typed, CompareInit, Reading
  <1> QED
    BY <1>1, <1>2 DEF CompareInv, Placed, WordsMatch, BoundariesMatch, LayoutInv,
                      VerdictRight, Reading

\* The files are opened.
LEMMA OpenStep ==
  ASSUME CompareInv, Open
  PROVE  CompareInv'
  <1>1. out' = out /\ user' = user /\ at1' = 0 /\ at2' = 0 /\ ret = "AC"
    BY DEF Open, files, CompareInv, Typed
  <1>2. out \in Text \cup {Missing} /\ user \in Text \cup {Missing}
    BY DEF CompareInv, Typed
  <1>3. CASE Missing \in {out, user}
    <2>1. ret' = "RE" /\ stage' = "end"
      BY <1>3 DEF Open
    <2>2. ~ Readable'
      BY <1>1, <1>3 DEF Readable
    <2>3. Typed'
      BY <1>1, <1>2, <2>1 DEF Typed, Reading
    <2> QED
      BY <2>1, <2>2, <2>3 DEF CompareInv, Placed, WordsMatch, BoundariesMatch,
                              LayoutInv, VerdictRight, Reading
  <1>4. CASE Missing \notin {out, user}
    <2>1. ret' = "AC" /\ stage' = "line"
      BY <1>1, <1>4 DEF Open
    <2>2. out \in Text /\ user \in Text /\ Readable'
      BY <1>1, <1>2, <1>4 DEF Readable
    <2>3. Typed'
      BY <1>1, <2>1, <2>2 DEF Typed
    <2>4. Len(out) \in Nat /\ Len(user) \in Nat
      BY <2>2, TextIs
    <2>5. Placed'
      BY <1>1, <2>1, <2>4 DEF Placed, AtLine, Reading
    <2>6. WordsUpTo(out, 0) = <<>> /\ WordsUpTo(user, 0) = <<>>
      BY <2>2, WordsTyped
    <2>7. WordsMatch'
      BY <1>1, <2>1, <2>6 DEF WordsMatch, Done1, Done2
    <2>8. LayoutUpTo(out, 0) = <<>> /\ LayoutUpTo(user, 0) = <<>>
      BY <2>2, LayoutTyped
    <2>9. LayoutInv'
      BY <1>1, <2>1, <2>8 DEF LayoutInv, LayoutsMatch, Done1, Done2
    <2> QED
      BY <2>1, <2>3, <2>5, <2>7, <2>9 DEF CompareInv, BoundariesMatch, VerdictRight
  <1> QED
    BY <1>3, <1>4

\* A "line" is begun.
LEMMA LineStep ==
  ASSUME CompareInv, Line
  PROVE  CompareInv'
  <1>1. /\ out' = out /\ user' = user /\ ret' = ret /\ stage = "line" /\ stage' = "lead"
        /\ at1' = at1 + 1 /\ c1' = CharAt(out, at1 + 1)
        /\ at2' = at2 + 1 /\ c2' = CharAt(user, at2 + 1)
    BY DEF Line, files, Read1, Read2
  <1>2. stage \in Reading \cup {"line"} /\ stage' \in Reading
    BY <1>1 DEF Reading
  <1>3. out \in Text /\ user \in Text /\ ret \in {"AC", "PE"}
    BY <1>2, FilesRead
  <1>4. AtLine(out, at1) /\ AtLine(user, at2)
    BY <1>1 DEF CompareInv, Placed
  <1>5. InText(out, at1', c1') /\ Fresh(out, at1')
    BY <1>1, <1>3, <1>4, ReadFirst
  <1>6. InText(user, at2', c2') /\ Fresh(user, at2')
    BY <1>1, <1>3, <1>4, ReadFirst
  <1>7. at1' - 1 = at1 /\ at2' - 1 = at2
    BY <1>1, <1>4 DEF AtLine
  <1>8. WordsUpTo(out, at1' - 1) = WordsUpTo(user, at2' - 1)
    BY <1>1, <1>2, <1>7 DEF CompareInv, WordsMatch, Done1, Done2
  <1>9. BoundariesMatch'
    BY <1>1, <1>5, <1>6 DEF BoundariesMatch
  <1>10. LayoutInv'
    <2> SUFFICES ASSUME WellFormed(out), WellFormed(user)
                 PROVE  /\ ret' = "AC" => LayoutsMatch'
                        /\ ret' = "PE" => ~ SameLayout(WithoutCR(out), WithoutCR(user))
      BY <1>1 DEF LayoutInv
    <2>1. /\ ret = "AC" => LayoutsMatch
          /\ ret = "PE" => ~ SameLayout(WithoutCR(out), WithoutCR(user))
      BY <1>2 DEF CompareInv, LayoutInv
    <2>2. ASSUME ret = "AC" PROVE LayoutsMatch'
      <3>1. LayoutUpTo(out, at1) = LayoutUpTo(user, at2)
        BY <1>1, <2>1, <2>2 DEF LayoutsMatch, Done1, Done2
      <3> QED
        BY <1>1, <1>7, <3>1 DEF LayoutsMatch, Done1, Done2
    <2> QED
      BY <1>1, <2>1, <2>2
  <1>11. UNCHANGED files
    BY <1>1 DEF files
  <1> QED
    BY <1>1, <1>2, <1>3, <1>5, <1>6, <1>8, <1>9, <1>10, <1>11, KeepReading

\* White space is read where the other file has ended.
LEMMA LayoutSpace ==
  ASSUME NEW t \in Text, NEW at \in 1 .. Len(t), t[at] \in Space, NEW u \in Seq(Char),
         u = LayoutUpTo(t, at - 1) \/ Continues(u, LayoutUpTo(t, at - 1))
  PROVE  u = LayoutUpTo(t, at) \/ Continues(u, LayoutUpTo(t, at))
  <1>1. CASE t[at] = "cr"
    BY <1>1, LayoutStep
  <1>2. CASE t[at] # "cr"
    <2>1. LayoutUpTo(t, at) = Append(LayoutUpTo(t, at - 1), t[at])
      BY <1>2, LayoutStep
    <2>2. at - 1 \in 0 .. Len(t)
      BY TextIs
    <2>3. LayoutUpTo(t, at - 1) \in Seq(Char)
      BY <2>2, LayoutTyped
    <2>4. Continues(u, Append(LayoutUpTo(t, at - 1), t[at]))
      BY <2>3, ContinuesOn
    <2> QED
      BY <2>1, <2>4
  <1> QED
    BY <1>1, <1>2

\* SkipRest, where the second file has ended ...
LEMMA SkipFirst ==
  ASSUME CompareInv, SkipRest, c2 = "eof", Read1(1), Keep2
  PROVE  CompareInv'
  <1>1. /\ out' = out /\ user' = user /\ ret' = ret /\ stage' = stage /\ stage \in {"lead", "trail"}
        /\ at1' = at1 + 1 /\ c1' = CharAt(out, at1 + 1) /\ at2' = at2 /\ c2' = c2
        /\ c1 \in Space
    <2>1. c2 \notin Space
      BY Letters
    <2> QED
      BY <2>1 DEF SkipRest, files, Read1, Keep2, InGap
  <1>2. stage \in Reading /\ stage' \in Reading
    BY <1>1 DEF Reading
  <1>3. out \in Text /\ user \in Text /\ ret \in {"AC", "PE"}
    BY <1>2, FilesRead
  <1>4. /\ InText(out, at1, c1) /\ InText(user, at2, c2)
        /\ WordsUpTo(out, at1 - 1) = WordsUpTo(user, at2 - 1)
        /\ Done1 = at1 - 1 /\ Done2 = at2 - 1
    BY <1>2, WhileReading
  <1>5. c1 # "eof"
    BY <1>1, Letters
  <1>6. at1 \in 1 .. Len(out) /\ out[at1] = c1 /\ at1 \in Nat
    BY <1>3, <1>4, <1>5, CharIs
  <1>7. InText(out, at1 + 1, CharAt(out, at1 + 1))
    BY <1>3, <1>6, ReadOn
  <1>8. WordsUpTo(out, at1) = WordsUpTo(out, at1 - 1)
    BY <1>1, <1>3, <1>6, ReadSpace
  <1>9. at1' - 1 = at1
    BY <1>1, <1>6
  <1>10. BoundariesMatch'
    BY <1>1, Letters DEF BoundariesMatch
  <1>11. LayoutInv'
    <2> SUFFICES ASSUME WellFormed(out), WellFormed(user)
                 PROVE  /\ ret' = "AC" => LayoutsMatch'
                        /\ ret' = "PE" => ~ SameLayout(WithoutCR(out), WithoutCR(user))
      BY <1>1 DEF LayoutInv
    <2>1. /\ ret = "AC" => LayoutsMatch
          /\ ret = "PE" => ~ SameLayout(WithoutCR(out), WithoutCR(user))
      BY <1>2 DEF CompareInv, LayoutInv
    <2>2. ASSUME ret = "AC" PROVE LayoutsMatch'
      <3> DEFINE u == LayoutUpTo(user, at2 - 1)
      <3>1. u = LayoutUpTo(out, at1 - 1) \/ Continues(u, LayoutUpTo(out, at1 - 1))
        BY <1>4, <1>5, <2>1, <2>2 DEF LayoutsMatch
      <3>2. at2 - 1 \in 0 .. Len(user)
        BY <1>3, <1>4, TextIs DEF InText
      <3>3. u \in Seq(Char)
        BY <1>3, <3>2, LayoutTyped
      <3> HIDE DEF u
      <3>4. u = LayoutUpTo(out, at1) \/ Continues(u, LayoutUpTo(out, at1))
        BY <1>1, <1>3, <1>6, <3>1, <3>3, LayoutSpace
      <3>5. stage' # "line"
        BY <1>1
      <3> QED
        BY <1>1, <1>9, <3>4, <3>5 DEF LayoutsMatch, Done1, Done2, u
    <2> QED
      BY <1>1, <2>1, <2>2
  <1>12. UNCHANGED files
    BY <1>1 DEF files
  <1>13. InText(out, at1', c1') /\ InText(user, at2', c2')
    BY <1>1, <1>4, <1>7
  <1>14. WordsUpTo(out, at1' - 1) = WordsUpTo(user, at2' - 1)
    BY <1>1, <1>4, <1>8, <1>9
  <1> QED
    BY <1>1, <1>2, <1>3, <1>10, <1>11, <1>12, <1>13, <1>14, KeepReading

\* ... and where the first has.
LEMMA SkipSecond ==
  ASSUME CompareInv, SkipRest, c1 = "eof", Read2(1), Keep1
  PROVE  CompareInv'
  <1>1. /\ out' = out /\ user' = user /\ ret' = ret /\ stage' = stage /\ stage \in {"lead", "trail"}
        /\ at2' = at2 + 1 /\ c2' = CharAt(user, at2 + 1) /\ at1' = at1 /\ c1' = c1
        /\ c2 \in Space
    <2>1. c1 \notin Space
      BY Letters
    <2> QED
      BY <2>1 DEF SkipRest, files, Read2, Keep1, InGap
  <1>2. stage \in Reading /\ stage' \in Reading
    BY <1>1 DEF Reading
  <1>3. out \in Text /\ user \in Text /\ ret \in {"AC", "PE"}
    BY <1>2, FilesRead
  <1>4. /\ InText(out, at1, c1) /\ InText(user, at2, c2)
        /\ WordsUpTo(out, at1 - 1) = WordsUpTo(user, at2 - 1)
        /\ Done1 = at1 - 1 /\ Done2 = at2 - 1
    BY <1>2, WhileReading
  <1>5. c2 # "eof"
    BY <1>1, Letters
  <1>6. at2 \in 1 .. Len(user) /\ user[at2] = c2 /\ at2 \in Nat
    BY <1>3, <1>4, <1>5, CharIs
  <1>7. InText(user, at2 + 1, CharAt(user, at2 + 1))
    BY <1>3, <1>6, ReadOn
  <1>8. WordsUpTo(user, at2) = WordsUpTo(user, at2 - 1)
    BY <1>1, <1>3, <1>6, ReadSpace
  <1>9. at2' - 1 = at2
    BY <1>1, <1>6
  <1>10. BoundariesMatch'
    BY <1>1, Letters DEF BoundariesMatch
  <1>11. LayoutInv'
    <2> SUFFICES ASSUME WellFormed(out), WellFormed(user)
                 PROVE  /\ ret' = "AC" => LayoutsMatch'
                        /\ ret' = "PE" => ~ SameLayout(WithoutCR(out), WithoutCR(user))
      BY <1>1 DEF LayoutInv
    <2>1. /\ ret = "AC" => LayoutsMatch
          /\ ret = "PE" => ~ SameLayout(WithoutCR(out), WithoutCR(user))
      BY <1>2 DEF CompareInv, LayoutInv
    <2>2. ASSUME ret = "AC" PROVE LayoutsMatch'
      <3> DEFINE u == LayoutUpTo(out, at1 - 1)
      <3>1. u = LayoutUpTo(user, at2 - 1) \/ Continues(u, LayoutUpTo(user, at2 - 1))
        BY <1>4, <1>5, <2>1, <2>2 DEF LayoutsMatch
      <3>2. at1 - 1 \in 0 .. Len(out)
        BY <1>3, <1>4, TextIs DEF InText
      <3>3. u \in Seq(Char)
        BY <1>3, <3>2, LayoutTyped
      <3> HIDE DEF u
      <3>4. u = LayoutUpTo(user, at2) \/ Continues(u, LayoutUpTo(user, at2))
        BY <1>1, <1>3, <1>6, <3>1, <3>3, LayoutSpace
      <3>5. stage' # "line"
        BY <1>1
      <3> QED
        BY <1>1, <1>9, <3>4, <3>5 DEF LayoutsMatch, Done1, Done2, u
    <2> QED
      BY <1>1, <2>1, <2>2
  <1>12. UNCHANGED files
    BY <1>1 DEF files
  <1>13. InText(out, at1', c1') /\ InText(user, at2', c2')
    BY <1>1, <1>4, <1>7
  <1>14. WordsUpTo(out, at1' - 1) = WordsUpTo(user, at2' - 1)
    BY <1>1, <1>4, <1>8, <1>9
  <1> QED
    BY <1>1, <1>2, <1>3, <1>10, <1>11, <1>12, <1>13, <1>14, KeepReading

\* SkipRest.
LEMMA SkipRestStep ==
  ASSUME CompareInv, SkipRest
  PROVE  CompareInv'
  <1>1. (c2 = "eof" /\ Read1(1) /\ Keep2) \/ (c1 = "eof" /\ Read2(1) /\ Keep1)
    BY DEF SkipRest
  <1> QED
    BY <1>1, SkipFirst, SkipSecond

\* A carriage return is passed over with the white space after it.
LEMMA ReadReturn ==
  ASSUME NEW t \in Text, NEW at \in 1 .. Len(t), t[at] = "cr",
         NEW n, n = IF CharAt(t, at + 1) \in Space THEN 2 ELSE 1
  PROVE  /\ InText(t, at + n, CharAt(t, at + n))
         /\ Fresh(t, at + n)
         /\ WordsUpTo(t, at + n - 1) = WordsUpTo(t, at - 1)
         /\ WellFormed(t) =>
              LayoutUpTo(t, at + n - 1) = Append(LayoutUpTo(t, at - 1), "nl")
  <1>0. Len(t) \in Nat /\ "cr" \in Space
    BY TextIs DEF Space
  <1>1. InText(t, at + 1, CharAt(t, at + 1)) /\ Fresh(t, at + 1)
    BY <1>0, ReadOn, ReadSpace
  <1>2. WordsUpTo(t, at) = WordsUpTo(t, at - 1)
    BY <1>0, ReadSpace
  <1>3. CASE CharAt(t, at + 1) \notin Space
    <2>1. n = 1 /\ at + n - 1 = at /\ at + n = at + 1
      BY <1>0, <1>3
    <2>2. ~ WellFormed(t)
      <3>1. CharAt(t, at + 1) # "nl"
        BY <1>3 DEF Space
      <3> QED
        BY <3>1 DEF WellFormed
    <2> QED
      BY <1>1, <1>2, <2>1, <2>2
  <1>4. CASE CharAt(t, at + 1) \in Space
    <2>1. n = 2 /\ at + n - 1 = at + 1 /\ at + n = at + 1 + 1
      BY <1>0, <1>4
    <2>2. at + 1 \in 1 .. Len(t) /\ t[at + 1] = CharAt(t, at + 1)
      <3>1. CharAt(t, at + 1) # "eof"
        BY <1>4, Letters
      <3> QED
        BY <1>1, <3>1, CharIs
    <2>3. t[at + 1] \in Space /\ at + 1 - 1 = at
      BY <1>0, <1>4, <2>2
    <2>4. InText(t, at + 1 + 1, CharAt(t, at + 1 + 1))
      BY <2>2, ReadOn
    <2>5. Fresh(t, at + 1 + 1) /\ WordsUpTo(t, at + 1) = WordsUpTo(t, at + 1 - 1)
      BY <2>2, <2>3, ReadSpace
    <2>6. ASSUME WellFormed(t)
          PROVE  LayoutUpTo(t, at + 1) = Append(LayoutUpTo(t, at - 1), "nl")
      <3>1. t[at + 1] = "nl"
        BY <2>2, <2>6 DEF WellFormed
      <3>2. LayoutUpTo(t, at + 1) = Append(LayoutUpTo(t, at + 1 - 1), "nl")
        BY <2>2, <3>1, LayoutStep
      <3>3. LayoutUpTo(t, at) = LayoutUpTo(t, at - 1)
        BY LayoutStep
      <3> QED
        BY <2>3, <3>2, <3>3
    <2> QED
      BY <1>2, <2>1, <2>3, <2>4, <2>5, <2>6
  <1> QED
    BY <1>3, <1>4

\* A line end, where the other file has a carriage return before its own.
LEMMA ReadLineEnd ==
  ASSUME NEW t \in Text, NEW at \in 1 .. Len(t), t[at] = "nl"
  PROVE  /\ InText(t, at + 1, CharAt(t, at + 1))
         /\ Fresh(t, at + 1)
         /\ WordsUpTo(t, at) = WordsUpTo(t, at - 1)
         /\ LayoutUpTo(t, at) = Append(LayoutUpTo(t, at - 1), "nl")
  <1>1. t[at] \in Space
    BY DEF Space
  <1>2. LayoutUpTo(t, at) = Append(LayoutUpTo(t, at - 1), "nl")
    BY LayoutStep
  <1> QED
    BY <1>1, <1>2, ReadOn, ReadSpace

\* What a step within the gap has to keep, if neither file has ended.
LEMMA GapStep ==
  ASSUME CompareInv, stage \in {"lead", "trail"}, stage' = stage, UNCHANGED files,
         c1 # "eof", c2 # "eof", ret' \in {ret, "PE"},
         InText(out, at1', c1'), InText(user, at2', c2'),
         WordsUpTo(out, at1' - 1) = WordsUpTo(user, at2' - 1),
         Fresh(out, at1') \/ (at1' = at1 /\ c1' = c1),
         Fresh(user, at2') \/ (at2' = at2 /\ c2' = c2),
         WellFormed(out) /\ WellFormed(user)
           /\ LayoutUpTo(out, at1 - 1) = LayoutUpTo(user, at2 - 1) =>
           \/ ret' = ret /\ LayoutUpTo(out, at1' - 1) = LayoutUpTo(user, at2' - 1)
           \/ ret' = "PE" /\ ~ SameLayout(WithoutCR(out), WithoutCR(user))
  PROVE  CompareInv'
  <1>1. stage \in Reading /\ stage' \in Reading /\ stage' # "line" /\ stage # "line"
    BY DEF Reading
  <1>2. ret \in {"AC", "PE"} /\ ret' \in {"AC", "PE"}
    BY <1>1, FilesRead
  <1>3. out' = out /\ user' = user
    BY DEF files
  <1>4. BoundariesMatch'
    <2>1. /\ c1 \in Letter /\ c2 # "eof" => Fresh(out, at1)
          /\ c2 \in Letter /\ c1 # "eof" => Fresh(user, at2)
      BY DEF CompareInv, BoundariesMatch
    <2>2. c1' \in Letter => Fresh(out, at1')
      BY <2>1
    <2>3. c2' \in Letter => Fresh(user, at2')
      BY <2>1
    <2> QED
      BY <1>3, <2>2, <2>3 DEF BoundariesMatch
  <1>5. LayoutInv'
    <2> SUFFICES ASSUME WellFormed(out), WellFormed(user)
                 PROVE  /\ ret' = "AC" => LayoutsMatch'
                        /\ ret' = "PE" => ~ SameLayout(WithoutCR(out), WithoutCR(user))
      BY <1>3 DEF LayoutInv
    <2>1. ret = "PE" => ~ SameLayout(WithoutCR(out), WithoutCR(user))
      BY <1>1 DEF CompareInv, LayoutInv
    <2>2. ret = "AC" => LayoutUpTo(out, at1 - 1) = LayoutUpTo(user, at2 - 1)
      BY <1>1, SameSoFar
    <2>3. ASSUME ret' = "AC" PROVE LayoutsMatch'
      <3>1. ret = "AC" /\ ret' = ret
        BY <1>2, <2>3
      <3>2. LayoutUpTo(out, at1' - 1) = LayoutUpTo(user, at2' - 1)
        BY <2>2, <3>1
      <3> QED
        BY <1>1, <1>3, <3>2 DEF LayoutsMatch, Done1, Done2
    <2>4. ASSUME ret' = "PE" PROVE ~ SameLayout(WithoutCR(out), WithoutCR(user))
      BY <1>2, <2>1, <2>2, <2>4
    <2> QED
      BY <2>3, <2>4
  <1> QED
    BY <1>1, <1>2, <1>4, <1>5, KeepReading

\* CarriageReturn: nothing is said of it.
LEMMA CarriageReturnStep ==
  ASSUME CompareInv, CarriageReturn
  PROVE  CompareInv'
  <1>1. out' = out /\ user' = user /\ ret' = ret /\ stage' = stage /\ stage \in {"lead", "trail"}
    BY DEF CarriageReturn, files, InGap
  <1>2. stage \in Reading
    BY <1>1 DEF Reading
  <1>3. out \in Text /\ user \in Text
    BY <1>2, FilesRead
  <1>4. /\ InText(out, at1, c1) /\ InText(user, at2, c2)
        /\ WordsUpTo(out, at1 - 1) = WordsUpTo(user, at2 - 1)
    BY <1>2, WhileReading
  <1>5. c1 \in {"cr", "nl"} /\ c2 \in {"cr", "nl"}
    BY DEF CarriageReturn
  <1>6. c1 # "eof" /\ c2 # "eof"
    BY <1>5
  <1>7. at1 \in 1 .. Len(out) /\ out[at1] = c1 /\ at1 \in Nat
    BY <1>3, <1>4, <1>6, CharIs
  <1>8. at2 \in 1 .. Len(user) /\ user[at2] = c2 /\ at2 \in Nat
    BY <1>3, <1>4, <1>6, CharIs
  <1>9. UNCHANGED files
    BY <1>1 DEF files
  <1>10. CASE c1 = "cr" /\ c2 = "nl"
    <2> DEFINE n == IF CharAt(out, at1 + 1) \in Space THEN 2 ELSE 1
    <2>1. /\ at1' = at1 + n /\ c1' = CharAt(out, at1 + n)
          /\ at2' = at2 + 1 /\ c2' = CharAt(user, at2 + 1)
      BY <1>10 DEF CarriageReturn, Read1, Read2
    <2> HIDE DEF n
    <2>2. /\ InText(out, at1 + n, CharAt(out, at1 + n)) /\ Fresh(out, at1 + n)
          /\ WordsUpTo(out, at1 + n - 1) = WordsUpTo(out, at1 - 1)
          /\ WellFormed(out) =>
               LayoutUpTo(out, at1 + n - 1) = Append(LayoutUpTo(out, at1 - 1), "nl")
      BY <1>3, <1>7, <1>10, ReadReturn DEF n
    <2>3. /\ InText(user, at2 + 1, CharAt(user, at2 + 1)) /\ Fresh(user, at2 + 1)
          /\ WordsUpTo(user, at2) = WordsUpTo(user, at2 - 1)
          /\ LayoutUpTo(user, at2) = Append(LayoutUpTo(user, at2 - 1), "nl")
      BY <1>3, <1>8, <1>10, ReadLineEnd
    <2>4. at2' - 1 = at2
      BY <1>8, <2>1
    <2>5. at1' - 1 = at1 + n - 1
      <3>1. n \in Nat
        BY DEF n
      <3> QED
        BY <1>7, <2>1, <3>1
    <2>6. InText(out, at1', c1') /\ InText(user, at2', c2')
      BY <2>1, <2>2, <2>3
    <2>7. Fresh(out, at1') /\ Fresh(user, at2')
      BY <2>1, <2>2, <2>3
    <2>8. WordsUpTo(out, at1' - 1) = WordsUpTo(user, at2' - 1)
      BY <1>4, <2>2, <2>3, <2>4, <2>5
    <2>9. WellFormed(out) /\ WellFormed(user)
            /\ LayoutUpTo(out, at1 - 1) = LayoutUpTo(user, at2 - 1) =>
            LayoutUpTo(out, at1' - 1) = LayoutUpTo(user, at2' - 1)
      BY <2>2, <2>3, <2>4, <2>5
    <2> QED
      BY <1>1, <1>6, <1>9, <2>6, <2>7, <2>8, <2>9, GapStep
  <1>11. CASE c2 = "cr" /\ c1 = "nl"
    <2> DEFINE n == IF CharAt(user, at2 + 1) \in Space THEN 2 ELSE 1
    <2>1. /\ at2' = at2 + n /\ c2' = CharAt(user, at2 + n)
          /\ at1' = at1 + 1 /\ c1' = CharAt(out, at1 + 1)
      BY <1>11 DEF CarriageReturn, Read1, Read2
    <2> HIDE DEF n
    <2>2. /\ InText(user, at2 + n, CharAt(user, at2 + n)) /\ Fresh(user, at2 + n)
          /\ WordsUpTo(user, at2 + n - 1) = WordsUpTo(user, at2 - 1)
          /\ WellFormed(user) =>
               LayoutUpTo(user, at2 + n - 1) = Append(LayoutUpTo(user, at2 - 1), "nl")
      BY <1>3, <1>8, <1>11, ReadReturn DEF n
    <2>3. /\ InText(out, at1 + 1, CharAt(out, at1 + 1)) /\ Fresh(out, at1 + 1)
          /\ WordsUpTo(out, at1) = WordsUpTo(out, at1 - 1)
          /\ LayoutUpTo(out, at1) = Append(LayoutUpTo(out, at1 - 1), "nl")
      BY <1>3, <1>7, <1>11, ReadLineEnd
    <2>4. at1' - 1 = at1
      BY <1>7, <2>1
    <2>5. at2' - 1 = at2 + n - 1
      <3>1. n \in Nat
        BY DEF n
      <3> QED
        BY <1>8, <2>1, <3>1
    <2>6. InText(out, at1', c1') /\ InText(user, at2', c2')
      BY <2>1, <2>2, <2>3
    <2>7. Fresh(out, at1') /\ Fresh(user, at2')
      BY <2>1, <2>2, <2>3
    <2>8. WordsUpTo(out, at1' - 1) = WordsUpTo(user, at2' - 1)
      BY <1>4, <2>2, <2>3, <2>4, <2>5
    <2>9. WellFormed(out) /\ WellFormed(user)
            /\ LayoutUpTo(out, at1 - 1) = LayoutUpTo(user, at2 - 1) =>
            LayoutUpTo(out, at1' - 1) = LayoutUpTo(user, at2' - 1)
      BY <2>2, <2>3, <2>4, <2>5
    <2> QED
      BY <1>1, <1>6, <1>9, <2>6, <2>7, <2>8, <2>9, GapStep
  <1> QED
    BY <1>10, <1>11 DEF CarriageReturn

\* Any white space is passed over, and nothing else.
LEMMA ReadBlank ==
  ASSUME NEW t \in Text, NEW at, NEW c, InText(t, at, c), c # "eof",
         NEW b, NEW d,
         IF c \in Space THEN b = at + 1 /\ d = CharAt(t, at + 1) ELSE b = at /\ d = c
  PROVE  /\ InText(t, b, d)
         /\ WordsUpTo(t, b - 1) = WordsUpTo(t, at - 1)
         /\ Fresh(t, b) \/ (b = at /\ d = c)
  <1>1. at \in 1 .. Len(t) /\ c = t[at] /\ at \in Nat
    BY CharIs
  <1>2. CASE c \in Space
    <2>1. b = at + 1 /\ d = CharAt(t, at + 1) /\ b - 1 = at
      BY <1>1, <1>2
    <2>2. InText(t, at + 1, CharAt(t, at + 1))
      BY <1>1, ReadOn
    <2>3. Fresh(t, at + 1) /\ WordsUpTo(t, at) = WordsUpTo(t, at - 1)
      BY <1>1, <1>2, ReadSpace
    <2> QED
      BY <2>1, <2>2, <2>3
  <1>3. CASE c \notin Space
    BY <1>3
  <1> QED
    BY <1>2, <1>3

\* Blank: the same white space, or a presentation error.
LEMMA BlankStep ==
  ASSUME CompareInv, Blank
  PROVE  CompareInv'
  <1>1. /\ out' = out /\ user' = user /\ stage' = stage /\ stage \in {"lead", "trail"}
        /\ ret' = IF c1 = c2 THEN ret ELSE "PE"
        /\ c1 # "eof" /\ c2 # "eof" /\ {c1, c2} # {"cr", "nl"}
        /\ c1 \in Space \/ c2 \in Space
    BY DEF Blank, files, InGap
  <1>2. stage \in Reading
    BY <1>1 DEF Reading
  <1>3. out \in Text /\ user \in Text
    BY <1>2, FilesRead
  <1>4. /\ InText(out, at1, c1) /\ InText(user, at2, c2)
        /\ WordsUpTo(out, at1 - 1) = WordsUpTo(user, at2 - 1)
    BY <1>2, WhileReading
  <1>5. at1 \in 1 .. Len(out) /\ out[at1] = c1 /\ at1 \in Nat
    BY <1>1, <1>3, <1>4, CharIs
  <1>6. at2 \in 1 .. Len(user) /\ user[at2] = c2 /\ at2 \in Nat
    BY <1>1, <1>3, <1>4, CharIs
  <1>7. IF c1 \in Space THEN at1' = at1 + 1 /\ c1' = CharAt(out, at1 + 1)
        ELSE at1' = at1 /\ c1' = c1
    BY DEF Blank, Read1, Keep1
  <1>8. IF c2 \in Space THEN at2' = at2 + 1 /\ c2' = CharAt(user, at2 + 1)
        ELSE at2' = at2 /\ c2' = c2
    BY DEF Blank, Read2, Keep2
  <1>9. /\ InText(out, at1', c1') /\ WordsUpTo(out, at1' - 1) = WordsUpTo(out, at1 - 1)
        /\ Fresh(out, at1') \/ (at1' = at1 /\ c1' = c1)
    BY <1>1, <1>3, <1>4, <1>7, ReadBlank
  <1>10. /\ InText(user, at2', c2') /\ WordsUpTo(user, at2' - 1) = WordsUpTo(user, at2 - 1)
         /\ Fresh(user, at2') \/ (at2' = at2 /\ c2' = c2)
    BY <1>1, <1>3, <1>4, <1>8, ReadBlank
  <1>11. ASSUME WellFormed(out), WellFormed(user),
                LayoutUpTo(out, at1 - 1) = LayoutUpTo(user, at2 - 1)
         PROVE  \/ ret' = ret /\ LayoutUpTo(out, at1' - 1) = LayoutUpTo(user, at2' - 1)
                \/ ret' = "PE" /\ ~ SameLayout(WithoutCR(out), WithoutCR(user))
    <2>1. CASE c1 = c2
      <3>1. at1' - 1 = at1 /\ at2' - 1 = at2
        BY <1>1, <1>5, <1>6, <1>7, <1>8, <2>1
      <3>2. LayoutUpTo(out, at1) = LayoutUpTo(user, at2)
        <4>1. /\ out[at1] = "cr" => LayoutUpTo(out, at1) = LayoutUpTo(out, at1 - 1)
              /\ out[at1] # "cr" => LayoutUpTo(out, at1)
                                      = Append(LayoutUpTo(out, at1 - 1), out[at1])
          BY <1>3, <1>5, LayoutStep
        <4>2. /\ user[at2] = "cr" => LayoutUpTo(user, at2) = LayoutUpTo(user, at2 - 1)
              /\ user[at2] # "cr" => LayoutUpTo(user, at2)
                                       = Append(LayoutUpTo(user, at2 - 1), user[at2])
          BY <1>3, <1>6, LayoutStep
        <4> QED
          BY <1>5, <1>6, <1>11, <2>1, <4>1, <4>2
      <3> QED
        BY <1>1, <2>1, <3>1, <3>2
    <2>2. CASE c1 # c2
      <3>1. Visible(c1) # Visible(c2)
        BY <1>1, <2>2 DEF Visible
      <3>2. ~ SameLayout(WithoutCR(out), WithoutCR(user))
        BY <1>3, <1>5, <1>6, <1>11, <3>1, LayoutsDiffer
      <3> QED
        BY <1>1, <2>2, <3>2
    <2> QED
      BY <2>1, <2>2
  <1>12. ret' \in {ret, "PE"}
    BY <1>1
  <1>13. UNCHANGED files
    BY <1>1 DEF files
  <1> QED
    BY <1>1, <1>4, <1>9, <1>10, <1>11, <1>12, <1>13, GapStep

\* What a step that reads nothing and decides nothing has to keep.
LEMMA TurnStep ==
  ASSUME CompareInv, stage \in Reading, stage' \in Reading,
         UNCHANGED <<files, at1, at2, c1, c2, ret>>, BoundariesMatch'
  PROVE  CompareInv'
  <1>1. out' = out /\ user' = user /\ at1' = at1 /\ at2' = at2 /\ c1' = c1 /\ c2' = c2
          /\ ret' = ret
    BY DEF files
  <1>2. stage' # "line" /\ stage # "line"
    BY DEF Reading
  <1>3. LayoutsMatch => LayoutsMatch'
    BY <1>1, <1>2 DEF LayoutsMatch, Done1, Done2
  <1>4. LayoutInv'
    BY <1>1, <1>3 DEF CompareInv, LayoutInv
  <1>5. InText(out, at1', c1') /\ InText(user, at2', c2')
    BY <1>1, WhileReading
  <1>6. WordsUpTo(out, at1' - 1) = WordsUpTo(user, at2' - 1)
    BY <1>1, WhileReading
  <1>7. ret' \in {"AC", "PE"}
    BY <1>1, FilesRead
  <1>8. UNCHANGED files
    BY <1>1 DEF files
  <1> QED
    BY <1>4, <1>5, <1>6, <1>7, <1>8, KeepReading

\* GapDone.
LEMMA GapDoneStep ==
  ASSUME CompareInv, GapDone
  PROVE  CompareInv'
  <1>1. /\ stage \in {"lead", "trail"} /\ c1 \notin Space /\ c2 \notin Space
        /\ stage' = IF stage = "lead" THEN "word" ELSE "next"
        /\ out' = out /\ user' = user /\ at1' = at1 /\ at2' = at2 /\ c1' = c1 /\ c2' = c2
        /\ ret' = ret
    BY DEF GapDone, files
  <1>2. /\ c1 \in Letter /\ c2 # "eof" => Fresh(out, at1)
        /\ c2 \in Letter /\ c1 # "eof" => Fresh(user, at2)
    BY <1>1 DEF CompareInv, BoundariesMatch
  <1>3. c1 \in Letter => c1 # "eof"
    BY Letters
  <1>4. c2 \in Letter => c2 # "eof"
    BY Letters
  <1>5. BoundariesMatch'
    BY <1>1, <1>2, <1>3, <1>4 DEF BoundariesMatch
  <1>6. stage \in Reading /\ stage' \in Reading
    BY <1>1 DEF Reading
  <1>7. UNCHANGED <<files, at1, at2, c1, c2, ret>>
    BY <1>1 DEF files
  <1> QED
    BY <1>5, <1>6, <1>7, TurnStep

\* LeaveWord.
LEMMA LeaveWordStep ==
  ASSUME CompareInv, LeaveWord
  PROVE  CompareInv'
  <1>1. /\ stage = "word" /\ stage' = "trail"
        /\ out' = out /\ user' = user /\ at1' = at1 /\ at2' = at2 /\ c1' = c1 /\ c2' = c2
        /\ ret' = ret
        /\ ~ InWord \/ (c1 # c2 /\ "eof" \in {c1, c2})
    BY DEF LeaveWord, files
  <1>2. c1 \in Letter => c1 \notin Space /\ c1 # "nul" /\ c1 # "eof"
    BY Letters
  <1>3. c2 \in Letter => c2 \notin Space /\ c2 # "nul" /\ c2 # "eof"
    BY Letters
  <1>4. /\ c1 \in Letter => c2 = "eof"
        /\ c2 \in Letter => c1 = "eof"
    BY <1>1, <1>2, <1>3 DEF InWord
  <1>5. BoundariesMatch'
    BY <1>1, <1>4 DEF BoundariesMatch
  <1>6. stage \in Reading /\ stage' \in Reading
    BY <1>1 DEF Reading
  <1>7. UNCHANGED <<files, at1, at2, c1, c2, ret>>
    BY <1>1 DEF files
  <1> QED
    BY <1>5, <1>6, <1>7, TurnStep

\* Same: one more character of the same word.
LEMMA SameStep ==
  ASSUME CompareInv, Same
  PROVE  CompareInv'
  <1>1. /\ stage = "word" /\ stage' = "word" /\ c1 = c2 /\ c1 # "eof" /\ InWord
        /\ out' = out /\ user' = user /\ ret' = ret
        /\ at1' = at1 + 1 /\ c1' = CharAt(out, at1 + 1)
        /\ at2' = at2 + 1 /\ c2' = CharAt(user, at2 + 1)
    BY DEF Same, files, Read1, Read2
  <1>2. stage \in Reading /\ stage' \in Reading
    BY <1>1 DEF Reading
  <1>3. out \in Text /\ user \in Text /\ ret \in {"AC", "PE"}
    BY <1>2, FilesRead
  <1>4. /\ InText(out, at1, c1) /\ InText(user, at2, c2)
        /\ WordsUpTo(out, at1 - 1) = WordsUpTo(user, at2 - 1)
    BY <1>2, WhileReading
  <1>5. at1 \in 1 .. Len(out) /\ out[at1] = c1 /\ at1 \in Nat /\ c1 \in Char
    BY <1>1, <1>3, <1>4, CharIs
  <1>6. at2 \in 1 .. Len(user) /\ user[at2] = c2 /\ at2 \in Nat
    BY <1>1, <1>3, <1>4, CharIs
  <1>7. c1 \in Letter
    BY <1>1, <1>5, Letters DEF InWord
  <1>8. c1 \notin Space /\ c1 # "nul"
    BY <1>7, Letters
  <1>9. Begins(out, at1) = Begins(user, at2)
    <2>1. Fresh(out, at1) <=> Fresh(user, at2)
      BY <1>1, <1>7 DEF CompareInv, BoundariesMatch
    <2>2. Begins(out, at1) <=> Fresh(out, at1)
      BY <1>5, <1>8 DEF Begins, Fresh
    <2>3. Begins(user, at2) <=> Fresh(user, at2)
      BY <1>1, <1>6, <1>8 DEF Begins, Fresh
    <2>4. Begins(out, at1) \in BOOLEAN /\ Begins(user, at2) \in BOOLEAN
      BY DEF Begins
    <2> QED
      BY <2>1, <2>2, <2>3, <2>4
  <1>10. at1' - 1 = at1 /\ at2' - 1 = at2 /\ at1 + 1 # 1 /\ at2 + 1 # 1
    BY <1>1, <1>5, <1>6
  <1>11. WordsUpTo(out, at1) = WordsUpTo(user, at2)
    <2>1. WordsUpTo(out, at1) = Append(WordsUpTo(out, at1 - 1), <<c1, Begins(out, at1)>>)
      BY <1>3, <1>5, <1>8, WordsStep
    <2>2. WordsUpTo(user, at2) = Append(WordsUpTo(user, at2 - 1), <<c1, Begins(user, at2)>>)
      BY <1>1, <1>3, <1>6, <1>8, WordsStep
    <2> QED
      BY <1>4, <1>9, <2>1, <2>2
  <1>12. ~ Fresh(out, at1')
    <2>1. at1' # 1 /\ out[at1' - 1] \notin Space \cup {"nul"}
      BY <1>1, <1>5, <1>8, <1>10
    <2> QED
      BY <2>1 DEF Fresh
  <1>13. ~ Fresh(user, at2')
    <2>1. at2' # 1 /\ user[at2' - 1] \notin Space \cup {"nul"}
      BY <1>1, <1>6, <1>8, <1>10
    <2> QED
      BY <2>1 DEF Fresh
  <1>14. BoundariesMatch'
    BY <1>1, <1>12, <1>13 DEF BoundariesMatch
  <1>15. LayoutInv'
    <2> SUFFICES ASSUME WellFormed(out), WellFormed(user)
                 PROVE  /\ ret' = "AC" => LayoutsMatch'
                        /\ ret' = "PE" => ~ SameLayout(WithoutCR(out), WithoutCR(user))
      BY <1>1 DEF LayoutInv
    <2>1. ret = "PE" => ~ SameLayout(WithoutCR(out), WithoutCR(user))
      BY <1>2 DEF CompareInv, LayoutInv
    <2>2. ASSUME ret = "AC" PROVE LayoutsMatch'
      <3>1. LayoutUpTo(out, at1 - 1) = LayoutUpTo(user, at2 - 1)
        BY <1>1, <1>2, <2>2, SameSoFar
      <3>2. c1 # "cr"
        BY <1>8 DEF Space
      <3>3. LayoutUpTo(out, at1) = Append(LayoutUpTo(out, at1 - 1), c1)
        BY <1>3, <1>5, <3>2, LayoutStep
      <3>4. LayoutUpTo(user, at2) = Append(LayoutUpTo(user, at2 - 1), c1)
        BY <1>1, <1>3, <1>6, <3>2, LayoutStep
      <3>5. stage' # "line"
        BY <1>1
      <3> QED
        BY <1>1, <1>10, <3>1, <3>3, <3>4, <3>5 DEF LayoutsMatch, Done1, Done2
    <2> QED
      BY <1>1, <2>1, <2>2
  <1>16. InText(out, at1', c1') /\ InText(user, at2', c2')
    BY <1>1, <1>3, <1>5, <1>6, ReadOn
  <1>17. WordsUpTo(out, at1' - 1) = WordsUpTo(user, at2' - 1)
    BY <1>10, <1>11
  <1>18. UNCHANGED files
    BY <1>1 DEF files
  <1> QED
    BY <1>1, <1>2, <1>3, <1>14, <1>15, <1>16, <1>17, <1>18, KeepReading

\* What a step that ends the comparison has to establish.
LEMMA EndStep ==
  ASSUME CompareInv, stage \in Reading, stage' = "end", UNCHANGED files,
         ret' \in {"AC", "PE", "WA"},
         ret' = "WA" <=> Words(out) # Words(user),
         WellFormed(out) /\ WellFormed(user) =>
           (ret' = "AC" <=> SameLayout(WithoutCR(out), WithoutCR(user)))
  PROVE  CompareInv'
  <1>1. out' = out /\ user' = user
    BY DEF files
  <1>2. out \in Text /\ user \in Text
    BY FilesRead
  <1>3. VerdictRight'
    BY <1>1 DEF VerdictRight
  <1>4. Typed'
    BY <1>1, <1>2 DEF Typed, Reading
  <1> QED
    BY <1>3, <1>4 DEF CompareInv, Placed, WordsMatch, BoundariesMatch, LayoutInv, Reading

\* Differ: the words are not the same, nor is the layout.
LEMMA DifferStep ==
  ASSUME CompareInv, Differ
  PROVE  CompareInv'
  <1>1. /\ stage = "word" /\ stage' = "end" /\ ret' = "WA" /\ InWord
        /\ out' = out /\ user' = user
        /\ c1 # c2 /\ c1 # "eof" /\ c2 # "eof"
    BY DEF Differ, files
  <1>2. stage \in Reading
    BY <1>1 DEF Reading
  <1>3. out \in Text /\ user \in Text /\ ret \in {"AC", "PE"}
    BY <1>2, FilesRead
  <1>4. /\ InText(out, at1, c1) /\ InText(user, at2, c2)
        /\ WordsUpTo(out, at1 - 1) = WordsUpTo(user, at2 - 1)
    BY <1>2, WhileReading
  <1>5. at1 \in 1 .. Len(out) /\ out[at1] = c1 /\ c1 \in Char
    BY <1>1, <1>3, <1>4, CharIs
  <1>6. at2 \in 1 .. Len(user) /\ user[at2] = c2 /\ c2 \in Char
    BY <1>1, <1>3, <1>4, CharIs
  <1>7. c1 \in Letter \/ c2 \in Letter
    BY <1>1, <1>5, <1>6, Letters DEF InWord
  <1>8. c1 \in Space \/ c2 \in Space => ~ Fresh(out, at1) /\ ~ Fresh(user, at2)
    BY <1>1 DEF CompareInv, BoundariesMatch
  <1>9. Words(out) # Words(user)
    <2>1. CASE c1 \in Letter
      BY <1>1, <1>3, <1>4, <1>5, <1>6, <1>8, <2>1, WordsDiffer
    <2>2. CASE c2 \in Letter
      <3>1. Words(user) # Words(out)
        BY <1>1, <1>3, <1>4, <1>5, <1>6, <1>8, <2>2, WordsDiffer
      <3> QED
        BY <3>1
    <2> QED
      BY <1>7, <2>1, <2>2
  <1>10. ASSUME WellFormed(out), WellFormed(user)
         PROVE  ~ SameLayout(WithoutCR(out), WithoutCR(user))
    <2>1. CASE ret = "PE"
      BY <1>2, <1>10, <2>1 DEF CompareInv, LayoutInv
    <2>2. CASE ret = "AC"
      <3>1. LayoutUpTo(out, at1 - 1) = LayoutUpTo(user, at2 - 1)
        BY <1>1, <1>2, <1>10, <2>2, SameSoFar
      <3>2. "nl" \notin Letter
        BY CompareAssumption
      <3>3. Visible(c1) # Visible(c2)
        <4>1. c1 # "cr" \/ c2 # "cr"
          BY <1>1
        <4>2. "cr" \notin Letter
          BY CompareAssumption
        <4> QED
          BY <1>1, <1>7, <3>2, <4>1, <4>2 DEF Visible
      <3> QED
        BY <1>3, <1>5, <1>6, <1>10, <3>1, <3>3, LayoutsDiffer
    <2> QED
      BY <1>3, <2>1, <2>2
  <1>11. UNCHANGED files
    BY <1>1 DEF files
  <1> QED
    BY <1>1, <1>2, <1>9, <1>10, <1>11, EndStep

\* BothEnd: the words are the same, and the layout unless an error was noted.
LEMMA BothEndStep ==
  ASSUME CompareInv, BothEnd
  PROVE  CompareInv'
  <1>1. /\ stage \in {"word", "next"} /\ stage' = "end" /\ ret' = ret /\ c1 = "eof" /\ c2 = "eof"
        /\ out' = out /\ user' = user
    BY DEF BothEnd, files
  <1>2. stage \in Reading
    BY <1>1 DEF Reading
  <1>3. out \in Text /\ user \in Text /\ ret \in {"AC", "PE"}
    BY <1>2, FilesRead
  <1>4. /\ InText(out, at1, c1) /\ InText(user, at2, c2)
        /\ WordsUpTo(out, at1 - 1) = WordsUpTo(user, at2 - 1)
        /\ Done1 = at1 - 1 /\ Done2 = at2 - 1
    BY <1>2, WhileReading
  <1>5. at1 - 1 = Len(out) /\ at2 - 1 = Len(user)
    BY <1>1, <1>3, <1>4, CharIs
  <1>6. Words(out) = Words(user)
    <2>1. Words(out) = WordsUpTo(out, Len(out)) /\ Words(user) = WordsUpTo(user, Len(user))
      BY <1>3, WordsTyped
    <2> QED
      BY <1>4, <1>5, <2>1
  <1>7. ASSUME WellFormed(out), WellFormed(user), ret = "AC"
        PROVE  SameLayout(WithoutCR(out), WithoutCR(user))
    <2> DEFINE u == WithoutCR(out)
               v == WithoutCR(user)
    <2>1. LayoutsMatch
      BY <1>2, <1>7 DEF CompareInv, LayoutInv
    <2>2. u = LayoutUpTo(out, Len(out)) /\ v = LayoutUpTo(user, Len(user))
      BY <1>3, LayoutTyped
    <2>3. u = v \/ Continues(v, u) \/ Continues(u, v)
      BY <1>4, <1>5, <2>1, <2>2 DEF LayoutsMatch
    <2>4. u \in Seq(Char)
      <3>1. Len(out) \in 0 .. Len(out)
        BY <1>3, TextIs
      <3> QED
        BY <1>3, <2>2, <3>1, LayoutTyped
    <2>5. Continues(u, u)
      BY <2>4, ContinuesSelf
    <2> HIDE DEF u, v
    <2>6. SameLayout(u, v)
      BY <2>3, <2>5 DEF SameLayout
    <2> QED
      BY <2>6 DEF u, v
  <1>8. ASSUME WellFormed(out), WellFormed(user), ret = "PE"
        PROVE  ~ SameLayout(WithoutCR(out), WithoutCR(user))
    BY <1>2, <1>8 DEF CompareInv, LayoutInv
  <1>9. UNCHANGED files
    BY <1>1 DEF files
  <1>10. WellFormed(out) /\ WellFormed(user) =>
           (ret' = "AC" <=> SameLayout(WithoutCR(out), WithoutCR(user)))
    BY <1>1, <1>3, <1>7, <1>8
  <1>11. ret' \in {"AC", "PE", "WA"} /\ ret' # "WA"
    BY <1>1, <1>3
  <1> QED
    BY <1>1, <1>2, <1>6, <1>9, <1>10, <1>11, EndStep

\* One file has ended and the other goes on with a word.
LEMMA OneLonger ==
  ASSUME NEW s \in Text, NEW t \in Text, NEW i \in 1 .. Len(s), s[i] \notin Space,
         WordsUpTo(s, i - 1) = WordsUpTo(t, Len(t))
  PROVE  /\ Words(s) # Words(t)
         /\ /\ WellFormed(s)
            /\ \/ LayoutUpTo(s, i - 1) = LayoutUpTo(t, Len(t))
               \/ Continues(LayoutUpTo(t, Len(t)), LayoutUpTo(s, i - 1))
            => /\ ~ Continues(WithoutCR(t), WithoutCR(s))
               /\ ~ Continues(WithoutCR(s), WithoutCR(t))
  <1>1. Words(s) # Words(t)
    BY WordsTyped, WordsLonger
  <1>2. ASSUME WellFormed(s),
               \/ LayoutUpTo(s, i - 1) = LayoutUpTo(t, Len(t))
               \/ Continues(LayoutUpTo(t, Len(t)), LayoutUpTo(s, i - 1))
        PROVE  ~ Continues(WithoutCR(t), WithoutCR(s)) /\ ~ Continues(WithoutCR(s), WithoutCR(t))
    <2>1. WithoutCR(t) = LayoutUpTo(t, Len(t))
      BY LayoutTyped
    <2>2. i - 1 \in 0 .. Len(s)
      BY TextIs
    <2>3. LayoutUpTo(s, i - 1) \in Seq(Char)
      BY <2>2, LayoutTyped
    <2>4. Continues(WithoutCR(t), LayoutUpTo(s, i - 1))
      BY <1>2, <2>1, <2>3, ContinuesSelf
    <2> QED
      BY <1>2, <2>4, LayoutLonger
  <1> QED
    BY <1>1, <1>2

\* OneEnds: what is left of the longer file are words.
LEMMA OneEndsStep ==
  ASSUME CompareInv, OneEnds
  PROVE  CompareInv'
  <1>1. /\ stage = "next" /\ stage' = "end" /\ ret' = "WA"
        /\ out' = out /\ user' = user
        /\ c1 # c2 /\ (c1 = "eof" \/ c2 = "eof")
    BY DEF OneEnds, files
  <1>2. stage \in Reading
    BY <1>1 DEF Reading
  <1>3. out \in Text /\ user \in Text /\ ret \in {"AC", "PE"}
    BY <1>2, FilesRead
  <1>4. /\ InText(out, at1, c1) /\ InText(user, at2, c2)
        /\ WordsUpTo(out, at1 - 1) = WordsUpTo(user, at2 - 1)
        /\ Done1 = at1 - 1 /\ Done2 = at2 - 1
    BY <1>2, WhileReading
  <1>5. c1 \notin Space /\ c2 \notin Space
    BY <1>1 DEF CompareInv, BoundariesMatch
  <1>6. UNCHANGED files
    BY <1>1 DEF files
  <1>7. WellFormed(out) /\ WellFormed(user) =>
          /\ ret = "AC" => LayoutsMatch
          /\ ret = "PE" => ~ SameLayout(WithoutCR(out), WithoutCR(user))
    BY <1>2 DEF CompareInv, LayoutInv
  <1>8. CASE c2 = "eof"
    <2>1. at2 - 1 = Len(user)
      BY <1>3, <1>4, <1>8, CharIs
    <2>2. at1 \in 1 .. Len(out) /\ out[at1] = c1
      BY <1>1, <1>3, <1>4, <1>8, CharIs
    <2>3. Words(out) # Words(user)
      BY <1>3, <1>4, <1>5, <2>1, <2>2, OneLonger
    <2>4. ASSUME WellFormed(out), WellFormed(user), ret = "AC"
          PROVE  ~ SameLayout(WithoutCR(out), WithoutCR(user))
      <3>1. \/ LayoutUpTo(out, at1 - 1) = LayoutUpTo(user, Len(user))
            \/ Continues(LayoutUpTo(user, Len(user)), LayoutUpTo(out, at1 - 1))
        BY <1>1, <1>4, <1>7, <1>8, <2>1, <2>4 DEF LayoutsMatch
      <3>2. /\ ~ Continues(WithoutCR(user), WithoutCR(out))
            /\ ~ Continues(WithoutCR(out), WithoutCR(user))
        BY <1>3, <1>4, <1>5, <2>1, <2>2, <2>4, <3>1, OneLonger
      <3> QED
        BY <3>2 DEF SameLayout
    <2>5. WellFormed(out) /\ WellFormed(user) => ~ SameLayout(WithoutCR(out), WithoutCR(user))
      BY <1>3, <1>7, <2>4
    <2> QED
      BY <1>1, <1>2, <1>6, <2>3, <2>5, EndStep
  <1>9. CASE c1 = "eof"
    <2>1. at1 - 1 = Len(out)
      BY <1>3, <1>4, <1>9, CharIs
    <2>2. at2 \in 1 .. Len(user) /\ user[at2] = c2
      BY <1>1, <1>3, <1>4, <1>9, CharIs
    <2>3. Words(user) # Words(out)
      BY <1>3, <1>4, <1>5, <2>1, <2>2, OneLonger
    <2>4. ASSUME WellFormed(out), WellFormed(user), ret = "AC"
          PROVE  ~ SameLayout(WithoutCR(out), WithoutCR(user))
      <3>1. \/ LayoutUpTo(user, at2 - 1) = LayoutUpTo(out, Len(out))
            \/ Continues(LayoutUpTo(out, Len(out)), LayoutUpTo(user, at2 - 1))
        BY <1>1, <1>4, <1>7, <1>9, <2>1, <2>4 DEF LayoutsMatch
      <3>2. /\ ~ Continues(WithoutCR(user), WithoutCR(out))
            /\ ~ Continues(WithoutCR(out), WithoutCR(user))
        BY <1>3, <1>4, <1>5, <2>1, <2>2, <2>4, <3>1, OneLonger
      <3> QED
        BY <3>2 DEF SameLayout
    <2>5. WellFormed(out) /\ WellFormed(user) => ~ SameLayout(WithoutCR(out), WithoutCR(user))
      BY <1>3, <1>7, <2>4
    <2> QED
      BY <1>1, <1>2, <1>6, <2>3, <2>5, EndStep
  <1> QED
    BY <1>1, <1>8, <1>9

\* A 0 is a word of its own.
LEMMA ReadZero ==
  ASSUME NEW t \in Text, NEW at \in 1 .. Len(t), t[at] = "nul"
  PROVE  /\ WordsUpTo(t, at) = Append(WordsUpTo(t, at - 1), <<"nul", TRUE>>)
         /\ LayoutUpTo(t, at) = Append(LayoutUpTo(t, at - 1), "nul")
         /\ AtLine(t, at)
  <1>1. "nul" \notin Space
    BY Letters
  <1>2. Begins(t, at) = TRUE
    BY DEF Begins
  <1>3. WordsUpTo(t, at) = Append(WordsUpTo(t, at - 1), <<t[at], Begins(t, at)>>)
    BY <1>1, WordsStep
  <1>4. LayoutUpTo(t, at) = Append(LayoutUpTo(t, at - 1), t[at])
    BY LayoutStep
  <1>5. AtLine(t, at)
    BY TextIs DEF AtLine
  <1> QED
    BY <1>2, <1>3, <1>4, <1>5

\* NextWord: the next words begin, or after a 0 in both files a "line".
LEMMA NextWordStep ==
  ASSUME CompareInv, NextWord
  PROVE  CompareInv'
  <1>1. /\ stage = "next" /\ c1 # "eof" /\ c2 # "eof"
        /\ stage' = IF c1 \in {"nl", "nul"} /\ c2 \in {"nl", "nul"} THEN "line" ELSE "word"
        /\ out' = out /\ user' = user /\ at1' = at1 /\ at2' = at2 /\ c1' = c1 /\ c2' = c2
        /\ ret' = ret
    BY DEF NextWord, files
  <1>2. stage \in Reading
    BY <1>1 DEF Reading
  <1>3. out \in Text /\ user \in Text /\ ret \in {"AC", "PE"} /\ Readable
    BY <1>2, FilesRead
  <1>4. /\ c1 \notin Space /\ c2 \notin Space
        /\ c1 \in Letter => Fresh(out, at1)
        /\ c2 \in Letter => Fresh(user, at2)
    BY <1>1 DEF CompareInv, BoundariesMatch
  <1>5. CASE stage' = "word"
    <2>1. BoundariesMatch'
      BY <1>1, <1>4, <1>5 DEF BoundariesMatch
    <2>2. stage' \in Reading
      BY <1>5 DEF Reading
    <2>3. UNCHANGED <<files, at1, at2, c1, c2, ret>>
      BY <1>1 DEF files
    <2> QED
      BY <1>2, <2>1, <2>2, <2>3, TurnStep
  <1>6. CASE c1 \in {"nl", "nul"} /\ c2 \in {"nl", "nul"}
    <2>1. c1 = "nul" /\ c2 = "nul" /\ stage' = "line"
      BY <1>1, <1>4, <1>6 DEF Space
    <2>2. /\ InText(out, at1, c1) /\ InText(user, at2, c2)
          /\ WordsUpTo(out, at1 - 1) = WordsUpTo(user, at2 - 1)
      BY <1>2, WhileReading
    <2>3. at1 \in 1 .. Len(out) /\ out[at1] = "nul"
      BY <1>1, <1>3, <2>1, <2>2, CharIs
    <2>4. at2 \in 1 .. Len(user) /\ user[at2] = "nul"
      BY <1>1, <1>3, <2>1, <2>2, CharIs
    <2>5. /\ WordsUpTo(out, at1) = Append(WordsUpTo(out, at1 - 1), <<"nul", TRUE>>)
          /\ LayoutUpTo(out, at1) = Append(LayoutUpTo(out, at1 - 1), "nul")
          /\ AtLine(out, at1)
      BY <1>3, <2>3, ReadZero
    <2>6. /\ WordsUpTo(user, at2) = Append(WordsUpTo(user, at2 - 1), <<"nul", TRUE>>)
          /\ LayoutUpTo(user, at2) = Append(LayoutUpTo(user, at2 - 1), "nul")
          /\ AtLine(user, at2)
      BY <1>3, <2>4, ReadZero
    <2>7. Typed'
      BY <1>1, <1>3, <2>1 DEF Typed, Readable
    <2>8. Placed'
      BY <1>1, <2>1, <2>5, <2>6 DEF Placed, Reading
    <2>9. WordsMatch'
      BY <1>1, <2>1, <2>2, <2>5, <2>6 DEF WordsMatch, Done1, Done2
    <2>10. LayoutInv'
      <3> SUFFICES ASSUME WellFormed(out), WellFormed(user)
                   PROVE  /\ ret' = "AC" => LayoutsMatch'
                          /\ ret' = "PE" => ~ SameLayout(WithoutCR(out), WithoutCR(user))
        BY <1>1 DEF LayoutInv
      <3>1. ret = "PE" => ~ SameLayout(WithoutCR(out), WithoutCR(user))
        BY <1>2 DEF CompareInv, LayoutInv
      <3>2. ASSUME ret = "AC" PROVE LayoutsMatch'
        <4>1. LayoutUpTo(out, at1 - 1) = LayoutUpTo(user, at2 - 1)
          BY <1>1, <1>2, <3>2, SameSoFar
        <4>2. LayoutUpTo(out, at1) = LayoutUpTo(user, at2)
          BY <2>5, <2>6, <4>1
        <4> QED
          BY <1>1, <2>1, <4>2 DEF LayoutsMatch, Done1, Done2
      <3> QED
        BY <1>1, <3>1, <3>2
    <2>11. BoundariesMatch' /\ VerdictRight'
      BY <2>1 DEF BoundariesMatch, VerdictRight
    <2> QED
      BY <2>7, <2>8, <2>9, <2>10, <2>11 DEF CompareInv
  <1> QED
    BY <1>1, <1>5, <1>6

\* Nothing is lost when nothing happens.
LEMMA CompareStutter ==
  ASSUME CompareInv, UNCHANGED compareVars
  PROVE  CompareInv'
  <1>1. /\ out' = out /\ user' = user /\ at1' = at1 /\ at2' = at2
        /\ c1' = c1 /\ c2' = c2 /\ ret' = ret /\ stage' = stage
    BY DEF compareVars
  <1>2. Typed' /\ Placed' /\ WordsMatch' /\ BoundariesMatch'
    BY <1>1 DEF CompareInv, Typed, Placed, WordsMatch, BoundariesMatch, Done1, Done2, Readable
  <1>3. LayoutInv' /\ VerdictRight'
    BY <1>1 DEF CompareInv, LayoutInv, LayoutsMatch, VerdictRight, Done1, Done2, Readable
  <1> QED
    BY <1>2, <1>3 DEF CompareInv

-----------------------------------------------------------------------------
(* The theorems.                                                           *)

\* The invariant holds in every state of every comparison.
THEOREM CompareInvariance == CompareSpec => []CompareInv
  <1>1. CompareInit => CompareInv
    BY CompareInitOK
  <1>2. CompareInv /\ [CompareNext]_compareVars => CompareInv'
    <2> SUFFICES ASSUME CompareInv, [CompareNext]_compareVars PROVE CompareInv'
      OBVIOUS
    <2>1. CASE Open
      BY <2>1, OpenStep
    <2>2. CASE Line
      BY <2>2, LineStep
    <2>3. CASE SkipRest
      BY <2>3, SkipRestStep
    <2>4. CASE CarriageReturn
      BY <2>4, CarriageReturnStep
    <2>5. CASE Blank
      BY <2>5, BlankStep
    <2>6. CASE GapDone
      BY <2>6, GapDoneStep
    <2>7. CASE Same
      BY <2>7, SameStep
    <2>8. CASE Differ
      BY <2>8, DifferStep
    <2>9. CASE LeaveWord
      BY <2>9, LeaveWordStep
    <2>10. CASE BothEnd
      BY <2>10, BothEndStep
    <2>11. CASE OneEnds
      BY <2>11, OneEndsStep
    <2>12. CASE NextWord
      BY <2>12, NextWordStep
    <2>13. CASE UNCHANGED compareVars
      BY <2>13, CompareStutter
    <2> QED
      BY <2>1, <2>2, <2>3, <2>4, <2>5, <2>6, <2>7, <2>8, <2>9, <2>10, <2>11, <2>12, <2>13
         DEF CompareNext, FindNextNonspace
  <1> QED
    BY <1>1, <1>2, PTL DEF CompareSpec

\* For files of any length and any letters, compare calls an answer wrong if and
\* only if its words differ from the expected ones, and of the others accepts
\* exactly those with the same layout.
THEOREM VerdictsRight == CompareSpec => []VerdictRight
  <1>1. CompareInv => VerdictRight
    BY DEF CompareInv
  <1> QED
    BY <1>1, CompareInvariance, PTL
=============================================================================
