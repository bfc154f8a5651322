------------------------------ MODULE RunServer ------------------------------
(***************************************************************************)
(* The server as a whole: the dispatcher of main.go and the goroutines it  *)
(* starts with "go Judge".  Requests are at the same time what the         *)
(* dispatcher queues and the goroutines that judge them; nothing limits    *)
(* how many overlap.  Queue and goroutines share one process: when a       *)
(* goroutine panics, the requests still in memory are gone with it.        *)
(***************************************************************************)
EXTENDS Naturals, Sequences, FiniteSets

CONSTANTS Request, Loop, Free, NoInfo,
          Info, Stored, KnownProblem, WithTests, Similar

VARIABLES queue, lock, tail, hpc, lpc, info, dispatched,
          pc, user, counted, z, fs, simfile, db, solved, crashed

D == INSTANCE Dispatcher
J == INSTANCE Judging WITH Job <- Request, MaxInFlight <- Cardinality(Request)

ASSUME ServerAssumption == D!NamesAssumption /\ J!JudgingAssumption

dispatching == <<queue, lock, tail, hpc, lpc, info, dispatched>>
judging == <<pc, user, counted, z, fs, simfile, db, solved, crashed>>
vars == <<dispatching, judging>>

Init == D!Init /\ J!Init

\* The go statement: the loop goes on, and the goroutine exists.
GoJudge == /\ D!Spawn
           /\ J!Start(info)

JudgeForever == \/ /\ ~ crashed
                   /\ D!IsEmpty \/ D!TakeFront \/ D!TakeRemove \/ D!Sleep
                   /\ UNCHANGED judging
                \/ GoJudge

Handler(r) == /\ ~ crashed
              /\ D!Handler(r)
              /\ UNCHANGED judging

AddQueue(r) == /\ ~ crashed
               /\ D!AddQueue(r)
               /\ UNCHANGED judging

Judge(r) == J!Judge(r) /\ UNCHANGED dispatching

Next == JudgeForever \/ \E r \in Request : Handler(r) \/ AddQueue(r) \/ Judge(r)

\* Handlers that have their request, the loop and the goroutines keep running.
Fairness == /\ WF_vars(JudgeForever)
            /\ \A r \in Request : WF_vars(AddQueue(r)) /\ WF_vars(Judge(r))

Spec == Init /\ [][Next]_vars /\ Fairness

-----------------------------------------------------------------------------
\* Nothing the server has taken over is waiting or being worked on.
Idle == /\ ~ crashed
        /\ queue = <<>>
        /\ D!InHand = <<>>
        /\ J!InFlight = {}

\* When the server is idle, every request it took over has been judged and
\* its solution has a verdict: none was forgotten on the way through list,
\* loop and goroutine (main.go:90-139).
IdleMeansJudged ==
  Idle => \A r \in Request : hpc[r] = "queued" =>
            /\ pc[r] = "done"
            /\ db[Info[r].sid].judge \in J!Settled

\* simfile exists only between some goroutine's sim.sh and its own Remove
\* (judge.go:199-204), whatever the others do and however the dispatcher
\* starts them.
SimfileHasOwner == J!SimfileHasOwner

\* A request whose handler decoded it is judged in the end, as long as no
\* goroutine panics.
EventuallyJudged ==
  \A r \in Request : hpc[r] = "locking" ~> pc[r] = "done" \/ crashed
=============================================================================
