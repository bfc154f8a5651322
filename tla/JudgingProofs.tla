---------------------------- MODULE JudgingProofs ----------------------------
(***************************************************************************)
(* Proofs about Judging, for any solutions, problems, users and requests,  *)
(* as many as there are.                                                   *)
(*                                                                         *)
(* When goroutines do not overlap (MaxInFlight = 1), verdicts and similar  *)
(* solutions are a solution's own, counters are exact, directories are     *)
(* removed, and only requests for what is not there end in a panic.        *)
(* Everything is read off one inductive invariant, SerialInv.  It says     *)
(* where control may be, what the goroutine at work has found out (Own),   *)
(* what it has done to what all share (Shared), and that nobody else has   *)
(* left anything there: directories, simfile, counters that are not exact. *)
(*                                                                         *)
(* However many overlap, simfile has a goroutine that removes it, and who  *)
(* ends has a verdict, of whatever solution: OverlapInv and Settles are    *)
(* what is left of the above, and what RunServerProofs builds on.          *)
(***************************************************************************)
EXTENDS Judging, WellFoundedInduction, NaturalsInduction, FiniteSetTheorems, TLAPS

-----------------------------------------------------------------------------
(* Where a goroutine is.                                                   *)

\* A goroutine at work.
Running == {"init", "match", "setWorkdir", "mkdir", "files", "loginTime", "loginMem", "compile",
            "setRunning", "copyTests", "getStatus", "cleanup", "updateSim", "simPool",
            "simScript", "simRead", "simRemove", "simCleanup", "updateSolution",
            "countProblem", "recordProblem", "countUser", "recordUser"}

\* ... on its directory, with its program, in ZJGSUJudger.Run, in get_sim; with
\* its verdict; and where it need not have been loaded.
WithDir == {"files", "loginTime", "loginMem", "compile", "setRunning", "copyTests", "getStatus"}
Compiled == {"setRunning", "copyTests", "getStatus"}
InRun == WithDir \cup {"setWorkdir", "mkdir", "cleanup"}
InSim == {"simScript", "simRead", "simRemove", "simCleanup"}
InTree == WithDir \cup {"cleanup"} \cup InSim
Judged == {"cleanup", "updateSim", "simPool", "updateSolution", "countProblem",
           "recordProblem", "countUser", "recordUser", "done"} \cup InSim
Unknown == {"waiting", "init", "match", "setWorkdir", "mkdir", "files", "loginTime"}

\* Shapes of the variables.
UserRecord == [sid : Sid \cup {NoSid}, oj : OurTokens \cup {"HDU", "other"},
               judge : Verdict, simid : Sid \cup {NoSid}]

Dir == [root : BOOLEAN, work : BOOLEAN, src : Sid \cup {NoSid}, bin : Sid \cup {NoSid},
        tests : BOOLEAN, main : BOOLEAN, pool : SUBSET Sid]

TreeType == [Sid \cup {NoSid} -> Dir]

PcOK == pc \in [Job -> Running \cup {"waiting", "done"}]
UserOK == user \in [Job -> UserRecord]
TreeOK == fs \in TreeType
FileOK == simfile \in Sid \cup {NoSid}
DbOK == db \in [Sid -> [judge : Verdict, simid : Sid \cup {NoSid}]]
SharedOK == z \in [workdir : Sid \cup {NoSid}, time : Problem \cup {NoProblem},
                   mem : Problem \cup {NoProblem}]
OtherOK == /\ counted = [g \in Job |-> counted[g]]
           /\ solved = [problem |-> [p \in Problem |-> solved.problem[p]],
                        user |-> [u \in User |-> solved.user[u]]]
           /\ crashed \in BOOLEAN

Types == PcOK /\ UserOK /\ TreeOK /\ FileOK /\ DbOK /\ SharedOK /\ OtherOK

\* Goroutines do not overlap.
Alone == \A g, h \in Job : pc[g] \in Running /\ pc[h] \in Running => g = h

\* The verdict that s deserves.
Result(s) == IF Stored[s].outcome # "CE" /\ Stored[s].problem \notin WithTests
             THEN "NA" ELSE Stored[s].outcome

\* What a goroutine has loaded, and what it has found out.
Own(g) ==
  /\ pc[g] \in {"waiting", "init"} => user[g] = Zero
  /\ pc[g] \notin {"waiting", "init"} =>
       IF Info[g].sid \in Sid THEN user[g].sid = Info[g].sid /\ user[g].oj = Info[g].oj
       ELSE user[g].sid = NoSid /\ user[g].oj \in OurTokens
  /\ pc[g] \in InRun => user[g].oj \in OurTokens
  /\ pc[g] \notin Unknown => user[g].sid \in Sid
  /\ pc[g] \in Judged /\ user[g].oj \in OurTokens => user[g].judge = Result(user[g].sid)
  /\ pc[g] \in Compiled => Stored[user[g].sid].outcome # "CE"

\* The oldest similar solution.
Found(s) == {t \in Pool(s) : <<s, t>> \in Similar}
FoundSid(s) == IF Found(s) = {} THEN NoSid ELSE Oldest(Found(s))

\* What it has done to what it shares with the others.
Shared(g) ==
  LET s == user[g].sid
      d == fs[s] IN
  /\ pc[g] \in {"mkdir"} \cup WithDir => z.workdir = s
  /\ pc[g] \in {"loginMem", "compile"} \cup Compiled => z.time = ProblemOf(s)
  /\ pc[g] \in {"compile"} \cup Compiled => z.mem = ProblemOf(s)
  /\ ~ crashed =>
       /\ pc[g] \in WithDir => d.root /\ d.work
       /\ pc[g] \in WithDir \ {"files"} => d.src = s
       /\ pc[g] \in Compiled => d.bin = s
       /\ pc[g] \in WithDir \ {"getStatus"} => ~ d.tests
       /\ pc[g] = "getStatus" => (d.tests <=> ProblemOf(s) \in WithTests)
       /\ pc[g] = "simScript" => d.main /\ d.pool = Pool(s)
  /\ pc[g] = "simRead" => simfile = FoundSid(s)
  /\ pc[g] \in {"simRemove", "simCleanup"} => user[g].simid = FoundSid(s)
  /\ pc[g] = "recordProblem" => counted[g] = SolvedOf(ProblemOf(s))
  /\ pc[g] = "recordUser" => counted[g] = AchievedBy(Stored[s].user)
  /\ pc[g] \in {"countProblem", "recordProblem", "countUser", "recordUser"} =>
       Stored[s].module = "P"

\* Only a goroutine that works in its directory has one.
Trees == \A s \in DOMAIN fs :
           fs[s] # Removed => /\ ~ crashed
                              /\ \E g \in Job : /\ user[g].sid = s
                                                /\ pc[g] \in InTree

\* simfile is there between sim.sh and Remove only.
Simfile == simfile # NoSid => \E g \in Job : pc[g] \in {"simRead", "simRemove"}

\* Counters that a goroutine is about to record.
StaleProblem(p) == \E g \in Job : /\ pc[g] \in Running \ {"countUser", "recordUser"}
                                  /\ user[g].sid \in Sid
                                  /\ Stored[user[g].sid].module = "P"
                                  /\ Stored[user[g].sid].problem = p
StaleUser(u) == \E g \in Job : /\ pc[g] \in Running
                               /\ user[g].sid \in Sid
                               /\ Stored[user[g].sid].module = "P"
                               /\ Stored[user[g].sid].user = u

Records == /\ \A p \in Problem : StaleProblem(p) \/ solved.problem[p] = SolvedOf(p)
           /\ \A u \in User : StaleUser(u) \/ solved.user[u] = AchievedBy(u)

\* The inductive invariant.
SerialInv == /\ Types
             /\ Alone
             /\ \A g \in Job : Own(g) /\ Shared(g)
             /\ Trees
             /\ Simfile
             /\ Records
             /\ PanicHasCause

-----------------------------------------------------------------------------
(* Shapes, and which steps change what.                                    *)

\* The problem of a solution, and the solution sim.sh finds.
LEMMA ProblemType ==
  ASSUME NEW s \in Sid \cup {NoSid}
  PROVE  ProblemOf(s) \in Problem \cup {NoProblem} /\ (s \in Sid => ProblemOf(s) \in Problem)
  BY JudgingAssumption DEF ProblemOf, Problem

\* Numbers have a smallest one.
LEMMA SmallestIn ==
  ASSUME NEW T, T \subseteq Nat, T # {}
  PROVE  \E x \in T : \A y \in T : x <= y
  <1>1. IsWellFoundedOn(OpToRel(<, Nat), Nat)
    BY NatLessThanWellFounded
  <1>2. \E x \in T : \A y \in T : ~ (<<y, x>> \in OpToRel(<, Nat))
    BY <1>1, WFMin
  <1>3. PICK x \in T : \A y \in T : ~ (<<y, x>> \in OpToRel(<, Nat))
    BY <1>2
  <1>4. \A y \in T : ~ (y < x)
    <2> SUFFICES ASSUME NEW y \in T, y < x PROVE FALSE
      OBVIOUS
    <2>1. <<y, x>> \in OpToRel(<, Nat)
      BY DEF OpToRel
    <2> QED
      BY <2>1, <1>3
  <1> QED
    BY <1>4

\* CHOOSE finds the oldest solution of a set, as sim.sh finds the first file.
LEMMA OldestIn ==
  ASSUME NEW S, S \subseteq Sid, S # {}
  PROVE  Oldest(S) \in S
  <1>1. S \subseteq Nat
    BY JudgingAssumption
  <1>2. \E s \in S : \A t \in S : s <= t
    BY <1>1, SmallestIn
  <1> QED
    BY <1>2 DEF Oldest

\* The shapes of the variables.
LEMMA ZeroShape ==
  Zero = [sid |-> NoSid, oj |-> Zero.oj, judge |-> "PD", simid |-> NoSid] /\ Zero.oj \in OurTokens
  BY Zenon DEF Zero, OurTokens

\* Assigning a field of a solution leaves a solution.
LEMMA UserEdits ==
  ASSUME NEW u \in UserRecord
  PROVE  /\ u.sid \in Sid \cup {NoSid}
         /\ \A v \in Verdict : [u EXCEPT !.judge = v] \in UserRecord
         /\ \A s \in Sid \cup {NoSid} : [u EXCEPT !.simid = s] \in UserRecord
  BY DEF UserRecord

\* Creating, filling and removing a directory leaves a directory.
LEMMA DirEdits ==
  ASSUME NEW d \in Dir
  PROVE  /\ Removed \in Dir
         /\ [d EXCEPT !.root = TRUE] \in Dir /\ [d EXCEPT !.work = TRUE] \in Dir
         /\ [d EXCEPT !.tests = TRUE] \in Dir /\ [d EXCEPT !.main = TRUE] \in Dir
         /\ \A t \in Sid \cup {NoSid} : [d EXCEPT !.src = t] \in Dir /\ [d EXCEPT !.bin = t] \in Dir
         /\ \A P \in SUBSET Sid : [d EXCEPT !.pool = P] \in Dir
  BY DEF Dir, Removed

\* The same within the tree.
LEMMA TreeEdits ==
  ASSUME NEW f \in TreeType, NEW s \in Sid \cup {NoSid}
  PROVE  /\ [f EXCEPT ![s] = Removed] \in TreeType
         /\ [f EXCEPT ![s].root = TRUE] \in TreeType
         /\ [f EXCEPT ![s].work = TRUE] \in TreeType
         /\ [f EXCEPT ![s].tests = TRUE] \in TreeType
         /\ [f EXCEPT ![s].main = TRUE] \in TreeType
         /\ \A t \in Sid \cup {NoSid} : /\ [f EXCEPT ![s].src = t] \in TreeType
                                        /\ [f EXCEPT ![s].bin = t] \in TreeType
         /\ \A P \in SUBSET Sid : [f EXCEPT ![s].pool = P] \in TreeType
  <1>1. \A d \in Dir : [f EXCEPT ![s] = d] \in TreeType
    BY DEF TreeType
  <1>2. f[s] \in Dir
    BY DEF TreeType
  <1> QED
    BY <1>1, <1>2, DirEdits

\* Which steps change what is shared.
LEMMA Writers ==
  ASSUME NEW g \in Job, Judge(g)
  PROVE  /\ \/ UNCHANGED user
            \/ UserInit(g) \/ Match(g) \/ Compile(g) \/ SetRunning(g) \/ GetStatus(g)
            \/ UpdateSim(g) \/ SimRead(g)
         /\ \/ UNCHANGED fs
            \/ Mkdir(g) \/ Files(g) \/ LoginTime(g) \/ Compile(g) \/ CopyTests(g) \/ GetStatus(g)
            \/ Cleanup(g) \/ SimPool(g) \/ SimCleanup(g)
         /\ UNCHANGED simfile \/ SimScript(g) \/ SimRemove(g)
         /\ UNCHANGED db \/ SetRunning(g) \/ UpdateSolution(g)
         /\ UNCHANGED z \/ SetWorkdir(g) \/ LoginTime(g) \/ LoginMem(g)
         /\ UNCHANGED counted \/ CountProblem(g) \/ CountUser(g)
         /\ UNCHANGED solved \/ RecordProblem(g) \/ RecordUser(g)
  BY DEF Judge, Run, GetSim, UpdateRecord, UserInit, Match, SetWorkdir, Mkdir, Files, LoginTime,
         LoginMem, Compile, SetRunning, CopyTests, GetStatus, Cleanup, UpdateSim, SimPool,
         SimScript, SimRead, SimRemove, SimCleanup, UpdateSolution, CountProblem, RecordProblem,
         CountUser, RecordUser

\* Whatever a goroutine does, the tree is one.
LEMMA TreeNext ==
  ASSUME Types, NEW g \in Job, Judge(g)
  PROVE  TreeOK'
  <1> USE DEF TreeOK, Types
  <1>1. user[g].sid \in Sid \cup {NoSid} /\ z.workdir \in Sid \cup {NoSid}
    BY UserEdits DEF UserOK, SharedOK
  <1>2. CASE UNCHANGED fs \/ RemoveAll(user[g].sid)
    BY <1>1, <1>2, TreeEdits DEF RemoveAll
  <1>3. CASE Mkdir(g)
    BY <1>1, <1>3, TreeEdits DEF Mkdir
  <1>4. CASE Files(g)
    BY <1>1, <1>4, TreeEdits DEF Files
  <1>5. CASE Compile(g)
    <2> DEFINE w == z.workdir
    <2>1. fs[w].src \in Sid \cup {NoSid}
      BY <1>1 DEF TreeType, Dir
    <2>2. UNCHANGED fs \/ fs' = [fs EXCEPT ![w].bin = fs[w].src]
      BY <1>5 DEF Compile
    <2>3. \A t \in Sid \cup {NoSid} : [fs EXCEPT ![w].bin = t] \in TreeType
      BY <1>1, TreeEdits
    <2> QED
      BY <2>1, <2>2, <2>3
  <1>6. CASE CopyTests(g)
    BY <1>1, <1>6, TreeEdits DEF CopyTests
  <1>7. CASE SimPool(g)
    <2> DEFINE s == user[g].sid
               f == [[fs EXCEPT ![s].root = TRUE] EXCEPT ![s].main = TRUE]
    <2>1. f \in TreeType
      BY <1>1, TreeEdits
    <2>2. f[s].pool \cup Pool(s) \in SUBSET Sid
      BY <1>1, <2>1 DEF TreeType, Dir, Pool, Solved, DbOK
    <2>3. fs' = [f EXCEPT ![s].pool = f[s].pool \cup Pool(s)]
      BY <1>7 DEF SimPool
    <2> QED
      BY <1>1, <2>1, <2>2, <2>3, TreeEdits
  <1> QED
    BY <1>2, <1>3, <1>4, <1>5, <1>6, <1>7, Writers DEF LoginTime, GetStatus, Cleanup, SimCleanup

-----------------------------------------------------------------------------
(* What is true however many goroutines overlap.                           *)

\* Where a goroutine has a verdict that is not yet in the database; where it
\* is on its way to one, having put "running" there; where it has written it.
Deciding == {"cleanup", "updateSim", "simPool", "updateSolution"} \cup InSim
Pending == {"copyTests", "getStatus"} \cup Deciding
Written == {"countProblem", "recordProblem", "countUser", "recordUser", "done"}

\* Who is past Login has loaded a solution; Match lets pass who has loaded one
\* or is ours.
Known(g) == /\ pc[g] = "match" => user[g].sid \in Sid \/ user[g].oj \in OurTokens
            /\ pc[g] \notin Unknown => user[g].sid \in Sid

\* What holds whoever is at work: no tests are copied for the zero solution.
OverlapInv == /\ Types
              /\ Simfile
              /\ ~ fs[NoSid].tests
              /\ \A g \in Job : Known(g)

\* A goroutine whose request is for our judger ends with a verdict, and the
\* database has one unless somebody judges the same solution again.
Settles(g) ==
  /\ pc[g] \notin {"waiting", "init"} =>
       user[g].sid = IF Info[g].sid \in Sid THEN Info[g].sid ELSE NoSid
  /\ pc[g] = "match" => user[g].oj \in OurTokens
  /\ pc[g] \in Deciding => user[g].judge \in Settled
  /\ pc[g] \in Written => \/ db[user[g].sid].judge \in Settled
                          \/ \E h \in Job : user[h].sid = user[g].sid /\ pc[h] \in Pending

\* A step of g is a step of one at work, and of nobody else.
LEMMA StepOfOne ==
  ASSUME Types, NEW g \in Job, Judge(g)
  PROVE  /\ PcOK' /\ crashed' \in BOOLEAN
         /\ pc[g] \in Running /\ pc'[g] \in Running \cup {"done"}
         /\ \A h \in Job \ {g} : pc'[h] = pc[h] /\ user'[h] = user[h]
  <1> PcOK /\ UserOK /\ crashed \in BOOLEAN
    BY DEF Types, OtherOK
  <1> DEFINE Goal == /\ PcOK' /\ crashed' \in BOOLEAN
                     /\ pc[g] \in Running /\ pc'[g] \in Running \cup {"done"}
                     /\ \A h \in Job \ {g} : pc'[h] = pc[h] /\ user'[h] = user[h]
  <1>1. ASSUME NEW from \in Running, NEW to \in Running \cup {"done"},
               Step(g, from, to) \/ Panic(g, from),
               crashed' \in BOOLEAN, user' = user \/ \E u : user' = [user EXCEPT ![g] = u]
        PROVE  Goal
    BY <1>1 DEF Step, Panic, PcOK, UserOK
  <1> SUFFICES Goal
    OBVIOUS
  <1> HIDE DEF Goal
  <1> USE DEF Running
  <1>2. CASE UserInit(g) \/ Match(g) \/ UpdateSim(g) \/ UpdateSolution(g)
    BY <1>1, <1>2 DEF UserInit, Match, UpdateSim, UpdateSolution, SetResult
  <1>3. CASE SetWorkdir(g) \/ Mkdir(g) \/ Files(g) \/ LoginMem(g) \/ Cleanup(g) \/ CopyTests(g)
    BY <1>1, <1>3 DEF SetWorkdir, Mkdir, Files, LoginMem, Cleanup, CopyTests
  <1>4. CASE LoginTime(g)
    BY <1>1, <1>4 DEF LoginTime, Panic
  <1>5. CASE GetStatus(g)
    BY <1>1, <1>5 DEF GetStatus, SetResult, Panic
  <1>6. CASE Compile(g) \/ SetRunning(g)
    BY <1>1, <1>6 DEF Compile, SetRunning, SetResult
  <1>7. CASE GetSim(g)
    BY <1>1, <1>7 DEF GetSim, SimPool, SimScript, SimRead, SimRemove, SimCleanup
  <1>8. CASE UpdateRecord(g)
    BY <1>1, <1>8 DEF UpdateRecord, CountProblem, RecordProblem, CountUser, RecordUser
  <1> QED
    BY <1>2, <1>3, <1>4, <1>5, <1>6, <1>7, <1>8 DEF Judge, Run

\* Whatever is mixed up in the directory runner works on, it prints a verdict.
LEMMA AnyRun ==
  ASSUME OverlapInv
  PROVE  Verdicts(z.workdir) \subseteq Settled
  <1>1. z.workdir \in Sid \cup {NoSid}
    BY DEF OverlapInv, Types, SharedOK
  <1>2. fs[z.workdir].tests => z.workdir \in Sid
    BY <1>1 DEF OverlapInv
  <1>3. z.workdir \in Sid => Stored[z.workdir].outcome \in {"CE", "AC", "WA"}
    BY JudgingAssumption
  <1> QED
    BY <1>2, <1>3 DEF Verdicts, Settled, Verdict

\* The variables keep their shapes, too.
LEMMA TypesOverlap ==
  ASSUME OverlapInv, NEW g \in Job, Judge(g)
  PROVE  Types'
  <1> Types
    BY DEF OverlapInv
  <1>1. UserOK'
    <2> USE DEF UserOK, Types
    <2>1. CASE UserInit(g)
      <3>1. Zero \in UserRecord
        BY ZeroShape DEF UserRecord, Verdict
      <3>2. ASSUME Info[g].sid \in Sid
            PROVE  [sid |-> Info[g].sid, oj |-> Info[g].oj, judge |-> db[Info[g].sid].judge,
                    simid |-> db[Info[g].sid].simid] \in UserRecord
        BY <3>2, JudgingAssumption DEF UserRecord, DbOK
      <3> QED
        BY <2>1, <3>1, <3>2 DEF UserInit
    <2>2. CASE \E v \in Verdict : SetResult(g, v)
      BY <2>2, UserEdits DEF SetResult
    <2>3. CASE UpdateSim(g) \/ SimRead(g)
      BY <2>3, UserEdits DEF UpdateSim, SimRead, FileOK
    <2>4. GetStatus(g) => UNCHANGED user \/ \E v \in Verdict : SetResult(g, v)
      BY AnyRun DEF GetStatus, Settled
    <2> QED
      BY <2>1, <2>2, <2>3, <2>4, Writers DEF Match, Compile, SetRunning, Verdict
  <1>2. FileOK'
    <2>1. CASE SimScript(g)
      <3> DEFINE s == user[g].sid
                 found == {t \in fs[s].pool : fs[s].main /\ <<s, t>> \in Similar}
      <3>1. s \in Sid \cup {NoSid}
        BY UserEdits DEF Types, UserOK
      <3>2. found \subseteq Sid
        BY <3>1 DEF Types, TreeOK, TreeType, Dir
      <3>3. simfile' = IF found = {} THEN simfile ELSE Oldest(found)
        BY <2>1 DEF SimScript
      <3> QED
        BY <3>2, <3>3, OldestIn DEF Types, FileOK
    <2>2. CASE UNCHANGED simfile \/ simfile' = NoSid
      BY <2>2 DEF Types, FileOK
    <2> QED
      BY <2>1, <2>2, Writers DEF SimRemove
  <1>3. DbOK'
    <2> USE DEF Types, DbOK, UserOK, UserRecord
    <2>1. CASE UNCHANGED db
      BY <2>1
    <2>2. CASE SetRunning(g)
      BY <2>2 DEF SetRunning, Verdict
    <2>3. CASE UpdateSolution(g)
      BY <2>3 DEF UpdateSolution
    <2> QED
      BY <2>1, <2>2, <2>3, Writers
  <1>4. SharedOK'
    <2>1. user[g].sid \in Sid \cup {NoSid}
      BY UserEdits DEF Types, UserOK
    <2> USE DEF Types, SharedOK
    <2>2. CASE UNCHANGED z
      BY <2>2
    <2>3. CASE SetWorkdir(g)
      BY <2>1, <2>3 DEF SetWorkdir
    <2>4. CASE LoginTime(g)
      BY <2>1, <2>4, ProblemType DEF LoginTime
    <2>5. CASE LoginMem(g)
      BY <2>1, <2>5, ProblemType DEF LoginMem
    <2> QED
      BY <2>2, <2>3, <2>4, <2>5, Writers
  <1>5. OtherOK'
    <2> USE DEF Types, OtherOK
    <2>1. counted' = [h \in Job |-> counted'[h]]
      BY Writers DEF CountProblem, CountUser
    <2>2. solved' = [problem |-> [p \in Problem |-> solved'.problem[p]],
                     user |-> [u \in User |-> solved'.user[u]]]
      BY Writers DEF RecordProblem, RecordUser
    <2> QED
      BY <2>1, <2>2, StepOfOne
  <1> QED
    BY <1>1, <1>2, <1>3, <1>4, <1>5, StepOfOne, TreeNext DEF Types

\* Every step is taken at one place.
LEMMA Place ==
  ASSUME NEW g \in Job, Judge(g)
  PROVE  \/ pc[g] = "init" /\ UserInit(g)
         \/ pc[g] = "match" /\ Match(g)
         \/ pc[g] = "setWorkdir" /\ SetWorkdir(g)
         \/ pc[g] = "mkdir" /\ Mkdir(g)
         \/ pc[g] = "files" /\ Files(g)
         \/ pc[g] = "loginTime" /\ LoginTime(g)
         \/ pc[g] = "loginMem" /\ LoginMem(g)
         \/ pc[g] = "compile" /\ Compile(g)
         \/ pc[g] = "setRunning" /\ SetRunning(g)
         \/ pc[g] = "copyTests" /\ CopyTests(g)
         \/ pc[g] = "getStatus" /\ GetStatus(g)
         \/ pc[g] = "cleanup" /\ Cleanup(g)
         \/ pc[g] = "updateSim" /\ UpdateSim(g)
         \/ pc[g] = "simPool" /\ SimPool(g)
         \/ pc[g] = "simScript" /\ SimScript(g)
         \/ pc[g] = "simRead" /\ SimRead(g)
         \/ pc[g] = "simRemove" /\ SimRemove(g)
         \/ pc[g] = "simCleanup" /\ SimCleanup(g)
         \/ pc[g] = "updateSolution" /\ UpdateSolution(g)
         \/ pc[g] \in {"countProblem", "recordProblem", "countUser", "recordUser"} /\ UpdateRecord(g)
  <1>1. CASE UserInit(g) \/ Match(g) \/ UpdateSim(g) \/ UpdateSolution(g)
    BY <1>1 DEF UserInit, Match, UpdateSim, UpdateSolution, Step
  <1>2. CASE Run(g)
    BY <1>2 DEF Run, SetWorkdir, Mkdir, Files, LoginTime, LoginMem, Compile, SetRunning, CopyTests,
                GetStatus, Cleanup, Step, Panic
  <1>3. CASE GetSim(g)
    BY <1>3 DEF GetSim, SimPool, SimScript, SimRead, SimRemove, SimCleanup, Step
  <1>4. CASE UpdateRecord(g)
    BY <1>4 DEF UpdateRecord, CountProblem, RecordProblem, CountUser, RecordUser, Step
  <1> QED
    BY <1>1, <1>2, <1>3, <1>4 DEF Judge

\* simfile has a goroutine that will remove it, whoever else is at work.
LEMMA SimfileNext ==
  ASSUME Types, Simfile, NEW g \in Job, Judge(g)
  PROVE  Simfile'
  <1> USE DEF Simfile, Step
  <1>1. CASE SimScript(g)
    BY <1>1 DEF SimScript, Types, PcOK
  <1>2. CASE SimRemove(g)
    BY <1>2 DEF SimRemove
  <1>3. CASE UNCHANGED simfile /\ ~ SimRemove(g)
    <2>1. pc[g] \in {"simRead", "simRemove"} => SimRead(g)
      BY <1>3, Place
    <2>2. SimRead(g) => pc'[g] = "simRemove"
      BY DEF SimRead, Types, PcOK
    <2> QED
      BY <1>3, <2>1, <2>2, StepOfOne
  <1> QED
    BY <1>1, <1>2, <1>3, Writers

\* Only CopyTests brings tests into a directory, and it has loaded a solution.
LEMMA NoTestsNext ==
  ASSUME OverlapInv, NEW g \in Job, Judge(g)
  PROVE  ~ fs'[NoSid].tests
  <1> DEFINE s == user[g].sid
  <1>1. TreeOK /\ fs[NoSid] \in Dir /\ ~ fs[NoSid].tests
    BY DEF OverlapInv, Types, TreeOK, TreeType
  <1>2. s \in Sid \cup {NoSid} /\ z.workdir \in Sid \cup {NoSid}
    BY UserEdits DEF OverlapInv, Types, UserOK, SharedOK
  <1> USE DEF TreeOK, TreeType, Dir
  <1>3. CASE UNCHANGED fs \/ RemoveAll(s)
    BY <1>1, <1>2, <1>3 DEF RemoveAll, Removed
  <1>4. CASE Mkdir(g) \/ Files(g) \/ Compile(g)
    BY <1>1, <1>2, <1>4 DEF Mkdir, Files, Compile
  <1>5. CASE CopyTests(g)
    <2>1. s \in Sid /\ s # NoSid
      BY <1>5, JudgingAssumption DEF CopyTests, Step, OverlapInv, Known, Unknown
    <2> QED
      BY <1>1, <1>5, <2>1 DEF CopyTests
  <1>6. CASE SimPool(g)
    BY <1>1, <1>2, <1>6 DEF SimPool
  <1> QED
    BY <1>3, <1>4, <1>5, <1>6, Writers DEF LoginTime, GetStatus, Cleanup, SimCleanup

\* The solution stays loaded.
LEMMA SidStays ==
  ASSUME Types, NEW g \in Job, Judge(g)
  PROVE  UserInit(g) \/ user'[g].sid = user[g].sid
  <1>1. \/ UNCHANGED user
        \/ UserInit(g) \/ Match(g) \/ Compile(g) \/ SetRunning(g) \/ GetStatus(g)
        \/ UpdateSim(g) \/ SimRead(g)
    BY Writers
  <1> QED
    BY <1>1 DEF Match, Compile, SetRunning, GetStatus, UpdateSim, SimRead, SetResult, Types, UserOK,
                UserRecord

\* Match turns down what is meant for other judges.
LEMMA ForeignTokens == "HDU" \notin OurTokens /\ "other" \notin OurTokens
  BY Zenon DEF OurTokens

\* Nobody gets past Login without one.
LEMMA KnownNext ==
  ASSUME OverlapInv, NEW g \in Job, Judge(g)
  PROVE  Known(g)'
  <1> PcOK /\ UserOK /\ Known(g)
    BY DEF OverlapInv, Types
  <1> USE DEF PcOK, Step, Unknown, Known
  <1>1. CASE UserInit(g)
    BY <1>1, ZeroShape DEF UserInit, UserOK
  <1>2. CASE Match(g)
    <2>1. user'[g].sid = user[g].sid /\ pc'[g] \in {"setWorkdir", "updateSim"}
      BY <1>2, SidStays DEF Match, OverlapInv, UserInit
    <2>2. pc'[g] = "updateSim" => user[g].oj \notin OurTokens
      BY <1>2, ForeignTokens DEF Match
    <2> QED
      BY <1>2, <2>1, <2>2 DEF Match
  <1>3. CASE SetWorkdir(g) \/ Mkdir(g) \/ Files(g)
    BY <1>3 DEF SetWorkdir, Mkdir, Files
  <1>4. CASE LoginTime(g)
    <2>1. ProblemOf(user[g].sid) \in KnownProblem => user[g].sid \in Sid
      <3>1. KnownProblem \subseteq Problem /\ NoProblem \notin Problem
        BY JudgingAssumption DEF Problem
      <3>2. user[g].sid \in Sid \cup {NoSid}
        BY UserEdits DEF UserOK
      <3> QED
        BY <3>1, <3>2 DEF ProblemOf
    <2> QED
      BY <1>4, <2>1 DEF LoginTime, Panic
  <1>5. CASE pc[g] \notin Unknown
    <2>1. ~ UserInit(g) /\ user'[g].sid = user[g].sid /\ user[g].sid \in Sid
      BY <1>5, SidStays DEF UserInit, OverlapInv
    <2> QED
      BY <2>1
  <1> QED
    BY <1>1, <1>2, <1>3, <1>4, <1>5, Place, StepOfOne DEF Running

\* A step of a goroutine at work, whoever else is.
LEMMA OverlapStep ==
  ASSUME OverlapInv, NEW g \in Job, Judge(g)
  PROVE  OverlapInv'
  <1>1. \A h \in Job : Known(h)'
    BY KnownNext, StepOfOne DEF OverlapInv, Known
  <1> QED
    BY <1>1, TypesOverlap, SimfileNext, NoTestsNext DEF OverlapInv

\* A goroutine that starts, however many are at work.
LEMMA OverlapStart ==
  ASSUME OverlapInv, NEW g \in Job, Start(g)
  PROVE  OverlapInv'
  <1>1. /\ pc[g] = "waiting" /\ pc' = [pc EXCEPT ![g] = "init"]
        /\ UNCHANGED <<user, counted, z, fs, simfile, db, solved, crashed>>
    BY DEF Start, Step
  <1>2. Types'
    BY <1>1 DEF OverlapInv, Types, PcOK, UserOK, TreeOK, FileOK, DbOK, SharedOK, OtherOK, Running
  <1>3. \A h \in Job : pc'[h] = (IF h = g THEN "init" ELSE pc[h])
    BY <1>1 DEF OverlapInv, Types, PcOK
  <1>4. Simfile'
    BY <1>1, <1>3 DEF OverlapInv, Simfile
  <1>5. \A h \in Job : Known(h)'
    BY <1>1, <1>3 DEF OverlapInv, Known, Unknown
  <1> QED
    BY <1>1, <1>2, <1>4, <1>5 DEF OverlapInv

\* Nothing happens.
LEMMA OverlapStutter == OverlapInv /\ UNCHANGED vars => OverlapInv'
  <1> SUFFICES ASSUME OverlapInv, UNCHANGED vars PROVE OverlapInv'
    OBVIOUS
  <1> USE DEF vars, OverlapInv
  <1>1. Types'
    BY DEF Types, PcOK, UserOK, TreeOK, FileOK, DbOK, SharedOK, OtherOK
  <1> QED
    BY <1>1 DEF Simfile, Known

\* At the beginning.
LEMMA OverlapInit == Init => OverlapInv
  <1> SUFFICES ASSUME Init PROVE OverlapInv
    OBVIOUS
  <1> USE DEF Init
  <1>1. Zero \in UserRecord
    BY ZeroShape DEF UserRecord, Verdict
  <1>2. Removed \in Dir /\ ~ Removed.tests
    BY DEF Removed, Dir
  <1>3. Types
    BY <1>1, <1>2 DEF Types, PcOK, UserOK, TreeOK, TreeType, FileOK, DbOK, SharedOK, OtherOK,
                      ExactRecords, Verdict
  <1> QED
    BY <1>2, <1>3 DEF OverlapInv, Simfile, Known, Unknown

\* What a goroutine for our judger has decided, after its step.
LEMMA OwnSettles ==
  ASSUME OverlapInv, NEW g \in Job, Info[g].oj \in OurTokens, Settles(g), Judge(g)
  PROVE  Settles(g)'
  <1> DEFINE s == user[g].sid
  <1> PcOK /\ UserOK /\ Types
    BY DEF OverlapInv, Types
  <1>0. UserInit(g) \/ user'[g].sid = s
    BY SidStays
  <1> USE DEF PcOK, UserOK, UserRecord, Step, Deciding, Pending, Written, InSim, Settles
  <1>1. CASE UserInit(g)
    BY <1>1, ZeroShape DEF UserInit
  <1>2. CASE Match(g)
    BY <1>0, <1>2, ForeignTokens DEF Match, UserInit
  <1>3. CASE SetWorkdir(g) \/ Mkdir(g) \/ Files(g) \/ LoginMem(g)
    BY <1>3 DEF SetWorkdir, Mkdir, Files, LoginMem
  <1>4. CASE LoginTime(g)
    BY <1>4 DEF LoginTime, Panic
  <1>5. CASE Compile(g)
    BY <1>5 DEF Compile, SetResult, Settled, Verdict
  <1>6. CASE SetRunning(g) \/ CopyTests(g) \/ Cleanup(g)
    BY <1>6 DEF SetRunning, CopyTests, Cleanup, SetResult
  <1>7. CASE GetStatus(g)
    BY <1>7, AnyRun DEF GetStatus, SetResult, Panic
  <1>8. CASE UpdateSim(g) \/ GetSim(g)
    BY <1>8 DEF UpdateSim, GetSim, SimPool, SimScript, SimRead, SimRemove, SimCleanup
  <1>9. CASE UpdateSolution(g)
    <2>1. s \in Sid
      BY <1>9 DEF UpdateSolution, OverlapInv, Known, Unknown
    <2> QED
      BY <1>9, <2>1 DEF UpdateSolution, Types, DbOK
  <1>10. CASE UpdateRecord(g)
    BY <1>10, StepOfOne DEF UpdateRecord, CountProblem, RecordProblem, CountUser, RecordUser
  <1> QED
    BY <1>1, <1>2, <1>3, <1>4, <1>5, <1>6, <1>7, <1>8, <1>9, <1>10 DEF Judge, Run

\* Who has judged a solution loses its verdict only to somebody who is about to
\* write another one.
LEMMA OthersSettle ==
  ASSUME OverlapInv, NEW g \in Job, Settles(g), Judge(g), NEW h \in Job \ {g}, Settles(h)
  PROVE  Settles(h)'
  <1> DEFINE s == user[h].sid
             Waits(k) == user[k].sid = s /\ pc[k] \in Pending
  <1>1. pc'[h] = pc[h] /\ user'[h] = user[h] /\ PcOK'
    BY StepOfOne DEF OverlapInv
  <1>2. SUFFICES ASSUME pc[h] \in Written
                 PROVE  db'[s].judge \in Settled \/ \E k \in Job : Waits(k)'
    BY <1>1 DEF Settles
  <1>3. s \in Sid
    BY <1>2 DEF OverlapInv, Known, Unknown, Written
  <1>4. PcOK /\ UserOK /\ DbOK
    BY DEF OverlapInv, Types
  <1>5. ASSUME NEW k \in Job, k # g, Waits(k) PROVE \E j \in Job : Waits(j)'
    BY <1>1, <1>5, StepOfOne DEF OverlapInv
  \* A new result, and what it means for s.
  <1>6. CASE SetRunning(g)
    <2>1. pc'[g] = "copyTests" /\ user'[g].sid = user[g].sid
      BY <1>4, <1>6 DEF SetRunning, Step, SetResult, PcOK, UserOK, UserRecord
    <2>2. CASE user[g].sid = s
      BY <1>1, <2>1, <2>2 DEF Pending
    <2>3. CASE user[g].sid # s
      <3>1. db'[s] = db[s] /\ pc[g] = "setRunning"
        BY <1>3, <1>4, <1>6, <2>3 DEF SetRunning, DbOK, Step
      <3> QED
        BY <1>2, <1>5, <2>3, <3>1 DEF Settles
    <2> QED
      BY <2>2, <2>3
  <1>7. CASE UpdateSolution(g)
    <2>1. pc[g] = "updateSolution"
      BY <1>7 DEF UpdateSolution, Step
    <2>2. CASE user[g].sid = s
      <3>1. db'[s].judge = user[g].judge
        BY <1>3, <1>4, <1>7, <2>2 DEF UpdateSolution, DbOK
      <3> QED
        BY <2>1, <3>1 DEF Settles, Deciding
    <2>3. CASE user[g].sid # s
      <3>1. db'[s] = db[s]
        BY <1>3, <1>4, <1>7, <2>3 DEF UpdateSolution, DbOK
      <3> QED
        BY <1>2, <1>5, <2>3, <3>1 DEF Settles
    <2> QED
      BY <2>2, <2>3
  <1>8. CASE UNCHANGED db /\ ~ UpdateSolution(g)
    <2>1. Waits(g) => pc'[g] \in Pending /\ user'[g].sid = user[g].sid
      <3>1. Waits(g) => user'[g].sid = user[g].sid
        BY SidStays DEF UserInit, Step, OverlapInv, Pending, Deciding, InSim
      <3>2. Waits(g) => pc'[g] \in Pending
        BY <1>4, <1>8, Place
           DEF Pending, Deciding, InSim, PcOK, CopyTests, GetStatus, Cleanup, UpdateSim, SimPool,
               SimScript, SimRead, SimRemove, SimCleanup, Step, Panic
      <3> QED
        BY <3>1, <3>2
    <2> QED
      BY <1>1, <1>2, <1>5, <1>8, <2>1 DEF Settles
  <1> QED
    BY <1>6, <1>7, <1>8, Writers

\* The three together, and a goroutine that starts.
LEMMA SettlesStep ==
  ASSUME OverlapInv, \A g \in Job : Info[g].oj \in OurTokens, \A g \in Job : Settles(g),
         UNCHANGED vars \/ \E g \in Job : Start(g) \/ Judge(g)
  PROVE  \A g \in Job : Settles(g)'
  <1>1. CASE UNCHANGED vars
    BY <1>1 DEF vars, Settles
  <1>2. ASSUME NEW g \in Job, Start(g) PROVE \A h \in Job : Settles(h)'
    <2>1. /\ UNCHANGED <<user, db>> /\ pc[g] = "waiting"
          /\ \A h \in Job : pc'[h] = (IF h = g THEN "init" ELSE pc[h])
      BY <1>2 DEF Start, Step, OverlapInv, Types, PcOK
    <2> QED
      BY <2>1 DEF Settles, Deciding, Pending, Written, InSim
  <1>3. ASSUME NEW g \in Job, Judge(g) PROVE \A h \in Job : Settles(h)'
    BY <1>3, OwnSettles, OthersSettle
  <1> QED
    BY <1>1, <1>2, <1>3

\* At the beginning nobody has judged anything.
LEMMA SettlesInit == Init => \A g \in Job : Settles(g)
  BY DEF Init, Settles, Deciding, Written, InSim

-----------------------------------------------------------------------------
(* What one step of one goroutine leaves alone.                            *)

\* InFlight names the same goroutines by what they are not.
LEMMA InFlightRunning == Types => InFlight = {g \in Job : pc[g] \in Running}
  BY DEF Types, PcOK, InFlight, Running

\* With room for one, a goroutine starts when there is none.
LEMMA StartsAlone ==
  ASSUME MaxInFlight = 1, Types, Alone, Cardinality(InFlight) < MaxInFlight
  PROVE  InFlight = {}
  <1> SUFFICES ASSUME NEW g \in InFlight PROVE FALSE
    OBVIOUS
  <1>1. InFlight = {g}
    BY InFlightRunning DEF Alone
  <1>2. Cardinality({g}) = 1
    BY FS_Singleton
  <1> QED
    BY <1>1, <1>2

\* g goes on, and nobody else does.
Moves(g, to) == /\ ~ crashed /\ crashed' = crashed
                /\ pc[g] \in Running
                /\ to \in Running \cup {"done"}
                /\ pc' = [pc EXCEPT ![g] = to]
                /\ \A h \in Job \ {g} : user'[h] = user[h]

\* Nobody else is at work, so nothing is said of the others that could change.
LEMMA OthersStay ==
  ASSUME SerialInv, NEW g \in Job, NEW to, Moves(g, to)
  PROVE  /\ Alone'
         /\ \A h \in Job \ {g} : Own(h)' /\ Shared(h)'
         /\ \A h \in Job \ {g} : pc[h] \notin Running
  <1> USE DEF Moves
  <1>1. pc \in [Job -> Running \cup {"waiting", "done"}]
    BY DEF SerialInv, Types, PcOK
  <1>2. ASSUME NEW h \in Job \ {g} PROVE pc'[h] = pc[h] /\ pc[h] \in {"waiting", "done"}
    BY <1>1, <1>2 DEF SerialInv, Alone
  <1>3. Alone'
    BY <1>1, <1>2 DEF Alone, Running
  <1>4. ASSUME NEW h \in Job \ {g} PROVE Own(h)'
    BY <1>2, <1>4 DEF SerialInv, Own, Judged, InRun, WithDir, Compiled, InSim, Unknown
  <1>5. ASSUME NEW h \in Job \ {g} PROVE Shared(h)'
    BY <1>2, <1>5 DEF Shared, WithDir, Compiled
  <1>6. \A h \in Job \ {g} : pc[h] \notin Running
    BY <1>2 DEF Running
  <1> QED
    BY <1>3, <1>4, <1>5, <1>6

\* The directories of others are not there.
LEMMA TreesKept ==
  ASSUME SerialInv, NEW g \in Job, NEW to, Moves(g, to),
         user'[g].sid = user[g].sid,
         DOMAIN fs' = DOMAIN fs,
         \A s \in DOMAIN fs \ {user[g].sid} : fs'[s] = fs[s],
         fs'[user[g].sid] = Removed \/ to \in InTree
  PROVE  Trees'
  <1> SUFFICES ASSUME NEW s \in DOMAIN fs, fs'[s] # Removed
               PROVE  ~ crashed' /\ \E h \in Job : user'[h].sid = s /\ pc'[h] \in InTree
    BY DEF Trees
  <1>1. InTree \subseteq Running
    BY DEF InTree, WithDir, InSim, Running
  <1>2. pc'[g] = to
    BY DEF Moves, SerialInv, Types, PcOK
  <1>3. s = user[g].sid
    BY <1>1, OthersStay DEF SerialInv, Trees
  <1> QED
    BY <1>2, <1>3 DEF Moves

\* A new result of s concerns no other problem and no other user, and none
\* at all when s belongs to a contest.
LEMMA SolvedSame ==
  ASSUME Types, NEW s \in Sid, NEW x, db' = [db EXCEPT ![s] = x], NEW p,
         Stored[s].module # "P" \/ Stored[s].problem # p
  PROVE  SolvedOf(p)' = SolvedOf(p)
  <1>1. {t \in Solved(db') : Stored[t].problem = p /\ Stored[t].module = "P"}
          = {t \in Solved(db) : Stored[t].problem = p /\ Stored[t].module = "P"}
    BY DEF Types, DbOK, Solved
  <1> QED
    BY <1>1 DEF SolvedOf

\* The same of what a user achieved.
LEMMA AchievedSame ==
  ASSUME Types, NEW s \in Sid, NEW x, db' = [db EXCEPT ![s] = x], NEW u,
         Stored[s].module # "P" \/ Stored[s].user # u
  PROVE  AchievedBy(u)' = AchievedBy(u)
  <1>1. {t \in Solved(db') : Stored[t].user = u /\ Stored[t].module = "P"}
          = {t \in Solved(db) : Stored[t].user = u /\ Stored[t].module = "P"}
    BY DEF Types, DbOK, Solved
  <1> QED
    BY <1>1 DEF AchievedBy

\* As long as it is not done, what g counts stays stale.
LEMMA RecordsKept ==
  ASSUME SerialInv, UNCHANGED <<db, solved>>,
         \A p \in Problem : StaleProblem(p) => StaleProblem(p)',
         \A u \in User : StaleUser(u) => StaleUser(u)'
  PROVE  Records'
  BY DEF SerialInv, Records, SolvedOf, AchievedBy

\* What runner says of a solution is said of its own code, with its own tests
\* and limits.
LEMMA OwnRun ==
  ASSUME SerialInv, NEW g \in Job, pc[g] = "getStatus", ~ crashed
  PROVE  /\ z.workdir = user[g].sid /\ user[g].sid \in Sid
         /\ fs[z.workdir].work
         /\ Verdicts(z.workdir) = {Result(user[g].sid)}
         /\ Result(user[g].sid) \in {"AC", "WA", "NA"}
  <1>1. user[g].sid \in Sid /\ Stored[user[g].sid].outcome # "CE"
    BY DEF SerialInv, Own, Unknown, Compiled
  <1>2. /\ z.workdir = user[g].sid
        /\ z.time = ProblemOf(user[g].sid) /\ z.mem = ProblemOf(user[g].sid)
        /\ fs[user[g].sid].work /\ fs[user[g].sid].bin = user[g].sid
        /\ (fs[user[g].sid].tests <=> ProblemOf(user[g].sid) \in WithTests)
    BY DEF SerialInv, Shared, WithDir, Compiled
  <1>3. user[g].sid # NoSid /\ Stored[user[g].sid].outcome \in {"AC", "WA"}
    BY <1>1, JudgingAssumption
  <1> QED
    BY <1>1, <1>2, <1>3 DEF Verdicts, Result, ProblemOf

\* The way g goes: every step is taken at one place, and all but a panic in
\* Login lead to the next.
LEMMA Control ==
  ASSUME SerialInv, NEW g \in Job, Judge(g)
  PROVE  \/ pc[g] = "init" /\ UserInit(g) /\ Moves(g, "match")
         \/ pc[g] = "match" /\ Match(g) /\ (Moves(g, "setWorkdir") \/ Moves(g, "updateSim"))
         \/ pc[g] = "setWorkdir" /\ SetWorkdir(g) /\ Moves(g, "mkdir")
         \/ pc[g] = "mkdir" /\ Mkdir(g) /\ Moves(g, "files")
         \/ pc[g] = "files" /\ Files(g) /\ Moves(g, "loginTime")
         \/ pc[g] = "loginTime" /\ LoginTime(g) /\ (Moves(g, "loginMem") \/ Panic(g, "loginTime"))
         \/ pc[g] = "loginMem" /\ LoginMem(g) /\ Moves(g, "compile")
         \/ pc[g] = "compile" /\ Compile(g) /\ (Moves(g, "setRunning") \/ Moves(g, "cleanup"))
         \/ pc[g] = "setRunning" /\ SetRunning(g) /\ Moves(g, "copyTests")
         \/ pc[g] = "copyTests" /\ CopyTests(g) /\ Moves(g, "getStatus")
         \/ pc[g] = "getStatus" /\ GetStatus(g) /\ Moves(g, "cleanup")
         \/ pc[g] = "cleanup" /\ Cleanup(g) /\ Moves(g, "updateSim")
         \/ pc[g] = "updateSim" /\ UpdateSim(g) /\ (Moves(g, "simPool") \/ Moves(g, "updateSolution"))
         \/ pc[g] = "simPool" /\ SimPool(g) /\ Moves(g, "simScript")
         \/ pc[g] = "simScript" /\ SimScript(g) /\ Moves(g, "simRead")
         \/ pc[g] = "simRead" /\ SimRead(g) /\ Moves(g, "simRemove")
         \/ pc[g] = "simRemove" /\ SimRemove(g) /\ Moves(g, "simCleanup")
         \/ pc[g] = "simCleanup" /\ SimCleanup(g) /\ Moves(g, "updateSolution")
         \/ pc[g] = "updateSolution" /\ UpdateSolution(g) /\ (Moves(g, "countProblem") \/ Moves(g, "done"))
         \/ pc[g] = "countProblem" /\ CountProblem(g) /\ Moves(g, "recordProblem")
         \/ pc[g] = "recordProblem" /\ RecordProblem(g) /\ Moves(g, "countUser")
         \/ pc[g] = "countUser" /\ CountUser(g) /\ Moves(g, "recordUser")
         \/ pc[g] = "recordUser" /\ RecordUser(g) /\ Moves(g, "done")
  <1> PcOK /\ UserOK /\ pc[g] \in Running \cup {"waiting", "done"}
    BY DEF SerialInv, Types, PcOK
  <1>1. ASSUME NEW from, NEW to \in Running \cup {"done"}, from \in Running, Step(g, from, to),
               UNCHANGED crashed, user' = user \/ \E u : user' = [user EXCEPT ![g] = u]
        PROVE  pc[g] = from /\ Moves(g, to)
    BY <1>1 DEF Moves, Step, UserOK
  <1> USE DEF Running
  <1>2. CASE UserInit(g) \/ Match(g) \/ UpdateSim(g) \/ UpdateSolution(g)
    BY <1>1, <1>2 DEF UserInit, Match, UpdateSim, UpdateSolution, SetResult
  <1>3. CASE SetWorkdir(g) \/ Mkdir(g) \/ Files(g) \/ LoginMem(g) \/ Cleanup(g) \/ CopyTests(g)
    BY <1>1, <1>3 DEF SetWorkdir, Mkdir, Files, LoginMem, Cleanup, CopyTests
  <1>4. CASE LoginTime(g)
    BY <1>1, <1>4 DEF LoginTime, Panic
  <1>5. CASE GetStatus(g)
    BY <1>1, <1>5, OwnRun DEF GetStatus, SetResult, Panic
  <1>6. CASE Compile(g) \/ SetRunning(g)
    BY <1>1, <1>6 DEF Compile, SetRunning, SetResult
  <1>7. CASE GetSim(g)
    <2>1. CASE SimPool(g) \/ SimScript(g)
      BY <1>1, <2>1 DEF SimPool, SimScript
    <2>2. CASE SimRead(g) \/ SimRemove(g)
      BY <1>1, <2>2 DEF SimRead, SimRemove
    <2>3. CASE SimCleanup(g)
      BY <1>1, <2>3 DEF SimCleanup
    <2> QED
      BY <1>7, <2>1, <2>2, <2>3 DEF GetSim
  <1>8. CASE UpdateRecord(g)
    <2>1. CASE CountProblem(g)
      BY <1>1, <2>1 DEF CountProblem
    <2>2. CASE RecordProblem(g)
      BY <1>1, <2>2 DEF RecordProblem
    <2>3. CASE CountUser(g)
      BY <1>1, <2>3 DEF CountUser
    <2>4. CASE RecordUser(g)
      BY <1>1, <2>4 DEF RecordUser
    <2> QED
      BY <1>8, <2>1, <2>2, <2>3, <2>4 DEF UpdateRecord
  <1> QED
    BY <1>2, <1>3, <1>4, <1>5, <1>6, <1>7, <1>8 DEF Judge, Run

\* The same in short.
LEMMA JudgeMoves ==
  ASSUME SerialInv, NEW g \in Job, Judge(g)
  PROVE  /\ pc[g] \in Running
         /\ \/ \E to \in Running \cup {"done"} : Moves(g, to)
            \/ Panic(g, "loginTime") /\ LoginTime(g)
  BY Control DEF Running

\* What the goroutine at work knows and has done, after its step.
LEMMA OwnNext ==
  ASSUME SerialInv, NEW g \in Job, Judge(g)
  PROVE  Own(g)'
  <1> Own(g) /\ PcOK /\ UserOK
    BY DEF SerialInv, Types
  <1> USE DEF Own, PcOK, UserOK, UserRecord, Step, InRun, WithDir, Compiled, Judged, InSim, Unknown
  <1>1. CASE UserInit(g)
    BY <1>1, ZeroShape DEF UserInit
  <1>2. CASE Match(g)
    BY <1>2, ForeignTokens DEF Match, SetResult
  <1>3. CASE SetWorkdir(g) \/ Mkdir(g) \/ Files(g)
    BY <1>3 DEF SetWorkdir, Mkdir, Files
  <1>4. CASE LoginTime(g)
    <2>1. KnownProblem \subseteq Problem /\ NoProblem \notin Problem
      BY JudgingAssumption DEF Problem
    <2> QED
      BY <1>4, <2>1 DEF LoginTime, Panic, ProblemOf
  <1>5. CASE LoginMem(g) \/ CopyTests(g) \/ Cleanup(g)
    BY <1>5 DEF LoginMem, CopyTests, Cleanup
  <1>6. CASE Compile(g)
    <2>1. z.workdir = user[g].sid /\ fs[user[g].sid].src = user[g].sid
      BY <1>6 DEF Compile, SerialInv, Shared
    <2>2. user[g].sid \in Sid /\ user[g].sid # NoSid
      BY <1>6, JudgingAssumption DEF Compile
    <2>3. Compiles(z.workdir) <=> Stored[user[g].sid].outcome # "CE"
      BY <2>1, <2>2 DEF Compiles
    <2>4. Stored[user[g].sid].outcome = "CE" => Result(user[g].sid) = "CE"
      BY DEF Result
    <2> QED
      BY <1>6, <2>2, <2>3, <2>4 DEF Compile, SetResult
  <1>7. CASE SetRunning(g)
    BY <1>7 DEF SetRunning, SetResult
  <1>8. CASE GetStatus(g)
    <2>1. SetResult(g, Result(user[g].sid)) /\ Step(g, "getStatus", "cleanup")
      BY <1>8, OwnRun DEF GetStatus, Panic
    <2> QED
      BY <2>1 DEF SetResult
  <1>9. CASE UpdateSim(g)
    BY <1>9 DEF UpdateSim
  <1>10. CASE GetSim(g)
    BY <1>10 DEF GetSim, SimPool, SimScript, SimRead, SimRemove, SimCleanup
  <1>11. CASE UpdateSolution(g) \/ UpdateRecord(g)
    BY <1>11 DEF UpdateSolution, UpdateRecord, CountProblem, RecordProblem, CountUser, RecordUser
  <1> QED
    BY <1>1, <1>2, <1>3, <1>4, <1>5, <1>6, <1>7, <1>8, <1>9, <1>10, <1>11 DEF Judge, Run

\* One after the other is a way to overlap.
LEMMA SerialIsOverlap == SerialInv => OverlapInv
  <1> SUFFICES ASSUME SerialInv PROVE OverlapInv
    OBVIOUS
  <1>1. Types /\ Simfile /\ \A g \in Job : Own(g) /\ Shared(g)
    BY DEF SerialInv
  <1>2. \A g \in Job : Known(g)
    BY <1>1 DEF Own, Known, Unknown
  <1>3. CASE fs[NoSid] = Removed
    BY <1>1, <1>2, <1>3 DEF OverlapInv, Removed
  <1>4. CASE fs[NoSid] # Removed
    <2>1. NoSid \in DOMAIN fs /\ NoSid \notin Sid
      BY <1>1, JudgingAssumption DEF Types, TreeOK, TreeType
    <2>2. PICK g \in Job : ~ crashed /\ user[g].sid = NoSid /\ pc[g] \in InTree
      BY <1>4, <2>1 DEF SerialInv, Trees
    <2>3. pc[g] \in {"files", "loginTime"}
      BY <1>2, <2>1, <2>2 DEF Known, Unknown, InTree, WithDir, InSim
    <2>4. ~ fs[NoSid].tests
      BY <1>1, <2>2, <2>3 DEF Shared, WithDir
    <2> QED
      BY <1>1, <1>2, <2>4 DEF OverlapInv
  <1> QED
    BY <1>3, <1>4

\* What there is of directories is the directory of the goroutine at work.
LEMMA OnlyOwnTree ==
  ASSUME SerialInv, NEW g \in Job, Judge(g), NEW s \in DOMAIN fs, fs[s] # Removed
  PROVE  s = user[g].sid /\ pc[g] \in InTree
  <1>1. pc[g] \in Running
    BY JudgeMoves
  <1>2. InTree \subseteq Running
    BY DEF InTree, WithDir, InSim, Running
  <1> QED
    BY <1>1, <1>2 DEF SerialInv, Trees, Alone

\* What g has done to what is shared.
LEMMA SharedNext ==
  ASSUME SerialInv, NEW g \in Job, Judge(g)
  PROVE  Shared(g)'
  <1> DEFINE s == user[g].sid
  <1> Shared(g) /\ PcOK /\ UserOK /\ TreeOK
    BY DEF SerialInv, Types
  <1>1. s \in Sid \cup {NoSid}
    BY UserEdits DEF UserOK
  <1>2. fs[s] = Removed \/ pc[g] \in InTree
    BY <1>1, OnlyOwnTree DEF TreeOK, TreeType
  <1> USE DEF Shared, PcOK, UserOK, UserRecord, Step, WithDir, Compiled
  <1>3. CASE UserInit(g) \/ Match(g)
    BY <1>3 DEF UserInit, Match
  <1>4. CASE SetWorkdir(g)
    BY <1>4 DEF SetWorkdir, SerialInv, Types, SharedOK
  <1>5. CASE Mkdir(g)
    BY <1>1, <1>2, <1>5 DEF Mkdir, TreeOK, TreeType, Dir, Removed, InTree, InSim
  <1>6. CASE Files(g)
    BY <1>1, <1>6 DEF Files, TreeOK, TreeType, Dir
  <1>7. CASE LoginTime(g) \/ LoginMem(g)
    BY <1>7 DEF LoginTime, LoginMem, Panic, SerialInv, Types, SharedOK
  <1>8. CASE Compile(g)
    BY <1>1, <1>8 DEF Compile, SetResult, TreeOK, TreeType, Dir
  <1>9. CASE SetRunning(g)
    BY <1>9 DEF SetRunning, SetResult
  <1>10. CASE CopyTests(g)
    <2>1. /\ user' = user /\ UNCHANGED <<z, crashed>> /\ pc'[g] = "getStatus" /\ fs[s].root
          /\ pc[g] = "copyTests"
      BY <1>10 DEF CopyTests
    <2>2. /\ fs'[s].root /\ fs'[s].work /\ fs'[s].src = fs[s].src /\ fs'[s].bin = fs[s].bin
          /\ fs'[s].tests <=> ProblemOf(s) \in WithTests
      BY <1>1, <1>10, <2>1 DEF CopyTests, TreeOK, TreeType, Dir
    <2> QED
      BY <2>1, <2>2 DEF ProblemOf
  <1>11. CASE GetStatus(g) \/ Cleanup(g) \/ UpdateSim(g)
    BY <1>11 DEF GetStatus, Cleanup, UpdateSim, SetResult, Panic
  <1>12. CASE SimPool(g)
    BY <1>1, <1>2, <1>12 DEF SimPool, TreeOK, TreeType, Dir, Removed, InTree, InSim, Pool
  <1>13. CASE SimScript(g)
    BY <1>13 DEF SimScript, SerialInv, Simfile, Alone, Running, Found, FoundSid, Pool
  <1>14. CASE SimRead(g) \/ SimRemove(g) \/ SimCleanup(g)
    <2>1. user'[g].sid = user[g].sid /\ UNCHANGED <<db, crashed>>
      BY <1>14 DEF SimRead, SimRemove, SimCleanup
    <2>2. FoundSid(user[g].sid)' = FoundSid(user[g].sid)
      BY <2>1 DEF FoundSid, Found, Pool
    <2> QED
      BY <1>14, <2>1, <2>2 DEF SimRead, SimRemove, SimCleanup
  <1>15. CASE UpdateSolution(g)
    BY <1>15 DEF UpdateSolution
  <1>16. CASE UpdateRecord(g)
    <2>1. UNCHANGED <<user, db, crashed>> /\ DOMAIN counted = Job
      BY <1>16 DEF UpdateRecord, CountProblem, RecordProblem, CountUser, RecordUser, SerialInv,
                   Types, OtherOK
    <2>2. /\ SolvedOf(ProblemOf(user[g].sid))' = SolvedOf(ProblemOf(user[g].sid))
          /\ AchievedBy(Stored[user[g].sid].user)' = AchievedBy(Stored[user[g].sid].user)
      BY <2>1 DEF SolvedOf, AchievedBy, ProblemOf
    <2> QED
      BY <1>16, <2>1, <2>2
         DEF UpdateRecord, CountProblem, RecordProblem, CountUser, RecordUser
  <1> QED
    BY <1>3, <1>4, <1>5, <1>6, <1>7, <1>8, <1>9, <1>10, <1>11, <1>12, <1>13, <1>14, <1>15, <1>16
       DEF Judge, Run, GetSim

\* Directories: what a goroutine made it removes.
LEMMA TreesNext ==
  ASSUME SerialInv, NEW g \in Job, Judge(g)
  PROVE  Trees'
  <1> DEFINE s == user[g].sid
  <1> PcOK /\ UserOK /\ TreeOK
    BY DEF SerialInv, Types
  <1>1. s \in DOMAIN fs /\ (fs[s] = Removed \/ pc[g] \in InTree)
    BY UserEdits, OnlyOwnTree DEF UserOK, TreeOK, TreeType
  <1>2. /\ DOMAIN fs' = DOMAIN fs
        /\ \A t \in DOMAIN fs \ {s} : fs'[t] = fs[t]
    <2>1. Mkdir(g) \/ Files(g) \/ Compile(g) => z.workdir = s
      BY DEF SerialInv, Shared, WithDir, Mkdir, Files, Compile, Step
    <2> QED
      BY <1>1, <2>1, Writers
         DEF TreeOK, TreeType, Mkdir, Files, LoginTime, Compile, CopyTests, GetStatus, Cleanup,
             SimPool, SimCleanup, RemoveAll
  <1>3. CASE Panic(g, "loginTime") /\ LoginTime(g)
    <2>1. fs' = [fs EXCEPT ![s] = Removed]
      BY <1>3 DEF Panic, LoginTime, Step, RemoveAll
    <2>2. \A t \in DOMAIN fs : fs'[t] = Removed
      BY <1>1, <2>1, OnlyOwnTree
    <2> QED
      BY <1>2, <2>2 DEF Trees
  <1>4. CASE UserInit(g)
    <2>1. \A t \in DOMAIN fs : fs[t] = Removed
      BY <1>4, OnlyOwnTree DEF UserInit, Step, InTree, WithDir, InSim
    <2> QED
      BY <1>4, <2>1 DEF UserInit, Trees
  <1>5. ASSUME ~ UserInit(g), NEW to \in Running \cup {"done"}, Moves(g, to)
        PROVE  Trees'
    <2>1. user'[g].sid = user[g].sid
      <3>1. \/ UNCHANGED user \/ Match(g) \/ Compile(g) \/ SetRunning(g) \/ GetStatus(g)
            \/ UpdateSim(g) \/ SimRead(g)
        BY <1>5, Writers
      <3> QED
        BY <3>1 DEF Match, Compile, SetRunning, GetStatus, UpdateSim, SimRead, SetResult, UserOK,
                    UserRecord
    <2>2. /\ \A x : Moves(g, x) => pc'[g] = x
          /\ ~ Panic(g, "loginTime")
      BY <1>5 DEF Moves, PcOK, Panic
    <2>3. CASE Cleanup(g) \/ SimCleanup(g)
      <3>1. fs'[s] = Removed
        BY <1>1, <2>3 DEF Cleanup, SimCleanup, RemoveAll, TreeOK, TreeType
      <3> QED
        BY <1>2, <1>5, <2>1, <3>1, TreesKept
    <2>4. CASE UNCHANGED fs /\ pc[g] \notin InTree
      BY <1>1, <1>2, <1>5, <2>1, <2>4, TreesKept
    <2>5. \/ Cleanup(g) \/ SimCleanup(g)
          \/ UNCHANGED fs /\ pc[g] \notin InTree
          \/ to \in InTree
      <3>1. pc[g] \notin InTree \cup {"mkdir", "simPool"} => UNCHANGED fs
        BY Writers DEF InTree, WithDir, InSim, Mkdir, Files, LoginTime, Compile, CopyTests,
                       GetStatus, Cleanup, SimPool, SimCleanup, Step, Panic
      <3> QED
        BY <1>5, <2>2, <3>1, Control DEF InTree, WithDir, InSim
    <2> QED
      BY <1>2, <1>5, <2>1, <2>3, <2>4, <2>5, TreesKept
  <1> QED
    BY <1>3, <1>4, <1>5, JudgeMoves

\* Only what g has judged is stale.
LEMMA OwnStale ==
  ASSUME SerialInv, NEW g \in Job, Judge(g)
  PROVE  /\ \A p : StaleProblem(p) <=> /\ user[g].sid \in Sid
                                       /\ Stored[user[g].sid].module = "P"
                                       /\ Stored[user[g].sid].problem = p
                                       /\ pc[g] \notin {"countUser", "recordUser"}
         /\ \A u : StaleUser(u) <=> /\ user[g].sid \in Sid
                                    /\ Stored[user[g].sid].module = "P"
                                    /\ Stored[user[g].sid].user = u
  BY JudgeMoves DEF SerialInv, Alone, StaleProblem, StaleUser

\* The counters: what is not stale is exact.
LEMMA RecordsNext ==
  ASSUME SerialInv, NEW g \in Job, Judge(g)
  PROVE  Records'
  <1> DEFINE s == user[g].sid
  <1> PcOK /\ UserOK /\ Records /\ Types /\ NoSid \notin Sid
    BY JudgingAssumption DEF SerialInv, Types
  <1>1. \A x : Moves(g, x) => pc'[g] = x
    BY DEF Moves, PcOK
  \* A new result.
  <1>2. CASE SetRunning(g) \/ UpdateSolution(g)
    <2>1. s \in Sid /\ user'[g].sid = s /\ UNCHANGED solved
      BY <1>2 DEF SetRunning, UpdateSolution, SetResult, SerialInv, Own, Unknown, Step, UserOK,
                  UserRecord
    <2>2. PICK x : db' = [db EXCEPT ![s] = x]
      BY <1>2 DEF SetRunning, UpdateSolution
    <2>3. Stored[s].module = "P" => pc'[g] \in Running \ {"countUser", "recordUser"}
      BY <1>2 DEF SetRunning, UpdateSolution, Step, PcOK, Running
    <2>4. pc[g] \notin {"countUser", "recordUser"}
      BY <1>2 DEF SetRunning, UpdateSolution, Step
    <2>5. ASSUME NEW p \in Problem PROVE StaleProblem(p)' \/ solved'.problem[p] = SolvedOf(p)'
      <3>1. CASE Stored[s].module = "P" /\ Stored[s].problem = p
        BY <2>1, <2>3, <3>1 DEF StaleProblem
      <3>2. CASE Stored[s].module # "P" \/ Stored[s].problem # p
        <4>1. SolvedOf(p)' = SolvedOf(p)
          BY <2>1, <2>2, <3>2, SolvedSame
        <4>2. solved.problem[p] = SolvedOf(p)
          BY <3>2, OwnStale DEF Records
        <4> QED
          BY <2>1, <4>1, <4>2
      <3> QED
        BY <3>1, <3>2
    <2>6. ASSUME NEW u \in User PROVE StaleUser(u)' \/ solved'.user[u] = AchievedBy(u)'
      <3>1. CASE Stored[s].module = "P" /\ Stored[s].user = u
        BY <2>1, <2>3, <3>1 DEF StaleUser
      <3>2. CASE Stored[s].module # "P" \/ Stored[s].user # u
        <4>1. AchievedBy(u)' = AchievedBy(u)
          BY <2>1, <2>2, <3>2, AchievedSame
        <4>2. solved.user[u] = AchievedBy(u)
          BY <3>2, OwnStale DEF Records
        <4> QED
          BY <2>1, <4>1, <4>2
      <3> QED
        BY <3>1, <3>2
    <2> QED
      BY <2>5, <2>6 DEF Records
  \* What was counted is recorded.
  <1>3. CASE RecordProblem(g)
    <2>1. /\ s \in Sid /\ s # NoSid /\ UNCHANGED <<user, db>>
          /\ pc[g] = "recordProblem" /\ pc'[g] = "countUser"
          /\ Stored[s].module = "P"
          /\ counted[g] = SolvedOf(ProblemOf(s))
      BY <1>3 DEF RecordProblem, SerialInv, Own, Shared, Unknown, Step, PcOK
    <2>2. /\ solved'.user = solved.user
          /\ \A p \in Problem : solved'.problem[p] = IF p = Stored[s].problem THEN SolvedOf(p)
                                                     ELSE solved.problem[p]
      BY <1>3, <2>1 DEF RecordProblem, ProblemOf, Types, OtherOK
    <2>3. \A p : SolvedOf(p)' = SolvedOf(p) /\ AchievedBy(p)' = AchievedBy(p)
      BY <2>1 DEF SolvedOf, AchievedBy
    <2>4. \A u : StaleUser(u) => StaleUser(u)'
      BY <2>1, OwnStale DEF StaleUser, Running
    <2> QED
      BY <2>1, <2>2, <2>3, <2>4, OwnStale DEF Records
  <1>4. CASE RecordUser(g)
    <2>1. /\ s \in Sid /\ s # NoSid /\ UNCHANGED <<user, db>>
          /\ pc[g] = "recordUser"
          /\ Stored[s].module = "P"
          /\ counted[g] = AchievedBy(Stored[s].user)
      BY <1>4 DEF RecordUser, SerialInv, Own, Shared, Unknown, Step, PcOK
    <2>2. /\ solved'.problem = solved.problem
          /\ \A u \in User : solved'.user[u] = IF u = Stored[s].user THEN AchievedBy(u)
                                               ELSE solved.user[u]
      BY <1>4, <2>1 DEF RecordUser, Types, OtherOK
    <2>3. \A p : SolvedOf(p)' = SolvedOf(p) /\ AchievedBy(p)' = AchievedBy(p)
      BY <2>1 DEF SolvedOf, AchievedBy
    <2> QED
      BY <2>1, <2>2, <2>3, OwnStale DEF Records
  \* Counting, and everything else.
  <1>5. CASE UNCHANGED <<db, solved>> /\ Panic(g, "loginTime") /\ LoginTime(g)
    <2>1. UNCHANGED <<pc, user>>
      BY <1>5 DEF Panic, LoginTime, Step
    <2> QED
      BY <1>5, <2>1, RecordsKept DEF StaleProblem, StaleUser
  <1>6. ASSUME UNCHANGED <<db, solved>>, NEW to \in Running \cup {"done"}, Moves(g, to),
               pc[g] # "recordProblem", pc[g] # "recordUser", pc[g] # "updateSolution"
        PROVE  Records'
    <2>1. s \in Sid => user'[g].sid = s
      <3>1. \/ UNCHANGED user \/ Match(g) \/ Compile(g) \/ SetRunning(g) \/ GetStatus(g)
            \/ UpdateSim(g) \/ SimRead(g) \/ UserInit(g)
        BY Writers
      <3>2. UserInit(g) => s = NoSid
        BY ZeroShape DEF UserInit, Step, SerialInv, Own
      <3> QED
        BY <3>1, <3>2 DEF Match, Compile, SetRunning, GetStatus, UpdateSim, SimRead, SetResult,
                          UserOK, UserRecord
    <2>2. pc'[g] \in Running
      BY <1>1, <1>6, Control DEF Running, Panic, Moves
    <2>3. pc'[g] \in {"countUser", "recordUser"} => pc[g] = "countUser"
      BY <1>1, <1>6, Control DEF Panic, Moves
    <2>4. \A p \in Problem : StaleProblem(p) => StaleProblem(p)'
      BY <2>1, <2>2, <2>3, OwnStale DEF StaleProblem
    <2>5. \A u \in User : StaleUser(u) => StaleUser(u)'
      BY <2>1, <2>2, OwnStale DEF StaleUser
    <2> QED
      BY <1>6, <2>4, <2>5, RecordsKept
  <1>7. pc[g] = "recordProblem" => RecordProblem(g)
    BY Control
  <1>8. pc[g] = "recordUser" => RecordUser(g)
    BY Control
  <1>9. pc[g] = "updateSolution" => UpdateSolution(g)
    BY Control
  <1> QED
    BY <1>2, <1>3, <1>4, <1>5, <1>6, <1>7, <1>8, <1>9, Writers, JudgeMoves

\* A goroutine that panics does so in Login, for want of its problem.
LEMMA CauseNext ==
  ASSUME SerialInv, NEW g \in Job, Judge(g)
  PROVE  PanicHasCause'
  <1>1. CASE Panic(g, "loginTime") /\ LoginTime(g)
    <2>1. pc[g] = "loginTime" /\ pc' = pc /\ ProblemOf(user[g].sid) \notin KnownProblem
      BY <1>1 DEF Panic, LoginTime, Step, SerialInv, Types, OtherOK
    <2>2. g \in InFlight'
      BY <2>1 DEF InFlight
    <2>3. Info[g].sid \in Sid => user[g].sid = Info[g].sid
      BY <2>1 DEF SerialInv, Own
    <2> QED
      BY <2>1, <2>2, <2>3 DEF PanicHasCause, ProblemOf
  <1>2. CASE \E to \in Running \cup {"done"} : Moves(g, to)
    BY <1>2 DEF Moves, PanicHasCause
  <1> QED
    BY <1>1, <1>2, JudgeMoves

\* One step of a goroutine at work keeps the invariant.
LEMMA JudgeStep ==
  ASSUME SerialInv, NEW g \in Job, Judge(g)
  PROVE  SerialInv'
  <1>1. Alone' /\ \A h \in Job : Own(h)' /\ Shared(h)'
    <2>1. CASE Panic(g, "loginTime") /\ LoginTime(g)
      <3>1. UNCHANGED <<pc, user>>
        BY <2>1 DEF Panic, LoginTime, Step
      <3>2. Alone'
        BY <3>1 DEF SerialInv, Alone
      <3>3. ASSUME NEW h \in Job, h # g PROVE Own(h)' /\ Shared(h)'
        <4>1. pc[h] \in {"waiting", "done"}
          BY <3>3, JudgeMoves DEF SerialInv, Types, PcOK, Alone
        <4> QED
          BY <3>1, <3>3, <4>1 DEF SerialInv, Own, Shared, WithDir, Compiled
      <3> QED
        BY <3>2, <3>3, OwnNext, SharedNext
    <2>2. CASE \E to \in Running \cup {"done"} : Moves(g, to)
      BY <2>2, OthersStay, OwnNext, SharedNext
    <2> QED
      BY <2>1, <2>2, JudgeMoves
  <1> QED
    BY <1>1, SerialIsOverlap, TypesOverlap, TreesNext, SimfileNext, RecordsNext, CauseNext DEF SerialInv

\* A goroutine starts with nothing, when nobody is at work.
LEMMA StartStep ==
  ASSUME MaxInFlight = 1, SerialInv, NEW g \in Job, Start(g)
  PROVE  SerialInv'
  <1>1. InFlight = {}
    BY StartsAlone DEF Start, SerialInv
  <1>2. \A h \in Job : pc[h] \in {"waiting", "done"}
    BY <1>1 DEF InFlight
  <1>3. /\ pc[g] = "waiting" /\ pc' = [pc EXCEPT ![g] = "init"]
        /\ UNCHANGED <<user, counted, z, fs, simfile, db, solved, crashed>> /\ ~ crashed
    BY DEF Start, Step
  <1>4. pc \in [Job -> Running \cup {"waiting", "done"}]
    BY DEF SerialInv, Types, PcOK
  <1>5. Types'
    BY <1>3, <1>4 DEF SerialInv, Types, PcOK, UserOK, TreeOK, FileOK, DbOK, SharedOK, OtherOK, Running
  <1>6. Alone'
    BY <1>2, <1>3, <1>4 DEF Alone, Running
  <1>7. ASSUME NEW h \in Job PROVE Own(h)' /\ Shared(h)'
    <2>1. pc'[h] \in {"waiting", "init", "done"}
          /\ (pc'[h] = "init" <=> h = g) /\ (h # g => pc'[h] = pc[h])
      BY <1>2, <1>3, <1>4
    <2>2. Own(h)'
      BY <1>3, <2>1 DEF SerialInv, Own, Judged, InRun, WithDir, Compiled, InSim, Unknown
    <2>3. Shared(h)'
      BY <2>1 DEF Shared, WithDir, Compiled
    <2> QED
      BY <2>2, <2>3
  <1>8. \A t \in DOMAIN fs : fs[t] = Removed
    BY <1>2 DEF SerialInv, Trees, InTree, WithDir, InSim
  <1>9. simfile = NoSid
    BY <1>2 DEF SerialInv, Simfile
  <1>10. Records'
    <2>1. \A p \in Problem : StaleProblem(p) => StaleProblem(p)'
      BY <1>2 DEF StaleProblem, Running
    <2>2. \A u \in User : StaleUser(u) => StaleUser(u)'
      BY <1>2 DEF StaleUser, Running
    <2> QED
      BY <1>3, <2>1, <2>2, RecordsKept
  <1> QED
    BY <1>3, <1>5, <1>6, <1>7, <1>8, <1>9, <1>10 DEF SerialInv, Trees, Simfile, PanicHasCause

\* Nobody at work, nothing shared.
LEMMA InitInv == Init => SerialInv
  <1> SUFFICES ASSUME Init PROVE SerialInv
    OBVIOUS
  <1> USE DEF Init
  <1>1. Types
    <2>1. Zero \in UserRecord
      BY ZeroShape DEF UserRecord, Verdict
    <2>2. Removed \in Dir
      BY DEF Removed, Dir
    <2> QED
      BY <2>1, <2>2 DEF Types, PcOK, UserOK, TreeOK, TreeType, FileOK, DbOK, SharedOK, OtherOK,
                        ExactRecords, Verdict
  <1>2. Alone /\ PanicHasCause
    BY DEF Alone, PanicHasCause, Running
  <1>3. \A g \in Job : Own(g) /\ Shared(g)
    BY DEF Own, Shared, InRun, Judged, WithDir, Compiled, InSim, Unknown
  <1>4. Trees /\ Simfile
    BY DEF Trees, Simfile
  <1>5. Records
    BY DEF Records, ExactRecords
  <1> QED
    BY <1>1, <1>2, <1>3, <1>4, <1>5 DEF SerialInv

\* Nothing happens.
LEMMA StutterStep == SerialInv /\ UNCHANGED vars => SerialInv'
  <1> SUFFICES ASSUME SerialInv, UNCHANGED vars PROVE SerialInv'
    OBVIOUS
  <1> USE DEF vars, SerialInv
  <1>1. Types'
    BY DEF Types, PcOK, UserOK, TreeOK, FileOK, DbOK, SharedOK, OtherOK
  <1>2. Alone' /\ Trees' /\ Simfile'
    BY DEF Alone, Trees, Simfile
  <1>3. ASSUME NEW g \in Job PROVE Own(g)' /\ Shared(g)'
    <2>1. FoundSid(user[g].sid)' = FoundSid(user[g].sid) /\ Pool(user[g].sid)' = Pool(user[g].sid)
      BY DEF FoundSid, Found, Pool
    <2>2. /\ SolvedOf(ProblemOf(user[g].sid))' = SolvedOf(ProblemOf(user[g].sid))
          /\ AchievedBy(Stored[user[g].sid].user)' = AchievedBy(Stored[user[g].sid].user)
      BY DEF SolvedOf, AchievedBy, ProblemOf
    <2>3. Own(g)'
      BY DEF Own
    <2>4. Shared(g)'
      BY <2>1, <2>2 DEF Shared, ProblemOf
    <2> QED
      BY <2>3, <2>4
  <1>4. Records'
    BY RecordsKept DEF StaleProblem, StaleUser
  <1>5. PanicHasCause'
    BY DEF PanicHasCause, InFlight
  <1> QED
    BY <1>1, <1>2, <1>3, <1>4, <1>5

-----------------------------------------------------------------------------
(* What follows for goroutines that may overlap.                           *)

\* The invariant of any number of goroutines.
THEOREM OverlapInvariance == Spec => []OverlapInv
  <1>1. OverlapInv /\ [Next]_vars => OverlapInv'
    BY OverlapStep, OverlapStart, OverlapStutter DEF Next
  <1> QED
    BY OverlapInit, <1>1, PTL DEF Spec

\* simfile always has a goroutine that is going to remove it.
THEOREM SimfileOwned == Spec => []SimfileHasOwner
  <1>1. OverlapInv => SimfileHasOwner
    BY DEF OverlapInv, Simfile, SimfileHasOwner
  <1> QED
    BY <1>1, OverlapInvariance, PTL

-----------------------------------------------------------------------------
(* What follows for goroutines that do not overlap.                        *)

\* The invariant of one goroutine after the other.
THEOREM Invariance ==
  ASSUME MaxInFlight = 1
  PROVE  Spec => []SerialInv
  <1>1. SerialInv /\ [Next]_vars => SerialInv'
    BY JudgeStep, StartStep, StutterStep DEF Next
  <1> QED
    BY InitInv, <1>1, PTL DEF Spec

\* Every verdict is the verdict of the solution itself.
THEOREM VerdictsAreOwn ==
  ASSUME MaxInFlight = 1
  PROVE  Spec => []OwnVerdict
  <1>1. SerialInv => OwnVerdict
    BY DEF SerialInv, Own, OwnVerdict, Ran, Judged, Result
  <1> QED
    BY <1>1, Invariance, PTL

\* What get_sim returns is the oldest solution that is similar.
THEOREM OldestFound ==
  ASSUME MaxInFlight = 1
  PROVE  Spec => []SimOldest
  <1>1. SerialInv => SimOldest
    BY DEF SerialInv, Shared, SimOldest, Found, FoundSid
  <1> QED
    BY <1>1, Invariance, PTL

\* At rest the counters are exact.
THEOREM RecordsAreExact ==
  ASSUME MaxInFlight = 1
  PROVE  Spec => []RecordsExact
  <1>1. ASSUME SerialInv, Quiet PROVE solved = ExactRecords
    <2>1. \A g \in Job : pc[g] \notin Running
      BY <1>1, InFlightRunning DEF SerialInv, Quiet
    <2>2. \A p \in Problem : solved.problem[p] = SolvedOf(p)
      BY <1>1, <2>1 DEF SerialInv, Records, StaleProblem
    <2>3. \A u \in User : solved.user[u] = AchievedBy(u)
      BY <1>1, <2>1 DEF SerialInv, Records, StaleUser
    <2>4. solved = [problem |-> [p \in Problem |-> solved.problem[p]],
                    user |-> [u \in User |-> solved.user[u]]]
      BY <1>1 DEF SerialInv, Types, OtherOK
    <2> QED
      BY <2>2, <2>3, <2>4 DEF ExactRecords
  <1>2. SerialInv => RecordsExact
    BY <1>1 DEF RecordsExact
  <1> QED
    BY <1>2, Invariance, PTL

\* A directory has a goroutine at work on it, and after a panic there is none.
THEOREM DirectoriesOwned ==
  ASSUME MaxInFlight = 1
  PROVE  Spec => []DirHasOwner
  <1>1. SerialInv => DirHasOwner
    BY InFlightRunning DEF SerialInv, Types, TreeOK, TreeType, Trees, DirHasOwner, Removed, InTree,
                           WithDir, InSim, Running
  <1> QED
    BY <1>1, Invariance, PTL

\* Only a request for what does not exist ends in a panic.
THEOREM PanicsExplained ==
  ASSUME MaxInFlight = 1
  PROVE  Spec => []PanicHasCause
  <1>1. SerialInv => PanicHasCause
    BY DEF SerialInv
  <1> QED
    BY <1>1, Invariance, PTL
=============================================================================
