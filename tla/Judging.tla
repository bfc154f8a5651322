------------------------------- MODULE Judging -------------------------------
(***************************************************************************)
(* judge.go, zjgsu.go and sim.sh: what the Judge goroutines started by the *)
(* dispatcher do, from loading the solution to updating the statistics.    *)
(*                                                                         *)
(* A goroutine keeps its own solution (user), but shares with all others   *)
(* the one ZJGSUJudger of VJs (z), the tree below RUN_PATH (fs), the file  *)
(* simfile in the current directory, and the database.  The steps are the  *)
(* accesses to what is shared, in the order of the code.                   *)
(*                                                                         *)
(* A source, a binary and a verdict are told apart by the solution they    *)
(* come from; a solution has a directory, named after its Sid and Pid.     *)
(* Sids are numbers because SIM compares a solution with older ones; 0 is  *)
(* the Sid of the zero solution and stands for "no solution".              *)
(***************************************************************************)
EXTENDS Integers, FiniteSets

CONSTANTS
  Job,           \* the Judge goroutines
  Info,          \* Info[g]: the request's [sid, oj]
  Stored,        \* Stored[s]: what the database has on solution s and nothing
                 \* here changes: [problem, user, module, outcome]; outcome is
                 \* what compiler and runner say of s in its own directory,
                 \* with its own tests and limits
  KnownProblem,  \* problems that exist in the database
  WithTests,     \* problems whose tests exist below DATA_PATH
  Similar,       \* pairs <<s, t>>: sim_text says s is more than 50% t
  MaxInFlight    \* bound on the goroutines that overlap

Sid == DOMAIN Stored
NoSid == 0
NoProblem == 0
Verdict == {"PD", "RJ", "CE", "AC", "WA", "NA"}
Settled == Verdict \ {"PD", "RJ"}

\* The tokens that ZJGSUJudger.Match accepts: its own and none.
OurTokens == {"ZJGSU", ""}

ASSUME JudgingAssumption ==
  /\ Sid \subseteq Nat \ {NoSid}
  /\ Info \in [Job -> [sid : Nat, oj : OurTokens \cup {"HDU", "other"}]]
  /\ \A s \in Sid : /\ Stored[s].module \in {"P", "C"}
                    /\ Stored[s].outcome \in {"CE", "AC", "WA"}
                    /\ Stored[s].problem # NoProblem
  /\ KnownProblem \subseteq {Stored[s].problem : s \in Sid}
  /\ MaxInFlight \in Nat

VARIABLES
  pc,       \* pc[g]: control of goroutine g
  user,     \* user[g]: its solution, as far as it changes
  counted,  \* counted[g]: local variable solve of UpdateRecord
  z,        \* the shared ZJGSUJudger
  fs,       \* fs[s]: the directory RUN_PATH/s
  simfile,  \* ./simfile: the similar solution it names, NoSid if there is none
  db,       \* db[s]: the changing part of solution s
  solved,   \* the counters kept by problem and by user
  crashed   \* a goroutine panicked: the process is gone

locals == <<pc, user, counted>>
vars == <<pc, user, counted, z, fs, simfile, db, solved, crashed>>

-----------------------------------------------------------------------------
Problem == {Stored[s].problem : s \in Sid}
User == {Stored[s].user : s \in Sid}

Zero == [sid |-> NoSid, oj |-> "", judge |-> "PD", simid |-> NoSid]

\* root: RUN_PATH/s, work: its subdirectory z.workdir, src and bin: whose code
\* Main.c and Main there are, tests: the copied tests, main and pool: the
\* files SIM compares.
Removed == [root |-> FALSE, work |-> FALSE, src |-> NoSid, bin |-> NoSid,
            tests |-> FALSE, main |-> FALSE, pool |-> {}]

Solved(records) == {s \in DOMAIN records : records[s].judge = "AC"}

\* Count with action solve and module P, of one problem.
SolvedOf(p) == Cardinality({s \in Solved(db) : /\ Stored[s].problem = p
                                               /\ Stored[s].module = "P"})

\* Achieve with module P: the problems a user solved.
AchievedBy(u) == Cardinality({Stored[s].problem : s \in
  {t \in Solved(db) : Stored[t].user = u /\ Stored[t].module = "P"}})

ExactRecords == [problem |-> [p \in Problem |-> SolvedOf(p)],
                 user |-> [u \in User |-> AchievedBy(u)]]

\* A solution starts pending, or was accepted before and is judged again.
Init == /\ pc = [g \in Job |-> "waiting"]
        /\ user = [g \in Job |-> Zero]
        /\ counted = [g \in Job |-> 0]
        /\ z = [workdir |-> NoSid, time |-> NoProblem, mem |-> NoProblem]
        /\ fs = [s \in Sid \cup {NoSid} |-> Removed]
        /\ simfile = NoSid
        /\ db \in [Sid -> [judge : {"PD", "AC"}, simid : {NoSid}]]
        /\ solved = ExactRecords
        /\ crashed = FALSE

InFlight == {g \in Job : pc[g] \notin {"waiting", "done"}}

Step(g, from, to) == /\ ~ crashed
                     /\ pc[g] = from
                     /\ pc' = [pc EXCEPT ![g] = to]

\* A run-time panic in a goroutine ends the process.
Panic(g, from) == /\ ~ crashed
                  /\ pc[g] = from
                  /\ crashed' = TRUE
                  /\ UNCHANGED pc

SetResult(g, v) == user' = [user EXCEPT ![g].judge = v]

RemoveAll(s) == fs' = [fs EXCEPT ![s] = Removed]

-----------------------------------------------------------------------------
(* Judge: solution.Init and the choice of the judger.                      *)

Start(g) == /\ Cardinality(InFlight) < MaxInFlight
            /\ Step(g, "waiting", "init")
            /\ UNCHANGED <<user, counted, z, fs, simfile, db, solved, crashed>>

\* A solution that cannot be loaded is judged as the zero solution.
UserInit(g) ==
  /\ Step(g, "init", "match")
  /\ LET s == Info[g].sid IN
     user' = [user EXCEPT ![g] =
       IF s \in Sid
         THEN [sid |-> s, oj |-> Info[g].oj,
               judge |-> db[s].judge, simid |-> db[s].simid]
         ELSE Zero]
  /\ UNCHANGED <<counted, z, fs, simfile, db, solved, crashed>>

\* VJs in order: ours for its token and for none; HDU or PKU; or nobody.
Match(g) ==
  /\ \/ /\ user[g].oj \in OurTokens
        /\ Step(g, "match", "setWorkdir")
        /\ SetResult(g, "PD")
     \/ /\ user[g].oj = "HDU"
        /\ Step(g, "match", "updateSim")
        /\ \E v \in {"PD", "AC", "WA"} : SetResult(g, v)
     \/ /\ user[g].oj = "other"
        /\ Step(g, "match", "updateSim")
        /\ UNCHANGED user
  /\ UNCHANGED <<counted, z, fs, simfile, db, solved, crashed>>

-----------------------------------------------------------------------------
(* ZJGSUJudger.Run: Init, Login, Submit, GetStatus, and the deferred       *)
(* RemoveAll of the solution's directory.                                  *)

SetWorkdir(g) == /\ Step(g, "setWorkdir", "mkdir")
                 /\ z' = [z EXCEPT !.workdir = user[g].sid]
                 /\ UNCHANGED <<user, counted, fs, simfile, db, solved, crashed>>

Mkdir(g) == /\ Step(g, "mkdir", "files")
            /\ fs' = [fs EXCEPT ![z.workdir].root = TRUE, ![z.workdir].work = TRUE]
            /\ UNCHANGED <<user, counted, z, simfile, db, solved, crashed>>

\* The path is read from z again; without the directory nothing is written.
Files(g) == /\ Step(g, "files", "loginTime")
            /\ fs' = IF fs[z.workdir].work
                       THEN [fs EXCEPT ![z.workdir].src = user[g].sid]
                       ELSE fs
            /\ UNCHANGED <<user, counted, z, simfile, db, solved, crashed>>

ProblemOf(s) == IF s = NoSid THEN NoProblem ELSE Stored[s].problem

\* Mutant of LoginTime: panics on problems that exist.
LoginTimeInverted(g) ==
  LET p == ProblemOf(user[g].sid) IN
  /\ IF p \notin KnownProblem
       THEN /\ Step(g, "loginTime", "loginMem")
            /\ z' = [z EXCEPT !.time = p]
            /\ UNCHANGED <<fs, crashed>>
       ELSE /\ Panic(g, "loginTime")
            /\ RemoveAll(user[g].sid)
            /\ UNCHANGED z
  /\ UNCHANGED <<user, counted, simfile, db, solved>>

\* An unknown problem is nil and pro.Time panics; Run's defer still runs.
LoginTime(g) ==
  LET p == ProblemOf(user[g].sid) IN
  /\ IF p \in KnownProblem
       THEN /\ Step(g, "loginTime", "loginMem")
            /\ z' = [z EXCEPT !.time = p]
            /\ UNCHANGED <<fs, crashed>>
       ELSE /\ Panic(g, "loginTime")
            /\ RemoveAll(user[g].sid)
            /\ UNCHANGED z
  /\ UNCHANGED <<user, counted, simfile, db, solved>>

\* Mutant of LoginMem: z.mem keeps the limit of the last problem.
LoginMemForgotten(g) ==
  /\ Step(g, "loginMem", "compile")
  /\ UNCHANGED <<user, counted, z, fs, simfile, db, solved, crashed>>

LoginMem(g) == /\ Step(g, "loginMem", "compile")
               /\ z' = [z EXCEPT !.mem = ProblemOf(user[g].sid)]
               /\ UNCHANGED <<user, counted, fs, simfile, db, solved, crashed>>

\* The compiler works on whatever is in z.workdir.  Without a source, or with
\* one that is wrong, it exits with a status other than 0.
Compiles(d) == /\ fs[d].src # NoSid
               /\ Stored[fs[d].src].outcome # "CE"

Compile(g) ==
  /\ IF Compiles(z.workdir)
       THEN /\ Step(g, "compile", "setRunning")
            /\ fs' = [fs EXCEPT ![z.workdir].bin = fs[z.workdir].src]
            /\ UNCHANGED user
       ELSE /\ Step(g, "compile", "cleanup")
            /\ SetResult(g, "CE")
            /\ UNCHANGED fs
  /\ UNCHANGED <<counted, z, simfile, db, solved, crashed>>

SetRunning(g) ==
  /\ Step(g, "setRunning", "copyTests")
  /\ SetResult(g, "RJ")
  /\ db' = [db EXCEPT ![user[g].sid] = [judge |-> "RJ", simid |-> user[g].simid]]
  /\ UNCHANGED <<counted, z, fs, simfile, solved, crashed>>

\* cp -r: into RUN_PATH/s if it is there, otherwise the copy takes its name.
CopyTests(g) ==
  /\ Step(g, "copyTests", "getStatus")
  /\ LET s == user[g].sid IN
     fs' = IF ProblemOf(s) \notin WithTests THEN fs
           ELSE IF fs[s].root
             THEN [fs EXCEPT ![s].work = TRUE, ![s].tests = TRUE]
             ELSE [fs EXCEPT ![s].root = TRUE]
  /\ UNCHANGED <<user, counted, z, simfile, db, solved, crashed>>

\* What runner may print for directory d under the limits in z: the outcome
\* of the solution when all is its own, anything when something is mixed up.
Verdicts(d) ==
  IF ~ fs[d].tests THEN {"NA"}
  ELSE IF /\ fs[d].bin = d
          /\ z.time = ProblemOf(d)
          /\ z.mem = ProblemOf(d)
         THEN {Stored[d].outcome}
         ELSE {"AC", "WA"}

\* Without the directory runner prints nothing, and sp[1] panics.
GetStatus(g) ==
  /\ IF fs[z.workdir].work
       THEN /\ Step(g, "getStatus", "cleanup")
            /\ \E v \in Verdicts(z.workdir) : SetResult(g, v)
            /\ UNCHANGED <<fs, crashed>>
       ELSE /\ Panic(g, "getStatus")
            /\ RemoveAll(user[g].sid)
            /\ UNCHANGED user
  /\ UNCHANGED <<counted, z, simfile, db, solved>>

\* Mutant of Cleanup: no RemoveAll is deferred.
CleanupForgotten(g) ==
  /\ Step(g, "cleanup", "updateSim")
  /\ UNCHANGED <<user, counted, z, fs, simfile, db, solved, crashed>>

Cleanup(g) == /\ Step(g, "cleanup", "updateSim")
              /\ RemoveAll(user[g].sid)
              /\ UNCHANGED <<user, counted, z, simfile, db, solved, crashed>>

-----------------------------------------------------------------------------
(* UpdateSim, get_sim and sim.sh.                                          *)

\* Mutant of UpdateSim: the solution is updated only when SIM ran.
UpdateSimOnly(g) ==
  /\ IF user[g].judge = "AC" /\ Stored[user[g].sid].module = "C"
       THEN Step(g, "updateSim", "simPool") /\ UNCHANGED user
       ELSE /\ Step(g, "updateSim", "done")
            /\ user' = [user EXCEPT ![g].simid = NoSid]
  /\ UNCHANGED <<counted, z, fs, simfile, db, solved, crashed>>

UpdateSim(g) ==
  /\ IF user[g].judge = "AC" /\ Stored[user[g].sid].module = "C"
       THEN Step(g, "updateSim", "simPool") /\ UNCHANGED user
       ELSE /\ Step(g, "updateSim", "updateSolution")
            /\ user' = [user EXCEPT ![g].simid = NoSid]
  /\ UNCHANGED <<counted, z, fs, simfile, db, solved, crashed>>

\* The older accepted solutions of the same problem.
Pool(s) == {t \in Solved(db) : Stored[t].problem = Stored[s].problem /\ t < s}

SimPool(g) ==
  /\ Step(g, "simPool", "simScript")
  /\ LET s == user[g].sid IN
     fs' = [fs EXCEPT ![s].root = TRUE, ![s].main = TRUE,
                      ![s].pool = @ \cup Pool(s)]
  /\ UNCHANGED <<user, counted, z, simfile, db, solved, crashed>>

Oldest(S) == CHOOSE s \in S : \A t \in S : s <= t

\* sim.sh stops at the first file it finds similar, and writes simfile only
\* then.
SimScript(g) ==
  /\ Step(g, "simScript", "simRead")
  /\ LET s == user[g].sid
         found == {t \in fs[s].pool : fs[s].main /\ <<s, t>> \in Similar}
     IN simfile' = IF found = {} THEN simfile ELSE Oldest(found)
  /\ UNCHANGED <<user, counted, z, fs, db, solved, crashed>>

SimRead(g) == /\ Step(g, "simRead", "simRemove")
              /\ user' = [user EXCEPT ![g].simid = simfile]
              /\ UNCHANGED <<counted, z, fs, simfile, db, solved, crashed>>

\* Mutant of SimRemove: simfile is left for the next one.
SimRemoveForgotten(g) ==
  /\ Step(g, "simRemove", "simCleanup")
  /\ UNCHANGED <<user, counted, z, fs, simfile, db, solved, crashed>>

\* The deferred calls of get_sim, last one first.
SimRemove(g) == /\ Step(g, "simRemove", "simCleanup")
                /\ simfile' = NoSid
                /\ UNCHANGED <<user, counted, z, fs, db, solved, crashed>>

SimCleanup(g) == /\ Step(g, "simCleanup", "updateSolution")
                 /\ RemoveAll(user[g].sid)
                 /\ UNCHANGED <<user, counted, z, simfile, db, solved, crashed>>

\* Mutant of UpdateSolution: records contest solutions, not practice.
UpdateSolutionOtherModule(g) ==
  LET s == user[g].sid IN
  /\ Step(g, "updateSolution",
          IF Stored[s].module = "C" THEN "countProblem" ELSE "done")
  /\ db' = [db EXCEPT ![s] = [judge |-> user[g].judge, simid |-> user[g].simid]]
  /\ UNCHANGED <<user, counted, z, fs, simfile, solved, crashed>>

UpdateSolution(g) ==
  LET s == user[g].sid IN
  /\ Step(g, "updateSolution",
          IF Stored[s].module = "P" THEN "countProblem" ELSE "done")
  /\ db' = [db EXCEPT ![s] = [judge |-> user[g].judge, simid |-> user[g].simid]]
  /\ UNCHANGED <<user, counted, z, fs, simfile, solved, crashed>>

-----------------------------------------------------------------------------
(* UpdateRecord: counters are counted first and recorded later.            *)

CountProblem(g) ==
  /\ Step(g, "countProblem", "recordProblem")
  /\ counted' = [counted EXCEPT ![g] = SolvedOf(ProblemOf(user[g].sid))]
  /\ UNCHANGED <<user, z, fs, simfile, db, solved, crashed>>

RecordProblem(g) ==
  /\ Step(g, "recordProblem", "countUser")
  /\ solved' = [solved EXCEPT !.problem[ProblemOf(user[g].sid)] = counted[g]]
  /\ UNCHANGED <<user, counted, z, fs, simfile, db, crashed>>

CountUser(g) ==
  /\ Step(g, "countUser", "recordUser")
  /\ counted' = [counted EXCEPT ![g] = AchievedBy(Stored[user[g].sid].user)]
  /\ UNCHANGED <<user, z, fs, simfile, db, solved, crashed>>

RecordUser(g) ==
  /\ Step(g, "recordUser", "done")
  /\ solved' = [solved EXCEPT !.user[Stored[user[g].sid].user] = counted[g]]
  /\ UNCHANGED <<user, counted, z, fs, simfile, db, crashed>>

-----------------------------------------------------------------------------
Run(g) == \/ SetWorkdir(g) \/ Mkdir(g) \/ Files(g)
          \/ LoginTime(g) \/ LoginMem(g)
          \/ Compile(g) \/ SetRunning(g) \/ CopyTests(g)
          \/ GetStatus(g) \/ Cleanup(g)

GetSim(g) == \/ SimPool(g) \/ SimScript(g) \/ SimRead(g)
             \/ SimRemove(g) \/ SimCleanup(g)

UpdateRecord(g) == \/ CountProblem(g) \/ RecordProblem(g)
                   \/ CountUser(g) \/ RecordUser(g)

Judge(g) == \/ UserInit(g) \/ Match(g) \/ Run(g)
            \/ UpdateSim(g) \/ GetSim(g) \/ UpdateSolution(g)
            \/ UpdateRecord(g)

Next == \E g \in Job : Start(g) \/ Judge(g)

Spec == Init /\ [][Next]_vars

-----------------------------------------------------------------------------
Quiet == InFlight = {} /\ ~ crashed

Ran(g) == pc[g] = "done" /\ user[g].oj \in OurTokens

\* A directory below RUN_PATH exists only while a goroutine works on that
\* solution, and a panic leaves none behind: the two deferred RemoveAll
\* (zjgsu.go:136, judge.go:169) come after every step that could create it.
\* Only true as long as goroutines do not overlap.
DirHasOwner ==
  \A s \in DOMAIN fs :
    fs[s].root => ~ crashed /\ \E g \in InFlight : user[g].sid = s

\* simfile exists only between some goroutine's sim.sh and its own Remove
\* (judge.go:199-204).
SimfileHasOwner ==
  simfile # NoSid => \E g \in Job : pc[g] \in {"simRead", "simRemove"}

\* What a goroutine ends with is the verdict of the solution it judged: what
\* compiler and runner say of its code with its tests and limits.
OwnVerdict ==
  \A g \in Job : Ran(g) =>
    LET s == user[g].sid IN
    user[g].judge = IF Stored[s].outcome # "CE" /\ Stored[s].problem \notin WithTests
                      THEN "NA" ELSE Stored[s].outcome

\* get_sim returns "the id of the similar one" (judge.go:141): the oldest older
\* accepted solution that is similar, as sim.sh stops at the first one it finds,
\* and none only if there is none.
SimOldest ==
  \A g \in Job :
    pc[g] \in {"simRemove", "simCleanup"} =>
      LET found == {t \in Pool(user[g].sid) : <<user[g].sid, t>> \in Similar}
      IN user[g].simid = IF found = {} THEN NoSid ELSE Oldest(found)

\* The counters of problems and users are exact when everything is at rest.
RecordsExact == Quiet => solved = ExactRecords

\* One after the other, nothing but a request for a solution or a problem that
\* does not exist makes a goroutine panic (zjgsu.go:55, zjgsu.go:128).
PanicHasCause ==
  crashed => \E g \in InFlight :
    \/ Info[g].sid \notin Sid
    \/ ProblemOf(Info[g].sid) \notin KnownProblem
=============================================================================
