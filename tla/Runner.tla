------------------------------- MODULE Runner -------------------------------
(***************************************************************************)
(* Cjudger/runner.cc, C and C++: one run of the compiled program for every *)
(* .in file of the directory, each watched from fork to end through        *)
(* wait4 and ptrace, and one verdict for all of them.                      *)
(*                                                                         *)
(* The child is the environment: it stops, is signalled, exits, and uses   *)
(* time and memory as it likes.  Time is counted in ticks, memory in units *)
(* that TimeLimit and MemLimit count.  The alarm that run_solution sets is *)
(* the one thing the child cannot put off forever.                         *)
(***************************************************************************)
EXTENDS Integers, FiniteSets

CONSTANTS
  Entry,      \* the entries of the directory
  InFile,     \* those that prepare_files accepts: the tests
  TimeLimit,  \* time_lmt * 1000
  MemLimit,   \* mem_lmt * STD_MB
  Call,       \* system calls
  Limit,      \* Limit[c]: call_counter[c] after init_syscalls_limits:
              \* Unlimited, 0 for a call that is not allowed, or a number
  Exec,       \* the call every child starts with
  NoTest,     \* before the first test
  NoCall      \* outside of any call

Unlimited == -1

ASSUME RunnerAssumption ==
  /\ InFile \subseteq Entry
  /\ IsFiniteSet(Entry)
  /\ TimeLimit \in Nat \ {0}
  /\ MemLimit \in Nat
  /\ Limit \in [Call -> Nat \cup {Unlimited}]
  /\ Exec \in Call
  /\ Limit[Exec] # 0
  /\ NoTest \notin Entry
  /\ NoCall \notin Call

VARIABLES
  pc,         \* control: main loop, and watch_solution's loop
  left,       \* entries readdir has not returned
  test,       \* the .in file being run
  flag,       \* judge_flag
  usedtime,   \* time of the tests before this one, then of this one too
  topmemory,  \* largest sample so far
  count,      \* tests that were run
  counter,    \* call_counter
  sub,        \* 1 when the next stop is taken for the entry of a call
  errorout,   \* error.out is not empty
  child,      \* "none", "running", "dying" (killed, not seen dead), "gone"
  call,       \* the call the child is inside of, or NoCall
  event,      \* what wait4 returned last
  alarm,      \* "set", or "rung" when the wall clock has run out
  passed,     \* history: tests whose output compare accepted
  completed,  \* history: completed[c]: calls of c this child came back from
  forbidden   \* history: a child made a call that is not allowed

main == <<left, test, count, passed>>
limits == <<usedtime, topmemory>>
trace == <<counter, sub, completed, forbidden>>
vars == <<pc, left, test, flag, usedtime, topmemory, count, counter, sub,
          errorout, child, call, event, alarm, passed, completed, forbidden>>

Signal == {"ALRM", "KILL", "XCPU", "XFSZ", "SEGV"}

Idle == [kind |-> "none", signal |-> "none", cpu |-> 0, big |-> FALSE]

Init == /\ pc = "read"
        /\ left = Entry
        /\ test = NoTest
        /\ flag = "AC"
        /\ usedtime = 0
        /\ topmemory = 0
        /\ count = 0
        /\ counter = Limit
        /\ sub = 0
        /\ errorout = FALSE
        /\ child = "none"
        /\ call = NoCall
        /\ event = Idle
        /\ alarm = "set"
        /\ passed = {}
        /\ completed = [c \in Call |-> 0]
        /\ forbidden = FALSE

-----------------------------------------------------------------------------
(* main: the loop over the directory.                                      *)

\* Mutant of Skip: prepare_files returns 0 for tests, too: it has no return statement.
SkipTests(e) == /\ pc = "read" /\ flag = "AC"
                /\ e \in left
                /\ left' = left \ {e}
                /\ UNCHANGED <<pc, test, flag, limits, count, trace, errorout, child,
                               call, event, alarm, passed>>

Skip(e) == /\ pc = "read" /\ flag = "AC"
           /\ e \in left \ InFile
           /\ left' = left \ {e}
           /\ UNCHANGED <<pc, test, flag, limits, count, trace, errorout, child,
                          call, event, alarm, passed>>

\* init_syscalls_limits, fork, and the child up to its execl, inside which
\* the tracer first sees it; run_solution sets a new alarm.
Fork(e) == /\ pc = "read" /\ flag = "AC"
           /\ e \in left \cap InFile
           /\ left' = left \ {e}
           /\ test' = e
           /\ counter' = Limit
           /\ sub' = 0
           /\ child' = "running"
           /\ call' = Exec
           /\ alarm' = "set"
           /\ event' = Idle
           /\ completed' = [c \in Call |-> 0]
           /\ pc' = "wait"
           /\ UNCHANGED <<flag, limits, count, errorout, passed, forbidden>>

\* Mutant of Report: stops only when all entries were read.
ReportAtLast == /\ pc = "read"
                /\ left = {}
                /\ flag' = IF count = 0 THEN "NA" ELSE flag
                /\ usedtime' = IF flag' = "TLE" THEN TimeLimit ELSE usedtime
                /\ pc' = "done"
                /\ UNCHANGED <<topmemory, main, trace, errorout, child, call, event, alarm>>

\* Without a test there is no answer; a program out of time is said to have
\* used all of it.
Report == /\ pc = "read"
          /\ flag # "AC" \/ left = {}
          /\ flag' = IF count = 0 THEN "NA" ELSE flag
          /\ usedtime' = IF flag' = "TLE" THEN TimeLimit ELSE usedtime
          /\ pc' = "done"
          /\ UNCHANGED <<topmemory, main, trace, errorout, child, call, event, alarm>>

-----------------------------------------------------------------------------
(* The child: what wait4 may return.                                       *)

\* The wall clock runs out while the child is being watched.
Alarm == /\ pc \in {"wait", "check"}
         /\ child = "running"
         /\ alarm = "set"
         /\ alarm' = "rung"
         /\ UNCHANGED <<pc, main, flag, limits, trace, errorout, child, call, event>>

\* The resource usage is that of the child so far; the memory sample, the
\* size of its output and whether it wrote to stderr are anything.
Happens(kind, signal) ==
  /\ \E more \in {0, 1}, big \in BOOLEAN :
       event' = [kind |-> kind, signal |-> signal,
                 cpu |-> event.cpu + more, big |-> big]
  /\ \E sample \in 0 .. MemLimit + 1 :
       topmemory' = IF sample > topmemory THEN sample ELSE topmemory
  /\ errorout' \in {errorout, TRUE}
  /\ pc' = "check"
  /\ UNCHANGED <<main, flag, usedtime, counter, sub>>

\* A stop at the entry of a call, or at its end.
EnterCall(c) == /\ pc = "wait" /\ child = "running" /\ alarm = "set"
                /\ call = NoCall
                /\ Happens("enter", "none")
                /\ call' = c
                /\ forbidden' = (forbidden \/ Limit[c] = 0)
                /\ UNCHANGED <<child, alarm, completed>>

LeaveCall == /\ pc = "wait" /\ child = "running" /\ alarm = "set"
             /\ call # NoCall
             /\ Happens("leave", "none")
             /\ UNCHANGED <<child, alarm, call, completed, forbidden>>

\* A stop for a signal; a rung alarm comes before anything else.
Stop(s) == /\ pc = "wait" /\ child = "running"
           /\ s \in Signal \ {"KILL"}
           /\ alarm = "rung" <=> s = "ALRM"
           /\ Happens("signal", s)
           /\ UNCHANGED <<child, alarm, call, completed, forbidden>>

\* The end: by exit, or killed by the tracer or the hard limits.
End(kind) == /\ pc = "wait"
             /\ IF kind = "exit"
                  THEN /\ child = "running"
                       /\ Happens("exit", "none")
                  ELSE /\ child \in {"running", "dying"}
                       /\ Happens("signal", "KILL")
             /\ child' = "gone"
             /\ UNCHANGED <<alarm, call, completed, forbidden>>

-----------------------------------------------------------------------------
(* watch_solution: the checks after wait4, in their order.                 *)

Cpu == usedtime + event.cpu
WithinLimits == topmemory <= MemLimit /\ Cpu < TimeLimit
GoesOn == pc = "check" /\ WithinLimits /\ event.kind # "exit"
Inspects == GoesOn /\ ~ errorout /\ ~ event.big

\* Out of the loop: this test's time is added, and its child is killed if it
\* was still there.
Break == /\ pc' = "judge"
         /\ usedtime' = Cpu
         /\ child' = IF child = "gone" THEN "gone" ELSE "dying"
         /\ UNCHANGED <<topmemory, main, trace, call, event, alarm>>

MemoryExceeded == /\ pc = "check" /\ topmemory > MemLimit
                  /\ flag' = "MLE"
                  /\ Break /\ UNCHANGED errorout

TimeExceeded == /\ pc = "check" /\ topmemory <= MemLimit /\ Cpu >= TimeLimit
                /\ flag' = "TLE"
                /\ Break /\ UNCHANGED errorout

\* The exit status is not looked at.
Exits == /\ pc = "check" /\ WithinLimits /\ event.kind = "exit"
         /\ Break /\ UNCHANGED <<flag, errorout>>

ErrorOutput == /\ GoesOn /\ errorout
               /\ flag' = "RE"
               /\ Break /\ UNCHANGED errorout

\* Mutant of OutputExceeded: the child is killed but the verdict is not set.
OutputExceededSilently == /\ GoesOn /\ ~ errorout /\ event.big
                          /\ Break /\ UNCHANGED <<flag, errorout>>

OutputExceeded == /\ GoesOn /\ ~ errorout /\ event.big
                  /\ flag' = "OLE"
                  /\ Break /\ UNCHANGED errorout

Signalled == /\ Inspects /\ event.kind = "signal"
             /\ flag' = CASE event.signal \in {"ALRM", "KILL", "XCPU"} -> "TLE"
                          [] event.signal = "XFSZ" -> "OLE"
                          [] OTHER -> "RE"
             /\ errorout' = TRUE
             /\ Break

\* The child goes on to the next stop, and is out of the call it left.
Resume == /\ pc' = "wait"
          /\ sub' = 1 - sub
          /\ call' = IF event.kind = "leave" THEN NoCall ELSE call
          /\ UNCHANGED <<main, limits, event, alarm, forbidden>>

\* Mutant of NotAllowed: nothing is written to error.out.
NotAllowedSilently == /\ Inspects /\ event.kind # "signal"
                      /\ counter[call] = 0
                      /\ flag' = "RE"
                      /\ child' = "dying"
                      /\ Resume
                      /\ UNCHANGED <<counter, completed, errorout>>

\* Killed, and the loop goes on to see it die: what makes the verdict stick
\* is the line in error.out.
NotAllowed == /\ Inspects /\ event.kind # "signal"
              /\ counter[call] = 0
              /\ flag' = "RE"
              /\ errorout' = TRUE
              /\ child' = "dying"
              /\ Resume
              /\ UNCHANGED <<counter, completed>>

\* Mutant of Allowed: a call is counted when it returns.
AllowedAtEnd == /\ Inspects /\ event.kind # "signal"
                /\ counter[call] # 0
                /\ counter' = IF sub = 0 /\ counter[call] > 0
                                THEN [counter EXCEPT ![call] = @ - 1]
                                ELSE counter
                /\ completed' = IF event.kind = "leave" /\ Limit[call] # Unlimited
                                  THEN [completed EXCEPT ![call] = @ + 1]
                                  ELSE completed
                /\ Resume
                /\ UNCHANGED <<flag, errorout, child>>

Allowed == /\ Inspects /\ event.kind # "signal"
           /\ counter[call] # 0
           /\ counter' = IF sub = 1 /\ counter[call] > 0
                           THEN [counter EXCEPT ![call] = @ - 1]
                           ELSE counter
           /\ completed' = IF event.kind = "leave" /\ Limit[call] # Unlimited
                             THEN [completed EXCEPT ![call] = @ + 1]
                             ELSE completed
           /\ Resume
           /\ UNCHANGED <<flag, errorout, child>>

-----------------------------------------------------------------------------
\* judge_solution, for a test that is still accepted: limits, then compare.
Judge == /\ pc = "judge"
         /\ \E result \in {"AC", "PE", "WA"} :
              flag' = IF flag # "AC" THEN flag
                      ELSE IF usedtime > TimeLimit THEN "TLE"
                      ELSE IF topmemory > MemLimit THEN "MLE"
                      ELSE result
         /\ passed' = IF flag' = "AC" THEN passed \cup {test} ELSE passed
         /\ count' = count + 1
         /\ pc' = "read"
         /\ UNCHANGED <<left, test, limits, trace, errorout, child, call, event, alarm>>

Wait4 == \/ \E c \in Call : EnterCall(c)
         \/ LeaveCall
         \/ \E s \in Signal : Stop(s)
         \/ \E kind \in {"exit", "kill"} : End(kind)

Watch == \/ MemoryExceeded \/ TimeExceeded \/ Exits \/ ErrorOutput
         \/ OutputExceeded \/ Signalled \/ NotAllowed \/ Allowed

ReadDir == Report \/ \E e \in Entry : Skip(e) \/ Fork(e)

Next == ReadDir \/ Alarm \/ Wait4 \/ Watch \/ Judge

(***************************************************************************)
(* The runner keeps running; a child does something in the end (the alarm  *)
(* stops it if nothing else does), and the wall clock runs out.            *)
(***************************************************************************)
Spec == /\ Init /\ [][Next]_vars
        /\ WF_vars(ReadDir) /\ WF_vars(Wait4) /\ WF_vars(Watch) /\ WF_vars(Judge)
        /\ WF_vars(Alarm)

-----------------------------------------------------------------------------
\* A program is accepted only if every .in file was run and its output
\* accepted, there was one, and all tests together kept the limits.
AcceptedMeansAll ==
  pc = "done" /\ flag = "AC" =>
    /\ passed = InFile
    /\ InFile # {}
    /\ usedtime < TimeLimit
    /\ topmemory <= MemLimit

\* The limits judge_solution checks once more (runner.cc:339-347) were kept:
\* watch_solution lets no test through that breaks them.
LimitsChecked ==
  flag = "AC" /\ pc \in {"read", "judge"} =>
    usedtime < TimeLimit /\ topmemory <= MemLimit

\* A call that is not allowed never goes unnoticed: although the loop goes on
\* after the kill (runner.cc:515) and the child is next seen dying of KILL,
\* which means TLE, the verdict is RE unless a limit really was exceeded.
ForbiddenIsError ==
  pc = "judge" /\ forbidden =>
    \/ flag \in {"RE", "OLE"}
    \/ flag = "MLE" /\ topmemory > MemLimit
    \/ flag = "TLE" /\ usedtime >= TimeLimit

\* Entry and exit stops of calls are told apart by counting them (sub): a
\* call with limit n comes back less than n times, and the exec that started
\* the child is the only one (runner.cc:507-522).
CallsLimited ==
  \A c \in Call : Limit[c] > 0 =>
    completed[c] <= IF c = Exec THEN Limit[c] ELSE Limit[c] - 1

\* A new child is started only when the one before is known to be gone: wait4
\* waits for any child and would mistake one for the other.
OneChild == pc = "read" /\ flag = "AC" => child \in {"none", "gone"}

\* Every run ends with a report, whatever the child does.
EventuallyReports == <>(pc = "done")
=============================================================================
