------------------------------ MODULE Programs ------------------------------
(***************************************************************************)
(* One solution with its processes: zjgsu.go writes the source and starts  *)
(* compiler (compiler.cc), whose child becomes gcc, g++ or javac, and then *)
(* runner (runner.cc), whose children become the program.  fork and exec   *)
(* may fail, here or there.                                                *)
(*                                                                         *)
(* What the runner's loop sees of a child is in Runner, what compare does  *)
(* in TextCompare: here a test ends with one of their verdicts.  An output *)
(* is "blank" or a member of Output.                                       *)
(***************************************************************************)
EXTENDS Integers, Sequences

CONSTANTS Test,         \* the .in files of a problem
          Output,       \* outputs that are not blank
          AskedTime,    \* time limits of problems, in seconds
          AskedMem,     \* memory limits of problems, in KB
          Program       \* sets of the system calls that programs make

LangC == 1
LangCC == 2
LangJava == 3
Languages == {LangC, LangCC, LangJava}
Outputs == Output \cup {"blank"}
NoOutput == "absent"

ASSUME ProgramsAssumption == /\ {"blank", NoOutput} \cap Output = {}
                             /\ AskedTime \subseteq Nat /\ AskedMem \subseteq Nat

VARIABLES
  pc,
  lang, asked,  \* language of the solution, limits of the problem
  good,         \* the code has no errors
  prints,       \* what it prints for each test
  calls,        \* system calls it makes
  expected,     \* the .out files
  source, built,        \* Main.c (.cc, .java) and Main (Main.class) are there
  judge,        \* result of the solution
  time_lmt, mem_lmt,
  copied,       \* tests that are in the directory
  left, count,  \* those the runner has not run, and how many it has
  userout,      \* user.out
  flag,         \* judge_flag
  ran,          \* history: tests for which the program printed user.out
  unforked,     \* history: tests for which fork failed, and user.out then
  barred        \* history: the program made a call that is not allowed

solutionVars == <<lang, asked, good, prints, calls, expected>>
runnerVars == <<time_lmt, mem_lmt, copied, left, count, userout, flag, ran, unforked, barred>>
vars == <<pc, solutionVars, source, built, judge, runnerVars>>

Init == /\ pc = "files"
        /\ lang \in Languages \cup {0}
        /\ asked \in [time : AskedTime, mem : AskedMem]
        /\ good \in BOOLEAN
        /\ prints \in [Test -> Outputs] /\ expected \in [Test -> Outputs]
        /\ calls \in Program
        /\ source = FALSE /\ built = FALSE
        /\ judge = "PD"
        /\ time_lmt = 5 /\ mem_lmt = 128
        /\ copied = {} /\ left = {} /\ count = 0 /\ userout = NoOutput /\ flag = "AC"
        /\ ran = {} /\ unforked = {} /\ barred = FALSE

Goto(from, to) == pc = from /\ pc' = to

-----------------------------------------------------------------------------
(* ZJGSUJudger.files and compile.                                          *)

\* The name of the file depends on the language, and without one it has none.
Files == /\ Goto("files", "compile")
         /\ source' \in {FALSE, (lang \in Languages)}
         /\ UNCHANGED <<solutionVars, built, judge, runnerVars>>

\* ProcessState.String() of the compiler is not "exit status 0".
CompileError == judge' = "CE" /\ pc' = "done"

\* A compiler that cannot be started has no ProcessState.
NoCompiler == /\ pc = "compile"
              /\ CompileError
              /\ UNCHANGED <<solutionVars, source, built, runnerVars>>

CompilerForks == /\ Goto("compile", "child")
                 /\ UNCHANGED <<solutionVars, source, built, judge, runnerVars>>

\* waitpid(-1, ..) leaves status as it was, 0, which means success.
CompilerForkFails == /\ Goto("compile", "submit")
                     /\ UNCHANGED <<solutionVars, source, built, judge, runnerVars>>

\* exec of gcc, g++ or javac: it makes Main, or ends with an error or is
\* killed for its limits.
Compiles == /\ pc = "child" /\ lang \in Languages
            /\ \/ /\ source /\ good
                  /\ built' = TRUE
                  /\ pc' = "submit" /\ UNCHANGED judge
               \/ CompileError /\ UNCHANGED built
            /\ UNCHANGED <<solutionVars, source, runnerVars>>

\* exec fails, and the child exits with 0.
ExecFails == /\ Goto("child", "submit") /\ lang \in Languages
             /\ UNCHANGED <<solutionVars, source, built, judge, runnerVars>>

UnknownLanguage == /\ pc = "child" /\ lang \notin Languages
                   /\ CompileError
                   /\ UNCHANGED <<solutionVars, source, built, runnerVars>>

\* Submit: the result is stored, and cp copies the tests; it may fail half-way.
Submit == /\ Goto("submit", "parameters")
          /\ judge' = "RJ"
          /\ copied' \in SUBSET Test
          /\ left' = copied'
          /\ UNCHANGED <<solutionVars, source, built, time_lmt, mem_lmt, count, userout,
                         flag, ran, unforked, barred>>

-----------------------------------------------------------------------------
(* init_parameters.                                                        *)

\* atoi * 1024 / STD_MB * 8 of 32 bits, with STD_MB = 2^20: in MB, eight times
\* what was asked for.  An int holds 4194304 (2^22) different multiples of 1024.
Megabytes(kb) == LET k == kb % 4194304
                 IN IF k < 2097152 THEN (k \div 1024) * 8
                    ELSE 0 - ((4194304 - k) \div 1024) * 8

Lucky(n) == IF lang = LangJava THEN 2 * n ELSE n

\* Mutant of Clamped: small limits pass.
ClampedAbove(n, max) == IF n > max THEN max ELSE n

Clamped(n, max) == IF n > max \/ n < 1 THEN max ELSE n

InitParameters == /\ Goto("parameters", "tests")
                  /\ time_lmt' = Clamped(Lucky(asked.time), 30)
                  /\ mem_lmt' = Clamped(Lucky(Megabytes(asked.mem)), 1024)
                  /\ UNCHANGED <<solutionVars, source, built, judge, copied, left, count, userout,
                                 flag, ran, unforked, barred>>

-----------------------------------------------------------------------------
(* okcalls.h for x86-64, the calls by their numbers; -1 is HOJ_MAX_LIMIT.  *)
LANG_CV == <<0, 1, 5, 9, 11, 12, 21, 59, 63, 89, 158, 231, 8, 201, 0, 63, 1, 2, 3, 59, 21,
             12, 11, 10, 9, 5, 205, 252, 158, 231>>
LANG_CC == [k \in 1 .. 16 |-> IF k = 14 THEN 2 ELSE -1]
LANG_JV == <<0, 2, 3, 4, 5, 9, 10, 11, 12, 13, 14, 21, 56, 59, 89, 97, 158, 202, 218, 231,
             273, 257, 61, 22, 6, 33, 8, 13, 16, 111, 110, 39, 79, 72, 217, 97, 14, 202, 0,
             9, 4, 2, 3, 59, 21, 12, 89, 11, 3, 63, 56, 63, 10, 13, 97, 5, 102, 104, 107,
             108, 205, 218, 273, 231, 158>>
LANG_JC == [k \in 1 .. 43 |-> -1]

\* Mutant of Counter: the list of calls, which begins with call 0, is walked
\* until it ends instead of the list of limits.
CounterUntilZero(l, c) == 0

\* init_syscalls_limits: the lists are walked until the limits end.
Counter(l, c) ==
  LET V == IF l <= LangCC THEN LANG_CV ELSE LANG_JV
      C == IF l <= LangCC THEN LANG_CC ELSE LANG_JC
      Ks == {k \in DOMAIN C : V[k] = c}
  IN IF Ks = {} THEN 0 ELSE C[CHOOSE k \in Ks : \A i \in Ks : i <= k]

-----------------------------------------------------------------------------
(* The runner's tests, as long as all are accepted.                        *)
Begin(t) == /\ pc = "tests" /\ flag = "AC" /\ t \in left
            /\ left' = left \ {t}
            /\ count' = count + 1

\* compare of the expected output with user.out.
Compared(t, printed) ==
  IF printed = NoOutput THEN {"RE"}
  ELSE IF printed # expected[t] THEN {"WA"}
  ELSE IF printed = "blank" THEN {"AC", "PE"} ELSE {"AC"}

Barred == \E c \in calls : Counter(lang, c) = 0

\* The program runs: with a call that is not allowed it is stopped, and
\* otherwise it may run into a limit, or write to stderr or get a signal.
RunSolution(t) ==
  /\ Begin(t) /\ built
  /\ userout' = prints[t]
  /\ IF Barred THEN flag' = "RE" /\ UNCHANGED ran
     ELSE /\ flag' \in {"RE", "TLE", "MLE", "OLE"} \cup Compared(t, prints[t])
          /\ ran' = ran \cup {t}
  /\ barred' = Barred
  /\ UNCHANGED <<pc, solutionVars, source, built, judge, time_lmt, mem_lmt, copied,
                 unforked>>

\* Mutant of NothingToRun: user.out is not emptied before the program is executed.
NothingToRunKeeps(t) ==
  /\ Begin(t)
  /\ ~built \/ lang = LangJava
  /\ flag' \in Compared(t, userout)
  /\ UNCHANGED <<pc, solutionVars, source, built, judge, time_lmt, mem_lmt, copied, userout,
                 ran, unforked, barred>>

\* run_solution cannot execute Main, or java: user.out is empty and the child
\* exits with 0, as if the program had printed nothing.  A Java machine
\* without Main.class complains on stderr.
NothingToRun(t) ==
  /\ Begin(t)
  /\ ~built \/ lang = LangJava
  /\ userout' = "blank"
  /\ flag' \in Compared(t, "blank") \cup (IF lang = LangJava THEN {"RE"} ELSE {})
  /\ UNCHANGED <<pc, solutionVars, source, built, judge, time_lmt, mem_lmt, copied, ran,
                 unforked, barred>>

\* fork fails: nobody is watched, and status, usage and registers are not
\* initialized.  They may be those of a process that exited, and then user.out
\* of the test before is compared; of one to stop; or the loop never ends.
ForkFails(t) ==
  /\ Begin(t)
  /\ unforked' = unforked \cup {<<t, userout>>}
  /\ \/ flag' \in {"RE", "TLE", "MLE", "OLE"} \cup Compared(t, userout) /\ UNCHANGED pc
     \/ pc' = "forever" /\ UNCHANGED flag
  /\ UNCHANGED <<solutionVars, source, built, judge, time_lmt, mem_lmt, copied, userout,
                 ran, barred>>

\* The result that GetStatus reads; without a test there is none.
Report == /\ pc = "tests" /\ (flag # "AC" \/ left = {})
          /\ judge' = IF count = 0 THEN "NA" ELSE flag
          /\ pc' = "done"
          /\ UNCHANGED <<solutionVars, source, built, runnerVars>>

Next == \/ Files \/ NoCompiler \/ CompilerForks \/ CompilerForkFails
        \/ Compiles \/ ExecFails \/ UnknownLanguage \/ Submit
        \/ InitParameters
        \/ \E t \in Test : RunSolution(t) \/ NothingToRun(t) \/ ForkFails(t)
        \/ Report

Spec == Init /\ [][Next]_vars

-----------------------------------------------------------------------------
(* Properties.                                                             *)

\* A failing fork or exec counts as success in compiler.cc and in run_solution,
\* yet nothing is accepted for it: every test there was for an accepted solution
\* (as many as cp copied, but one at least) was run by its own program, except those that expect a blank output, or for which
\* fork failed in the runner when the output before was what they expect.
AcceptedMeansRun ==
  judge = "AC" =>
    /\ copied # {}
    /\ \A t \in copied :
         \/ t \in ran /\ built /\ source /\ good /\ prints[t] = expected[t]
         \/ expected[t] = "blank"
         \/ <<t, expected[t]>> \in unforked

\* runner.cc:571: "never bigger than judged set value", but also never smaller
\* than what was asked for, as far as that is below it: neither by overflow nor
\* by what the division drops.  (Limits from 2 GB on do overflow.)
LimitsFair ==
  pc = "tests" =>
    /\ time_lmt \in 1 .. 30 /\ mem_lmt \in 1 .. 1024
    /\ asked.time \in 1 .. 30 => time_lmt >= asked.time
    /\ asked.mem > 0 /\ asked.mem <= 1048576 => mem_lmt * 1024 >= asked.mem

\* Only the first calls listed in okcalls.h have a limit: those no program can
\* do without (read, write, mmap, brk, execve, exit_group and what starts it,
\* and for Java clone and futex, the machine's writes being made by threads
\* that are not traced) are among them.
Essential(l) == IF l = LangJava THEN {0, 9, 12, 56, 59, 158, 202, 231}
                ELSE {0, 1, 5, 9, 12, 59, 63, 158, 231}
CallsFit == barred => ~(calls \subseteq Essential(lang))
=============================================================================
