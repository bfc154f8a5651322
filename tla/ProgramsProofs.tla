--------------------------- MODULE ProgramsProofs ---------------------------
(***************************************************************************)
(* Proofs about Programs, for any tests, outputs, limits and programs:     *)
(* what an accepted solution has run whatever fork or exec failed, that    *)
(* limits are fair, and that no program is stopped for a call it cannot do *)
(* without.                                                                *)
(*                                                                         *)
(* The first is inductive over the tests the runner is through with; the   *)
(* second is arithmetic on what a problem asks for; the third a fact about *)
(* the tables of okcalls.h.                                                *)
(***************************************************************************)
EXTENDS Programs, WellFoundedInduction, NaturalsInduction, TLAPS

-----------------------------------------------------------------------------
(* The tables of okcalls.h.                                                *)

\* Numbers have a smallest one.
LEMMA SmallestIn ==
  ASSUME NEW T, T \subseteq Nat, T # {}
  PROVE  \E x \in T : \A y \in T : x <= y
  <1>1. IsWellFoundedOn(OpToRel(<, Nat), Nat)
    BY NatLessThanWellFounded
  <1>2. \E x \in T : \A y \in T : ~ (<<y, x>> \in OpToRel(<, Nat))
    BY <1>1, WFMin
  <1>3. PICK x \in T : \A y \in T : ~ (<<y, x>> \in OpToRel(<, Nat))
    BY <1>2
  <1>4. \A y \in T : ~ (y < x)
    <2> SUFFICES ASSUME NEW y \in T, y < x PROVE FALSE
      OBVIOUS
    <2>1. <<y, x>> \in OpToRel(<, Nat)
      BY DEF OpToRel
    <2> QED
      BY <2>1, <1>3
  <1> QED
    BY <1>4

\* Numbers up to n have a largest one.
LEMMA LargestUpTo ==
  ASSUME NEW T, NEW n \in Nat, T \subseteq 0 .. n, T # {}
  PROVE  \E x \in T : \A y \in T : y <= x
  <1> DEFINE U == {k \in Nat : \E x \in T : k = n - x}
  <1>1. \A x \in T : x \in 0 .. n /\ n - x \in U
    OBVIOUS
  <1>2. U \subseteq Nat /\ U # {}
    BY <1>1
  <1>3. PICK u \in U : \A y \in U : u <= y
    BY <1>2, SmallestIn
  <1>4. PICK x \in T : u = n - x
    BY <1>3
  <1>5. \A y \in T : n - x <= n - y
    BY <1>1, <1>3, <1>4
  <1> QED
    BY <1>1, <1>4, <1>5

\* What Counter looks up in a list of calls and one of limits.
LastLimit(V, C, c) ==
  LET Ks == {k \in DOMAIN C : V[k] = c}
  IN IF Ks = {} THEN 0 ELSE C[CHOOSE k \in Ks : \A i \in Ks : i <= k]

\* If the walk over the lists passes call c, it leaves a limit that is not 0.
LEMMA LastLimitNonzero ==
  ASSUME NEW V, NEW C, NEW n \in Nat, NEW c, DOMAIN C = 1 .. n,
         \A k \in 1 .. n : C[k] # 0,
         \E w \in 1 .. n : V[w] = c
  PROVE  LastLimit(V, C, c) # 0
  <1> DEFINE Ks == {k \in DOMAIN C : V[k] = c}
  <1>1. Ks \subseteq 1 .. n /\ Ks \subseteq 0 .. n /\ Ks # {}
    OBVIOUS
  <1>2. \E k \in Ks : \A i \in Ks : i <= k
    BY <1>1, LargestUpTo
  <1>3. (CHOOSE k \in Ks : \A i \in Ks : i <= k) \in Ks
    BY <1>2
  <1>4. LastLimit(V, C, c) = C[CHOOSE k \in Ks : \A i \in Ks : i <= k]
    BY <1>1 DEF LastLimit
  <1> QED
    BY <1>1, <1>3, <1>4

\* Every call a language cannot do without is found in its lists, with a
\* limit.
LEMMA EssentialCounted ==
  ASSUME NEW l \in Languages \cup {0}, NEW c \in Essential(l)
  PROVE  Counter(l, c) # 0
  <1> USE DEF Languages, LangC, LangCC, LangJava
  <1>1. CASE l = LangJava
    <2>1. DOMAIN LANG_JC = 1 .. 43 /\ \A k \in 1 .. 43 : LANG_JC[k] # 0
      BY DEF LANG_JC
    <2>2. \E w \in 1 .. 43 : LANG_JV[w] = c
      <3>1. /\ LANG_JV[1] = 0 /\ LANG_JV[6] = 9 /\ LANG_JV[9] = 12 /\ LANG_JV[13] = 56
            /\ LANG_JV[14] = 59 /\ LANG_JV[17] = 158 /\ LANG_JV[18] = 202 /\ LANG_JV[20] = 231
        BY DEF LANG_JV
      <3> QED
        BY <1>1, <3>1 DEF Essential
    <2>3. Counter(l, c) = LastLimit(LANG_JV, LANG_JC, c)
      BY <1>1 DEF Counter, LastLimit
    <2> QED
      BY <2>1, <2>2, <2>3, LastLimitNonzero
  <1>2. CASE l # LangJava
    <2>1. DOMAIN LANG_CC = 1 .. 16 /\ \A k \in 1 .. 16 : LANG_CC[k] # 0
      BY DEF LANG_CC
    <2>2. \E w \in 1 .. 16 : LANG_CV[w] = c
      <3>1. /\ LANG_CV[1] = 0 /\ LANG_CV[2] = 1 /\ LANG_CV[3] = 5 /\ LANG_CV[4] = 9
            /\ LANG_CV[6] = 12 /\ LANG_CV[8] = 59 /\ LANG_CV[9] = 63 /\ LANG_CV[11] = 158
            /\ LANG_CV[12] = 231
        BY DEF LANG_CV
      <3> QED
        BY <1>2, <3>1 DEF Essential
    <2>3. Counter(l, c) = LastLimit(LANG_CV, LANG_CC, c)
      BY <1>2 DEF Counter, LastLimit
    <2> QED
      BY <2>1, <2>2, <2>3, LastLimitNonzero
  <1> QED
    BY <1>1, <1>2

-----------------------------------------------------------------------------
(* The limits.                                                             *)

\* What a problem asks for is not made smaller, and never too big.
LEMMA TimeFair ==
  ASSUME NEW t \in Nat
  PROVE  /\ Clamped(Lucky(t), 30) \in 1 .. 30
         /\ t \in 1 .. 30 => Clamped(Lucky(t), 30) >= t
  BY DEF Clamped, Lucky

FairMem(mb, kb) == /\ mb \in 1 .. 1024
                   /\ kb > 0 /\ kb <= 1048576 => mb * 1024 >= kb

\* The memory limit: what overflow and division do to it never makes it less.
LEMMA MemFair ==
  ASSUME NEW kb \in Nat
  PROVE  FairMem(Clamped(Lucky(Megabytes(kb)), 1024), kb)
  <1>1. Megabytes(kb) \in Int
    BY DEF Megabytes
  <1>2. CASE kb > 1048576 \/ kb = 0
    <2>1. PICK b \in Int : b = Lucky(Megabytes(kb))
      BY <1>1 DEF Lucky
    <2>2. Clamped(b, 1024) \in 1 .. 1024
      BY DEF Clamped
    <2> QED
      BY <1>2, <2>1, <2>2, SMT DEF FairMem
  <1>3. CASE kb > 0 /\ kb <= 1048576
    <2>1. PICK d \in Nat : d = kb \div 1024
      OBVIOUS
    <2>2. Megabytes(kb) = d * 8
      BY <1>3, <2>1 DEF Megabytes
    <2>3. d * 1024 > kb - 1024
      BY <2>1
    <2>4. Lucky(Megabytes(kb)) \in {d * 8, d * 16}
      BY <2>1, <2>2 DEF Lucky
    <2>5. PICK b \in {d * 8, d * 16} : b = Lucky(Megabytes(kb))
      BY <2>4
    <2>6. Clamped(b, 1024) \in 1 .. 1024 /\ Clamped(b, 1024) * 1024 >= kb
      BY <1>3, <2>1, <2>3, SMT DEF Clamped
    <2> QED
      BY <2>5, <2>6 DEF FairMem
  <1> QED
    BY <1>2, <1>3

-----------------------------------------------------------------------------
(* The inductive invariant.                                                *)

\* The program of t printed what was expected, or what is blank or from
\* another test was compared.
Explained(t) == \/ t \in ran /\ built /\ source /\ good /\ prints[t] = expected[t]
                \/ expected[t] = "blank"
                \/ <<t, expected[t]>> \in unforked

AllExplained == \A t \in copied \ left : Explained(t)

\* Before the runner has begun it has run nothing.
Running == pc \in {"tests", "forever", "done"}
NothingRun == left = copied /\ count = 0

\* Every test that is over is explained as long as the verdict is AC, and the
\* runner is not caught in a loop that gives none.
ProgramsInv ==
  /\ lang \in Languages \cup {0}
  /\ asked.time \in Nat /\ asked.mem \in Nat
  /\ built => source /\ good /\ pc \notin {"files", "compile", "child"}
  /\ count \in Nat
  /\ left \subseteq copied
  /\ ~ Running => NothingRun
  /\ count # 0 => copied # {}
  /\ flag = "AC" /\ pc # "forever" => AllExplained
  /\ judge = "AC" => pc = "done" /\ flag = "AC" /\ left = {} /\ count # 0
  /\ LimitsFair
  /\ barred => Barred

\* No verdict and no test before the runner is started.
LEMMA InitInv == Init => ProgramsInv
  <1> SUFFICES ASSUME Init PROVE ProgramsInv
    OBVIOUS
  <1>1. lang \in Languages \cup {0} /\ asked.time \in Nat /\ asked.mem \in Nat
    BY ProgramsAssumption DEF Init
  <1>2. LimitsFair
    BY DEF Init, LimitsFair
  <1> QED
    BY <1>1, <1>2 DEF Init, ProgramsInv, NothingRun, AllExplained

\* What a program calls, and what was explained, does not change.
LEMMA BarredSame ==
  ASSUME UNCHANGED <<lang, calls>>
  PROVE  Barred' = Barred
  BY DEF Barred, Counter

\* Steps that leave program and language alone.
LEMMA BarredKept ==
  ASSUME barred => Barred, UNCHANGED <<barred, lang, calls>>
  PROVE  barred' => Barred'
  BY BarredSame

\* What explains that a test passed is not taken back.
LEMMA ExplainedKept ==
  ASSUME NEW t, Explained(t), source' = source, built => built', UNCHANGED solutionVars,
         ran \subseteq ran', unforked \subseteq unforked'
  PROVE  Explained(t)'
  BY DEF Explained, solutionVars

\* The same of all tests that are through.
LEMMA AllExplainedSame ==
  ASSUME AllExplained, UNCHANGED <<solutionVars, source, built, copied, left, ran, unforked>>
  PROVE  AllExplained'
  BY ExplainedKept DEF AllExplained

\* Until the tests are run nothing is claimed but what was built.
LEMMA CompileStep ==
  ASSUME ProgramsInv,
         \/ Files \/ NoCompiler \/ CompilerForks \/ CompilerForkFails
         \/ Compiles \/ ExecFails \/ UnknownLanguage \/ Submit
  PROVE  ProgramsInv'
  <1> USE DEF Goto, CompileError, solutionVars, runnerVars
  <1>1. pc' # "tests" /\ pc \notin {"tests", "forever", "done"}
    BY DEF Files, NoCompiler, CompilerForks, CompilerForkFails, Compiles, ExecFails,
           UnknownLanguage, Submit
  <1>2. LimitsFair'
    BY <1>1 DEF LimitsFair
  <1>3. UNCHANGED <<lang, asked, good, calls, barred, count, flag>>
    BY DEF Files, NoCompiler, CompilerForks, CompilerForkFails, Compiles, ExecFails,
           UnknownLanguage, Submit
  <1>4. left' = copied' /\ count' = 0 /\ copied = left
    BY <1>1 DEF ProgramsInv, Running, NothingRun, Files, NoCompiler, CompilerForks,
                CompilerForkFails, Compiles, ExecFails, UnknownLanguage, Submit
  <1>5. barred' => Barred'
    BY <1>3, BarredKept DEF ProgramsInv
  <1>6. AllExplained' /\ NothingRun'
    BY <1>4 DEF AllExplained, NothingRun
  <1>7. judge' # "AC"
    BY <1>1 DEF ProgramsInv, Files, NoCompiler, CompilerForks, CompilerForkFails, Compiles,
                ExecFails, UnknownLanguage, Submit
  <1>8. built' => source' /\ good' /\ pc' \notin {"files", "compile", "child"}
    BY <1>1 DEF ProgramsInv, Files, NoCompiler, CompilerForks, CompilerForkFails, Compiles,
                ExecFails, UnknownLanguage, Submit
  <1> QED
    BY <1>2, <1>3, <1>4, <1>5, <1>6, <1>7, <1>8 DEF ProgramsInv

\* init_parameters: limits and counters are fixed, nothing has been run.
LEMMA ParametersStep == ProgramsInv /\ InitParameters => ProgramsInv'
  <1> SUFFICES ASSUME ProgramsInv, InitParameters PROVE ProgramsInv'
    OBVIOUS
  <1> USE DEF InitParameters, Goto, solutionVars
  <1>1. asked.time \in Nat /\ asked.mem \in Nat
    BY DEF ProgramsInv
  <1>2. LimitsFair'
    <2>1. /\ time_lmt' \in 1 .. 30
          /\ asked.time \in 1 .. 30 => time_lmt' >= asked.time
      BY <1>1, TimeFair
    <2>2. FairMem(mem_lmt', asked.mem)
      BY <1>1, MemFair
    <2>3. asked' = asked
      OBVIOUS
    <2> QED
      BY <2>1, <2>2, <2>3, SMT DEF LimitsFair, FairMem
  <1>3. barred' => Barred'
    BY BarredKept DEF ProgramsInv
  <1>4. AllExplained'
    BY DEF ProgramsInv, Running, NothingRun, AllExplained
  <1> QED
    BY <1>2, <1>3, <1>4 DEF ProgramsInv, Running, NothingRun

-----------------------------------------------------------------------------
(* The tests.                                                              *)

\* A verdict AC explains the test it is for.
LEMMA ComparedAC ==
  ASSUME NEW t, NEW x, "AC" \in Compared(t, x)
  PROVE  x = expected[t]
  BY DEF Compared

\* One more test is over, and what explains it is there afterwards.
LEMMA TestStep ==
  ASSUME ProgramsInv, NEW t, Begin(t), barred' => Barred',
         UNCHANGED <<solutionVars, source, built, judge, time_lmt, mem_lmt, copied>>,
         pc' \in {"tests", "forever"},
         ran \subseteq ran', unforked \subseteq unforked',
         flag' = "AC" /\ pc' = "tests" => Explained(t)'
  PROVE  ProgramsInv'
  <1> USE DEF Begin
  <1>1. AllExplained
    BY DEF ProgramsInv
  <1>2. \A u \in copied \ left : Explained(u)'
    BY <1>1, ExplainedKept DEF AllExplained
  <1>3. (copied \ left)' \subseteq (copied \ left) \cup {t}
    OBVIOUS
  <1>4. flag' = "AC" /\ pc' = "tests" => AllExplained'
    BY <1>2, <1>3 DEF AllExplained
  <1>5. LimitsFair'
    BY DEF ProgramsInv, LimitsFair, solutionVars
  <1>6. judge' # "AC"
    BY DEF ProgramsInv
  <1>7. count' \in Nat /\ left' \subseteq copied' /\ copied' # {} /\ Running'
    BY DEF ProgramsInv, Running
  <1> QED
    BY <1>4, <1>5, <1>6, <1>7 DEF ProgramsInv, solutionVars

\* A program that was run explains its test.
LEMMA RunStep ==
  ASSUME ProgramsInv, NEW t, RunSolution(t)
  PROVE  ProgramsInv'
  <1> USE DEF RunSolution, solutionVars
  <1>1. Barred' = Barred
    BY BarredSame
  <1>2. barred' => Barred'
    BY <1>1
  <1>3. flag' = "AC" => ~ Barred /\ "AC" \in Compared(t, prints[t])
    OBVIOUS
  <1>4. flag' = "AC" => Explained(t)'
    <2> SUFFICES ASSUME flag' = "AC" PROVE Explained(t)'
      OBVIOUS
    <2>1. prints[t] = expected[t] /\ t \in ran'
      BY <1>3, ComparedAC
    <2>2. built /\ source /\ good
      BY DEF ProgramsInv
    <2> QED
      BY <2>1, <2>2 DEF Explained
  <1>5. pc = "tests" /\ pc' = pc /\ ran \subseteq ran' /\ unforked \subseteq unforked'
    BY DEF Begin
  <1> QED
    BY <1>2, <1>4, <1>5, TestStep

\* exec failed: only what expects a blank output passes.
LEMMA NothingStep ==
  ASSUME ProgramsInv, NEW t, NothingToRun(t)
  PROVE  ProgramsInv'
  <1> USE DEF NothingToRun, solutionVars
  <1>1. barred' => Barred'
    BY BarredKept DEF ProgramsInv
  <1>2. flag' = "AC" => "AC" \in Compared(t, "blank")
    BY "AC" # "RE", Zenon
  <1>3. flag' = "AC" => Explained(t)'
    BY <1>2, ComparedAC DEF Explained
  <1>4. pc = "tests" /\ pc' = pc
    BY DEF Begin
  <1> QED
    BY <1>1, <1>3, <1>4, TestStep

\* fork failed: only what expects the output before it passes, or the loop
\* goes on for ever.
LEMMA ForkFailsStep ==
  ASSUME ProgramsInv, NEW t, ForkFails(t)
  PROVE  ProgramsInv'
  <1> USE DEF ForkFails, solutionVars
  <1>1. barred' => Barred'
    BY BarredKept DEF ProgramsInv
  <1>2. Begin(t) /\ unforked' = unforked \cup {<<t, userout>>} /\ ran' = ran
    OBVIOUS
  <1>3. CASE flag' \in {"RE", "TLE", "MLE", "OLE"} \cup Compared(t, userout) /\ UNCHANGED pc
    <2>1. flag' = "AC" => "AC" \in Compared(t, userout)
      BY <1>3
    <2>2. flag' = "AC" => Explained(t)'
      BY <1>2, <2>1, ComparedAC DEF Explained
    <2> QED
      BY <1>1, <1>2, <1>3, <2>2, TestStep DEF Begin
  <1>4. CASE pc' = "forever" /\ UNCHANGED flag
    BY <1>1, <1>2, <1>4, TestStep
  <1> QED
    BY <1>3, <1>4

\* The verdict is what the last test left.
LEMMA ReportStep == ProgramsInv /\ Report => ProgramsInv'
  <1> SUFFICES ASSUME ProgramsInv, Report PROVE ProgramsInv'
    OBVIOUS
  <1> USE DEF Report, solutionVars, runnerVars
  <1>1. barred' => Barred'
    BY BarredKept DEF ProgramsInv
  <1>2. flag' = "AC" /\ pc' # "forever" => AllExplained'
    BY AllExplainedSame DEF ProgramsInv
  <1>3. LimitsFair' /\ Running'
    BY DEF LimitsFair, Running
  <1>4. judge' = "AC" => flag = "AC" /\ left = {} /\ count # 0
    OBVIOUS
  <1> QED
    BY <1>1, <1>2, <1>3, <1>4 DEF ProgramsInv

\* Every step.
LEMMA NextInv == ProgramsInv /\ [Next]_vars => ProgramsInv'
  <1> SUFFICES ASSUME ProgramsInv, [Next]_vars PROVE ProgramsInv'
    OBVIOUS
  <1>1. CASE \E t \in Test : RunSolution(t) \/ NothingToRun(t) \/ ForkFails(t)
    BY <1>1, RunStep, NothingStep, ForkFailsStep
  <1>2. CASE UNCHANGED vars
    <2> USE <1>2 DEF vars, solutionVars, runnerVars
    <2>1. barred' => Barred'
      BY BarredKept DEF ProgramsInv
    <2>2. flag' = "AC" /\ pc' # "forever" => AllExplained'
      BY AllExplainedSame DEF ProgramsInv
    <2>3. LimitsFair'
      BY DEF ProgramsInv, LimitsFair
    <2> QED
      BY <2>1, <2>2, <2>3 DEF ProgramsInv, Running, NothingRun
  <1> QED
    BY <1>1, <1>2, CompileStep, ParametersStep, ReportStep DEF Next

\* The invariant of every run of one solution.
THEOREM Invariance == Spec => []ProgramsInv
  BY InitInv, NextInv, PTL DEF Spec

-----------------------------------------------------------------------------
(* What follows for every run.                                             *)

\* Whatever fork or exec failed, an accepted solution was run on every test
\* there was, except where what is expected is blank or is the output before.
THEOREM AcceptedRan == Spec => []AcceptedMeansRun
  <1>1. ProgramsInv => AcceptedMeansRun
    BY DEF ProgramsInv, AcceptedMeansRun, AllExplained, Explained
  <1> QED
    BY <1>1, Invariance, PTL

\* Whatever a problem asks for, the limits are in range and not below that.
THEOREM LimitsAreFair == Spec => []LimitsFair
  <1>1. ProgramsInv => LimitsFair
    BY DEF ProgramsInv
  <1> QED
    BY <1>1, Invariance, PTL

\* No program is stopped that makes only the calls it cannot do without.
THEOREM EssentialAllowed == Spec => []CallsFit
  <1>1. ProgramsInv => CallsFit
    BY EssentialCounted DEF ProgramsInv, CallsFit, Barred
  <1> QED
    BY <1>1, Invariance, PTL
=============================================================================
