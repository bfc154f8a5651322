# RunServer in TLA+

RunServer is the judge of an online judge: a Go server takes judge requests over
HTTP, queues them, and judges each in a goroutine of its own with the help of a
compiler driver, a ptrace-based runner (both C++) and the similarity tester SIM (C).
This directory holds TLA+ modules of it, TLC configurations, and TLAPS proofs.
Paths below are relative to `src/`.

## 1. Inventory

| Component | State it keeps | Operations | Interacts through | What makes it correct |
|---|---|---|---|---|
| Dispatcher (`main.go`) | `waittingQueue`, `SyncControll.lock` | `Handler`, `AddQueue`, `IsEmpty`, `GetFrontAndRemove`, `JudgeForever` | HTTP handlers and the loop share the list; the loop starts `go Judge` | no request lost or doubled, first come first served, never a `Front()` of an empty list, everything dispatched in the end |
| Judging (`judge.go`, `zjgsu.go`, `main.go:126-139`) | per goroutine: `solution`; shared: the `ZJGSUJudger` in `VJs`, `RUN_PATH`, `./simfile`, the database | `solution.Init`, `Match`, `Run` = `Init`, `Login`, `Submit`, `GetStatus`; `UpdateSim`, `get_sim`, `UpdateRecord` | shared fields, files and database rows; child processes | every solution ends with its own verdict and similarity; no directory or simfile stays; counters exact; a panic only where it must be |
| Similarity script (`sim/sim.sh`) | `simfile` in the current directory | one run over the pool | called by `get_sim`, calls `sim_text` | the oldest similar solution, or nothing |
| Compiler driver (`Cjudger/compiler.cc`) | child process, limits | `fork`, `exec`, `wait` | exit status | nothing is accepted that was not compiled and run |
| Runner (`Cjudger/runner.cc`) | `judge_flag`, `usedtime`, `topmemory`, `call_counter`, `sub`, `error.out`, the child | `main` over the directory, `run_solution`, `watch_solution`, `judge_solution`, `init_parameters`, `init_syscalls_limits` | ptrace and wait4 | AC means all tests, all limits, no forbidden call; always ends |
| Output comparison (`compare`, `find_next_nonspace`) | two file positions, two characters, the verdict | one pass over two files | called by `judge_solution` | WA iff words differ, PE iff only layout differs, ends |
| System call tables (`okcalls.h`) | two parallel lists per language | `init_syscalls_limits` | `call_counter` | every call a program cannot do without is allowed |
| SIM text layer (`text.c`, `tokenarray.c`, `pass1.c`, `stream.c`, lexers) | token array, 16-bit newline buffer, `Text[]` | `Read_Input_Files`, `Store_Token`, `Open_Text`/`Next_Text_Token` | global arrays | each text is an interval of the token array |
| SIM forward references (`hash.c`) | `forward_reference[]`, `last_index[]` | `Make_Forward_References`, `Forward_Reference` | read by `compare.c` | chains link exactly the next position whose run has the same hash codes |
| SIM comparison (`compare.c`, `add_run.c`, `runs.c`, `algollike.c`) | best run so far, the array of runs | `Compare_Files`, `compare_one_text`, `lcs`, `add_run` | `hash.c`, token array | the longest common run; no overlap; inside the texts |
| SIM percentages (`percentages.c`, `sortlist.bdy`) | a list of matches per pair of files | `add_to_percentages`, `Show_Percentages` | `add_run` | percentages as `sim.1` defines them |
| SIM sorted runs (`aiso.bdy`) | a tree and a list through its nodes | `InsertAiso`, iteration | `runs.c` | sorted, nothing lost |
| SIM runs output (`pass2.c`, `pass3.c`) | positions to lines, two files read side by side | `Retrieve_Runs`, `Show_Runs` | not used with `-p` | a run is shown as the lines of its tokens |
| SIM command line (`sim.c`, `options.c`, `newargs.c`, `ForEachFile.c`) | option table, argument vector, the text of names, the name buffer of a scan | `do_options`, `main`, `get_new_std_input_args`, `get_new_recursive_args`, `ForEachFile` | decides what the rest of SIM works on | options, names, separators and directories mean what `sim.1` says |
| SIM support (`idf.c`, `any_int.c`, `fname.c`, `Malloc.c`, `debug.c`, lexers) | tables, buffers | | | see "Not modelled" |
| `vjudger` (HDU, PKU) and `GoOnlineJudge/model` (database) | outside of the repository | as called from `judge.go` and `main.go` | | modelled as external |

What is hard here: goroutines that share a judger, a file tree and a file without a
lock; check-then-act on the queue; verdicts that several guards in a fixed order
compete for; the parity of ptrace stops; loops that end only through their last
characters; child processes that do as they please, or are never started; unsigned counters that
must meet 0; one name buffer for all levels of a directory scan. `PROJECT.json` lists the hazards
by line.

## 2. Modules

| Module | Models | Built on |
|---|---|---|
| `JudgeQueue` | abstract: accepted requests are dispatched once each, in order | |
| `Dispatcher` | `main.go`: handlers, lock, list, loop | refines `JudgeQueue` |
| `DispatcherProofs` | TLAPS proofs about `Dispatcher` | |
| `Judging` | one `Judge` goroutine per request, `judge.go`, `zjgsu.go`, `sim.sh` | |
| `JudgingProofs` | TLAPS proofs about `Judging`, one at a time and overlapping | |
| `RunServer` | dispatcher and goroutines in one process | `Dispatcher`, `Judging` |
| `RunServerProofs` | TLAPS proofs about `RunServer` | `DispatcherProofs`, `JudgingProofs` |
| `Runner` | `runner.cc`: directory loop, watching, judging | |
| `RunnerProofs` | TLAPS proofs about `Runner` and `TextCompare` | |
| `TextCompare` | `compare` and `find_next_nonspace` | |
| `SimTexts` | `pass1.c`, `tokenarray.c`: texts as intervals of the token array, new and old ones | |
| `ForwardRefs` | `hash.c`: both sweeps of the forward references | `SimTexts` |
| `Comparison` | `compare.c`, `add_run.c`, `algollike.c`: finding runs | `ForwardRefs` |
| `ComparisonProofs` | TLAPS proofs about `ForwardRefs`, and about `Comparison` as `Similarity` runs it | |
| `Percentages` | `percentages.c`, `sortlist.bdy` | |
| `Similarity` | `read_and_compare_files` and `Show_Percentages` as a whole, under any options | `Comparison`, `Percentages` |
| `TextLines` | `text.c`, `pass2.c`: newline buffer and lines of runs | |
| `ShowRuns` | `pass3.c`: which lines are printed for a run | `TextLines` |
| `FileTree` | `ForEachFile.c` and `register_file`: scanning directories while files are removed | |
| `CommandLine` | `options.c`, `main` of `sim.c`, `newargs.c` | `FileTree` |
| `CommandLineProofs` | TLAPS proofs about `CommandLine` | |
| `Programs` | `compiler.cc`, the children of `runner.cc`, `init_parameters`, `okcalls.h`, and `files`, `compile`, `Submit` of `zjgsu.go` | |
| `ProgramsProofs` | TLAPS proofs about `Programs` | |
| `SortedRuns` | abstract: stable sorted insertion | |
| `Aiso` | `aiso.bdy` as `runs.c` uses it: the rotating tree and its list | refines `SortedRuns` |
| `RunsProofs` | TLAPS proofs about `TextLines`, `ShowRuns` and `Aiso`: what becomes of runs once they are found | |
| `MC...` | constants for TLC | the module they are named after (`MCTextLines`: `ShowRuns`) |

Definitions named "Mutant of X" in a module are not part of the model. Each is X with
a plausible mistake, and some property of some run must fail with it in X's place.

### Dispatcher

`queue`, `lock`, `info` are the program's variables; `hpc` and `lpc` are the program
counters of the handlers and of the loop. A critical section is as many steps as it
has accesses that matter: `AddLock` takes the lock and finds the tail of the list,
`AddLink` links the new element behind that tail and unlocks, so that without the
lock two handlers would overwrite each other's link. `IsEmpty`, a single read under
the lock, is one step; `TakeFront` and `TakeRemove` are the two look-ups of the front in
`GetFrontAndRemove`, with the panic of an empty list in the first. `dispatched` records the
`go Judge` statements.

### Judging

One action per access to something shared, in the order of the code. `z` is the one
`ZJGSUJudger` in `VJs`: `SetWorkdir`, `LoginTime` and `LoginMem` write it, and `Mkdir`,
`Files`, `Compile` and `GetStatus` read it again, as the code does. `fs[s]` is the directory
`RUN_PATH/s`: does it exist, does the work directory in it, whose source and whose
binary are there, are there tests, and the files for SIM. `db` holds verdict and
similar solution of each solution, `solved` the counters of `UpdateRecord`, which counts
in one step and records in another. A panic (`LoginTime` for an unknown problem,
`GetStatus` without a directory) runs the deferred `RemoveAll` and ends the process:
no action is enabled once `crashed` holds.

Data is abstracted to whose it is. What compiler and runner say of a solution among
its own files is a constant (`Stored[s].outcome`); when binary, tests and limits do not
belong together, any verdict is possible; without tests it is NA. The strings of
`z.workdir` are written and read without synchronisation; the instances use Sids of
equal length, for which a torn read is one of the two values. External commands
(`mkdir`, `cp`, `compiler`, `runner`, `sim.sh`) are taken to start; the language and the
text of `ce.txt` are left out; `Info.Pid` is the solution's problem. The percentage
`sim.sh` writes goes with the solution it names and is left out. A problem's or
solution's `Detail` that fails yields nil, as the unchecked use at `zjgsu.go:55` presumes it
never does.

### RunServer

`Dispatcher` and `Judging` side by side. `GoJudge` is the go statement: `Spawn` of the one and
`Start` of the other in one step. Nothing bounds how many goroutines overlap, and a
crash stops handlers and loop, too.

### Runner

`Skip`, `Fork` and `Report` are the loop of `main`; `Judge` is `judge_solution`. `wait4` is
split into what happens to the child (`EnterCall`, `LeaveCall`, `Stop`, `End`: the
environment, with any memory sample, any use of time, any output) and what
`watch_solution` does about it: one action per exit of its loop, guarded by the
conditions before it in the code. `sub` is the code's bit that tells entries from ends
of calls; `call`, `completed` and `forbidden` record what the child really did. `alarm`
is the wall clock `run_solution` sets. C and C++ only: the Java branch (its memory samples, SIGCHLD)
is left out; `fork` succeeds (when it does not is a matter of `Programs`). Limits of
calls are those of the 32-bit table: `exec` once, the time of day twice (on x86-64 only the
latter). `SIGTRAP` comes from the tracing alone; `prepare_files`, which has no return statement for
tests, returns what a build without optimisation (`make.sh`) leaves in the register,
8, that is: true.

### Programs

One solution, from its source file to the line `runner` prints, with every fork and exec
that may fail. `Files` may fail to write, and `cp` may copy some of the
tests only (`copied`); `NoCompiler` is an `exec.Command` that never
starts; `CompilerForkFails` and `ExecFails` are the two ways `compiler` exits with 0 without
having compiled. In the runner a test is one step, with any verdict `Runner` and
`TextCompare` allow: `RunSolution`, `NothingToRun` when `execl` fails (its child has emptied
`user.out` and exits with 0), and `ForkFails`, where the parent watches no one. `wait4` then
fails and `status`, `ruse` and `reg` are uninitialised: any way out of `watch_solution`, one
of them to `compare` with what an earlier test left in `user.out`, or none. `Megabytes` is the
expression of `init_parameters` in 32 bits, `Counter` what `init_syscalls_limits` makes of the
tables of `okcalls.h`, which are given as the numbers x86-64 has for the calls.

### TextCompare

The two loops of the code as a state machine over two positions and two current
characters; `stage` says in which loop it is, `"lead"` and `"trail"` for the two calls of
`find_next_nonspace`. Characters are letters, space, line feed, carriage return and 0.

What the files mean is said without looking at the loops: `Words` are the letters of a file, each
marked with whether it begins a word, `WithoutCR` is its layout. `MCTextCompare` assumes, and TLC
confirms for all files of the instance, that two files have the same `Words` exactly if the lists of
words they are made of are equal (`WordsAreWords`).

### SimTexts, ForwardRefs, Comparison

Together they are `read_and_compare_files` of `sim.c`; `phase` says how far it has got.
`array` is `Token_Array` and `limits[n + 1]` is `Text[n].tx_limit`; a text starts where the one
before it ends. What a file holds is the environment's choice, and so is where the
separator of new and old texts stands. `forward_reference`, `last_index`, `n`, `j`, `i` are the
variables of `hash.c`: `HashPosition` is one turn of the inner loop of the first sweep,
`CleanFollow` and `CleanSet` one turn of the loops of the second. A hash function is any
function of `MinRun` tokens (`Hashes`): the size of the table, which `hash1` is taken modulo,
depends on the memory there is, and `hash2` samples five tokens. That is why the model
holds more behaviours than a build, and why `RefsExact` speaks of codes, not of tokens.
Position 0 has no tokens and no reference; what `hash2` computes from it is compared with
nothing.

`ComparePair` and `CompareNext` are the loops of `Compare_Files`, `ScanPosition`, `EnterRun` and
`TryNextToken` those of `compare_one_text`, and `SkipCandidate` and `TryCandidate` one candidate
of `lcs`. `lcs` compares from the end of the shortest run that is better than the best so
far; `Matches` says what it finds out. `BestRunSize` is `Best_Run_Size` of `algollike.c`, with the
non-finals, openers and closers of a language as constants. `sim_text` has no such
tokens and takes every token for a possible start: the run `similarity` has it so.
Options are a set of letters; a run is entered with both its places.

### Percentages, Similarity

`match` is the list `match_start`, kept as a sequence (elements are only appended, sorted,
and taken out). `SortMatchList` is the merge sort of `sortlist.bdy`: elements are dealt to two
lists, and merged, from the second one when neither head comes first. `Percent` computes
the float division of `match_percentage` in integers, with 24 bits and rounding to nearest;
in TLC's 32 bits it is exact for texts of at most 127 tokens. `PrintTopFile` is one call of
`print_and_remove_perc_info_for_top_file`. `listed` and `lines` are the list as it was printed
from and what was printed. `Similarity` joins all: `AddRun` is `add_run`, which counts the run
under `-p`; without `-p` the runs are kept, and what becomes of them is in `Aiso` and `ShowRuns`.

### TextLines

A text is a sequence of tokens and newlines. `ReadToken` and `ReadNewline` are the lexer's
calls, `StoreNewline` and `CloseFirst` build the buffer, which may be there or not from the
start, run out of memory at any time, or meet a difference that does not fit (`MaxDiff`
stands for 65535). `FindRuns` chooses the tokens the runs of a text begin and end at.
`NextLine` is the inner loop of `pass2_txt`, on buffer or file, `FillPos` and `FillAtEnd` set a
position's line; a position leaves `tx_pos` when its line is set, and positions at the same
token are taken in either order (`sort_pos_list` does not tell them apart). Files do not
change between the passes.

### ShowRuns

Goes on where `TextLines` ends. `OpenChunks` is `show_run` up to its loops: the two line counts,
unsigned (`SizeMod` values), and the files moved to the first line of their chunks, or the
null file for one that is gone. `ShowColumns` and `ShowDiff` are one turn of the loops. A line
is shown as the set of the tokens on it. How `fill_line` and `show_2C_line` fit it into a
column is left out; they rely on a column of at least one character ("always room for this
one", `pass3.c:244`), which a page width (`-w`) of 1 to 3 does not leave.

### FileTree, CommandLine

`argv` is the argument vector, an argument a sequence of symbols. `meant` is what a user had in
mind: options with values, files, lines on standard input; `Spelling` joins options and values
in every way there is. `DoArg` is one call of `do_arg`, `LastLetter` where its loop ends. From
`Incompatible` to `NoOutput` are the statements of `main` in their order, `StdInput`, `Recurse`,
`NextArgument` and `EndOfScan` those of `newargs.c`: `args` is its one text, each name ended by a
newline, `NNames` counts newlines and `NewArgv` cuts the text where names start. `Work` says
which of the three kinds of work `main` goes on with. `WorkFits` compares all of this with
what was meant: the program refuses exactly what is no proper use, with one exception. With
`-i` and no name on standard input, `std_input` reads the byte before its buffer, and the
program may refuse or go on.

`FileTree` has the stack of the calls of `do_FEF` (`frames`: directory, entries not read yet,
length of its name in the shared buffer) and the buffer `fn`. `Visit` is a call up to the
loop, `ReadEntry` and `Leave` a turn of the loop and its end; whatever way a call returns,
`Return` cuts the buffer back for the caller. Another process may remove files during the
scan (`EntryRemoved`), of which directories read before still tell. Directories may be on
another device, unreadable, or contain themselves, as a remount does. `int dev` is taken to
hold the device number; the depth is unlimited, as in all calls there are.

### Aiso, SortedRuns

`link` holds all pointers of the tree and the list; a pointer to a pointer (`hook`, `prev`) is
the name of a place. `Down` and `Rotate` are one turn of the loop of `InsertAiso`, `LinkNode` its
end. `acc_mark` doubles with each access; a failing `TryMalloc` drops the run
(`InsertFails`), as `add_to_runs` does. `ExtractAiso` is never instantiated. `Chain` and `InOrder` are
what following the list and going through the tree yield; `RunList`, the chain with the sizes, is
what `SortedRuns` is about.

## 3. Runs

| Run | Question | Instance | Result |
|---|---|---|---|
| `dispatcher` | Are requests lost, doubled, reordered or starved; does the loop ever take from an empty list? | 3 requests, each may be malformed | holds; implements `JudgeQueue` with its fairness |
| `judging_serial` | Is one judgement at a time right? | 6 requests in any order, one at a time; pending or formerly accepted solutions | holds |
| `server` | From request to verdict: is anything forgotten, and what survives overlapping? | 2 requests, all interleavings, one solution copied from the other | holds, unless a goroutine panics |
| `runner` | What does a verdict mean; does the runner always end? | 2 tests and another file, 4 system calls (never, once, twice, always allowed), 3 ticks, 2 units of memory | holds |
| `programs` | What can be accepted when processes cannot be started; are limits fair, and can every program start? | 2 tests, 3 time and 10 memory limits at the edges of the arithmetic, C, C++, Java or none, two sets of calls | holds |
| `compare` | Does `compare` compute what its verdicts mean? | all 67 600 pairs of files of at most 3 of 6 characters, or missing | holds |
| `command_line` | Is what was meant what is done, and with which files? | up to 3 of 13 options in every spelling, 4 lists of arguments, 4 inputs, a tree of 8 files on 2 devices with a loop, a line break and a closed directory, 2 removals | holds |
| `similarity` | Are references what `hash.c` says; does SIM find what `sim.1` says under each option; can `sim.sh` trust what `sim_text -p` prints? | up to 3 texts, 6 tokens of 2 kinds, runs of at least 2, two pairs of hashes, five sets of options, with `-P` or without | holds for the lines `sim.sh` reads |
| `text_lines` | Do runs get the right lines, with and without the buffer, and are these printed? | 2 texts of at most 4 tokens and newlines, differences of at most 1, three formats, files that are gone | holds |
| `aiso` | Do tree and list agree through rotations, and does insertion end? | 7 runs of 3 sizes | holds; implements `SortedRuns` |
| `pair_verdict` | Parallel judging: own verdict? | 2 requests | **violated**, see 5 |
| `similarity_doc` | Does `sim.1`'s "can be found in" hold for every line printed? | 2 texts, 7 tokens | **violated**, see 5 |

Why the bounds are enough: two handlers and the loop are all that can meet in a
critical section, the third request lets the queue hold one while another is taken.
A goroutine disturbs another through one pair of steps at a time, so two at a time
show every kind of interference. Two tests let time add up and a child be followed by another; three ticks
allow a total that neither test reaches alone; a limit of two is the largest finite
limit in `okcalls.h`. Three characters make a word, a gap and a word, or a gap of
carriage return and line feed after a word. Sids, requests and results are small sets
because the code never computes with them, but for SIM's "older than".

In `programs` a second test finds what the first one left in `user.out`; 131072 KB are the
largest memory limit eight times of which is not cut off, 2^21 KB the first that overflows.
In `command_line` two options join, override each other and imply others; a third gives the
value a place behind joined letters. `d/d` is `d` again, which only loop detection ends; two
removals let a file go before and after its directory was read.

SIM: runs of two tokens in texts of six in all let a run be extended, meet the end of its
text or its own copy, and follow another one; three texts let a chain pass through a
text that is to be skipped. One pair of hashes never tells some runs apart, with the
other the second sweep cuts out what the first one linked. Three texts with runs between
each two of them make the list longer than the two elements a merge cannot get wrong, with
ties. What the float does is no matter of states: the assumption `PercentTruncated` of
`MCSimilarity` checks `Percent` for all sizes below 128 (29 of 100 is the smallest quotient it
gets wrong). Two texts make the buffer hold
another text's entries before the one's that is looked up; differences of 0, 1 and more
than fit; a count of lines that wrapped around would be seen as one of 16 values. Seven runs build a tree whose insertions rotate several times on their way.

`CHECK_DEADLOCK FALSE` stands where the model ends: all goroutines are done or the process has panicked, the
runner has reported, `compare` has returned, SIM has printed or given up, the runs are all inserted. The dispatcher never
stops, and its run checks that.

### Fairness

`Dispatcher`: weak fairness for the loop and for a handler that has decoded its
request. The mutex of the Go version concerned has no fairness of its own, but the
loop sleeps a second between its short critical sections, and other handlers finish:
with finitely many requests a waiting handler finds the lock free for good. Clients
need not send anything. `RunServer`: a started goroutine goes on, too; the programs it
waits for run under alarms and limits. `Runner`: the runner goes on, the wall clock runs
out, and a stop for the alarm is reported before anything else (a child that was
stopped or slept is woken by it). `TextCompare`,
`ShowRuns` and `Aiso` (inside an insertion): the program goes on; nothing it does blocks. `Similarity`, `CommandLine` and `Programs` are checked for safety only and assume
no fairness; that walks along references end follows from `ReferencesForward`.

## 4. Proofs

TLAPS proves what follows for every value of the constants that satisfies the named
assumptions; TLC evaluates these assumptions on its instances. Each inductive invariant was
checked by TLC before it was proved. Unless said otherwise none of the properties is inductive
by itself.

### Dispatcher

`TypeCorrect`, `NoLoss`, `NoPanic` (`[]NeverTakesFromEmpty`) and `Refinement` (the locked list
implements the safety part of `JudgeQueue`). `DispatcherInv` adds `Exclusion` (the lock's owner
is the one goroutine inside a critical section, and the tail a handler holds is the list as it
is) and `FrontStays` (between `IsEmpty` and the removal the list has a front, and it is the one
returned). The heart is lemma `FlowStep`: the sequence of dispatched, held and waiting requests
grows by the request that unlocks and is otherwise left alone by every step. Assumed:
`NamesAssumption`, that requests, the loop and "no owner" are different things.

### Judging

One judgement at a time, which is the hypothesis `MaxInFlight = 1` of these theorems: `VerdictsAreOwn`
(`[]OwnVerdict`), `OldestFound` (`[]SimOldest`), `RecordsAreExact`, `DirectoriesOwned` and
`PanicsExplained`. They are false without it (section 5). `SerialInv` says that nobody else is at
work (`Alone`), what the goroutine at work has found out so far and what the shared judger holds
for it (`Own`, `Shared`), which parts of its directory are there at each point, and that no other
directory is (`Trees`), when the simfile exists and what it names (`Simfile`), and which
counter a running `UpdateRecord` leaves behind its database (`Records`).

However many goroutines overlap: `SimfileOwned`, that the simfile exists only between some goroutine's
`sim.sh` and its own `Remove`. `OverlapInv` is what survives overlapping: types, the simfile, and
that nothing is ever copied for the zero solution.

### RunServer

`ServerInv` joins `DispatcherInv` and `OverlapInv` with "a goroutine was started exactly for each
dispatched request"; lemmas `QueueStep` and `JudgingStep` show each step of the server to be one of
either part or a stutter, so that the lemmas of both parts carry over. `QueueOfServer`: the server still
implements the abstract queue, panics and all. `SimfileOwned` for any number of
requests. `AllJudged` (`[]IdleMeansJudged`) needs in addition that an ended goroutine has left a
verdict, or another one judges the same solution again (`Settles`). Its hypothesis is that
requests are for this judge: the others may give up and leave a solution pending.

### Runner

`Accepted` (`[]AcceptedMeansAll`), `LimitsKept` (`[]LimitsChecked`: the two limits `judge_solution`
checks again are dead code) and `OneAtATime` from `RunnerInv`: which tests have passed at each
point of the loop (`Progress`), and that only a child that is gone ends a test with AC (`Gone`).
Every way out of `watch_solution` is covered by `BreakStep`, every event by `HappensStep`.

`ForbiddenNoticed` (`[]ForbiddenIsError`) and `CallsCounted` (`[]CallsLimited`) from `TraceInv`: the one bit `sub`
agrees with where the child is (`Alternates`), since stops for entering and leaving calls take
turns and those for signals leave it alone; a counter and the calls that came back add up to the
limit, but for the call the child is in (`Balanced`); and a forbidden call has always led to the KILL, to `error.out`, or
to a verdict (`ForbiddenSeen`). Assumed: `RunnerAssumption`, among it that the time limit is positive,
which `init_parameters` establishes.

### Programs

`AcceptedRan` (`[]AcceptedMeansRun`), `LimitsAreFair` and `EssentialAllowed`. `ProgramsInv` says that as long as the
verdict is AC every test that is over can be explained (`AllExplained`), that nothing was run
before the runner starts, and from which call a program was barred. The theorem about limits is
arithmetic: the 32-bit product and the quotient of `Megabytes` for every number asked for.

### ForwardRefs

For any tokens, texts, `Min_Run_Size` and hash functions: `ReferencesExact` (`[]RefsExact`: when the
comparison starts, each reference is the next position at which a run with the same codes starts,
or 0) and `ReferencesForward` (references only lead forwards, at every moment, which is why walks
along chains end). `RefsInv` says how far each sweep has got: `TextsOK` and `PlaceOK` (texts follow
each other, and all that can start a run before `j` was seen; lemma `RestOfText` is the arithmetic
of `RunFits`), `HashOK` (`last_index` has the latest position of each code, and the positions seen
are linked), `CleanOK` (before `i` chains are those of both codes, from `i` on those of `hash1`; what
the search for `i` has passed differs from it). Lemma `OnChain` says where the search stands,
`NextFound` that it ends at the right place. Assumed: `TextsAssumption`, `RefsAssumption`.

### Comparison

For these and any options and language besides, of SIM from its first token to its last run
(`SimSpec` of `Similarity`, whose percentages only listen): `RunsAreReal`, `RunsAreLongest`, `NoneIsMissed` and
`RunsAreBalanced`. Together they are what `sim.1` promises of runs, and they hold however bad the hash
functions are. While texts are read and linked `CompareInv` is `RefsInv`; afterwards

- `Ready`: texts follow each other, and references are exact. It stays true because nothing
  writes them any more (`SameReady`);
- `Place`: which two texts, or which text and how many, are compared, and at which position;
- `Chain`: inside `lcs`, every position that has a longer copy than the best so far is still
  ahead on the chain. Lemma `CopyLinked` brings equal tokens to equal codes, hence to a place on
  the chain, `ChainNext` does not pass it, `LongestFound` says what one candidate yields;
- `RunsOK`: each run entered is real, was the longest, and covers its positions; runs of one comparison
  are in order;
- `NoneMissed`: a position that was passed is in a run or has no copy.

`Best_Run_Size` (`BestRunSize`) is where this could fail: the longest match may be cut by brackets and
tails to less than a shorter match would give. Lemma `AcceptedKept` shows it never is: a
size that is accepted as it stands is not lost in a longer match. It rests on `RoutineLongest`, `TailCut` and
`TailClosed`: cutting off a tail leaves brackets balanced, provided a closer is never among the
tokens a run must not end with. `ComparisonAssumption` asks for that; it is so in every `*lang.l`.

### TextCompare

`VerdictsRight` (`[]VerdictRight`), for files of any length over any letters. `CompareInv` compares what
has been read of the two files. `WordsMatch`: up to where the readers are, the files have the same words, which
is not enough at the edges of words, so that `BoundariesMatch` says in which loops the next characters go
on with a word or begin one in both files alike. `LayoutInv`: as long as nothing but AC was said, the layouts read
so far are the same, or one file has ended and the other has shown white space only; once PE was said, the
two layouts differ, whatever is still to be read. The lemmas about `KeptUpTo`, which picks the elements of a
sequence that are to be kept, and `KeptExists`, that its recursion defines something, carry the rest.
`EventuallyEnds` is checked by TLC.

### TextLines, ShowRuns

`LinesFoundRight` (`[]BufferedLinesRight`), `NotModified` (`[]NoFalseAlarm`) and `RunsShown` (`[]ShownRight`), from
`ShowInv`, for texts, runs and differences of any size, the buffer being lost at any moment or never. It says, pass
by pass,

- `FirstPass`: the entries made so far are the differences of `TokensTo`, the tokens up to the end of a
  line, which are counted in the file alone (`EntriesRight`, `Noted`);
- `SecondPass`: where the scan stands, by buffer or by file (`Scanning`), with the case of a last line that
  lacks its newline; that the positions still to come are ahead of it; that what was found is right, but for
  that case (`LineRight`), and was found once;
- `Showing`: what was printed, what the counters still have to print and where the reader is in the file
  agree, for each of the two chunks.

That both readings of a text have the same tokens and lines, which `NoFalseAlarm` asks for, is
the agreement of the first with the second. The lemmas count lexemes.

### Aiso

`TreeMatchesList` (`[]TreeIsList`) and `ListStaysSorted` (`AisoSpec => SortedSpec`: the tree implements the abstract
list), for runs of any number and size. `AisoInv` says that there is an order of the runs (`ord`, with the positions
`pos`) in which the list threads them (`ListThreads`), which is sorted and stable (`Sorted`), and that each
pointer of the tree spans an interval of it (`Spans`: `lo` and `hi` of a node, all that is before it
under its left pointer and all behind it under its right one), each node with one parent. Such intervals
are what makes a tree of the pointers; no induction over trees is needed. During an insertion the place where the run
belongs lies in what `hook` spans, and `prev` is not behind it (`Seeks`). A rotation keeps the order and moves the intervals
(`LeftTurn`, `RightTurn`, which also show that the pointer at the hook goes to the right node);
`LinkedIn` shows what the new run does to all of them. `ChainIsOrder` and
`InOrderIsOrder` prove that the two traversals yield the order: the recursions have a solution
(the intervals themselves), and by descent along positions, or lengths of intervals, no other one.
`ListedWithNew` turns the new order into the abstract insertion. Assumed: `AisoAssumption`.

### CommandLine

`MeaningRead` (`[]MeaningKept`) and `WorkDone` (`[]WorkFits`), for any options, values, files and lines, spelled in
any way, and any file system that others remove files from. `CmdInv` says for each part of `main` what is known:

- `Parsing`: the arguments still to be read spell the options still to be read, in some way, and the options before
  them are those that were read (`ReadUpTo`; `ValueAfter` is the last value given). `SpellingIs` and
  `SpellingGroups` take a spelling apart into an argument of joined letters, with or without a value, and the
  rest; `GroupRead` is what `do_arg` does to one; `Rejoining`, that the rest is spelled in one of the ways, too;
- `Passed` and `ValuesMeant`: behind a check, it was passed by what was *meant* (`CompatibleFits`, `ValuesGiven`), what
  `main` presumes has been added and nothing else, and the values are still those meant;
- once the program has ended, `WorkFits` itself.

What was found out about the output file stays true while others remove files: what a name leads to stays what it
was or stops being there (`FileLost`), and the file can be opened either way (`OpensLost`, and `OpensEmptied` for what
`main` itself empties). For `-i`, lemmas `StdinEnds` and `KeptEnds` show that the last byte `std_input` keeps is the newline it checks for
exactly if the last line has one or is empty, or there is no name at all. Assumed: `CommandAssumption` (values are
given to the options that take one, the first file does not look like an option) and `TreeAssumption` (what a
file system is).

### Only model-checked

- All liveness (`JudgeQueue`'s fairness, `EventuallyJudged`, `EventuallyInserted` and the like): out of the prover's
  reach.
- `ShownExact`, `FirstTextHonest` and `CopyIsCaught`, the percentages: they rest on what the merge sort computes from every
  list and on the quotient of two floats, in integers of a size only TLC's instances bound.
- `NamesExact` and `OutputNotInput`: what a scan of a whole tree finds. `FilesUnder` says it by recursion over the tree, and
  the scan does it with a stack.

## 5. Findings

`pair_verdict`: `main.go:120` starts goroutines to judge in parallel ("并行判题"). They share one
`ZJGSUJudger`: A sets `z.workdir`, B sets it too, A compiles and runs what it finds in B's
directory. A's solution gets a verdict that is not its own. For the same reason `OwnVerdict`,
`SimOldest`, `RecordsExact`, `DirHasOwner` and `PanicHasCause` are claimed for one judgement at a time
only (`judging_serial`). Overlapping goroutines can also find their directory removed by
another one (runner prints nothing, and `sp[1]` at `zjgsu.go:128` panics), or read another
one's `simfile` between its `sim.sh` and its `Remove`.

`similarity_doc`: `sim.1:209` says that "F consists for x % of G material" means "that x % of F's
text can also be found in G". `add_to_percentages` (`percentages.c:36`) counts a run for both of
its texts. Runs of the first text never overlap, but their copies may be the same: of
texts `aaaa` and `aab`, with runs of two tokens, the second is said to consist for 100 % of the
first, of which two of its three tokens can be found there. `sim.sh` reads the lines of the
first text only; for those the sentence holds (`FirstTextHonest`).

A limit of `text_lines`: once the newline buffer is abandoned, the end of a text that
lacks its last newline is no line end, though it is one in the buffer. A run that ends
there gets a line less than with the buffer. `BufferedLinesRight` says for which tokens the
lines are right nevertheless, and `ShownRight` that no run is shown with lines it does not have.

Seen in `programs`, and contradicted by nothing the repository says: a solution whose compiler
or program could not be executed is judged as one that printed nothing, and passes tests that
expect a blank output; when `cp` fails half-way, only the tests that were copied count; when
`fork` fails in the runner, an earlier output may be compared, or the loop goes on for ever; a
memory limit is eight times what was asked for, and one of 2 GB or more overflows.

## 6. Not modelled

- The lexers other than that of `sim_text`, which is the one `sim.sh` runs, and with them
  `idf.c`, whose binary search only they call.
- `fname.c` (all of it for Windows builds), `Malloc.c` (block lists for leak reports; out of memory
  ends the program, or drops a run or the newline buffer, which is modelled where it is tried),
  `any_int.c`, `debug.c`, logging: no result depends on them.
- The Java branch of `watch_solution`; stops for `SIGTRAP` that do not come from the tracing; the
  tables for i386.
- How lines are fitted into columns (`fill_line`, `show_2C_line`).
- `vjudger` and `GoOnlineJudge/model`, which the repository imports: only as the code uses them.
- The paths in `config.go`, which are read once.

## 7. Plan

Done: dispatcher, judging, server, runner, programs and tables, `compare`; SIM's command line,
texts, references, comparison, percentages, lines, printing and sorted insertion; proofs about
all of them but the scan of directories and percentages.

Next, in this order:

1. Proofs about the scan (`OutputNotInput`, then `NamesExact`).
2. The Java branch of the runner.
3. An abstract specification of a judgement that the serial one implements.

New questions join the runs there are where they concern the same states, and take the
place of weaker ones.
