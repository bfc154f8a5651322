---------------------------- MODULE CommandLine ----------------------------
(***************************************************************************)
(* sim.c, options.c and newargs.c of SIM: the options of a command line    *)
(* are read, checked and acted on, and the list of files is made from the  *)
(* other arguments, standard input (-i) and directories (-R).              *)
(*                                                                         *)
(* An argument is a sequence of symbols: letters, "-", numbers, names and  *)
(* "/".                                                                    *)
(***************************************************************************)
EXTENDS FileTree

CONSTANTS Options,      \* sequences of options: [letter, value], see Spelled
          Arguments,    \* sequences of other arguments
          Inputs        \* sequences of lines on standard input

WithValue == {"r", "w", "t", "o"}
Known == WithValue \cup {"f", "F", "d", "T", "n", "p", "P", "e", "s", "S", "R", "i",
                         "v", "M", "-"}
NoValue == <<>>

\* atoi: numerals as symbols, anything else counts as 0.
Number == [n \in {"0", "2", "24", "50", "100", "101"} |->
             CASE n = "0" -> 0 [] n = "2" -> 2 [] n = "24" -> 24
               [] n = "50" -> 50 [] n = "100" -> 100 [] n = "101" -> 101]
Atoi(s) == IF s[1] = "-" THEN 0 - (IF Len(s) > 1 /\ s[2] \in DOMAIN Number THEN Number[s[2]] ELSE 0)
           ELSE IF s[1] \in DOMAIN Number THEN Number[s[1]] ELSE 0

VARIABLES meant,        \* history: what the command line was spelled from
          argv,         \* arguments that are left
          set,          \* options that are set
          value,        \* strings of those with a value
          pc,
          argc,         \* number of names in the new list
          output,       \* file the output goes to, NoValue for standard output
          work,         \* what is done with the files
          status        \* exit status, -1 while running

mainVars == <<meant, argv, set, value, pc, argc, output, work, status>>
cmdVars == <<treeVars, mainVars>>

-----------------------------------------------------------------------------
(* Ways to spell options, each an argument or joined to the one before,    *)
(* its value in the same argument or in the next.                          *)
Spelling(opts, joined, apart) ==
  LET from[k \in 1 .. Len(opts) + 1] ==
        IF k = Len(opts) + 1 THEN <<>>
        ELSE LET letter == <<"-", opts[k].letter>>
                 rest == from[k + 1]
             IN IF opts[k].value # NoValue
                  THEN (IF k \in apart THEN <<letter, opts[k].value>>
                                       ELSE <<letter \o opts[k].value>>) \o rest
                ELSE IF k # Len(opts) /\ k + 1 \in joined
                  THEN <<letter \o Tail(Head(rest))>> \o Tail(rest)
                ELSE <<letter>> \o rest
  IN from

IsOption(arg) == Len(arg) > 1 /\ arg[1] = "-"

\* Options have the values they need, and what follows them is no option.
ASSUME CommandAssumption ==
  /\ Options \subseteq Seq([letter : STRING, value : Seq(STRING)])
  /\ \A opts \in Options : \A k \in DOMAIN opts :
       (opts[k].value # NoValue <=> opts[k].letter \in WithValue)
  /\ Arguments \subseteq Seq(Seq(STRING))
  /\ \A files \in Arguments : files # <<>> => ~IsOption(files[1])
  /\ Inputs \subseteq Seq(Seq(STRING \ {NL}))

MainInit ==
  /\ TreeInit
  /\ \E opts \in Options, files \in Arguments, lines \in Inputs, ended \in BOOLEAN :
       \E joined, apart \in SUBSET (1 .. Len(opts)) :
         /\ (lines # <<>> \/ ~ended) => \E k \in DOMAIN opts : opts[k].letter = "i"
         /\ meant = [opts |-> opts, files |-> files, lines |-> lines, ended |-> ended]
         /\ argv = Spelling(opts, joined, apart)[1] \o files
  /\ set = {} /\ value = [l \in WithValue |-> NoValue]
  /\ pc = "options" /\ argc = -1
  /\ output = NoValue /\ work = "none" /\ status = -1

Exit(s) == pc' = "exit" /\ status' = s
Fatal == Exit(1)        \* fatal and bad_option
Goto(l) == pc' = l /\ UNCHANGED status

-----------------------------------------------------------------------------
(* options.c                                                               *)
\* The letters of an argument are options until one has a value or is unknown.
LastLetter(arg) ==
  LET Stops == {k \in 2 .. Len(arg) : arg[k] \in WithValue \/ arg[k] \notin Known}
  IN IF Stops = {} THEN Len(arg) ELSE CHOOSE k \in Stops : \A l \in Stops : k <= l

\* Mutant of DoArg: an option's value is taken, but not skipped.
DoArgOneConsumed ==
  /\ pc = "options" /\ argv # <<>> /\ IsOption(argv[1])
  /\ LET arg == argv[1]
         k == LastLetter(arg) IN
     /\ set' = set \cup ({arg[l] : l \in 2 .. k} \cap Known)
     /\ IF arg[k] \notin WithValue THEN UNCHANGED value
        ELSE value' = [value EXCEPT ![arg[k]] = IF k < Len(arg) THEN SubSeq(arg, k + 1, Len(arg))
                                                ELSE IF Len(argv) > 1 THEN argv[2] ELSE <<>>]
     /\ argv' = Tail(argv)
     /\ UNCHANGED <<pc, status>>
  /\ UNCHANGED <<treeVars, meant, argc, output, work>>

\* do_arg with opt_value: the value is the rest of the argument or the next one.
DoArg ==
  /\ pc = "options" /\ argv # <<>> /\ IsOption(argv[1])
  /\ LET arg == argv[1]
         k == LastLetter(arg)
         rest == SubSeq(arg, k + 1, Len(arg)) IN
     /\ set' = set \cup ({arg[l] : l \in 2 .. k} \cap Known)
     /\ \/ /\ arg[k] \notin Known
           /\ Fatal /\ UNCHANGED <<argv, value>>
        \/ /\ arg[k] \in Known \ WithValue
           /\ argv' = Tail(argv)
           /\ UNCHANGED <<value, pc, status>>
        \/ /\ arg[k] \in WithValue /\ rest # <<>>
           /\ value' = [value EXCEPT ![arg[k]] = rest]
           /\ argv' = Tail(argv)
           /\ UNCHANGED <<pc, status>>
        \/ /\ arg[k] \in WithValue /\ rest = <<>> /\ Len(argv) > 1
           /\ value' = [value EXCEPT ![arg[k]] = argv[2]]
           /\ argv' = Tail(Tail(argv))
           /\ UNCHANGED <<pc, status>>
        \/ /\ arg[k] \in WithValue /\ rest = <<>> /\ Len(argv) = 1
           /\ Fatal /\ UNCHANGED <<argv, value>>
  /\ UNCHANGED <<treeVars, meant, argc, output, work>>

EndOfOptions == /\ pc = "options" /\ (argv # <<>> => ~IsOption(argv[1]))
                /\ Goto("check")
                /\ UNCHANGED <<treeVars, meant, argv, set, value, argc, output, work>>

-----------------------------------------------------------------------------
(* main of sim.c.                                                          *)

\* allow_at_most_one_out_of("dnpPT"), and -t requires percentages.
Compatible == /\ Cardinality(set \cap {"d", "n", "p", "P", "T"}) <= 1
              /\ "t" \in set => set \cap {"p", "P"} # {}

Incompatible == /\ pc = "check" /\ ~Compatible
                /\ Fatal
                /\ UNCHANGED <<treeVars, meant, argv, set, value, argc, output, work>>

ShowVersion == /\ pc = "check" /\ Compatible /\ "v" \in set
               /\ Exit(0)
               /\ UNCHANGED <<treeVars, meant, argv, set, value, argc, output, work>>

\* Mutant of Implied: what -p implies is set before -P implies -p.
ImpliedFirst == set \cup (IF "p" \in set THEN {"e", "s"} ELSE {})
                    \cup (IF "P" \in set THEN {"p"} ELSE {})

Implied == set \cup (IF "P" \in set THEN {"p"} ELSE {})
               \cup (IF set \cap {"p", "P"} # {} THEN {"e", "s"} ELSE {})

SimpleOptions == /\ pc = "check" /\ Compatible /\ "v" \notin set
                 /\ set' = Implied
                 /\ Goto("values")
                 /\ UNCHANGED <<treeVars, meant, argv, value, argc, output, work>>

Given(l) == value[l] # NoValue
BadValue == \/ Given("r") /\ Atoi(value["r"]) = 0
            \/ Given("w") /\ Atoi(value["w"]) <= 0
            \/ Given("t") /\ (Atoi(value["t"]) > 100 \/ Atoi(value["t"]) <= 0)

ValueOptions == /\ pc = "values"
                /\ IF BadValue THEN Fatal ELSE Goto("output")
                /\ UNCHANGED <<treeVars, meant, argv, set, value, argc, output, work>>

\* The output file can be opened unless something that is no file is there.
CanOpen == File(value["o"]) # Absent => tree.kind[File(value["o"])] \in {"file", "empty"}

\* Mutant of OpenOutput: output is appended to what the file holds.
OpenOutputAppend == /\ pc = "output" /\ value["o"] # NoValue /\ CanOpen
                    /\ output' = value["o"]
                    /\ Goto("input")
                    /\ UNCHANGED <<treeVars, meant, argv, set, value, argc, work>>

\* fopen(output_name, "w"): what the file held is gone; a new one is empty.
OpenOutput == /\ pc = "output" /\ value["o"] # NoValue /\ CanOpen
              /\ output' = value["o"]
              /\ tree' = IF File(output') = Absent THEN tree
                         ELSE [tree EXCEPT !.kind[File(output')] = "empty"]
              /\ Goto("input")
              /\ UNCHANGED <<gone, fn, entering, frames, args, meant, argv, set, value, argc, work>>

NoOutput == /\ pc = "output"
            /\ \/ value["o"] = NoValue /\ Goto("input")
               \/ value["o"] # NoValue /\ ~CanOpen /\ Fatal
            /\ UNCHANGED <<treeVars, meant, argv, set, value, argc, output, work>>

-----------------------------------------------------------------------------
(* newargs.c                                                               *)

\* n_names, and the names new_argv starts: one after each newline.
NNames(text) == Cardinality({k \in DOMAIN text : text[k] = NL})
Ascending(Ks) ==
  [j \in 1 .. Cardinality(Ks) |-> CHOOSE k \in Ks : Cardinality({l \in Ks : l <= k}) = j]
Starts(text) == {k \in DOMAIN text : k = 1 \/ text[k - 1] = NL}
NameAt(text, k) == LET Ends == {l \in k .. Len(text) : text[l] = NL}
                   IN SubSeq(text, k, (IF Ends = {} THEN Len(text) + 1 ELSE Min(Ends)) - 1)
NewArgv(text) == LET At(ks) == [j \in DOMAIN ks |-> NameAt(text, ks[j])]
                 IN At(Ascending(Starts(text)))
NewArgs(text) == argc' = NNames(text) /\ argv' = NewArgv(text)

\* What getchar gives.
Stdin == LET all == FlattenSeq([k \in DOMAIN meant.lines |-> Append(meant.lines[k], NL)])
         IN IF meant.ended \/ all = <<>> THEN all ELSE Front(all)

\* std_input leaves empty lines out.
Kept(in) == LET Keep == {k \in DOMAIN in : ~(in[k] = NL /\ (k = 1 \/ in[k - 1] = NL))}
            IN [j \in 1 .. Cardinality(Keep) |-> in[Ascending(Keep)[j]]]

Terminated(text) == text # <<>> => Last(text) = NL

\* Mutant of StdInput: the last newline is not checked.
StdInputUnchecked ==
  /\ pc = "input" /\ "i" \in set
  /\ IF argv # <<>> THEN Fatal /\ UNCHANGED <<args, argv, argc>>
     ELSE args' = Kept(Stdin) /\ NewArgs(args') /\ Goto("recurse")
  /\ UNCHANGED <<tree, gone, fn, entering, frames, meant, set, value, output, work>>

\* get_new_std_input_args.  Without any name std_input reads the byte before
\* its buffer, and may or may not find a newline there.
StdInput ==
  /\ pc = "input" /\ "i" \in set
  /\ \/ /\ argv # <<>> \/ Kept(Stdin) = <<>> \/ ~Terminated(Kept(Stdin))
        /\ Fatal /\ UNCHANGED <<args, argv, argc>>
     \/ /\ argv = <<>> /\ Terminated(Kept(Stdin))
        /\ args' = Kept(Stdin)
        /\ NewArgs(args')
        /\ Goto("recurse")
  /\ UNCHANGED <<tree, gone, fn, entering, frames, meant, set, value, output, work>>

NoStdInput == /\ pc = "input" /\ "i" \notin set
              /\ argc' = Len(argv)
              /\ Goto("recurse")
              /\ UNCHANGED <<treeVars, meant, argv, set, value, output, work>>

\* get_new_recursive_args: the working directory, or all arguments in turn.
Recurse == /\ pc = "recurse" /\ "R" \in set
           /\ args' = <<>>
           /\ argv' = IF argv = <<>> THEN <<<<".">>>> ELSE argv
           /\ Goto("scan")
           /\ UNCHANGED <<tree, gone, fn, entering, frames, meant, set, value, argc, output, work>>

NoRecurse == /\ pc = "recurse" /\ "R" \notin set
             /\ Goto("work")
             /\ UNCHANGED <<treeVars, meant, argv, set, value, argc, output, work>>

IsSeparator(arg) == arg \in {<<"/">>, <<"|">>}

NextArgument == /\ pc = "scan" /\ ~Scanning /\ argv # <<>>
                /\ IF IsSeparator(argv[1])
                     THEN args' = args \o argv[1] \o <<NL>> /\ UNCHANGED <<fn, entering>>
                     ELSE ForEachFile(argv[1]) /\ UNCHANGED args
                /\ argv' = Tail(argv)
                /\ UNCHANGED <<tree, gone, frames, meant, set, value, pc, argc, output, work, status>>

ScanStep == pc = "scan" /\ ScanNext /\ UNCHANGED mainVars
OthersRemove == EntryRemoved /\ UNCHANGED mainVars

EndOfScan == /\ pc = "scan" /\ ~Scanning /\ argv = <<>>
             /\ NewArgs(args)
             /\ Goto("work")
             /\ UNCHANGED <<treeVars, meant, set, value, output, work>>

\* "Here the real work starts"
Work == /\ pc = "work"
        /\ work' = IF "-" \in set THEN "scan" ELSE IF "p" \in set THEN "percentages" ELSE "runs"
        /\ Exit(0)
        /\ UNCHANGED <<treeVars, meant, argv, set, value, argc, output>>

CmdNext == \/ DoArg \/ EndOfOptions
           \/ Incompatible \/ ShowVersion \/ SimpleOptions \/ ValueOptions
           \/ OpenOutput \/ NoOutput
           \/ StdInput \/ NoStdInput \/ Recurse \/ NoRecurse
           \/ NextArgument \/ ScanStep \/ OthersRemove \/ EndOfScan
           \/ Work

CmdSpec == MainInit /\ [][CmdNext]_cmdVars

-----------------------------------------------------------------------------
(* Properties.                                                             *)
MeantLetters == {meant.opts[k].letter : k \in DOMAIN meant.opts}

\* However options and values are joined, do_options reads what was meant: the
\* options, the last value given for each, and the arguments behind them.
MeaningKept ==
  pc = "check" =>
    /\ set = MeantLetters
    /\ argv = meant.files
    /\ \A l \in WithValue :
         LET Ones == {k \in DOMAIN meant.opts : meant.opts[k].letter = l}
         IN value[l] = IF Ones = {} THEN NoValue ELSE meant.opts[Max(Ones)].value

Meant(l) == l \in MeantLetters
MeantValue(l) == LET k == Max({j \in DOMAIN meant.opts : meant.opts[j].letter = l})
                 IN Atoi(meant.opts[k].value)

NoNames == \A k \in DOMAIN meant.lines : meant.lines[k] = <<>>

\* A use of the program that it cannot refuse, from sim.1 and the messages.
ProperUse ==
  /\ MeantLetters \subseteq Known
  /\ \A l, m \in {"d", "n", "p", "P", "T"} : Meant(l) /\ Meant(m) => l = m
  /\ Meant("t") => Meant("p") \/ Meant("P")
  /\ \/ Meant("v")
     \/ /\ Meant("r") => MeantValue("r") # 0
        /\ Meant("w") => MeantValue("w") > 0
        /\ Meant("t") => MeantValue("t") \in 1 .. 100
        /\ Meant("o") => CanOpen
        /\ Meant("i") =>
             /\ meant.files = <<>>
             /\ meant.ended \/ NoNames \/ Last(meant.lines) = <<>>

\* The program refuses a command line if and only if it is no proper use, and
\* does the work that was meant with all that it presumes (-P means -p, which
\* means -e and -s): whatever the order and number of options is, and though
\* they are checked one after the other while some already have effects.  Only
\* with -i and no name on standard input it may do either.
WorkFits ==
  /\ pc = "exit" /\ status = 0 => ProperUse
  /\ pc = "exit" /\ status # 0 => ~ProperUse \/ (Meant("i") /\ NoNames)
  /\ work # "none" <=> pc = "exit" /\ status = 0 /\ ~Meant("v")
  /\ work # "none" =>
       LET percent == Meant("p") \/ Meant("P") IN
       /\ work = (IF Meant("-") THEN "scan" ELSE IF percent THEN "percentages" ELSE "runs")
       /\ set = MeantLetters \cup (IF percent THEN {"p", "e", "s"} ELSE {})

\* The names that "one to a line" gives, and what is to be found for each.
GivenNames == IF "i" \in set THEN SelectSeq(meant.lines, LAMBDA l : l # <<>>) ELSE meant.files

FilesOf(arg) == LET file == FileWithout(Clean(arg), {}) IN
                IF IsSeparator(arg) THEN {arg}
                ELSE IF file = Absent THEN {} ELSE FilesUnder(file, Clean(arg))

Found == LET from == IF GivenNames = <<>> THEN <<<<".">>>> ELSE GivenNames
         IN UNION {{a} \X FilesOf(from[a]) : a \in DOMAIN from}

\* No name that is found contains a newline.
OneLine(found) == \A p \in found : \A k \in DOMAIN p[2] : p[2][k] # NL

\* sim.1: standard input gives names "one to a line", separators included, and
\* directories are "entered recursively, and all files they contain" are
\* compared: those of the device that are not empty, each once, in the order of
\* the (different) arguments; those that others remove may be missing.  While
\* directories are scanned the one buffer never holds a name that is no file's,
\* and the new array has as many places as names whatever the names are.
NamesExact ==
  /\ work # "none" => argc = Len(argv)
  /\ work # "none" /\ "R" \notin set => argv = GivenNames
  /\ pc \in {"scan", "work", "exit"} /\ "R" \in set =>
       LET found == Found
           names == NewArgv(args) IN
       OneLine(found) =>
         /\ \A k \in DOMAIN names : \E p \in found : names[k] = p[2]
         /\ work # "none" =>
              /\ argv = names /\ IsInjective(names)
              /\ \A p \in found : Lost(p[2]) \/ \E k \in DOMAIN names : names[k] = p[2]
              /\ \A k, l \in DOMAIN names, p, q \in found :
                   names[k] = p[2] /\ names[l] = q[2] /\ p[1] < q[1] => k < l

\* The output file is emptied before directories are read: with -R no output
\* is compared with what it is the output of, unless a newline in a name cuts
\* that name so that the rest is the output's.
OutputNotInput ==
  work # "none" /\ "R" \in set /\ output # NoValue /\ File(output) # Absent /\ OneLine(Found) =>
    \A k \in DOMAIN argv : IsSeparator(argv[k]) \/ File(argv[k]) # File(output)
=============================================================================
