------------------------------ MODULE FileTree ------------------------------
(***************************************************************************)
(* ForEachFile.c of SIM with the callback of newargs.c: a directory tree   *)
(* is scanned depth first, each call of do_FEF for one file whose name is  *)
(* in a buffer that all the calls share, and the names of the non-empty    *)
(* regular files are collected in one text.  Other processes may remove    *)
(* files meanwhile.                                                        *)
(*                                                                         *)
(* A file name is a sequence of symbols, "/" and the names of entries.     *)
(***************************************************************************)
EXTENDS Integers, Sequences, FiniteSets, SequencesExt

CONSTANTS Trees,        \* file systems: [kind, dev, shut, entry], see TreeAssumption
          MaxGone       \* bound on the entries removed during a scan

NL == "\n"

\* A directory that contains itself is one that is mounted again inside.
ASSUME TreeAssumption ==
  /\ MaxGone \in Nat
  /\ \A t \in Trees :
       LET Ids == DOMAIN t.kind IN
       /\ t = [kind |-> t.kind, dev |-> t.dev, shut |-> t.shut, entry |-> t.entry]
       /\ "cwd" \in Ids
       /\ t.kind \in [Ids -> {"dir", "file", "empty", "link"}]
       /\ t.dev \in [Ids -> Nat] /\ t.shut \subseteq Ids
       /\ DOMAIN t.entry = {f \in Ids : t.kind[f] = "dir"}
       /\ \A f \in DOMAIN t.entry : \A c \in DOMAIN t.entry[f] : t.entry[f][c] \in Ids

VARIABLES tree,         \* the file system
          gone,         \* entries that were removed: <<directory, name>>
          fn,           \* the buffer with the name
          entering,     \* do_FEF has been called for it
          frames,       \* its calls: directory, entries to read, length of the name
          args          \* newargs.c: the text, each name ended by a newline

treeVars == <<tree, gone, fn, entering, frames, args>>

TreeInit == /\ tree \in Trees
            /\ gone = {}
            /\ fn = <<>> /\ entering = FALSE /\ frames = <<>>
            /\ args = <<>>

-----------------------------------------------------------------------------
Absent == "absent"

\* The file that name stands for, from the working directory.
FileWithout(name, lost) ==
  LET at[k \in 0 .. Len(name)] ==
        IF k = 0 THEN "cwd"
        ELSE LET f == at[k - 1] IN
             IF f = Absent \/ name[k] \in {".", "/"} THEN f
             ELSE IF /\ tree.kind[f] = "dir" /\ name[k] \in DOMAIN tree.entry[f]
                     /\ <<f, name[k]>> \notin lost
                  THEN tree.entry[f][name[k]] ELSE Absent
  IN at[Len(name)]
File(name) == FileWithout(name, gone)

\* register_file, for a file that was found; add_string_to_args.
Registered(name, f) == IF tree.kind[f] = "file" THEN name \o <<NL>> ELSE <<>>

Call(name) == fn' = name /\ entering' = TRUE

\* do_FEF returns, and its caller removes the name of the entry again.
Return == /\ entering' = FALSE
          /\ fn' = IF frames = <<>> THEN fn ELSE SubSeq(fn, 1, Last(frames).fnl)

\* Mutant of Loops: no loop detection.
LoopsNot(f) == FALSE

\* in_ino_list
Loops(f) == \E k \in DOMAIN frames : frames[k].dir = f

\* Directories of the device of the first one, that can be read, are scanned.
Scanned(f) == /\ tree.kind[f] = "dir"
              /\ frames # <<>> => tree.dev[f] = tree.dev[frames[1].dir]
              /\ f \notin tree.shut
              /\ ~Loops(f)

Descend(f) == LET name == IF Last(fn) = "/" THEN fn ELSE Append(fn, "/") IN
              /\ frames' = Append(frames, [dir |-> f, fnl |-> Len(name),
                                           left |-> {c \in DOMAIN tree.entry[f] : <<f, c>> \notin gone}])
              /\ fn' = name
              /\ entering' = FALSE

\* lstat fails, which is reported on standard error.
NotThere == /\ entering /\ File(fn) = Absent
            /\ Return
            /\ UNCHANGED <<tree, gone, frames, args>>

Visit == /\ entering /\ File(fn) # Absent
         /\ args' = args \o Registered(fn, File(fn))
         /\ IF Scanned(File(fn)) THEN Descend(File(fn)) ELSE Return /\ UNCHANGED frames
         /\ UNCHANGED <<tree, gone>>

\* Readdir gives the entries in any order.
ReadEntry == /\ ~entering /\ frames # <<>>
             /\ \E c \in Last(frames).left :
                  /\ Call(Append(fn, c))
                  /\ frames' = [frames EXCEPT ![Len(frames)].left = @ \ {c}]
             /\ UNCHANGED <<tree, gone, args>>

\* The end of the directory, and of the call.
Leave == /\ ~entering /\ frames # <<>> /\ Last(frames).left = {}
         /\ frames' = Front(frames)
         /\ fn' = IF frames' = <<>> THEN fn ELSE SubSeq(fn, 1, Last(frames').fnl)
         /\ UNCHANGED <<tree, gone, entering, args>>

\* Another process removes an entry; directories read before may still show it.
EntryRemoved == /\ frames # <<>> /\ Cardinality(gone) < MaxGone
                /\ \E f \in DOMAIN tree.entry : \E c \in DOMAIN tree.entry[f] :
                     /\ <<f, c>> \notin gone /\ tree.kind[tree.entry[f][c]] # "dir"
                     /\ gone' = gone \cup {<<f, c>>}
                /\ UNCHANGED <<tree, fn, entering, frames, args>>

ScanNext == NotThere \/ Visit \/ ReadEntry \/ Leave

\* do_ForEachFile starts a scan; clean_name takes superfluous separators out.
Clean(arg) ==
  LET Wanted(k) == ~(arg[k] = "/" /\ k < Len(arg) /\ arg[k + 1] = "/")
      kept == SelectSeq([k \in DOMAIN arg |-> k], Wanted)
      once == [k \in DOMAIN kept |-> arg[kept[k]]]
  IN IF Len(once) > 1 /\ Last(once) = "/" THEN Front(once) ELSE once

ForEachFile(arg) == Call(IF arg = <<>> THEN <<".">> ELSE Clean(arg))
Scanning == entering \/ frames # <<>>

-----------------------------------------------------------------------------
(* What a scan is for: the non-empty regular files under a file, by the    *)
(* names that lead to them without entering a directory twice or one that  *)
(* cannot be entered, as if no entry was removed.                          *)
FilesUnder(start, arg) ==
  LET Ids == DOMAIN tree.kind
      under[f \in Ids, name \in Seq(STRING), passed \in SUBSET Ids] ==
        LET path == IF Last(name) = "/" THEN name ELSE Append(name, "/")
        IN IF tree.kind[f] = "file" THEN {name}
           ELSE IF \/ tree.kind[f] # "dir" \/ f \in passed \cup tree.shut
                   \/ \E d \in passed : tree.dev[d] # tree.dev[f]
             THEN {}
           ELSE UNION {under[tree.entry[f][c], Append(path, c), passed \cup {f}] :
                         c \in DOMAIN tree.entry[f]}
  IN under[start, arg, {}]

\* Names that no longer lead to a file.
Lost(name) == \E k \in DOMAIN name : <<File(SubSeq(name, 1, k - 1)), name[k]>> \in gone
=============================================================================
