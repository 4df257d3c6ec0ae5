-------------------------------- MODULE Tool --------------------------------
(***************************************************************************)
(* The command line tool (src/unshield.c): options, the cabinet, and one   *)
(* file after the other of one file group after the other, each extracted, *)
(* tested or listed.                                                       *)
(*                                                                         *)
(* An input is a command line, the cabinet it names and what the disk has  *)
(* before.  A cabinet is what the library tells of it: whether opening it  *)
(* returns and succeeds, whether its names are Unicode, its files          *)
(* (numbered from 0, each with its descriptor's conditions and the formats *)
(* in which it can be read), directories and file groups.  Opening does    *)
(* not return when a list of components or file groups closes on itself,   *)
(* nor do the calls for a file whose links do.  A pattern is the set of    *)
(* names it matches.  The disk is a function from the real paths of files  *)
(* and directories to what they are.  The calls of the library write the   *)
(* whole file, or answer false and leave nothing or a part of it.          *)
(***************************************************************************)
EXTENDS ToolPaths

CONSTANTS Inputs,
          INT_MAX,     \* the greatest int
          MaxFaults,   \* how often memory or the disk may fail
          MaxTries     \* how many files are tried, if the loops never end

Formats == {"new", "old", "raw"}
Directory == <<"directory">>
Before == <<"before">>
Partial == <<"partial">>
Whole(i, format) == <<"whole", i, format>>
None == <<>>

VARIABLES input,        \* never changes
          pc,           \* options, open, encoding, action, groups, files,
                        \* directory, save, fail, stale or exit
          options,      \* the options that getopt has not returned yet
          opt,          \* the variables that options set
          at,           \* the group and the file that the loops are at
          dirname,      \* the directory of the file that is extracted
          filename,     \* the buffer: what the last call left in it
          fs,           \* the disk
          exit_status,
          count,        \* the number of files that is printed at the end
          log,          \* history: the files tried and what became of them
          faults,       \* history: how often memory or the disk has failed
          blind         \* history: unlink has removed the file of another call
fileVars == <<dirname, filename, fs, exit_status, count, log, faults, blind>>
vars == <<input, pc, options, opt, at, fileVars>>

cabinet == input.cabinet
Groups == cabinet.groups
File(i) == cabinet.files[i]

Defaults ==
  [directory |-> <<Here>>, component |-> FALSE, group |-> {}, lower |-> FALSE, raw |-> FALSE,
   junk |-> FALSE, format |-> "new", encoding |-> "none"]

Init ==
  /\ input \in Inputs
  /\ pc = "options" /\ options = input.options /\ opt = Defaults
  /\ at = [group |-> 1, file |-> 0]
  /\ dirname = None /\ filename = None
  /\ fs = input.disk
  /\ exit_status = 0 /\ count = 0
  /\ log = <<>> /\ faults = 0 /\ blind = FALSE
-----------------------------------------------------------------------------
(* handle_parameters.  -D and -i are of no consequence here.               *)
Applied(o, t) ==
  CASE t.option = "c" -> [o EXCEPT !.component = TRUE]
    [] t.option = "d" -> [o EXCEPT !.directory = t.arg]
    [] t.option = "g" -> [o EXCEPT !.group = {t.arg}]
    [] t.option = "e" -> [o EXCEPT !.encoding = t.arg, !.raw = TRUE]
    [] t.option = "j" -> [o EXCEPT !.junk = TRUE]
    [] t.option = "L" -> [o EXCEPT !.lower = TRUE]
    [] t.option = "R" -> [o EXCEPT !.raw = TRUE]
    [] t.option = "O" -> [o EXCEPT !.format = "old"]
    [] t.option = "r" -> [o EXCEPT !.format = "raw"]
    [] OTHER -> o

Exit(success) ==
  /\ pc' = "exit"
  /\ exit_status' = IF success THEN exit_status ELSE 1
  /\ UNCHANGED <<input, options, opt, at, dirname, filename, fs, count, log, faults, blind>>

Option ==
  /\ pc = "options" /\ options # <<>>
  /\ Head(options).option \notin {"V", "h"}
  /\ opt' = Applied(opt, Head(options))
  /\ options' = Tail(options)
  /\ UNCHANGED <<input, pc, at, fileVars>>

Version == pc = "options" /\ options # <<>> /\ Head(options).option = "V" /\ Exit(TRUE)
Usage == pc = "options" /\ options # <<>> /\ Head(options).option = "h" /\ Exit(FALSE)

IsAction(a) == a \in {"c", "g", "l", "t", "x"}
NoAction ==
  /\ pc = "options" /\ options = <<>>
  /\ ~IsAction(input.action) \/ ~input.named
  /\ Exit(FALSE)

To(label) == pc' = label /\ UNCHANGED <<input, options, opt, at, fileVars>>
ParametersDone ==
  /\ pc = "options" /\ options = <<>>
  /\ IsAction(input.action) /\ input.named
  /\ To("open")
-----------------------------------------------------------------------------
(* main: the cabinet, the encoding, and the action.                        *)
NotOpened == pc = "open" /\ cabinet.returns /\ ~cabinet.opens /\ Exit(FALSE)
Opened == pc = "open" /\ cabinet.returns /\ cabinet.opens /\ To("encoding")

IsEncoded == opt.encoding # "none" /\ ~cabinet.unicode
BadEncoding == pc = "encoding" /\ IsEncoded /\ opt.encoding = "unknown" /\ Exit(FALSE)
EncodingDone ==
  pc = "encoding" /\ ~(IsEncoded /\ opt.encoding = "unknown") /\ To("action")

(* list_components and list_file_groups.                                   *)
ListNames == pc = "action" /\ input.action \in {"c", "g"} /\ Exit(TRUE)

(* do_action: the group asked for, the first of that name, or all that     *)
(* have files.                                                             *)
OnFiles == pc = "action" /\ input.action \in {"l", "t", "x"}
unshield_file_group_find ==
  {k \in DOMAIN Groups :
     Groups[k].name \in opt.group /\ \A j \in 1 .. k - 1 : Groups[j].name \notin opt.group}

NotForComponents == OnFiles /\ opt.component /\ Exit(FALSE)
NoSuchGroup ==
  /\ OnFiles /\ ~opt.component
  /\ opt.group # {} /\ unshield_file_group_find = {}
  /\ Exit(TRUE)

Enter(k) ==
  /\ pc' = "files"
  /\ at' = [group |-> k, file |-> Groups[k].first]
  /\ UNCHANGED <<input, options, opt, fileVars>>
EnterGroup ==
  /\ OnFiles /\ ~opt.component
  /\ \E k \in unshield_file_group_find : Enter(k)
AllGroups == OnFiles /\ ~opt.component /\ opt.group = {} /\ To("groups")

NextGroup ==
  /\ pc = "groups" /\ at.group <= Len(Groups)
  /\ IF Groups[at.group].first # -1 THEN Enter(at.group)
     ELSE /\ at' = [at EXCEPT !.group = @ + 1]
          /\ UNCHANGED <<input, pc, options, opt, fileVars>>
Done == pc = "groups" /\ at.group > Len(Groups) /\ Exit(TRUE)

BehindGroup == at.file > Groups[at.group].last
LeaveGroup ==
  /\ pc = "files" /\ BehindGroup
  /\ IF opt.group # {} THEN Exit(TRUE)
     ELSE /\ pc' = "groups"
          /\ at' = [at EXCEPT !.group = @ + 1]
          /\ UNCHANGED <<input, options, opt, fileVars>>
-----------------------------------------------------------------------------
unshield_file_is_valid(i) ==
  /\ i \in DOMAIN cabinet.files
  /\ ~File(i).invalid /\ File(i).named /\ File(i).stored
should_process_file(i) ==
  input.patterns = <<>> \/ \E k \in DOMAIN input.patterns : File(i).name \in input.patterns[k]

(* What the helpers of the three actions do with a file; a test takes no   *)
(* notice of the patterns.                                                 *)
Takes(i) ==
  unshield_file_is_valid(i) /\ (input.action = "t" \/ should_process_file(i))

(* i++ of an int.  Behind INT_MAX it is not defined what comes next: the   *)
(* loop begins again with INT_MIN, or it is left.                          *)
INT_MIN == -INT_MAX - 1
After(i) == IF i < INT_MAX THEN {i + 1} ELSE {INT_MIN, INT_MAX + 1}
NextFile == \E i \in After(at.file) : at' = [at EXCEPT !.file = i]
SkipStays ==   \* mutant
  /\ pc = "files" /\ ~BehindGroup /\ ~Takes(at.file)
  /\ UNCHANGED vars
Skip ==
  /\ pc = "files" /\ ~BehindGroup /\ ~Takes(at.file)
  /\ NextFile
  /\ UNCHANGED <<input, pc, options, opt, fileVars>>

Taking(action) ==
  /\ pc = "files" /\ ~BehindGroup /\ input.action = action /\ Takes(at.file)
  /\ Len(log) < MaxTries

StatusAfterLast(ok) == IF ok THEN 0 ELSE 1   \* mutant
StatusAfter(ok) == IF ok THEN exit_status ELSE 1
Answered(ok, targets) ==
  /\ pc' = "files" /\ NextFile
  /\ log' = Append(log, [job |-> <<at.group, at.file>>, ok |-> ok, targets |-> targets])
  /\ count' = IF ok THEN count + 1 ELSE count
  /\ exit_status' = StatusAfter(ok)
  /\ UNCHANGED <<input, options, opt>>

ListFile ==
  /\ Taking("l")
  /\ Answered(TRUE, {})
  /\ UNCHANGED <<dirname, filename, fs, faults, blind>>

(* Memory or the disk fails, as often as the bound allows.                 *)
Fault == faults < MaxFaults /\ faults' = faults + 1
IsReadable == opt.format \in File(at.file).formats

TestFile ==
  /\ Taking("t") /\ File(at.file).returns
  /\ \E ok \in BOOLEAN :
       /\ ok => IsReadable
       /\ IF ok = IsReadable THEN UNCHANGED faults ELSE Fault
       /\ Answered(ok, {})
  /\ UNCHANGED <<dirname, filename, fs, blind>>
-----------------------------------------------------------------------------
(* extract_file.                                                           *)
Prefix == Groups[at.group].name
DirectoryName(i) == cabinet.directories[File(i).directory + 1]
DirnameOf(k, i) == OutputDirectory(opt, IsEncoded, Groups[k].name, DirectoryName(i))
IsNoDirectory(k, i) ==
  \/ IsTooLong(opt, Groups[k].name, DirectoryName(i))
  \/ ~IsConverted(IsEncoded, DirnameOf(k, i), PATH_MAX - 1)

Place ==
  /\ Taking("x") /\ ~IsNoDirectory(at.group, at.file)
  /\ dirname' = DirnameOf(at.group, at.file)
  /\ pc' = "directory"
  /\ UNCHANGED <<input, options, opt, at, filename, fs, exit_status, count, log, faults, blind>>

(* Memory is short, a path too long or the directory cannot be converted:  *)
(* filename, which is malloc'ed and not written yet, is what unlink gets.  *)
NoDirname ==
  /\ Taking("x")
  /\ IF IsNoDirectory(at.group, at.file) THEN UNCHANGED faults ELSE Fault
  /\ pc' = "stale"
  /\ UNCHANGED <<input, options, opt, at, dirname, filename, fs, exit_status, count, log, blind>>

(* make_sure_directory_exists, whose result is ignored: the directories on *)
(* the way, until one cannot be made.                                      *)
Upto(path, k) == realpath(SubSeq(path, 1, k))
IsDirectory(path) == path \in DOMAIN fs /\ fs[path] = Directory
IsBlocked(path, k) ==
  Upto(path, k) \notin DOMAIN fs /\ Upto(path, k - 1) \in DOMAIN fs /\ ~IsDirectory(Upto(path, k - 1))
With(disk, paths, object) ==
  [p \in DOMAIN disk \cup paths |-> IF p \in paths THEN object ELSE disk[p]]
MadeSkipping(path, n) == {Upto(path, k) : k \in 2 .. n} \ DOMAIN fs   \* mutant
Made(path, n) == {Upto(path, k) : k \in 1 .. n} \ DOMAIN fs

make_sure_directory_exists(path) ==
  \E n \in 0 .. Len(path) :
    /\ \A k \in 1 .. n : ~IsBlocked(path, k)
    /\ fs' = With(fs, Made(path, n), Directory)
    /\ IF n = Len(path) \/ IsBlocked(path, n + 1) THEN UNCHANGED faults
       ELSE Upto(path, n + 1) \notin DOMAIN fs /\ Fault

(* filename as it is given to unlink or to the library.                    *)
Final(directory, i) ==
  AfterEncoding(IsEncoded, directory, BeforeEncoding(opt, directory, File(i).name))
IsBadName(directory, i) == ~IsConverted(IsEncoded, Final(directory, i), PATH_MAX)
FilenameIn(directory, i) ==
  IF IsBadName(directory, i) THEN BeforeEncoding(opt, directory, File(i).name)
  ELSE Final(directory, i)

Locate ==
  /\ pc = "directory"
  /\ make_sure_directory_exists(dirname)
  /\ filename' = FilenameIn(dirname, at.file)
  /\ pc' = IF IsBadName(dirname, at.file) \/ ~IsInside(filename', opt.directory)
           THEN "fail" ELSE "save"
  /\ UNCHANGED <<input, options, opt, at, dirname, exit_status, count, log, blind>>

(* What filename leads to, when the directories on the way are there.      *)
Targets ==
  IF \A k \in 1 .. Len(filename) - 1 : IsDirectory(Upto(filename, k))
  THEN {realpath(filename)} ELSE {}
CanOpen == \E path \in Targets : ~IsDirectory(path)

(* unshield_file_save, _old or _raw.                                       *)
Save ==
  /\ pc = "save" /\ File(at.file).returns /\ CanOpen /\ IsReadable
  /\ fs' = With(fs, Targets, Whole(at.file, opt.format))
  /\ Answered(TRUE, Targets)
  /\ UNCHANGED <<dirname, filename, faults, blind>>

SaveFails ==
  /\ pc = "save" /\ File(at.file).returns
  /\ fs' = fs \/ (CanOpen /\ fs' = With(fs, Targets, Partial))
  /\ IF CanOpen /\ IsReadable THEN Fault ELSE UNCHANGED faults
  /\ pc' = "fail"
  /\ UNCHANGED <<input, options, opt, at, dirname, filename, exit_status, count, log, blind>>

WithoutNothing(paths) == fs   \* mutant
Without(paths) ==
  [p \in {q \in DOMAIN fs : q \notin paths \/ fs[q] = Directory} |-> fs[p]]

Fail ==
  /\ pc = "fail"
  /\ fs' = Without(Targets)
  /\ Answered(FALSE, Targets)
  /\ UNCHANGED <<dirname, filename, faults, blind>>

(* The buffer has nothing in it, or still the name of the call before.     *)
FailStale ==
  /\ pc = "stale"
  /\ fs' \in {fs} \cup (IF filename = None THEN {} ELSE {Without(Targets)})
  /\ blind' = (blind \/ fs' # fs)
  /\ Answered(FALSE, {})
  /\ UNCHANGED <<dirname, filename, faults>>
-----------------------------------------------------------------------------
Step ==
  \/ Option \/ Version \/ Usage \/ NoAction \/ ParametersDone
  \/ NotOpened \/ Opened \/ BadEncoding \/ EncodingDone
  \/ ListNames \/ NotForComponents \/ NoSuchGroup \/ EnterGroup \/ AllGroups
  \/ NextGroup \/ Done \/ LeaveGroup
  \/ Skip \/ ListFile \/ TestFile
  \/ Place \/ NoDirname \/ Locate \/ Save \/ SaveFails \/ Fail \/ FailStale

Spec == Init /\ [][Step]_vars /\ WF_vars(Step)
-----------------------------------------------------------------------------
(* What was asked for, read off the command line and the cabinet at once.  *)
Given(option) == {k \in DOMAIN input.options : input.options[k].option = option}
LastOf(ks) == CHOOSE k \in ks : \A j \in ks : j <= k
FirstOf(ks) == CHOOSE k \in ks : \A j \in ks : k <= j

ReadsFiles == input.action \in {"l", "t", "x"}
Legal ==
  IF Given("V") \cup Given("h") # {}
  THEN FirstOf(Given("V") \cup Given("h")) \in Given("V")
  ELSE /\ IsAction(input.action) /\ input.named /\ cabinet.opens
       /\ Given("e") = {} \/ cabinet.unicode
            \/ input.options[LastOf(Given("e"))].arg # "unknown"
       /\ ReadsFiles => Given("c") = {}

Wanted ==
  IF Given("g") = {} THEN {k \in DOMAIN Groups : Groups[k].first # -1}
  ELSE LET named == {k \in DOMAIN Groups :
                       Groups[k].name = input.options[LastOf(Given("g"))].arg}
       IN  {k \in named : k = FirstOf(named)}

Members(k) ==
  [j \in 1 .. Groups[k].last - Groups[k].first + 1 |-> <<k, Groups[k].first + j - 1>>]
IsJob(job) ==
  /\ job[1] \in Wanted /\ job[2] \in DOMAIN cabinet.files
  /\ ~File(job[2]).invalid /\ File(job[2]).named /\ File(job[2]).stored
  /\ \/ input.patterns = <<>> \/ input.action = "t"
     \/ \E k \in DOMAIN input.patterns : File(job[2]).name \in input.patterns[k]

Jobs ==
  IF ~Legal \/ ~ReadsFiles \/ Given("V") # {} THEN <<>>
  ELSE SelectSeq(FlattenSeq([k \in DOMAIN Groups |-> Members(k)]), IsJob)

(* The loop over a group that goes up to INT_MAX is never left by i <= last. *)
IsCountable == \A k \in Wanted : Groups[k].last < INT_MAX
-----------------------------------------------------------------------------
(* Every file asked for is tried once for each group that has it, in the   *)
(* order of the cabinet, whatever became of those before it, and the exit  *)
(* status says whether all were right (extract_helper, test_helper, main). *)
(* Nothing is promised of groups that go up to INT_MAX.                    *)
B == INSTANCE Batch WITH
       legal <- Legal,
       jobs <- Jobs,
       answers <- IF IsCountable
                  THEN [k \in DOMAIN log |-> [job |-> log[k].job, ok |-> log[k].ok]]
                  ELSE <<>>,
       status <- IF IsCountable /\ pc = "exit" THEN exit_status ELSE -1
KeepsBatch == B!Spec

(* Between two files, what is on the disk is what was there before, but    *)
(* for directories, the whole files that were extracted last to their path *)
(* and nothing where the last attempt failed: no partial file is left, and *)
(* no file goes that another call wrote (extract_file, unlink).            *)
DiskExplained ==
  pc \in {"files", "groups", "exit"} /\ ~blind =>
    \A p \in DOMAIN fs \cup DOMAIN input.disk :
      LET tries == {k \in DOMAIN log : p \in log[k].targets}
          last == log[LastOf(tries)]
      IN  IF tries # {} THEN
            IF last.ok THEN p \in DOMAIN fs /\ fs[p] = Whole(last.job[2], opt.format)
            ELSE p \in DOMAIN fs => fs[p] = Directory
          ELSE IF p \in DOMAIN input.disk THEN p \in DOMAIN fs /\ fs[p] = input.disk[p]
          ELSE input.action = "x" /\ fs[p] = Directory

(* When nothing stands in the way of any file, no file in that of another  *)
(* and no name turns back, a run without faults extracts all of them, each *)
(* to its own path, and exits with 0: the directories are made, and what   *)
(* the options make of names never puts one outside the output directory.  *)
Branches(path) == {SubSeq(path, 1, k) : k \in 0 .. Len(path) - 1}
FilenameOf(job) == FilenameIn(DirnameOf(job[1], job[2]), job[2])
PathOf(job) == realpath(FilenameOf(job))
IsPlainJob(job) ==
  /\ opt.format \in File(job[2]).formats
  /\ ~IsNoDirectory(job[1], job[2]) /\ ~IsBadName(DirnameOf(job[1], job[2]), job[2])
  /\ Parent \notin ToSet(FilenameOf(job))
  /\ PathOf(job) \in DOMAIN input.disk => input.disk[PathOf(job)] # Directory
  /\ \A p \in Branches(PathOf(job)) \cap DOMAIN input.disk : input.disk[p] = Directory
IsPlainRun ==
  /\ Legal /\ input.action = "x" /\ faults = 0
  /\ convert_encoding(IsEncoded, opt.directory) = opt.directory
  /\ \A k \in DOMAIN Jobs : IsPlainJob(Jobs[k])
  /\ \A j, k \in DOMAIN Jobs :
       j # k => PathOf(Jobs[j]) \notin Branches(PathOf(Jobs[k])) \cup {PathOf(Jobs[k])}
HealthyRunSucceeds ==
  pc = "exit" /\ IsPlainRun =>
    /\ exit_status = 0
    /\ \A k \in DOMAIN Jobs :
         /\ PathOf(Jobs[k]) \in DOMAIN fs
         /\ fs[PathOf(Jobs[k])] = Whole(Jobs[k][2], opt.format)

(* The tool ends, whatever the command line, the disk and the failures on  *)
(* the way, if the library returns from opening the cabinet and from every *)
(* file asked for, and no group asked for goes up to INT_MAX.              *)
LibraryReturns == cabinet.returns /\ \A k \in DOMAIN Jobs : File(Jobs[k][2]).returns
RunEnds == LibraryReturns /\ IsCountable => <>(pc = "exit")

(* With -R, the option that converts nothing (and no -e), a file gets the  *)
(* names of the cabinet: its group, its directory and its own              *)
(* (man/unshield.1, extract_file).                                         *)
RawKeepsNames ==
  pc = "save" /\ opt.raw /\ ~IsEncoded =>
    filename = opt.directory \o Prefix
                 \o (IF opt.junk THEN <<>> ELSE DirectoryName(at.file)) \o <<File(at.file).name>>
=============================================================================
