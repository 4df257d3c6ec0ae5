----------------------------- MODULE ToolProofs -----------------------------
(***************************************************************************)
(* What the tool leaves on the disk: for every command line, cabinet and   *)
(* disk, whatever fails and however often.                                 *)
(***************************************************************************)
EXTENDS Tool, WellFoundedInduction, SequenceTheorems, TLAPS

(* A set of numbers with an upper bound has a greatest one.                *)
LEMMA GreatestNumber ==
  ASSUME NEW n \in Nat, NEW T \in SUBSET (1 .. n), T # {}
  PROVE  \E m \in T : \A k \in T : k <= m
<1>1. PICK R : R = OpToRel(<, Nat)
  OBVIOUS
<1>2. IsWellFoundedOn(R, Nat)
  BY <1>1, NatLessThanWellFounded
<1> DEFINE U == {n - k : k \in T}
<1>3. U \subseteq Nat /\ U # {}
  <2>1. \A k \in 1 .. n : n - k \in Nat
    OBVIOUS
  <2> QED BY <2>1
<1>4. PICK x \in U : \A y \in U : ~(<<y, x>> \in R)
  BY <1>2, <1>3, WFMin
<1>5. PICK m \in T : x = n - m
  BY <1>4
<1>6. ASSUME NEW k \in T, ~(k <= m) PROVE FALSE
  <2>1. n - k \in U /\ n - k \in Nat /\ x \in Nat /\ n - k < x
    BY <1>3, <1>5, <1>6
  <2>2. <<n - k, x>> \in Nat \X Nat /\ <<n - k, x>>[1] < <<n - k, x>>[2]
    BY <2>1
  <2>3. <<n - k, x>> \in R
    BY <1>1, <2>2 DEF OpToRel
  <2> QED BY <1>4, <2>1, <2>3
<1> QED BY <1>6

(* The attempts at a path, and whether a disk d is what the attempts in l  *)
(* should have made of it.                                                 *)
Tries(l, p) == {k \in DOMAIN l : p \in l[k].targets}
Right(l, d, p) ==
  LET tries == Tries(l, p)
      last == l[LastOf(tries)]
  IN  IF tries # {} THEN
        IF last.ok THEN p \in DOMAIN d /\ d[p] = Whole(last.job[2], opt.format)
        ELSE p \in DOMAIN d => d[p] = Directory
      ELSE IF p \in DOMAIN input.disk THEN p \in DOMAIN d /\ d[p] = input.disk[p]
      ELSE p \in DOMAIN d => input.action = "x" /\ d[p] = Directory

(* Between the call of the library and unlink, the path that is tried may  *)
(* have anything.                                                          *)
Trying == IF pc = "fail" THEN Targets ELSE {}
DInv ==
  /\ \E S : log \in Seq(S)
  /\ pc = "options" => log = <<>>
  /\ pc \in {"directory", "save", "fail", "stale"} => input.action = "x"
  /\ ~blind => \A p : p \notin Trying => Right(log, fs, p)

LEMMA LastTry ==
  ASSUME NEW n \in Nat, NEW T \in SUBSET (1 .. n), T # {}
  PROVE  LastOf(T) \in T /\ \A k \in T : k <= LastOf(T)
<1>1. \E m \in T : \A k \in T : k <= m
  BY GreatestNumber
<1> QED BY <1>1, Zenon DEF LastOf

LEMMA LastIs ==
  ASSUME NEW n \in Nat, NEW T \in SUBSET (1 .. n), NEW m \in T, \A k \in T : k <= m
  PROVE  LastOf(T) = m
<1>1. LastOf(T) \in T /\ m <= LastOf(T)
  BY LastTry
<1>2. LastOf(T) <= m /\ LastOf(T) \in 1 .. n /\ m \in 1 .. n
  BY <1>1
<1> QED BY <1>1, <1>2

(* One attempt more, first for logs that are any functions.                *)
LEMMA AttemptAt ==
  ASSUME NEW n \in Nat, NEW m, NEW e, NEW p, DOMAIN m = 1 .. n + 1, m[n + 1] = e,
         p \in e.targets
  PROVE  Tries(m, p) # {} /\ m[LastOf(Tries(m, p))] = e
<1>1. Tries(m, p) \in SUBSET (1 .. n + 1) /\ n + 1 \in Tries(m, p)
  BY DEF Tries
<1>2. \A k \in Tries(m, p) : k <= n + 1
  BY <1>1
<1>3. n + 1 \in Nat
  OBVIOUS
<1>4. LastOf(Tries(m, p)) = n + 1
  BY <1>1, <1>2, <1>3, LastIs
<1> QED BY <1>1, <1>4

LEMMA AttemptElsewhere ==
  ASSUME NEW n \in Nat, NEW l, NEW m, NEW e, NEW p, DOMAIN l = 1 .. n, DOMAIN m = 1 .. n + 1,
         m[n + 1] = e, \A k \in 1 .. n : m[k] = l[k], p \notin e.targets
  PROVE  /\ Tries(m, p) = Tries(l, p)
         /\ Tries(l, p) # {} => m[LastOf(Tries(l, p))] = l[LastOf(Tries(l, p))]
<1>1. Tries(m, p) = Tries(l, p)
  BY DEF Tries
<1>2. ASSUME Tries(l, p) # {} PROVE m[LastOf(Tries(l, p))] = l[LastOf(Tries(l, p))]
  <2>1. Tries(l, p) \in SUBSET (1 .. n)
    BY DEF Tries
  <2>2. LastOf(Tries(l, p)) \in 1 .. n
    BY <1>2, <2>1, LastTry
  <2> QED BY <2>2
<1> QED BY <1>1, <1>2

LEMMA Logged ==
  ASSUME \E S : log \in Seq(S), NEW e, log' = Append(log, e), NEW p
  PROVE  /\ p \in e.targets => Tries(log', p) # {} /\ log'[LastOf(Tries(log', p))] = e
         /\ p \notin e.targets =>
              /\ Tries(log', p) = Tries(log, p)
              /\ Tries(log, p) # {} => log'[LastOf(Tries(log, p))] = log[LastOf(Tries(log, p))]
<1>1. PICK S, l, m : l = log /\ m = log' /\ l \in Seq(S)
  OBVIOUS
<1>2. PICK n : n = Len(l)
  OBVIOUS
<1>3. /\ n \in Nat /\ DOMAIN l = 1 .. n /\ DOMAIN m = 1 .. n + 1
      /\ m[n + 1] = e /\ \A k \in 1 .. n : m[k] = l[k]
  <2>1. l \in Seq(S \cup {e}) /\ e \in S \cup {e} /\ m = Append(l, e)
    BY <1>1
  <2> QED BY <1>2, <2>1, LenProperties, AppendProperties
<1>4. ASSUME p \in e.targets PROVE Tries(m, p) # {} /\ m[LastOf(Tries(m, p))] = e
  BY <1>3, <1>4, AttemptAt
<1>5. ASSUME p \notin e.targets
      PROVE  /\ Tries(m, p) = Tries(l, p)
             /\ Tries(l, p) # {} => m[LastOf(Tries(l, p))] = l[LastOf(Tries(l, p))]
  <2>1. /\ DOMAIN l = 1 .. n /\ DOMAIN m = 1 .. n + 1 /\ m[n + 1] = e
        /\ \A k \in 1 .. n : m[k] = l[k]
    BY <1>3
  <2> QED BY <1>3, <1>5, <2>1, AttemptElsewhere
<1> QED BY <1>1, <1>4, <1>5

LEMMA LongerLog ==
  ASSUME \E S : log \in Seq(S), NEW e, log' = Append(log, e)
  PROVE  \E S : log' \in Seq(S)
<1>1. PICK S : log \in Seq(S)
  OBVIOUS
<1>2. log \in Seq(S \cup {e}) /\ e \in S \cup {e}
  BY <1>1
<1> QED BY <1>2, AppendProperties

LEMMA InitDisk == Init => DInv
<1> SUFFICES ASSUME Init PROVE DInv
  OBVIOUS
<1>1. log = <<>> /\ pc = "options" /\ fs = input.disk
  BY DEF Init
<1>2. log \in Seq({})
  BY <1>1
<1>3. ASSUME NEW p PROVE Right(log, fs, p)
  <2>1. Tries(log, p) = {}
    BY <1>1 DEF Tries
  <2> QED BY <1>1, <2>1 DEF Right
<1> QED BY <1>1, <1>2, <1>3 DEF DInv

(* Nothing is tried and nothing written.                                   *)
LEMMA QuietStep ==
  ASSUME DInv, pc # "fail", UNCHANGED <<input, opt, fs, log, blind>>,
         pc' \notin {"options", "fail"},
         pc' \in {"directory", "save", "stale"} => input.action = "x"
  PROVE  DInv'
<1>1. ASSUME NEW p, ~blind PROVE Right(log, fs, p)'
  <2>1. Right(log, fs, p)
    BY <1>1 DEF DInv, Trying
  <2> QED BY <2>1 DEF Right, Tries
<1>2. (\E S : log \in Seq(S))'
  BY DEF DInv
<1> QED BY <1>1, <1>2 DEF DInv

(* Something is tried and nothing written.                                 *)
LEMMA QuietAttempt ==
  ASSUME DInv, pc # "fail", NEW ok, Answered(ok, {}), UNCHANGED fs,
         ~blind' => ~blind
  PROVE  DInv'
<1> DEFINE e == [job |-> <<at.group, at.file>>, ok |-> ok, targets |-> {}]
<1>1. pc' = "files" /\ log' = Append(log, e) /\ UNCHANGED <<input, options, opt>>
  BY DEF Answered
<1>2. PICK S : log \in Seq(S)
  BY DEF DInv
<1>3. e.targets = {}
  OBVIOUS
<1> HIDE DEF e
<1>4. ASSUME NEW p, ~blind' PROVE Right(log, fs, p)'
  <2>1. Right(log, fs, p)
    BY <1>4 DEF DInv, Trying
  <2>2. /\ Tries(log', p) = Tries(log, p)
        /\ Tries(log, p) # {} => log'[LastOf(Tries(log, p))] = log[LastOf(Tries(log, p))]
    BY <1>1, <1>3, Logged DEF DInv
  <2> QED BY <1>1, <2>1, <2>2 DEF Right, Tries
<1>5. (\E S1 : log \in Seq(S1))'
  BY <1>1, <1>2, LongerLog
<1> QED BY <1>1, <1>4, <1>5 DEF DInv

LEMMA OptionDisk == ASSUME DInv, Option PROVE DInv'
<1>1. pc = "options" /\ UNCHANGED <<input, pc, fs, log, blind>>
  BY DEF Option, fileVars
<1>2. log = <<>>
  BY <1>1 DEF DInv
<1>3. ASSUME NEW p, ~blind PROVE Right(log, fs, p)'
  <2>1. Right(log, fs, p)
    BY <1>1, <1>3 DEF DInv, Trying
  <2>2. Tries(log, p) = {} /\ Tries(log', p) = {}
    BY <1>1, <1>2 DEF Tries
  <2> QED BY <1>1, <2>1, <2>2 DEF Right, Tries
<1> QED BY <1>1, <1>2, <1>3 DEF DInv

(* make_sure_directory_exists writes only where nothing was.               *)
LEMMA LocateDisk == ASSUME DInv, Locate PROVE DInv'
<1>1. /\ pc = "directory" /\ pc' \in {"fail", "save"} /\ make_sure_directory_exists(dirname)
      /\ UNCHANGED <<input, opt, log, blind>>
  BY DEF Locate
<1>2. PICK n \in 0 .. Len(dirname) : fs' = With(fs, Made(dirname, n), Directory)
  BY <1>1 DEF make_sure_directory_exists
<1> DEFINE M == Made(dirname, n)
<1>3. M \cap DOMAIN fs = {}
  BY DEF Made
<1> HIDE DEF M
<1>4. /\ DOMAIN fs' = DOMAIN fs \cup M
      /\ \A p \in M : fs'[p] = Directory
      /\ \A p \in DOMAIN fs : fs'[p] = fs[p]
  BY <1>2, <1>3 DEF With, M
<1>5. input.action = "x"
  BY <1>1 DEF DInv
<1>6. ASSUME NEW p, ~blind PROVE Right(log, fs, p)'
  <2>1. Right(log, fs, p)
    BY <1>1, <1>6 DEF DInv, Trying
  <2>2. p \in DOMAIN fs' => (p \in DOMAIN fs /\ fs'[p] = fs[p]) \/ (p \notin DOMAIN fs /\ fs'[p] = Directory)
    BY <1>3, <1>4
  <2>3. p \in DOMAIN fs => p \in DOMAIN fs'
    BY <1>4
  <2> QED BY <1>1, <1>5, <2>1, <2>2, <2>3 DEF Right, Tries
<1> QED BY <1>1, <1>5, <1>6 DEF DInv

(* The library writes to the path alone that unlink is given if it fails.  *)
LEMMA WriteDisk ==
  ASSUME NEW S, NEW object, fs' = With(fs, S, object), NEW p, p \notin S
  PROVE  (p \in DOMAIN fs' <=> p \in DOMAIN fs) /\ (p \in DOMAIN fs => fs'[p] = fs[p])
  BY DEF With

LEMMA TargetsStay ==
  ASSUME CanOpen, fs' = With(fs, Targets, Partial), UNCHANGED filename
  PROVE  Targets' = Targets
<1>1. Targets = {realpath(filename)} /\ ~IsDirectory(realpath(filename))
      /\ \A k \in 1 .. Len(filename) - 1 : IsDirectory(Upto(filename, k))
  BY DEF CanOpen, Targets
<1>2. ASSUME NEW k \in 1 .. Len(filename) - 1 PROVE IsDirectory(Upto(filename, k))'
  <2>1. IsDirectory(Upto(filename, k)) /\ Upto(filename, k) \notin Targets
    BY <1>1
  <2>2. Upto(filename, k) \in DOMAIN fs /\ fs[Upto(filename, k)] = Directory
    BY <2>1 DEF IsDirectory
  <2>3. Upto(filename, k) \in DOMAIN fs' /\ fs'[Upto(filename, k)] = fs[Upto(filename, k)]
    BY <2>1, <2>2, WriteDisk
  <2>4. Upto(filename', k) = Upto(filename, k)
    OBVIOUS
  <2> QED BY <2>2, <2>3, <2>4 DEF IsDirectory, Upto
<1> QED BY <1>1, <1>2 DEF Targets

LEMMA SaveDisk == ASSUME DInv, Save PROVE DInv'
<1> DEFINE e == [job |-> <<at.group, at.file>>, ok |-> TRUE, targets |-> Targets]
<1>1. /\ pc = "save" /\ fs' = With(fs, Targets, Whole(at.file, opt.format))
      /\ pc' = "files" /\ log' = Append(log, e) /\ UNCHANGED <<input, opt, blind>>
  BY DEF Save, Answered
<1>2. PICK S : log \in Seq(S)
  BY DEF DInv
<1>3. e.targets = Targets /\ e.ok /\ e.job[2] = at.file
  OBVIOUS
<1> HIDE DEF e
<1>4. ASSUME NEW p, ~blind PROVE Right(log, fs, p)'
  <2>1. Right(log, fs, p)
    BY <1>1, <1>4 DEF DInv, Trying
  <2>2. CASE p \in Targets
    <3>1. Tries(log', p) # {} /\ log'[LastOf(Tries(log', p))] = e
      BY <1>1, <1>3, <2>2, Logged DEF DInv
    <3>2. p \in DOMAIN fs' /\ fs'[p] = Whole(at.file, opt.format)
      BY <1>1, <2>2 DEF With
    <3> QED BY <1>1, <1>3, <3>1, <3>2 DEF Right, Tries, Whole
  <2>3. CASE p \notin Targets
    <3>1. /\ Tries(log', p) = Tries(log, p)
          /\ Tries(log, p) # {} => log'[LastOf(Tries(log, p))] = log[LastOf(Tries(log, p))]
      BY <1>1, <1>3, <2>3, Logged DEF DInv
    <3>2. (p \in DOMAIN fs' <=> p \in DOMAIN fs) /\ (p \in DOMAIN fs => fs'[p] = fs[p])
      BY <1>1, <2>3, WriteDisk
    <3> QED BY <1>1, <2>1, <3>1, <3>2 DEF Right, Tries, Whole
  <2> QED BY <2>2, <2>3
<1>5. (\E S1 : log \in Seq(S1))'
  BY <1>1, <1>2, LongerLog
<1> QED BY <1>1, <1>4, <1>5 DEF DInv

LEMMA SaveFailsDisk == ASSUME DInv, SaveFails PROVE DInv'
<1>1. /\ pc = "save" /\ pc' = "fail" /\ UNCHANGED <<input, opt, log, blind, filename>>
      /\ fs' = fs \/ (CanOpen /\ fs' = With(fs, Targets, Partial))
  BY DEF SaveFails
<1>2. input.action = "x"
  BY <1>1 DEF DInv
<1>3. ASSUME NEW p, ~blind, p \notin Targets' PROVE Right(log, fs, p)'
  <2>1. Right(log, fs, p)
    BY <1>1, <1>3 DEF DInv, Trying
  <2>2. (p \in DOMAIN fs' <=> p \in DOMAIN fs) /\ (p \in DOMAIN fs => fs'[p] = fs[p])
    <3>1. CASE fs' = fs
      BY <3>1
    <3>2. CASE CanOpen /\ fs' = With(fs, Targets, Partial)
      <4>1. p \notin Targets
        BY <1>1, <1>3, <3>2, TargetsStay
      <4> QED BY <3>2, <4>1, WriteDisk
    <3> QED BY <1>1, <3>1, <3>2
  <2> QED BY <1>1, <2>1, <2>2 DEF Right, Tries
<1>4. (\A p : p \notin Trying => Right(log, fs, p))' \/ blind
  BY <1>1, <1>3 DEF Trying
<1> QED BY <1>1, <1>2, <1>4 DEF DInv

(* unlink leaves nothing but a directory at the path that was tried.       *)
LEMMA FailDisk == ASSUME DInv, Fail PROVE DInv'
<1> DEFINE e == [job |-> <<at.group, at.file>>, ok |-> FALSE, targets |-> Targets]
<1>1. /\ pc = "fail" /\ fs' = Without(Targets)
      /\ pc' = "files" /\ log' = Append(log, e) /\ UNCHANGED <<input, opt, blind>>
  BY DEF Fail, Answered
<1>2. PICK S : log \in Seq(S)
  BY DEF DInv
<1>3. e.targets = Targets /\ ~e.ok
  OBVIOUS
<1> HIDE DEF e
<1>4. /\ \A p \in Targets : p \in DOMAIN fs' => fs'[p] = Directory
      /\ \A p : p \notin Targets => (p \in DOMAIN fs' <=> p \in DOMAIN fs)
      /\ \A p \in DOMAIN fs' : fs'[p] = fs[p]
  BY <1>1 DEF Without
<1>5. ASSUME NEW p, ~blind PROVE Right(log, fs, p)'
  <2>1. CASE p \in Targets
    <3>1. Tries(log', p) # {} /\ log'[LastOf(Tries(log', p))] = e
      BY <1>1, <1>3, <2>1, Logged DEF DInv
    <3> QED BY <1>1, <1>3, <1>4, <2>1, <3>1 DEF Right, Tries
  <2>2. CASE p \notin Targets
    <3>1. /\ Tries(log', p) = Tries(log, p)
          /\ Tries(log, p) # {} => log'[LastOf(Tries(log, p))] = log[LastOf(Tries(log, p))]
      BY <1>1, <1>3, <2>2, Logged DEF DInv
    <3>2. Right(log, fs, p)
      BY <1>1, <1>5, <2>2 DEF DInv, Trying
    <3>3. (p \in DOMAIN fs' <=> p \in DOMAIN fs) /\ (p \in DOMAIN fs' => fs'[p] = fs[p])
      BY <1>4, <2>2
    <3> QED BY <1>1, <3>1, <3>2, <3>3 DEF Right, Tries
  <2> QED BY <2>1, <2>2
<1>6. (\E S1 : log \in Seq(S1))'
  BY <1>1, <1>2, LongerLog
<1> QED BY <1>1, <1>5, <1>6 DEF DInv

LEMMA DiskStep == ASSUME DInv, [Step]_vars PROVE DInv'
<1>1. CASE Option
  BY <1>1, OptionDisk
<1>2. CASE \/ Version \/ Usage \/ NoAction \/ NotOpened \/ BadEncoding \/ ListNames
           \/ NotForComponents \/ NoSuchGroup \/ Done
  <2>1. pc # "fail" /\ pc' = "exit" /\ UNCHANGED <<input, opt, fs, log, blind>>
    BY <1>2 DEF Version, Usage, NoAction, NotOpened, BadEncoding, ListNames, NotForComponents,
       NoSuchGroup, Done, Exit, OnFiles
  <2> QED BY <2>1, QuietStep
<1>3. CASE ParametersDone \/ Opened \/ EncodingDone \/ AllGroups
  <2>1. /\ pc # "fail" /\ pc' \in {"open", "encoding", "action", "groups"}
        /\ UNCHANGED <<input, opt, fs, log, blind>>
    BY <1>3 DEF ParametersDone, Opened, EncodingDone, AllGroups, OnFiles, To, fileVars
  <2> QED BY <2>1, QuietStep
<1>4. CASE EnterGroup \/ NextGroup \/ LeaveGroup \/ Skip
  <2>1. /\ pc # "fail" /\ pc' \in {"files", "groups", "exit"}
        /\ UNCHANGED <<input, opt, fs, log, blind>>
    BY <1>4 DEF EnterGroup, NextGroup, LeaveGroup, Skip, Enter, OnFiles, Exit, fileVars
  <2> QED BY <2>1, QuietStep
<1>5. CASE Place \/ NoDirname
  <2>1. /\ pc = "files" /\ pc' \in {"directory", "stale"} /\ input.action = "x"
        /\ UNCHANGED <<input, opt, fs, log, blind>>
    BY <1>5 DEF Place, NoDirname, Taking
  <2> QED BY <2>1, QuietStep
<1>6. CASE ListFile \/ TestFile
  <2>1. \E ok : Answered(ok, {}) /\ pc = "files" /\ UNCHANGED <<fs, blind>>
    BY <1>6 DEF ListFile, TestFile, Taking
  <2> QED BY <2>1, QuietAttempt
<1>7. CASE FailStale
  <2>1. Answered(FALSE, {}) /\ pc = "stale" /\ blind' = (blind \/ fs' # fs)
    BY <1>7 DEF FailStale
  <2>2. CASE fs' = fs
    <3>1. ~blind' => ~blind
      BY <2>1, <2>2
    <3> QED BY <2>1, <2>2, <3>1, QuietAttempt
  <2>3. CASE fs' # fs
    <3>1. pc' = "files" /\ \E e : log' = Append(log, e)
      BY <2>1 DEF Answered
    <3>2. (\E S : log \in Seq(S))'
      BY <3>1, LongerLog DEF DInv
    <3> QED BY <2>1, <2>3, <3>1, <3>2 DEF DInv
  <2> QED BY <2>2, <2>3
<1>8. CASE Locate \/ Save \/ SaveFails \/ Fail
  BY <1>8, LocateDisk, SaveDisk, SaveFailsDisk, FailDisk
<1>9. CASE UNCHANGED vars
  <2>1. UNCHANGED <<input, pc, opt, fs, log, blind, filename>>
    BY <1>9 DEF vars, fileVars
  <2>2. Targets' = Targets
    BY <2>1 DEF Targets, IsDirectory, Upto
  <2> QED BY <2>1, <2>2 DEF DInv, Trying, Right, Tries
<1> QED BY <1>1, <1>2, <1>3, <1>4, <1>5, <1>6, <1>7, <1>8, <1>9 DEF Step

LEMMA DiskIsRight == ASSUME DInv PROVE DiskExplained
<1> SUFFICES ASSUME pc \in {"files", "groups", "exit"}, ~blind,
                    NEW p \in DOMAIN fs \cup DOMAIN input.disk
             PROVE  LET tries == {k \in DOMAIN log : p \in log[k].targets}
                        last == log[LastOf(tries)]
                    IN  IF tries # {} THEN
                          IF last.ok THEN p \in DOMAIN fs /\ fs[p] = Whole(last.job[2], opt.format)
                          ELSE p \in DOMAIN fs => fs[p] = Directory
                        ELSE IF p \in DOMAIN input.disk THEN p \in DOMAIN fs /\ fs[p] = input.disk[p]
                        ELSE input.action = "x" /\ fs[p] = Directory
  BY DEF DiskExplained
<1>1. Right(log, fs, p)
  BY DEF DInv, Trying
<1> QED BY <1>1 DEF Right, Tries

(* What is on the disk between two files is explained by the last attempt  *)
(* at each path: whatever the names, the options, the directories in the   *)
(* way and the failures of memory, disk and library, no partial file stays *)
(* behind and no file is touched but those tried (extract_file, unlink).   *)
THEOREM DiskIsExplained == Spec => []DiskExplained
<1>1. Init => DInv
  BY InitDisk
<1>2. DInv /\ [Step]_vars => DInv'
  BY DiskStep
<1>3. DInv => DiskExplained
  BY DiskIsRight
<1> QED BY <1>1, <1>2, <1>3, PTL DEF Spec
=============================================================================
