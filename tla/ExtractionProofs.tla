-------------------------- MODULE ExtractionProofs --------------------------
(***************************************************************************)
(* That extraction is right: for all archives, chunk sizes and widths of   *)
(* the counters, what unshield_file_save and unshield_file_save_raw put    *)
(* into the output is the beginning of the file they were asked for, their *)
(* failures have one of the known reasons, and both keep the promise of    *)
(* Extraction.                                                             *)
(***************************************************************************)
EXTENDS FileSaveProofs, WellFoundedInduction

(* Induction over the naturals as a fact about a set of them.              *)
LEMMA LeastNumber ==
  ASSUME NEW T \in SUBSET Nat, T # {}
  PROVE  \E m \in T : \A n \in T : m <= n
<1>1. PICK R : R = OpToRel(<, Nat)
  OBVIOUS
<1>2. IsWellFoundedOn(R, Nat)
  BY <1>1, NatLessThanWellFounded
<1>3. PICK x \in T : \A y \in T : ~(<<y, x>> \in R)
  BY <1>2, WFMin
<1>4. ASSUME NEW y \in T, y < x PROVE FALSE
  <2>1. <<y, x>> \in Nat \X Nat /\ <<y, x>>[1] < <<y, x>>[2]
    BY <1>4
  <2>2. <<y, x>> \in R
    BY <1>1, <2>1 DEF OpToRel
  <2> QED BY <1>3, <2>2
<1> QED BY <1>3, <1>4

LEMMA SetInduction ==
  ASSUME NEW S, 0 \in S, \A n \in Nat : n \in S => n + 1 \in S
  PROVE  Nat \subseteq S
<1> SUFFICES ASSUME Nat \ S # {} PROVE FALSE
  OBVIOUS
<1>1. PICK m \in Nat \ S : \A n \in Nat \ S : m <= n
  BY LeastNumber
<1>2. m - 1 \in Nat /\ (m - 1) + 1 = m
  BY <1>1
<1>3. m - 1 \in S
  BY <1>1, <1>2
<1> QED BY <1>1, <1>2, <1>3
-----------------------------------------------------------------------------
(* The chain of links of a file and the files at its end.                  *)
LEMMA ChainHas ==
  ASSUME NEW a, NEW i
  PROVE  /\ Chain(a, i) \subseteq DOMAIN a.files
         /\ i \in DOMAIN a.files => i \in Chain(a, i)
         /\ i \notin DOMAIN a.files => Chain(a, i) = {}
  BY DEF Chain

LEMMA ChainStops ==
  ASSUME NEW a, NEW i \in DOMAIN a.files, ~LinksToFile(a, i)
  PROVE  Chain(a, i) = {i}
<1>1. {i} \in SUBSET DOMAIN a.files /\ i \in {i} /\ IsClosed(a, {i})
  BY DEF IsClosed
<1>2. Chain(a, i) \subseteq {i}
  BY <1>1 DEF Chain
<1> QED BY <1>2, ChainHas

LEMMA ChainGoesOn ==
  ASSUME NEW a, NEW i \in DOMAIN a.files, LinksToFile(a, i), NEW p, p = a.files[i].prev
  PROVE  Chain(a, i) = {i} \cup Chain(a, p)
<1>1. p \in DOMAIN a.files
  BY DEF LinksToFile
<1>2. ASSUME NEW j \in Chain(a, p) PROVE j \in Chain(a, i)
  <2>1. j \in DOMAIN a.files
    BY <1>2 DEF Chain
  <2>2. ASSUME NEW files \in SUBSET DOMAIN a.files, i \in files, IsClosed(a, files)
        PROVE  j \in files
    <3>1. p \in files
      BY <2>2 DEF IsClosed
    <3> QED BY <1>2, <2>2, <3>1 DEF Chain
  <2> QED BY <2>1, <2>2 DEF Chain
<1>3. ASSUME NEW j \in Chain(a, i), j # i PROVE j \in Chain(a, p)
  <2>1. j \in DOMAIN a.files
    BY <1>3 DEF Chain
  <2>2. ASSUME NEW files \in SUBSET DOMAIN a.files, p \in files, IsClosed(a, files)
        PROVE  j \in files
    <3>1. files \cup {i} \in SUBSET DOMAIN a.files /\ i \in files \cup {i}
      BY <2>2
    <3>2. IsClosed(a, files \cup {i})
      BY <2>2 DEF IsClosed
    <3>3. j \in files \cup {i}
      BY <1>3, <3>1, <3>2 DEF Chain
    <3> QED BY <1>3, <3>3
  <2> QED BY <1>1, <2>1, <2>2 DEF Chain
<1> QED BY <1>2, <1>3, ChainHas

EndsOf(i) == {j \in Chain(Archive, i) : ~HasLink(Archive, j)}

(* A link leads to the same end as the file it links to.                   *)
LEMMA EndsOfLink ==
  ASSUME NEW i \in DOMAIN Archive.files, HasLink(Archive, i),
         NEW p, p = Archive.files[i].prev
  PROVE  EndsOf(p) = EndsOf(i)
<1>1. CASE p \in DOMAIN Archive.files
  <2>1. LinksToFile(Archive, i)
    BY <1>1 DEF LinksToFile
  <2>2. Chain(Archive, i) = {i} \cup Chain(Archive, p)
    BY <2>1, ChainGoesOn
  <2> QED BY <2>2 DEF EndsOf
<1>2. CASE p \notin DOMAIN Archive.files
  <2>1. Chain(Archive, i) = {i}
    BY <1>2, ChainStops DEF LinksToFile
  <2>2. Chain(Archive, p) = {}
    BY <1>2, ChainHas
  <2> QED BY <2>1, <2>2 DEF EndsOf
<1> QED BY <1>1, <1>2

LEMMA EndsOfFile ==
  ASSUME NEW i
  PROVE  /\ i \notin DOMAIN Archive.files => EndsOf(i) = {}
         /\ i \in DOMAIN Archive.files /\ ~HasLink(Archive, i) => EndsOf(i) = {i}
<1>1. i \notin DOMAIN Archive.files => EndsOf(i) = {}
  BY ChainHas DEF EndsOf
<1>2. ASSUME i \in DOMAIN Archive.files, ~HasLink(Archive, i) PROVE EndsOf(i) = {i}
  <2>1. Chain(Archive, i) = {i}
    BY <1>2, ChainStops DEF LinksToFile
  <2> QED BY <1>2, <2>1 DEF EndsOf
<1> QED BY <1>1, <1>2

LEMMA EndsAre ==
  ASSUME cab \in DOMAIN Archives, NEW i \in -1 .. Archive.count
  PROVE  Ends(i) = EndsOf(i)
  BY DEF Ends, EndsOf, Chains, Archive
-----------------------------------------------------------------------------
(* What the cache knows of a file, intact or not, is what the file table   *)
(* says, but for the volume and the split flag.                            *)
FromTable(e, d) ==
  /\ d = [e EXCEPT !.flags = d.flags, !.volume = d.volume]
  /\ d.flags \in {e.flags, e.flags \cup {"split"}}
TrueCache == \A i \in Files : fds[i] # NotRead => FromTable(ReadFileDescriptor(i), fds[i])

(* Where the links lead: whoever is being looked up has the same end as    *)
(* what was asked for, and what is being read is that end.                 *)
AskedInRange == call.asked \in -1 .. Archive.count
SameEnds == EndsOf(call.index) = EndsOf(call.asked)
Vetted ==
  pc \notin {"idle", "lookup", "vet"} =>
    ~HasLink(Archive, call.index) /\ ~IsInvalid(Archive.files[call.index])
FoundPart == pc = "check" /\ Laid(call.index) => rd.src = Lo(call.index)

(* The position of the reader within the chunks of the file, or within the *)
(* blocks of a file that is copied.                                        *)
ChunkCount(i) == Len(Archive.chunks[i])
ChunkOf(i, k) == Archive.chunks[i][k]
StoredAt(i, k) == Archive.starts[i].stored[k]
ContentAt(i, k) == Archive.starts[i].content[k]

BeforeChunk(i, k) ==
  /\ Len(got) - Ahead = StoredAt(i, k)
  /\ call.left + StoredAt(i, k) = Len(Plain(i))
  /\ Len(call.digest) = ContentAt(i, k)
  /\ \A j \in 1 .. Len(call.digest) : call.digest[j] = Archive.content[i][j]
  /\ pc # "loop" => k <= ChunkCount(i)
  /\ pc = "chunk" => io.size = Len(ChunkOf(i, k))
ChunksSoFar ==
  InLoop /\ InChunks /\ Sound(call.index) =>
    \E k \in 1 .. ChunkCount(call.index) + 1 : BeforeChunk(call.index, k)
BufferIsLast ==
  pc \in {"length", "chunk"} /\ io.status = "idle" =>
    /\ Len(io.buf) = io.size /\ io.size <= Len(got)
    /\ \A j \in 1 .. io.size : io.buf[j] = got[Len(got) - io.size + j]

Blocks == {n * BUFFER_SIZE : n \in Nat}
InBlocks ==
  pc \in {"loop", "data"} /\ ~InChunks =>
    /\ Len(got) - Ahead \in Blocks \/ (pc = "loop" /\ call.left = 0)
    /\ pc = "data" => call.left > 0 /\ io.size = NextSize

(* What the end of a call knows.                                           *)
Innocent(l) ==
  LET t == Target(l.asked)
  IN  /\ IsLegal(l.asked) /\ Sound(t) /\ Intact(t) /\ ~l.fault
      /\ ~AtEndOfVolume(t) /\ ~CutBetweenReads(l.op, t)
ExitExplained == pc = "exit" /\ Innocent(call) => call.ok
OutputKept == InLoop => (out.exists <=> call.sink = "file")
Accepted == pc = "exit" /\ call.ok => Promise!Acceptable

XInv ==
  /\ EInv /\ TrueCache /\ AskedInRange /\ SameEnds /\ Vetted /\ FoundPart
  /\ ChunksSoFar /\ BufferIsLast /\ InBlocks /\ OutputIsPrefix
  /\ ExitExplained /\ FailureExplained /\ OutputKept /\ Accepted
-----------------------------------------------------------------------------
LEMMA FilledFromTable ==
  ASSUME IInv, [Next]_vars, NEW i \in Files, fds[i] = NotRead
  PROVE  fds'[i] \in {NotRead, ReadFileDescriptor(i)}
<1>1. fds \in [Files -> FileDescriptor \cup {NotRead}]
      /\ (io.status # "none" => rd.index \in Files /\ fds[rd.index] # NotRead)
  BY DEF IInv, TypeOK
<1>2. CASE \E j \in Files : GetFileDescriptor(j)
  <2>1. PICK j \in Files : fds' = [fds EXCEPT ![j] = Descriptor(j)]
    BY <1>2 DEF GetFileDescriptor
  <2> QED BY <1>1, <2>1 DEF Descriptor
<1>3. CASE CreateOpen
  <2>1. PICK e : fds' = [fds EXCEPT ![rd.index] = e]
    BY <1>3 DEF CreateOpen
  <2>2. rd.index # i
    BY <1>1, <1>3 DEF CreateOpen
  <2> QED BY <1>1, <2>1, <2>2
<1>4. CASE ReadAcross \/ OpenNext
  <2>1. PICK opened, failed : OpensNext(opened, failed)
    BY <1>4, AdvanceOpensNext
  <2>2. io.status # "none" /\ rd.index # i
    BY <1>1, <1>4, AdvanceOpensNext
  <2>3. fds' = fds \/ fds' = [fds EXCEPT ![rd.index] = Slot(rd.index)]
    BY <2>1, <2>2, OpensNextReader
  <2> QED BY <1>1, <2>2, <2>3
<1>5. CASE fds' = fds
  BY <1>5
<1> QED BY <1>2, <1>3, <1>4, <1>5
    DEF Next, Step, Open, Read, CreateBegin, CreateExternal, CreateFail, ReadFail, ReadDone,
        ReadBegin, Destroy, vars

LEMMA SameCab ==
  ASSUME [Next]_vars PROVE UNCHANGED cab
  BY DEF Next, Step, Open, Read, CreateBegin, CreateExternal, CreateFail, CreateOpen,
     ReadFail, ReadDone, ReadAcross, OpenNext, OpensNext, NextToOpen, ReadBegin, Destroy,
     GetFileDescriptor, vars

LEMMA CabKept ==
  ASSUME SInv, [SaveNext]_allVars PROVE UNCHANGED cab
  BY StepsOfReader, SameCab

LEMMA LearnsFromTable ==
  ASSUME NEW e \in FileDescriptor, NEW d, NEW f, FromTable(e, d), Learns(d, f)
  PROVE  FromTable(e, f)
<1>1. PICK x, v, y, w : x = d.flags /\ v = d.volume /\ y = f.flags /\ w = f.volume
  OBVIOUS
<1>2. d = [e EXCEPT !.flags = x, !.volume = v] /\ x \in {e.flags, e.flags \cup {"split"}}
  BY <1>1 DEF FromTable
<1>3. f = [d EXCEPT !.flags = y, !.volume = w] /\ y \in {x, x \cup {"split"}}
  BY <1>1 DEF Learns
<1>4. f = [e EXCEPT !.flags = y, !.volume = w]
  BY <1>2, <1>3 DEF FileDescriptor
<1>5. y \in {e.flags, e.flags \cup {"split"}}
  BY <1>2, <1>3
<1> QED BY <1>1, <1>4, <1>5 DEF FromTable

LEMMA TrueCacheKept ==
  ASSUME IInv, TrueCache, [Next]_vars PROVE TrueCache'
<1>1. IInv /\ [Next]_vars /\ cab \in DOMAIN Archives
  BY DEF IInv, TypeOK
<1>2. UNCHANGED cab
  BY SameCab
<1>3. Files' = Files /\ \A i : ReadFileDescriptor(i)' = ReadFileDescriptor(i)
  BY <1>2 DEF Files, Archive, ReadFileDescriptor
<1>a. ASSUME NEW i \in Files, fds'[i] # NotRead
      PROVE  FromTable(ReadFileDescriptor(i), fds'[i])
  <2>1. PICK e : e = ReadFileDescriptor(i) /\ e \in FileDescriptor
    BY <1>1, ReadFileDescriptorType
  <2>2. CASE fds[i] = NotRead
    <3>1. fds'[i] = e
      BY <1>1, <1>a, <2>1, <2>2, FilledFromTable
    <3> QED BY <2>1, <3>1 DEF FromTable, FileDescriptor
  <2>3. CASE fds[i] # NotRead
    <3>1. PICK d, f : d = fds[i] /\ f = fds'[i]
      OBVIOUS
    <3>2. Learns(d, f) /\ FromTable(e, d)
      BY <1>1, <2>1, <2>3, <3>1, StepLearns DEF TrueCache
    <3> QED BY <2>1, <3>1, <3>2, LearnsFromTable
  <2> QED BY <2>2, <2>3
<1> SUFFICES ASSUME NEW i \in Files', fds'[i] # NotRead
             PROVE  FromTable(ReadFileDescriptor(i), fds[i])'
  BY DEF TrueCache
<1>4. FromTable(ReadFileDescriptor(i), fds'[i]) /\ ReadFileDescriptor(i)' = ReadFileDescriptor(i)
  BY <1>3, <1>a
<1> QED BY <1>4 DEF FromTable

LEMMA NextTrueCache ==
  ASSUME SInv, TrueCache, [SaveNext]_allVars PROVE TrueCache'
<1>1. IInv /\ [Next]_vars
  BY StepsOfReader DEF SInv, StreamInv
<1> QED BY <1>1, TrueCacheKept

(* The cached descriptor and the entry of the file table.                  *)
LEMMA EntryCached ==
  ASSUME IInv, TrueCache, NEW i \in Files, fds[i] # NotRead,
         NEW d, d = fds[i], NEW e, e = Archive.files[i]
  PROVE  /\ d \in FileDescriptor /\ e \in FileDescriptor /\ i \in DOMAIN Archive.files
         /\ d.offset = e.offset /\ d.expanded = e.expanded /\ d.compressed = e.compressed
         /\ d.md5 = e.md5
         /\ "compressed" \in d.flags <=> "compressed" \in e.flags
         /\ IsInvalid(d) <=> IsInvalid(e)
         /\ StoredSize(d.flags, d) = StoredSize(e.flags, e)
         /\ Archive.version \notin {0, 5} => (d.linked <=> e.linked) /\ d.prev = e.prev
         /\ Archive.version \in {0, 5} => ~d.linked
<1>1. cab \in DOMAIN Archives /\ IInv
  BY DEF IInv, TypeOK
<1>2. e \in FileDescriptor /\ i \in DOMAIN Archive.files
  BY <1>1, ArchiveType
<1>3. d \in FileDescriptor
  BY <1>1 DEF IInv, TypeOK
<1>4. FromTable(ReadFileDescriptor(i), d)
  BY DEF TrueCache
<1>5. CASE Archive.version \in {0, 5}
  <2>1. PICK t : t = [e EXCEPT !.volume = 1, !.linked = FALSE, !.prev = 0]
    OBVIOUS
  <2>2. FromTable(t, d)
    BY <1>4, <1>5, <2>1 DEF ReadFileDescriptor
  <2> QED BY <1>2, <1>3, <1>5, <2>1, <2>2 DEF FromTable, FileDescriptor, IsInvalid, StoredSize
<1>6. CASE Archive.version \notin {0, 5}
  <2>1. FromTable(e, d)
    BY <1>4, <1>6 DEF ReadFileDescriptor
  <2> QED BY <1>2, <1>3, <1>6, <2>1 DEF FromTable, FileDescriptor, IsInvalid, StoredSize
<1> QED BY <1>5, <1>6

LEMMA CachedEntry ==
  ASSUME SInv, TrueCache, NEW i \in Files, fds[i] # NotRead,
         NEW d, d = fds[i], NEW e, e = Archive.files[i]
  PROVE  /\ d \in FileDescriptor /\ e \in FileDescriptor /\ i \in DOMAIN Archive.files
         /\ d.offset = e.offset /\ d.expanded = e.expanded /\ d.compressed = e.compressed
         /\ d.md5 = e.md5
         /\ "compressed" \in d.flags <=> "compressed" \in e.flags
         /\ IsInvalid(d) <=> IsInvalid(e)
         /\ StoredSize(d.flags, d) = StoredSize(e.flags, e)
         /\ Archive.version \notin {0, 5} => (d.linked <=> e.linked) /\ d.prev = e.prev
         /\ Archive.version \in {0, 5} => ~d.linked
<1>1. IInv
  BY DEF SInv, StreamInv
<1> QED BY <1>1, EntryCached
-----------------------------------------------------------------------------
(* What depends on the archive only.                                       *)
LEMMA SameRequests ==
  ASSUME UNCHANGED cab
  PROVE  /\ Archive' = Archive
         /\ \A i : /\ EndsOf(i)' = EndsOf(i) /\ Ends(i)' = Ends(i) /\ Target(i)' = Target(i)
                   /\ IsLegal(i)' <=> IsLegal(i)
                   /\ Sound(i)' <=> Sound(i)
                   /\ Intact(i)' <=> Intact(i)
                   /\ AtEndOfVolume(i)' <=> AtEndOfVolume(i)
         /\ \A op, i : /\ Wanted(op, i)' = Wanted(op, i)
                       /\ CutBetweenReads(op, i)' <=> CutBetweenReads(op, i)
<1>1. cab' = cab
  OBVIOUS
<1>2. Archive' = Archive
  BY <1>1 DEF Archive
<1>3. \A i : EndsOf(i)' = EndsOf(i) /\ Ends(i)' = Ends(i)
  BY <1>1, <1>2 DEF EndsOf, Ends
<1>4. \A i : Target(i)' = Target(i) /\ (IsLegal(i)' <=> IsLegal(i))
  BY <1>2, <1>3 DEF Target, IsLegal
<1>5. \A i : (Sound(i)' <=> Sound(i)) /\ (AtEndOfVolume(i)' <=> AtEndOfVolume(i))
  BY <1>1, <1>2 DEF Sound, AtEndOfVolume, Vols
<1>8. \A i : Intact(i)' <=> Intact(i)
  BY <1>1 DEF Intact
<1>6. \A op, i : Wanted(op, i)' = Wanted(op, i)
  BY <1>1, <1>2 DEF Wanted, Plain
<1>7. \A op, i : CutBetweenReads(op, i)' <=> CutBetweenReads(op, i)
  BY <1>1, <1>2 DEF CutBetweenReads, ReadStarts, Plain
<1> QED BY <1>2, <1>3, <1>4, <1>5, <1>6, <1>7, <1>8

(* A call changes neither its arguments, but for the index of the innermost*)
(* one when it follows a link.                                             *)
LEMMA ArgumentsKept ==
  ASSUME SInv, [SaveNext]_allVars, ~Ask
  PROVE  /\ call'.asked = call.asked /\ call'.op = call.op /\ call'.sink = call.sink
         /\ ~FollowLink => call'.index = call.index
<1>1. call \in CallType
  BY DEF SInv, LocalsOK
<1>2. CASE LookupFail \/ VetFail \/ NoMemoryForReader \/ ReaderFails \/ Exit
  BY <1>1, <1>2 DEF LookupFail, VetFail, NoMemoryForReader, ReaderFails, Exit, GiveUp, Answer,
     CallType
<1>3. CASE CheckFail \/ OutputFails \/ ReadFails \/ EmptyChunk \/ InflateFails \/ Verify
  BY <1>1, <1>3 DEF CheckFail, OutputFails, ReadFails, EmptyChunk, InflateFails, Verify, ToExit,
     CallType
<1>4. CASE WriteOutput \/ WriteFails
  BY <1>1, <1>4 DEF WriteOutput, WriteFails, ToExit, Digested, CallType
<1>5. CASE OpenOutput \/ FollowLink
  BY <1>1, <1>5 DEF OpenOutput, FollowLink, CallType
<1>6. CASE UNCHANGED call
  BY <1>6
<1> QED BY <1>2, <1>3, <1>4, <1>5, <1>6
    DEF SaveNext, Work, Lookup, StartReader, OpenReader, AskLength, AskData, ContinueRead,
        FinishRead, AskChunk, allVars, locals

LEMMA NextLinks ==
  ASSUME SInv, TrueCache, AskedInRange, SameEnds, Vetted, [SaveNext]_allVars
  PROVE  AskedInRange' /\ SameEnds' /\ Vetted'
<1>1. UNCHANGED cab /\ Archive' = Archive /\ \A i : EndsOf(i)' = EndsOf(i)
  BY CabKept, SameRequests
<1>2. cab \in DOMAIN Archives /\ Archive.count \in Nat /\ call \in CallType
  BY ArchiveType DEF SInv, StreamInv, IInv, TypeOK, LocalsOK
<1>3. CASE Ask
  <2>1. PICK op \in Op, i \in Files \cup {-1, Archive.count}, sink \in Sink : Begin(op, i, sink)
    BY <1>3 DEF Ask
  <2>2. call'.asked = i /\ call'.index = i /\ pc' = "lookup"
    BY <2>1 DEF Begin, NewCall
  <2>3. i \in -1 .. Archive.count
    BY <1>2 DEF Files
  <2> QED BY <1>1, <2>2, <2>3 DEF AskedInRange, SameEnds, Vetted
<1>4. CASE FollowLink
  <2>0. PICK i \in Files : i = call.index
    BY <1>4 DEF FollowLink, At, SInv, SameFile
  <2>1. PICK d, e : i = call.index /\ d = fds[i] /\ e = Archive.files[i]
    BY <2>0
  <2>2. /\ ~IsInvalid(d) /\ d.linked /\ pc' = "lookup" /\ call' = [call EXCEPT !.index = d.prev]
        /\ pc = "vet" /\ d # NotRead
    BY <1>4, <2>1 DEF FollowLink, At, LinkPrevious, fd, SInv, SameFile
  <2>3. /\ ~IsInvalid(e) /\ e.linked /\ d.prev = e.prev /\ Archive.version \notin {0, 5}
        /\ i \in DOMAIN Archive.files
    <3>1. /\ i \in DOMAIN Archive.files /\ (IsInvalid(d) <=> IsInvalid(e))
          /\ Archive.version \notin {0, 5} => (d.linked <=> e.linked) /\ d.prev = e.prev
          /\ Archive.version \in {0, 5} => ~d.linked
      BY <2>1, <2>2, CachedEntry
    <3> QED BY <2>2, <3>1
  <2>4. HasLink(Archive, i)
    BY <2>1, <2>3 DEF HasLink
  <2>5. EndsOf(d.prev) = EndsOf(i)
    BY <2>1, <2>3, <2>4, EndsOfLink
  <2>6. call'.asked = call.asked /\ call'.index = d.prev
    BY <1>2, <2>2 DEF CallType
  <2> QED BY <1>1, <2>1, <2>2, <2>5, <2>6 DEF AskedInRange, SameEnds, Vetted
<1>5. CASE ~Ask /\ ~FollowLink
  <2>1. call'.asked = call.asked /\ call'.index = call.index
    BY <1>5, ArgumentsKept
  <2>2. AskedInRange' /\ SameEnds'
    BY <1>1, <2>1 DEF AskedInRange, SameEnds
  <2>3. ASSUME pc' \notin {"idle", "lookup", "vet"}
        PROVE  ~HasLink(Archive, call.index) /\ ~IsInvalid(Archive.files[call.index])
    <3>1. CASE StartReader
      <4>0. PICK i \in Files : i = call.index
        BY <3>1 DEF StartReader, At, SInv, SameFile
      <4>1. PICK d, e : i = call.index /\ d = fds[i] /\ e = Archive.files[i]
        BY <4>0
      <4>2. ~IsInvalid(d) /\ ~d.linked /\ d # NotRead
        BY <3>1, <4>1 DEF StartReader, At, fd, SInv, SameFile
      <4>3. ~IsInvalid(e) /\ (Archive.version \notin {0, 5} => ~e.linked)
        <5>1. /\ IsInvalid(d) <=> IsInvalid(e)
              /\ Archive.version \notin {0, 5} => (d.linked <=> e.linked)
          BY <4>1, <4>2, CachedEntry
        <5> QED BY <4>2, <5>1
      <4> QED BY <4>1, <4>3 DEF HasLink
    <3>2. CASE pc \notin {"idle", "lookup", "vet"}
      BY <3>2 DEF Vetted
    <3>3. CASE ~StartReader /\ pc \in {"idle", "lookup", "vet"}
      <4>1. io.status = "none"
        BY <3>3 DEF SInv, PcStatus
      <4> QED BY <1>5, <2>3, <3>3, <4>1
          DEF SaveNext, Work, LookupFail, Lookup, VetFail, NoMemoryForReader, OpenReader,
              ReaderFails, CheckFail, OpenOutput, OutputFails, AskLength, AskData, ContinueRead,
              ReadFails, FinishRead, AskChunk, EmptyChunk, InflateFails, WriteOutput, WriteFails,
              Verify, Exit, GiveUp, Answer, At, ReadAcross, ReadFail, ReadDone, HasOutput,
              allVars, locals
    <3> QED BY <3>1, <3>2, <3>3
  <2>4. Vetted'
    BY <1>1, <2>1, <2>3 DEF Vetted, HasLink, IsInvalid
  <2> QED BY <2>2, <2>4
<1> QED BY <1>3, <1>4, <1>5

(* What is being read is what was asked for.                               *)
LEMMA ReadsTarget ==
  ASSUME SInv, AskedInRange, SameEnds, Vetted, pc \notin {"idle", "lookup", "vet"}
  PROVE  /\ Target(call.asked) = call.index /\ IsLegal(call.asked)
         /\ call.index \in Files /\ fds[call.index] # NotRead
<1>1. cab \in DOMAIN Archives /\ call.index \in Files /\ fds[call.index] # NotRead
  BY DEF SInv, StreamInv, IInv, TypeOK, SameFile
<1>2. call.index \in DOMAIN Archive.files
  BY <1>1, ArchiveType
<1>3. Ends(call.asked) = {call.index}
  BY <1>1, <1>2, EndsAre, EndsOfFile DEF AskedInRange, SameEnds, Vetted
<1>4. IsLegal(call.asked)
  BY <1>3 DEF IsLegal, Vetted
<1>5. Target(call.asked) = call.index
  BY <1>3 DEF Target
<1> QED BY <1>1, <1>4, <1>5
-----------------------------------------------------------------------------
(* What it means that a file is sound.                                     *)
LEMMA PiecesFit ==
  ASSUME NEW bytes, Len(bytes) \in Nat, NEW pieces, Len(pieces) \in Nat,
         \A k \in 1 .. Len(pieces) : Len(pieces[k]) \in Nat,
         NEW starts, Concatenates(bytes, pieces, starts)
  PROVE  \A k \in 1 .. Len(pieces) + 1 : starts[k] \in Nat /\ starts[k] <= Len(bytes)
<1>1. PICK n, b : n = Len(pieces) /\ b = Len(bytes)
  OBVIOUS
<1>2. /\ n \in Nat /\ b \in Nat
      /\ \A k \in 1 .. n + 1 : starts[k] \in Nat
      /\ starts[n + 1] = b
      /\ \A k \in 1 .. n : starts[k] <= starts[k + 1]
  <2>1. starts \in [1 .. n + 1 -> Nat] /\ starts[n + 1] = b /\ n \in Nat /\ b \in Nat
    BY <1>1 DEF Concatenates
  <2>2. ASSUME NEW k \in 1 .. n PROVE starts[k] <= starts[k + 1]
    <3>1. starts[k + 1] = starts[k] + Len(pieces[k]) /\ Len(pieces[k]) \in Nat
      BY <1>1 DEF Concatenates
    <3>2. starts[k] \in Nat
      BY <2>1
    <3> QED BY <3>1, <3>2
  <2> QED BY <2>1, <2>2
<1> DEFINE S == {m \in Nat : \A k \in 1 .. n + 1 : k + m = n + 1 => starts[k] <= b}
<1>3. 0 \in S
  BY <1>2
<1>4. ASSUME NEW m \in Nat, m \in S PROVE m + 1 \in S
  <2>1. ASSUME NEW k \in 1 .. n + 1, k + (m + 1) = n + 1 PROVE starts[k] <= b
    <3>1. k \in 1 .. n /\ k + 1 \in 1 .. n + 1 /\ (k + 1) + m = n + 1
      BY <1>2, <2>1
    <3>2. starts[k + 1] <= b
      BY <1>4, <3>1
    <3> QED BY <1>2, <3>1, <3>2
  <2> QED BY <2>1
<1>5. Nat \subseteq S
  <2> HIDE DEF S
  <2> QED BY <1>3, <1>4, SetInduction
<1>6. ASSUME NEW k \in 1 .. n + 1 PROVE starts[k] <= b
  <2>1. n + 1 - k \in Nat /\ k + (n + 1 - k) = n + 1
    BY <1>2
  <2>2. n + 1 - k \in S
    BY <1>5, <2>1
  <2> QED BY <2>1, <2>2
<1> QED BY <1>1, <1>2, <1>6

LEMMA SoundMeans ==
  ASSUME cab \in DOMAIN Archives, NEW i \in Files, Sound(i),
         NEW e, e = Archive.files[i], NEW content, content = Archive.content[i]
  PROVE  /\ Laid(i) /\ content \in Seq(Byte) /\ Len(content) \in Nat
         /\ e.expanded = Len(content)
         /\ Archive.version >= 6 => e.md5 = content
         /\ "compressed" \notin e.flags => Plain(i) = content
         /\ "compressed" \in e.flags =>
              LET chunks == Archive.chunks[i]
              IN  /\ chunks \in Seq(Seq(Byte))
                  /\ \A k \in 1 .. Len(chunks) : IsDeflated(chunks[k])
                  /\ Concatenates(Plain(i), [k \in 1 .. Len(chunks) |-> PackedChunk(chunks[k])],
                                  Archive.starts[i].stored)
                  /\ Concatenates(content, [k \in 1 .. Len(chunks) |-> Inflate(chunks[k])],
                                  Archive.starts[i].content)
<1>1. Laid(i) /\ Encodes(cab, i)
  BY DEF Sound, SoundFiles, Laid
<1>2. content \in Seq(Byte)
  BY <1>1 DEF Encodes, Archive
<1>3. Len(content) \in Nat
  BY <1>2, LenProperties
<1> QED BY <1>1, <1>2, <1>3 DEF Encodes, Archive, Plain

LowByte(n) == n % 256
HighByte(n) == n \div 256

LEMMA PackedType ==
  ASSUME NEW c \in Seq(Byte)
  PROVE  /\ Len(PackedChunk(c)) = 2 + Len(c) /\ Len(c) \in Nat
         /\ PackedChunk(c)[1] = LowByte(Len(c)) /\ PackedChunk(c)[2] = HighByte(Len(c))
         /\ \A j \in 1 .. Len(c) : PackedChunk(c)[2 + j] = c[j]
<1>1. PICK m : m = 256
  OBVIOUS
<1>2. PICK x, y : x = Len(c) % m /\ y = Len(c) \div m
  OBVIOUS
<1>3. Len(c) \in Nat
  BY LenProperties
<1>4. x \in Int /\ y \in Int
  <2>1. m \in Nat \ {0}
    BY <1>1
  <2> QED BY <1>2, <1>3, <2>1, DivMod
<1>5. <<x, y>> \in Seq(Int) /\ c \in Seq(Int)
  <2>1. c \in [1 .. Len(c) -> Byte] /\ Len(c) \in Nat
    BY LenProperties
  <2>2. Byte \subseteq Int
    BY DEF Byte
  <2>3. c \in [1 .. Len(c) -> Int]
    BY <2>1, <2>2
  <2>4. c \in Seq(Int)
    BY <2>1, <2>3, SeqDef
  <2>5. <<x, y>> \in Seq(Int)
    BY <1>4
  <2> QED BY <2>4, <2>5
<1>6. PackedChunk(c) = <<x, y>> \o c
  BY <1>1, <1>2 DEF PackedChunk
<1>7. /\ Len(<<x, y>> \o c) = 2 + Len(c)
      /\ \A k \in 1 .. 2 + Len(c) :
           (<<x, y>> \o c)[k] = IF k <= 2 THEN <<x, y>>[k] ELSE c[k - 2]
  <2>1. Len(<<x, y>>) = 2
    OBVIOUS
  <2> QED BY <1>5, <2>1, ConcatProperties
<1>8. (<<x, y>> \o c)[1] = x /\ (<<x, y>> \o c)[2] = y
  BY <1>3, <1>7
<1>9. ASSUME NEW j \in 1 .. Len(c) PROVE (<<x, y>> \o c)[2 + j] = c[j]
  <2>1. 2 + j \in 1 .. 2 + Len(c) /\ ~(2 + j <= 2) /\ 2 + j - 2 = j
    BY <1>3
  <2> QED BY <1>7, <2>1
<1> QED BY <1>1, <1>2, <1>3, <1>6, <1>7, <1>8, <1>9 DEF LowByte, HighByte

LEMMA ChunksBegin ==
  ASSUME cab \in DOMAIN Archives, NEW i \in Files, Sound(i),
         "compressed" \in Archive.files[i].flags
  PROVE  /\ ChunkCount(i) \in Nat /\ StoredAt(i, 1) = 0 /\ ContentAt(i, 1) = 0
         /\ StoredAt(i, ChunkCount(i) + 1) = Len(Plain(i))
         /\ ContentAt(i, ChunkCount(i) + 1) = Len(Archive.content[i])
         /\ \A k \in 1 .. ChunkCount(i) + 1 :
              /\ StoredAt(i, k) \in Nat /\ StoredAt(i, k) <= Len(Plain(i))
              /\ ContentAt(i, k) \in Nat /\ ContentAt(i, k) <= Len(Archive.content[i])
<1>1. PICK c, p, t, n, packed, plain :
        /\ c = Archive.chunks[i] /\ p = Plain(i) /\ t = Archive.content[i] /\ n = Len(c)
        /\ packed = [k \in 1 .. n |-> PackedChunk(c[k])]
        /\ plain = [k \in 1 .. n |-> Inflate(c[k])]
  OBVIOUS
<1>2. /\ c \in Seq(Seq(Byte)) /\ \A k \in 1 .. n : IsDeflated(c[k])
      /\ Concatenates(p, packed, Archive.starts[i].stored)
      /\ Concatenates(t, plain, Archive.starts[i].content)
      /\ Len(t) \in Nat
  BY <1>1, SoundMeans
<1>3. Len(p) \in Nat /\ n \in Nat
  BY <1>1, <1>2, PlainMeans, LenProperties
<1>4. Len(packed) = n /\ Len(plain) = n
  BY <1>1, <1>3
<1>5. ASSUME NEW k \in 1 .. n PROVE Len(packed[k]) \in Nat /\ Len(plain[k]) \in Nat
  <2>1. c[k] \in Seq(Byte) /\ Inflate(c[k]) \in Seq(Byte)
    BY <1>1, <1>2, <1>5, ElementOfSeq DEF IsDeflated
  <2>2. Len(packed[k]) = 2 + Len(c[k]) /\ Len(c[k]) \in Nat
    BY <1>1, <1>5, <2>1, PackedType
  <2>3. Len(plain[k]) \in Nat
    BY <1>1, <1>5, <2>1, LenProperties
  <2> QED BY <2>2, <2>3
<1>6. /\ \A k \in 1 .. n + 1 : StoredAt(i, k) \in Nat /\ StoredAt(i, k) <= Len(p)
      /\ \A k \in 1 .. n + 1 : ContentAt(i, k) \in Nat /\ ContentAt(i, k) <= Len(t)
  <2>1. \A k \in 1 .. n : Len(packed[k]) \in Nat
    BY <1>5
  <2>2. \A k \in 1 .. n : Len(plain[k]) \in Nat
    BY <1>5
  <2>3. \A k \in 1 .. n + 1 : StoredAt(i, k) \in Nat /\ StoredAt(i, k) <= Len(p)
    BY <1>2, <1>3, <1>4, <2>1, PiecesFit DEF StoredAt
  <2>4. \A k \in 1 .. n + 1 : ContentAt(i, k) \in Nat /\ ContentAt(i, k) <= Len(t)
    BY <1>2, <1>3, <1>4, <2>2, PiecesFit DEF ContentAt
  <2> QED BY <2>3, <2>4
<1>7. /\ StoredAt(i, 1) = 0 /\ StoredAt(i, n + 1) = Len(p)
      /\ ContentAt(i, 1) = 0 /\ ContentAt(i, n + 1) = Len(t)
  BY <1>2, <1>4 DEF Concatenates, StoredAt, ContentAt
<1> QED BY <1>1, <1>3, <1>6, <1>7 DEF ChunkCount

LEMMA ChunkMeans ==
  ASSUME cab \in DOMAIN Archives, NEW i \in Files, Sound(i),
         "compressed" \in Archive.files[i].flags, NEW k \in 1 .. ChunkCount(i),
         NEW c, c = ChunkOf(i, k)
  PROVE  /\ c \in Seq(Byte) /\ Len(c) \in 1 .. U16 - 1
         /\ Inflate(c) \in Seq(Byte) /\ Len(Inflate(c)) <= BUFFER_SIZE
         /\ StoredAt(i, k + 1) = StoredAt(i, k) + (2 + Len(c))
         /\ Plain(i)[StoredAt(i, k) + 1] = LowByte(Len(c))
         /\ Plain(i)[StoredAt(i, k) + 2] = HighByte(Len(c))
         /\ \A j \in 1 .. Len(c) : Plain(i)[StoredAt(i, k) + (2 + j)] = c[j]
         /\ ContentAt(i, k + 1) = ContentAt(i, k) + Len(Inflate(c))
         /\ \A j \in 1 .. Len(Inflate(c)) :
              Archive.content[i][ContentAt(i, k) + j] = Inflate(c)[j]
<1>1. PICK s, p, t, n, packed, plain :
        /\ s = Archive.chunks[i] /\ p = Plain(i) /\ t = Archive.content[i] /\ n = Len(s)
        /\ packed = [j \in 1 .. n |-> PackedChunk(s[j])]
        /\ plain = [j \in 1 .. n |-> Inflate(s[j])]
  OBVIOUS
<1>2. /\ s \in Seq(Seq(Byte)) /\ \A j \in 1 .. n : IsDeflated(s[j])
      /\ Concatenates(p, packed, Archive.starts[i].stored)
      /\ Concatenates(t, plain, Archive.starts[i].content)
  BY <1>1, SoundMeans
<1>3. n \in Nat /\ k \in 1 .. n /\ c = s[k] /\ packed[k] = PackedChunk(c) /\ plain[k] = Inflate(c)
  BY <1>1, <1>2, LenProperties DEF ChunkCount, ChunkOf
<1>4. /\ c \in Seq(Byte) /\ Len(c) \in 1 .. U16 - 1
      /\ Inflate(c) \in Seq(Byte) /\ Len(Inflate(c)) <= BUFFER_SIZE
  BY <1>1, <1>2, <1>3, ElementOfSeq DEF IsDeflated
<1>5. Len(packed) = n /\ Len(plain) = n
  BY <1>1, <1>3
<1>6. /\ StoredAt(i, k + 1) = StoredAt(i, k) + Len(packed[k])
      /\ \A j \in 1 .. Len(packed[k]) : p[StoredAt(i, k) + j] = packed[k][j]
  BY <1>2, <1>3, <1>5 DEF Concatenates, StoredAt
<1>7. /\ ContentAt(i, k + 1) = ContentAt(i, k) + Len(plain[k])
      /\ \A j \in 1 .. Len(plain[k]) : t[ContentAt(i, k) + j] = plain[k][j]
  BY <1>2, <1>3, <1>5 DEF Concatenates, ContentAt
<1>8. /\ Len(packed[k]) = 2 + Len(c) /\ Len(c) \in Nat
      /\ packed[k][1] = LowByte(Len(c)) /\ packed[k][2] = HighByte(Len(c))
      /\ \A j \in 1 .. Len(c) : packed[k][2 + j] = c[j]
  <2>1. PICK q : q = PackedChunk(c) /\ q = packed[k]
    BY <1>3
  <2>2. /\ Len(q) = 2 + Len(c) /\ Len(c) \in Nat
        /\ q[1] = LowByte(Len(c)) /\ q[2] = HighByte(Len(c))
        /\ \A j \in 1 .. Len(c) : q[2 + j] = c[j]
    BY <1>4, <2>1, PackedType
  <2> QED BY <2>1, <2>2
<1>9. 1 \in 1 .. 2 + Len(c) /\ 2 \in 1 .. 2 + Len(c) /\ \A j \in 1 .. Len(c) : 2 + j \in 1 .. 2 + Len(c)
  BY <1>8
<1>10. /\ p[StoredAt(i, k) + 1] = LowByte(Len(c)) /\ p[StoredAt(i, k) + 2] = HighByte(Len(c))
       /\ \A j \in 1 .. Len(c) : p[StoredAt(i, k) + (2 + j)] = c[j]
  BY <1>6, <1>8, <1>9
<1> QED BY <1>1, <1>3, <1>4, <1>6, <1>7, <1>8, <1>10, ZenonT(30)
-----------------------------------------------------------------------------
(* The first part of a file is found where it is.                          *)
LEMMA NextFoundPart ==
  ASSUME SInv, FoundPart, [SaveNext]_allVars PROVE FoundPart'
<1> SUFFICES ASSUME pc' = "check", Laid(call.index)' PROVE rd'.src = Lo(call.index)'
  BY DEF FoundPart
<1>1. UNCHANGED cab /\ cab \in DOMAIN Archives
  BY CabKept DEF SInv, StreamInv, IInv, TypeOK
<1>2. \A i : (Laid(i)' <=> Laid(i)) /\ Lo(i)' = Lo(i)
  BY <1>1, SameArchive
<1>3. CASE UNCHANGED allVars
  <2>1. pc = "check" /\ UNCHANGED <<rd, call>>
    BY <1>3 DEF allVars, vars, locals
  <2> QED BY <1>2, <2>1 DEF FoundPart
<1>4. CASE OpenReader
  <2>1. pc = "create" /\ CreateOpen /\ io'.status = "idle" /\ UNCHANGED call
    BY <1>4 DEF OpenReader
  <2>2. PICK i : i = rd.index /\ i = call.index /\ i \in Files /\ fds[i] # NotRead
    BY <2>1 DEF SInv, SameFile
  <2>3. PICK v, f : f = fds[i] /\ v = f.volume
    OBVIOUS
  <2>4. io.status = "opening"
    BY <2>1 DEF CreateOpen
  <2>5. ~StartsLater(i, v) /\ Readable(v) /\ rd' = Opened(rd, OpenedDescriptor(i, f, v), v)
    BY <2>1, <2>2, <2>3, <2>4 DEF CreateOpen
  <2>6. Laid(i)
    BY <1>2, <2>1, <2>2
  <2>7. f \in FileDescriptor /\ rd \in RdType /\ KnownAs(i, f)
    BY <2>2, <2>3, <2>6, InvTypes DEF SInv, CacheSound
  <2>8. v = Lo(i)
    <3>1. v \in FirstVolume(i) .. Lo(i)
      BY <2>3, <2>7 DEF KnownAs
    <3> QED BY <1>1, <2>2, <2>5, <2>6, <3>1, SearchStops
  <2>9. rd'.src = v
    <3>1. v \in DOMAIN Vols
      BY <2>5 DEF Readable, Openable
    <3>2. OpenedDescriptor(i, f, v) \in FileDescriptor
      BY <2>7, OpenedDescriptorType
    <3> QED BY <1>1, <2>5, <2>7, <3>1, <3>2, OpenedType
  <2> QED BY <1>2, <2>1, <2>2, <2>8, <2>9
<1> QED BY <1>3, <1>4
    DEF SaveNext, Work, Ask, Begin, LookupFail, Lookup, VetFail, FollowLink, StartReader,
        NoMemoryForReader, ReaderFails, CheckFail, OpenOutput, OutputFails, AskLength, AskData,
        ContinueRead, ReadFails, FinishRead, AskChunk, EmptyChunk, InflateFails, WriteOutput,
        WriteFails, Verify, Exit, GiveUp, Answer, At, ToExit, HasOutput, SInv, PcStatus,
        ReadAcross, ReadFail, ReadDone, locals

(* What a call that reads keeps.                                           *)
LEMMA SameCall ==
  ASSUME SInv, [SaveNext]_allVars, pc \notin {"idle", "lookup", "vet"}
  PROVE  /\ UNCHANGED cab
         /\ call'.asked = call.asked /\ call'.op = call.op /\ call'.sink = call.sink
         /\ call'.index = call.index
         /\ pc' \notin {"idle", "lookup"} => Size' = Size /\ (InChunks' <=> InChunks)
<1>1. ~Ask /\ ~FollowLink
  BY DEF Ask, Begin, FollowLink, At
<1>2. /\ call'.asked = call.asked /\ call'.op = call.op /\ call'.sink = call.sink
      /\ call'.index = call.index
  BY <1>1, ArgumentsKept
<1> QED BY <1>2, CabKept, SizeKept

(* The steps within the loop.                                              *)
LEMMA LoopSteps ==
  ASSUME SInv, [SaveNext]_allVars, pc' \in {"loop", "length", "chunk", "data"}
  PROVE  \/ OpenOutput
         \/ pc \in {"loop", "length", "chunk", "data"}
            /\ \/ AskLength \/ AskData \/ ContinueRead \/ FinishRead \/ AskChunk
               \/ WriteOutput \/ UNCHANGED allVars
<1>1. ContinueRead \/ FinishRead => pc \in {"length", "chunk", "data"}
  BY DEF ContinueRead, FinishRead, ReadAcross, ReadDone, SInv, PcStatus, LocalsOK
<1> QED BY <1>1
    DEF SaveNext, Work, Ask, Begin, LookupFail, Lookup, VetFail, FollowLink, StartReader,
        NoMemoryForReader, OpenReader, ReaderFails, CheckFail, OutputFails, AskLength, AskData,
        ReadFails, AskChunk, EmptyChunk, InflateFails, WriteOutput, HasOutput,
        WriteFails, Verify, Exit, GiveUp, Answer, At, ToExit, allVars, locals

LEMMA NextOutputKept ==
  ASSUME SInv, OutputKept, [SaveNext]_allVars PROVE OutputKept'
<1> SUFFICES ASSUME InLoop' PROVE out'.exists <=> call'.sink = "file"
  BY DEF OutputKept
<1>1. pc' \in {"loop", "length", "chunk", "data"}
  BY DEF InLoop
<1>2. call \in CallType /\ out \in [exists : BOOLEAN, bytes : Seq(Byte)]
  BY DEF SInv, LocalsOK
<1>3. CASE OpenOutput
  <2>1. out'.exists = (call.sink = "file")
    BY <1>3 DEF OpenOutput, NoFile
  <2>2. call'.sink = call.sink
    BY <1>2, <1>3 DEF OpenOutput, CallType
  <2> QED BY <2>1, <2>2
<1>4. CASE pc \in {"loop", "length", "chunk", "data"}
  <2>1. call'.sink = call.sink
    BY <1>4, SameCall
  <2>2. out'.exists = out.exists
    <3>1. CASE WriteOutput
      <4>1. PICK o : out' = IF out.exists THEN [out EXCEPT !.bytes = @ \o o] ELSE out
        BY <3>1 DEF WriteOutput
      <4> QED BY <1>2, <4>1
    <3>2. CASE ~WriteOutput
      <4>1. UNCHANGED out
        BY <1>1, <1>4, <3>2, LoopSteps
           DEF OpenOutput, At, AskLength, AskData, ContinueRead, FinishRead, AskChunk, allVars, locals
      <4> QED BY <4>1
    <3> QED BY <3>1, <3>2
  <2>3. out.exists <=> call.sink = "file"
    BY <1>4 DEF OutputKept, InLoop
  <2> QED BY <2>1, <2>2, <2>3
<1> QED BY <1>1, <1>3, <1>4, LoopSteps

(* A read that has ended leaves its bytes at the end of the stream.        *)
LEMMA NextBufferIsLast ==
  ASSUME SInv, BufferIsLast, [SaveNext]_allVars PROVE BufferIsLast'
<1> SUFFICES ASSUME pc' \in {"length", "chunk"}, io'.status = "idle"
             PROVE  /\ Len(io'.buf) = io'.size /\ io'.size <= Len(got')
                    /\ \A j \in 1 .. io'.size : io'.buf[j] = got'[Len(got') - io'.size + j]
  BY DEF BufferIsLast
<1>1. pc \in {"loop", "length", "chunk", "data"}
      /\ \/ AskLength \/ AskData \/ ContinueRead \/ FinishRead \/ AskChunk
         \/ WriteOutput \/ UNCHANGED allVars
  BY LoopSteps DEF OpenOutput, At
<1>2. CASE FinishRead
  <2>1. PICK b, g, n, h : b = io'.buf /\ g = got /\ n = io.size /\ h = got'
    OBVIOUS
  <2>2. /\ b \in Seq(Byte) /\ Len(b) = n /\ n \in Nat /\ io'.size = n
        /\ h = g \o b /\ g \in Seq(Byte)
    BY <1>2, <2>1, ReadDoneFacts, InvTypes DEF FinishRead, SInv
  <2>3. Len(g) \in Nat
    BY <2>2, LenProperties
  <2>4. Len(h) = Len(g) + n /\ \A j \in 1 .. n : h[Len(g) + j] = b[j]
    <3>1. g \in Seq(Byte) /\ b \in Seq(Byte)
      BY <2>2
    <3>2. /\ Len(g \o b) = Len(g) + Len(b)
          /\ \A j \in 1 .. Len(b) : (g \o b)[Len(g) + j] = b[j]
      BY <3>1, ConcatAt
    <3> QED BY <2>2, <3>2
  <2>5. Len(h) - n = Len(g)
    BY <2>2, <2>3, <2>4
  <2>6. n <= Len(h) /\ \A j \in 1 .. n : b[j] = h[Len(h) - n + j]
    BY <2>2, <2>3, <2>4, <2>5
  <2> QED BY <2>1, <2>2, <2>6
<1>3. CASE UNCHANGED allVars
  BY <1>3 DEF allVars, vars, locals, BufferIsLast
<1>4. CASE AskLength \/ AskData \/ AskChunk
  BY <1>4 DEF AskLength, AskData, AskChunk, ReadBegin
<1>5. CASE ContinueRead
  <2>1. ReadAcross /\ pc' = IF io'.status = "failed" THEN "exit" ELSE pc
    BY <1>5 DEF ContinueRead
  <2>2. io'.status \in {"reading", "failed"}
    BY <2>1, ReadAcrossFacts DEF SInv
  <2> QED BY <2>2
<1>6. CASE WriteOutput
  BY <1>6 DEF WriteOutput
<1> QED BY <1>1, <1>2, <1>3, <1>4, <1>5, <1>6

LEMMA NoBytesIsABlock == 0 \in Blocks
<1>1. 0 * BUFFER_SIZE = 0
  BY U16Assumption DEF BUFFER_SIZE
<1> QED BY <1>1 DEF Blocks

LEMMA BlockAfterBlock ==
  ASSUME NEW b \in Blocks PROVE b \in Nat /\ b + BUFFER_SIZE \in Blocks
<1>1. PICK n \in Nat : b = n * BUFFER_SIZE
  BY DEF Blocks
<1>2. PICK m \in Nat : m = BUFFER_SIZE
  BY U16Assumption DEF BUFFER_SIZE
<1>3. b = n * m /\ n * m = m * n /\ m * n \in Nat
  BY <1>1, <1>2
<1>4. m * (n + 1) = m * n + m * 1 /\ m * 1 = m /\ (n + 1) * m = m * (n + 1)
  BY Distributes
<1>5. b + BUFFER_SIZE = (n + 1) * BUFFER_SIZE
  BY <1>2, <1>3, <1>4
<1> QED BY <1>3, <1>5 DEF Blocks

(* A file that is copied is read in whole blocks but for its end.          *)
LEMMA NextInBlocks ==
  ASSUME CInv, InBlocks, [SaveNext]_allVars PROVE InBlocks'
<1>1. SInv /\ Branches /\ CopiedSoFar
  BY DEF CInv, Counted
<1>2. /\ call \in CallType /\ io.size \in Nat /\ Len(got) \in Nat
      /\ call.left \in 0 .. U32 - 1 /\ U32 \in Nat /\ BUFFER_SIZE \in Nat
  BY <1>1, InvTypes, U16Assumption, U32Assumption DEF SInv, LocalsOK, CallType, BUFFER_SIZE
<1> SUFFICES ASSUME pc' \in {"loop", "data"}, ~InChunks'
             PROVE  /\ Len(got') - Ahead' \in Blocks \/ (pc' = "loop" /\ call'.left = 0)
                    /\ pc' = "data" => call'.left > 0 /\ io'.size = NextSize'
  BY DEF InBlocks
<1>3. CASE OpenOutput
  <2>1. pc' = "loop" /\ pc = "check" /\ got' = got
    BY <1>3 DEF OpenOutput, At, vars
  <2>2. got = <<>>
    BY <2>1 DEF CInv, Counted, NothingDone
  <2>3. Ahead' = 0
    BY <2>1 DEF Ahead
  <2> QED BY <2>1, <2>2, <2>3, NoBytesIsABlock
<1>4. CASE pc \in {"loop", "length", "chunk", "data"}
  <2>1. ~InChunks
    BY <1>1, <1>4, SameCall
  <2>2. pc \in {"loop", "data"}
    BY <1>1, <1>4, <2>1 DEF Branches
  <2>3. /\ Len(got) - Ahead \in Blocks \/ (pc = "loop" /\ call.left = 0)
        /\ pc = "data" => call.left > 0 /\ io.size = NextSize
    BY <2>1, <2>2 DEF InBlocks
  <2>4. CASE AskLength \/ AskChunk
    BY <2>1, <2>2, <2>4 DEF AskLength, AskChunk, At
  <2>5. CASE AskData
    <3>1. /\ pc = "loop" /\ pc' = "data" /\ call.left > 0 /\ UNCHANGED <<call, got>>
          /\ io'.size = NextSize /\ io'.status = "reading"
      BY <2>5 DEF AskData, At, ReadBegin
    <3>2. Ahead = 0 /\ Ahead' = 0 /\ NextSize' = NextSize
      BY <3>1 DEF Ahead, NextSize
    <3> QED BY <2>3, <3>1, <3>2
  <2>6. CASE ContinueRead
    <3>1. /\ ReadAcross /\ pc' = (IF io'.status = "failed" THEN "exit" ELSE pc)
          /\ UNCHANGED call
      BY <2>6 DEF ContinueRead
    <3>2. /\ io.status = "reading" /\ io'.status \in {"reading", "failed"} /\ io'.size = io.size
          /\ UNCHANGED got
      BY <1>1, <3>1, ReadAcrossFacts DEF SInv
    <3>3. pc' = pc /\ io'.status = "reading"
      BY <3>1, <3>2
    <3>4. Ahead' = 0 /\ Ahead = 0 /\ NextSize' = NextSize
      BY <2>2, <3>1, <3>2, <3>3 DEF Ahead, NextSize
    <3> QED BY <2>3, <3>1, <3>2, <3>3, <3>4
  <2>7. CASE FinishRead
    <3>1. ReadDone /\ UNCHANGED <<pc, call>>
      BY <2>7 DEF FinishRead, locals
    <3>2. /\ io.status = "reading" /\ io'.status = "idle" /\ io'.size = io.size
          /\ Len(got') = Len(got) + io.size
      BY <1>1, <3>1, ReadDoneFacts DEF SInv
    <3>3. pc = "data"
      BY <1>1, <2>2, <3>2 DEF SInv, PcStatus
    <3>4. Ahead = 0 /\ Ahead' = io.size /\ NextSize' = NextSize
      BY <3>1, <3>2, <3>3 DEF Ahead, NextSize
    <3>5. Len(got') - Ahead' = Len(got) - Ahead
      BY <1>2, <3>2, <3>4
    <3> QED BY <2>3, <3>1, <3>2, <3>3, <3>4, <3>5
  <2>8. CASE WriteOutput
    <3>1. /\ HasOutput /\ pc' = "loop" /\ got' = got
          /\ call' = [Digested EXCEPT !.total = @ + Len(Output)]
      BY <2>8 DEF WriteOutput, vars
    <3>2. pc = "data" /\ io.status = "idle"
      BY <2>2, <3>1 DEF HasOutput
    <3>3. call'.left = LeftAfter
      BY <1>2, <3>1 DEF Digested, CallType
    <3>4. PICK n, l, b, g : n = io.size /\ l = call.left /\ b = BUFFER_SIZE /\ g = Len(got)
      OBVIOUS
    <3>5. /\ n = (IF l < b THEN l ELSE b) /\ g - n \in Blocks /\ Ahead' = 0
          /\ LeftAfter = (l - n - 0) % U32
      BY <2>3, <3>1, <3>2, <3>4 DEF NextSize, Ahead, LeftAfter, ChunkHeader
    <3>6. CASE l < b
      <4>1. l - n - 0 = 0
        BY <1>2, <3>4, <3>5, <3>6
      <4>2. LeftAfter = 0
        BY <3>5, <4>1, ModSmall, U32Assumption
      <4> QED BY <3>1, <3>3, <4>2
    <3>7. CASE ~(l < b)
      <4>1. (g - n) + b \in Blocks
        BY <3>4, <3>5, BlockAfterBlock
      <4>2. (g - n) + b = g - 0
        BY <1>2, <3>4, <3>5, <3>7
      <4> QED BY <3>1, <3>4, <3>5, <4>1, <4>2
    <3> QED BY <3>6, <3>7
  <2>9. CASE UNCHANGED allVars
    <3>1. UNCHANGED <<pc, call, got, io>>
      BY <2>9 DEF allVars, vars, locals
    <3>2. Ahead' = Ahead /\ NextSize' = NextSize
      BY <3>1 DEF Ahead, NextSize
    <3> QED BY <2>2, <2>3, <3>1, <3>2
  <2>10. \/ AskLength \/ AskData \/ ContinueRead \/ FinishRead \/ AskChunk
         \/ WriteOutput \/ UNCHANGED allVars
    <3>1. ~OpenOutput
      BY <1>4 DEF OpenOutput, At
    <3> QED BY <1>1, <3>1, LoopSteps
  <2> QED BY <2>4, <2>5, <2>6, <2>7, <2>8, <2>9, <2>10
<1> QED BY <1>1, <1>3, <1>4, LoopSteps
-----------------------------------------------------------------------------
(* Within a sound compressed file.                                         *)
LEMMA InChunksMeans ==
  ASSUME SInv, TrueCache, NEW i \in Files, i = call.index, fds[i] # NotRead
  PROVE  InChunks <=> call.op = "save" /\ "compressed" \in Archive.files[i].flags
<1>1. PICK d, e : d = fds[i] /\ e = Archive.files[i]
  OBVIOUS
<1>2. "compressed" \in d.flags <=> "compressed" \in e.flags
  BY <1>1, CachedEntry
<1> QED BY <1>1, <1>2 DEF InChunks, Compressed, fd

LEMMA GotIsPlain ==
  ASSUME SInv, NEW i \in Files, i = rd.index, Laid(i), io.status = "idle",
         Len(got) <= Len(Plain(i))
  PROVE  \A k \in 1 .. Len(got) : got[k] = Plain(i)[k]
<1>1. Delivered /\ Len(got) \in Nat
  BY InvTypes DEF SInv
<1>2. Asked = Len(got)
  BY <1>1 DEF Asked
<1>3. WithinFile
  BY <1>2 DEF WithinFile
<1> QED BY <1>1, <1>3 DEF Delivered

LEMMA ChunkFits ==
  ASSUME cab \in DOMAIN Archives, NEW i \in Files, Sound(i),
         "compressed" \in Archive.files[i].flags, NEW k \in 1 .. ChunkCount(i),
         NEW c, c = ChunkOf(i, k)
  PROVE  /\ Len(c) \in Nat /\ Len(c) > 0 /\ StoredAt(i, k) \in Nat
         /\ StoredAt(i, k + 1) = StoredAt(i, k) + (2 + Len(c))
         /\ StoredAt(i, k) + (2 + Len(c)) <= Len(Plain(i))
<1>1. Len(c) \in 1 .. U16 - 1 /\ StoredAt(i, k + 1) = StoredAt(i, k) + (2 + Len(c))
  BY ChunkMeans
<1>2. /\ ChunkCount(i) \in Nat
      /\ \A j \in 1 .. ChunkCount(i) + 1 :
           StoredAt(i, j) \in Nat /\ StoredAt(i, j) <= Len(Plain(i))
  BY ChunksBegin
<1>3. k \in 1 .. ChunkCount(i) + 1 /\ k + 1 \in 1 .. ChunkCount(i) + 1
  BY <1>2
<1>4. StoredAt(i, k) \in Nat /\ StoredAt(i, k + 1) <= Len(Plain(i))
  BY <1>2, <1>3
<1>5. Len(c) \in Nat /\ Len(c) > 0
  BY <1>1, U16Assumption
<1> QED BY <1>1, <1>4, <1>5

LEMMA TwoBytes ==
  ASSUME NEW n \in Nat, n < U16, NEW x, NEW y, x = LowByte(n), y = HighByte(n)
  PROVE  (x + 256 * y) % U16 = n
<1>1. PICK m, u : m = 256 /\ u = U16
  OBVIOUS
<1>2. m \in Nat \ {0} /\ x = n % m /\ y = n \div m /\ u \in Nat \ {0}
  BY <1>1, U16Assumption DEF LowByte, HighByte
<1>3. x \in Int /\ y \in Int /\ n = m * y + x
  BY <1>2, DivMod
<1>4. PICK z : z = m * y
  OBVIOUS
<1>5. x + z = n
  <2>1. z \in Int
    BY <1>2, <1>3, <1>4
  <2>2. n = z + x
    BY <1>3, <1>4
  <2> QED BY <1>3, <2>1, <2>2
<1>6. n % u = n
  <2>1. n \in 0 .. u - 1
    BY <1>1, <1>2
  <2>2. (u * 0 + n) % u = n
    BY <1>2, <2>1, ModUnique
  <2>3. u * 0 + n = n
    BY <1>2
  <2> QED BY <2>2, <2>3
<1>7. x + 256 * y = n
  BY <1>1, <1>4, <1>5
<1> QED BY <1>1, <1>6, <1>7

(* The two bytes read are the length of the chunk that follows.            *)
LEMMA LengthIsRead ==
  ASSUME SInv, BufferIsLast, pc = "length", io.status = "idle",
         NEW i \in Files, i = call.index, Sound(i), "compressed" \in Archive.files[i].flags,
         NEW k \in 1 .. ChunkCount(i), BeforeChunk(i, k), NEW c, c = ChunkOf(i, k)
  PROVE  ChunkLength = Len(c) /\ Len(c) \in Nat \ {0}
<1>1. cab \in DOMAIN Archives /\ i = rd.index /\ io.size = 2 /\ Len(got) \in Nat
  BY InvTypes DEF SInv, SameFile, LengthRead
<1>2. PICK s, p, g, n : s = StoredAt(i, k) /\ p = Plain(i) /\ g = got /\ n = Len(c)
  OBVIOUS
<1>3. /\ n \in 1 .. U16 - 1 /\ p[s + 1] = LowByte(n) /\ p[s + 2] = HighByte(n)
  BY <1>1, <1>2, ChunkMeans
<1>4. n \in Nat /\ n > 0 /\ s \in Nat /\ s + (2 + n) <= Len(p) /\ Len(p) \in Nat
  BY <1>1, <1>2, ChunkFits, PlainMeans, StoredType
<1>5. Len(g) - 2 = s
  BY <1>2 DEF BeforeChunk, Ahead
<1>6. Len(g) = s + 2 /\ Len(g) <= Len(p) /\ s + 1 \in 1 .. Len(g) /\ s + 2 \in 1 .. Len(g)
  BY <1>1, <1>2, <1>4, <1>5
<1>7. Laid(i)
  BY <1>1, SoundMeans
<1>8. g[s + 1] = p[s + 1] /\ g[s + 2] = p[s + 2]
  BY <1>1, <1>2, <1>6, <1>7, GotIsPlain
<1>9. \A j \in 1 .. 2 : io.buf[j] = g[Len(g) - 2 + j]
  BY <1>1, <1>2 DEF BufferIsLast
<1>10. io.buf[1] = g[s + 1] /\ io.buf[2] = g[s + 2]
  BY <1>5, <1>9
<1>11. ChunkLength = n
  <2>1. PICK x, y : x = io.buf[1] /\ y = io.buf[2]
    OBVIOUS
  <2>2. x = LowByte(n) /\ y = HighByte(n) /\ n < U16
    BY <1>3, <1>8, <1>10, <2>1, U16Assumption
  <2>3. (x + 256 * y) % U16 = n
    BY <1>4, <2>2, TwoBytes
  <2> QED BY <2>1, <2>3 DEF ChunkLength
<1> QED BY <1>2, <1>4, <1>11

(* What is inflated is a chunk.                                            *)
LEMMA ChunkIsRead ==
  ASSUME SInv, BufferIsLast, pc = "chunk", io.status = "idle",
         NEW i \in Files, i = call.index, Sound(i), "compressed" \in Archive.files[i].flags,
         NEW k \in 1 .. ChunkCount(i), BeforeChunk(i, k), NEW c, c = ChunkOf(i, k)
  PROVE  io.buf = c /\ io.size = Len(c) /\ Inflates /\ Output = Inflate(c)
<1>1. /\ cab \in DOMAIN Archives /\ i = rd.index /\ Len(got) \in Nat /\ io.size \in Nat
      /\ io.buf \in Seq(Byte)
  BY InvTypes DEF SInv, SameFile
<1>2. PICK s, p, g, n, b : s = StoredAt(i, k) /\ p = Plain(i) /\ g = got /\ n = Len(c) /\ b = io.buf
  OBVIOUS
<1>3. /\ \A j \in 1 .. n : p[s + (2 + j)] = c[j]
      /\ c \in Seq(Byte) /\ Inflate(c) \in Seq(Byte) /\ Len(Inflate(c)) <= BUFFER_SIZE
  <2>1. \A j \in 1 .. Len(c) : Plain(i)[StoredAt(i, k) + (2 + j)] = c[j]
    BY <1>1, ChunkMeans
  <2>2. c \in Seq(Byte) /\ Inflate(c) \in Seq(Byte) /\ Len(Inflate(c)) <= BUFFER_SIZE
    BY <1>1, ChunkMeans
  <2> QED BY <1>2, <2>1, <2>2
<1>4. n \in Nat /\ s \in Nat /\ s + (2 + n) <= Len(p) /\ Len(p) \in Nat
  BY <1>1, <1>2, ChunkFits, PlainMeans, StoredType
<1>5. io.size = n /\ Len(g) - (2 + n) = s
  BY <1>2 DEF BeforeChunk, Ahead
<1>6. Len(g) = s + (2 + n) /\ Len(g) <= Len(p) /\ Len(g) - n = s + 2
  BY <1>1, <1>2, <1>4, <1>5
<1>7. Laid(i)
  BY <1>1, SoundMeans
<1>8. \A j \in 1 .. Len(g) : g[j] = p[j]
  BY <1>1, <1>2, <1>6, <1>7, GotIsPlain
<1>9. Len(b) = n /\ \A j \in 1 .. n : b[j] = g[Len(g) - n + j]
  BY <1>2, <1>5 DEF BufferIsLast
<1>10. ASSUME NEW j \in 1 .. n PROVE b[j] = c[j]
  <2>1. s + (2 + j) \in 1 .. Len(g) /\ Len(g) - n + j = s + (2 + j)
    BY <1>4, <1>6
  <2> QED BY <1>3, <1>8, <1>9, <2>1
<1>11. b = c
  <2>1. Len(b) = Len(c) /\ b \in Seq(Byte) /\ c \in Seq(Byte)
    BY <1>1, <1>2, <1>3, <1>9
  <2> QED BY <1>2, <1>10, <2>1, SeqEqual
<1> QED BY <1>2, <1>3, <1>5, <1>11 DEF Inflates, Inflated, Output

Agree(s, t) == \A j \in 1 .. Len(s) : s[j] = t[j]

LEMMA ChunkWritten ==
  ASSUME cab \in DOMAIN Archives, NEW i \in Files, Sound(i),
         "compressed" \in Archive.files[i].flags, NEW k \in 1 .. ChunkCount(i),
         NEW o, o = Inflate(ChunkOf(i, k)), NEW d \in Seq(Byte), Len(d) = ContentAt(i, k),
         NEW t, t = Archive.content[i], Agree(d, t)
  PROVE  /\ o \in Seq(Byte) /\ Len(d \o o) = ContentAt(i, k + 1) /\ Len(d \o o) <= Len(t)
         /\ Agree(d \o o, t)
<1>1. PICK c, a : c = ChunkOf(i, k) /\ a = ContentAt(i, k)
  OBVIOUS
<1>2. o \in Seq(Byte) /\ ContentAt(i, k + 1) = a + Len(o) /\ \A j \in 1 .. Len(o) : t[a + j] = o[j]
  <2>1. /\ Inflate(c) \in Seq(Byte) /\ ContentAt(i, k + 1) = ContentAt(i, k) + Len(Inflate(c))
        /\ \A j \in 1 .. Len(Inflate(c)) :
             Archive.content[i][ContentAt(i, k) + j] = Inflate(c)[j]
    BY <1>1, ChunkMeans
  <2> QED BY <1>1, <2>1
<1>3. /\ ChunkCount(i) \in Nat
      /\ \A j \in 1 .. ChunkCount(i) + 1 : ContentAt(i, j) <= Len(t)
  BY ChunksBegin
<1>4. ContentAt(i, k + 1) <= Len(t)
  <2>1. k + 1 \in 1 .. ChunkCount(i) + 1
    BY <1>3
  <2> QED BY <1>3, <2>1
<1>5. /\ Len(d \o o) = Len(d) + Len(o) /\ Len(d) \in Nat /\ Len(o) \in Nat
      /\ \A j \in 1 .. Len(d) : (d \o o)[j] = d[j]
      /\ \A j \in 1 .. Len(o) : (d \o o)[Len(d) + j] = o[j]
  BY <1>2, ConcatAt, LenProperties
<1>6. ASSUME NEW j \in 1 .. Len(d \o o) PROVE (d \o o)[j] = t[j]
  <2>1. CASE j <= Len(d)
    <3>1. j \in 1 .. Len(d)
      BY <1>5, <2>1
    <3> QED BY <1>5, <3>1 DEF Agree
  <2>2. CASE ~(j <= Len(d))
    <3>1. PICK m : m = j - Len(d)
      OBVIOUS
    <3>2. m \in 1 .. Len(o) /\ Len(d) + m = j
      BY <1>5, <2>2, <3>1
    <3>3. (d \o o)[Len(d) + m] = o[m] /\ t[a + m] = o[m]
      BY <1>2, <1>5, <3>2
    <3>4. Len(d) = a
      BY <1>1
    <3> QED BY <3>2, <3>3, <3>4
  <2> QED BY <2>1, <2>2
<1> QED BY <1>1, <1>2, <1>4, <1>5, <1>6 DEF Agree

(* A compressed file is read chunk by chunk, and what was digested is what *)
(* the chunks before hold.                                                 *)
LEMMA NextChunksSoFar ==
  ASSUME CInv, TrueCache, ChunksSoFar, BufferIsLast, [SaveNext]_allVars
  PROVE  ChunksSoFar'
<1>1. SInv /\ Branches /\ cab \in DOMAIN Archives /\ call \in CallType
  BY DEF CInv, Counted, SInv, StreamInv, IInv, TypeOK, LocalsOK
<1> SUFFICES ASSUME pc' \in {"loop", "length", "chunk", "data"}, InChunks', Sound(call.index)'
             PROVE  \E k \in 1 .. ChunkCount(call.index)' + 1 : BeforeChunk(call.index, k)'
  BY DEF ChunksSoFar, InLoop
<1>2. pc \notin {"idle", "lookup", "vet"}
  BY <1>1, LoopSteps DEF OpenOutput, At
<1>3. PICK i \in Files : i = call.index /\ i = rd.index /\ fds[i] # NotRead
  BY <1>1, <1>2 DEF SInv, SameFile
<1>4. UNCHANGED cab /\ call'.index = i /\ (InChunks' <=> InChunks) /\ Archive' = Archive
  BY <1>1, <1>2, <1>3, SameCall, SameRequests
<1>5. Sound(i) /\ Plain(i)' = Plain(i)
  BY <1>4, SameRequests, SameArchive
<1>6. "compressed" \in Archive.files[i].flags
  BY <1>1, <1>3, <1>4, InChunksMeans
<1>7. PICK n : n = ChunkCount(i)
  OBVIOUS
<1>8. /\ n \in Nat
      /\ \A k \in 1 .. n + 1 : StoredAt(i, k) \in Nat /\ ContentAt(i, k) \in Nat
      /\ StoredAt(i, 1) = 0 /\ ContentAt(i, 1) = 0 /\ StoredAt(i, n + 1) = Len(Plain(i))
      /\ Len(Plain(i)) \in Nat /\ Len(Plain(i)) < U32
  <2>1. /\ ChunkCount(i) \in Nat
        /\ \A k \in 1 .. ChunkCount(i) + 1 : StoredAt(i, k) \in Nat /\ ContentAt(i, k) \in Nat
        /\ StoredAt(i, 1) = 0 /\ ContentAt(i, 1) = 0
        /\ StoredAt(i, ChunkCount(i) + 1) = Len(Plain(i))
    BY <1>1, <1>5, <1>6, ChunksBegin
  <2>2. Laid(i)
    BY <1>1, <1>5, SoundMeans
  <2>3. Len(Plain(i)) \in Nat /\ Len(Plain(i)) < U32
    BY <1>1, <2>2, PlainMeans, StoredType, HeadersSay
  <2> QED BY <1>7, <2>1, <2>3
<1> DEFINE Goal(k) ==
      /\ Len(got') - Ahead' = StoredAt(i, k)
      /\ call'.left + StoredAt(i, k) = Len(Plain(i))
      /\ Len(call'.digest) = ContentAt(i, k)
      /\ \A j \in 1 .. Len(call'.digest) : call'.digest[j] = Archive.content[i][j]
      /\ pc' # "loop" => k <= n
      /\ pc' = "chunk" => io'.size = Len(ChunkOf(i, k))
<1>9. ASSUME NEW k \in 1 .. n + 1, Goal(k)
      PROVE  \E m \in 1 .. ChunkCount(call.index)' + 1 : BeforeChunk(call.index, m)'
  <2>1. ChunkCount(call.index)' = n
    BY <1>4, <1>7 DEF ChunkCount
  <2>2. BeforeChunk(call.index, k)'
    BY <1>4, <1>5, <1>7, <1>9 DEF BeforeChunk, StoredAt, ContentAt, ChunkCount, ChunkOf
  <2> QED BY <2>1, <2>2
<1> HIDE DEF Goal
<1>10. CASE OpenOutput
  <2>1. /\ pc' = "loop" /\ pc = "check" /\ got' = got
        /\ call' = [call EXCEPT !.left = StoredSize(fd.flags, fd) % U32]
    BY <1>10 DEF OpenOutput, At, vars
  <2>2. got = <<>> /\ call.digest = <<>>
    BY <2>1 DEF CInv, Counted, NothingDone
  <2>3. Laid(i)
    BY <1>1, <1>5, SoundMeans
  <2>4. Size = Len(Plain(i))
    BY <1>1, <1>3, <2>1, <2>3, SizeOfLaid
  <2>5. call'.left = Len(Plain(i)) /\ call'.digest = <<>>
    BY <1>1, <2>1, <2>2, <2>4 DEF CallType, Size
  <2>6. Ahead' = 0
    BY <2>1 DEF Ahead
  <2>7. Goal(1)
    BY <1>8, <2>1, <2>2, <2>5, <2>6 DEF Goal
  <2>8. 1 \in 1 .. n + 1
    BY <1>8
  <2> QED BY <1>9, <2>7, <2>8
<1>11. CASE pc \in {"loop", "length", "chunk", "data"}
  <2>1. PICK k \in 1 .. n + 1 : BeforeChunk(i, k)
    BY <1>3, <1>4, <1>5, <1>7, <1>11 DEF ChunksSoFar, InLoop
  <2>2. k \in Nat /\ StoredAt(i, k) \in Nat /\ ContentAt(i, k) \in Nat /\ call.left \in Nat
        /\ Len(got) \in Nat /\ io.size \in Nat /\ call.digest \in Seq(Byte)
    BY <1>1, <1>8, InvTypes DEF SInv, CallType
  <2>a. /\ Len(got) - Ahead = StoredAt(i, k)
        /\ call.left + StoredAt(i, k) = Len(Plain(i))
        /\ Len(call.digest) = ContentAt(i, k)
        /\ \A j \in 1 .. Len(call.digest) : call.digest[j] = Archive.content[i][j]
        /\ pc # "loop" => k <= n
        /\ pc = "chunk" => io.size = Len(ChunkOf(i, k))
    BY <1>7, <2>1 DEF BeforeChunk
  <2>3. CASE UNCHANGED call /\ Len(got') - Ahead' = Len(got) - Ahead
             /\ (pc' # "loop" => k <= n) /\ (pc' = "chunk" => io'.size = Len(ChunkOf(i, k)))
    <3>1. Goal(k)
      BY <2>3, <2>a DEF Goal
    <3> QED BY <1>9, <3>1
  <2>4. CASE AskLength
    <3>1. /\ pc = "loop" /\ pc' = "length" /\ call.left > 0 /\ UNCHANGED <<call, got>>
          /\ io'.status = "reading"
      BY <2>4 DEF AskLength, At, ReadBegin
    <3>2. Ahead = 0 /\ Ahead' = 0
      BY <3>1 DEF Ahead
    <3>3. k <= n
      <4>1. k # n + 1
        BY <1>8, <2>2, <2>a, <3>1
      <4> QED BY <1>8, <2>1, <4>1
    <3> QED BY <2>3, <3>1, <3>2, <3>3
  <2>5. CASE AskData
    BY <1>4, <2>5 DEF AskData
  <2>6. CASE ContinueRead
    <3>1. /\ ReadAcross /\ pc' = (IF io'.status = "failed" THEN "exit" ELSE pc)
          /\ UNCHANGED call
      BY <2>6 DEF ContinueRead
    <3>2. /\ io.status = "reading" /\ io'.status \in {"reading", "failed"} /\ io'.size = io.size
          /\ UNCHANGED got
      BY <1>1, <3>1, ReadAcrossFacts DEF SInv
    <3>3. pc' = pc /\ io'.status = "reading"
      BY <3>1, <3>2
    <3>4. Ahead' = Ahead
      BY <3>2, <3>3 DEF Ahead
    <3> QED BY <2>3, <2>a, <3>1, <3>2, <3>3, <3>4
  <2>7. CASE FinishRead
    <3>1. ReadDone /\ UNCHANGED <<pc, call>>
      BY <2>7 DEF FinishRead, locals
    <3>2. /\ io.status = "reading" /\ io'.status = "idle" /\ io'.size = io.size
          /\ Len(got') = Len(got) + io.size
      BY <1>1, <3>1, ReadDoneFacts DEF SInv
    <3>3. pc \in {"length", "chunk"} /\ (pc = "length" => io.size = 2)
      BY <1>1, <1>4, <1>11, <3>2 DEF SInv, PcStatus, LengthRead, Branches
    <3>4. Ahead' = Ahead + io.size
      <4>1. CASE pc = "length"
        BY <3>1, <3>2, <3>3, <4>1 DEF Ahead
      <4>2. CASE pc = "chunk"
        BY <3>1, <3>2, <4>2 DEF Ahead
      <4> QED BY <3>3, <4>1, <4>2
    <3>5. Ahead \in Nat
      BY <2>2, <3>3 DEF Ahead
    <3>6. Len(got') - Ahead' = Len(got) - Ahead
      BY <2>2, <3>2, <3>4, <3>5
    <3> QED BY <2>3, <2>a, <3>1, <3>2, <3>6
  <2>8. CASE AskChunk
    <3>1. /\ pc = "length" /\ pc' = "chunk" /\ io.status = "idle" /\ UNCHANGED <<call, got>>
          /\ io'.status = "reading" /\ io'.size = ChunkLength
      BY <2>8 DEF AskChunk, At, ReadBegin
    <3>2. Ahead = 2 /\ Ahead' = 2
      BY <3>1 DEF Ahead
    <3>3. k \in 1 .. n
      BY <1>8, <2>1, <2>a, <3>1
    <3>4. ChunkLength = Len(ChunkOf(i, k))
      BY <1>1, <1>3, <1>5, <1>6, <1>7, <2>1, <3>1, <3>3, LengthIsRead
    <3> QED BY <2>3, <3>1, <3>2, <3>3, <3>4
  <2>9. CASE UNCHANGED allVars
    <3>1. UNCHANGED <<pc, call, got, io>>
      BY <2>9 DEF allVars, vars, locals
    <3>2. Ahead' = Ahead
      BY <3>1 DEF Ahead
    <3> QED BY <2>3, <2>a, <3>1, <3>2
  <2>10. CASE WriteOutput
    <3>1. /\ HasOutput /\ pc' = "loop" /\ got' = got
          /\ call' = [Digested EXCEPT !.total = @ + Len(Output)]
      BY <2>10 DEF WriteOutput, vars
    <3>2. pc = "chunk" /\ io.status = "idle"
      BY <1>1, <1>4, <3>1 DEF HasOutput, Branches
    <3>3. call'.left = LeftAfter /\ call'.digest = call.digest \o Output
      BY <1>1, <3>1 DEF Digested, CallType
    <3>4. k \in 1 .. n
      BY <1>8, <2>1, <2>a, <3>2
    <3>5. PICK c, o, d, t, l, z : /\ c = ChunkOf(i, k) /\ o = Output /\ d = call.digest
                                  /\ t = Archive.content[i] /\ l = call.left /\ z = Len(c)
      OBVIOUS
    <3>6. io.size = z /\ o = Inflate(c)
      BY <1>1, <1>3, <1>5, <1>6, <1>7, <2>1, <3>2, <3>4, <3>5, ChunkIsRead
    <3>7. /\ z \in Nat /\ StoredAt(i, k + 1) = StoredAt(i, k) + (2 + z)
          /\ StoredAt(i, k) + (2 + z) <= Len(Plain(i))
      BY <1>1, <1>5, <1>6, <1>7, <3>4, <3>5, ChunkFits
    <3>8. /\ Len(d \o o) = ContentAt(i, k + 1)
          /\ \A j \in 1 .. Len(d \o o) : (d \o o)[j] = t[j]
      <4>1. /\ d \in Seq(Byte) /\ Len(d) = ContentAt(i, k) /\ o = Inflate(ChunkOf(i, k))
            /\ Agree(d, t)
        BY <2>2, <2>a, <3>5, <3>6 DEF Agree
      <4>2. k \in 1 .. ChunkCount(i) /\ t = Archive.content[i]
        BY <1>7, <3>4, <3>5
      <4>3. cab \in DOMAIN Archives /\ Sound(i) /\ "compressed" \in Archive.files[i].flags
        BY <1>1, <1>5, <1>6
      <4>4. Len(d \o o) = ContentAt(i, k + 1) /\ Agree(d \o o, t)
        BY <4>1, <4>2, <4>3, ChunkWritten
      <4> QED BY <4>4 DEF Agree
    <3>9. LeftAfter = l - (2 + z)
      <4>1. LeftAfter = (l - z - 2) % U32
        BY <3>2, <3>5, <3>6 DEF LeftAfter, ChunkHeader
      <4>2. l - z - 2 = l - (2 + z) /\ l - (2 + z) \in Nat /\ l - (2 + z) < U32
        <5>1. PICK a, w, u : a = StoredAt(i, k) /\ w = Len(Plain(i)) /\ u = U32
          OBVIOUS
        <5>2. /\ a \in Nat /\ w \in Nat /\ u \in Nat /\ l \in Nat /\ z \in Nat
              /\ l + a = w /\ a + (2 + z) <= w /\ w < u
          BY <1>8, <2>2, <2>a, <3>5, <3>7, <5>1, U32Assumption
        <5>3. l - z - 2 = l - (2 + z) /\ l - (2 + z) \in Nat /\ l - (2 + z) < u
          BY <5>2
        <5> QED BY <5>1, <5>3
      <4> QED BY <4>1, <4>2, ModSmall
    <3>10. Len(got') - Ahead' = StoredAt(i, k + 1)
      <4>1. Ahead' = 0 /\ Ahead = 2 + z
        BY <3>1, <3>2, <3>6 DEF Ahead
      <4> QED BY <2>2, <2>a, <3>1, <3>7, <4>1, SMTT(30)
    <3>11. call'.left + StoredAt(i, k + 1) = Len(Plain(i))
      <4>1. PICK a, w, b, m : /\ a = StoredAt(i, k) /\ w = Len(Plain(i))
                              /\ b = StoredAt(i, k + 1) /\ m = call'.left
        OBVIOUS
      <4>2. m = l - (2 + z)
        BY <3>3, <3>9, <4>1
      <4>3. b = a + (2 + z) /\ z \in Nat
        BY <3>7, <4>1
      <4>4. a \in Nat /\ w \in Nat /\ l \in Nat /\ l + a = w
        BY <1>8, <2>2, <2>a, <3>5, <4>1
      <4>5. m + b = w
        BY <4>2, <4>3, <4>4
      <4> QED BY <4>1, <4>5
    <3>12. Goal(k + 1)
      BY <3>1, <3>3, <3>5, <3>8, <3>10, <3>11 DEF Goal
    <3>13. k + 1 \in 1 .. n + 1
      BY <1>8, <3>4
    <3> QED BY <1>9, <3>12, <3>13
  <2>11. \/ AskLength \/ AskData \/ ContinueRead \/ FinishRead \/ AskChunk
         \/ WriteOutput \/ UNCHANGED allVars
    <3>1. ~OpenOutput
      BY <1>11 DEF OpenOutput, At
    <3> QED BY <1>1, <3>1, LoopSteps
  <2> QED BY <2>4, <2>5, <2>6, <2>7, <2>8, <2>9, <2>10, <2>11
<1> QED BY <1>1, <1>10, <1>11, LoopSteps
-----------------------------------------------------------------------------
(* What is written belongs to the file.                                    *)
LEMMA CopyWithin ==
  ASSUME CInv, pc \in {"loop", "data"}, ~InChunks, NEW i \in Files, i = call.index, Laid(i)
  PROVE  /\ pc = "loop" => got = call.digest /\ call.left + Len(got) = Len(Plain(i))
         /\ pc = "data" /\ io.status = "reading" => Len(got) + io.size <= Len(Plain(i))
         /\ pc = "data" /\ io.status = "idle" => got = call.digest \o io.buf
         /\ io.status = "idle" => Len(got) <= Len(Plain(i))
<1>1. SInv /\ Branches /\ CopiedSoFar
  BY DEF CInv, Counted
<1>2. PICK n, l, g, p : n = io.size /\ l = call.left /\ g = Len(got) /\ p = Len(Plain(i))
  OBVIOUS
<1>3. n \in Nat /\ l \in Nat /\ g \in Nat
  BY <1>1, <1>2, Types, InvTypes DEF SInv
<1>4. Size = p
  BY <1>1, <1>2, SizeOfLaid
<1>5. /\ l + g - Ahead = p
      /\ got = IF pc = "data" /\ io.status = "idle" THEN call.digest \o io.buf ELSE call.digest
  BY <1>1, <1>2, <1>4 DEF CopiedSoFar, InLoop
<1>6. CASE pc = "loop"
  <2>1. Ahead = 0
    BY <1>6 DEF Ahead
  <2> QED BY <1>2, <1>3, <1>5, <1>6, <2>1
<1>7. CASE pc = "data" /\ io.status = "idle"
  <2>1. Ahead = n /\ n <= l
    BY <1>1, <1>2, <1>7 DEF Ahead, Branches
  <2>2. g <= p
    BY <1>3, <1>5, <2>1
  <2> QED BY <1>2, <1>5, <1>7, <2>2
<1>8. CASE pc = "data" /\ io.status # "idle"
  <2>1. Ahead = 0 /\ n <= l
    BY <1>1, <1>2, <1>8 DEF Ahead, Branches
  <2>2. g + n <= p
    BY <1>3, <1>5, <2>1
  <2> QED BY <1>2, <1>8, <2>2
<1> QED BY <1>6, <1>7, <1>8

LEMMA WantedMeans ==
  ASSUME cab \in DOMAIN Archives, NEW i \in Files, Sound(i), NEW op \in Op
  PROVE  /\ Wanted(op, i) \in Seq(Byte)
         /\ op = "raw" \/ "compressed" \notin Archive.files[i].flags => Wanted(op, i) = Plain(i)
         /\ op = "save" => Wanted(op, i) = Archive.content[i]
<1>1. PICK e, t : e = Archive.files[i] /\ t = Archive.content[i]
  OBVIOUS
<1>2. t \in Seq(Byte) /\ ("compressed" \notin e.flags => Plain(i) = t)
  BY <1>1, SoundMeans
<1>3. Plain(i) \in Seq(Byte)
  BY PlainMeans
<1> QED BY <1>1, <1>2, <1>3 DEF Wanted, Op

LEMMA OutputFits ==
  ASSUME CInv, TrueCache, ChunksSoFar, BufferIsLast, HasOutput,
         NEW i \in Files, i = call.index, Sound(i), NEW w, w = Wanted(call.op, i),
         NEW s, s = call.digest \o Output
  PROVE  Len(s) <= Len(w) /\ Agree(s, w)
<1>1. /\ SInv /\ Branches /\ cab \in DOMAIN Archives /\ call.op \in Op /\ call.digest \in Seq(Byte)
      /\ i = rd.index /\ fds[i] # NotRead /\ io.status = "idle" /\ pc \in {"chunk", "data"}
  BY DEF CInv, Counted, SInv, StreamInv, IInv, TypeOK, LocalsOK, CallType, SameFile, HasOutput
<1>2. CASE pc = "data"
  <2>1. ~InChunks /\ Laid(i)
    BY <1>1, <1>2, SoundMeans DEF Branches
  <2>2. w = Plain(i)
    BY <1>1, <2>1, WantedMeans, InChunksMeans DEF Op
  <2>3. got = call.digest \o io.buf /\ Len(got) <= Len(Plain(i))
    BY <1>1, <1>2, <2>1, CopyWithin
  <2>4. Output = io.buf
    BY <1>2 DEF Output
  <2>5. \A j \in 1 .. Len(got) : got[j] = Plain(i)[j]
    BY <1>1, <2>1, <2>3, GotIsPlain
  <2> QED BY <2>2, <2>3, <2>4, <2>5 DEF Agree
<1>3. CASE pc = "chunk"
  <2>1. InChunks
    BY <1>1, <1>3 DEF Branches
  <2>2. "compressed" \in Archive.files[i].flags /\ call.op = "save"
    BY <1>1, <2>1, InChunksMeans
  <2>3. PICK k \in 1 .. ChunkCount(i) + 1 : BeforeChunk(i, k)
    BY <1>3, <2>1 DEF ChunksSoFar, InLoop
  <2>4. k \in 1 .. ChunkCount(i)
    <3>1. k <= ChunkCount(i)
      BY <1>3, <2>3 DEF BeforeChunk
    <3>2. ChunkCount(i) \in Nat
      BY <1>1, <2>2, ChunksBegin
    <3> QED BY <2>3, <3>1, <3>2
  <2>5. PICK d, o, t : d = call.digest /\ o = Output /\ t = Archive.content[i]
    OBVIOUS
  <2>6. d \in Seq(Byte) /\ Len(d) = ContentAt(i, k) /\ Agree(d, t)
    BY <1>1, <2>3, <2>5 DEF BeforeChunk, Agree
  <2>7. o = Inflate(ChunkOf(i, k))
    BY <1>1, <1>3, <2>2, <2>3, <2>4, <2>5, ChunkIsRead
  <2>8. Len(d \o o) <= Len(t) /\ Agree(d \o o, t)
    BY <1>1, <2>2, <2>4, <2>5, <2>6, <2>7, ChunkWritten
  <2>9. w = t
    BY <1>1, <2>2, <2>5, WantedMeans
  <2> QED BY <2>5, <2>8, <2>9
<1> QED BY <1>1, <1>2, <1>3

(* After the loop all of it was digested.                                  *)
LEMMA AtLoopEnd ==
  ASSUME CInv, TrueCache, ChunksSoFar, pc = "loop", call.left = 0,
         NEW i \in Files, i = call.index, Sound(i)
  PROVE  call.digest = Wanted(call.op, i)
<1>1. /\ SInv /\ cab \in DOMAIN Archives /\ call.op \in Op /\ call.digest \in Seq(Byte)
      /\ i = rd.index /\ fds[i] # NotRead /\ io.status = "idle" /\ Len(got) \in Nat
  BY InvTypes DEF CInv, SInv, LocalsOK, CallType, SameFile, PcStatus
<1>2. PICK d, w, p : d = call.digest /\ w = Wanted(call.op, i) /\ p = Plain(i)
  OBVIOUS
<1>3. w \in Seq(Byte) /\ p \in Seq(Byte)
  BY <1>1, <1>2, WantedMeans, PlainMeans
<1>4. CASE ~InChunks
  <2>1. Laid(i)
    BY <1>1, SoundMeans
  <2>2. w = p
    BY <1>1, <1>2, <1>4, WantedMeans, InChunksMeans DEF Op
  <2>3. got = d /\ Len(d) = Len(p)
    <3>1. got = call.digest /\ call.left + Len(got) = Len(Plain(i))
      BY <1>1, <1>4, <2>1, CopyWithin
    <3> QED BY <1>1, <1>2, <3>1
  <2>4. \A j \in 1 .. Len(got) : got[j] = p[j]
    <3>1. Len(got) <= Len(Plain(i))
      BY <1>1, <1>2, <2>3
    <3> QED BY <1>1, <1>2, <2>1, <3>1, GotIsPlain
  <2>5. d = p
    BY <1>1, <1>2, <1>3, <2>3, <2>4, SeqEqual
  <2> QED BY <1>2, <2>2, <2>5
<1>5. CASE InChunks
  <2>1. "compressed" \in Archive.files[i].flags /\ call.op = "save"
    BY <1>1, <1>5, InChunksMeans
  <2>2. PICK k \in 1 .. ChunkCount(i) + 1 : BeforeChunk(i, k)
    BY <1>5 DEF ChunksSoFar, InLoop
  <2>3. /\ ChunkCount(i) \in Nat /\ StoredAt(i, k) \in Nat
        /\ ContentAt(i, ChunkCount(i) + 1) = Len(Archive.content[i])
    BY <1>1, <2>1, ChunksBegin
  <2>4. StoredAt(i, k) = Len(p) /\ Len(d) = ContentAt(i, k) /\ Agree(d, Archive.content[i])
    BY <1>2, <2>2, <2>3 DEF BeforeChunk, Agree
  <2>5. k = ChunkCount(i) + 1
    <3>1. ASSUME k \in 1 .. ChunkCount(i) PROVE FALSE
      <4>1. PICK z : z = Len(ChunkOf(i, k))
        OBVIOUS
      <4>2. z \in Nat /\ StoredAt(i, k) + (2 + z) <= Len(p)
        BY <1>1, <1>2, <2>1, <3>1, <4>1, ChunkFits
      <4> QED BY <2>3, <2>4, <4>2
    <3> QED BY <2>2, <2>3, <3>1
  <2>6. w = Archive.content[i]
    BY <1>1, <1>2, <2>1, WantedMeans
  <2>7. Len(d) = Len(w) /\ Agree(d, w)
    BY <2>3, <2>4, <2>5, <2>6
  <2>8. d = w
    BY <1>1, <1>2, <1>3, <2>7, SeqEqual DEF Agree
  <2> QED BY <1>2, <2>8
<1> QED BY <1>4, <1>5

LEMMA GrowsIf ==
  ASSUME NEW s \in Seq(Byte), NEW t \in Seq(Byte), Len(s) <= Len(t), Agree(s, t)
  PROVE  Promise!Grows(s, t)
<1>1. Len(s) \in Nat /\ Len(t) \in Nat /\ \A j \in 1 .. Len(t) : t[j] \in Byte
  BY LenProperties, ElementOfSeq
<1>2. PICK n, u : n = Len(s) /\ u = SubSeq(t, 1, n)
  OBVIOUS
<1>3. /\ u \in Seq(Byte) /\ Len(u) = (IF 1 <= n THEN n - 1 + 1 ELSE 0)
      /\ \A j \in 1 .. n - 1 + 1 : u[j] = t[1 + j - 1]
  <2>1. \A j \in 1 .. n : t[j] \in Byte
    BY <1>1, <1>2
  <2> QED BY <1>1, <1>2, <2>1, SubSeqProperties
<1>4. Len(u) = n
  BY <1>1, <1>2, <1>3
<1>5. ASSUME NEW j \in 1 .. n PROVE s[j] = u[j]
  <2>1. j \in 1 .. n - 1 + 1 /\ 1 + j - 1 = j
    BY <1>1, <1>2
  <2>2. u[j] = t[j]
    BY <1>3, <2>1
  <2> QED BY <1>2, <2>2 DEF Agree
<1>6. s = u
  BY <1>2, <1>3, <1>4, <1>5, SeqEqual
<1> QED BY <1>2, <1>6 DEF Promise!Grows

LEMMA TargetIsFile ==
  ASSUME cab \in DOMAIN Archives, NEW i \in -1 .. Archive.count, IsLegal(i)
  PROVE  Target(i) \in Files
<1>1. Ends(i) = EndsOf(i)
  BY EndsAre
<1>2. EndsOf(i) \subseteq Files
  BY ArchiveType, ChainHas DEF EndsOf
<1>3. Ends(i) # {}
  BY DEF IsLegal
<1>4. Target(i) \in Ends(i)
  BY <1>3 DEF Target
<1> QED BY <1>1, <1>2, <1>4

(* The bytes that a step writes, all of them or some.                      *)
LEMMA WritesOutput ==
  ASSUME CInv, WriteOutput \/ WriteFails
  PROVE  /\ HasOutput /\ pc \in {"chunk", "data"} /\ Output \in Seq(Byte)
         /\ out'.exists <=> out.exists
         /\ ~out.exists => out'.bytes = out.bytes
         /\ out.exists =>
              \E s \in Seq(Byte) :
                /\ Len(s) <= Len(Output) /\ Agree(s, Output)
                /\ out.bytes = call.digest /\ out'.bytes = call.digest \o s
<1>1. /\ SInv /\ HasOutput /\ pc \in {"chunk", "data"}
      /\ out \in [exists : BOOLEAN, bytes : Seq(Byte)]
  BY DEF CInv, SInv, LocalsOK, WriteOutput, WriteFails, HasOutput
<1>2. out.exists => out.bytes = call.digest
  BY <1>1 DEF CInv, Counted, Summed, InLoop
<1>3. Output \in Seq(Byte) /\ Len(Output) \in Nat
  BY <1>1, OutputType
<1>4. PICK o : o = Output
  OBVIOUS
<1>5. CASE WriteOutput
  <2>1. out' = IF out.exists THEN [out EXCEPT !.bytes = @ \o o] ELSE out
    BY <1>4, <1>5 DEF WriteOutput
  <2>2. out.exists => out'.exists /\ out'.bytes = out.bytes \o o
    BY <1>1, <2>1
  <2>3. ~out.exists => out' = out
    BY <2>1
  <2>4. Len(o) <= Len(o) /\ Agree(o, o)
    BY <1>3, <1>4 DEF Agree
  <2> QED BY <1>1, <1>2, <1>3, <1>4, <2>2, <2>3, <2>4
<1>6. CASE WriteFails
  <2>1. PICK k \in 0 .. Len(o) - 1 : out' = [out EXCEPT !.bytes = @ \o SubSeq(o, 1, k)]
    BY <1>4, <1>6 DEF WriteFails
  <2>2. out.exists
    BY <1>6 DEF WriteFails
  <2>3. PICK s : s = SubSeq(o, 1, k)
    OBVIOUS
  <2>4. s \in Seq(Byte) /\ Len(s) = k /\ \A j \in 1 .. k : s[j] = o[j]
    <3>1. \A j \in 1 .. k : o[j] \in Byte
      BY <1>3, <1>4, ElementOfSeq
    <3>2. /\ s \in Seq(Byte) /\ Len(s) = (IF 1 <= k THEN k - 1 + 1 ELSE 0)
          /\ \A j \in 1 .. k - 1 + 1 : s[j] = o[1 + j - 1]
      BY <1>3, <1>4, <2>3, <3>1, SubSeqProperties
    <3>3. Len(s) = k
      BY <1>3, <1>4, <3>2
    <3>4. ASSUME NEW j \in 1 .. k PROVE s[j] = o[j]
      <4>1. j \in 1 .. k - 1 + 1 /\ 1 + j - 1 = j
        BY <1>3, <1>4
      <4> QED BY <3>2, <4>1
    <3> QED BY <3>2, <3>3, <3>4
  <2>5. out'.exists /\ out'.bytes = out.bytes \o s
    BY <1>1, <2>1, <2>2, <2>3
  <2>6. Len(s) <= Len(o) /\ Agree(s, o)
    BY <1>3, <1>4, <2>4 DEF Agree
  <2> QED BY <1>1, <1>2, <1>3, <1>4, <2>2, <2>4, <2>5, <2>6
<1> QED BY <1>5, <1>6

LEMMA OutputChanges ==
  ASSUME SInv, [SaveNext]_allVars
  PROVE  \/ UNCHANGED out
         \/ Ask /\ out'.bytes = <<>>
         \/ OpenOutput /\ out'.bytes = <<>>
         \/ WriteOutput \/ WriteFails
<1>1. CASE Ask
  BY <1>1 DEF Ask, Begin, NoFile
<1>2. CASE OpenOutput
  <2>1. PICK e : out' = [NoFile EXCEPT !.exists = e]
    BY <1>2 DEF OpenOutput
  <2>2. out'.bytes = <<>>
    BY <2>1 DEF NoFile
  <2> QED BY <1>2, <2>2
<1>3. CASE ~Ask /\ ~OpenOutput /\ ~WriteOutput /\ ~WriteFails
  <2>1. UNCHANGED out
    BY <1>3 DEF SaveNext, Work, LookupFail, Lookup, VetFail, FollowLink, StartReader,
         NoMemoryForReader, OpenReader, ReaderFails, CheckFail, OutputFails, AskLength, AskData,
         ContinueRead, ReadFails, FinishRead, AskChunk, EmptyChunk, InflateFails, Verify, Exit,
         GiveUp, Answer, allVars, locals
  <2> QED BY <2>1
<1> QED BY <1>1, <1>2, <1>3

LEMMA NextOutputIsPrefix ==
  ASSUME CInv, TrueCache, AskedInRange, SameEnds, Vetted, ChunksSoFar, BufferIsLast,
         OutputIsPrefix, [SaveNext]_allVars
  PROVE  OutputIsPrefix'
<1>1. SInv /\ UNCHANGED cab /\ cab \in DOMAIN Archives /\ AskedInRange' /\ call \in CallType
  BY CabKept, NextLinks DEF CInv, SInv, StreamInv, IInv, TypeOK, LocalsOK
<1>2. PICK a, op, t, b, w : /\ a = call'.asked /\ op = call'.op /\ t = Target(a)
                            /\ b = out'.bytes /\ w = Wanted(op, t)
  OBVIOUS
<1>3. /\ Archive' = Archive /\ Target(a)' = t
      /\ (IsLegal(a)' <=> IsLegal(a)) /\ (Sound(t)' <=> Sound(t)) /\ Wanted(op, t)' = w
  BY <1>1, <1>2, SameRequests
<1> SUFFICES ASSUME IsLegal(a), Sound(t) PROVE Promise!Grows(b, w)
  BY <1>2, <1>3 DEF OutputIsPrefix, Promise!Grows
<1>4. a \in -1 .. Archive.count
  BY <1>1, <1>2, <1>3 DEF AskedInRange
<1>5. op \in Op
  BY <1>1, <1>2, NextSInv DEF SInv, LocalsOK, CallType
<1>6. t \in Files /\ w \in Seq(Byte)
  BY <1>1, <1>2, <1>4, <1>5, TargetIsFile, WantedMeans
<1>7. CASE b = <<>>
  <2>1. b \in Seq(Byte) /\ Len(b) = 0 /\ Len(w) \in Nat
    BY <1>6, <1>7, EmptySeq, LenProperties
  <2>2. Len(b) <= Len(w) /\ Agree(b, w)
    BY <2>1 DEF Agree
  <2> QED BY <1>6, <2>1, <2>2, GrowsIf
<1>8. CASE UNCHANGED out /\ ~Ask
  <2>1. call'.asked = call.asked /\ call'.op = call.op
    BY <1>1, <1>8, ArgumentsKept
  <2> QED BY <1>2, <1>8, <2>1 DEF OutputIsPrefix
<1>9. CASE WriteOutput \/ WriteFails
  <2>1. /\ HasOutput /\ pc \in {"chunk", "data"}
        /\ ~out.exists => out'.bytes = out.bytes
        /\ out.exists =>
              \E s \in Seq(Byte) :
                /\ Len(s) <= Len(Output) /\ Agree(s, Output)
                /\ out.bytes = call.digest /\ out'.bytes = call.digest \o s
    BY <1>9, WritesOutput
  <2>2. call.asked = a /\ call.op = op
    BY <1>1, <1>2, <2>1, SameCall
  <2>3. CASE ~out.exists
    BY <1>2, <2>1, <2>2, <2>3 DEF OutputIsPrefix
  <2>4. CASE out.exists
    <3>1. PICK s \in Seq(Byte) : /\ Len(s) <= Len(Output) /\ Agree(s, Output)
                                 /\ b = call.digest \o s
      BY <1>2, <2>1, <2>4
    <3>2. PICK d, o : d = call.digest /\ o = Output
      OBVIOUS
    <3>3. d \in Seq(Byte) /\ o \in Seq(Byte)
      BY <1>1, <2>1, <3>2, OutputType DEF CallType
    <3>4. t = call.index /\ call.index \in Files
      BY <1>1, <1>2, <2>1, <2>2, ReadsTarget
    <3>5. Len(d \o o) <= Len(w) /\ Agree(d \o o, w)
      BY <1>2, <1>6, <2>1, <2>2, <3>2, <3>4, OutputFits
    <3>6. Len(d \o s) <= Len(d \o o) /\ Agree(d \o s, d \o o)
      <4>1. Len(s) <= Len(o) /\ \A j \in 1 .. Len(s) : s[j] = o[j]
        BY <3>1, <3>2 DEF Agree
      <4> QED BY <3>3, <4>1, PrefixOfConcat DEF Agree
    <3>7. d \o s \in Seq(Byte) /\ d \o o \in Seq(Byte)
      BY <3>1, <3>3, ConcatProperties
    <3>8. Len(d \o s) \in Nat /\ Len(d \o o) \in Nat /\ Len(w) \in Nat
      BY <1>6, <3>7, LenProperties
    <3>9. b \in Seq(Byte) /\ Len(b) <= Len(w) /\ Agree(b, w)
      <4>1. PICK u, v : u = d \o s /\ v = d \o o
        OBVIOUS
      <4>2. /\ Len(u) \in Nat /\ Len(v) \in Nat /\ Len(w) \in Nat
            /\ Len(u) <= Len(v) /\ Len(v) <= Len(w) /\ Agree(u, v) /\ Agree(v, w)
        BY <3>5, <3>6, <3>8, <4>1
      <4>3. Len(u) <= Len(w) /\ Agree(u, w)
        BY <4>2 DEF Agree
      <4> QED BY <3>1, <3>2, <3>7, <4>1, <4>3
    <3> QED BY <1>6, <3>9, GrowsIf
  <2> QED BY <2>3, <2>4
<1>10. CASE UNCHANGED out /\ Ask
  BY <1>2, <1>7, <1>10 DEF Ask, Begin, NoFile
<1> QED BY <1>1, <1>2, <1>7, <1>8, <1>9, <1>10, OutputChanges
-----------------------------------------------------------------------------
(* Why a read fails.                                                       *)
LEMMA BlockNumber ==
  ASSUME NEW n \in Nat, NEW len \in Nat, n * BUFFER_SIZE <= len
  PROVE  n \in 0 .. len \div BUFFER_SIZE
<1>1. PICK m, q, r : m = BUFFER_SIZE /\ q = len \div m /\ r = len % m
  OBVIOUS
<1>2. m \in Nat \ {0}
  BY <1>1, U16Assumption DEF BUFFER_SIZE
<1>3. q \in Int /\ r \in 0 .. m - 1 /\ len = m * q + r
  BY <1>1, <1>2, DivMod
<1>4. n <= q
  <2> SUFFICES ASSUME ~(n <= q) PROVE FALSE
    OBVIOUS
  <2>1. PICK j : j = n - (q + 1)
    OBVIOUS
  <2>2. j \in Nat /\ n = (q + 1) + j
    BY <1>3, <2>1
  <2>3. m * n = m * (q + 1) + m * j /\ m * (q + 1) = m * q + m * 1 /\ m * 1 = m
    BY <1>2, <1>3, <2>2, Distributes
  <2>4. m * j \in Nat
    BY <1>2, <2>2
  <2>5. PICK x, y, z : x = m * q /\ y = m * j /\ z = m * n
    OBVIOUS
  <2>6. x \in Int /\ y \in Nat /\ z = x + m + y /\ len = x + r /\ z <= len
    <3>1. x \in Int
      BY <1>2, <1>3, <2>5
    <3>2. z = x + m + y
      BY <2>3, <2>5
    <3>3. z = n * BUFFER_SIZE
      BY <1>1, <1>2, <2>5
    <3> QED BY <1>3, <2>4, <2>5, <3>1, <3>2, <3>3
  <2> QED BY <1>2, <1>3, <2>6
<1> QED BY <1>1, <1>3, <1>4

LEMMA ReadWithin ==
  ASSUME CInv, TrueCache, ChunksSoFar, InBlocks, io.status = "reading",
         NEW i \in Files, i = call.index, Sound(i)
  PROVE  /\ pc \in {"length", "chunk", "data"}
         /\ io.size > 0 /\ Len(got) + io.size <= Len(Plain(i))
         /\ Len(got) \in ReadStarts(call.op, i)
<1>1. /\ SInv /\ Branches /\ cab \in DOMAIN Archives /\ call.op \in Op
      /\ Len(got) \in Nat /\ io.size \in Nat /\ pc \in {"length", "chunk", "data"}
      /\ call.left \in Nat
  BY InvTypes DEF CInv, Counted, SInv, LocalsOK, CallType, PcStatus
<1>2. i = rd.index /\ fds[i] # NotRead
  BY <1>1 DEF SInv, SameFile
<1>3. Laid(i) /\ Len(Plain(i)) \in Nat
  BY <1>1, SoundMeans, PlainMeans, StoredType
<1>4. CASE pc = "data"
  <2>1. ~InChunks
    BY <1>1, <1>4 DEF Branches
  <2>2. Len(got) + io.size <= Len(Plain(i))
    BY <1>1, <1>3, <1>4, <2>1, CopyWithin
  <2>3. Ahead = 0
    BY <1>4 DEF Ahead
  <2>4. Len(got) - 0 \in Blocks /\ call.left > 0 /\ io.size = NextSize
    BY <1>4, <2>1, <2>3 DEF InBlocks
  <2>5. io.size > 0
    BY <1>1, <2>4, U16Assumption DEF NextSize, BUFFER_SIZE
  <2>6. PICK n \in Nat : Len(got) = n * BUFFER_SIZE
    <3>1. Len(got) \in Blocks
      BY <1>1, <2>4
    <3> QED BY <3>1 DEF Blocks
  <2>7. n \in 0 .. Len(Plain(i)) \div BUFFER_SIZE
    <3>1. Len(got) <= Len(Plain(i))
      BY <1>1, <1>3, <2>2
    <3> QED BY <1>3, <2>6, <3>1, BlockNumber
  <2>8. ~(call.op = "save" /\ "compressed" \in Archive.files[i].flags)
    BY <1>1, <1>2, <2>1, InChunksMeans
  <2>9. Len(got) \in ReadStarts(call.op, i)
    BY <2>6, <2>7, <2>8 DEF ReadStarts
  <2> QED BY <1>1, <2>2, <2>5, <2>9
<1>5. CASE pc \in {"length", "chunk"}
  <2>1. InChunks
    BY <1>1, <1>5 DEF Branches
  <2>2. call.op = "save" /\ "compressed" \in Archive.files[i].flags
    BY <1>1, <1>2, <2>1, InChunksMeans
  <2>3. PICK k \in 1 .. ChunkCount(i) + 1 : BeforeChunk(i, k)
    BY <1>5, <2>1 DEF ChunksSoFar, InLoop
  <2>4. ChunkCount(i) \in Nat /\ k <= ChunkCount(i)
    BY <1>1, <1>5, <2>2, <2>3, ChunksBegin DEF BeforeChunk
  <2>5. k \in 1 .. ChunkCount(i)
    BY <2>3, <2>4
  <2>6. PICK z, a : z = Len(ChunkOf(i, k)) /\ a = StoredAt(i, k)
    OBVIOUS
  <2>7. z \in Nat /\ z > 0 /\ a \in Nat /\ a + (2 + z) <= Len(Plain(i))
    BY <1>1, <2>2, <2>5, <2>6, ChunkFits
  <2>8. /\ pc = "length" => io.size = 2 /\ Len(got) - 0 = a
        /\ pc = "chunk" => io.size = z /\ Len(got) - 2 = a
    <3>1. pc = "length" => io.size = 2 /\ Ahead = 0
      BY <1>1 DEF Ahead, SInv, LengthRead
    <3>2. pc = "chunk" => Ahead = 2
      BY DEF Ahead
    <3> QED BY <2>3, <2>6, <3>1, <3>2 DEF BeforeChunk
  <2>9. /\ Len(got) = a \/ Len(got) = a + 2
        /\ io.size > 0 /\ Len(got) + io.size <= Len(Plain(i))
    BY <1>1, <1>3, <1>5, <2>7, <2>8
  <2>10. k \in DOMAIN Archive.chunks[i]
    <3>1. Archive.chunks[i] \in Seq(Seq(Byte))
      <4>1. Encodes(cab, i)
        BY <1>1 DEF Sound, SoundFiles
      <4> QED BY <2>2, <4>1 DEF Encodes, Archive
    <3> QED BY <2>5, <3>1, LenProperties DEF ChunkCount
  <2>11. a = Archive.starts[i].stored[k]
    BY <2>6 DEF StoredAt
  <2>12. Len(got) \in ReadStarts(call.op, i)
    BY <2>2, <2>9, <2>10, <2>11 DEF ReadStarts
  <2> QED BY <1>1, <2>9, <2>12
<1> QED BY <1>1, <1>4, <1>5

LEMMA FailedRead ==
  ASSUME CInv, TrueCache, ChunksSoFar, InBlocks, [SaveNext]_allVars,
         ReadFails \/ (ContinueRead /\ pc' = "exit"),
         NEW i \in Files, i = call.index, Sound(i), Intact(i)
  PROVE  CutBetweenReads(call.op, i)
<1>1. SInv /\ SInv' /\ cab \in DOMAIN Archives /\ UNCHANGED cab
  BY NextSInv, CabKept DEF CInv, SInv, StreamInv, IInv, TypeOK
<1>2. /\ io.status = "reading" /\ io'.status = "failed" /\ io'.size = io.size
      /\ rd'.index = rd.index /\ UNCHANGED got
  <2>1. CASE ReadFails
    BY <1>1, <2>1, InvTypes DEF ReadFails, ReadFail, SInv, IoType
  <2>2. CASE ContinueRead /\ pc' = "exit"
    <3>1. ReadAcross /\ pc' = IF io'.status = "failed" THEN "exit" ELSE pc
      BY <2>2 DEF ContinueRead
    <3>2. /\ io.status = "reading" /\ io'.status \in {"reading", "failed"}
          /\ io'.size = io.size /\ rd'.index = rd.index /\ UNCHANGED got
      BY <1>1, <3>1, ReadAcrossFacts DEF SInv
    <3>3. pc # "exit"
      BY <1>1, <3>2 DEF SInv, PcStatus
    <3> QED BY <2>2, <3>1, <3>2, <3>3
  <2> QED BY <2>1, <2>2
<1>3. /\ pc \in {"length", "chunk", "data"}
      /\ io.size > 0 /\ Len(got) + io.size <= Len(Plain(i))
      /\ Len(got) \in ReadStarts(call.op, i)
  BY <1>2, ReadWithin
<1>4. rd'.index = i
  BY <1>1, <1>2, <1>3 DEF SInv, SameFile
<1>5. Laid(i) /\ Laid(i)' /\ Intact(i)' /\ Plain(i)' = Plain(i) /\ Archive' = Archive
  BY <1>1, SoundMeans, SameArchive
<1>6. Asked' = Len(got) + io.size
  BY <1>2 DEF Asked
<1>7. WithinFile'
  BY <1>2, <1>3, <1>4, <1>5, <1>6 DEF WithinFile
<1>8. FailsOnlyBetweenParts'
  BY <1>1 DEF SInv, StreamInv, Flow
<1>9. PICK v \in DOMAIN Archive.layout[i].offset : Len(got) = Archive.layout[i].start[v + 1]
  BY <1>2, <1>3, <1>4, <1>5, <1>7, <1>8 DEF FailsOnlyBetweenParts
<1>10. v \in Lo(i) .. Hi(i)
  BY <1>1, <1>5, <1>9, LaidMeans DEF LayoutOK, Lo, Hi
<1>11. /\ Lo(i) \in Nat /\ Hi(i) \in Nat /\ StartOf(i, Hi(i) + 1) = Len(Stored(i))
       /\ Len(Plain(i)) = Len(Stored(i)) /\ Len(Stored(i)) \in Nat
       /\ Len(got) \in Nat /\ io.size \in Nat
  BY <1>1, <1>5, PartsInOrder, PlainMeans, StoredType, InvTypes DEF SInv
<1>12. v # Hi(i)
  <2> SUFFICES ASSUME v = Hi(i) PROVE FALSE
    OBVIOUS
  <2>1. Len(got) = Len(Stored(i))
    BY <1>9, <1>11 DEF StartOf
  <2> QED BY <1>3, <1>11, <2>1
<1>13. v + 1 \in Lo(i) + 1 .. Hi(i)
  BY <1>10, <1>11, <1>12
<1> QED BY <1>3, <1>9, <1>13 DEF CutBetweenReads, Lo, Hi
-----------------------------------------------------------------------------
(* The end of a call.                                                      *)
LEMMA SameInnocent ==
  ASSUME UNCHANGED cab PROVE \A l : Innocent(l)' <=> Innocent(l)
<1> SUFFICES ASSUME NEW l PROVE Innocent(l)' <=> Innocent(l)
  OBVIOUS
<1>1. PICK a, op, t : a = l.asked /\ op = l.op /\ t = Target(a)
  OBVIOUS
<1>2. /\ Target(a)' = t /\ (IsLegal(a)' <=> IsLegal(a)) /\ (Sound(t)' <=> Sound(t))
      /\ (Intact(t)' <=> Intact(t)) /\ (AtEndOfVolume(t)' <=> AtEndOfVolume(t))
      /\ (CutBetweenReads(op, t)' <=> CutBetweenReads(op, t))
  BY <1>1, SameRequests
<1> QED BY <1>1, <1>2 DEF Innocent

LEMMA ExitSteps ==
  ASSUME SInv, [SaveNext]_allVars, pc' = "exit"
  PROVE  \/ UNCHANGED allVars
         \/ /\ pc \in {"check", "loop", "length", "chunk", "data"}
            /\ \/ CheckFail \/ OutputFails \/ ReadFails \/ ContinueRead
               \/ EmptyChunk \/ InflateFails \/ WriteFails \/ Verify
<1>1. ContinueRead \/ ReadFails => pc \in {"length", "chunk", "data"}
  BY DEF ContinueRead, ReadFails, ReadAcross, ReadFail, SInv, PcStatus, LocalsOK
<1>2. ~FinishRead
  BY DEF FinishRead, ReadDone, SInv, PcStatus, locals
<1> QED BY <1>1, <1>2
    DEF SaveNext, Work, Ask, Begin, LookupFail, Lookup, VetFail, FollowLink, StartReader,
        NoMemoryForReader, OpenReader, ReaderFails, CheckFail, OpenOutput, OutputFails,
        AskLength, AskData, AskChunk, EmptyChunk, InflateFails, WriteOutput, WriteFails,
        HasOutput, Verify, Exit, GiveUp, Answer, At, ToExit

LEMMA NowChunk ==
  ASSUME CInv, TrueCache, ChunksSoFar, pc \in {"length", "chunk"},
         NEW i \in Files, i = call.index, Sound(i)
  PROVE  /\ "compressed" \in Archive.files[i].flags
         /\ \E k \in 1 .. ChunkCount(i) : BeforeChunk(i, k)
<1>1. SInv /\ InChunks /\ cab \in DOMAIN Archives /\ fds[i] # NotRead
  BY DEF CInv, Counted, Branches, SInv, StreamInv, IInv, TypeOK, SameFile
<1>2. "compressed" \in Archive.files[i].flags
  BY <1>1, InChunksMeans
<1>3. PICK k \in 1 .. ChunkCount(i) + 1 : BeforeChunk(i, k)
  BY <1>1 DEF ChunksSoFar, InLoop
<1>4. ChunkCount(i) \in Nat /\ k <= ChunkCount(i)
  BY <1>1, <1>2, <1>3, ChunksBegin DEF BeforeChunk
<1>5. k \in 1 .. ChunkCount(i)
  BY <1>3, <1>4
<1> QED BY <1>2, <1>3, <1>5

LEMMA VerifiesSound ==
  ASSUME CInv, TrueCache, ChunksSoFar, pc = "loop", call.left = 0,
         NEW i \in Files, i = call.index, Sound(i)
  PROVE  Verified
<1>1. /\ SInv /\ cab \in DOMAIN Archives /\ call.op \in Op /\ fds[i] # NotRead
      /\ call.total = Len(call.digest)
  BY DEF CInv, Counted, Summed, InLoop, SInv, StreamInv, IInv, TypeOK, LocalsOK, CallType,
         SameFile
<1>2. call.digest = Wanted(call.op, i)
  BY AtLoopEnd
<1>3. PICK d, e, t : d = fds[i] /\ e = Archive.files[i] /\ t = Archive.content[i]
  OBVIOUS
<1>4. e.expanded = Len(t) /\ (Archive.version >= 6 => e.md5 = t)
  <2>1. Encodes(cab, i)
    BY <1>1 DEF Sound, SoundFiles
  <2> QED BY <1>3, <2>1 DEF Encodes, Archive
<1>5. d.expanded = e.expanded /\ d.md5 = e.md5
  BY <1>1, <1>3, CachedEntry
<1>6. CASE call.op = "save"
  <2>1. call.digest = t
    BY <1>1, <1>2, <1>3, <1>6, WantedMeans
  <2> QED BY <1>1, <1>3, <1>4, <1>5, <2>1 DEF Verified, fd
<1>7. CASE call.op = "raw"
  BY <1>7 DEF Verified
<1> QED BY <1>1, <1>6, <1>7 DEF Op

(* A call that fails has one of the known reasons.                         *)
LEMMA NextExitExplained ==
  ASSUME CInv, TrueCache, AskedInRange, SameEnds, Vetted, FoundPart, ChunksSoFar, BufferIsLast,
         InBlocks, ExitExplained, [SaveNext]_allVars
  PROVE  ExitExplained'
<1>1. SInv /\ UNCHANGED cab /\ cab \in DOMAIN Archives /\ call \in CallType
  BY CabKept DEF CInv, SInv, StreamInv, IInv, TypeOK, LocalsOK
<1>2. PICK c : c = call'
  OBVIOUS
<1> SUFFICES ASSUME pc' = "exit", Innocent(c) PROVE c.ok
  BY <1>1, <1>2, SameInnocent DEF ExitExplained
<1>3. CASE UNCHANGED allVars
  BY <1>2, <1>3 DEF ExitExplained, allVars, locals
<1>4. CASE /\ pc \in {"check", "loop", "length", "chunk", "data"}
           /\ \/ CheckFail \/ OutputFails \/ ReadFails \/ ContinueRead
              \/ EmptyChunk \/ InflateFails \/ WriteFails \/ Verify
  <2>1. c.asked = call.asked /\ c.op = call.op
    BY <1>1, <1>2, <1>4, SameCall
  <2>2. PICK i \in Files : i = call.index
    BY <1>1, <1>4, ReadsTarget
  <2>3. Target(call.asked) = i /\ fds[i] # NotRead
    BY <1>1, <1>4, <2>2, ReadsTarget
  <2>4. /\ Sound(i) /\ Intact(i) /\ ~c.fault
        /\ ~AtEndOfVolume(i) /\ ~CutBetweenReads(call.op, i)
    BY <2>1, <2>3 DEF Innocent
  <2>5. CASE CheckFail
    <3>1. pc = "check" /\ Len(Vols[rd.src].bytes) = fd.offset
      BY <2>5 DEF CheckFail, Outside
    <3>2. Laid(i)
      BY <1>1, <2>4, SoundMeans
    <3>3. rd.src = Lo(i)
      BY <2>2, <3>1, <3>2 DEF FoundPart
    <3>4. PICK d, e : d = fds[i] /\ e = Archive.files[i]
      OBVIOUS
    <3>5. d.offset = e.offset
      BY <1>1, <2>3, <3>4, CachedEntry
    <3>6. AtEndOfVolume(i)
      BY <2>2, <3>1, <3>3, <3>4, <3>5 DEF AtEndOfVolume, Lo, fd
    <3> QED BY <2>4, <3>6
  <2>6. CASE OutputFails
    <3>1. call' = [call EXCEPT !.fault = TRUE]
      BY <2>6 DEF OutputFails, ToExit
    <3> QED BY <1>1, <1>2, <2>4, <3>1 DEF CallType
  <2>7. CASE ReadFails \/ ContinueRead
    BY <2>2, <2>4, <2>7, FailedRead
  <2>8. CASE EmptyChunk
    <3>1. pc = "length" /\ io.status = "idle" /\ ChunkLength = 0
      BY <2>8 DEF EmptyChunk
    <3>2. /\ "compressed" \in Archive.files[i].flags
          /\ \E k \in 1 .. ChunkCount(i) : BeforeChunk(i, k)
      BY <2>2, <2>4, <3>1, NowChunk
    <3>3. PICK k \in 1 .. ChunkCount(i) : BeforeChunk(i, k)
      BY <3>2
    <3>4. PICK z : z = Len(ChunkOf(i, k))
      OBVIOUS
    <3>5. ChunkLength = z /\ z \in Nat \ {0}
      BY <1>1, <2>2, <2>4, <3>1, <3>2, <3>3, <3>4, LengthIsRead
    <3> QED BY <3>1, <3>5
  <2>9. CASE InflateFails
    <3>1. pc = "chunk" /\ io.status = "idle" /\ ~Inflates
      BY <2>9 DEF InflateFails
    <3>2. /\ "compressed" \in Archive.files[i].flags
          /\ \E k \in 1 .. ChunkCount(i) : BeforeChunk(i, k)
      BY <2>2, <2>4, <3>1, NowChunk
    <3>3. PICK k \in 1 .. ChunkCount(i) : BeforeChunk(i, k)
      BY <3>2
    <3>4. Inflates
      BY <1>1, <2>2, <2>4, <3>1, <3>2, <3>3, ChunkIsRead
    <3> QED BY <3>1, <3>4
  <2>10. CASE WriteFails
    <3>1. call' = [Digested EXCEPT !.fault = TRUE]
      BY <2>10 DEF WriteFails, ToExit
    <3>2. c.fault
      BY <1>1, <1>2, <3>1 DEF CallType, Digested
    <3> QED BY <2>4, <3>2
  <2>11. CASE Verify
    <3>1. pc = "loop" /\ call.left = 0 /\ call' = [call EXCEPT !.ok = Verified]
      BY <2>11 DEF Verify, ToExit
    <3>2. Verified
      BY <2>2, <2>4, <3>1, VerifiesSound
    <3> QED BY <1>1, <1>2, <3>1, <3>2 DEF CallType
  <2> QED BY <1>4, <2>5, <2>6, <2>7, <2>8, <2>9, <2>10, <2>11
<1> QED BY <1>1, <1>3, <1>4, ExitSteps

LEMMA AnswerExplained ==
  ASSUME CInv, TrueCache, AskedInRange, SameEnds, Vetted, ExitExplained, NEW c,
         \/ (LookupFail \/ VetFail \/ ReaderFails \/ Exit) /\ c = call
         \/ NoMemoryForReader /\ c = [call EXCEPT !.fault = TRUE],
         Innocent(c)
  PROVE  c.ok
<1>1. SInv /\ cab \in DOMAIN Archives /\ call \in CallType /\ IsLegal(c.asked)
      /\ DOMAIN Archive.files = Files
  BY ArchiveType DEF CInv, SInv, StreamInv, IInv, TypeOK, LocalsOK, Innocent
<1>2. ASSUME c = call, EndsOf(call.index) = {} PROVE FALSE
  BY <1>1, <1>2, EndsAre DEF SameEnds, AskedInRange, IsLegal
<1>3. CASE LookupFail /\ c = call
  <2>1. call.index \notin Files
    BY <1>3 DEF LookupFail
  <2>2. EndsOf(call.index) = {}
    BY <1>1, <2>1, EndsOfFile
  <2> QED BY <1>2, <1>3, <2>2
<1>4. CASE VetFail /\ c = call
  <2>1. pc = "vet" /\ IsInvalid(fd)
    BY <1>4 DEF VetFail
  <2>2. PICK i \in Files : i = call.index /\ fds[i] # NotRead
    BY <1>1, <2>1 DEF SInv, SameFile
  <2>3. PICK d, e : d = fds[i] /\ e = Archive.files[i]
    OBVIOUS
  <2>4. IsInvalid(d) <=> IsInvalid(e)
    BY <1>1, <2>2, <2>3, CachedEntry
  <2>5. IsInvalid(Archive.files[i])
    BY <2>1, <2>2, <2>3, <2>4 DEF fd
  <2>6. ~HasLink(Archive, i)
    BY <2>5 DEF HasLink
  <2>7. EndsOf(i) = {i}
    BY <1>1, <2>6, EndsOfFile
  <2>8. Ends(c.asked) = {i}
    BY <1>1, <1>4, <2>2, <2>7, EndsAre DEF SameEnds, AskedInRange
  <2> QED BY <1>1, <2>5, <2>8 DEF IsLegal
<1>5. CASE ReaderFails /\ c = call
  <2>1. pc = "create" /\ CreateFail
    BY <1>5 DEF ReaderFails
  <2>2. PICK i \in Files : i = call.index
    BY <1>1, <2>1, ReadsTarget
  <2>3. Target(call.asked) = i /\ fds[i] # NotRead /\ rd.index = i
    BY <1>1, <2>1, <2>2, ReadsTarget DEF SInv, SameFile
  <2>4. Laid(i) /\ Intact(i)
    BY <1>1, <1>5, <2>3, SoundMeans DEF Innocent
  <2>5. PICK v : v = fds[i].volume
    OBVIOUS
  <2>6. v \in FirstVolume(i) .. Lo(i)
    BY <1>1, <2>3, <2>4, <2>5, InvTypes DEF SInv, CacheSound, KnownAs
  <2>7. Readable(v)
    <3>1. FirstVolume(i) \in Nat /\ Lo(i) \in Nat /\ Hi(i) \in Nat /\ Lo(i) <= Hi(i)
      BY <1>1, <2>4, PartsInOrder, HeadersSay
    <3>2. v \in FirstVolume(i) .. Hi(i)
      BY <2>6, <3>1
    <3> QED BY <1>1, <2>4, <3>2, SearchedReadable
  <2>8. ~Readable(v)
    BY <2>1, <2>3, <2>5 DEF CreateFail
  <2> QED BY <2>7, <2>8
<1>6. CASE Exit /\ c = call
  BY <1>6 DEF Exit, ExitExplained
<1>7. CASE NoMemoryForReader /\ c = [call EXCEPT !.fault = TRUE]
  BY <1>1, <1>7 DEF CallType, Innocent
<1> QED BY <1>3, <1>4, <1>5, <1>6, <1>7

(* The steps that end a call.                                              *)
LEMMA Answers ==
  ASSUME CInv, [SaveNext]_allVars
  PROVE  \/ UNCHANGED log
         \/ \E c \in CallType :
              /\ \/ (LookupFail \/ VetFail \/ ReaderFails \/ Exit) /\ c = call
                 \/ NoMemoryForReader /\ c = [call EXCEPT !.fault = TRUE]
              /\ Answer(c)
<1>1. call \in CallType
  BY DEF CInv, SInv, LocalsOK
<1>2. CASE LookupFail \/ VetFail \/ ReaderFails \/ Exit
  BY <1>1, <1>2 DEF LookupFail, VetFail, ReaderFails, Exit, GiveUp
<1>3. CASE NoMemoryForReader
  <2>1. [call EXCEPT !.fault = TRUE] \in CallType
    BY <1>1 DEF CallType
  <2> QED BY <1>3, <2>1 DEF NoMemoryForReader
<1>4. CASE ~(LookupFail \/ VetFail \/ ReaderFails \/ Exit \/ NoMemoryForReader)
  BY <1>4 DEF SaveNext, Work, Ask, Begin, Lookup, FollowLink, StartReader, OpenReader, CheckFail,
     OpenOutput, OutputFails, AskLength, AskData, ContinueRead, ReadFails, FinishRead, AskChunk,
     EmptyChunk, InflateFails, WriteOutput, WriteFails, Verify, allVars, locals
<1> QED BY <1>2, <1>3, <1>4

LEMMA NewEntry ==
  ASSUME CInv, NEW c \in CallType, Answer(c)
  PROVE  /\ Len(log') = Len(log) + 1 /\ Len(log) \in Nat
         /\ DOMAIN log = 1 .. Len(log) /\ DOMAIN log' = 1 .. Len(log) + 1
         /\ \A k \in 1 .. Len(log) : log'[k] = log[k]
         /\ log'[Len(log) + 1] =
              [op |-> c.op, asked |-> c.asked, sink |-> c.sink, ok |-> c.ok,
               fault |-> c.fault, bytes |-> out.bytes]
<1>1. log \in Seq(AnswerType) /\ out.bytes \in Seq(Byte)
  BY DEF CInv, SInv, LocalsOK
<1>2. PICK x : x = [op |-> c.op, asked |-> c.asked, sink |-> c.sink, ok |-> c.ok,
                    fault |-> c.fault, bytes |-> out.bytes]
  OBVIOUS
<1>3. x \in AnswerType
  BY <1>1, <1>2 DEF CallType, AnswerType
<1>4. log' = Append(log, x)
  BY <1>2 DEF Answer
<1>5. /\ log' \in Seq(AnswerType) /\ Len(log') = Len(log) + 1
      /\ \A k \in 1 .. Len(log) : log'[k] = log[k]
      /\ log'[Len(log) + 1] = x
  BY <1>1, <1>3, <1>4, AppendProperties
<1>6. /\ Len(log) \in Nat /\ DOMAIN log = 1 .. Len(log) /\ DOMAIN log' = 1 .. Len(log')
  BY <1>1, <1>5, LenProperties
<1> QED BY <1>2, <1>5, <1>6

LEMMA NextFailureExplained ==
  ASSUME CInv, TrueCache, AskedInRange, SameEnds, Vetted, ExitExplained, FailureExplained,
         [SaveNext]_allVars
  PROVE  FailureExplained'
<1>1. UNCHANGED cab
  BY CabKept DEF CInv
<1>2. \A k \in DOMAIN log : Innocent(log[k]) => log[k].ok
  BY DEF FailureExplained, Innocent
<1>3. ASSUME \A k \in DOMAIN log' : Innocent(log'[k]) => log'[k].ok
      PROVE  FailureExplained'
  <2>1. \A k \in DOMAIN log' : Innocent(log[k])' => log'[k].ok
    BY <1>1, <1>3, SameInnocent
  <2> QED BY <2>1 DEF FailureExplained, Innocent
<1>4. CASE UNCHANGED log
  BY <1>2, <1>3, <1>4
<1>5. CASE ~UNCHANGED log
  <2>1. PICK c \in CallType :
          /\ \/ (LookupFail \/ VetFail \/ ReaderFails \/ Exit) /\ c = call
             \/ NoMemoryForReader /\ c = [call EXCEPT !.fault = TRUE]
          /\ Answer(c)
    BY <1>5, Answers
  <2>2. PICK n, x : n = Len(log) /\ x = log'[n + 1]
    OBVIOUS
  <2>3. /\ n \in Nat /\ DOMAIN log = 1 .. n /\ DOMAIN log' = 1 .. n + 1
        /\ \A k \in 1 .. n : log'[k] = log[k]
        /\ x = [op |-> c.op, asked |-> c.asked, sink |-> c.sink, ok |-> c.ok,
                fault |-> c.fault, bytes |-> out.bytes]
    BY <2>1, <2>2, NewEntry
  <2>4. Innocent(x) => x.ok
    <3>1. x.op = c.op /\ x.asked = c.asked /\ x.fault = c.fault /\ x.ok = c.ok
      BY <2>3
    <3>2. Innocent(x) => Innocent(c)
      BY <3>1 DEF Innocent
    <3>3. Innocent(c) => c.ok
      BY <2>1, AnswerExplained
    <3> QED BY <3>1, <3>2, <3>3
  <2>5. ASSUME NEW k \in 1 .. n + 1 PROVE Innocent(log'[k]) => log'[k].ok
    <3>1. CASE k = n + 1
      BY <2>2, <2>4, <3>1
    <3>2. CASE k # n + 1
      <4>1. k \in 1 .. n
        BY <2>3, <3>2
      <4> QED BY <1>2, <2>3, <4>1
    <3> QED BY <3>1, <3>2
  <2> QED BY <1>3, <2>3, <2>5
<1> QED BY <1>4, <1>5
-----------------------------------------------------------------------------
(* What is answered with success is acceptable.                            *)
LEMMA RequestIs ==
  ASSUME NEW t, t = Target(call.asked), NEW e, e = Archive.files[t], IsLegal(call.asked)
  PROVE  /\ Request.legal /\ (Request.kept <=> call.sink = "file")
         /\ Request.size = IF call.op = "raw" THEN StoredSize(e.flags, e) % U32 ELSE e.expanded
         /\ \A b \in Request.exact :
              \/ Sound(t) /\ b = Wanted(call.op, t)
              \/ call.op = "save" /\ Archive.version >= 6 /\ b = e.md5
<1>1. PICK legal : legal = IsLegal(call.asked)
  OBVIOUS
<1>2. PICK size, exact :
        /\ size = IF call.op = "raw" THEN StoredSize(e.flags, e) % U32 ELSE e.expanded
        /\ exact = (IF Sound(t) THEN {Wanted(call.op, t)} ELSE {})
                   \cup (IF call.op = "save" /\ Archive.version >= 6 THEN {e.md5} ELSE {})
  OBVIOUS
<1>3. Request.legal /\ (Request.kept <=> call.sink = "file")
  BY DEF Request
<1>4. Request.size = size
  BY <1>2 DEF Request
<1>5. Request.exact = exact
  BY <1>2 DEF Request
<1> QED BY <1>2, <1>3, <1>4, <1>5

LEMMA VerifyAccepts ==
  ASSUME CInv, TrueCache, AskedInRange, SameEnds, Vetted, ChunksSoFar, OutputKept,
         pc = "loop", call.left = 0, Verified
  PROVE  Promise!Acceptable
<1>1. /\ SInv /\ call.op \in Op
      /\ call.total = Len(call.digest) /\ (out.exists => out.bytes = call.digest)
  BY DEF CInv, Counted, Summed, InLoop, SInv, LocalsOK, CallType
<1>2. PICK i \in Files : i = call.index
  BY <1>1, ReadsTarget
<1>3. Target(call.asked) = i /\ IsLegal(call.asked) /\ fds[i] # NotRead
  BY <1>1, <1>2, ReadsTarget
<1>4. PICK d, e : d = fds[i] /\ e = Archive.files[i]
  OBVIOUS
<1>5. /\ d.expanded = e.expanded /\ d.md5 = e.md5
      /\ StoredSize(d.flags, d) = StoredSize(e.flags, e)
  BY <1>1, <1>3, <1>4, CachedEntry
<1>6. /\ Request.legal /\ (Request.kept <=> call.sink = "file")
      /\ Request.size = IF call.op = "raw" THEN StoredSize(e.flags, e) % U32 ELSE e.expanded
      /\ \A b \in Request.exact :
           \/ Sound(i) /\ b = Wanted(call.op, i)
           \/ call.op = "save" /\ Archive.version >= 6 /\ b = e.md5
  BY <1>3, <1>4, RequestIs
<1>7. Len(call.digest) = Request.size
  <2>1. CASE call.op = "raw"
    <3>1. ~InChunks
      BY <2>1 DEF InChunks
    <3>2. Ahead = 0
      BY DEF Ahead
    <3>3. call.left + Len(got) - 0 = Size /\ got = call.digest
      BY <3>1, <3>2 DEF CInv, Counted, CopiedSoFar, InLoop
    <3>4. Len(got) = Size
      BY <1>1, <3>3, Types
    <3>5. Size = StoredSize(e.flags, e) % U32
      BY <1>2, <1>4, <1>5 DEF Size, fd
    <3> QED BY <1>6, <2>1, <3>3, <3>4, <3>5
  <2>2. CASE call.op = "save"
    <3>1. fd.expanded = call.total
      BY <2>2 DEF Verified
    <3>2. fd = d
      BY <1>2, <1>4 DEF fd
    <3> QED BY <1>1, <1>5, <1>6, <2>2, <3>1, <3>2
  <2> QED BY <1>1, <2>1, <2>2 DEF Op
<1>8. ASSUME NEW b \in Request.exact PROVE call.digest = b
  <2>1. CASE Sound(i) /\ b = Wanted(call.op, i)
    BY <1>2, <2>1, AtLoopEnd
  <2>2. CASE call.op = "save" /\ Archive.version >= 6 /\ b = e.md5
    <3>1. call.digest = fd.md5
      BY <2>2 DEF Verified
    <3> QED BY <1>2, <1>4, <1>5, <2>2, <3>1 DEF fd
  <2> QED BY <1>6, <2>1, <2>2
<1>9. Request.kept => out.bytes = call.digest
  BY <1>1, <1>6 DEF OutputKept, InLoop
<1> QED BY <1>6, <1>7, <1>8, <1>9 DEF Promise!Acceptable

LEMMA SameRequest ==
  ASSUME UNCHANGED cab, call'.asked = call.asked, call'.op = call.op, call'.sink = call.sink
  PROVE  Request' = Request
<1>1. PICK a, op, t, sink : a = call.asked /\ op = call.op /\ t = Target(a) /\ sink = call.sink
  OBVIOUS
<1>2. call'.asked = a /\ call'.op = op /\ call'.sink = sink
  BY <1>1
<1>3. /\ Archive' = Archive /\ Target(a)' = t /\ (IsLegal(a)' <=> IsLegal(a))
      /\ (Sound(t)' <=> Sound(t)) /\ Wanted(op, t)' = Wanted(op, t)
  BY <1>1, SameRequests
<1>4. PICK e, w : e = Archive.files[t] /\ w = Wanted(op, t)
  OBVIOUS
<1>5. CASE IsLegal(a) /\ Sound(t)
  <2>1. Request = [legal |-> TRUE, kept |-> sink = "file",
                   size |-> IF op = "raw" THEN StoredSize(e.flags, e) % U32 ELSE e.expanded,
                   exact |-> {w} \cup (IF op = "save" /\ Archive.version >= 6
                                      THEN {e.md5} ELSE {})]
    BY <1>1, <1>4, <1>5 DEF Request
  <2>2. Request' = [legal |-> TRUE, kept |-> sink = "file",
                    size |-> IF op = "raw" THEN StoredSize(e.flags, e) % U32 ELSE e.expanded,
                    exact |-> {w} \cup (IF op = "save" /\ Archive.version >= 6
                                       THEN {e.md5} ELSE {})]
    BY <1>2, <1>3, <1>4, <1>5 DEF Request
  <2> QED BY <2>1, <2>2
<1>6. CASE IsLegal(a) /\ ~Sound(t)
  <2>1. Request = [legal |-> TRUE, kept |-> sink = "file",
                   size |-> IF op = "raw" THEN StoredSize(e.flags, e) % U32 ELSE e.expanded,
                   exact |-> {} \cup (IF op = "save" /\ Archive.version >= 6
                                     THEN {e.md5} ELSE {})]
    BY <1>1, <1>4, <1>6 DEF Request
  <2>2. Request' = [legal |-> TRUE, kept |-> sink = "file",
                    size |-> IF op = "raw" THEN StoredSize(e.flags, e) % U32 ELSE e.expanded,
                    exact |-> {} \cup (IF op = "save" /\ Archive.version >= 6
                                      THEN {e.md5} ELSE {})]
    BY <1>2, <1>3, <1>4, <1>6 DEF Request
  <2> QED BY <2>1, <2>2
<1>7. CASE ~IsLegal(a)
  <2>0. IsLegal(a) = FALSE /\ IsLegal(a)' = FALSE
    BY <1>3, <1>7 DEF IsLegal
  <2>1. Request = [legal |-> FALSE, kept |-> sink = "file", size |-> 0, exact |-> {}]
    BY <1>1, <2>0 DEF Request
  <2>2. Request' = [legal |-> FALSE, kept |-> sink = "file", size |-> 0, exact |-> {}]
    BY <1>2, <1>3, <2>0 DEF Request
  <2> QED BY <2>1, <2>2
<1> QED BY <1>5, <1>6, <1>7

LEMMA NextAccepted ==
  ASSUME CInv, NotYetOk, TrueCache, AskedInRange, SameEnds, Vetted, ChunksSoFar, OutputKept,
         Accepted, [SaveNext]_allVars
  PROVE  Accepted'
<1>1. SInv /\ UNCHANGED cab /\ call \in CallType
  BY CabKept DEF CInv, SInv, LocalsOK
<1> SUFFICES ASSUME pc' = "exit", call'.ok PROVE Promise!Acceptable'
  BY DEF Accepted
<1>2. ASSUME Promise!Acceptable, Request' = Request, UNCHANGED out PROVE Promise!Acceptable'
  BY <1>2 DEF Promise!Acceptable
<1>3. CASE UNCHANGED allVars
  <2>1. UNCHANGED <<pc, call, out>>
    BY <1>3 DEF allVars, locals
  <2>2. Request' = Request
    BY <1>1, <2>1, SameRequest
  <2> QED BY <1>2, <2>1, <2>2 DEF Accepted
<1>4. CASE /\ pc \in {"check", "loop", "length", "chunk", "data"}
           /\ \/ CheckFail \/ OutputFails \/ ReadFails \/ ContinueRead
              \/ EmptyChunk \/ InflateFails \/ WriteFails \/ Verify
  <2>1. Request' = Request
    BY <1>1, <1>4, SameCall, SameRequest
  <2>2. ~call.ok
    BY <1>4 DEF NotYetOk
  <2>3. CASE Verify
    <3>1. pc = "loop" /\ call.left = 0 /\ call' = [call EXCEPT !.ok = Verified] /\ UNCHANGED out
      BY <2>3 DEF Verify, ToExit
    <3>2. Verified
      BY <1>1, <3>1 DEF CallType
    <3> QED BY <1>2, <2>1, <3>1, <3>2, VerifyAccepts
  <2>4. CASE CheckFail \/ ReadFails \/ ContinueRead \/ EmptyChunk \/ InflateFails
    BY <2>2, <2>4 DEF CheckFail, ReadFails, ContinueRead, EmptyChunk, InflateFails, ToExit
  <2>5. CASE OutputFails
    <3>1. call' = [call EXCEPT !.fault = TRUE]
      BY <2>5 DEF OutputFails, ToExit
    <3> QED BY <1>1, <2>2, <3>1 DEF CallType
  <2>6. CASE WriteFails
    <3>1. call' = [Digested EXCEPT !.fault = TRUE]
      BY <2>6 DEF WriteFails, ToExit
    <3>2. call'.ok = call.ok
      BY <1>1, <3>1 DEF CallType, Digested
    <3> QED BY <2>2, <3>2
  <2> QED BY <1>4, <2>3, <2>4, <2>5, <2>6
<1> QED BY <1>1, <1>3, <1>4, ExitSteps
-----------------------------------------------------------------------------
LEMMA InitXInv == SaveInit => XInv
<1> SUFFICES ASSUME SaveInit PROVE XInv
  OBVIOUS
<1>1. EInv
  BY InitEInv
<1>2. /\ pc = "idle" /\ call = NewCall("save", 0, "null") /\ out = NoFile /\ log = <<>>
      /\ fds = [i \in Files |-> NotRead] /\ cab \in DOMAIN Archives
  BY DEF SaveInit, Init
<1>3. call.asked = 0 /\ call.index = 0 /\ call.op = "save"
  BY <1>2 DEF NewCall
<1>4. TrueCache
  BY <1>2 DEF TrueCache
<1>5. AskedInRange /\ SameEnds
  BY <1>2, <1>3, ArchiveType DEF AskedInRange, SameEnds
<1>6. Vetted /\ FoundPart /\ ChunksSoFar /\ BufferIsLast /\ InBlocks /\ ExitExplained
      /\ OutputKept /\ Accepted
  BY <1>2 DEF Vetted, FoundPart, ChunksSoFar, BufferIsLast, InBlocks, ExitExplained, OutputKept,
     Accepted, InLoop
<1>7. OutputIsPrefix
  <2> SUFFICES ASSUME IsLegal(0), Sound(Target(0))
               PROVE  Promise!Grows(out.bytes, Wanted("save", Target(0)))
    BY <1>3 DEF OutputIsPrefix
  <2>1. PICK w : w = Wanted("save", Target(0))
    OBVIOUS
  <2>2. Target(0) \in Files
    BY <1>2, <1>3, <1>5, TargetIsFile DEF AskedInRange
  <2>3. w \in Seq(Byte)
    BY <1>2, <2>1, <2>2, WantedMeans DEF Op
  <2>4. out.bytes = <<>> /\ <<>> \in Seq(Byte) /\ Len(<<>>) = 0 /\ Len(w) \in Nat
    BY <1>2, <2>3, EmptySeq, LenProperties DEF NoFile
  <2>5. Len(out.bytes) <= Len(w) /\ Agree(out.bytes, w)
    BY <2>4 DEF Agree
  <2> QED BY <2>1, <2>3, <2>4, <2>5, GrowsIf
<1>8. FailureExplained
  BY <1>2 DEF FailureExplained
<1> QED BY <1>1, <1>4, <1>5, <1>6, <1>7, <1>8 DEF XInv

LEMMA NextXInv ==
  ASSUME XInv, [SaveNext]_allVars PROVE XInv'
<1>1. SInv /\ CInv /\ EInv /\ NotYetOk
  BY DEF XInv, EInv, CInv
<1>2. EInv'
  BY <1>1, NextEInv
<1>3. TrueCache'
  BY <1>1, NextTrueCache DEF XInv
<1>4. AskedInRange' /\ SameEnds' /\ Vetted'
  BY <1>1, NextLinks DEF XInv
<1>5. FoundPart'
  BY <1>1, NextFoundPart DEF XInv
<1>6. ChunksSoFar'
  BY <1>1, NextChunksSoFar DEF XInv
<1>7. BufferIsLast' /\ InBlocks' /\ OutputKept'
  BY <1>1, NextBufferIsLast, NextInBlocks, NextOutputKept DEF XInv
<1>8. OutputIsPrefix'
  BY <1>1, NextOutputIsPrefix DEF XInv
<1>9. ExitExplained'
  BY <1>1, NextExitExplained DEF XInv
<1>10. FailureExplained'
  BY <1>1, NextFailureExplained DEF XInv
<1>11. Accepted'
  BY <1>1, NextAccepted DEF XInv
<1> QED BY <1>2, <1>3, <1>4, <1>5, <1>6, <1>7, <1>8, <1>9, <1>10, <1>11 DEF XInv

(* Whatever unshield_file_save and unshield_file_save_raw have written, at *)
(* any moment and however the call ends, is the beginning of the file that *)
(* they were asked for, when that file is sound: a short read, a full disk *)
(* or a missing volume leave no foreign bytes in the output.               *)
THEOREM OutputStaysAPrefix == SaveSpec => []OutputIsPrefix
<1>1. XInv => OutputIsPrefix
  BY DEF XInv
<1> QED BY <1>1, InitXInv, NextXInv, PTL DEF SaveSpec

(* Both calls fail on a sound file for one of the known reasons only: the  *)
(* output or memory failed them, a part of the file ends where a read      *)
(* begins, or the file begins at the end of its volume.                    *)
THEOREM FailuresAreExplained == SaveSpec => []FailureExplained
<1>1. XInv => FailureExplained
  BY DEF XInv
<1> QED BY <1>1, InitXInv, NextXInv, PTL DEF SaveSpec
-----------------------------------------------------------------------------
(* The steps of the calls are steps of Extraction.                         *)
LEMMA RequestType ==
  ASSUME XInv PROVE Request \in Promise!Requests
<1>1. cab \in DOMAIN Archives /\ call \in CallType /\ AskedInRange
  BY DEF XInv, EInv, CInv, SInv, StreamInv, IInv, TypeOK, LocalsOK
<1>2. PICK t, e : t = Target(call.asked) /\ e = Archive.files[t]
  OBVIOUS
<1>3. ASSUME NEW s \in Seq(Byte) PROVE s \in Seq(Nat)
  <2>1. Byte \subseteq Nat
    BY DEF Byte
  <2> QED BY <2>1, SeqMonotonic
<1>4. CASE IsLegal(call.asked)
  <2>1. t \in Files /\ e \in FileDescriptor
    BY <1>1, <1>2, <1>4, TargetIsFile, ArchiveType DEF AskedInRange
  <2>2. /\ Request.legal /\ (Request.kept <=> call.sink = "file")
        /\ Request.size = IF call.op = "raw" THEN StoredSize(e.flags, e) % U32 ELSE e.expanded
        /\ \A b \in Request.exact :
             \/ Sound(t) /\ b = Wanted(call.op, t)
             \/ call.op = "save" /\ Archive.version >= 6 /\ b = e.md5
    BY <1>2, <1>4, RequestIs
  <2>3. Request.size \in Nat
    <3>1. StoredSize(e.flags, e) \in Nat /\ e.expanded \in Nat
      BY <2>1 DEF FileDescriptor, StoredSize
    <3>2. StoredSize(e.flags, e) % U32 \in Nat
      BY <3>1, U32Assumption, DivMod
    <3> QED BY <2>2, <3>1, <3>2
  <2>4. Request.exact \in SUBSET Seq(Nat)
    <3>1. ASSUME NEW b \in Request.exact PROVE b \in Seq(Byte)
      <4>1. Sound(t) => Wanted(call.op, t) \in Seq(Byte)
        BY <1>1, <2>1, WantedMeans DEF CallType
      <4>2. e.md5 \in Seq(Byte)
        BY <2>1 DEF FileDescriptor
      <4> QED BY <2>2, <4>1, <4>2
    <3> QED BY <1>3, <3>1
  <2>5. IsLegal(call.asked) \in BOOLEAN
    BY DEF IsLegal
  <2>6. PICK size, exact :
          Request = [legal |-> IsLegal(call.asked), kept |-> call.sink = "file",
                     size |-> size, exact |-> exact]
    BY DEF Request
  <2>7. size \in Nat /\ exact \in SUBSET Seq(Nat)
    BY <2>3, <2>4, <2>6
  <2> QED BY <2>5, <2>6, <2>7 DEF Promise!Requests
<1>5. CASE ~IsLegal(call.asked)
  <2>1. IsLegal(call.asked) = FALSE
    BY <1>5 DEF IsLegal
  <2>2. Request = [legal |-> FALSE, kept |-> call.sink = "file", size |-> 0, exact |-> {}]
    BY <2>1 DEF Request
  <2> QED BY <2>2 DEF Promise!Requests
<1> QED BY <1>4, <1>5

LEMMA AnswersAppended ==
  ASSUME CInv, NEW c \in CallType, Answer(c)
  PROVE  [k \in DOMAIN log' |-> log'[k].ok] = Append([k \in DOMAIN log |-> log[k].ok], c.ok)
<1>1. PICK n, s, t : /\ n = Len(log) /\ s = [k \in DOMAIN log |-> log[k].ok]
                     /\ t = [k \in DOMAIN log' |-> log'[k].ok]
  OBVIOUS
<1>2. /\ n \in Nat /\ DOMAIN log = 1 .. n /\ DOMAIN log' = 1 .. n + 1
      /\ \A k \in 1 .. n : log'[k] = log[k]
      /\ log'[n + 1].ok = c.ok
  <2>1. /\ n \in Nat /\ DOMAIN log = 1 .. n /\ DOMAIN log' = 1 .. n + 1
        /\ \A k \in 1 .. n : log'[k] = log[k]
    BY <1>1, NewEntry
  <2>2. log'[Len(log) + 1] =
          [op |-> c.op, asked |-> c.asked, sink |-> c.sink, ok |-> c.ok,
           fault |-> c.fault, bytes |-> out.bytes]
    BY NewEntry
  <2> QED BY <1>1, <2>1, <2>2
<1>3. ASSUME NEW k \in 1 .. n PROVE log[k].ok \in BOOLEAN
  <2>1. log \in Seq(AnswerType)
    BY DEF CInv, SInv, LocalsOK
  <2>2. log[k] \in AnswerType
    BY <1>1, <2>1, ElementOfSeq
  <2> QED BY <2>2 DEF AnswerType
<1>4. c.ok \in BOOLEAN
  BY DEF CallType
<1>5. s \in [1 .. n -> BOOLEAN] /\ t \in [1 .. n + 1 -> BOOLEAN]
  <2>1. s \in [1 .. n -> BOOLEAN]
    BY <1>1, <1>2, <1>3
  <2>2. ASSUME NEW k \in 1 .. n + 1 PROVE log'[k].ok \in BOOLEAN
    <3>1. k \in 1 .. n \/ k = n + 1
      BY <1>2
    <3> QED BY <1>2, <1>3, <1>4, <3>1
  <2> QED BY <1>1, <1>2, <2>1, <2>2
<1>6. s \in Seq(BOOLEAN) /\ t \in Seq(BOOLEAN)
  BY <1>2, <1>5, SeqDef
<1>7. Len(s) = n /\ Len(t) = n + 1
  BY <1>2, <1>5, <1>6, LenProperties
<1>8. PICK u : u = Append(s, c.ok)
  OBVIOUS
<1>9. /\ u \in Seq(BOOLEAN) /\ Len(u) = n + 1 /\ u[n + 1] = c.ok
      /\ \A k \in 1 .. n : u[k] = s[k]
  BY <1>4, <1>6, <1>7, <1>8, AppendProperties
<1>10. ASSUME NEW k \in 1 .. n + 1 PROVE t[k] = u[k]
  <2>1. t[k] = log'[k].ok
    BY <1>1, <1>2
  <2>2. CASE k = n + 1
    BY <1>2, <1>9, <2>1, <2>2
  <2>3. CASE k # n + 1
    <3>1. k \in 1 .. n
      BY <1>2, <2>3
    <3>2. s[k] = log[k].ok
      BY <1>1, <1>2, <3>1
    <3> QED BY <1>2, <1>9, <2>1, <3>1, <3>2
  <2> QED BY <2>2, <2>3
<1>11. t = u
  BY <1>6, <1>7, <1>9, <1>10, SeqEqual
<1> QED BY <1>1, <1>8, <1>11

LEMMA AnswerKeepsPromise ==
  ASSUME XInv, [SaveNext]_allVars, NEW c \in CallType, Answer(c),
         \/ (LookupFail \/ VetFail \/ ReaderFails \/ Exit) /\ c = call
         \/ NoMemoryForReader /\ c = [call EXCEPT !.fault = TRUE]
  PROVE  \E ok \in BOOLEAN : Promise!Answer(ok)
<1>1. CInv /\ SInv /\ UNCHANGED cab /\ call \in CallType
  BY CabKept DEF XInv, EInv, CInv, SInv, LocalsOK
<1>2. c.asked = call.asked /\ c.op = call.op /\ c.sink = call.sink /\ (c.ok <=> call.ok)
  BY <1>1 DEF CallType
<1>3. pc # "idle" /\ (pc = "exit" \/ ~call.ok)
  BY <1>1 DEF LookupFail, VetFail, ReaderFails, Exit, NoMemoryForReader, XInv, EInv, NotYetOk
<1>4. c.ok => Promise!Acceptable
  BY <1>2, <1>3 DEF XInv, Accepted
<1>5. pc' = "idle" /\ call' = c /\ UNCHANGED out
  BY DEF Answer
<1>6. Request' = Request
  BY <1>1, <1>2, <1>5, SameRequest
<1>7. [k \in DOMAIN log' |-> log'[k].ok] = Append([k \in DOMAIN log |-> log[k].ok], c.ok)
  BY <1>1, AnswersAppended
<1>8. c.ok \in BOOLEAN
  BY DEF CallType
<1> QED BY <1>3, <1>4, <1>5, <1>6, <1>7, <1>8 DEF Promise!Answer

LEMMA WriteKeepsPromise ==
  ASSUME XInv, [SaveNext]_allVars, WriteOutput \/ WriteFails
  PROVE  Promise!Write
<1>1. CInv /\ SInv /\ UNCHANGED cab /\ call.digest \in Seq(Byte) /\ out.bytes \in Seq(Byte)
  BY CabKept DEF XInv, EInv, CInv, SInv, LocalsOK, CallType
<1>2. /\ pc \in {"chunk", "data"} /\ Output \in Seq(Byte)
      /\ ~out.exists => out'.bytes = out.bytes
      /\ out.exists => \E s \in Seq(Byte) :
                         out.bytes = call.digest /\ out'.bytes = call.digest \o s
  BY <1>1, WritesOutput
<1>3. pc' \in {"loop", "exit"} /\ UNCHANGED log
  BY DEF WriteOutput, WriteFails, ToExit
<1>4. Request' = Request
  BY <1>1, <1>2, SameCall, SameRequest
<1>5. Promise!Grows(out.bytes, out'.bytes)
  <2>1. CASE ~out.exists
    <3>1. Len(out.bytes) \in Nat /\ Agree(out.bytes, out.bytes)
      BY <1>1, LenProperties DEF Agree
    <3> QED BY <1>1, <1>2, <2>1, <3>1, GrowsIf
  <2>2. CASE out.exists
    <3>1. PICK s \in Seq(Byte) : out.bytes = call.digest /\ out'.bytes = call.digest \o s
      BY <1>2, <2>2
    <3>2. PICK d, b : d = call.digest /\ b = d \o s
      OBVIOUS
    <3>3. d \in Seq(Byte) /\ Len(d) \in Nat /\ Len(s) \in Nat
      BY <1>1, <3>2, LenProperties
    <3>4. b \in Seq(Byte) /\ Len(b) = Len(d) + Len(s) /\ \A j \in 1 .. Len(d) : b[j] = d[j]
      BY <3>2, <3>3, ConcatAt
    <3>5. Len(d) <= Len(b) /\ Agree(d, b)
      BY <3>3, <3>4 DEF Agree
    <3>6. Promise!Grows(d, b)
      BY <3>3, <3>4, <3>5, GrowsIf
    <3> QED BY <3>1, <3>2, <3>6
  <2> QED BY <2>1, <2>2
<1>6. (pc # "idle") /\ (pc' # "idle")
  BY <1>2, <1>3
<1> QED BY <1>3, <1>4, <1>5, <1>6 DEF Promise!Write

LEMMA NextKeepsPromise ==
  ASSUME XInv, (Request \in Promise!Requests)', [SaveNext]_allVars
  PROVE  [Promise!Next]_(Promise!vars)
<1>1. CInv /\ SInv /\ UNCHANGED cab
  BY CabKept DEF XInv, EInv, CInv
<1>2. CASE Ask
  <2>1. /\ pc = "idle" /\ pc' = "lookup" /\ out'.bytes = <<>> /\ UNCHANGED log
    BY <1>2 DEF Ask, Begin, NoFile
  <2>2. Promise!Ask
    BY <2>1 DEF Promise!Ask
  <2> QED BY <2>2 DEF Promise!Next
<1>3. CASE WriteOutput \/ WriteFails
  BY <1>3, WriteKeepsPromise DEF Promise!Next
<1>4. CASE ~UNCHANGED log
  <2>1. PICK c \in CallType :
          /\ \/ (LookupFail \/ VetFail \/ ReaderFails \/ Exit) /\ c = call
             \/ NoMemoryForReader /\ c = [call EXCEPT !.fault = TRUE]
          /\ Answer(c)
    BY <1>1, <1>4, Answers
  <2>2. \E ok \in BOOLEAN : Promise!Answer(ok)
    BY <2>1, AnswerKeepsPromise
  <2> QED BY <2>2 DEF Promise!Next
<1>5. CASE UNCHANGED log /\ ~Ask /\ ~WriteOutput /\ ~WriteFails
  <2>1. Request' = Request
    BY <1>1, <1>5, ArgumentsKept, SameRequest
  <2>2. out'.bytes = out.bytes
    <3>1. OpenOutput => out.bytes = <<>>
      BY <1>1 DEF OpenOutput, At, CInv, Counted, NothingDone, NoFile
    <3> QED BY <1>1, <1>5, <3>1, OutputChanges
  <2>3. (pc' # "idle") = (pc # "idle")
    <3>1. CASE UNCHANGED allVars
      BY <3>1 DEF allVars, locals
    <3>2. CASE Work
      <4>1. pc # "idle"
        BY <1>1, <3>2 DEF Work, LookupFail, Lookup, VetFail, FollowLink, StartReader,
           NoMemoryForReader, OpenReader, ReaderFails, CheckFail, OpenOutput, OutputFails,
           AskLength, AskData, ContinueRead, ReadFails, FinishRead, AskChunk, EmptyChunk,
           InflateFails, WriteOutput, WriteFails, Verify, Exit, At, HasOutput, ReadAcross,
           ReadFail, ReadDone, SInv, PcStatus
      <4>2. pc' # "idle"
        <5>1. log \in Seq(AnswerType)
          BY <1>1 DEF SInv, LocalsOK
        <5>2. ASSUME NEW c \in CallType, Answer(c) PROVE FALSE
          <6>1. Len(log') = Len(log) + 1 /\ Len(log) \in Nat
            BY <1>1, <5>2, NewEntry
          <6> QED BY <1>5, <6>1
        <5>3. ~LookupFail /\ ~VetFail /\ ~ReaderFails /\ ~Exit /\ ~NoMemoryForReader
          <6>1. call \in CallType /\ [call EXCEPT !.fault = TRUE] \in CallType
            BY <1>1 DEF SInv, LocalsOK, CallType
          <6> QED BY <5>2, <6>1 DEF LookupFail, VetFail, ReaderFails, Exit, GiveUp,
                 NoMemoryForReader
        <5> QED BY <1>1, <3>2, <4>1, <5>3 DEF Work, Lookup, FollowLink, StartReader, OpenReader,
               CheckFail, OpenOutput, OutputFails, AskLength, AskData, ContinueRead, ReadFails,
               FinishRead, AskChunk, EmptyChunk, InflateFails, WriteOutput, WriteFails, Verify,
               At, ToExit, locals
      <4> QED BY <4>1, <4>2
    <3> QED BY <1>5, <3>1, <3>2 DEF SaveNext
  <2>4. [k \in DOMAIN log' |-> log'[k].ok] = [k \in DOMAIN log |-> log[k].ok]
    BY <1>5
  <2> QED BY <2>1, <2>2, <2>3, <2>4 DEF Promise!vars
<1> QED BY <1>2, <1>3, <1>4, <1>5

LEMMA InitKeepsPromise ==
  ASSUME SaveInit PROVE Promise!Init
<1>1. pc = "idle" /\ out = NoFile /\ log = <<>> /\ XInv
  BY InitXInv DEF SaveInit
<1>2. Request \in Promise!Requests
  BY <1>1, RequestType
<1>3. [k \in DOMAIN log |-> log[k].ok] = <<>>
  <2>1. PICK s : s = [k \in DOMAIN log |-> log[k].ok]
    OBVIOUS
  <2>2. DOMAIN log = 1 .. 0
    BY <1>1
  <2>3. s \in [1 .. 0 -> BOOLEAN]
    BY <2>1, <2>2
  <2>4. s \in Seq(BOOLEAN) /\ Len(s) = 0
    BY <2>3, SeqDef, LenProperties
  <2> QED BY <2>1, <2>4, EmptySeq
<1> QED BY <1>1, <1>2, <1>3 DEF Promise!Init, NoFile

(* unshield_file_save and unshield_file_save_raw keep the promise of       *)
(* Extraction: the output file of a call only grows, each call is answered *)
(* once, and it is answered with success only when the output has the size *)
(* that the file table announces and, for a sound file or one with a       *)
(* checksum, exactly the bytes that were asked for.                        *)
THEOREM ExtractionImplemented == SaveSpec => KeepsPromise
<1>1. XInv => Request \in Promise!Requests
  BY RequestType
<1>2. SaveInit => XInv /\ Promise!Init
  BY InitXInv, InitKeepsPromise
<1>3. XInv /\ [SaveNext]_allVars => XInv'
  BY NextXInv
<1>4. XInv /\ (Request \in Promise!Requests)' /\ [SaveNext]_allVars => [Promise!Next]_(Promise!vars)
  BY NextKeepsPromise
<1> QED BY <1>1, <1>2, <1>3, <1>4, PTL DEF SaveSpec, KeepsPromise, Promise!Spec
=============================================================================
