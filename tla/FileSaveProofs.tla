--------------------------- MODULE FileSaveProofs ---------------------------
(***************************************************************************)
(* What holds of unshield_file_save and unshield_file_save_raw for all     *)
(* archives, buffer sizes and widths of the counters, whatever is damaged, *)
(* refused or full.                                                        *)
(***************************************************************************)
EXTENDS FileSave, VolumeReaderProofs

(* Where the call is decides what the reader does, and the reader reads    *)
(* the file that the call is about.                                        *)
PcStatus ==
  /\ pc \in {"idle", "lookup", "vet"} <=> io.status = "none"
  /\ pc = "create" <=> io.status = "opening"
  /\ pc \in {"check", "loop"} => io.status = "idle"
  /\ pc \in {"length", "chunk", "data"} => io.status \in {"idle", "reading"}
  /\ pc = "exit" => io.status \in {"idle", "failed"}
SameFile ==
  /\ pc \notin {"idle", "lookup"} => call.index \in Files /\ fds[call.index] # NotRead
  /\ pc \notin {"idle", "lookup", "vet"} => rd.index = call.index
LengthRead ==
  pc = "length" => io.size = 2 /\ (io.status = "idle" => Len(io.buf) = 2)
CallType ==
  [op : Op, asked : Int, index : Int, sink : Sink, left : 0 .. U32 - 1,
   total : Nat, digest : Seq(Byte), ok : BOOLEAN, fault : BOOLEAN]
AnswerType ==
  [op : Op, asked : Int, sink : Sink, ok : BOOLEAN, fault : BOOLEAN, bytes : Seq(Byte)]
LocalsOK ==
  /\ pc \in {"idle", "lookup", "vet", "create", "check", "loop", "length", "chunk",
             "data", "exit"}
  /\ call \in CallType
  /\ out \in [exists : BOOLEAN, bytes : Seq(Byte)]
  /\ log \in Seq(AnswerType)

SInv == StreamInv /\ LocalsOK /\ PcStatus /\ SameFile /\ LengthRead
-----------------------------------------------------------------------------
LEMMA Types ==
  ASSUME SInv
  PROVE  /\ cab \in DOMAIN Archives /\ call.index \in Int /\ call.left \in Nat
         /\ pc \notin {"idle", "lookup"} => call.index \in Files /\ fd \in FileDescriptor
         /\ io \in IoType /\ got \in Seq(Byte) /\ Len(got) \in Nat
<1>1. IInv
  BY DEF SInv, StreamInv
<1>2. call.index \in Int /\ call.left \in 0 .. U32 - 1
  BY DEF SInv, LocalsOK, CallType
<1>3. call.left \in Nat
  BY <1>2, U32Assumption
<1>4. pc \notin {"idle", "lookup"} => call.index \in Files /\ fd \in FileDescriptor
  BY <1>1 DEF SInv, SameFile, IInv, TypeOK, fd
<1>5. got \in Seq(Byte) /\ Len(got) \in Nat
  BY <1>1, LenProperties DEF IInv, TypeOK
<1> QED BY <1>1, <1>2, <1>3, <1>4, <1>5 DEF IInv, TypeOK, IoType

(* What the calls ask the reader for.                                      *)
LEMMA AskedSizes ==
  ASSUME SInv
  PROVE  /\ 2 \in ReadSizes
         /\ call.left > 0 => NextSize \in ReadSizes /\ NextSize \in Nat /\ NextSize <= call.left
         /\ pc = "length" /\ io.status = "idle" =>
              ChunkLength \in Nat /\ (ChunkLength # 0 => ChunkLength \in ReadSizes)
<1>1. call.left \in Nat /\ U16 \in Nat \ {0, 1}
  BY Types, U16Assumption
<1>2. 2 \in ReadSizes
  BY <1>1, BufferAssumption DEF BUFFER_SIZE
<1>3. ASSUME call.left > 0
      PROVE  NextSize \in ReadSizes /\ NextSize \in Nat /\ NextSize <= call.left
  <2>1. NextSize \in 1 .. BUFFER_SIZE /\ NextSize <= call.left
    BY <1>1, <1>3 DEF NextSize, BUFFER_SIZE
  <2> QED BY <2>1, BufferAssumption
<1>4. ASSUME pc = "length", io.status = "idle"
      PROVE  ChunkLength \in Nat /\ (ChunkLength # 0 => ChunkLength \in ReadSizes)
  <2>1. io.buf \in Seq(Byte) /\ Len(io.buf) = 2
    BY <1>4, Types DEF SInv, LengthRead, IoType
  <2>2. io.buf[1] \in Byte /\ io.buf[2] \in Byte
    BY <2>1, ElementOfSeq
  <2> DEFINE n == io.buf[1] + 256 * io.buf[2]
             m == U16
  <2>3. n \in Int
    <3>3. Byte \subseteq Int
      BY DEF Byte
    <3>1. PICK a \in Int, b \in Int : io.buf[1] = a /\ io.buf[2] = b
      <4>1. io.buf[1] \in Int /\ io.buf[2] \in Int
        BY <2>2, <3>3
      <4> QED BY <4>1
    <3>2. a + 256 * b \in Int
      OBVIOUS
    <3> QED BY <3>1, <3>2
  <2>m. m \in Nat \ {0} /\ m = BUFFER_SIZE
    BY <1>1 DEF BUFFER_SIZE
  <2>5. ChunkLength = n % m
    BY DEF ChunkLength
  <2> HIDE DEF n, m
  <2>4. ChunkLength \in 0 .. m - 1
    BY <2>3, <2>m, <2>5, DivMod
  <2>6. ChunkLength # 0 => ChunkLength \in 1 .. m
    BY <2>4, <2>m
  <2> QED BY <2>4, <2>6, <2>m, BufferAssumption
<1> QED BY <1>2, <1>3, <1>4

LEMMA StepsOfReader ==
  ASSUME SInv, [SaveNext]_allVars
  PROVE  [Next]_vars
<1>1. CASE Lookup
  <2>1. io.status = "none"
    BY <1>1 DEF Lookup, At, SInv, PcStatus
  <2> QED BY <1>1, <2>1 DEF Lookup, Next, Open
<1>2. CASE StartReader
  <2>1. io.status = "none" /\ call.index \in Files
    BY <1>2 DEF StartReader, At, SInv, PcStatus, SameFile
  <2> QED BY <1>2, <2>1 DEF StartReader, Next, Open
<1>3. CASE AskLength \/ AskData \/ AskChunk
  <2>1. CASE AskLength
    BY <2>1, AskedSizes DEF AskLength, Next, Read
  <2>2. CASE AskData
    BY <2>2, AskedSizes DEF AskData, Next, Read
  <2>3. CASE AskChunk
    <3>1. pc = "length" /\ io.status = "idle" /\ ChunkLength # 0 /\ ReadBegin(ChunkLength)
      BY <2>3 DEF AskChunk, At
    <3> QED BY <3>1, AskedSizes DEF Next, Read
  <2> QED BY <1>3, <2>1, <2>2, <2>3
<1>4. CASE OpenReader \/ ReaderFails \/ ContinueRead \/ ReadFails \/ FinishRead \/ Exit
  BY <1>4 DEF OpenReader, ReaderFails, ContinueRead, ReadFails, FinishRead, Exit, Next, Step
<1>5. CASE \/ Ask \/ LookupFail \/ VetFail \/ FollowLink \/ NoMemoryForReader \/ CheckFail
           \/ OpenOutput \/ OutputFails \/ EmptyChunk \/ InflateFails \/ WriteOutput
           \/ WriteFails \/ Verify
  BY <1>5 DEF Ask, Begin, LookupFail, VetFail, FollowLink, NoMemoryForReader, CheckFail,
              OpenOutput, OutputFails, EmptyChunk, InflateFails, WriteOutput, WriteFails, Verify
<1>6. CASE UNCHANGED allVars
  BY <1>6 DEF allVars
<1> QED BY <1>1, <1>2, <1>3, <1>4, <1>5, <1>6 DEF SaveNext, Work
-----------------------------------------------------------------------------
(* The steps of the reader as a call sees them.                            *)
LEMMA ReadDoneFacts ==
  ASSUME StreamInv, ReadDone
  PROVE  /\ io.status = "reading" /\ io'.status = "idle" /\ io'.size = io.size
         /\ io'.buf \in Seq(Byte) /\ Len(io'.buf) = io.size
         /\ got' = got \o io'.buf /\ Len(got') = Len(got) + io.size
         /\ rd'.index = rd.index /\ UNCHANGED <<cab, fds>>
<1>1. PICK b, f, n :
        /\ b = io.buf /\ f = Fread /\ n = BytesToRead
        /\ io' = [status |-> "idle", size |-> io.size, left |-> 0, buf |-> Clear(b \o f)]
        /\ n = io.left /\ Enough /\ io.status = "reading"
        /\ got' = got \o io'.buf /\ UNCHANGED <<cab, fds>>
        /\ rd' = [rd EXCEPT !.pos = @ + n, !.left = @ - n, !.obf = SeedAfter]
  BY DEF ReadDone
<1>2. b \in Seq(Byte) /\ f \in Seq(Byte) /\ Len(f) = n /\ n \in Nat /\ Len(b) + n = io.size
  BY <1>1, FreadType, InvTypes
<1>3. b \o f \in Seq(Byte) /\ Len(b \o f) = io.size
  BY <1>2, ConcatProperties, LenProperties
<1>4. io'.buf \in Seq(Byte) /\ Len(io'.buf) = io.size
  BY <1>1, <1>3, ClearType, InvTypes
<1>5. Len(got') = Len(got) + io.size
  BY <1>1, <1>4, InvTypes, ConcatProperties
<1>6. rd'.index = rd.index
  BY <1>1, InvTypes DEF RdType
<1> QED BY <1>1, <1>4, <1>5, <1>6

LEMMA ReadAcrossFacts ==
  ASSUME StreamInv, ReadAcross
  PROVE  /\ io.status = "reading" /\ io'.status \in {"reading", "failed"} /\ io'.size = io.size
         /\ rd'.index = rd.index /\ UNCHANGED <<cab, got>>
<1>1. PICK opened, failed :
        /\ opened = [io EXCEPT !.left = @ - BytesToRead, !.buf = @ \o Fread]
        /\ failed = [io EXCEPT !.status = "failed"]
        /\ OpensNext(opened, failed) /\ io.status = "reading"
  BY DEF ReadAcross
<1>2. opened.status = "reading" /\ failed.status = "failed" /\ opened.size = io.size
      /\ failed.size = io.size
  BY <1>1, InvTypes DEF IoType
<1>3. rd'.index = rd.index /\ UNCHANGED <<cab, got>> /\ (io' = opened \/ io' = failed)
  <2>1. IInv /\ io.status # "none"
    BY <1>1, InvTypes
  <2> QED BY <1>1, <2>1, OpensNextReader
<1> QED BY <1>1, <1>2, <1>3

LEMMA CreateOpenFacts ==
  ASSUME StreamInv, CreateOpen
  PROVE  /\ io.status = "opening" /\ io'.status \in {"opening", "idle"}
         /\ rd'.index = rd.index /\ UNCHANGED <<cab, got>>
<1>1. PICK i, v, d :
        /\ i = rd.index /\ v = fds[i].volume /\ d = OpenedDescriptor(i, fds[i], v)
        /\ io.status = "opening" /\ Readable(v) /\ rd' = Opened(rd, d, v)
        /\ UNCHANGED <<cab, got>> /\ (UNCHANGED io \/ io' = NoCall("idle"))
  BY DEF CreateOpen
<1>2. fds[i] \in FileDescriptor
  BY <1>1, InvTypes
<1>3. d \in FileDescriptor /\ v \in DOMAIN Vols
  BY <1>1, <1>2, OpenedDescriptorType DEF Readable, Openable
<1>4. rd'.index = rd.index
  BY <1>1, <1>3, InvTypes, OpenedType
<1> QED BY <1>1, <1>4 DEF NoCall
-----------------------------------------------------------------------------
(* Where a call goes, and the reader with it.                              *)
Control == PcStatus /\ SameFile /\ LengthRead

LEMMA ControlOfLookups ==
  ASSUME SInv, SameFile, PcStatus, Ask \/ LookupFail \/ Lookup \/ VetFail \/ FollowLink \/ NoMemoryForReader
  PROVE  Control'
<1>1. CASE Ask
  <2>1. pc = "idle" /\ pc' = "lookup" /\ UNCHANGED io
    BY <1>1 DEF Ask, Begin, vars
  <2> QED BY <2>1 DEF PcStatus, SameFile, LengthRead, Control
<1>2. CASE LookupFail \/ VetFail \/ NoMemoryForReader
  <2>1. pc \in {"lookup", "vet"} /\ pc' = "idle" /\ UNCHANGED io
    BY <1>2 DEF LookupFail, VetFail, NoMemoryForReader, GiveUp, Answer, vars
  <2> QED BY <2>1 DEF PcStatus, SameFile, LengthRead, Control
<1>3. CASE FollowLink
  <2>1. pc = "vet" /\ pc' = "lookup" /\ UNCHANGED io
    BY <1>3 DEF FollowLink, At, vars
  <2> QED BY <2>1 DEF PcStatus, SameFile, LengthRead, Control
<1>4. CASE Lookup
  <2>1. /\ pc = "lookup" /\ pc' = "vet" /\ call.index \in Files /\ UNCHANGED <<cab, io, call>>
        /\ fds' = [fds EXCEPT ![call.index] = Descriptor(call.index)]
    BY <1>4 DEF Lookup, At, GetFileDescriptor
  <2>2. IInv
    BY DEF SInv, StreamInv
  <2>3. Descriptor(call.index) # NotRead /\ fds \in [Files -> FileDescriptor \cup {NotRead}]
    BY <2>1, <2>2, ReadFileDescriptorType, NotReadAssumption DEF Descriptor, IInv, TypeOK
  <2>4. fds'[call.index] # NotRead /\ Files' = Files
    BY <2>1, <2>3, SameArchive
  <2> QED BY <2>1, <2>4 DEF PcStatus, SameFile, LengthRead, Control
<1> QED BY <1>1, <1>2, <1>3, <1>4

LEMMA ControlOfReader ==
  ASSUME SInv, SameFile, PcStatus, IInv', StartReader \/ OpenReader \/ ReaderFails \/ Exit
  PROVE  Control'
<1>1. StreamInv
  BY DEF SInv
<1>2. io'.status # "none" => rd'.index \in Files' /\ fds'[rd'.index] # NotRead
  BY DEF IInv, TypeOK
<1>3. CASE StartReader
  <2>1. /\ pc = "vet" /\ pc' = "create" /\ rd' = [NoReader EXCEPT !.index = call.index]
        /\ io' = NoCall("opening") /\ UNCHANGED call
    BY <1>3 DEF StartReader, At, CreateBegin
  <2>2. rd'.index = call.index /\ io'.status = "opening"
    BY <2>1 DEF NoReader, NoCall
  <2> QED BY <1>2, <2>1, <2>2 DEF PcStatus, SameFile, LengthRead, Control
<1>4. CASE OpenReader
  <2>1. /\ pc = "create" /\ pc' = IF io'.status = "idle" THEN "check" ELSE "create"
        /\ UNCHANGED call /\ CreateOpen
    BY <1>4 DEF OpenReader
  <2>2. io'.status \in {"opening", "idle"} /\ rd'.index = rd.index
    BY <1>1, <2>1, CreateOpenFacts
  <2> QED BY <1>2, <2>1, <2>2 DEF PcStatus, SameFile, LengthRead, Control
<1>5. CASE ReaderFails \/ Exit
  <2>1. pc' = "idle" /\ io' = NoCall("none")
    BY <1>5 DEF ReaderFails, Exit, CreateFail, Destroy, GiveUp, Answer
  <2> QED BY <2>1 DEF PcStatus, SameFile, LengthRead, Control, NoCall
<1> QED BY <1>3, <1>4, <1>5

LEMMA ControlOfReads ==
  ASSUME SInv, SameFile, PcStatus, LengthRead, IInv',
         AskLength \/ AskData \/ ContinueRead \/ ReadFails \/ FinishRead \/ AskChunk
  PROVE  Control'
<1>1. StreamInv
  BY DEF SInv
<1>2. io'.status # "none" => rd'.index \in Files' /\ fds'[rd'.index] # NotRead
  BY DEF IInv, TypeOK
<1>3. CASE AskLength \/ AskData \/ AskChunk
  <2>1. PICK n : ReadBegin(n) /\ (pc' = "length" => n = 2)
    BY <1>3 DEF AskLength, AskData, AskChunk, At
  <2>2. /\ pc \in {"loop", "length"} /\ pc' \in {"length", "chunk", "data"}
        /\ UNCHANGED <<rd, call>>
    BY <1>3, <2>1 DEF AskLength, AskData, AskChunk, At, ReadBegin
  <2>3. io'.status = "reading" /\ io'.size = n
    BY <2>1 DEF ReadBegin
  <2> QED BY <1>2, <2>1, <2>2, <2>3 DEF PcStatus, SameFile, LengthRead, Control
<1>4. CASE ContinueRead
  <2>1. /\ io.status = "reading" /\ io'.status \in {"reading", "failed"} /\ io'.size = io.size
        /\ rd'.index = rd.index /\ UNCHANGED call
        /\ pc' = IF io'.status = "failed" THEN "exit" ELSE pc
    BY <1>1, <1>4, ReadAcrossFacts DEF ContinueRead
  <2>2. pc \in {"length", "chunk", "data"}
    BY <2>1 DEF SInv, LocalsOK, PcStatus
  <2> QED BY <1>2, <2>1, <2>2 DEF PcStatus, SameFile, LengthRead, Control
<1>5. CASE ReadFails
  <2>1. /\ io.status = "reading" /\ io'.status = "failed" /\ pc' = "exit" /\ UNCHANGED <<rd, call>>
    BY <1>1, <1>5, InvTypes DEF ReadFails, ReadFail, ToExit, IoType
  <2>2. pc \in {"length", "chunk", "data"}
    BY <2>1 DEF SInv, LocalsOK, PcStatus
  <2> QED BY <1>2, <2>1, <2>2 DEF PcStatus, SameFile, LengthRead, Control
<1>6. CASE FinishRead
  <2>1. /\ io.status = "reading" /\ io'.status = "idle" /\ UNCHANGED <<pc, call>>
        /\ io'.size = io.size /\ Len(io'.buf) = io.size /\ rd'.index = rd.index
    BY <1>1, <1>6, ReadDoneFacts DEF FinishRead, locals
  <2>2. pc \in {"length", "chunk", "data"}
    BY <2>1 DEF SInv, LocalsOK, PcStatus
  <2> QED BY <1>2, <2>1, <2>2 DEF PcStatus, SameFile, LengthRead, Control
<1> QED BY <1>3, <1>4, <1>5, <1>6

LEMMA ControlOfOthers ==
  ASSUME SInv, SameFile, PcStatus, LengthRead,
         \/ CheckFail \/ OpenOutput \/ OutputFails \/ EmptyChunk \/ InflateFails
         \/ WriteOutput \/ WriteFails \/ Verify \/ UNCHANGED allVars
  PROVE  Control'
<1>1. UNCHANGED vars /\ call'.index = call.index
  BY DEF CheckFail, OpenOutput, OutputFails, EmptyChunk, InflateFails, WriteOutput, WriteFails,
         Verify, allVars, locals, ToExit, Digested, SInv, LocalsOK, CallType
<1>2. UNCHANGED <<rd, io, fds>> /\ Files' = Files
  BY <1>1, SameArchive DEF vars
<1>3. CASE UNCHANGED allVars
  BY <1>2, <1>3 DEF allVars, locals, PcStatus, SameFile, LengthRead, Control
<1>4. CASE CheckFail \/ OpenOutput \/ OutputFails
  <2>1. pc = "check" /\ pc' \in {"exit", "loop"}
    BY <1>4 DEF CheckFail, OpenOutput, OutputFails, ToExit, At
  <2> QED BY <1>1, <1>2, <2>1 DEF PcStatus, SameFile, LengthRead, Control
<1>5. CASE EmptyChunk \/ InflateFails \/ WriteOutput \/ WriteFails \/ Verify
  <2>1. /\ pc \in {"length", "chunk", "data", "loop"} /\ io.status = "idle"
        /\ pc' \in {"exit", "loop"}
    BY <1>5 DEF EmptyChunk, InflateFails, WriteOutput, WriteFails, Verify, HasOutput, ToExit, PcStatus
  <2> QED BY <1>1, <1>2, <2>1 DEF PcStatus, SameFile, LengthRead, Control
<1> QED BY <1>3, <1>4, <1>5
-----------------------------------------------------------------------------
(* The local variables of the calls keep their types.                      *)
LEMMA AnswerLocals ==
  ASSUME LocalsOK, NEW c \in CallType, Answer(c)
  PROVE  LocalsOK'
<1> DEFINE a == [op |-> c.op, asked |-> c.asked, sink |-> c.sink, ok |-> c.ok,
                 fault |-> c.fault, bytes |-> out.bytes]
<1>1. pc' = "idle" /\ call' = c /\ log' = Append(log, a) /\ UNCHANGED out
  BY DEF Answer
<1>2. a \in AnswerType
  BY DEF LocalsOK, CallType, AnswerType
<1> HIDE DEF a
<1>3. log' \in Seq(AnswerType)
  BY <1>1, <1>2, AppendProperties DEF LocalsOK
<1> QED BY <1>1, <1>3 DEF LocalsOK

LEMMA LookupLocals ==
  ASSUME SInv, \/ Ask \/ LookupFail \/ Lookup \/ VetFail \/ FollowLink \/ StartReader
               \/ NoMemoryForReader \/ OpenReader \/ ReaderFails \/ Exit
  PROVE  LocalsOK'
<1>1. LocalsOK
  BY DEF SInv
<1>2. CASE LookupFail \/ VetFail \/ NoMemoryForReader \/ ReaderFails \/ Exit
  <2>1. PICK c \in CallType : Answer(c)
    <3>1. call \in CallType /\ [call EXCEPT !.fault = TRUE] \in CallType
      BY <1>1 DEF LocalsOK, CallType
    <3> QED BY <1>2, <3>1 DEF LookupFail, VetFail, NoMemoryForReader, ReaderFails, Exit, GiveUp
  <2> QED BY <1>1, <2>1, AnswerLocals
<1>3. CASE Ask
  <2>1. PICK op \in Op, i \in Files \cup {-1, Archive.count}, sink \in Sink : Begin(op, i, sink)
    BY <1>3 DEF Ask
  <2>2. i \in Int
    <3>1. Archive.count \in Int /\ Files \subseteq Int
      BY Types, ArchiveType, FilesAreNat
    <3> QED BY <3>1
  <2>3. NewCall(op, i, sink) \in CallType
    <3>1. 0 \in 0 .. U32 - 1 /\ <<>> \in Seq(Byte)
      BY U32Assumption
    <3> QED BY <2>2, <3>1 DEF NewCall, CallType
  <2> QED BY <1>1, <2>1, <2>3 DEF Begin, LocalsOK, NoFile
<1>4. CASE FollowLink
  <2>1. fd.prev \in Int
    BY <1>4, Types DEF FollowLink, At, FileDescriptor
  <2>2. call' \in CallType
    BY <1>1, <1>4, <2>1 DEF FollowLink, LinkPrevious, LocalsOK, CallType
  <2> QED BY <1>1, <1>4, <2>2 DEF FollowLink, At, LocalsOK
<1>5. CASE Lookup \/ StartReader \/ OpenReader
  BY <1>1, <1>5 DEF Lookup, StartReader, OpenReader, At, LocalsOK
<1> QED BY <1>2, <1>3, <1>4, <1>5

LEMMA ReadLocals ==
  ASSUME SInv, \/ CheckFail \/ OpenOutput \/ OutputFails \/ AskLength \/ AskData
               \/ ContinueRead \/ ReadFails \/ FinishRead \/ AskChunk \/ EmptyChunk
               \/ InflateFails \/ Verify \/ UNCHANGED allVars
  PROVE  LocalsOK'
<1>1. LocalsOK
  BY DEF SInv
<1>2. CASE OpenOutput
  <2>1. StoredSize(fd.flags, fd) % U32 \in 0 .. U32 - 1
    <3>1. fd \in FileDescriptor
      BY <1>2, Types DEF OpenOutput, At
    <3>2. StoredSize(fd.flags, fd) \in Int
      BY <3>1 DEF StoredSize, FileDescriptor
    <3> QED BY <3>2, U32Assumption, DivMod
  <2> DEFINE n == StoredSize(fd.flags, fd) % U32
  <2>2. n \in 0 .. U32 - 1 /\ call' = [call EXCEPT !.left = n]
    BY <1>2, <2>1 DEF OpenOutput
  <2> HIDE DEF n
  <2>3. call' \in CallType
    BY <1>1, <2>2 DEF LocalsOK, CallType
  <2>4. out' \in [exists : BOOLEAN, bytes : Seq(Byte)]
    <3>1. out' = [exists |-> (call.sink = "file"), bytes |-> <<>>]
      BY <1>2 DEF OpenOutput, NoFile
    <3>2. (call.sink = "file") \in BOOLEAN /\ <<>> \in Seq(Byte)
      OBVIOUS
    <3> QED BY <3>1, <3>2
  <2> QED BY <1>1, <1>2, <2>3, <2>4 DEF OpenOutput, At, LocalsOK
<1>3. CASE CheckFail \/ OutputFails \/ ReadFails \/ EmptyChunk \/ InflateFails \/ Verify
  <2>1. PICK c \in CallType : ToExit(c) /\ UNCHANGED <<out, log>>
    <3>1. /\ call \in CallType /\ [call EXCEPT !.fault = TRUE] \in CallType
          /\ [call EXCEPT !.ok = Verified] \in CallType
      BY <1>1 DEF LocalsOK, CallType, Verified
    <3> QED BY <1>3, <3>1 DEF CheckFail, OutputFails, ReadFails, EmptyChunk, InflateFails, Verify
  <2> QED BY <1>1, <2>1 DEF ToExit, LocalsOK
<1>4. CASE AskLength \/ AskData \/ AskChunk \/ ContinueRead \/ FinishRead \/ UNCHANGED allVars
  BY <1>1, <1>4 DEF AskLength, AskData, AskChunk, ContinueRead, FinishRead, At, LocalsOK, locals,
                    allVars
<1> QED BY <1>2, <1>3, <1>4

LEMMA OutputType ==
  ASSUME SInv, HasOutput
  PROVE  /\ Output \in Seq(Byte) /\ Len(Output) \in Nat
         /\ LeftAfter \in 0 .. U32 - 1 /\ io.size \in Nat /\ call.left \in Nat
         /\ pc = "data" => Output = io.buf
<1>1. Output \in Seq(Byte)
  BY Types DEF HasOutput, Inflates, Output, IoType
<1>2. Len(Output) \in Nat
  BY <1>1, LenProperties
<1>3. io.size \in Nat /\ call.left \in Nat
  BY Types DEF IoType
<1>4. LeftAfter \in 0 .. U32 - 1
  <2> DEFINE n == call.left - io.size - ChunkHeader
  <2>1. n \in Int
    BY <1>3 DEF ChunkHeader
  <2>2. LeftAfter = n % U32
    BY DEF LeftAfter
  <2> HIDE DEF n
  <2> QED BY <2>1, <2>2, U32Assumption, DivMod
<1> QED BY <1>1, <1>2, <1>3, <1>4 DEF Output

LEMMA WriteLocals ==
  ASSUME SInv, WriteOutput \/ WriteFails
  PROVE  LocalsOK'
<1>1. LocalsOK /\ HasOutput
  BY DEF SInv, WriteOutput, WriteFails
<1>2. PICK o, n : o = Output /\ n = LeftAfter
  OBVIOUS
<1>3. o \in Seq(Byte) /\ Len(o) \in Nat /\ n \in 0 .. U32 - 1
  BY <1>1, <1>2, OutputType
<1>4. Digested = [call EXCEPT !.left = n, !.digest = @ \o o]
  BY <1>2 DEF Digested
<1>5. call.digest \o o \in Seq(Byte) /\ out.bytes \o o \in Seq(Byte)
  BY <1>1, <1>3, ConcatProperties DEF LocalsOK, CallType
<1>6. Digested \in CallType
  BY <1>1, <1>3, <1>4, <1>5 DEF LocalsOK, CallType
<1>7. CASE WriteOutput
  <2>1. call' = [Digested EXCEPT !.total = @ + Len(o)] /\ pc' = "loop" /\ UNCHANGED log
        /\ out' = IF out.exists THEN [out EXCEPT !.bytes = @ \o o] ELSE out
    BY <1>2, <1>7 DEF WriteOutput
  <2>2. call' \in CallType
    BY <1>3, <1>6, <2>1 DEF CallType
  <2> QED BY <1>1, <1>5, <2>1, <2>2 DEF LocalsOK
<1>8. CASE WriteFails
  <2>1. PICK k \in 0 .. Len(o) - 1 : out' = [out EXCEPT !.bytes = @ \o SubSeq(o, 1, k)]
    BY <1>2, <1>8 DEF WriteFails
  <2>2. call' = [Digested EXCEPT !.fault = TRUE] /\ pc' = "exit" /\ UNCHANGED log
    BY <1>8 DEF WriteFails, ToExit
  <2>3. SubSeq(o, 1, k) \in Seq(Byte)
    <3>1. \A j \in 1 .. k : o[j] \in Byte
      BY <1>3, <2>1, ElementOfSeq
    <3>2. 1 \in Int /\ k \in Int
      BY <1>3, <2>1
    <3> QED BY <3>1, <3>2, SubSeqProperties
  <2>4. out.bytes \o SubSeq(o, 1, k) \in Seq(Byte)
    BY <1>1, <2>3, ConcatProperties DEF LocalsOK
  <2>5. call' \in CallType
    BY <1>6, <2>2 DEF CallType
  <2> QED BY <1>1, <2>1, <2>2, <2>4, <2>5 DEF LocalsOK
<1> QED BY <1>7, <1>8

LEMMA NextSInv ==
  ASSUME SInv, [SaveNext]_allVars PROVE SInv'
<1>1. SameFile /\ PcStatus /\ LengthRead /\ StreamInv
  BY DEF SInv
<1>2. StreamInv' /\ IInv'
  <2>1. [Next]_vars
    BY StepsOfReader
  <2> QED BY <1>1, <2>1, NextIInv, NextSeedFollows, NextFlow DEF StreamInv
<1>3. Control'
  BY <1>1, <1>2, ControlOfLookups, ControlOfReader, ControlOfReads, ControlOfOthers
     DEF SaveNext, Work
<1>4. LocalsOK'
  BY LookupLocals, ReadLocals, WriteLocals DEF SaveNext, Work
<1> QED BY <1>2, <1>3, <1>4 DEF SInv, Control

LEMMA InitSInv == SaveInit => SInv
<1> SUFFICES ASSUME SaveInit PROVE SInv
  OBVIOUS
<1>1. StreamInv
  BY InitIInv, InitFlow DEF SaveInit, StreamInv, Init, NoCall, SeedFollowsStream
<1>2. 0 \in 0 .. U32 - 1 /\ <<>> \in Seq(Byte) /\ <<>> \in Seq(AnswerType)
  BY U32Assumption
<1>3. LocalsOK
  BY <1>2 DEF SaveInit, LocalsOK, NewCall, CallType, Op, Sink, NoFile
<1>4. PcStatus /\ SameFile /\ LengthRead
  BY DEF SaveInit, Init, NoCall, PcStatus, SameFile, LengthRead
<1> QED BY <1>1, <1>3, <1>4 DEF SInv

(* The locals of both calls keep the types of their C objects, and a       *)
(* reader is in use exactly between its creation and the exit of the call: *)
(* for every archive, whatever the disk, the memory and zlib refuse.       *)
THEOREM SaveTypesCorrect == SaveSpec => []SaveTypeOK
<1>1. SaveInit => SInv
  BY InitSInv
<1>2. SInv /\ [SaveNext]_allVars => SInv'
  BY NextSInv
<1>3. ASSUME SInv PROVE SaveTypeOK
  <2>1. \A k \in DOMAIN log : log[k].ok \in BOOLEAN /\ log[k].bytes \in Seq(Byte)
    <3>1. log \in Seq(AnswerType)
      BY <1>3 DEF SInv, LocalsOK
    <3> SUFFICES ASSUME NEW k \in DOMAIN log PROVE log[k] \in AnswerType
      BY DEF AnswerType
    <3> QED BY <3>1, ElementOfSeq, LenProperties
  <2> QED BY <1>3, <2>1, Types DEF SInv, LocalsOK, CallType, PcStatus, SaveTypeOK
<1>4. SInv => SaveTypeOK
  BY <1>3
<1> QED BY <1>1, <1>2, <1>4, PTL DEF SaveSpec

(* The calls use the reader as its clients may, so that all that is proved *)
(* of the reader is true of it in their hands.                             *)
THEOREM KeepsProtocol == SaveSpec => ReaderProtocol
<1>1. SaveInit => SInv /\ Init
  BY InitSInv DEF SaveInit
<1>2. SInv /\ [SaveNext]_allVars => SInv' /\ [Next]_vars
  BY NextSInv, StepsOfReader
<1> QED BY <1>1, <1>2, PTL DEF SaveSpec, ReaderProtocol
-----------------------------------------------------------------------------
(* The counters of the caller and of the reader.                           *)

(* The bytes that were delivered and that bytes_left still counts.         *)
Ahead ==
  CASE pc = "length" /\ io.status = "idle" -> 2
    [] pc = "chunk" /\ io.status = "reading" -> 2
    [] pc = "chunk" /\ io.status = "idle" -> 2 + io.size
    [] pc = "data" /\ io.status = "idle" -> io.size
    [] OTHER -> 0
InLoop == pc \in {"loop", "length", "chunk", "data"}
Size == StoredSize(fd.flags, fd) % U32

NothingDone ==
  /\ pc \in {"lookup", "vet", "create", "check"} =>
       call.digest = <<>> /\ call.total = 0 /\ out = NoFile
  /\ pc \in {"create", "check"} => got = <<>>
Summed ==
  InLoop => /\ call.total = Len(call.digest)
            /\ out.exists => out.bytes = call.digest
            /\ (call.left + Len(got) - Ahead) % U32 = Size
Branches ==
  /\ pc \in {"length", "chunk"} => InChunks
  /\ pc = "data" => ~InChunks /\ io.size <= call.left

(* A file that is copied is counted without wrapping, and hashed as read.  *)
CopiedSoFar ==
  InLoop /\ ~InChunks =>
    /\ call.left + Len(got) - Ahead = Size
    /\ got = IF pc = "data" /\ io.status = "idle" THEN call.digest \o io.buf ELSE call.digest
Counted == NothingDone /\ Summed /\ Branches /\ CopiedSoFar
CInv == SInv /\ Counted

(* What the cache learns of a file is neither its size nor whether it is   *)
(* compressed.                                                             *)
LEMMA SizeKept ==
  ASSUME SInv, [SaveNext]_allVars, pc \notin {"idle", "lookup"}, pc' \notin {"idle", "lookup"},
         call'.index = call.index
  PROVE  /\ fd' \in FileDescriptor /\ StoredSize(fd.flags, fd)' = StoredSize(fd.flags, fd)
         /\ Size' = Size
         /\ call'.op = call.op => (InChunks' <=> InChunks)
<1>1. PICK i \in Files : i = call.index /\ fds[i] # NotRead
  BY DEF SInv, SameFile
<1>2. IInv /\ [Next]_vars
  BY StepsOfReader DEF SInv, StreamInv
<1>3. Learns(fds[i], fds'[i])
  BY <1>1, <1>2, StepLearns
<1>4. fds[i] \in FileDescriptor /\ fd = fds[i] /\ fd' = fds'[i]
  BY <1>1, <1>2 DEF IInv, TypeOK, fd
<1>5. fds'[i] \in FileDescriptor
  <2>1. call'.index \in Files' /\ fds'[call'.index] # NotRead /\ IInv'
    BY NextSInv DEF SInv, SameFile, StreamInv
  <2> QED BY <1>1, <2>1 DEF IInv, TypeOK
<1>6. /\ fds'[i].compressed = fds[i].compressed /\ fds'[i].expanded = fds[i].expanded
      /\ "compressed" \in fds'[i].flags <=> "compressed" \in fds[i].flags
  BY <1>3, <1>4 DEF Learns, FileDescriptor
<1>7. StoredSize(fd.flags, fd)' = StoredSize(fd.flags, fd)
  BY <1>4, <1>6 DEF StoredSize
<1>8. call'.op = call.op => (InChunks' <=> InChunks)
  BY <1>4, <1>6 DEF InChunks, Compressed
<1> QED BY <1>4, <1>5, <1>7, <1>8 DEF Size

LEMMA ModShift ==
  ASSUME NEW x \in Int, NEW y \in Int
  PROVE  ((x % U32) + y) % U32 = (x + y) % U32
<1>1. PICK m, p, r : m = U32 /\ p = x \div m /\ r = x % m
  OBVIOUS
<1>2. m \in Nat \ {0} /\ p \in Int /\ r \in Int /\ x = m * p + r
  BY <1>1, U32Assumption, DivMod
<1>3. PICK q, s : q = (r + y) \div m /\ s = (r + y) % m
  OBVIOUS
<1>4. q \in Int /\ s \in 0 .. m - 1 /\ r + y = m * q + s
  <2>1. r + y \in Int
    BY <1>2
  <2> QED BY <1>2, <1>3, <2>1, DivMod
<1>5. x + y = m * (p + q) + s /\ p + q \in Int
  <2>1. m * (p + q) = m * p + m * q
    BY <1>2, <1>4, Distributes
  <2>2. x + y = m * p + (r + y)
    BY <1>2
  <2>3. m * p \in Int /\ m * q \in Int /\ s \in Int
    BY <1>2, <1>4
  <2> QED BY <1>2, <1>4, <2>1, <2>2, <2>3
<1>6. (m * (p + q) + s) % m = s
  BY <1>2, <1>4, <1>5, ModUnique
<1> QED BY <1>1, <1>3, <1>5, <1>6

(* Before the loop.                                                        *)
LEMMA CountedBefore ==
  ASSUME CInv, [SaveNext]_allVars,
         \/ Ask \/ LookupFail \/ Lookup \/ VetFail \/ FollowLink \/ StartReader
         \/ NoMemoryForReader \/ OpenReader \/ ReaderFails \/ Exit
  PROVE  Counted'
<1>1. NothingDone /\ StreamInv
  BY DEF CInv, Counted, SInv
<1>2. CASE LookupFail \/ VetFail \/ NoMemoryForReader \/ ReaderFails \/ Exit
  <2>1. pc' = "idle"
    BY <1>2 DEF LookupFail, VetFail, NoMemoryForReader, ReaderFails, Exit, GiveUp, Answer
  <2> QED BY <2>1 DEF Counted, NothingDone, Summed, Branches, CopiedSoFar, InLoop
<1>3. CASE Ask
  <2>1. pc' = "lookup" /\ out' = NoFile /\ \E op, i, sink : call' = NewCall(op, i, sink)
    BY <1>3 DEF Ask, Begin
  <2>2. call'.digest = <<>> /\ call'.total = 0
    BY <2>1 DEF NewCall
  <2> QED BY <2>1, <2>2 DEF Counted, NothingDone, Summed, Branches, CopiedSoFar, InLoop
<1>4. CASE Lookup \/ FollowLink \/ StartReader
  <2>1. /\ pc \in {"lookup", "vet"} /\ pc' \in {"lookup", "vet", "create"} /\ UNCHANGED out
        /\ call'.digest = call.digest /\ call'.total = call.total
        /\ pc' = "create" => got' = <<>>
    BY <1>4 DEF Lookup, FollowLink, StartReader, At, CreateBegin, CInv, SInv, LocalsOK, CallType
  <2> QED BY <1>1, <2>1 DEF Counted, NothingDone, Summed, Branches, CopiedSoFar, InLoop
<1>5. CASE OpenReader
  <2>1. pc = "create" /\ pc' \in {"create", "check"} /\ UNCHANGED <<call, out, got>>
    BY <1>1, <1>5, CreateOpenFacts DEF OpenReader
  <2> QED BY <1>1, <2>1 DEF Counted, NothingDone, Summed, Branches, CopiedSoFar, InLoop
<1> QED BY <1>2, <1>3, <1>4, <1>5

LEMMA CountedOpen ==
  ASSUME CInv, OpenOutput
  PROVE  Counted'
<1>1. PICK n : n = StoredSize(fd.flags, fd) % U32
  OBVIOUS
<1>2. fd \in FileDescriptor
  BY Types DEF CInv, OpenOutput, At
<1>3. n \in 0 .. U32 - 1 /\ n \in Nat
  <2>1. StoredSize(fd.flags, fd) \in Int
    BY <1>2 DEF StoredSize, FileDescriptor
  <2>2. n \in 0 .. U32 - 1
    BY <1>1, <2>1, U32Assumption, DivMod
  <2> QED BY <2>2, U32Assumption
<1>4. n % U32 = n
  <2>1. n < U32
    BY <1>3, U32Assumption
  <2> QED BY <1>3, <2>1, ModSmall
<1>5. /\ pc = "check" /\ pc' = "loop" /\ call' = [call EXCEPT !.left = n] /\ UNCHANGED vars
      /\ out' = [NoFile EXCEPT !.exists = (call.sink = "file")]
  BY <1>1 DEF OpenOutput, At
<1>6. call.digest = <<>> /\ call.total = 0 /\ got = <<>> /\ out = NoFile
  BY <1>5 DEF CInv, Counted, NothingDone
<1>7. /\ call'.left = n /\ call'.digest = <<>> /\ call'.total = 0 /\ out'.bytes = <<>>
      /\ call'.index = call.index /\ got' = <<>> /\ UNCHANGED fds
  BY <1>5, <1>6 DEF CInv, SInv, LocalsOK, CallType, NoFile, vars
<1>8. Size' = n /\ Ahead' = 0
  BY <1>1, <1>5, <1>7 DEF Size, fd, Ahead
<1>9. n + Len(<<>>) - 0 = n
  BY <1>3
<1> QED BY <1>4, <1>5, <1>7, <1>8, <1>9
        DEF Counted, NothingDone, Summed, Branches, CopiedSoFar, InLoop

(* A read that is asked for, goes on, fails or ends.                       *)
LEMMA CountedAsk ==
  ASSUME CInv, [SaveNext]_allVars, AskLength \/ AskData \/ AskChunk
  PROVE  Counted'
<1>1. /\ pc \in {"loop", "length"} /\ pc' \in {"length", "chunk", "data"}
      /\ io.status = "idle" /\ io'.status = "reading" /\ UNCHANGED <<call, out, got>>
      /\ pc' \in {"length", "data"} => pc = "loop"
      /\ pc' = "chunk" => pc = "length"
      /\ pc' = "length" => InChunks
      /\ pc' = "data" => ~InChunks /\ io'.size = NextSize /\ call.left > 0
  BY DEF AskLength, AskData, AskChunk, At, ReadBegin
<1>2. SInv /\ Counted
  BY DEF CInv
<1>3. Size' = Size /\ (InChunks' <=> InChunks)
  BY <1>1, <1>2, SizeKept
<1>4. Ahead' = Ahead
  BY <1>1 DEF Ahead
<1>5. pc' = "data" => io'.size <= call.left
  BY <1>1, <1>2, AskedSizes
<1>6. pc = "length" => InChunks
  BY <1>2 DEF Counted, Branches
<1> QED BY <1>1, <1>2, <1>3, <1>4, <1>5, <1>6
        DEF Counted, NothingDone, Summed, Branches, CopiedSoFar, InLoop

LEMMA CountedContinue ==
  ASSUME CInv, [SaveNext]_allVars, ContinueRead
  PROVE  Counted'
<1>1. /\ io.status = "reading" /\ io'.status \in {"reading", "failed"} /\ io'.size = io.size
      /\ UNCHANGED <<call, out, got>>
      /\ pc' = IF io'.status = "failed" THEN "exit" ELSE pc
  BY ReadAcrossFacts DEF ContinueRead, CInv, SInv
<1>2. SInv /\ Counted
  BY DEF CInv
<1>3. pc \in {"length", "chunk", "data"}
  BY <1>1, <1>2 DEF SInv, LocalsOK, PcStatus
<1>4. CASE pc' = "exit"
  BY <1>4 DEF Counted, NothingDone, Summed, Branches, CopiedSoFar, InLoop
<1>5. CASE pc' # "exit"
  <2>1. Size' = Size /\ (InChunks' <=> InChunks)
    BY <1>1, <1>2, <1>3, SizeKept
  <2>2. pc' = pc /\ io'.status = "reading"
    BY <1>1, <1>5
  <2>3. Ahead' = Ahead
    BY <1>1, <1>3, <2>2 DEF Ahead
  <2> QED BY <1>1, <1>2, <1>3, <2>1, <2>2, <2>3
          DEF Counted, NothingDone, Summed, Branches, CopiedSoFar, InLoop
<1> QED BY <1>4, <1>5

LEMMA CountedFinish ==
  ASSUME CInv, [SaveNext]_allVars, FinishRead
  PROVE  Counted'
<1>1. /\ io.status = "reading" /\ io'.status = "idle" /\ io'.size = io.size
      /\ io'.buf \in Seq(Byte) /\ got' = got \o io'.buf /\ Len(got') = Len(got) + io.size
      /\ UNCHANGED <<pc, call, out, log, fds>>
  BY ReadDoneFacts DEF FinishRead, locals, CInv, SInv
<1>2. SInv /\ Counted /\ io.size \in Nat /\ Len(got) \in Nat /\ call.left \in Nat
  BY Types DEF CInv, IoType
<1>3. pc \in {"length", "chunk", "data"}
  BY <1>1, <1>2 DEF SInv, LocalsOK, PcStatus
<1>4. Size' = Size /\ (InChunks' <=> InChunks)
  BY <1>1, <1>2, <1>3, SizeKept
<1>5. Ahead' = Ahead + io.size /\ Ahead \in Nat
  <2>1. pc = "length" => io.size = 2
    BY <1>2 DEF SInv, LengthRead
  <2> QED BY <1>1, <1>2, <1>3, <2>1 DEF Ahead
<1>6. call.left + Len(got') - Ahead' = call.left + Len(got) - Ahead
  BY <1>1, <1>2, <1>5
<1>7. Summed'
  BY <1>1, <1>2, <1>3, <1>4, <1>6 DEF Counted, Summed, InLoop
<1>8. CopiedSoFar'
  BY <1>1, <1>2, <1>3, <1>4, <1>6 DEF Counted, CopiedSoFar, InLoop, Branches
<1> QED BY <1>1, <1>2, <1>3, <1>4, <1>7, <1>8 DEF Counted, NothingDone, Branches

(* What was read goes to the output, or fails to.                          *)
LEMMA CountedWrite ==
  ASSUME CInv, [SaveNext]_allVars, WriteOutput
  PROVE  Counted'
<1>1. SInv /\ Counted /\ HasOutput /\ LocalsOK
  BY DEF CInv, SInv, WriteOutput
<1>2. PICK o, n, a, l, g :
        o = Output /\ n = LeftAfter /\ a = Ahead /\ l = call.left /\ g = Len(got)
  OBVIOUS
<1>3. /\ o \in Seq(Byte) /\ Len(o) \in Nat /\ n \in 0 .. U32 - 1 /\ l \in Nat /\ g \in Nat
      /\ io.size \in Nat
  BY <1>1, <1>2, OutputType, Types
<1>4. /\ pc' = "loop" /\ UNCHANGED <<vars, log>>
      /\ call' = [[call EXCEPT !.left = n, !.digest = @ \o o] EXCEPT !.total = @ + Len(o)]
      /\ out' = IF out.exists THEN [out EXCEPT !.bytes = @ \o o] ELSE out
  BY <1>2 DEF WriteOutput, Digested
<1>5. /\ call'.left = n /\ call'.digest = call.digest \o o /\ call'.total = call.total + Len(o)
      /\ call'.op = call.op /\ call'.index = call.index
      /\ out'.exists = out.exists
      /\ out'.bytes = IF out.exists THEN out.bytes \o o ELSE out.bytes
  BY <1>1, <1>4 DEF LocalsOK, CallType
<1>6. pc \in {"chunk", "data"} /\ io.status = "idle"
  BY <1>1 DEF HasOutput
<1>7. Size' = Size /\ (InChunks' <=> InChunks) /\ UNCHANGED got
  BY <1>1, <1>4, <1>5, <1>6, SizeKept DEF vars
<1>8. a \in Nat /\ n = (l - a) % U32 /\ Ahead' = 0 /\ (pc = "data" => a = io.size)
  <2>1. CASE pc = "chunk"
    <3>1. a = 2 + io.size /\ n = (l - io.size - 2) % U32
      BY <1>2, <1>6, <2>1 DEF Ahead, LeftAfter, ChunkHeader
    <3>2. l - io.size - 2 = l - a
      BY <1>3, <3>1
    <3> QED BY <1>3, <1>4, <2>1, <3>1, <3>2 DEF Ahead
  <2>2. CASE pc = "data"
    <3>1. a = io.size /\ n = (l - io.size - 0) % U32
      BY <1>2, <1>6, <2>2 DEF Ahead, LeftAfter, ChunkHeader
    <3>2. l - io.size - 0 = l - a
      BY <1>3, <3>1
    <3> QED BY <1>3, <1>4, <2>2, <3>1, <3>2 DEF Ahead
  <2> QED BY <1>6, <2>1, <2>2
<1>9. (n + g - 0) % U32 = Size
  <2>1. (l + g - a) % U32 = Size
    BY <1>1, <1>2, <1>6 DEF Counted, Summed, InLoop
  <2>2. PICK x : x = l - a
    OBVIOUS
  <2>3. x \in Int /\ n = x % U32 /\ x + g = l + g - a /\ n + g - 0 = n + g
    BY <1>3, <1>8, <2>2
  <2>4. ((x % U32) + g) % U32 = (x + g) % U32
    BY <1>3, <2>3, ModShift
  <2> QED BY <2>1, <2>3, <2>4
<1>10. Summed'
  <2>1. call.total = Len(call.digest) /\ call.digest \in Seq(Byte)
    BY <1>1, <1>6 DEF Counted, Summed, InLoop, LocalsOK, CallType
  <2>2. Len(call.digest \o o) = Len(call.digest) + Len(o)
    BY <1>3, <2>1, ConcatProperties
  <2>3. out.exists => out.bytes = call.digest
    BY <1>1, <1>6 DEF Counted, Summed, InLoop
  <2> QED BY <1>2, <1>4, <1>5, <1>7, <1>8, <1>9, <2>1, <2>2, <2>3 DEF Summed
<1>11. CopiedSoFar'
  <2> SUFFICES ASSUME ~InChunks
               PROVE  n + g - 0 = Size /\ got = call.digest \o o
    BY <1>2, <1>4, <1>5, <1>7, <1>8 DEF CopiedSoFar
  <2>1. pc = "data" /\ io.size <= l /\ a = io.size
    BY <1>1, <1>2, <1>6, <1>8 DEF Counted, Branches
  <2>2. l + g - a = Size /\ got = call.digest \o io.buf /\ o = io.buf
    BY <1>1, <1>2, <1>6, <2>1, OutputType DEF Counted, CopiedSoFar, InLoop
  <2>3. PICK x : x = l - a
    OBVIOUS
  <2>4. x \in Nat /\ x <= l
    BY <1>3, <2>1, <2>3
  <2>5. x < U32
    <3>1. l \in 0 .. U32 - 1
      BY <1>1, <1>2 DEF LocalsOK, CallType
    <3> QED BY <2>4, <3>1, U32Assumption
  <2>6. n = x
    BY <1>8, <2>3, <2>4, <2>5, ModSmall
  <2>7. x + g - 0 = l + g - a
    BY <1>3, <1>8, <2>3
  <2> QED BY <2>2, <2>6, <2>7
<1> QED BY <1>4, <1>10, <1>11 DEF Counted, NothingDone, Branches

LEMMA CountedEnd ==
  ASSUME CInv, \/ CheckFail \/ OutputFails \/ ReadFails \/ EmptyChunk \/ InflateFails
               \/ WriteFails \/ Verify
  PROVE  Counted'
<1>1. pc' = "exit"
  BY DEF CheckFail, OutputFails, ReadFails, EmptyChunk, InflateFails, WriteFails, Verify, ToExit
<1> QED BY <1>1 DEF Counted, NothingDone, Summed, Branches, CopiedSoFar, InLoop

LEMMA CountedStutter ==
  ASSUME CInv, UNCHANGED allVars PROVE Counted'
<1>1. UNCHANGED <<pc, call, out, io, got, fds, cab, rd>> /\ Counted
  BY DEF CInv, allVars, locals, vars
<1> QED BY <1>1 DEF Counted, NothingDone, Summed, Branches, CopiedSoFar, InLoop, Ahead, Size, fd,
                   InChunks, Compressed

LEMMA NextCInv ==
  ASSUME CInv, [SaveNext]_allVars PROVE CInv'
<1>1. SInv'
  BY NextSInv DEF CInv
<1>2. Counted'
  BY CountedBefore, CountedOpen, CountedAsk, CountedContinue, CountedFinish, CountedWrite,
     CountedEnd, CountedStutter DEF SaveNext, Work
<1> QED BY <1>1, <1>2 DEF CInv

LEMMA InitCInv == SaveInit => CInv
  BY InitSInv DEF SaveInit, CInv, Counted, NothingDone, Summed, Branches, CopiedSoFar, InLoop

(* bytes_left and the position of the reader stay together, modulo the     *)
(* width of an unsigned, whatever the archive says of sizes and chunks and *)
(* however often either counter wraps; and what was hashed, counted and    *)
(* written is the same bytes.                                              *)
THEOREM CountersStayTogether == SaveSpec => []CountersAgree
<1>1. SaveInit => CInv
  BY InitCInv
<1>2. CInv /\ [SaveNext]_allVars => CInv'
  BY NextCInv
<1>3. ASSUME CInv PROVE CountersAgree
  <2> SUFFICES ASSUME pc = "loop"
               PROVE  /\ (call.left + Len(got)) % U32 = Size
                      /\ call.total = Len(call.digest)
                      /\ out.exists => out.bytes = call.digest
                      /\ ~InChunks => call.digest = got
    BY DEF CountersAgree, Size
  <2>1. Ahead = 0 /\ InLoop
    BY DEF Ahead, InLoop
  <2>2. call.left + Len(got) - 0 = call.left + Len(got)
    BY <1>3, Types DEF CInv
  <2> QED BY <1>3, <2>1, <2>2 DEF CInv, Counted, Summed, CopiedSoFar
<1>4. CInv => CountersAgree
  BY <1>3
<1> QED BY <1>1, <1>2, <1>4, PTL DEF SaveSpec
-----------------------------------------------------------------------------
(* What a file that is copied as it is looks like when the call ends.      *)
NotYetOk == pc \notin {"idle", "exit"} => ~call.ok
AtExit ==
  pc = "exit" /\ ~InChunks =>
    /\ Asked <= Size
    /\ out.exists => Len(out.bytes) <= Len(got)
                     /\ \A k \in 1 .. Len(out.bytes) : out.bytes[k] = got[k]
    /\ call.ok => Len(got) = Size /\ (out.exists => out.bytes = got)
EInv == CInv /\ NotYetOk /\ AtExit

LEMMA NotYetOkKept ==
  ASSUME CInv, NotYetOk, [SaveNext]_allVars PROVE NotYetOk'
<1>1. call \in CallType
  BY DEF CInv, SInv, LocalsOK
<1>2. CASE Ask
  <2>1. \E op, i, sink : call' = NewCall(op, i, sink)
    BY <1>2 DEF Ask, Begin
  <2> QED BY <2>1 DEF NewCall, NotYetOk
<1>3. CASE \/ LookupFail \/ VetFail \/ NoMemoryForReader \/ ReaderFails \/ Exit
  BY <1>3 DEF LookupFail, VetFail, NoMemoryForReader, ReaderFails, Exit, GiveUp, Answer, NotYetOk
<1>4. CASE \/ CheckFail \/ OutputFails \/ ReadFails \/ EmptyChunk \/ InflateFails
           \/ WriteFails \/ Verify
  BY <1>4 DEF CheckFail, OutputFails, ReadFails, EmptyChunk, InflateFails, WriteFails, Verify,
              ToExit, NotYetOk
<1>5. CASE \/ Lookup \/ FollowLink \/ StartReader \/ OpenReader \/ OpenOutput
           \/ AskLength \/ AskData \/ ContinueRead \/ FinishRead \/ AskChunk \/ WriteOutput
  <2>1. pc \notin {"idle", "exit"}
    BY <1>5, Types DEF CInv, SInv, PcStatus, Lookup, FollowLink, StartReader, OpenReader,
       OpenOutput, AskLength, AskData, ContinueRead, FinishRead, AskChunk, WriteOutput, At,
       HasOutput, ReadAcross, ReadDone
  <2>2. call'.ok = call.ok
    BY <1>1, <1>5 DEF CallType, Lookup, FollowLink, StartReader, OpenReader,
       OpenOutput, AskLength, AskData, ContinueRead, FinishRead, AskChunk, WriteOutput, At,
       Digested, locals
  <2> QED BY <2>1, <2>2 DEF NotYetOk
<1>6. CASE UNCHANGED allVars
  BY <1>6 DEF allVars, locals, NotYetOk
<1> QED BY <1>2, <1>3, <1>4, <1>5, <1>6 DEF SaveNext, Work

(* A read that fails, or goes on into a volume that is missing.            *)
LEMMA AtExitOfRead ==
  ASSUME CInv, NotYetOk, [SaveNext]_allVars, ReadFails \/ (ContinueRead /\ pc' = "exit")
  PROVE  AtExit'
<1>1. SInv /\ Counted
  BY DEF CInv
<1>2. /\ io.status = "reading" /\ io'.status = "failed" /\ io'.size = io.size
      /\ UNCHANGED <<call, out, got>> /\ pc' = "exit"
  <2>1. CASE ReadFails
    BY <2>1 DEF ReadFails, ReadFail, ToExit
  <2>2. CASE ContinueRead /\ pc' = "exit"
    <3>1. io.status = "reading" /\ io'.size = io.size /\ UNCHANGED <<call, out, got>>
      BY <1>1, <2>2, ReadAcrossFacts DEF ContinueRead, SInv
    <3>2. pc # "exit"
      BY <1>1, <3>1 DEF SInv, PcStatus
    <3> QED BY <2>2, <3>1, <3>2 DEF ContinueRead
  <2> QED BY <2>1, <2>2
<1>3. pc \in {"length", "chunk", "data"}
  BY <1>1, <1>2 DEF SInv, LocalsOK, PcStatus
<1>4. Size' = Size /\ (InChunks' <=> InChunks)
  BY <1>1, <1>2, <1>3, SizeKept
<1> SUFFICES ASSUME ~InChunks
             PROVE  /\ Len(got) + io.size <= Size /\ ~call.ok
                    /\ out.exists => out.bytes = got
  BY <1>1, <1>2, <1>4, Types DEF AtExit, Asked
<1>5. pc = "data" /\ Ahead = 0 /\ io.size <= call.left
  BY <1>1, <1>2, <1>3 DEF Counted, Branches, Ahead
<1>6. call.left + Len(got) - 0 = Size /\ got = call.digest
  BY <1>1, <1>2, <1>5 DEF Counted, CopiedSoFar, InLoop
<1>7. out.exists => out.bytes = call.digest
  BY <1>1, <1>5 DEF Counted, Summed, InLoop
<1>8. Len(got) \in Nat /\ io.size \in Nat /\ call.left \in Nat
  BY <1>1, Types DEF IoType
<1>9. Len(got) + io.size <= Size
  BY <1>5, <1>6, <1>8
<1> QED BY <1>5, <1>6, <1>7, <1>9 DEF NotYetOk

LEMMA PrefixOfConcat ==
  ASSUME NEW d \in Seq(Byte), NEW s \in Seq(Byte), NEW o \in Seq(Byte),
         Len(s) <= Len(o), \A j \in 1 .. Len(s) : s[j] = o[j]
  PROVE  /\ Len(d \o s) <= Len(d \o o)
         /\ \A j \in 1 .. Len(d \o s) : (d \o s)[j] = (d \o o)[j]
<1>1. PICK l, m, n : l = Len(d) /\ m = Len(s) /\ n = Len(o)
  OBVIOUS
<1>2. l \in Nat /\ m \in Nat /\ n \in Nat /\ m <= n
  BY <1>1, LenProperties
<1>3. Len(d \o s) = l + m /\ Len(d \o o) = l + n
  BY <1>1, ConcatProperties
<1>4. ASSUME NEW j \in 1 .. l + m PROVE (d \o s)[j] = (d \o o)[j]
  <2>1. j \in Nat /\ j \in 1 .. l + n /\ (j <= l \/ j > l)
    BY <1>2
  <2>2. CASE j <= l
    <3>1. (d \o s)[j] = d[j]
      BY <1>1, <1>2, <1>4, <2>2, ConcatProperties
    <3>2. (d \o o)[j] = d[j]
      BY <1>1, <1>2, <2>1, <2>2, ConcatProperties
    <3> QED BY <3>1, <3>2
  <2>3. CASE j > l
    <3>1. PICK i : i = j - l
      OBVIOUS
    <3>2. i \in 1 .. m
      BY <1>2, <1>4, <2>3, <3>1
    <3>3. (d \o s)[j] = s[i] /\ (d \o o)[j] = o[i]
      BY <1>1, <1>2, <1>4, <2>1, <2>3, <3>1, ConcatProperties
    <3> QED BY <1>1, <3>2, <3>3
  <2> QED BY <2>1, <2>2, <2>3
<1> QED BY <1>2, <1>3, <1>4

LEMMA AtExitOfWrite ==
  ASSUME CInv, NotYetOk, [SaveNext]_allVars, WriteFails
  PROVE  AtExit'
<1>1. SInv /\ Counted /\ HasOutput /\ out.exists /\ LocalsOK
  BY DEF CInv, SInv, WriteFails
<1>2. PICK o : o = Output
  OBVIOUS
<1>3. o \in Seq(Byte) /\ Len(o) \in Nat /\ io.size \in Nat /\ Len(got) \in Nat /\ call.left \in Nat
  BY <1>1, <1>2, OutputType, Types
<1>4. PICK k \in 0 .. Len(o) - 1 : out' = [out EXCEPT !.bytes = @ \o SubSeq(o, 1, k)]
  BY <1>2 DEF WriteFails
<1>5. /\ call' = [Digested EXCEPT !.fault = TRUE] /\ pc' = "exit" /\ UNCHANGED vars
      /\ call'.ok = call.ok /\ call'.op = call.op /\ call'.index = call.index
  BY <1>1 DEF WriteFails, ToExit, Digested, LocalsOK, CallType
<1>6. pc \in {"chunk", "data"} /\ io.status = "idle"
  BY <1>1 DEF HasOutput
<1>7. Size' = Size /\ (InChunks' <=> InChunks) /\ UNCHANGED <<io, got>>
  BY <1>1, <1>5, <1>6, SizeKept DEF vars
<1>8. ~call.ok /\ out'.bytes = out.bytes \o SubSeq(o, 1, k)
  BY <1>1, <1>4, <1>6 DEF NotYetOk, LocalsOK
<1> SUFFICES ASSUME ~InChunks
             PROVE  /\ Len(got) <= Size /\ Len(out'.bytes) <= Len(got)
                    /\ \A j \in 1 .. Len(out'.bytes) : out'.bytes[j] = got[j]
  <2>1. Asked' = Len(got)
    BY <1>3, <1>6, <1>7 DEF Asked
  <2> QED BY <1>5, <1>7, <1>8, <2>1 DEF AtExit
<1>9. pc = "data" /\ Ahead = io.size /\ io.size <= call.left /\ o = io.buf
  BY <1>1, <1>2, <1>6, OutputType DEF Counted, Branches, Ahead
<1>10. call.left + Len(got) - io.size = Size /\ got = call.digest \o o
  BY <1>1, <1>6, <1>9 DEF Counted, CopiedSoFar, InLoop
<1>11. out.bytes = call.digest
  BY <1>1, <1>9 DEF Counted, Summed, InLoop
<1>12. PICK d, s : d = out.bytes /\ s = SubSeq(o, 1, k)
  OBVIOUS
<1>13. s \in Seq(Byte) /\ Len(s) = k /\ \A j \in 1 .. k : s[j] = o[j]
  <2>1. \A j \in 1 .. k : o[j] \in Byte
    BY <1>3, <1>4, ElementOfSeq
  <2>2. 1 \in Int /\ k \in Int /\ k \in Nat
    BY <1>3, <1>4
  <2> QED BY <1>3, <1>4, <1>12, <2>1, <2>2, SubSeqProperties
<1>14. d \in Seq(Byte) /\ Len(d) \in Nat
  BY <1>1, <1>12, LenProperties DEF LocalsOK
<1>15. Len(got) <= Size
  <2>1. PICK l, g, n : l = call.left /\ g = Len(got) /\ n = io.size
    OBVIOUS
  <2>2. l \in Nat /\ g \in Nat /\ n \in Nat /\ n <= l /\ l + g - n = Size
    BY <1>3, <1>9, <1>10, <2>1
  <2> QED BY <2>1, <2>2
<1>16. Len(s) <= Len(o) /\ \A j \in 1 .. Len(s) : s[j] = o[j]
  BY <1>3, <1>4, <1>13
<1>17. /\ Len(d \o s) <= Len(d \o o)
       /\ \A j \in 1 .. Len(d \o s) : (d \o s)[j] = (d \o o)[j]
  BY <1>3, <1>13, <1>14, <1>16, PrefixOfConcat
<1>18. out'.bytes = d \o s /\ got = d \o o
  BY <1>8, <1>10, <1>11, <1>12
<1> QED BY <1>15, <1>17, <1>18

LEMMA NextAtExit ==
  ASSUME EInv, [SaveNext]_allVars PROVE AtExit'
<1>1. CInv /\ NotYetOk /\ SInv /\ Counted
  BY DEF EInv, CInv
<1>2. CASE pc' # "exit"
  BY <1>2 DEF AtExit
<1>3. CASE UNCHANGED allVars
  <2>1. UNCHANGED <<pc, call, out, io, got, fds>> /\ AtExit
    BY <1>3 DEF EInv, allVars, locals, vars
  <2> QED BY <2>1 DEF AtExit, Asked, Size, fd, InChunks, Compressed
<1>4. CASE ReadFails \/ (ContinueRead /\ pc' = "exit")
  BY <1>1, <1>4, AtExitOfRead
<1>5. CASE WriteFails
  BY <1>1, <1>5, AtExitOfWrite
<1>6. CASE CheckFail \/ OutputFails
  <2>1. /\ pc = "check" /\ pc' = "exit" /\ UNCHANGED <<vars, out>>
        /\ ~call'.ok /\ io.status = "idle" /\ call'.index = call.index
    BY <1>1, <1>6 DEF CheckFail, OutputFails, ToExit, NotYetOk, SInv, LocalsOK, CallType, PcStatus
  <2>2. out' = NoFile /\ got' = <<>> /\ io'.status = "idle"
    BY <1>1, <2>1 DEF Counted, NothingDone, vars
  <2>3. Asked' = 0 /\ 0 <= Size'
    <3>1. fd' \in FileDescriptor
      BY <1>1, <2>1, SizeKept
    <3>2. StoredSize(fd.flags, fd)' \in Int
      BY <3>1 DEF StoredSize, FileDescriptor
    <3>3. Size' \in 0 .. U32 - 1
      BY <3>2, U32Assumption, DivMod DEF Size
    <3> QED BY <2>2, <3>3, U32Assumption DEF Asked
  <2> QED BY <2>1, <2>2, <2>3 DEF AtExit, NoFile
<1>7. CASE EmptyChunk \/ InflateFails
  <2>1. pc \in {"length", "chunk"} /\ UNCHANGED <<call, fds>> /\ InChunks
    BY <1>1, <1>7 DEF EmptyChunk, InflateFails, ToExit, vars, Counted, Branches
  <2> QED BY <2>1 DEF AtExit, InChunks, Compressed, fd
<1>8. CASE Verify
  <2>1. /\ pc = "loop" /\ call.left = 0 /\ pc' = "exit" /\ UNCHANGED <<vars, out>>
        /\ io.status = "idle" /\ call'.index = call.index /\ call'.op = call.op
    BY <1>1, <1>8 DEF Verify, ToExit, SInv, LocalsOK, CallType, PcStatus
  <2>2. Size' = Size /\ (InChunks' <=> InChunks) /\ UNCHANGED <<io, got>>
    BY <1>1, <2>1, SizeKept DEF vars
  <2> SUFFICES ASSUME ~InChunks
               PROVE  Len(got) = Size /\ (out.exists => out.bytes = got)
    BY <1>1, <2>1, <2>2, Types DEF AtExit, Asked
  <2>3. Ahead = 0 /\ InLoop
    BY <2>1 DEF Ahead, InLoop
  <2>4. call.left + Len(got) - 0 = Size /\ got = call.digest
    BY <1>1, <2>1, <2>3 DEF Counted, CopiedSoFar
  <2>5. out.exists => out.bytes = call.digest
    BY <1>1, <2>3 DEF Counted, Summed
  <2> QED BY <1>1, <2>1, <2>4, <2>5, Types
<1>9. CASE pc' = "exit" /\ Ask
  BY <1>9 DEF Ask, Begin
<1>10. CASE /\ pc' = "exit"
            /\ \/ LookupFail \/ Lookup \/ VetFail \/ FollowLink \/ StartReader \/ OpenReader
               \/ NoMemoryForReader \/ ReaderFails \/ OpenOutput \/ AskLength \/ AskData
               \/ AskChunk \/ WriteOutput \/ Exit
  BY <1>10 DEF LookupFail, Lookup, VetFail, FollowLink, StartReader, OpenReader,
     NoMemoryForReader, ReaderFails, OpenOutput, AskLength, AskData, AskChunk, WriteOutput,
     Exit, GiveUp, Answer, At
<1>11. CASE pc' = "exit" /\ FinishRead
  <2>1. pc = "exit" /\ io.status = "reading"
    BY <1>11 DEF FinishRead, ReadDone, locals
  <2> QED BY <1>1, <2>1 DEF SInv, PcStatus
<1> QED BY <1>2, <1>3, <1>4, <1>5, <1>6, <1>7, <1>8, <1>9, <1>10, <1>11 DEF SaveNext, Work

LEMMA NextEInv ==
  ASSUME EInv, [SaveNext]_allVars PROVE EInv'
  BY NextCInv, NotYetOkKept, NextAtExit DEF EInv

LEMMA InitEInv == SaveInit => EInv
  BY InitCInv DEF SaveInit, EInv, NotYetOk, AtExit

(* The size in the cache of a file is the length of its data.              *)
LEMMA SizeOfLaid ==
  ASSUME SInv, NEW i \in Files, i = call.index, pc \notin {"idle", "lookup"}, Laid(i)
  PROVE  Size = Len(Plain(i))
<1>1. IInv /\ Flow /\ cab \in DOMAIN Archives /\ fds[i] # NotRead
  BY DEF SInv, SameFile, StreamInv, IInv, TypeOK
<1>2. KnownAs(i, fds[i]) /\ fd = fds[i]
  BY <1>1 DEF Flow, CacheSound, fd
<1>3. HeadersOK(Archive, i) /\ Archive.files[i] \in FileDescriptor
  BY <1>1, LaidMeans
<1>4. /\ StoredSize(Archive.files[i].flags, Archive.files[i]) = Len(Stored(i))
      /\ Len(Stored(i)) < U32
  BY <1>3 DEF HeadersOK, Stored
<1>5. StoredSize(fd.flags, fd) = StoredSize(Archive.files[i].flags, Archive.files[i])
  BY <1>2 DEF KnownAs, StoredSize
<1>6. Len(Plain(i)) = Len(Stored(i)) /\ Len(Stored(i)) \in Nat
  BY <1>1, PlainMeans, StoredType
<1>7. Len(Stored(i)) % U32 = Len(Stored(i))
  BY <1>4, <1>6, ModSmall
<1> QED BY <1>4, <1>5, <1>6, <1>7 DEF Size

(* A file that is copied as it is, wherever it was cut and however the     *)
(* disk and the memory fail, and whichever volumes are missing, cut short  *)
(* or without headers: while the call works, only the beginning of the     *)
(* data of the file is in its output, and when the call is about to answer *)
(* that all went well, all of it.                                          *)
CopyIsFaithful ==
  pc \in {"loop", "data", "exit"} /\ ~InChunks /\ Laid(call.index) /\ out.exists =>
    /\ Len(out.bytes) <= Len(Plain(call.index))
    /\ \A k \in 1 .. Len(out.bytes) : out.bytes[k] = Plain(call.index)[k]
    /\ pc = "exit" /\ call.ok => out.bytes = Plain(call.index)

THEOREM CopiesFaithfully == SaveSpec => []CopyIsFaithful
<1>1. SaveInit => EInv
  BY InitEInv
<1>2. EInv /\ [SaveNext]_allVars => EInv'
  BY NextEInv
<1>3. ASSUME EInv PROVE CopyIsFaithful
  <2>1. PICK i, b : i = call.index /\ b = out.bytes
    OBVIOUS
  <2>2. SInv /\ Counted /\ Flow /\ b \in Seq(Byte) /\ cab \in DOMAIN Archives
    BY <1>3, <2>1 DEF EInv, CInv, SInv, LocalsOK, StreamInv, IInv, TypeOK
  <2>3. Len(b) \in Nat /\ Len(got) \in Nat /\ io.size \in Nat /\ call.left \in Nat
    BY <2>2, Types, LenProperties DEF IoType
  <2> SUFFICES ASSUME pc \in {"loop", "data", "exit"}, ~InChunks, Laid(i), out.exists
               PROVE  /\ Len(b) <= Len(Plain(i))
                      /\ \A k \in 1 .. Len(b) : b[k] = Plain(i)[k]
                      /\ pc = "exit" /\ call.ok => b = Plain(i)
    BY <2>1 DEF CopyIsFaithful
  <2>4. i \in Files /\ rd.index = i
    BY <2>1, <2>2 DEF SInv, SameFile
  <2>5. Size = Len(Plain(i)) /\ Plain(i) \in Seq(Byte)
    BY <2>1, <2>2, <2>4, SizeOfLaid, PlainMeans
  <2>6. CASE pc \in {"loop", "data"}
    <3>1. Asked <= Size /\ got \in Seq(Byte)
      <4>1. call.left + Len(got) - Ahead = Size
        BY <2>2, <2>6 DEF Counted, CopiedSoFar, InLoop
      <4>2. pc = "data" => io.size <= call.left
        BY <2>2 DEF Counted, Branches
      <4> QED BY <2>2, <2>3, <2>6, <4>1, <4>2, Types DEF Asked, Ahead, SInv, PcStatus
    <3>2. Len(b) <= Len(got) /\ \A k \in 1 .. Len(b) : b[k] = got[k]
      <4>1. b = call.digest
        BY <2>1, <2>2, <2>6 DEF Counted, Summed, InLoop
      <4>2. got = IF pc = "data" /\ io.status = "idle" THEN call.digest \o io.buf ELSE call.digest
        BY <2>2, <2>6 DEF Counted, CopiedSoFar, InLoop
      <4>3. io.buf \in Seq(Byte)
        BY <2>2, Types DEF IoType
      <4>4. CASE got = b
        BY <2>3, <4>4
      <4>5. CASE got = b \o io.buf
        <5>1. Len(got) = Len(b) + Len(io.buf) /\ \A k \in 1 .. Len(b) : got[k] = b[k]
          BY <2>2, <2>3, <4>3, <4>5, ConcatProperties, LenProperties
        <5> QED BY <2>3, <4>3, <5>1, LenProperties
      <4> QED BY <4>1, <4>2, <4>4, <4>5
    <3>3. WithinFile
      BY <2>2, <2>4, <2>5, <2>6, <3>1 DEF WithinFile, SInv, PcStatus
    <3>4. Len(got) <= Len(Plain(i)) /\ \A k \in 1 .. Len(got) : got[k] = Plain(i)[k]
      <4>1. Len(got) <= Asked
        BY <2>3 DEF Asked
      <4> QED BY <2>2, <2>3, <2>4, <2>5, <3>1, <3>3, <4>1 DEF Flow, Delivered, Asked
    <3> QED BY <2>3, <2>5, <2>6, <3>2, <3>4, LenProperties
  <2>7. CASE pc = "exit"
    <3>1. /\ Asked <= Size
          /\ Len(b) <= Len(got) /\ \A k \in 1 .. Len(b) : b[k] = got[k]
          /\ call.ok => Len(got) = Size /\ b = got
      BY <1>3, <2>1, <2>7 DEF EInv, AtExit
    <3>2. WithinFile
      BY <2>2, <2>4, <2>5, <2>7, <3>1 DEF WithinFile, SInv, PcStatus
    <3>3. \A k \in 1 .. Len(got) : got[k] = Plain(i)[k]
      BY <2>2, <2>4, <3>2 DEF Flow, Delivered
    <3>4. Len(got) <= Size
      BY <2>3, <2>5, <3>1, LenProperties DEF Asked
    <3>5. call.ok => b = Plain(i)
      BY <2>2, <2>5, <3>1, <3>3, SeqEqual
    <3> QED BY <2>3, <2>5, <3>1, <3>3, <3>4, <3>5, LenProperties
  <2> QED BY <2>6, <2>7
<1>4. EInv => CopyIsFaithful
  BY <1>3
<1> QED BY <1>1, <1>2, <1>4, PTL DEF SaveSpec
=============================================================================
