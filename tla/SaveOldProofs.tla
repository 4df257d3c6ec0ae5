---------------------------- MODULE SaveOldProofs ----------------------------
(***************************************************************************)
(* What holds of unshield_file_save_old for all archives, buffer sizes and *)
(* widths of the counters: which bytes it writes, which files it extracts, *)
(* and that it keeps the promise of Extraction.                            *)
(***************************************************************************)
EXTENDS SaveOld, ExtractionProofs

(* Where the call is decides what the reader does, and the reader reads    *)
(* the file that the call is about.                                        *)
OldStatus ==
  /\ pc \in {"idle", "lookup", "vet", "external"} <=> io.status = "none"
  /\ pc = "create" <=> io.status = "opening"
  /\ pc \in {"check", "open", "loop", "fill", "undefined"} => io.status = "idle"
  /\ pc \in {"part", "data"} => io.status \in {"idle", "reading"}
  /\ pc = "exit" => io.status \in {"idle", "failed"}
OldFile ==
  /\ pc \notin {"idle", "lookup"} => call.index \in Files /\ fds[call.index] # NotRead
  /\ pc \notin {"idle", "lookup", "vet", "external"} => rd.index = call.index

OldOp == {"save", "old"}    \* "save" only before the first call
OldCall ==
  [op : OldOp, asked : Int, index : Int, sink : Sink, left : 0 .. U32 - 1,
   total : Nat, digest : Seq(Byte), ok : BOOLEAN, fault : BOOLEAN]
OldAnswer ==
  [op : OldOp, asked : Int, sink : Sink, ok : BOOLEAN, fault : BOOLEAN, bytes : Seq(Byte)]
OldLocals ==
  /\ pc \in {"idle", "lookup", "vet", "create", "check", "external", "open", "loop", "fill",
             "part", "data", "undefined", "exit"}
  /\ call \in OldCall
  /\ out \in [exists : BOOLEAN, bytes : Seq(Byte)]
  /\ log \in Seq(OldAnswer)
  /\ input \in Seq(Byte)

(* Nothing of a part is left when the next one is read, and a part is read *)
(* in one go.                                                              *)
InputTaken ==
  input # <<>> =>
    \/ pc = "part" /\ io.status = "idle"
    \/ pc = "loop" /\ call.left = 0
    \/ pc \in {"undefined", "exit"}
PartIsRead ==
  pc = "part" =>
    IF io.status = "reading" THEN io.buf = <<>> /\ io.left = rd.left /\ io.size = rd.left
    ELSE rd.left = 0

WorkLeft == pc \in {"fill", "data"} => call.left > 0

OldControl == OldStatus /\ OldFile /\ InputTaken /\ PartIsRead /\ WorkLeft
OInv == StreamInv /\ OldLocals /\ OldControl
-----------------------------------------------------------------------------
(* The output so far.                                                      *)
NothingOut ==
  pc \in {"lookup", "vet", "create", "check", "external", "open"} =>
    call.total = 0 /\ out = NoFile
InOldLoop == pc \in {"loop", "fill", "part", "data"}
OutCounted ==
  InOldLoop => /\ out.exists <=> call.sink = "file"
               /\ IF out.exists THEN Len(out.bytes) = call.total ELSE out.bytes = <<>>
NotOkYet == pc \notin {"idle", "exit"} => ~call.ok

(* A file beside the cabinets is looked for in the volumes before, and     *)
(* found to be missing in the one that it was not put into.                *)
IsBesideFile(i) == i \in BesideFiles[cab]
BesideCache ==
  \A i \in Files : IsBesideFile(i) /\ fds[i] # NotRead =>
    fds[i].volume \in FirstVolume(i) .. Lo(i)
FoundBeside == pc = "check" /\ IsBesideFile(call.index) => rd.src = Lo(call.index)
AtStart == pc \in {"check", "open"} => got = <<>>
FromBeside ==
  /\ pc = "open" => rd.src = ExternalSource
  /\ (pc = "open" \/ InOldLoop) /\ IsBesideFile(call.index) =>
       rd.src = ExternalSource /\ rd.left = Len(Plain(call.index)) - Len(got)

(* The position of the call in the chunks of the file: input is what was   *)
(* read behind the chunks that were taken, or in a file that is copied.    *)
TakenTo(i, k) ==
  /\ Len(got) = StoredAt(i, k) + Len(input) /\ Len(got) <= Len(Plain(i))
  /\ \A j \in 1 .. Len(input) : input[j] = Plain(i)[StoredAt(i, k) + j]
  /\ call.total = ContentAt(i, k) /\ call.left + call.total = Len(Archive.content[i])
ChunksTaken ==
  pc \in {"loop", "fill", "part"} /\ OldSound(call.index) /\ Compressed =>
    \E k \in 1 .. ChunkCount(call.index) + 1 : TakenTo(call.index, k)
CopiedTo(i) ==
  /\ call.left + call.total = Len(Plain(i))
  /\ IF pc = "data" /\ io.status = "idle"
     THEN /\ Len(got) = call.total + Len(io.buf) /\ Len(io.buf) <= call.left
          /\ \A j \in 1 .. Len(io.buf) : io.buf[j] = Plain(i)[call.total + j]
     ELSE Len(got) = call.total
  /\ pc = "data" => io.size = NextSize
BytesCopied ==
  pc \in {"loop", "fill", "data"} /\ OldSound(call.index) /\ ~Compressed => CopiedTo(call.index)

(* A read begins where something is left in the volume.                    *)
SomethingThere ==
  /\ OldSound(call.index)
  /\ \/ pc = "fill"
     \/ pc \in {"part", "data"} /\ io.status = "reading" /\ io.buf = <<>>
  => rd.left # 0
PartWithin ==
  pc = "part" /\ io.status = "reading" /\ OldSound(call.index) =>
    Len(got) + io.size <= Len(Plain(call.index))

(* Parts are read of compressed files, and blocks of the others.           *)
ByKind == (pc = "part" => Compressed) /\ (pc = "data" => ~Compressed)

(* Where the call and the reader are in a file that can be extracted.      *)
Position ==
  FromBeside /\ ByKind /\ ChunksTaken /\ BytesCopied /\ SomethingThere /\ PartWithin

(* What the end of a call knows.                                           *)
Extractable(i) == (i \in InWholeChunks[cab] /\ ~AtEndOfVolume(i)) \/ IsBesideFile(i)
Missed == pc = "external" /\ Extractable(call.index) => IsBesideFile(call.index)
OldInnocent(l) == IsLegal(l.asked) /\ ~l.fault /\ Extractable(Target(l.asked))
OldExitExplained == pc = "exit" /\ OldInnocent(call) => call.ok
OldAnswersExplained == \A k \in DOMAIN log : OldInnocent(log[k]) => log[k].ok
SearchInside == pc = "undefined" => call.index \notin InWholeChunks[cab] \cup BesideFiles[cab]
OldAccepted == pc = "exit" /\ call.ok => OldPromise!Acceptable

YInv ==
  /\ OInv /\ NothingOut /\ OutCounted /\ NotOkYet
  /\ TrueCache /\ AskedInRange /\ SameEnds /\ Vetted /\ FoundPart
  /\ BesideCache /\ FoundBeside /\ AtStart /\ Position
  /\ OldOutputIsPrefix /\ Missed
  /\ OldExitExplained /\ OldAnswersExplained /\ SearchInside /\ OldAccepted
-----------------------------------------------------------------------------
LEMMA OldTypes ==
  ASSUME OInv
  PROVE  /\ StreamInv /\ IInv /\ cab \in DOMAIN Archives
         /\ call \in OldCall /\ call.index \in Int /\ call.left \in Nat /\ call.total \in Nat
         /\ pc \notin {"idle", "lookup"} => call.index \in Files /\ fd \in FileDescriptor
         /\ io \in IoType /\ io.buf \in Seq(Byte) /\ Len(io.buf) \in Nat
         /\ got \in Seq(Byte) /\ Len(got) \in Nat /\ rd.left \in Nat
         /\ input \in Seq(Byte) /\ Len(input) \in Nat
         /\ out.bytes \in Seq(Byte) /\ out.exists \in BOOLEAN
         /\ call.left > 0 => NextSize \in 1 .. BUFFER_SIZE /\ NextSize <= call.left
<1>1. StreamInv /\ IInv /\ cab \in DOMAIN Archives /\ rd.left \in Nat
  BY InvTypes DEF OInv
<1>2. /\ call \in OldCall /\ call.index \in Int /\ call.left \in 0 .. U32 - 1 /\ call.total \in Nat
      /\ out.bytes \in Seq(Byte) /\ out.exists \in BOOLEAN
  BY DEF OInv, OldLocals, OldCall
<1>3. call.left \in Nat
  BY <1>2, U32Assumption
<1>4. pc \notin {"idle", "lookup"} => call.index \in Files /\ fd \in FileDescriptor
  BY <1>1 DEF OInv, OldControl, OldFile, IInv, TypeOK, fd
<1>5. input \in Seq(Byte) /\ Len(input) \in Nat
  BY LenProperties DEF OInv, OldLocals
<1>6. call.left > 0 => NextSize \in 1 .. BUFFER_SIZE /\ NextSize <= call.left
  BY <1>3, U16Assumption DEF NextSize, BUFFER_SIZE
<1> QED BY <1>1, <1>2, <1>3, <1>4, <1>5, <1>6, InvTypes

(* Every step of a call is a step of the reader, none, or the beginning of *)
(* a read; that of a part has a size that its other clients may not use.   *)
LEMMA OldStepsOfReader ==
  ASSUME OInv, [OldNext]_oldVars
  PROVE  [Next]_vars \/ (pc' = "part" /\ ReadBegin(rd.left))
<1>1. CASE Lookup
  <2>1. io.status = "none"
    BY <1>1 DEF Lookup, At, OInv, OldControl, OldStatus
  <2> QED BY <1>1, <2>1 DEF Lookup, Next, Open
<1>2. CASE StartReader
  <2>1. io.status = "none" /\ call.index \in Files
    BY <1>2 DEF StartReader, At, OInv, OldControl, OldStatus, OldFile
  <2> QED BY <1>2, <2>1 DEF StartReader, Next, Open
<1>3. CASE OpenExternal
  <2>1. io.status = "none" /\ call.index \in Files
    BY <1>3 DEF OpenExternal, At, OInv, OldControl, OldStatus, OldFile
  <2> QED BY <1>3, <2>1 DEF OpenExternal, Next, Open
<1>4. CASE AskCopied
  <2>1. ReadBegin(NextSize) /\ (pc = "fill" \/ call.left > 0)
    BY <1>4 DEF AskCopied, HasVolume
  <2>2. NextSize \in ReadSizes
    BY <2>1, OldTypes, BufferAssumption DEF OInv, OldControl, WorkLeft
  <2> QED BY <2>1, <2>2 DEF Next, Read
<1>5. CASE AskPart
  BY <1>5 DEF AskPart, PartBytes
<1>6. CASE \/ OpenReader \/ ReaderFails \/ ContinueRead \/ ReadFails \/ FinishOldRead \/ ExitOld
           \/ TryExternal \/ OpenNextVolume
  BY <1>6 DEF OpenReader, ReaderFails, ContinueRead, ReadFails, FinishOldRead, FinishRead, ExitOld,
              Exit, TryExternal, OpenNextVolume, Next, Step
<1>7. CASE \/ AskOld \/ LookupFail \/ VetFail \/ FollowLink \/ NoMemoryForReader \/ ExternalFails
           \/ OpenOldOutput \/ OldOutputFails \/ PartDone \/ ChunkEndLost \/ Stray
           \/ DecompressionFails \/ WriteOld \/ WriteOldFails \/ VerifyOld
  BY <1>7 DEF AskOld, BeginOld, Begin, LookupFail, VetFail, FollowLink, NoMemoryForReader,
              ExternalFails, OpenOldOutput, OldOutputFails, PartDone, ChunkEndLost, Stray,
              DecompressionFails, WriteOld, WriteOldFails, VerifyOld
<1>8. CASE UNCHANGED oldVars
  BY <1>8 DEF oldVars, allVars
<1> QED BY <1>1, <1>2, <1>3, <1>4, <1>5, <1>6, <1>7, <1>8 DEF OldNext, OldWork, Shared
-----------------------------------------------------------------------------
(* Where a call goes, and the reader with it.                              *)
LEMMA OldControlOfLookups ==
  ASSUME OInv, \/ AskOld \/ ExternalFails
               \/ (LookupFail \/ Lookup \/ VetFail \/ FollowLink \/ NoMemoryForReader) /\ UNCHANGED input
  PROVE  OldControl'
<1>0. OldControl /\ pc \in {"idle", "lookup", "vet", "external"} => input = <<>>
  BY DEF OInv, OldControl, InputTaken
<1>1. CASE AskOld
  <2>1. pc = "idle" /\ pc' = "lookup" /\ UNCHANGED <<io, input>>
    BY <1>1 DEF AskOld, BeginOld, Begin, vars
  <2> QED BY <1>0, <2>1
      DEF OInv, OldControl, OldStatus, OldFile, InputTaken, PartIsRead, WorkLeft
<1>2. CASE ExternalFails \/ ((LookupFail \/ VetFail \/ NoMemoryForReader) /\ UNCHANGED input)
  <2>1. pc \in {"lookup", "vet", "external"} /\ pc' = "idle" /\ UNCHANGED <<io, input>>
    BY <1>2 DEF LookupFail, VetFail, NoMemoryForReader, ExternalFails, GiveUp, Answer, vars
  <2> QED BY <1>0, <2>1
      DEF OInv, OldControl, OldStatus, OldFile, InputTaken, PartIsRead, WorkLeft
<1>3. CASE FollowLink /\ UNCHANGED input
  <2>1. pc = "vet" /\ pc' = "lookup" /\ UNCHANGED <<io, input>>
    BY <1>3 DEF FollowLink, At, vars
  <2> QED BY <1>0, <2>1
      DEF OInv, OldControl, OldStatus, OldFile, InputTaken, PartIsRead, WorkLeft
<1>4. CASE Lookup /\ UNCHANGED input
  <2>1. /\ pc = "lookup" /\ pc' = "vet" /\ call.index \in Files /\ UNCHANGED <<cab, io, call, input>>
        /\ fds' = [fds EXCEPT ![call.index] = Descriptor(call.index)]
    BY <1>4 DEF Lookup, At, GetFileDescriptor
  <2>2. IInv
    BY OldTypes
  <2>3. Descriptor(call.index) # NotRead /\ fds \in [Files -> FileDescriptor \cup {NotRead}]
    BY <2>1, <2>2, ReadFileDescriptorType, NotReadAssumption DEF Descriptor, IInv, TypeOK
  <2>4. fds'[call.index] # NotRead /\ Files' = Files
    BY <2>1, <2>3, SameArchive
  <2> QED BY <1>0, <2>1, <2>4
      DEF OInv, OldControl, OldStatus, OldFile, InputTaken, PartIsRead, WorkLeft
<1> QED BY <1>1, <1>2, <1>3, <1>4

LEMMA OldControlOfReader ==
  ASSUME OInv, IInv',
         \/ TryExternal \/ OpenExternal \/ ExitOld
         \/ (StartReader \/ OpenReader \/ ReaderFails) /\ UNCHANGED input
  PROVE  OldControl'
<1>0. StreamInv /\ (pc \in {"vet", "create", "check", "external"} => input = <<>>)
  BY DEF OInv, OldControl, InputTaken
<1>2. io'.status # "none" => rd'.index \in Files' /\ fds'[rd'.index] # NotRead
  BY DEF IInv, TypeOK
<1>3. CASE StartReader /\ UNCHANGED input
  <2>1. /\ pc = "vet" /\ pc' = "create" /\ rd' = [NoReader EXCEPT !.index = call.index]
        /\ io' = NoCall("opening") /\ UNCHANGED <<call, input>>
    BY <1>3 DEF StartReader, At, CreateBegin
  <2>2. rd'.index = call.index /\ io'.status = "opening"
    BY <2>1 DEF NoReader, NoCall
  <2> QED BY <1>0, <1>2, <2>1, <2>2 DEF OldControl, OldStatus, OldFile, InputTaken, PartIsRead, WorkLeft
<1>4. CASE OpenReader /\ UNCHANGED input
  <2>1. /\ pc = "create" /\ pc' = IF io'.status = "idle" THEN "check" ELSE "create"
        /\ UNCHANGED <<call, input>> /\ CreateOpen
    BY <1>4 DEF OpenReader
  <2>2. io'.status \in {"opening", "idle"} /\ rd'.index = rd.index
    BY <1>0, <2>1, CreateOpenFacts
  <2>3. rd.index = call.index
    BY <2>1 DEF OInv, OldControl, OldFile
  <2> QED BY <1>0, <1>2, <2>1, <2>2, <2>3
      DEF OldControl, OldStatus, OldFile, InputTaken, PartIsRead, WorkLeft
<1>5. CASE ExitOld \/ (ReaderFails /\ UNCHANGED input)
  <2>1. pc' = "idle" /\ io' = NoCall("none") /\ input' = <<>>
    BY <1>0, <1>5 DEF ReaderFails, ExitOld, Exit, CreateFail, Destroy, GiveUp, Answer, OInv, OldControl, OldStatus
  <2> QED BY <2>1 DEF OldControl, OldStatus, OldFile, InputTaken, PartIsRead, WorkLeft, NoCall
<1>6. CASE TryExternal
  <2>1. /\ pc = "check" /\ pc' = "external" /\ io' = NoCall("none")
        /\ UNCHANGED <<cab, fds, call, input>>
    BY <1>6 DEF TryExternal, At, Destroy
  <2>2. Files' = Files
    BY <2>1, SameArchive
  <2> QED BY <1>0, <2>1, <2>2
      DEF OInv, OldControl, OldStatus, OldFile, InputTaken, PartIsRead, WorkLeft, NoCall
<1>7. CASE OpenExternal
  <2>1. /\ pc = "external" /\ pc' = "open" /\ io' = NoCall("idle") /\ UNCHANGED <<call, input>>
        /\ rd'.index = call.index
    BY <1>7 DEF OpenExternal, At, CreateExternal, NoReader
  <2> QED BY <1>0, <1>2, <2>1
      DEF OInv, OldControl, OldStatus, OldFile, InputTaken, PartIsRead, WorkLeft, NoCall
<1> QED BY <1>3, <1>4, <1>5, <1>6, <1>7

LEMMA OldControlOfReads ==
  ASSUME OInv, IInv',
         \/ OpenNextVolume \/ AskPart \/ AskCopied \/ FinishOldRead
         \/ (ContinueRead \/ ReadFails) /\ UNCHANGED input
  PROVE  OldControl'
<1>0. /\ StreamInv /\ IInv /\ OldControl /\ rd.left \in Nat
      /\ (pc = "loop" /\ call.left > 0 => input = <<>>)
      /\ (pc \in {"fill", "data"} \/ (pc = "part" /\ io.status = "reading") => input = <<>>)
  BY OldTypes DEF OInv, OldControl, InputTaken, WorkLeft
<1>2. io'.status # "none" => rd'.index \in Files' /\ fds'[rd'.index] # NotRead
  BY DEF IInv, TypeOK
<1>3. CASE OpenNextVolume
  <2>1. /\ pc = "loop" /\ call.left > 0 /\ io.status = "idle" /\ UNCHANGED <<call, input>>
        /\ OpensNext(NoCall("idle"), NoCall("failed"))
        /\ pc' = IF io'.status = "failed" THEN "exit" ELSE "fill"
    BY <1>3 DEF OpenNextVolume, OpenNext
  <2>2. rd'.index = rd.index /\ io' \in {NoCall("idle"), NoCall("failed")}
    BY <1>0, <2>1, OpensNextReader
  <2>3. io'.status \in {"idle", "failed"} /\ rd.index = call.index
    BY <1>0, <2>1, <2>2 DEF NoCall, OldControl, OldFile
  <2> QED BY <1>0, <1>2, <2>1, <2>2, <2>3
      DEF OldControl, OldStatus, OldFile, InputTaken, PartIsRead, WorkLeft
<1>4. CASE AskPart \/ AskCopied
  <2>1. PICK n : ReadBegin(n) /\ (pc' = "part" => n = rd.left)
    BY <1>4 DEF AskPart, AskCopied, PartBytes
  <2>2. /\ pc = "fill" \/ (pc = "loop" /\ call.left > 0)
        /\ pc' \in {"part", "data"}
        /\ UNCHANGED <<rd, call, input>>
    BY <1>4, <2>1 DEF AskPart, AskCopied, HasVolume, ReadBegin
  <2>3. io'.status = "reading" /\ io'.size = n /\ io'.left = n /\ io'.buf = <<>>
    BY <2>1 DEF ReadBegin
  <2>4. rd.index = call.index /\ call.left > 0 /\ input = <<>>
    BY <1>0, <2>2 DEF OldControl, OldFile, WorkLeft
  <2> QED BY <1>2, <2>1, <2>2, <2>3, <2>4
      DEF OldControl, OldStatus, OldFile, InputTaken, PartIsRead, WorkLeft
<1>5. CASE ContinueRead /\ UNCHANGED input
  <2>1. /\ io.status = "reading" /\ io'.status \in {"reading", "failed"} /\ io'.size = io.size
        /\ rd'.index = rd.index /\ UNCHANGED <<call, input>>
        /\ pc' = IF io'.status = "failed" THEN "exit" ELSE pc
    BY <1>0, <1>5, ReadAcrossFacts DEF ContinueRead
  <2>2. pc \in {"part", "data"}
    BY <1>0, <2>1 DEF OInv, OldLocals, OldControl, OldStatus
  <2>3. pc # "part"
    <3>1. BytesToRead < io.left
      BY <1>5 DEF ContinueRead, ReadAcross
    <3> QED BY <1>0, <2>1, <3>1 DEF BytesToRead, OldControl, PartIsRead
  <2>4. rd.index = call.index
    BY <1>0, <2>2 DEF OldControl, OldFile
  <2> QED BY <1>0, <1>2, <2>1, <2>2, <2>3, <2>4
      DEF OldControl, OldStatus, OldFile, InputTaken, PartIsRead, WorkLeft
<1>6. CASE ReadFails /\ UNCHANGED input
  <2>1. /\ io.status = "reading" /\ io'.status = "failed" /\ pc' = "exit" /\ UNCHANGED <<rd, call, input>>
    BY <1>0, <1>6, InvTypes DEF ReadFails, ReadFail, ToExit, IoType
  <2>2. pc \in {"part", "data"}
    BY <1>0, <2>1 DEF OInv, OldLocals, OldControl, OldStatus
  <2>3. rd.index = call.index
    BY <1>0, <2>2 DEF OldControl, OldFile
  <2> QED BY <1>0, <1>2, <2>1, <2>2, <2>3
      DEF OldControl, OldStatus, OldFile, InputTaken, PartIsRead, WorkLeft
<1>7. CASE FinishOldRead
  <2>1. PICK full : full = io.buf \o Fread
    OBVIOUS
  <2>2. ReadDone /\ UNCHANGED <<pc, call>> /\ input' = IF pc = "part" THEN io'.buf ELSE <<>>
    BY <1>7 DEF FinishOldRead, FinishRead, locals
  <2>3. /\ io.status = "reading" /\ io'.status = "idle" /\ rd'.index = rd.index
        /\ rd'.left = rd.left - io.left
    BY <1>0, <2>1, <2>2, DoneParts
  <2>4. pc \in {"part", "data"}
    BY <1>0, <2>3 DEF OInv, OldLocals, OldControl, OldStatus
  <2>5. rd.index = call.index
    BY <1>0, <2>4 DEF OldControl, OldFile
  <2>6. pc = "part" => rd'.left = 0
    BY <1>0, <2>3 DEF OldControl, PartIsRead
  <2> QED BY <1>0, <1>2, <2>2, <2>3, <2>4, <2>5, <2>6
      DEF OldControl, OldStatus, OldFile, InputTaken, PartIsRead, WorkLeft
<1> QED BY <1>3, <1>4, <1>5, <1>6, <1>7

LEMMA OldControlOfOthers ==
  ASSUME OInv, \/ OpenOldOutput \/ OldOutputFails \/ PartDone \/ ChunkEndLost \/ Stray
               \/ DecompressionFails \/ WriteOld \/ WriteOldFails \/ VerifyOld \/ UNCHANGED oldVars
  PROVE  OldControl'
<1>0. OldControl /\ call \in OldCall
  BY OldTypes DEF OInv
<1>1. UNCHANGED vars /\ call'.index = call.index
  BY <1>0 DEF OpenOldOutput, OldOutputFails, PartDone, ChunkEndLost, Stray, DecompressionFails,
         WriteOld, WriteOldFails, VerifyOld, oldVars, allVars, locals, ToExit, OldCall
<1>2. UNCHANGED <<rd, io, fds>> /\ Files' = Files
  BY <1>1, SameArchive DEF vars
<1>3. CASE UNCHANGED oldVars
  BY <1>0, <1>2, <1>3
     DEF oldVars, allVars, locals, OldControl, OldStatus, OldFile, InputTaken, PartIsRead, WorkLeft
<1>4. CASE OpenOldOutput \/ OldOutputFails
  <2>1. pc \in {"check", "open"} /\ pc' \in {"exit", "loop"} /\ UNCHANGED input
    BY <1>4 DEF OpenOldOutput, OldOutputFails, ToExit, OutputDue
  <2> QED BY <1>0, <1>1, <1>2, <2>1
      DEF OldControl, OldStatus, OldFile, InputTaken, PartIsRead, WorkLeft
<1>5. CASE PartDone
  <2>1. /\ pc = "part" /\ io.status = "idle" /\ pc' = "loop" /\ UNCHANGED <<input, call>>
        /\ input = <<>> \/ ~(call.left > 0)
    BY <1>5 DEF PartDone, InPart, HasChunk
  <2>2. call.left \in Nat
    BY OldTypes
  <2> QED BY <1>0, <1>1, <1>2, <2>1, <2>2
      DEF OldControl, OldStatus, OldFile, InputTaken, PartIsRead, WorkLeft
<1>6. CASE \/ ChunkEndLost \/ Stray \/ DecompressionFails \/ WriteOldFails \/ VerifyOld
  <2>1. /\ pc \in {"part", "data", "loop"} /\ io.status = "idle"
        /\ pc' \in {"exit", "undefined"}
    BY <1>0, <1>6 DEF ChunkEndLost, Stray, DecompressionFails, WriteOldFails, VerifyOld, HasChunk, InPart,
       WriteChunk, WriteCopied, ToExit, OldControl, OldStatus
  <2> QED BY <1>0, <1>1, <1>2, <2>1
      DEF OldControl, OldStatus, OldFile, InputTaken, PartIsRead, WorkLeft
<1>7. CASE WriteOld
  <2>1. /\ pc \in {"part", "data"} /\ io.status = "idle"
        /\ pc' = IF pc = "part" THEN "part" ELSE "loop"
        /\ pc = "data" => input' = input
    BY <1>7 DEF WriteOld, HasChunk, InPart, WriteChunk, WriteCopied, InputAfter
  <2> QED BY <1>0, <1>1, <1>2, <2>1
      DEF OldControl, OldStatus, OldFile, InputTaken, PartIsRead, WorkLeft
<1> QED BY <1>3, <1>4, <1>5, <1>6, <1>7

-----------------------------------------------------------------------------
(* Parts of a sequence, and the first of some positions.                   *)
LEMMA FirstOf ==
  ASSUME NEW s \in Seq(Byte), NEW k \in 0 .. Len(s), NEW t, t = SubSeq(s, 1, k)
  PROVE  t \in Seq(Byte) /\ Len(t) = k /\ \A j \in 1 .. k : t[j] = s[j]
<1>1. Len(s) \in Nat
  BY LenProperties
<1>2. k \in Nat /\ \A j \in 1 .. k : s[j] \in Byte
  BY <1>1, ElementOfSeq
<1>3. /\ t \in Seq(Byte) /\ Len(t) = (IF 1 <= k THEN k - 1 + 1 ELSE 0)
      /\ \A j \in 1 .. k - 1 + 1 : t[j] = s[1 + j - 1]
  BY <1>2, SubSeqProperties
<1>4. Len(t) = k
  BY <1>2, <1>3
<1>5. ASSUME NEW j \in 1 .. k PROVE t[j] = s[j]
  <2>1. j \in 1 .. k - 1 + 1 /\ 1 + j - 1 = j
    BY <1>2
  <2> QED BY <1>3, <2>1
<1> QED BY <1>3, <1>4, <1>5

LEMMA RestOf ==
  ASSUME NEW s \in Seq(Byte), NEW n \in 1 .. Len(s) + 1, NEW t, t = SubSeq(s, n, Len(s))
  PROVE  /\ t \in Seq(Byte) /\ Len(t) = Len(s) + 1 - n
         /\ \A j \in 1 .. Len(t) : t[j] = s[(n - 1) + j]
<1>1. PICK l : l = Len(s) /\ l \in Nat
  BY LenProperties
<1>2. n \in Nat /\ n >= 1 /\ n <= l + 1
  BY <1>1
<1>3. \A j \in n .. l : s[j] \in Byte
  BY <1>1, <1>2, ElementOfSeq
<1>4. /\ t \in Seq(Byte) /\ Len(t) = (IF n <= l THEN l - n + 1 ELSE 0)
      /\ \A j \in 1 .. l - n + 1 : t[j] = s[n + j - 1]
  BY <1>1, <1>2, <1>3, SubSeqProperties
<1>5. Len(t) = l + 1 - n
  BY <1>1, <1>2, <1>4
<1>6. ASSUME NEW j \in 1 .. Len(t) PROVE t[j] = s[(n - 1) + j]
  <2>1. j \in 1 .. l - n + 1 /\ n + j - 1 = (n - 1) + j
    BY <1>1, <1>2, <1>5
  <2> QED BY <1>4, <2>1
<1> QED BY <1>1, <1>4, <1>5, <1>6

LEMMA MinIs ==
  ASSUME NEW T \in SUBSET Nat, T # {}
  PROVE  Min(T) \in T /\ \A n \in T : Min(T) <= n
<1>1. \E m \in T : \A n \in T : m <= n
  BY LeastNumber
<1> QED BY <1>1 DEF Min

LEMMA ChunkEndsAre ==
  ASSUME OInv
  PROVE  /\ Markers \subseteq 1 .. Len(input) /\ Markers \subseteq Nat /\ Len(input) \in Nat
         /\ \A q \in Markers : q + 3 <= Len(input)
         /\ ChunkEnds # {} =>
              /\ Min(ChunkEnds) \in ChunkEnds /\ Min(ChunkEnds) \in Nat
              /\ \A q \in ChunkEnds : Min(ChunkEnds) <= q
<1>1. input \in Seq(Byte) /\ Len(input) \in Nat /\ DOMAIN input = 1 .. Len(input)
  BY OldTypes, LenProperties
<1>2. Markers \subseteq 1 .. Len(input)
  BY <1>1 DEF Markers, Matches
<1>3. Len(END_OF_CHUNK) = 4
  BY DEF END_OF_CHUNK
<1>4. \A q \in Markers : q \in Nat /\ q + 3 <= Len(input)
  <2> SUFFICES ASSUME NEW q \in Markers PROVE q \in Nat /\ q + 3 <= Len(input)
    OBVIOUS
  <2>1. q \in 1 .. Len(input)
    BY <1>2
  <2>2. q + 4 - 1 <= Len(input)
    BY <1>3 DEF Markers, Matches, IsMatch
  <2> QED BY <1>1, <2>1, <2>2
<1>5. ChunkEnds \in SUBSET Nat
  BY <1>4 DEF ChunkEnds
<1>6. ChunkEnds # {} => Min(ChunkEnds) \in ChunkEnds /\ \A q \in ChunkEnds : Min(ChunkEnds) <= q
  BY <1>5, MinIs
<1> QED BY <1>1, <1>2, <1>4, <1>5, <1>6

LEMMA InputAfterType ==
  ASSUME OInv, WriteChunk \/ WriteCopied
  PROVE  InputAfter \in Seq(Byte)
<1>1. input \in Seq(Byte)
  BY OldTypes
<1>2. CASE pc # "part"
  BY <1>1, <1>2 DEF InputAfter
<1>3. CASE pc = "part"
  <2>1. ChunkEnds # {}
    BY <1>3 DEF WriteChunk, WriteCopied
  <2>2. PICK m : m = Min(ChunkEnds)
    OBVIOUS
  <2>3. m \in Nat /\ m + 3 <= Len(input) /\ Len(input) \in Nat
    BY <2>1, <2>2, ChunkEndsAre DEF ChunkEnds
  <2>4. m + 4 \in 1 .. Len(input) + 1
    BY <2>3
  <2>5. AfterChunk \in Seq(Byte)
    BY <1>1, <2>2, <2>4, RestOf DEF AfterChunk
  <2> QED BY <1>3, <2>5 DEF InputAfter
<1> QED BY <1>2, <1>3

LEMMA OldOutputType ==
  ASSUME OInv, WriteChunk \/ WriteCopied
  PROVE  /\ OldOutput \in Seq(Byte) /\ Len(OldOutput) \in Nat
         /\ LeftAfterOld \in 0 .. U32 - 1 /\ pc \in {"part", "data"}
<1>1. pc \in {"part", "data"}
  BY DEF WriteChunk, HasChunk, InPart, WriteCopied
<1>2. OldOutput \in Seq(Byte)
  BY <1>1, OldTypes DEF WriteChunk, WriteCopied, InflatesOld, OldOutput
<1>3. Len(OldOutput) \in Nat
  BY <1>2, LenProperties
<1>4. LeftAfterOld \in 0 .. U32 - 1
  <2>1. PICK n : n = call.left - Len(OldOutput)
    OBVIOUS
  <2>2. n \in Int
    BY <1>3, <2>1, OldTypes
  <2>3. LeftAfterOld = n % U32
    BY <2>1 DEF LeftAfterOld
  <2> QED BY <2>2, <2>3, U32Assumption, DivMod
<1> QED BY <1>1, <1>2, <1>3, <1>4

-----------------------------------------------------------------------------
(* The types of the locals.                                                *)
LEMMA OldAnswerLocals ==
  ASSUME OldLocals, NEW c \in OldCall, Answer(c), input' \in Seq(Byte)
  PROVE  OldLocals'
<1> DEFINE a == [op |-> c.op, asked |-> c.asked, sink |-> c.sink, ok |-> c.ok,
                 fault |-> c.fault, bytes |-> out.bytes]
<1>1. pc' = "idle" /\ call' = c /\ log' = Append(log, a) /\ UNCHANGED out
  BY DEF Answer
<1>2. a \in OldAnswer
  BY DEF OldLocals, OldCall, OldAnswer
<1> HIDE DEF a
<1>3. log' \in Seq(OldAnswer)
  BY <1>1, <1>2, AppendProperties DEF OldLocals
<1> QED BY <1>1, <1>3 DEF OldLocals

LEMMA OldLookupLocals ==
  ASSUME OInv, \/ AskOld \/ ExternalFails \/ OpenExternal \/ TryExternal \/ ExitOld
               \/ /\ \/ LookupFail \/ Lookup \/ VetFail \/ FollowLink \/ StartReader
                     \/ NoMemoryForReader \/ OpenReader \/ ReaderFails
                  /\ UNCHANGED input
  PROVE  OldLocals'
<1>1. OldLocals /\ input \in Seq(Byte) /\ <<>> \in Seq(Byte)
  BY OldTypes DEF OInv
<1>2. CASE LookupFail \/ VetFail \/ NoMemoryForReader \/ ReaderFails
  <2>1. PICK c \in OldCall : Answer(c)
    <3>1. call \in OldCall /\ [call EXCEPT !.fault = TRUE] \in OldCall
      BY <1>1 DEF OldLocals, OldCall
    <3> QED BY <1>2, <3>1 DEF LookupFail, VetFail, NoMemoryForReader, ReaderFails, GiveUp
  <2>2. UNCHANGED input
    BY <1>2 DEF LookupFail, VetFail, NoMemoryForReader, ReaderFails, ExternalFails, AskOld,
       BeginOld, OpenExternal, TryExternal, ExitOld, Exit, At, Begin
  <2> QED BY <1>1, <2>1, <2>2, OldAnswerLocals
<1>3. CASE ExternalFails \/ ExitOld
  <2>1. PICK c \in OldCall : Answer(c)
    <3>1. call \in OldCall /\ [call EXCEPT !.fault = TRUE] \in OldCall
      BY <1>1 DEF OldLocals, OldCall
    <3> QED BY <1>3, <3>1 DEF ExternalFails, ExitOld, Exit, GiveUp
  <2>2. input' \in {input, <<>>}
    BY <1>3 DEF ExternalFails, ExitOld
  <2> QED BY <1>1, <2>1, <2>2, OldAnswerLocals
<1>4. CASE AskOld
  <2>1. PICK i \in Files \cup {-1, Archive.count}, sink \in Sink : BeginOld(i, sink)
    BY <1>4 DEF AskOld
  <2>2. i \in Int
    <3>1. Archive.count \in Int /\ Files \subseteq Int
      BY OldTypes, ArchiveType, FilesAreNat
    <3> QED BY <3>1
  <2>3. NewCall("old", i, sink) \in OldCall
    <3>1. 0 \in 0 .. U32 - 1 /\ <<>> \in Seq(Byte)
      BY U32Assumption
    <3> QED BY <2>2, <3>1 DEF NewCall, OldCall, OldOp
  <2>4. /\ pc' = "lookup" /\ call' = NewCall("old", i, sink) /\ out' = NoFile
        /\ UNCHANGED <<log, input>>
    BY <2>1 DEF BeginOld, Begin
  <2> QED BY <1>1, <2>3, <2>4 DEF OldLocals, NoFile
<1>5. CASE FollowLink /\ UNCHANGED input
  <2>1. fd.prev \in Int
    BY <1>5, OldTypes DEF FollowLink, At, FileDescriptor
  <2>2. call' \in OldCall
    BY <1>1, <1>5, <2>1 DEF FollowLink, LinkPrevious, OldLocals, OldCall
  <2>3. pc' = "lookup" /\ UNCHANGED <<out, log, input>>
    BY <1>5 DEF FollowLink, At
  <2> QED BY <1>1, <2>2, <2>3 DEF OldLocals
<1>6. CASE OpenExternal \/ TryExternal \/ ((Lookup \/ StartReader \/ OpenReader) /\ UNCHANGED input)
  <2>1. /\ UNCHANGED <<call, out, log, input>>
        /\ pc' \in {"open", "external", "vet", "create", "check"}
    BY <1>6 DEF OpenExternal, TryExternal, Lookup, StartReader, OpenReader, At
  <2> QED BY <1>1, <2>1 DEF OldLocals
<1> QED BY <1>2, <1>3, <1>4, <1>5, <1>6

LEMMA OldReadLocals ==
  ASSUME OInv, StreamInv',
         \/ OpenOldOutput \/ OldOutputFails \/ OpenNextVolume \/ AskPart \/ AskCopied
         \/ FinishOldRead \/ PartDone \/ ChunkEndLost \/ Stray \/ DecompressionFails \/ VerifyOld
         \/ ((ContinueRead \/ ReadFails) /\ UNCHANGED input) \/ UNCHANGED oldVars
  PROVE  OldLocals'
<1>1. OldLocals
  BY DEF OInv
<1>2. CASE OpenOldOutput
  <2>1. PICK n : n = fd.expanded % U32
    OBVIOUS
  <2>2. n \in 0 .. U32 - 1
    <3>1. fd \in FileDescriptor
      BY <1>2, OldTypes DEF OpenOldOutput, OutputDue
    <3>2. fd.expanded \in Int
      BY <3>1 DEF FileDescriptor
    <3> QED BY <2>1, <3>2, U32Assumption, DivMod
  <2>3. /\ call' = [call EXCEPT !.left = n] /\ pc' = "loop" /\ UNCHANGED <<log, input>>
    BY <1>2, <2>1 DEF OpenOldOutput
  <2>4. call' \in OldCall
    BY <1>1, <2>2, <2>3 DEF OldLocals, OldCall
  <2>5. out' \in [exists : BOOLEAN, bytes : Seq(Byte)]
    <3>1. out' = [exists |-> (call.sink = "file"), bytes |-> <<>>]
      BY <1>2 DEF OpenOldOutput, NoFile
    <3>2. (call.sink = "file") \in BOOLEAN /\ <<>> \in Seq(Byte)
      OBVIOUS
    <3> QED BY <3>1, <3>2
  <2> QED BY <1>1, <2>3, <2>4, <2>5 DEF OldLocals
<1>3. CASE OldOutputFails \/ ChunkEndLost \/ DecompressionFails \/ VerifyOld
           \/ (ReadFails /\ UNCHANGED input)
  <2>1. PICK c \in OldCall : ToExit(c) /\ UNCHANGED <<out, log, input>>
    <3>1. /\ call \in OldCall /\ [call EXCEPT !.fault = TRUE] \in OldCall
          /\ [call EXCEPT !.ok = RightSize] \in OldCall
      BY <1>1 DEF OldLocals, OldCall, RightSize
    <3> QED BY <1>3, <3>1 DEF OldOutputFails, ChunkEndLost, DecompressionFails, VerifyOld, ReadFails
  <2> QED BY <1>1, <2>1 DEF ToExit, OldLocals
<1>4. CASE \/ AskPart \/ AskCopied \/ OpenNextVolume \/ PartDone \/ Stray \/ UNCHANGED oldVars
           \/ (ContinueRead /\ UNCHANGED input)
  <2>1. /\ UNCHANGED <<call, out, log, input>>
        /\ pc' \in {pc, "part", "data", "exit", "fill", "loop", "undefined"}
    BY <1>4 DEF AskPart, AskCopied, OpenNextVolume, PartDone, Stray, ContinueRead, oldVars, allVars,
       locals
  <2>2. pc' \in {"idle", "lookup", "vet", "create", "check", "external", "open", "loop", "fill",
                 "part", "data", "undefined", "exit"}
    <3>1. CASE pc' = pc
      BY <1>1, <3>1 DEF OldLocals
    <3>2. CASE pc' # pc
      BY <2>1, <3>2
    <3> QED BY <3>1, <3>2
  <2> QED BY <1>1, <2>1, <2>2 DEF OldLocals
<1>5. CASE FinishOldRead
  <2>1. UNCHANGED locals /\ input' \in {io'.buf, <<>>}
    BY <1>5 DEF FinishOldRead, FinishRead
  <2>2. io'.buf \in Seq(Byte) /\ <<>> \in Seq(Byte)
    BY DEF StreamInv, IInv, TypeOK
  <2> QED BY <1>1, <2>1, <2>2 DEF OldLocals, locals
<1> QED BY <1>2, <1>3, <1>4, <1>5

(* The bytes that a step writes, all of them or some.                      *)
LEMMA WritesOld ==
  ASSUME OInv, WriteOld \/ WriteOldFails
  PROVE  /\ WriteChunk \/ WriteCopied
         /\ pc \in {"part", "data"} /\ pc' \in {"part", "loop", "exit"}
         /\ out'.exists <=> out.exists
         /\ ~out.exists => out'.bytes = out.bytes
         /\ out.exists =>
              \E s \in Seq(Byte) :
                /\ Len(s) <= Len(OldOutput) /\ Agree(s, OldOutput)
                /\ out'.bytes = out.bytes \o s
                /\ WriteOld => s = OldOutput
         /\ out' \in [exists : BOOLEAN, bytes : Seq(Byte)]
<1>1. /\ (WriteChunk \/ WriteCopied) /\ pc \in {"part", "data"} /\ pc' \in {"part", "loop", "exit"}
      /\ out \in [exists : BOOLEAN, bytes : Seq(Byte)]
  BY OldOutputType DEF WriteOld, WriteOldFails, ToExit, OInv, OldLocals
<1>2. PICK o : o = OldOutput /\ o \in Seq(Byte) /\ Len(o) \in Nat
  BY <1>1, OldOutputType
<1>3. CASE WriteOld
  <2>1. out' = IF out.exists THEN [out EXCEPT !.bytes = @ \o o] ELSE out
    BY <1>2, <1>3 DEF WriteOld
  <2>2. Len(o) <= Len(o) /\ Agree(o, o)
    BY <1>2 DEF Agree
  <2>3. out.bytes \o o \in Seq(Byte)
    BY <1>1, <1>2, ConcatProperties
  <2>4. CASE out.exists
    <3>1. out' = [out EXCEPT !.bytes = @ \o o]
      BY <2>1, <2>4
    <3>2. out'.exists /\ out'.bytes = out.bytes \o o /\ out' \in [exists : BOOLEAN, bytes : Seq(Byte)]
      BY <1>1, <2>3, <2>4, <3>1
    <3> QED BY <1>1, <1>2, <2>2, <2>4, <3>2
  <2>5. CASE ~out.exists
    BY <1>1, <2>1, <2>5
  <2> QED BY <2>4, <2>5
<1>4. CASE WriteOldFails /\ ~WriteOld
  <2>1. PICK k \in 0 .. Len(o) - 1 : out' = [out EXCEPT !.bytes = @ \o SubSeq(o, 1, k)]
    BY <1>2, <1>4 DEF WriteOldFails
  <2>2. out.exists
    BY <1>4 DEF WriteOldFails
  <2>3. PICK s : s = SubSeq(o, 1, k)
    OBVIOUS
  <2>4. k \in 0 .. Len(o)
    BY <1>2
  <2>5. s \in Seq(Byte) /\ Len(s) = k /\ \A j \in 1 .. k : s[j] = o[j]
    BY <1>2, <2>3, <2>4, FirstOf
  <2>6. Len(s) <= Len(o) /\ Agree(s, o)
    BY <1>2, <2>4, <2>5 DEF Agree
  <2>7. out.bytes \o s \in Seq(Byte)
    BY <1>1, <2>5, ConcatProperties
  <2>8. out' = [out EXCEPT !.bytes = @ \o s]
    BY <2>1, <2>3
  <2>9. out'.exists /\ out'.bytes = out.bytes \o s /\ out' \in [exists : BOOLEAN, bytes : Seq(Byte)]
    BY <1>1, <2>2, <2>7, <2>8
  <2> QED BY <1>1, <1>2, <1>4, <2>2, <2>5, <2>6, <2>9
<1> QED BY <1>3, <1>4

LEMMA OldWriteLocals ==
  ASSUME OInv, WriteOld \/ WriteOldFails
  PROVE  OldLocals'
<1>1. OldLocals /\ out' \in [exists : BOOLEAN, bytes : Seq(Byte)] /\ pc' \in {"part", "loop", "exit"}
  BY WritesOld DEF OInv
<1>2. PICK o, n : o = OldOutput /\ n = LeftAfterOld
  OBVIOUS
<1>3. n \in 0 .. U32 - 1 /\ Len(o) \in Nat /\ InputAfter \in Seq(Byte)
  BY <1>2, WritesOld, OldOutputType, InputAfterType
<1>4. input' \in Seq(Byte) /\ UNCHANGED log
  BY <1>3 DEF WriteOld, WriteOldFails
<1>5. PICK t : t = call.total + Len(o) /\ t \in Nat
  BY <1>3, OldTypes
<1>6. call' \in OldCall
  <2>1. CASE WriteOld
    <3>1. call' = [call EXCEPT !.left = n, !.total = t]
      BY <1>2, <1>5, <2>1 DEF WriteOld
    <3> QED BY <1>1, <1>3, <1>5, <3>1 DEF OldLocals, OldCall
  <2>2. CASE WriteOldFails
    <3>1. call' = [call EXCEPT !.left = n, !.fault = TRUE]
      BY <1>2, <2>2 DEF WriteOldFails, ToExit
    <3> QED BY <1>1, <1>3, <3>1 DEF OldLocals, OldCall
  <2> QED BY <2>1, <2>2
<1> QED BY <1>1, <1>4, <1>6 DEF OldLocals

LEMMA NextOInv ==
  ASSUME OInv, [OldNext]_oldVars PROVE OInv'
<1>1. StreamInv' /\ IInv'
  <2>1. rd.left \in Nat
    BY OldTypes
  <2>2. StreamInv /\ ([Next]_vars \/ \E n \in Nat : ReadBegin(n))
    BY <2>1, OldStepsOfReader DEF OInv
  <2> QED BY <2>2, AnyReadStream DEF StreamInv
<1>2. OldControl'
  BY <1>1, OldControlOfLookups, OldControlOfReader, OldControlOfReads, OldControlOfOthers
     DEF OldNext, OldWork, Shared
<1>3. OldLocals'
  BY <1>1, OldLookupLocals, OldReadLocals, OldWriteLocals DEF OldNext, OldWork, Shared
<1> QED BY <1>1, <1>2, <1>3 DEF OInv

LEMMA InitOInv == OldInit => OInv
<1> SUFFICES ASSUME OldInit PROVE OInv
  OBVIOUS
<1>1. StreamInv
  BY InitIInv, InitFlow DEF OldInit, SaveInit, StreamInv, Init, NoCall, SeedFollowsStream
<1>2. 0 \in 0 .. U32 - 1 /\ <<>> \in Seq(Byte) /\ <<>> \in Seq(OldAnswer)
  BY U32Assumption
<1>3. OldLocals
  BY <1>2 DEF OldInit, SaveInit, OldLocals, NewCall, OldCall, OldOp, Sink, NoFile
<1>4. OldControl
  BY DEF OldInit, SaveInit, Init, NoCall, OldControl, OldStatus, OldFile, InputTaken, PartIsRead,
     WorkLeft
<1> QED BY <1>1, <1>3, <1>4 DEF OInv

-----------------------------------------------------------------------------
(* What a step keeps.                                                      *)
LEMMA OldCab ==
  ASSUME OInv, [OldNext]_oldVars PROVE UNCHANGED cab /\ cab \in DOMAIN Archives
<1>1. CASE [Next]_vars
  BY <1>1, SameCab, OldTypes
<1>2. CASE ReadBegin(rd.left)
  BY <1>2, OldTypes DEF ReadBegin
<1> QED BY <1>1, <1>2, OldStepsOfReader

LEMMA SameOld ==
  ASSUME UNCHANGED cab
  PROVE  \A i : /\ OldSound(i)' <=> OldSound(i)
                /\ IsBesideFile(i)' <=> IsBesideFile(i)
                /\ Extractable(i)' <=> Extractable(i)
                /\ ChunkCount(i)' = ChunkCount(i)
                /\ \A k : StoredAt(i, k)' = StoredAt(i, k) /\ ContentAt(i, k)' = ContentAt(i, k)
<1>1. cab' = cab /\ Archive' = Archive /\ \A i : AtEndOfVolume(i)' <=> AtEndOfVolume(i)
  BY SameRequests
<1> QED BY <1>1 DEF OldSound, IsBesideFile, Extractable, StoredAt, ContentAt, ChunkCount

LEMMA NextOldTrueCache ==
  ASSUME OInv, TrueCache, [OldNext]_oldVars PROVE TrueCache'
<1>1. CASE [Next]_vars
  BY <1>1, OldTypes, TrueCacheKept
<1>2. CASE ReadBegin(rd.left)
  <2>1. UNCHANGED <<cab, fds>>
    BY <1>2 DEF ReadBegin
  <2> QED BY <2>1 DEF TrueCache, Files, Archive, ReadFileDescriptor, FromTable
<1> QED BY <1>1, <1>2, OldStepsOfReader

LEMMA OldArguments ==
  ASSUME OInv, [OldNext]_oldVars, ~AskOld
  PROVE  /\ call'.asked = call.asked /\ call'.op = call.op /\ call'.sink = call.sink
         /\ ~FollowLink => call'.index = call.index
<1>1. call \in OldCall
  BY OldTypes
<1>2. CASE LookupFail \/ VetFail \/ NoMemoryForReader \/ ReaderFails \/ ExitOld \/ ExternalFails
  BY <1>1, <1>2 DEF LookupFail, VetFail, NoMemoryForReader, ReaderFails, ExitOld, Exit,
     ExternalFails, GiveUp, Answer, OldCall
<1>3. CASE OldOutputFails \/ ReadFails \/ ChunkEndLost \/ DecompressionFails \/ VerifyOld
  BY <1>1, <1>3 DEF OldOutputFails, ReadFails, ChunkEndLost, DecompressionFails, VerifyOld, ToExit,
     OldCall
<1>4. CASE WriteOld \/ WriteOldFails
  BY <1>1, <1>4 DEF WriteOld, WriteOldFails, ToExit, OldCall
<1>5. CASE OpenOldOutput \/ FollowLink
  BY <1>1, <1>5 DEF OpenOldOutput, FollowLink, OldCall
<1>6. CASE UNCHANGED call
  BY <1>6
<1> QED BY <1>2, <1>3, <1>4, <1>5, <1>6
    DEF OldNext, OldWork, Shared, Lookup, StartReader, OpenReader, ContinueRead, FinishOldRead,
        FinishRead, TryExternal, OpenExternal, OpenNextVolume, AskPart, AskCopied, PartDone, Stray,
        oldVars, allVars, locals

(* The first label of a call that reads is entered from the vetting only.  *)
LEMMA OldVetted ==
  ASSUME OInv, [OldNext]_oldVars, pc' \notin {"idle", "lookup", "vet"}
  PROVE  StartReader \/ pc \notin {"idle", "lookup", "vet"}
<1>1. pc \in {"idle", "lookup", "vet"} => io.status = "none"
  BY DEF OInv, OldControl, OldStatus
<1> QED BY <1>1
    DEF OldNext, OldWork, Shared, AskOld, BeginOld, Begin, LookupFail, Lookup, VetFail, FollowLink,
        NoMemoryForReader, OpenReader, ReaderFails, ContinueRead, ReadFails, TryExternal,
        ExternalFails, OpenExternal, OpenOldOutput, OldOutputFails, OutputDue, OpenNextVolume,
        AskPart, AskCopied, HasVolume, FinishOldRead, FinishRead, PartDone, ChunkEndLost, Stray,
        DecompressionFails, WriteOld, WriteOldFails, WriteChunk, WriteCopied, HasChunk, InPart,
        VerifyOld, ExitOld, Exit, GiveUp, Answer, At, ReadAcross, ReadFail, ReadDone, oldVars,
        allVars, locals

LEMMA NextOldLinks ==
  ASSUME OInv, TrueCache, AskedInRange, SameEnds, Vetted, [OldNext]_oldVars
  PROVE  AskedInRange' /\ SameEnds' /\ Vetted'
<1>1. UNCHANGED cab /\ Archive' = Archive /\ \A i : EndsOf(i)' = EndsOf(i)
  BY OldCab, SameRequests
<1>2. cab \in DOMAIN Archives /\ Archive.count \in Nat /\ call \in OldCall /\ IInv
  BY ArchiveType, OldTypes
<1>3. CASE AskOld
  <2>1. PICK i \in Files \cup {-1, Archive.count}, sink \in Sink : BeginOld(i, sink)
    BY <1>3 DEF AskOld
  <2>2. call'.asked = i /\ call'.index = i /\ pc' = "lookup"
    BY <2>1 DEF BeginOld, Begin, NewCall
  <2>3. i \in -1 .. Archive.count
    BY <1>2 DEF Files
  <2> QED BY <1>1, <2>2, <2>3 DEF AskedInRange, SameEnds, Vetted
<1>4. CASE FollowLink
  <2>0. PICK i \in Files : i = call.index
    BY <1>4, OldTypes DEF FollowLink, At
  <2>1. PICK d, e : i = call.index /\ d = fds[i] /\ e = Archive.files[i]
    BY <2>0
  <2>2. /\ ~IsInvalid(d) /\ d.linked /\ pc' = "lookup" /\ call' = [call EXCEPT !.index = d.prev]
        /\ pc = "vet" /\ d # NotRead
    BY <1>4, <2>1 DEF FollowLink, At, LinkPrevious, fd, OInv, OldControl, OldFile
  <2>3. /\ ~IsInvalid(e) /\ e.linked /\ d.prev = e.prev /\ Archive.version \notin {0, 5}
        /\ i \in DOMAIN Archive.files
    <3>1. /\ i \in DOMAIN Archive.files /\ (IsInvalid(d) <=> IsInvalid(e))
          /\ Archive.version \notin {0, 5} => (d.linked <=> e.linked) /\ d.prev = e.prev
          /\ Archive.version \in {0, 5} => ~d.linked
      BY <1>2, <2>1, <2>2, EntryCached
    <3> QED BY <2>2, <3>1
  <2>4. HasLink(Archive, i)
    BY <2>1, <2>3 DEF HasLink
  <2>5. EndsOf(d.prev) = EndsOf(i)
    BY <2>1, <2>3, <2>4, EndsOfLink
  <2>6. call'.asked = call.asked /\ call'.index = d.prev
    BY <1>2, <2>2 DEF OldCall
  <2> QED BY <1>1, <2>1, <2>2, <2>5, <2>6 DEF AskedInRange, SameEnds, Vetted
<1>5. CASE ~AskOld /\ ~FollowLink
  <2>1. call'.asked = call.asked /\ call'.index = call.index
    BY <1>5, OldArguments
  <2>2. AskedInRange' /\ SameEnds'
    BY <1>1, <2>1 DEF AskedInRange, SameEnds
  <2>3. ASSUME pc' \notin {"idle", "lookup", "vet"}
        PROVE  ~HasLink(Archive, call.index) /\ ~IsInvalid(Archive.files[call.index])
    <3>1. CASE StartReader
      <4>0. PICK i \in Files : i = call.index
        BY <3>1, OldTypes DEF StartReader, At
      <4>1. PICK d, e : i = call.index /\ d = fds[i] /\ e = Archive.files[i]
        BY <4>0
      <4>2. ~IsInvalid(d) /\ ~d.linked /\ d # NotRead
        BY <3>1, <4>1 DEF StartReader, At, fd, OInv, OldControl, OldFile
      <4>3. ~IsInvalid(e) /\ (Archive.version \notin {0, 5} => ~e.linked)
        <5>1. /\ IsInvalid(d) <=> IsInvalid(e)
              /\ Archive.version \notin {0, 5} => (d.linked <=> e.linked)
          BY <1>2, <4>1, <4>2, EntryCached
        <5> QED BY <4>2, <5>1
      <4> QED BY <4>1, <4>3 DEF HasLink
    <3>2. CASE pc \notin {"idle", "lookup", "vet"}
      BY <3>2 DEF Vetted
    <3> QED BY <2>3, <3>1, <3>2, OldVetted
  <2>4. Vetted'
    BY <1>1, <2>1, <2>3 DEF Vetted, HasLink, IsInvalid
  <2> QED BY <2>2, <2>4
<1> QED BY <1>3, <1>4, <1>5

(* What is being read is what was asked for.                               *)
LEMMA OldReadsTarget ==
  ASSUME OInv, AskedInRange, SameEnds, Vetted, pc \notin {"idle", "lookup", "vet"}
  PROVE  /\ Target(call.asked) = call.index /\ IsLegal(call.asked)
         /\ call.index \in Files /\ fds[call.index] # NotRead
<1>1. cab \in DOMAIN Archives /\ call.index \in Files /\ fds[call.index] # NotRead
  BY OldTypes DEF OInv, OldControl, OldFile
<1>2. call.index \in DOMAIN Archive.files
  BY <1>1, ArchiveType
<1>3. Ends(call.asked) = {call.index}
  BY <1>1, <1>2, EndsAre, EndsOfFile DEF AskedInRange, SameEnds, Vetted
<1>4. IsLegal(call.asked)
  BY <1>3 DEF IsLegal, Vetted
<1>5. Target(call.asked) = call.index
  BY <1>3 DEF Target
<1> QED BY <1>1, <1>4, <1>5

-----------------------------------------------------------------------------
(* Which steps lead to a place in the code.                                *)
LEMMA OldLookupSteps ==
  ASSUME OInv, [OldNext]_oldVars,
         pc' \in {"lookup", "vet", "create", "check", "external", "open"}
  PROVE  \/ AskOld \/ Lookup \/ FollowLink \/ StartReader \/ OpenReader \/ TryExternal
         \/ OpenExternal \/ UNCHANGED oldVars
<1>1. ContinueRead \/ FinishOldRead => pc \in {"part", "data"}
  BY DEF ContinueRead, FinishOldRead, FinishRead, ReadAcross, ReadDone, OInv, OldControl, OldStatus,
     OldLocals
<1> QED BY <1>1
    DEF OldNext, OldWork, Shared, LookupFail, VetFail, NoMemoryForReader, ReaderFails, ContinueRead,
        ReadFails, ExternalFails, OpenOldOutput, OldOutputFails, OpenNextVolume, AskPart,
        AskCopied, FinishOldRead, FinishRead, PartDone, ChunkEndLost, Stray, DecompressionFails,
        WriteOld, WriteOldFails, VerifyOld, ExitOld, Exit, GiveUp, Answer, At, ToExit, locals

LEMMA OldLoopSteps ==
  ASSUME OInv, [OldNext]_oldVars, pc' \in {"loop", "fill", "part", "data"}
  PROVE  \/ OpenOldOutput
         \/ pc \in {"loop", "fill", "part", "data"}
            /\ \/ (OpenNextVolume /\ pc' = "fill") \/ AskPart \/ AskCopied
               \/ (ContinueRead /\ UNCHANGED input /\ pc' = pc)
               \/ FinishOldRead \/ PartDone \/ WriteOld \/ UNCHANGED oldVars
<1>1. ContinueRead \/ FinishOldRead => pc \in {"part", "data"}
  BY DEF ContinueRead, FinishOldRead, FinishRead, ReadAcross, ReadDone, OInv, OldControl, OldStatus,
     OldLocals
<1> QED BY <1>1
    DEF OldNext, OldWork, Shared, AskOld, BeginOld, Begin, LookupFail, Lookup, VetFail, FollowLink,
        StartReader, NoMemoryForReader, OpenReader, ReaderFails, ContinueRead, ReadFails,
        TryExternal, ExternalFails, OpenExternal, OldOutputFails, OpenNextVolume, AskPart,
        AskCopied, HasVolume, PartDone, ChunkEndLost, Stray, DecompressionFails, WriteOld,
        WriteOldFails, WriteChunk, WriteCopied, HasChunk, InPart, VerifyOld, ExitOld, Exit, GiveUp,
        Answer, At, ToExit, oldVars, allVars, locals

LEMMA OldExitSteps ==
  ASSUME OInv, [OldNext]_oldVars, pc' \in {"exit", "undefined"}
  PROVE  \/ UNCHANGED oldVars
         \/ pc' = "undefined" /\ Stray
         \/ pc' = "exit" /\ \/ OldOutputFails \/ (OpenNextVolume /\ io'.status = "failed")
                            \/ (ContinueRead /\ io'.status = "failed") \/ ReadFails
                            \/ ChunkEndLost \/ DecompressionFails \/ WriteOldFails \/ VerifyOld
<1>1. ContinueRead \/ FinishOldRead => pc \in {"part", "data"}
  BY DEF ContinueRead, FinishOldRead, FinishRead, ReadAcross, ReadDone, OInv, OldControl, OldStatus,
     OldLocals
<1> QED BY <1>1
    DEF OldNext, OldWork, Shared, AskOld, BeginOld, Begin, LookupFail, Lookup, VetFail, FollowLink,
        StartReader, NoMemoryForReader, OpenReader, ReaderFails, ContinueRead, ReadFails,
        TryExternal, ExternalFails, OpenExternal, OpenOldOutput, OldOutputFails, OpenNextVolume,
        AskPart, AskCopied, FinishOldRead, FinishRead, PartDone, ChunkEndLost, Stray,
        DecompressionFails, WriteOld, WriteOldFails, VerifyOld, ExitOld, Exit, GiveUp, Answer, At,
        ToExit, oldVars, allVars, locals

LEMMA NextNothingOut ==
  ASSUME OInv, NothingOut, [OldNext]_oldVars PROVE NothingOut'
<1> SUFFICES ASSUME pc' \in {"lookup", "vet", "create", "check", "external", "open"}
             PROVE  call'.total = 0 /\ out' = NoFile
  BY DEF NothingOut
<1>1. call \in OldCall
  BY OldTypes
<1>2. CASE AskOld
  BY <1>2 DEF AskOld, BeginOld, Begin, NewCall
<1>3. CASE FollowLink
  <2>1. pc = "vet" /\ call'.total = call.total /\ out' = out
    BY <1>1, <1>3 DEF FollowLink, At, OldCall
  <2> QED BY <2>1 DEF NothingOut
<1>4. CASE ~AskOld /\ ~FollowLink
  <2>1. /\ pc \in {"lookup", "vet", "create", "check", "external", "open"}
        /\ UNCHANGED <<call, out>>
    BY <1>4, OldLookupSteps
       DEF Lookup, StartReader, OpenReader, TryExternal, OpenExternal, At, oldVars, allVars, locals
  <2> QED BY <2>1 DEF NothingOut
<1> QED BY <1>2, <1>3, <1>4

LEMMA NextNotOkYet ==
  ASSUME OInv, NotOkYet, [OldNext]_oldVars
  PROVE  NotOkYet' /\ (pc' = "exit" /\ ~VerifyOld /\ pc # "exit" => ~call'.ok)
<1>1. call \in OldCall
  BY OldTypes
<1>2. CASE AskOld
  BY <1>2 DEF AskOld, BeginOld, Begin, NewCall, NotOkYet
<1>3. CASE VerifyOld
  BY <1>3 DEF VerifyOld, ToExit, NotOkYet
<1>4. CASE UNCHANGED oldVars
  BY <1>4 DEF oldVars, allVars, locals, NotOkYet
<1>5. CASE ~AskOld /\ ~VerifyOld /\ ~UNCHANGED oldVars /\ pc' # "idle"
  <2>1. pc \notin {"idle", "exit"}
    <3>1. pc \in {"lookup", "vet", "create", "check", "external", "open", "loop", "fill", "part",
                  "data", "undefined", "exit"} => pc # "idle"
      OBVIOUS
    <3>2. pc' \in {"lookup", "vet", "create", "check", "external", "open", "loop", "fill", "part",
                  "data", "undefined", "exit"}
      BY <1>5, NextOInv DEF OInv, OldLocals
    <3>3. CASE pc' \in {"lookup", "vet", "create", "check", "external", "open"}
      BY <1>5, <3>3, OldLookupSteps
         DEF Lookup, FollowLink, StartReader, OpenReader, TryExternal, OpenExternal, At
    <3>4. CASE pc' \in {"loop", "fill", "part", "data"}
      BY <1>5, <3>4, OldLoopSteps DEF OpenOldOutput, OutputDue
    <3>5. CASE pc' \in {"exit", "undefined"}
      <4>1. ContinueRead \/ ReadFails => io.status = "reading"
        BY DEF ContinueRead, ReadFails, ReadAcross, ReadFail
      <4> QED BY <1>5, <3>5, <4>1, OldExitSteps
          DEF OldOutputFails, OutputDue, OpenNextVolume, ChunkEndLost, DecompressionFails,
              WriteOldFails, Stray, WriteChunk, WriteCopied, HasChunk, InPart,
              OInv, OldControl, OldStatus
    <3> QED BY <3>2, <3>3, <3>4, <3>5
  <2>2. ~call.ok
    BY <2>1 DEF NotOkYet
  <2>3. call'.ok = call.ok
    <3>1. CASE LookupFail \/ VetFail \/ NoMemoryForReader \/ ReaderFails \/ ExitOld \/ ExternalFails
      BY <1>1, <3>1 DEF LookupFail, VetFail, NoMemoryForReader, ReaderFails, ExitOld, Exit,
         ExternalFails, GiveUp, Answer, OldCall
    <3>2. CASE OldOutputFails \/ ReadFails \/ ChunkEndLost \/ DecompressionFails
      BY <1>1, <3>2 DEF OldOutputFails, ReadFails, ChunkEndLost, DecompressionFails, ToExit, OldCall
    <3>3. CASE WriteOld \/ WriteOldFails
      BY <1>1, <3>3 DEF WriteOld, WriteOldFails, ToExit, OldCall
    <3>4. CASE OpenOldOutput \/ FollowLink
      BY <1>1, <3>4 DEF OpenOldOutput, FollowLink, OldCall
    <3>5. CASE UNCHANGED call
      BY <3>5
    <3> QED BY <1>5, <3>1, <3>2, <3>3, <3>4, <3>5
        DEF OldNext, OldWork, Shared, Lookup, StartReader, OpenReader, ContinueRead, FinishOldRead,
            FinishRead, TryExternal, OpenExternal, OpenNextVolume, AskPart, AskCopied, PartDone,
            Stray, oldVars, allVars, locals
  <2> QED BY <2>2, <2>3 DEF NotOkYet
<1>6. CASE pc' = "idle"
  BY <1>6 DEF NotOkYet
<1> QED BY <1>2, <1>3, <1>4, <1>5, <1>6

LEMMA NextOutCounted ==
  ASSUME OInv, NothingOut, OutCounted, [OldNext]_oldVars PROVE OutCounted'
<1> SUFFICES ASSUME pc' \in {"loop", "fill", "part", "data"}
             PROVE  /\ out'.exists <=> call'.sink = "file"
                    /\ IF out'.exists THEN Len(out'.bytes) = call'.total ELSE out'.bytes = <<>>
  BY DEF OutCounted, InOldLoop
<1>1. call \in OldCall /\ call.total \in Nat
  BY OldTypes
<1>2. CASE OpenOldOutput
  <2>1. out' = [exists |-> (call.sink = "file"), bytes |-> <<>>]
    BY <1>2 DEF OpenOldOutput, NoFile
  <2>2. call'.sink = call.sink /\ call'.total = 0
    BY <1>1, <1>2 DEF OpenOldOutput, OutputDue, OldCall, NothingOut
  <2>3. out'.bytes = <<>> /\ out'.exists = (call.sink = "file")
    BY <2>1
  <2>4. Len(<<>>) = 0
    OBVIOUS
  <2> QED BY <2>2, <2>3, <2>4
<1>3. CASE WriteOld /\ InOldLoop
  <2>1. /\ out.exists <=> call.sink = "file"
        /\ IF out.exists THEN Len(out.bytes) = call.total ELSE out.bytes = <<>>
    BY <1>3 DEF OutCounted
  <2>2. PICK o : o = OldOutput
    OBVIOUS
  <2>3. /\ out'.exists <=> out.exists
        /\ ~out.exists => out'.bytes = out.bytes
        /\ out.exists => out'.bytes = out.bytes \o o /\ o \in Seq(Byte)
    BY <1>3, <2>2, WritesOld
  <2>4. call'.sink = call.sink /\ call'.total = call.total + Len(o)
    BY <1>1, <1>3, <2>2 DEF WriteOld, OldCall
  <2>5. out.bytes \in Seq(Byte)
    BY OldTypes
  <2>6. out.exists => Len(out'.bytes) = Len(out.bytes) + Len(o)
    <3>1. PICK s : s = out.bytes /\ s \in Seq(Byte)
      BY <2>5
    <3>2. o \in Seq(Byte) => Len(s \o o) = Len(s) + Len(o)
      BY <3>1, ConcatProperties
    <3> QED BY <2>3, <3>1, <3>2
  <2> QED BY <2>1, <2>3, <2>4, <2>6
<1>4. CASE ~OpenOldOutput /\ ~WriteOld
  <2>1. InOldLoop /\ UNCHANGED <<call, out>>
    BY <1>4, OldLoopSteps DEF InOldLoop, OpenNextVolume, AskPart, AskCopied, ContinueRead,
       FinishOldRead, FinishRead, PartDone, oldVars, allVars, locals
  <2> QED BY <2>1 DEF OutCounted
<1> QED BY <1>2, <1>3, <1>4, OldLoopSteps DEF InOldLoop, WriteOld, WriteChunk, WriteCopied, HasChunk,
        InPart

-----------------------------------------------------------------------------
(* Where a file beside the cabinets is said to be.                         *)
LEMMA BesideMeans ==
  ASSUME cab \in DOMAIN Archives, NEW i \in Files, IsBesideFile(i)
  PROVE  /\ i \in DOMAIN Archive.external /\ ~Intact(i) /\ i \in Nat
         /\ Lo(i) \in Nat /\ FirstVolume(i) \in Nat /\ FirstVolume(i) <= Lo(i)
         /\ \A v \in FirstVolume(i) .. Lo(i) : v \in DOMAIN Vols /\ Vols[v].whole
         /\ \A v \in FirstVolume(i) .. Lo(i) - 1 :
              Archive.version <= 5 /\ AsInt(Vols[v].last.index) < i
         /\ i <= AsInt(Vols[Lo(i)].last.index)
         /\ Archive.files[i].offset = Len(Vols[Lo(i)].bytes)
         /\ "obfuscated" \notin Archive.files[i].flags
         /\ StoredSize(Archive.files[i].flags, Archive.files[i]) = Len(Stored(i))
         /\ Len(Stored(i)) < U32
         /\ \E k \in 0 .. (IF "compressed" \in Archive.files[i].flags THEN 4 ELSE 0) :
              Archive.external[i] = SubSeq(Stored(i), 1, Len(Stored(i)) - k)
         /\ EncodesOld(Archive, i, Stored(i))
<1>1. AllBeside(Archive, i) /\ EncodesOld(Archive, i, Stored(i))
  BY DEF IsBesideFile, BesideFiles, Archive, Stored
<1>2. i \in DOMAIN Archive.external /\ i \in Nat
  BY <1>1, FilesAreNat DEF AllBeside, IsBeside
<1>3. ~Intact(i)
  BY <1>2, IntactMeans, LaidMeans
<1>4. FirstVolume(i) \in Nat
  <2>1. Archive.files[i].volume \in 0 .. U16 - 1
    BY ArchiveType DEF FileDescriptor
  <2> QED BY <2>1, U16Assumption DEF FirstVolume, SearchedFrom
<1>5. /\ Lo(i) \in Nat /\ FirstVolume(i) <= Lo(i)
      /\ \A v \in FirstVolume(i) .. Lo(i) : v \in DOMAIN Vols /\ Vols[v].whole
      /\ \A v \in FirstVolume(i) .. Lo(i) - 1 :
           Archive.version <= 5 /\ AsInt(Vols[v].last.index) < i
      /\ i <= AsInt(Vols[Lo(i)].last.index)
      /\ Archive.files[i].offset = Len(Vols[Lo(i)].bytes)
  BY <1>1 DEF AllBeside, IsBeside, IsWhole, Lo, FirstVolume, Vols
<1> QED BY <1>1, <1>2, <1>3, <1>4, <1>5 DEF AllBeside, Stored

LEMMA BesideSearch ==
  ASSUME cab \in DOMAIN Archives, NEW i \in Files, IsBesideFile(i),
         NEW v \in FirstVolume(i) .. Lo(i)
  PROVE  /\ Readable(v) /\ (StartsLater(i, v) <=> v # Lo(i))
         /\ v # Lo(i) => NextVolume(v) \in FirstVolume(i) .. Lo(i)
<1>1. /\ Lo(i) \in Nat /\ FirstVolume(i) \in Nat /\ i \in Nat /\ Archive.version \in Nat
      /\ i <= AsInt(Vols[Lo(i)].last.index)
  BY BesideMeans, ArchiveType
<1>2. v \in DOMAIN Vols /\ Vols[v].whole
  BY BesideMeans
<1>3. CASE v = Lo(i)
  <2>1. AsInt(Vols[v].last.index) \in Int
    BY <1>2, VolumeFields, AsIntType DEF Edge
  <2> QED BY <1>1, <1>2, <1>3, <2>1 DEF StartsLater, Readable, Openable
<1>4. CASE v # Lo(i)
  <2>1. v \in FirstVolume(i) .. Lo(i) - 1
    BY <1>1, <1>4
  <2>2. Archive.version <= 5 /\ AsInt(Vols[v].last.index) < i
    BY <2>1, BesideMeans
  <2>3. AsInt(Vols[v].last.index) \in Int
    BY <1>2, VolumeFields, AsIntType DEF Edge
  <2>4. NextVolume(v) = v + 1
    BY <1>2, NextVolumeIs
  <2>5. v + 1 \in FirstVolume(i) .. Lo(i)
    BY <1>1, <2>1
  <2> QED BY <1>1, <1>2, <1>4, <2>2, <2>3, <2>4, <2>5 DEF StartsLater, Readable, Openable
<1> QED BY <1>3, <1>4

LEMMA BesideCacheKept ==
  ASSUME IInv, BesideCache, [Next]_vars PROVE BesideCache'
<1>1. cab \in DOMAIN Archives /\ fds \in [Files -> FileDescriptor \cup {NotRead}]
      /\ (io.status # "none" => rd.index \in Files /\ fds[rd.index] # NotRead)
  BY DEF IInv, TypeOK
<1>2. UNCHANGED cab /\ Files' = Files /\ Archive' = Archive
  BY SameCab, SameArchive
<1>3. \A i : /\ IsBesideFile(i)' <=> IsBesideFile(i)
             /\ FirstVolume(i)' = FirstVolume(i) /\ Lo(i)' = Lo(i)
  BY <1>2, SameOld DEF FirstVolume, SearchedFrom, Lo
<1> SUFFICES ASSUME NEW i \in Files, IsBesideFile(i), fds'[i] # NotRead
             PROVE  fds'[i].volume \in FirstVolume(i) .. Lo(i)
  BY <1>2, <1>3 DEF BesideCache
<1>4. FirstVolume(i) \in FirstVolume(i) .. Lo(i)
  BY <1>1, BesideMeans
<1>5. CASE fds[i] = NotRead
  <2>1. fds'[i] = ReadFileDescriptor(i)
    BY <1>5, FilledFromTable
  <2>2. Archive.files[i] \in FileDescriptor
    BY <1>1, ArchiveType
  <2>3. fds'[i].volume = FirstVolume(i)
    BY <2>1, <2>2 DEF ReadFileDescriptor, FirstVolume, SearchedFrom, FileDescriptor
  <2> QED BY <1>4, <2>3
<1>6. CASE fds[i] # NotRead /\ i = rd.index /\ CreateOpen
  <2>1. PICK d, v, e : d = fds[i] /\ v = d.volume /\ e = OpenedDescriptor(i, d, v)
    OBVIOUS
  <2>2. d \in FileDescriptor /\ v \in FirstVolume(i) .. Lo(i)
    BY <1>1, <1>6, <2>1 DEF BesideCache
  <2>3. e \in FileDescriptor /\ e.volume = v
    <3>1. e \in FileDescriptor
      BY <2>1, <2>2, OpenedDescriptorType
    <3>2. e \in {[d EXCEPT !.flags = @ \cup {"split"}], d}
      BY <2>1 DEF OpenedDescriptor
    <3> QED BY <2>1, <2>2, <3>1, <3>2 DEF FileDescriptor
  <2>4. fds' = IF StartsLater(i, v) THEN [fds EXCEPT ![i] = [e EXCEPT !.volume = NextVolume(v)]]
               ELSE [fds EXCEPT ![i] = e]
    BY <1>6, <2>1 DEF CreateOpen
  <2>5. fds'[i] = IF StartsLater(i, v) THEN [e EXCEPT !.volume = NextVolume(v)] ELSE e
    BY <1>1, <2>4
  <2>6. fds'[i].volume = IF StartsLater(i, v) THEN NextVolume(v) ELSE v
    BY <2>3, <2>5 DEF FileDescriptor
  <2> QED BY <1>1, <2>2, <2>6, BesideSearch
<1>7. CASE fds[i] # NotRead /\ (ReadAcross \/ OpenNext)
  <2>1. PICK opened, failed : OpensNext(opened, failed)
    BY <1>7, AdvanceOpensNext
  <2>2. io.status # "none"
    BY <1>7, AdvanceOpensNext
  <2>3. fds' = fds \/ fds' = [fds EXCEPT ![rd.index] = Slot(rd.index)]
    BY <2>1, <2>2, OpensNextReader
  <2>4. fds'[i] \in {fds[i], Slot(i)}
    BY <1>1, <2>2, <2>3
  <2>5. Slot(i).volume = fds[i].volume
    <3>1. PICK d : d = fds[i] /\ d \in FileDescriptor
      BY <1>1, <1>7
    <3>2. Slot(i) \in {[d EXCEPT !.flags = @ \cup {"split"}], d}
      BY <3>1 DEF Slot, OpenedDescriptor
    <3> QED BY <3>1, <3>2 DEF FileDescriptor
  <2>6. fds[i].volume \in FirstVolume(i) .. Lo(i)
    BY <1>7 DEF BesideCache
  <2> QED BY <2>4, <2>5, <2>6
<1>8. CASE fds[i] # NotRead /\ fds'[i] = fds[i]
  BY <1>8 DEF BesideCache
<1>9. CASE fds[i] # NotRead /\ CreateOpen /\ i # rd.index
  <2>1. PICK e : fds' = [fds EXCEPT ![rd.index] = e]
    BY <1>9 DEF CreateOpen
  <2> QED BY <1>1, <1>8, <1>9, <2>1
<1>10. CASE \E j \in Files : GetFileDescriptor(j)
  <2>1. PICK j \in Files : fds' = [fds EXCEPT ![j] = Descriptor(j)]
    BY <1>10 DEF GetFileDescriptor
  <2>2. fds[i] # NotRead => fds'[i] = fds[i]
    BY <1>1, <2>1 DEF Descriptor
  <2> QED BY <1>5, <1>8, <2>2
<1>11. CASE fds' = fds
  BY <1>11, <1>5, <1>8
<1> QED BY <1>5, <1>6, <1>7, <1>9, <1>10, <1>11
    DEF Next, Step, Open, Read, CreateBegin, CreateExternal, CreateFail, ReadFail, ReadDone,
        ReadBegin, Destroy, vars

LEMMA NextBesideCache ==
  ASSUME OInv, BesideCache, [OldNext]_oldVars PROVE BesideCache'
<1>1. CASE [Next]_vars
  BY <1>1, OldTypes, BesideCacheKept
<1>2. CASE ReadBegin(rd.left)
  <2>1. UNCHANGED <<cab, fds>>
    BY <1>2 DEF ReadBegin
  <2> QED BY <2>1 DEF BesideCache, IsBesideFile, Files, Archive, FirstVolume, SearchedFrom, Lo
<1> QED BY <1>1, <1>2, OldStepsOfReader

(* The search through the volumes ends where the file is, or should be.    *)
LEMMA OldFound ==
  ASSUME OInv, BesideCache, OpenReader, NEW i \in Files, i = call.index,
         Laid(i) \/ IsBesideFile(i)
  PROVE  /\ fds[i] \in FileDescriptor /\ UNCHANGED <<cab, call>>
         /\ pc' = "check" => rd'.src = Lo(i)
<1>1. /\ pc = "create" /\ CreateOpen /\ UNCHANGED <<cab, call>>
      /\ pc' = (IF io'.status = "idle" THEN "check" ELSE "create")
  BY DEF OpenReader, CreateOpen
<1>2. /\ StreamInv /\ cab \in DOMAIN Archives /\ rd \in RdType /\ rd.index = i
      /\ fds[i] # NotRead /\ fds \in [Files -> FileDescriptor \cup {NotRead}]
  BY <1>1, InvTypes DEF OInv, OldControl, OldFile
<1>3. PICK v, f : f = fds[i] /\ v = f.volume /\ f \in FileDescriptor
  BY <1>2
<1>4. pc' = "check" =>
        ~StartsLater(i, v) /\ Readable(v) /\ rd' = Opened(rd, OpenedDescriptor(i, f, v), v)
  <2>1. io.status = "opening"
    BY <1>1 DEF CreateOpen
  <2> QED BY <1>1, <1>2, <1>3, <2>1 DEF CreateOpen
<1>5. pc' = "check" => v = Lo(i)
  <2>1. CASE Laid(i)
    <3>1. v \in FirstVolume(i) .. Lo(i)
      BY <1>2, <1>3, <2>1, InvTypes DEF CacheSound, KnownAs
    <3> QED BY <1>2, <1>4, <2>1, <3>1, SearchStops
  <2>2. CASE IsBesideFile(i)
    <3>1. v \in FirstVolume(i) .. Lo(i)
      BY <1>2, <1>3, <2>2 DEF BesideCache
    <3> QED BY <1>2, <1>4, <2>2, <3>1, BesideSearch
  <2> QED BY <2>1, <2>2
<1>6. ASSUME pc' = "check" PROVE rd'.src = v
  <2>1. v \in DOMAIN Vols
    BY <1>4, <1>6 DEF Readable, Openable
  <2>2. OpenedDescriptor(i, f, v) \in FileDescriptor
    BY <1>3, OpenedDescriptorType
  <2> QED BY <1>2, <1>4, <1>6, <2>1, <2>2, OpenedType
<1> QED BY <1>1, <1>2, <1>3, <1>5, <1>6

LEMMA NextOldFound ==
  ASSUME OInv, BesideCache, FoundPart, FoundBeside, AtStart, [OldNext]_oldVars
  PROVE  FoundPart' /\ FoundBeside' /\ AtStart'
<1>1. UNCHANGED cab /\ cab \in DOMAIN Archives
  BY OldCab
<1>2. \A i : /\ Laid(i)' <=> Laid(i)
             /\ IsBesideFile(i)' <=> IsBesideFile(i)
             /\ Lo(i)' = Lo(i)
  BY <1>1, SameArchive, SameOld
<1>3. CASE OpenReader
  <2>1. pc = "create" /\ CreateOpen /\ UNCHANGED call
    BY <1>3 DEF OpenReader
  <2>2. PICK i \in Files : i = call.index
    BY <2>1, OldTypes
  <2>3. pc' = "check" /\ (Laid(i) \/ IsBesideFile(i)) => rd'.src = Lo(i)
    BY <1>3, <2>2, OldFound
  <2>4. got' = <<>> /\ pc' # "open"
    <3>1. io.status = "opening" /\ got' = got
      BY <2>1 DEF CreateOpen
    <3>2. got = <<>>
      BY <3>1, InvTypes DEF NothingYet, OInv
    <3> QED BY <1>3, <3>1, <3>2 DEF OpenReader
  <2>5. call'.index = i
    BY <2>1, <2>2
  <2> QED BY <1>2, <2>3, <2>4, <2>5 DEF FoundPart, FoundBeside, AtStart
<1>4. CASE OpenExternal
  <2>1. pc' = "open" /\ got' = <<>>
    BY <1>4 DEF OpenExternal, At, CreateExternal
  <2> QED BY <2>1 DEF FoundPart, FoundBeside, AtStart
<1>5. CASE UNCHANGED oldVars
  <2>1. UNCHANGED <<pc, rd, call, got>>
    BY <1>5 DEF oldVars, allVars, vars, locals
  <2> QED BY <1>2, <2>1 DEF FoundPart, FoundBeside, AtStart
<1>6. CASE ~OpenReader /\ ~OpenExternal /\ ~UNCHANGED oldVars
  <2>1. pc' \notin {"check", "open"}
    BY <1>6, OldLookupSteps
       DEF AskOld, BeginOld, Begin, Lookup, FollowLink, StartReader, TryExternal, At
  <2> QED BY <2>1 DEF FoundPart, FoundBeside, AtStart
<1> QED BY <1>3, <1>4, <1>5, <1>6

(* A file that is found outside of the cabinets lies at the end of its     *)
(* volume, by what the headers say.                                        *)
LEMMA NextMissed ==
  ASSUME OInv, TrueCache, FoundPart, Missed, [OldNext]_oldVars PROVE Missed'
<1> SUFFICES ASSUME pc' = "external", Extractable(call'.index), ~IsBesideFile(call'.index)
             PROVE  FALSE
  BY OldCab, SameOld DEF Missed
<1>1. CASE TryExternal
  <2>1. pc = "check" /\ Outside /\ UNCHANGED call
    BY <1>1 DEF TryExternal, At
  <2>2. PICK i \in Files : i = call.index
    BY <2>1, OldTypes
  <2>3. Intact(i) /\ ~AtEndOfVolume(i)
    BY <2>1, <2>2, OldTypes DEF Extractable, InWholeChunks, OldSoundFiles, Intact
  <2>4. rd.src = Lo(i)
    <3>1. Laid(i)
      BY <2>3, OldTypes, IntactMeans
    <3> QED BY <2>1, <2>2, <3>1 DEF FoundPart
  <2>5. PICK d, e : d = fds[i] /\ e = Archive.files[i]
    OBVIOUS
  <2>6. d.offset = e.offset
    BY <2>1, <2>2, <2>5, OldTypes, EntryCached DEF OInv, OldControl, OldFile
  <2> QED BY <2>1, <2>2, <2>3, <2>4, <2>5, <2>6 DEF Outside, AtEndOfVolume, Lo, fd
<1>2. CASE UNCHANGED oldVars
  BY <1>2 DEF oldVars, allVars, locals, Missed
<1> QED BY <1>1, <1>2, OldLookupSteps
    DEF AskOld, BeginOld, Begin, Lookup, FollowLink, StartReader, OpenReader, OpenExternal, At

-----------------------------------------------------------------------------
(* What it means that a file can be extracted.                             *)
LEMMA OldSoundMeans ==
  ASSUME cab \in DOMAIN Archives, NEW i \in Files, OldSound(i)
  PROVE  /\ EncodesOld(Archive, i, Plain(i))
         /\ \/ Intact(i) /\ ~IsBesideFile(i) /\ ~CutBehindMarker(Archive, i)
            \/ IsBesideFile(i) /\ ~Intact(i) /\ Plain(i) = Stored(i)
         /\ Plain(i) \in Seq(Byte) /\ Len(Plain(i)) \in Nat /\ Len(Plain(i)) < U32
         /\ Len(Plain(i)) = Len(Stored(i))
         /\ StoredSize(Archive.files[i].flags, Archive.files[i]) = Len(Plain(i))
<1>1. /\ Plain(i) \in Seq(Byte) /\ Len(Plain(i)) = Len(Stored(i)) /\ Len(Plain(i)) \in Nat
  BY PlainMeans, StoredType
<1>2. CASE i \in OldSoundFiles[cab]
  <2>1. Intact(i) /\ EncodesOld(Archive, i, Plain(i)) /\ ~CutBehindMarker(Archive, i)
    BY <1>2 DEF OldSoundFiles, Intact, Archive, Plain
  <2>2. ~IsBesideFile(i)
    BY <2>1, BesideMeans
  <2> QED BY <1>1, <2>1, <2>2, IntactMeans, HeadersSay
<1>3. CASE IsBesideFile(i)
  <2>1. /\ ~Intact(i) /\ EncodesOld(Archive, i, Stored(i)) /\ Len(Stored(i)) < U32
        /\ "obfuscated" \notin Archive.files[i].flags
        /\ StoredSize(Archive.files[i].flags, Archive.files[i]) = Len(Stored(i))
    BY <1>3, BesideMeans
  <2>2. i \in DOMAIN Archives[cab].files
    BY ArchiveType DEF Archive
  <2>3. Plain(i) = Stored(i)
    BY <2>1, <2>2 DEF Plain, PlainBytes, Archive, Stored
  <2> QED BY <1>1, <1>3, <2>1, <2>3
<1> QED BY <1>2, <1>3 DEF OldSound, IsBesideFile

LEMMA OldContentMeans ==
  ASSUME cab \in DOMAIN Archives, NEW i \in Files, OldSound(i),
         NEW e, e = Archive.files[i], NEW content, content = Archive.content[i]
  PROVE  /\ content \in Seq(Byte) /\ Len(content) \in Nat /\ Len(content) < U32
         /\ e.expanded = Len(content)
         /\ "compressed" \notin e.flags => Plain(i) = content
<1>1. EncodesOld(Archive, i, Plain(i))
  BY OldSoundMeans
<1>2. content \in Seq(Byte) /\ Len(content) < U32 /\ e.expanded = Len(content)
      /\ ("compressed" \notin e.flags => Plain(i) = content)
  BY <1>1 DEF EncodesOld
<1> QED BY <1>2, LenProperties

LEMMA MarkedType ==
  ASSUME NEW c \in Seq(Byte)
  PROVE  /\ Marked(c) \in Seq(Byte) /\ Len(c) \in Nat /\ Len(Marked(c)) = Len(c) + 4
         /\ \A j \in 1 .. Len(c) : Marked(c)[j] = c[j]
         /\ Marked(c)[Len(c) + 1] = 0 /\ Marked(c)[Len(c) + 2] = 0
         /\ Marked(c)[Len(c) + 3] = 255 /\ Marked(c)[Len(c) + 4] = 255
<1>1. PICK t, m : t = END_OF_CHUNK /\ m = Marked(c)
  OBVIOUS
<1>2. t \in Seq(Byte) /\ Len(t) = 4 /\ t[1] = 0 /\ t[2] = 0 /\ t[3] = 255 /\ t[4] = 255
  BY <1>1 DEF END_OF_CHUNK, Byte
<1>3. m = c \o t
  BY <1>1 DEF Marked
<1>4. /\ m \in Seq(Byte) /\ Len(m) = Len(c) + Len(t)
      /\ \A j \in 1 .. Len(c) : m[j] = c[j]
      /\ \A j \in 1 .. Len(t) : m[Len(c) + j] = t[j]
  <2>1. t \in Seq(Byte)
    BY <1>2
  <2>2. /\ c \o t \in Seq(Byte) /\ Len(c \o t) = Len(c) + Len(t)
        /\ \A j \in 1 .. Len(c) : (c \o t)[j] = c[j]
        /\ \A j \in 1 .. Len(t) : (c \o t)[Len(c) + j] = t[j]
    BY <2>1, ConcatAt
  <2> QED BY <1>3, <2>2
<1>5. 1 \in 1 .. 4 /\ 2 \in 1 .. 4 /\ 3 \in 1 .. 4 /\ 4 \in 1 .. 4
  OBVIOUS
<1> QED BY <1>1, <1>2, <1>4, <1>5, LenProperties

LEMMA OldChunksMean ==
  ASSUME cab \in DOMAIN Archives, NEW i \in Files, OldSound(i),
         "compressed" \in Archive.files[i].flags
  PROVE  /\ ChunkCount(i) \in Nat /\ StoredAt(i, 1) = 0 /\ ContentAt(i, 1) = 0
         /\ StoredAt(i, ChunkCount(i) + 1) = Len(Plain(i))
         /\ ContentAt(i, ChunkCount(i) + 1) = Len(Archive.content[i])
         /\ \A k \in 1 .. ChunkCount(i) + 1 :
              /\ StoredAt(i, k) \in Nat /\ StoredAt(i, k) <= Len(Plain(i))
              /\ ContentAt(i, k) \in Nat /\ ContentAt(i, k) <= Len(Archive.content[i])
         /\ \A k \in 1 .. ChunkCount(i) :
              /\ ChunkOf(i, k) \in Seq(Byte) /\ Recognisable(ChunkOf(i, k))
              /\ StoredAt(i, k + 1) = StoredAt(i, k) + Len(Marked(ChunkOf(i, k)))
              /\ \A j \in 1 .. Len(Marked(ChunkOf(i, k))) :
                   Plain(i)[StoredAt(i, k) + j] = Marked(ChunkOf(i, k))[j]
              /\ ContentAt(i, k + 1) = ContentAt(i, k) + Len(Inflate(ChunkOf(i, k)))
              /\ \A j \in 1 .. Len(Inflate(ChunkOf(i, k))) :
                   Archive.content[i][ContentAt(i, k) + j] = Inflate(ChunkOf(i, k))[j]
<1>1. PICK c, p, t, n, packed, plain :
        /\ c = Archive.chunks[i] /\ p = Plain(i) /\ t = Archive.content[i] /\ n = Len(c)
        /\ packed = [k \in 1 .. n |-> Marked(c[k])]
        /\ plain = [k \in 1 .. n |-> Inflate(c[k])]
  OBVIOUS
<1>2. /\ c \in Seq(Seq(Byte)) /\ \A k \in 1 .. n : Recognisable(c[k])
      /\ Concatenates(p, packed, Archive.starts[i].stored)
      /\ Concatenates(t, plain, Archive.starts[i].content)
  BY <1>1, OldSoundMeans DEF EncodesOld
<1>3. Len(p) \in Nat /\ n \in Nat /\ Len(t) \in Nat
  BY <1>1, <1>2, OldSoundMeans, OldContentMeans, LenProperties
<1>4. Len(packed) = n /\ Len(plain) = n
  BY <1>1, <1>3
<1>5. ASSUME NEW k \in 1 .. n
      PROVE  /\ c[k] \in Seq(Byte) /\ Len(packed[k]) \in Nat /\ Len(plain[k]) \in Nat
             /\ packed[k] = Marked(c[k]) /\ plain[k] = Inflate(c[k])
  <2>1. c[k] \in Seq(Byte) /\ Inflate(c[k]) \in Seq(Byte)
    BY <1>1, <1>2, <1>5, ElementOfSeq DEF Recognisable
  <2>2. PICK x, m : x = c[k] /\ x \in Seq(Byte) /\ m = Marked(x)
    BY <2>1
  <2>3. Len(m) = Len(x) + 4 /\ Len(x) \in Nat
    BY <2>2, MarkedType
  <2>4. Len(plain[k]) \in Nat
    BY <1>1, <1>5, <2>1, LenProperties
  <2> QED BY <1>1, <2>1, <2>2, <2>3, <2>4
<1>6. /\ \A k \in 1 .. n + 1 : StoredAt(i, k) \in Nat /\ StoredAt(i, k) <= Len(p)
      /\ \A k \in 1 .. n + 1 : ContentAt(i, k) \in Nat /\ ContentAt(i, k) <= Len(t)
  <2>1. \A k \in 1 .. n : Len(packed[k]) \in Nat
    BY <1>5
  <2>2. \A k \in 1 .. n : Len(plain[k]) \in Nat
    BY <1>5
  <2>3. \A k \in 1 .. n + 1 : StoredAt(i, k) \in Nat /\ StoredAt(i, k) <= Len(p)
    BY <1>2, <1>3, <1>4, <2>1, PiecesFit DEF StoredAt
  <2>4. \A k \in 1 .. n + 1 : ContentAt(i, k) \in Nat /\ ContentAt(i, k) <= Len(t)
    BY <1>2, <1>3, <1>4, <2>2, PiecesFit DEF ContentAt
  <2> QED BY <2>3, <2>4
<1>7. /\ StoredAt(i, 1) = 0 /\ StoredAt(i, n + 1) = Len(p)
      /\ ContentAt(i, 1) = 0 /\ ContentAt(i, n + 1) = Len(t)
  BY <1>2, <1>4 DEF Concatenates, StoredAt, ContentAt
<1>8. ASSUME NEW k \in 1 .. n
      PROVE  /\ c[k] \in Seq(Byte) /\ Recognisable(c[k])
             /\ StoredAt(i, k + 1) = StoredAt(i, k) + Len(Marked(c[k]))
             /\ \A j \in 1 .. Len(Marked(c[k])) : p[StoredAt(i, k) + j] = Marked(c[k])[j]
             /\ ContentAt(i, k + 1) = ContentAt(i, k) + Len(Inflate(c[k]))
             /\ \A j \in 1 .. Len(Inflate(c[k])) : t[ContentAt(i, k) + j] = Inflate(c[k])[j]
  <2>1. /\ StoredAt(i, k + 1) = StoredAt(i, k) + Len(packed[k])
        /\ \A j \in 1 .. Len(packed[k]) : p[StoredAt(i, k) + j] = packed[k][j]
    BY <1>2, <1>4 DEF Concatenates, StoredAt
  <2>2. /\ ContentAt(i, k + 1) = ContentAt(i, k) + Len(plain[k])
        /\ \A j \in 1 .. Len(plain[k]) : t[ContentAt(i, k) + j] = plain[k][j]
    BY <1>2, <1>4 DEF Concatenates, ContentAt
  <2> QED BY <1>2, <1>5, <2>1, <2>2
<1>9. ChunkCount(i) = n /\ \A k : ChunkOf(i, k) = c[k]
  BY <1>1 DEF ChunkCount, ChunkOf
<1>10. \A k \in 1 .. ChunkCount(i) + 1 :
         /\ StoredAt(i, k) \in Nat /\ StoredAt(i, k) <= Len(Plain(i))
         /\ ContentAt(i, k) \in Nat /\ ContentAt(i, k) <= Len(Archive.content[i])
  BY <1>1, <1>6, <1>9
<1>11. \A k \in 1 .. ChunkCount(i) :
         /\ ChunkOf(i, k) \in Seq(Byte) /\ Recognisable(ChunkOf(i, k))
         /\ StoredAt(i, k + 1) = StoredAt(i, k) + Len(Marked(ChunkOf(i, k)))
         /\ \A j \in 1 .. Len(Marked(ChunkOf(i, k))) :
              Plain(i)[StoredAt(i, k) + j] = Marked(ChunkOf(i, k))[j]
         /\ ContentAt(i, k + 1) = ContentAt(i, k) + Len(Inflate(ChunkOf(i, k)))
         /\ \A j \in 1 .. Len(Inflate(ChunkOf(i, k))) :
              Archive.content[i][ContentAt(i, k) + j] = Inflate(ChunkOf(i, k))[j]
  <2> SUFFICES ASSUME NEW k \in 1 .. ChunkCount(i), NEW x, x = ChunkOf(i, k)
               PROVE  /\ x \in Seq(Byte) /\ Recognisable(x)
                      /\ StoredAt(i, k + 1) = StoredAt(i, k) + Len(Marked(x))
                      /\ \A j \in 1 .. Len(Marked(x)) : p[StoredAt(i, k) + j] = Marked(x)[j]
                      /\ ContentAt(i, k + 1) = ContentAt(i, k) + Len(Inflate(x))
                      /\ \A j \in 1 .. Len(Inflate(x)) : t[ContentAt(i, k) + j] = Inflate(x)[j]
    BY <1>1
  <2>1. k \in 1 .. n /\ x = c[k]
    BY <1>9
  <2> QED BY <1>8, <2>1
<1> QED BY <1>1, <1>3, <1>7, <1>9, <1>10, <1>11

(* What is known of one chunk: its bytes ...                               *)
LEMMA ChunkSound ==
  ASSUME cab \in DOMAIN Archives, NEW i \in Files, OldSound(i),
         "compressed" \in Archive.files[i].flags, NEW k \in 1 .. ChunkCount(i),
         NEW c, c = ChunkOf(i, k)
  PROVE  /\ c \in Seq(Byte) /\ Len(c) \in Nat /\ Len(c) > 1 /\ c[1] % 2 = 0
         /\ \A q \in Matches(END_OF_CHUNK, c) : q + 4 <= Len(c) /\ c[q + 4] % 2 = 1
<1>1. c \in Seq(Byte) /\ Recognisable(c)
  BY OldChunksMean
<1>2. Len(c) \in Nat
  BY <1>1, LenProperties
<1> QED BY <1>1, <1>2 DEF Recognisable

(* ... what it inflates to ...                                             *)
LEMMA ChunkInflates ==
  ASSUME cab \in DOMAIN Archives, NEW i \in Files, OldSound(i),
         "compressed" \in Archive.files[i].flags, NEW k \in 1 .. ChunkCount(i),
         NEW c, c = ChunkOf(i, k)
  PROVE  /\ Inflate(c) \in Seq(Byte) /\ Len(Inflate(c)) \in Nat /\ Len(Inflate(c)) > 0
         /\ Len(Inflate(c)) <= BUFFER_SIZE
<1>1. PICK u : u = Inflate(c)
  OBVIOUS
<1>2. Recognisable(c)
  BY OldChunksMean
<1>3. u \in Seq(Byte) /\ Len(u) \in 1 .. BUFFER_SIZE
  BY <1>1, <1>2 DEF Recognisable
<1>4. Len(u) \in Nat
  BY <1>3, LenProperties
<1>5. Len(u) > 0 /\ Len(u) <= BUFFER_SIZE
  BY <1>3, <1>4, U16Assumption DEF BUFFER_SIZE
<1> QED BY <1>1, <1>3, <1>4, <1>5

(* ... where both lie ...                                                  *)
LEMMA ChunkSpots ==
  ASSUME cab \in DOMAIN Archives, NEW i \in Files, OldSound(i),
         "compressed" \in Archive.files[i].flags, NEW k \in 1 .. ChunkCount(i),
         NEW c, c = ChunkOf(i, k)
  PROVE  /\ StoredAt(i, k) \in Nat /\ StoredAt(i, k + 1) = StoredAt(i, k) + (Len(c) + 4)
         /\ StoredAt(i, k + 1) <= Len(Plain(i))
         /\ ContentAt(i, k) \in Nat
         /\ ContentAt(i, k + 1) = ContentAt(i, k) + Len(Inflate(c))
         /\ ContentAt(i, k + 1) <= Len(Archive.content[i])
<1>1. PICK n, m : n = ChunkCount(i) /\ m = Marked(c)
  OBVIOUS
<1>2. n \in Nat /\ c \in Seq(Byte)
  BY <1>1, OldChunksMean
<1>3. StoredAt(i, k + 1) = StoredAt(i, k) + Len(m)
  BY <1>1, OldChunksMean
<1>4. Len(Marked(c)) = Len(c) + 4
  BY <1>2, MarkedType
<1>5. k \in 1 .. n + 1 /\ k + 1 \in 1 .. n + 1
  BY <1>1, <1>2
<1>6. StoredAt(i, k) \in Nat /\ ContentAt(i, k) \in Nat
  BY <1>1, <1>5, OldChunksMean
<1>7. StoredAt(i, k + 1) <= Len(Plain(i)) /\ ContentAt(i, k + 1) <= Len(Archive.content[i])
  BY <1>1, <1>5, OldChunksMean
<1>8. ContentAt(i, k + 1) = ContentAt(i, k) + Len(Inflate(c))
  BY OldChunksMean
<1>9. StoredAt(i, k + 1) = StoredAt(i, k) + (Len(c) + 4)
  BY <1>1, <1>3, <1>4
<1> QED BY <1>6, <1>7, <1>8, <1>9

(* ... the bytes there ...                                                 *)
LEMMA MarkedBytes ==
  ASSUME cab \in DOMAIN Archives, NEW i \in Files, OldSound(i),
         "compressed" \in Archive.files[i].flags, NEW k \in 1 .. ChunkCount(i),
         NEW c, c = ChunkOf(i, k),
         NEW j \in 1 .. Len(Marked(c))
  PROVE  Plain(i)[StoredAt(i, k) + j] = Marked(c)[j]
BY OldChunksMean

LEMMA ChunkBytes ==
  ASSUME cab \in DOMAIN Archives, NEW i \in Files, OldSound(i),
         "compressed" \in Archive.files[i].flags, NEW k \in 1 .. ChunkCount(i),
         NEW c, c = ChunkOf(i, k),
         NEW j \in 1 .. Len(c)
  PROVE  Plain(i)[StoredAt(i, k) + j] = c[j]
<1>1. c \in Seq(Byte) /\ Len(c) \in Nat
  BY ChunkSound
<1>2. Len(Marked(c)) = Len(c) + 4 /\ Marked(c)[j] = c[j]
  BY <1>1, MarkedType
<1>3. j \in 1 .. Len(Marked(c))
  BY <1>1, <1>2
<1>4. Plain(i)[StoredAt(i, k) + j] = Marked(c)[j]
  BY <1>3, MarkedBytes
<1> QED BY <1>2, <1>4

(* ... the marker behind them ...                                          *)
LEMMA ChunkMarker ==
  ASSUME cab \in DOMAIN Archives, NEW i \in Files, OldSound(i),
         "compressed" \in Archive.files[i].flags, NEW k \in 1 .. ChunkCount(i),
         NEW c, c = ChunkOf(i, k),
         NEW y \in 1 .. 4
  PROVE  Plain(i)[StoredAt(i, k) + (Len(c) + y)] = END_OF_CHUNK[y]
<1>1. c \in Seq(Byte) /\ Len(c) \in Nat
  BY ChunkSound
<1>2. Len(Marked(c)) = Len(c) + 4
  BY <1>1, MarkedType
<1>3. Marked(c)[Len(c) + 1] = 0 /\ Marked(c)[Len(c) + 2] = 0
      /\ Marked(c)[Len(c) + 3] = 255 /\ Marked(c)[Len(c) + 4] = 255
  BY <1>1, MarkedType
<1>4. PICK z : z = Len(c) + y
  OBVIOUS
<1>5. z \in 1 .. Len(Marked(c))
  BY <1>1, <1>2, <1>4
<1>6. Plain(i)[StoredAt(i, k) + z] = Marked(c)[z]
  BY <1>5, MarkedBytes
<1>7. Marked(c)[z] = END_OF_CHUNK[y]
  <2>1. y = 1 \/ y = 2 \/ y = 3 \/ y = 4
    OBVIOUS
  <2> QED BY <1>3, <1>4, <2>1 DEF END_OF_CHUNK
<1> QED BY <1>4, <1>6, <1>7

(* ... and the content they stand for.                                     *)
LEMMA ChunkContent ==
  ASSUME cab \in DOMAIN Archives, NEW i \in Files, OldSound(i),
         "compressed" \in Archive.files[i].flags, NEW k \in 1 .. ChunkCount(i),
         NEW c, c = ChunkOf(i, k),
         NEW j \in 1 .. Len(Inflate(c))
  PROVE  Archive.content[i][ContentAt(i, k) + j] = Inflate(c)[j]
BY OldChunksMean

(* The chunks lie one behind the other, and none is empty.                 *)
LEMMA ChunksInOrder ==
  ASSUME cab \in DOMAIN Archives, NEW i \in Files, OldSound(i),
         "compressed" \in Archive.files[i].flags,
         NEW j \in 1 .. ChunkCount(i) + 1, NEW k \in 1 .. ChunkCount(i) + 1
  PROVE  /\ StoredAt(i, j) < StoredAt(i, k) => j < k /\ StoredAt(i, j + 1) <= StoredAt(i, k)
         /\ StoredAt(i, k) = Len(Plain(i)) <=> k = ChunkCount(i) + 1
         /\ ContentAt(i, k) = Len(Archive.content[i]) <=> k = ChunkCount(i) + 1
<1>1. PICK n : n = ChunkCount(i) /\ n \in Nat
  BY OldChunksMean
<1>2. \A x \in 1 .. n + 1 : StoredAt(i, x) \in Nat
  BY <1>1, OldChunksMean
<1>3. ASSUME NEW x \in 1 .. n
      PROVE  /\ StoredAt(i, x) < StoredAt(i, x + 1) /\ StoredAt(i, x + 1) <= Len(Plain(i))
             /\ ContentAt(i, x) < ContentAt(i, x + 1)
             /\ ContentAt(i, x + 1) <= Len(Archive.content[i])
             /\ ContentAt(i, x) \in Nat /\ StoredAt(i, x) \in Nat
             /\ ContentAt(i, x + 1) \in Nat /\ StoredAt(i, x + 1) \in Nat
  <2>1. PICK c : c = ChunkOf(i, x)
    OBVIOUS
  <2>2. /\ Len(c) \in Nat /\ Len(Inflate(c)) \in Nat /\ Len(Inflate(c)) > 0
        /\ StoredAt(i, x) \in Nat /\ StoredAt(i, x + 1) = StoredAt(i, x) + (Len(c) + 4)
        /\ StoredAt(i, x + 1) <= Len(Plain(i))
        /\ ContentAt(i, x) \in Nat
        /\ ContentAt(i, x + 1) = ContentAt(i, x) + Len(Inflate(c))
        /\ ContentAt(i, x + 1) <= Len(Archive.content[i])
    BY <1>1, <2>1, ChunkSound, ChunkInflates, ChunkSpots
  <2> QED BY <2>2
<1> DEFINE S == {m \in Nat : \A x \in 1 .. n + 1 :
                   x + m \in 1 .. n + 1 => StoredAt(i, x) <= StoredAt(i, x + m)}
<1>4. Nat \subseteq S
  <2>1. 0 \in S
    <3>1. ASSUME NEW x \in 1 .. n + 1 PROVE StoredAt(i, x) <= StoredAt(i, x + 0)
      <4>1. x + 0 = x
        OBVIOUS
      <4> QED BY <1>2, <4>1
    <3> QED BY <3>1
  <2>2. ASSUME NEW m \in Nat, m \in S PROVE m + 1 \in S
    <3>1. ASSUME NEW x \in 1 .. n + 1, x + (m + 1) \in 1 .. n + 1
          PROVE  StoredAt(i, x) <= StoredAt(i, x + (m + 1))
      <4>1. PICK y : y = x + m
        OBVIOUS
      <4>2. y \in 1 .. n /\ y \in 1 .. n + 1 /\ x + (m + 1) = y + 1
        BY <1>1, <3>1, <4>1
      <4>3. StoredAt(i, x) <= StoredAt(i, y)
        BY <2>2, <4>1, <4>2
      <4>4. StoredAt(i, y) < StoredAt(i, y + 1) /\ StoredAt(i, y) \in Nat /\ StoredAt(i, y + 1) \in Nat
        BY <1>3, <4>2
      <4> QED BY <1>2, <4>2, <4>3, <4>4
    <3> QED BY <3>1
  <2> HIDE DEF S
  <2> QED BY <2>1, <2>2, SetInduction
<1>5. ASSUME NEW x \in 1 .. n + 1, NEW y \in 1 .. n + 1, x <= y
      PROVE  StoredAt(i, x) <= StoredAt(i, y)
  <2>1. PICK m : m = y - x
    OBVIOUS
  <2>2. m \in Nat /\ x + m = y
    BY <1>1, <1>5, <2>1
  <2>3. m \in S
    BY <1>4, <2>2
  <2> QED BY <2>2, <2>3
<1> HIDE DEF S
<1>6. ASSUME StoredAt(i, j) < StoredAt(i, k)
      PROVE  j < k /\ StoredAt(i, j + 1) <= StoredAt(i, k)
  <2>1. j < k
    <3>1. CASE k <= j
      <4>1. StoredAt(i, k) <= StoredAt(i, j)
        BY <1>1, <1>5, <3>1
      <4> QED BY <1>1, <1>2, <1>6, <4>1
    <3> QED BY <1>1, <3>1
  <2>2. j + 1 \in 1 .. n + 1 /\ j + 1 <= k
    BY <1>1, <2>1
  <2> QED BY <1>1, <1>5, <2>1, <2>2
<1>7. /\ StoredAt(i, n + 1) = Len(Plain(i)) /\ ContentAt(i, n + 1) = Len(Archive.content[i])
      /\ Len(Plain(i)) \in Nat /\ Len(Archive.content[i]) \in Nat
  BY <1>1, OldChunksMean, OldSoundMeans, OldContentMeans
<1>8. ASSUME k # n + 1
      PROVE  StoredAt(i, k) < Len(Plain(i)) /\ ContentAt(i, k) < Len(Archive.content[i])
  <2>1. k \in 1 .. n
    BY <1>1, <1>8
  <2> QED BY <1>3, <1>7, <2>1
<1>9. /\ StoredAt(i, k) = Len(Plain(i)) <=> k = n + 1
      /\ ContentAt(i, k) = Len(Archive.content[i]) <=> k = n + 1
  BY <1>7, <1>8
<1> QED BY <1>1, <1>6, <1>9

(* A marker in a sequence; two of them do not overlap.                     *)
LEMMA MarkerIs ==
  ASSUME NEW s \in Seq(Byte), NEW q
  PROVE  q \in Matches(END_OF_CHUNK, s) <=>
           /\ q \in 1 .. Len(s) /\ q + 3 <= Len(s)
           /\ s[q] = 0 /\ s[q + 1] = 0 /\ s[q + 2] = 255 /\ s[q + 3] = 255
<1>1. PICK t : t = END_OF_CHUNK
  OBVIOUS
<1>2. Len(t) = 4 /\ DOMAIN t = 1 .. 4 /\ t[1] = 0 /\ t[2] = 0 /\ t[3] = 255 /\ t[4] = 255
  BY <1>1 DEF END_OF_CHUNK
<1>3. DOMAIN s = 1 .. Len(s) /\ Len(s) \in Nat
  BY LenProperties
<1>4. q \in Matches(t, s) <=> q \in 1 .. Len(s) /\ IsMatch(t, s, q)
  BY <1>3 DEF Matches
<1>5. ASSUME q \in 1 .. Len(s)
      PROVE  IsMatch(t, s, q) <=>
               /\ q + 3 <= Len(s)
               /\ s[q] = 0 /\ s[q + 1] = 0 /\ s[q + 2] = 255 /\ s[q + 3] = 255
  <2>1. q \in Int /\ q + 4 - 1 = q + 3 /\ q + 1 - 1 = q /\ q + 2 - 1 = q + 1 /\ q + 3 - 1 = q + 2
    BY <1>3, <1>5
  <2>2. IsMatch(t, s, q) <=> q + 4 - 1 <= Len(s) /\ \A k \in 1 .. 4 : s[q + k - 1] = t[k]
    BY <1>2 DEF IsMatch
  <2>3. (\A k \in 1 .. 4 : s[q + k - 1] = t[k]) <=>
          /\ s[q + 1 - 1] = t[1] /\ s[q + 2 - 1] = t[2]
          /\ s[q + 3 - 1] = t[3] /\ s[q + 4 - 1] = t[4]
    <3>1. 1 .. 4 = {1, 2, 3, 4}
      OBVIOUS
    <3> QED BY <3>1
  <2> QED BY <1>2, <2>1, <2>2, <2>3
<1> QED BY <1>1, <1>4, <1>5

LEMMA NoOverlap ==
  ASSUME NEW s, NEW q \in Nat, NEW m \in Nat, q < m, m <= q + 3,
         s[q] = 0, s[q + 1] = 0, s[q + 2] = 255, s[q + 3] = 255,
         s[m] = 0, m + 1 <= q + 3 => s[m + 1] = 0
  PROVE  FALSE
<1>1. m = q + 1 \/ m = q + 2 \/ m = q + 3
  OBVIOUS
<1>2. CASE m = q + 1
  <2>1. m + 1 = q + 2
    BY <1>2
  <2> QED BY <2>1
<1>3. CASE m = q + 2 \/ m = q + 3
  BY <1>3
<1> QED BY <1>1, <1>2, <1>3

(* A chunk that the search can tell from its end, and a buffer that begins *)
(* with such a chunk, its marker and nothing odd.                          *)
Telling(c) == \A q \in Matches(END_OF_CHUNK, c) : q + 4 <= Len(c) /\ c[q + 4] % 2 = 1
BeginsWith(s, c) ==
  /\ Len(c) + 4 <= Len(s)
  /\ \A j \in 1 .. Len(c) : s[j] = c[j]
  /\ s[Len(c) + 1] = 0 /\ s[Len(c) + 2] = 0 /\ s[Len(c) + 3] = 255 /\ s[Len(c) + 4] = 255
  /\ Len(c) + 5 <= Len(s) => s[Len(c) + 5] % 2 = 0

(* The first marker of a chunk that an even byte follows, or nothing, is   *)
(* the one at its end.                                                     *)
LEMMA ChunkEndIs ==
  ASSUME NEW s \in Seq(Byte), NEW c \in Seq(Byte), s = input, Telling(c), BeginsWith(s, c)
  PROVE  ChunkEnds # {} /\ Min(ChunkEnds) = Len(c) + 1 /\ Chunk = c
<1> USE DEF Telling, BeginsWith
<1>1. PICK l, n : l = Len(c) /\ n = Len(s) /\ l \in Nat /\ n \in Nat
  BY LenProperties
<1>2. PICK m : m = l + 1
  OBVIOUS
<1>3. m \in 1 .. n /\ m + 3 <= n /\ m \in Nat /\ m + 1 = l + 2 /\ m + 2 = l + 3 /\ m + 3 = l + 4
      /\ m + 4 = l + 5
  BY <1>1, <1>2
<1>4. m \in Matches(END_OF_CHUNK, s)
  <2>1. s[m] = 0 /\ s[m + 1] = 0 /\ s[m + 2] = 255 /\ s[m + 3] = 255
    BY <1>1, <1>2, <1>3
  <2>2. m \in 1 .. Len(s) /\ m + 3 <= Len(s)
    BY <1>1, <1>3
  <2> QED BY <2>1, <2>2, MarkerIs
<1>5. ~BeforeOdd(m)
  <2>1. m + 4 <= n => s[m + 4] % 2 = 0
    BY <1>1, <1>3
  <2> QED BY <1>1, <2>1 DEF BeforeOdd
<1>6. m \in ChunkEnds
  BY <1>4, <1>5 DEF ChunkEnds, Markers
<1>7. ASSUME NEW q \in ChunkEnds, q < m PROVE FALSE
  <2>1. /\ q \in 1 .. n /\ q + 3 <= n
        /\ s[q] = 0 /\ s[q + 1] = 0 /\ s[q + 2] = 255 /\ s[q + 3] = 255
    <3>1. PICK x : x = q /\ x \in Matches(END_OF_CHUNK, s)
      BY <1>7 DEF ChunkEnds, Markers
    <3>2. /\ x \in 1 .. Len(s) /\ x + 3 <= Len(s)
          /\ s[x] = 0 /\ s[x + 1] = 0 /\ s[x + 2] = 255 /\ s[x + 3] = 255
      BY <3>1, MarkerIs
    <3> QED BY <1>1, <3>1, <3>2
  <2>2. q \in Nat
    BY <1>1, <2>1
  <2>3. CASE q + 3 <= l
    <3>1. q \in 1 .. l /\ q + 1 \in 1 .. l /\ q + 2 \in 1 .. l /\ q + 3 \in 1 .. l
      BY <1>1, <2>1, <2>2, <2>3
    <3>2. c[q] = 0 /\ c[q + 1] = 0 /\ c[q + 2] = 255 /\ c[q + 3] = 255
      BY <1>1, <2>1, <3>1
    <3>3. q \in Matches(END_OF_CHUNK, c)
      BY <1>1, <2>3, <3>1, <3>2, MarkerIs
    <3>4. q + 4 <= l /\ c[q + 4] % 2 = 1
      BY <1>1, <3>3
    <3>5. q + 4 \in 1 .. l
      BY <1>1, <2>2, <3>4
    <3>6. s[q + 4] = c[q + 4] /\ q + 4 <= n
      BY <1>1, <3>5
    <3>7. BeforeOdd(q)
      BY <1>1, <3>4, <3>6 DEF BeforeOdd
    <3> QED BY <1>7, <3>7 DEF ChunkEnds
  <2>4. CASE q + 3 > l
    <3>1. m <= q + 3
      BY <1>1, <1>2, <2>2, <2>4
    <3>2. s[m] = 0 /\ s[m + 1] = 0
      BY <1>1, <1>2, <1>3
    <3> QED BY <1>3, <1>7, <2>1, <2>2, <3>1, <3>2, NoOverlap
  <2> QED BY <1>1, <2>2, <2>3, <2>4
<1>8. ChunkEnds \in SUBSET Nat
  <2>1. \A q \in Matches(END_OF_CHUNK, s) : q \in Nat
    BY <1>1, MarkerIs
  <2> QED BY <2>1 DEF ChunkEnds, Markers
<1>9. Min(ChunkEnds) = m
  <2>1. PICK x : x = Min(ChunkEnds)
    OBVIOUS
  <2>2. x \in ChunkEnds /\ x <= m
    BY <1>6, <1>8, <2>1, MinIs
  <2>3. x \in Nat
    BY <1>8, <2>2
  <2>4. ~(x < m)
    BY <1>7, <2>2
  <2> QED BY <1>3, <2>1, <2>2, <2>3, <2>4
<1>10. Chunk = c
  <2>1. PICK t : t = Chunk
    OBVIOUS
  <2>2. m - 1 = l /\ l \in 0 .. n
    BY <1>1, <1>2, <1>3
  <2>3. t = SubSeq(s, 1, l)
    BY <1>9, <2>1, <2>2 DEF Chunk
  <2>4. t \in Seq(Byte) /\ Len(t) = l /\ \A j \in 1 .. l : t[j] = s[j]
    BY <1>1, <2>2, <2>3, FirstOf
  <2>5. \A j \in 1 .. Len(c) : t[j] = c[j]
    BY <1>1, <2>4
  <2>6. t = c
    BY <1>1, <2>4, <2>5, SeqEqual
  <2> QED BY <2>1, <2>6
<1> QED BY <1>1, <1>2, <1>6, <1>9, <1>10

(* What is left behind the marker.                                         *)
LEMMA AfterChunkIs ==
  ASSUME NEW s \in Seq(Byte), s = input, NEW l \in Nat, l + 4 <= Len(s),
         Min(ChunkEnds) = l + 1
  PROVE  /\ AfterChunk \in Seq(Byte) /\ Len(AfterChunk) = Len(s) - (l + 4)
         /\ \A j \in 1 .. Len(AfterChunk) : AfterChunk[j] = s[(l + 4) + j]
<1>1. PICK n, t, x : n = Len(s) /\ t = AfterChunk /\ x = (l + 1) + 4
  OBVIOUS
<1>2. n \in Nat
  BY <1>1, LenProperties
<1>3. x \in 1 .. n + 1 /\ x - 1 = l + 4 /\ n + 1 - x = n - (l + 4)
  BY <1>1, <1>2
<1>4. t = SubSeq(s, x, Len(s))
  BY <1>1 DEF AfterChunk
<1>5. x \in 1 .. Len(s) + 1
  BY <1>1, <1>3
<1>6. t \in Seq(Byte) /\ Len(t) = Len(s) + 1 - x
  BY <1>4, <1>5, RestOf
<1>7. \A j \in 1 .. Len(t) : t[j] = s[(x - 1) + j]
  BY <1>4, <1>5, RestOf
<1>8. \A j \in 1 .. Len(t) : t[j] = s[(l + 4) + j]
  BY <1>3, <1>7
<1> QED BY <1>1, <1>3, <1>6, <1>8

(* In the beginning of a chunk there is no end of one, unless it is cut    *)
(* off right behind a marker.                                              *)
LEMMA NoChunkEnd ==
  ASSUME NEW s \in Seq(Byte), NEW c \in Seq(Byte), s = input,
         \A q \in Matches(END_OF_CHUNK, c) : q + 4 <= Len(c) /\ c[q + 4] % 2 = 1,
         Len(s) < Len(c) + 4, \A j \in 1 .. Len(s) : j <= Len(c) => s[j] = c[j],
         Len(c) + 1 <= Len(s) => s[Len(c) + 1] = 0,
         Len(c) + 2 <= Len(s) => s[Len(c) + 2] = 0,
         \A q \in Matches(END_OF_CHUNK, c) : Len(s) # q + 3
  PROVE  ChunkEnds = {}
<1>1. PICK l, n : l = Len(c) /\ n = Len(s) /\ l \in Nat /\ n \in Nat
  BY LenProperties
<1> SUFFICES ASSUME NEW q \in ChunkEnds PROVE FALSE
  OBVIOUS
<1>2. /\ q \in 1 .. n /\ q + 3 <= n
      /\ s[q] = 0 /\ s[q + 1] = 0 /\ s[q + 2] = 255 /\ s[q + 3] = 255
  <2>1. q \in Matches(END_OF_CHUNK, s)
    BY DEF ChunkEnds, Markers
  <2> QED BY <1>1, <2>1, MarkerIs, SMTT(30)
<1>3. q \in Nat
  BY <1>1, <1>2
<1>4. CASE q + 3 <= l
  <2>1. /\ q \in 1 .. n /\ q + 1 \in 1 .. n /\ q + 2 \in 1 .. n /\ q + 3 \in 1 .. n
        /\ q <= l /\ q + 1 <= l /\ q + 2 <= l /\ q \in 1 .. l
    BY <1>1, <1>2, <1>3, <1>4
  <2>2. c[q] = 0 /\ c[q + 1] = 0 /\ c[q + 2] = 255 /\ c[q + 3] = 255
    BY <1>1, <1>2, <1>4, <2>1
  <2>3. q \in Matches(END_OF_CHUNK, c)
    BY <1>1, <1>4, <2>1, <2>2, MarkerIs
  <2>4. q + 4 <= l /\ c[q + 4] % 2 = 1 /\ n # q + 3
    BY <1>1, <2>3
  <2>5. q + 4 \in 1 .. n
    BY <1>1, <1>2, <1>3, <2>4
  <2>6. s[q + 4] = c[q + 4] /\ q + 4 <= n
    BY <1>1, <2>4, <2>5
  <2>7. BeforeOdd(q)
    BY <1>1, <2>4, <2>6 DEF BeforeOdd
  <2> QED BY <2>7 DEF ChunkEnds
<1>5. CASE q + 3 > l
  <2>1. PICK m : m = l + 1
    OBVIOUS
  <2>2. m \in Nat /\ m <= q + 3 /\ q < m /\ m + 1 = l + 2
    BY <1>1, <1>2, <1>3, <1>5, <2>1
  <2>3. s[m] = 0
    BY <1>1, <1>2, <1>3, <2>1, <2>2
  <2>4. m + 1 <= q + 3 => s[m + 1] = 0
    BY <1>1, <1>2, <1>3, <2>1, <2>2
  <2> QED BY <1>2, <1>3, <2>2, <2>3, <2>4, NoOverlap
<1> QED BY <1>1, <1>3, <1>4, <1>5

-----------------------------------------------------------------------------
(* The file beside the cabinets, with the marker that the reader completes.*)
LEMMA MarkerCompleted ==
  ASSUME NEW s \in Seq(Byte), NEW k \in 0 .. 4, k <= Len(s),
         k # 0 => 4 <= Len(s) /\ \A y \in 1 .. 4 : s[(Len(s) - 4) + y] = END_OF_CHUNK[y]
  PROVE  SubSeq(s, 1, Len(s) - k) \o SubSeq(END_OF_CHUNK, 5 - k, 4) = s
<1>1. PICK t, a, b, n, l, f :
        /\ t = END_OF_CHUNK /\ n = Len(s) /\ l = n - k /\ f = 5 - k
        /\ a = SubSeq(s, 1, l) /\ b = SubSeq(t, f, Len(t))
  OBVIOUS
<1>2. n \in Nat /\ k \in Nat /\ l \in Nat /\ l \in 0 .. Len(s)
  BY <1>1, LenProperties
<1>3. t \in Seq(Byte) /\ Len(t) = 4
  BY <1>1 DEF END_OF_CHUNK, Byte
<1>4. f \in 1 .. Len(t) + 1 /\ Len(t) + 1 - f = k /\ f - 1 = 4 - k
  BY <1>1, <1>2, <1>3
<1>5. a \in Seq(Byte) /\ Len(a) = l /\ \A j \in 1 .. l : a[j] = s[j]
  BY <1>1, <1>2, FirstOf
<1>6. b \in Seq(Byte) /\ Len(b) = k /\ \A j \in 1 .. Len(b) : b[j] = t[(f - 1) + j]
  <2>1. b = SubSeq(t, f, Len(t))
    BY <1>1
  <2>2. t \in Seq(Byte) /\ f \in 1 .. Len(t) + 1
    BY <1>3, <1>4
  <2>3. b \in Seq(Byte) /\ Len(b) = Len(t) + 1 - f
    BY <2>1, <2>2, RestOf
  <2>4. \A j \in 1 .. Len(b) : b[j] = t[(f - 1) + j]
    BY <2>1, <2>2, RestOf
  <2> QED BY <1>4, <2>3, <2>4
<1>7. PICK m : m = a \o b
  OBVIOUS
<1>8. /\ m \in Seq(Byte) /\ Len(m) = l + k
      /\ \A j \in 1 .. l : m[j] = a[j]
      /\ \A j \in 1 .. k : m[l + j] = b[j]
  <2>1. /\ a \o b \in Seq(Byte) /\ Len(a \o b) = Len(a) + Len(b)
        /\ \A j \in 1 .. Len(a) : (a \o b)[j] = a[j]
        /\ \A j \in 1 .. Len(b) : (a \o b)[Len(a) + j] = b[j]
    BY <1>5, <1>6, ConcatAt
  <2> QED BY <1>5, <1>6, <1>7, <2>1
<1>9. Len(m) = n
  BY <1>1, <1>2, <1>8
<1>10. ASSUME NEW j \in 1 .. n PROVE m[j] = s[j]
  <2>1. CASE j <= l
    <3>1. j \in 1 .. l
      BY <1>2, <2>1
    <3> QED BY <1>5, <1>8, <3>1
  <2>2. CASE j > l
    <3>1. PICK x, y : x = j - l /\ y = (4 - k) + x
      OBVIOUS
    <3>2. x \in 1 .. k /\ l + x = j /\ y \in 1 .. 4 /\ (n - 4) + y = j /\ k # 0
      <4>1. l = n - k /\ l \in Nat /\ j \in 1 .. n /\ n \in Nat /\ k \in 0 .. 4
        BY <1>1, <1>2
      <4> HIDE <1>1, <1>2
      <4> QED BY <2>2, <3>1, <4>1
    <3>3. m[j] = b[x] /\ b[x] = t[y]
      BY <1>4, <1>6, <1>8, <3>1, <3>2
    <3>4. s[(n - 4) + y] = t[y]
      BY <1>1, <3>2
    <3> QED BY <3>2, <3>3, <3>4
  <2> QED BY <1>2, <2>1, <2>2
<1>11. m = s
  <2>1. Len(m) = Len(s) /\ \A j \in 1 .. Len(s) : m[j] = s[j]
    BY <1>1, <1>9, <1>10
  <2> QED BY <1>8, <2>1, SeqEqual
<1>12. 4 = Len(t) /\ Len(s) - k = l /\ 5 - k = f
  BY <1>1, <1>3
<1> QED BY <1>1, <1>7, <1>11, <1>12

LEMMA LastMarker ==
  ASSUME cab \in DOMAIN Archives, NEW i \in Files, OldSound(i),
         "compressed" \in Archive.files[i].flags, NEW s, s = Plain(i), Len(s) # 0
  PROVE  4 <= Len(s) /\ \A y \in 1 .. 4 : s[(Len(s) - 4) + y] = END_OF_CHUNK[y]
<1>1. PICK k, n : k = ChunkCount(i) /\ n = Len(s) /\ k \in Nat /\ n \in Nat
  BY OldChunksMean, OldSoundMeans
<1>2. StoredAt(i, 1) = 0 /\ StoredAt(i, k + 1) = n
  BY <1>1, OldChunksMean
<1>3. k # 0
  BY <1>1, <1>2
<1>4. PICK c, a : c = ChunkOf(i, k) /\ a = StoredAt(i, k)
  OBVIOUS
<1>5. k \in 1 .. ChunkCount(i)
  BY <1>1, <1>3
<1>6. /\ Len(c) \in Nat /\ a \in Nat /\ n = a + (Len(c) + 4)
      /\ s[a + (Len(c) + 1)] = 0 /\ s[a + (Len(c) + 2)] = 0
      /\ s[a + (Len(c) + 3)] = 255 /\ s[a + (Len(c) + 4)] = 255
  <2>1. Len(c) \in Nat /\ StoredAt(i, k) \in Nat
    BY <1>4, <1>5, ChunkSound, ChunkSpots
  <2>2. StoredAt(i, k + 1) = StoredAt(i, k) + (Len(c) + 4)
    BY <1>4, <1>5, ChunkSpots
  <2>3. PICK t : t = END_OF_CHUNK
    OBVIOUS
  <2>4. t[1] = 0 /\ t[2] = 0 /\ t[3] = 255 /\ t[4] = 255
    BY <2>3 DEF END_OF_CHUNK
  <2>5. ASSUME NEW y \in 1 .. 4 PROVE s[a + (Len(c) + y)] = t[y]
    <3>1. Plain(i)[StoredAt(i, k) + (Len(c) + y)] = END_OF_CHUNK[y]
      BY <1>4, <1>5, ChunkMarker
    <3> QED BY <1>4, <2>3, <3>1
  <2>6. n = a + (Len(c) + 4)
    BY <1>2, <1>4, <2>2
  <2> QED BY <1>4, <2>1, <2>4, <2>5, <2>6
<1>7. /\ (n - 4) + 1 = a + (Len(c) + 1) /\ (n - 4) + 2 = a + (Len(c) + 2)
      /\ (n - 4) + 3 = a + (Len(c) + 3) /\ (n - 4) + 4 = a + (Len(c) + 4) /\ 4 <= n
  BY <1>1, <1>6
<1>8. PICK t : t = END_OF_CHUNK
  OBVIOUS
<1>9. t[1] = 0 /\ t[2] = 0 /\ t[3] = 255 /\ t[4] = 255
  BY <1>8 DEF END_OF_CHUNK
<1>10. /\ s[(n - 4) + 1] = t[1] /\ s[(n - 4) + 2] = t[2]
      /\ s[(n - 4) + 3] = t[3] /\ s[(n - 4) + 4] = t[4]
  BY <1>6, <1>7, <1>9
<1>11. ASSUME NEW y \in 1 .. 4 PROVE s[(n - 4) + y] = t[y]
  <2>1. y = 1 \/ y = 2 \/ y = 3 \/ y = 4
    OBVIOUS
  <2> QED BY <1>10, <2>1
<1> QED BY <1>1, <1>7, <1>8, <1>11

LEMMA BesideBytes ==
  ASSUME OInv, TrueCache, NEW i \in Files, IsBesideFile(i), fds[i] # NotRead
  PROVE  /\ ExternalBytes(i) = Plain(i) /\ ExternalLeft(i) = Len(Plain(i))
         /\ "obfuscated" \notin fds[i].flags
<1>1. PICK d, e, s, x : d = fds[i] /\ e = Archive.files[i] /\ s = Stored(i) /\ x = Archive.external[i]
  OBVIOUS
<1>2. IInv /\ cab \in DOMAIN Archives /\ OldSound(i) /\ s \in Seq(Byte) /\ Len(s) \in Nat
  BY <1>1, OldTypes, StoredType DEF OldSound, IsBesideFile
<1>3. /\ "obfuscated" \notin e.flags /\ StoredSize(e.flags, e) = Len(s) /\ Len(s) < U32
      /\ \E k \in 0 .. (IF "compressed" \in e.flags THEN 4 ELSE 0) : x = SubSeq(s, 1, Len(s) - k)
  BY <1>1, <1>2, BesideMeans
<1>4. Plain(i) = s
  BY <1>1, <1>2, OldSoundMeans
<1>5. /\ d.compressed = e.compressed /\ "compressed" \in d.flags <=> "compressed" \in e.flags
      /\ StoredSize(d.flags, d) = StoredSize(e.flags, e)
  BY <1>1, <1>2, EntryCached
<1>6. "obfuscated" \notin d.flags
  <2>1. FromTable(ReadFileDescriptor(i), d)
    BY <1>1 DEF TrueCache
  <2>2. d.flags \in {ReadFileDescriptor(i).flags, ReadFileDescriptor(i).flags \cup {"split"}}
    BY <2>1 DEF FromTable
  <2>3. ReadFileDescriptor(i).flags = e.flags
    <3>1. e \in FileDescriptor
      BY <1>1, <1>2, ArchiveType
    <3> QED BY <1>1, <3>1 DEF ReadFileDescriptor, FileDescriptor
  <2> QED BY <1>3, <2>2, <2>3
<1>7. PICK k \in 0 .. 4 : /\ x = SubSeq(s, 1, Len(s) - k)
                          /\ k # 0 => "compressed" \in e.flags
                          /\ k <= Len(s) /\ Len(x) = Len(s) - k
  <2>1. PICK k \in 0 .. (IF "compressed" \in e.flags THEN 4 ELSE 0) : x = SubSeq(s, 1, Len(s) - k)
    BY <1>3
  <2>2. k \in 0 .. 4 /\ k \in Nat /\ (k # 0 => "compressed" \in e.flags)
    BY <2>1
  <2>3. CASE k <= Len(s)
    <3>1. PICK l : l = Len(s) - k /\ l \in 0 .. Len(s)
      BY <1>2, <2>2, <2>3
    <3>2. Len(x) = l
      BY <1>2, <2>1, <3>1, FirstOf
    <3> QED BY <2>1, <2>2, <2>3, <3>1, <3>2
  <2>4. CASE k > Len(s)
    <3>1. Len(s) = 0
      <4>1. Len(s) # 0 => 4 <= Len(s)
        BY <1>2, <1>4, <2>2, <2>4, LastMarker, <1>1
      <4> QED BY <1>2, <2>2, <2>4, <4>1
    <3>2. x = <<>> /\ SubSeq(s, 1, Len(s) - 0) = <<>> /\ Len(x) = Len(s) - 0
      <4>1. x = <<>>
        BY <2>1, <2>2, <2>4, <3>1, SubSeqProperties
      <4>2. PICK y : y = SubSeq(s, 1, 0)
        OBVIOUS
      <4>3. y = <<>>
        BY <4>2, SubSeqProperties
      <4> QED BY <3>1, <4>1, <4>2, <4>3
    <3>3. x = SubSeq(s, 1, Len(s) - 0) /\ 0 <= Len(s) /\ 0 \in 0 .. 4
      BY <3>1, <3>2
    <3> QED BY <3>2, <3>3
  <2> QED BY <1>2, <2>2, <2>3, <2>4
<1>8. Supplement(i) = k
  <2>1. k # 0 => d.compressed = Len(s)
    BY <1>1, <1>3, <1>5, <1>7 DEF StoredSize
  <2>2. Missing(i) = IF "compressed" \in d.flags THEN d.compressed - Len(x) ELSE 0
    BY <1>1 DEF Missing
  <2>3. "compressed" \in d.flags => d.compressed = Len(s)
    BY <1>1, <1>3, <1>5 DEF StoredSize
  <2>4. Missing(i) = k
    <3>1. CASE "compressed" \in d.flags
      BY <1>2, <1>7, <2>2, <2>3, <3>1
    <3>2. CASE "compressed" \notin d.flags
      BY <1>5, <1>7, <2>2, <3>2
    <3> QED BY <3>1, <3>2
  <2> QED BY <2>4 DEF Supplement
<1>9. ExternalBytes(i) = s
  <2>1. k # 0 => 4 <= Len(s) /\ \A y \in 1 .. 4 : s[(Len(s) - 4) + y] = END_OF_CHUNK[y]
    <3>1. k # 0 => Len(s) # 0
      BY <1>2, <1>7
    <3> QED BY <1>1, <1>2, <1>4, <1>7, <3>1, LastMarker
  <2>2. SubSeq(s, 1, Len(s) - k) \o SubSeq(END_OF_CHUNK, 5 - k, 4) = s
    BY <1>2, <1>7, <2>1, MarkerCompleted
  <2> QED BY <1>1, <1>7, <1>8, <2>2 DEF ExternalBytes
<1>10. ExternalLeft(i) = Len(s)
  <2>1. ExternalLeft(i) = Len(s) % U32
    BY <1>1, <1>3, <1>5, <1>9 DEF ExternalLeft
  <2> QED BY <1>2, <1>3, <2>1, ModSmall
<1> QED BY <1>1, <1>4, <1>6, <1>9, <1>10

-----------------------------------------------------------------------------
(* What a call knows of its file, and keeps.                               *)
LEMMA OldEntry ==
  ASSUME OInv, TrueCache, pc \notin {"idle", "lookup"},
         NEW i, i = call.index, NEW e, e = Archive.files[i]
  PROVE  /\ i \in Files /\ fds[i] # NotRead /\ cab \in DOMAIN Archives
         /\ Compressed <=> "compressed" \in e.flags
         /\ fd.expanded = e.expanded /\ fd.offset = e.offset
<1>1. i \in Files /\ fds[i] # NotRead /\ IInv /\ cab \in DOMAIN Archives
  BY OldTypes DEF OInv, OldControl, OldFile
<1>2. PICK d : d = fds[i]
  OBVIOUS
<1>3. /\ d.offset = e.offset /\ d.expanded = e.expanded
      /\ "compressed" \in d.flags <=> "compressed" \in e.flags
  BY <1>1, <1>2, EntryCached
<1> QED BY <1>1, <1>2, <1>3 DEF Compressed, fd

LEMMA SameKind ==
  ASSUME OInv, [OldNext]_oldVars, pc \notin {"idle", "lookup"}, call'.index = call.index
  PROVE  Compressed' <=> Compressed
<1>1. PICK i \in Files : i = call.index /\ fds[i] # NotRead
  BY OldTypes DEF OInv, OldControl, OldFile
<1>2. CASE [Next]_vars
  <2>1. Learns(fds[i], fds'[i])
    BY <1>1, <1>2, OldTypes, StepLearns
  <2>2. fds'[i].flags \in {fds[i].flags, fds[i].flags \cup {"split"}}
    BY <2>1 DEF Learns
  <2> QED BY <1>1, <2>2 DEF Compressed, fd
<1>3. CASE ReadBegin(rd.left)
  BY <1>3 DEF ReadBegin, Compressed, fd
<1> QED BY <1>2, <1>3, OldStepsOfReader

LEMMA NextByKind ==
  ASSUME OInv, ByKind, [OldNext]_oldVars PROVE ByKind'
<1> SUFFICES ASSUME pc' \in {"part", "data"}
             PROVE  (pc' = "part" => Compressed') /\ (pc' = "data" => ~Compressed')
  BY DEF ByKind
<1>1. \/ AskPart \/ AskCopied
      \/ pc' = pc
  BY OldLoopSteps
     DEF OpenOldOutput, OpenNextVolume, FinishOldRead, FinishRead, PartDone, WriteOld, WriteChunk,
         WriteCopied, HasChunk, InPart, oldVars, allVars, locals
<1>2. ~AskOld /\ ~FollowLink
  BY DEF AskOld, BeginOld, Begin, FollowLink, At
<1>3. pc \notin {"idle", "lookup"}
  BY <1>1 DEF AskPart, AskCopied, HasVolume
<1>4. Compressed' <=> Compressed
  BY <1>2, <1>3, OldArguments, SameKind
<1>5. CASE AskPart
  BY <1>4, <1>5 DEF AskPart
<1>6. CASE AskCopied
  BY <1>4, <1>6 DEF AskCopied
<1> QED BY <1>1, <1>4, <1>5, <1>6 DEF ByKind

(* As long as the call has bytes to write there is more of its file to     *)
(* read, or it has been read and not taken apart.                          *)
LEMMA MoreToRead ==
  ASSUME OInv, TrueCache, Position, pc \in {"loop", "fill"}, call.left > 0,
         NEW i \in Files, i = call.index, OldSound(i)
  PROVE  Len(got) < Len(Plain(i)) /\ input = <<>>
<1>1. /\ cab \in DOMAIN Archives /\ call.left \in Nat /\ call.total \in Nat
      /\ Len(got) \in Nat /\ Len(Plain(i)) \in Nat
  BY OldTypes, OldSoundMeans
<1>2. input = <<>>
  BY DEF OInv, OldControl, InputTaken
<1>3. CASE Compressed
  <2>1. PICK k \in 1 .. ChunkCount(i) + 1 : TakenTo(i, k)
    BY <1>3 DEF Position, ChunksTaken
  <2>2. /\ Len(got) = StoredAt(i, k) + Len(input) /\ Len(got) <= Len(Plain(i))
        /\ call.total = ContentAt(i, k) /\ call.left + call.total = Len(Archive.content[i])
    BY <2>1 DEF TakenTo
  <2>3. "compressed" \in Archive.files[i].flags
    BY <1>3, OldEntry
  <2>4. StoredAt(i, k) \in Nat
    BY <1>1, <2>3, OldChunksMean
  <2>5. Len(got) = StoredAt(i, k)
    BY <1>2, <2>2, <2>4
  <2>6. ContentAt(i, k) # Len(Archive.content[i])
    BY <1>1, <2>2
  <2>7. StoredAt(i, k) # Len(Plain(i))
    BY <1>1, <2>3, <2>6, ChunksInOrder
  <2> QED BY <1>1, <1>2, <2>2, <2>5, <2>7
<1>4. CASE ~Compressed
  <2>1. call.left + call.total = Len(Plain(i)) /\ Len(got) = call.total
    BY <1>4 DEF Position, BytesCopied, CopiedTo
  <2> QED BY <1>1, <1>2, <2>1
<1> QED BY <1>3, <1>4

(* No more of a file is asked for than it has.                             *)
LEMMA OldWithin ==
  ASSUME OInv, TrueCache, Position, pc \in {"loop", "fill", "part", "data"},
         NEW i \in Files, i = call.index, OldSound(i)
  PROVE  /\ Len(got) <= Len(Plain(i))
         /\ io.status = "reading" => Len(got) + io.size <= Len(Plain(i))
         /\ io.status \in {"idle", "reading"} /\ rd.index = i
         /\ Intact(i) => WithinFile
         /\ pc = "data" /\ io.status = "reading" => io.size > 0 /\ io.size = NextSize
<1>1. /\ cab \in DOMAIN Archives /\ call.left \in Nat /\ call.total \in Nat
      /\ Len(got) \in Nat /\ Len(Plain(i)) \in Nat /\ Len(io.buf) \in Nat /\ io.size \in Nat
  BY OldTypes, OldSoundMeans, InvTypes
<1>2. io.status \in {"idle", "reading"} /\ rd.index = i /\ (pc \in {"loop", "fill"} => io.status = "idle")
  BY DEF OInv, OldControl, OldStatus, OldFile
<1>3. CASE pc \in {"loop", "fill", "part"} /\ Compressed
  <2>1. Len(got) <= Len(Plain(i))
    BY <1>3 DEF Position, ChunksTaken, TakenTo
  <2>2. io.status = "reading" => Len(got) + io.size <= Len(Plain(i))
    BY <1>2, <1>3 DEF Position, PartWithin
  <2> QED BY <1>1, <1>2, <1>3, <2>1, <2>2, IntactMeans DEF WithinFile, Asked
<1>4. CASE pc \in {"loop", "fill", "data"} /\ ~Compressed
  <2>1. CopiedTo(i)
    BY <1>4 DEF Position, BytesCopied
  <2>2. call.left + call.total = Len(Plain(i)) /\ (pc = "data" => io.size = NextSize)
    BY <2>1 DEF CopiedTo
  <2>3. Len(got) <= Len(Plain(i)) /\ (io.status = "reading" => Len(got) = call.total)
    BY <1>1, <2>1 DEF CopiedTo
  <2>4. pc = "data" => NextSize \in 1 .. BUFFER_SIZE /\ NextSize <= call.left
    BY OldTypes DEF OInv, OldControl, WorkLeft
  <2>5. io.status = "reading" => pc = "data"
    BY <1>2, <1>4
  <2>6. io.status = "reading" => Len(got) + io.size <= Len(Plain(i)) /\ io.size > 0
    BY <1>1, <2>2, <2>3, <2>4, <2>5
  <2> QED BY <1>1, <1>2, <2>2, <2>3, <2>6, IntactMeans DEF WithinFile, Asked
<1> QED BY <1>3, <1>4 DEF Position, ByKind

-----------------------------------------------------------------------------
(* A read of a file that can be extracted does not fail, and of a file     *)
(* beside the cabinets it is one fread.                                    *)
LEMMA ReadsSomething ==
  ASSUME OInv, TrueCache, Position, pc \in {"part", "data"}, io.status = "reading",
         NEW i \in Files, i = call.index, OldSound(i)
  PROVE  io.size > 0 /\ io.left > 0 /\ (io.buf = <<>> => rd.left > 0)
<1>1. /\ rd.left \in Nat /\ io.size \in Nat /\ io.left \in Nat /\ Len(io.buf) \in Nat
      /\ Len(io.buf) + io.left = io.size /\ SomeLeft
  BY InvTypes DEF OInv
<1>2. io.buf = <<>> => rd.left # 0
  BY DEF Position, SomethingThere
<1>3. io.size > 0
  <2>1. CASE pc = "data"
    BY <2>1, OldWithin
  <2>2. CASE pc = "part"
    <3>1. io.buf = <<>> /\ io.size = rd.left
      BY <2>2 DEF OInv, OldControl, PartIsRead
    <3> QED BY <1>1, <1>2, <3>1
  <2> QED BY <2>1, <2>2
<1> QED BY <1>1, <1>2, <1>3 DEF SomeLeft

LEMMA BesideReads ==
  ASSUME OInv, TrueCache, Position, pc \in {"part", "data"}, io.status = "reading",
         NEW i \in Files, i = call.index, IsBesideFile(i)
  PROVE  BytesToRead = io.left /\ io.left = io.size /\ io.left > 0 /\ Enough
<1>1. /\ rd.left \in Nat /\ rd.pos \in Nat /\ io.size \in Nat /\ io.left \in Nat
      /\ Len(io.buf) \in Nat /\ Len(io.buf) + io.left = io.size /\ OnePart
      /\ Len(got) \in Nat /\ cab \in DOMAIN Archives
  BY InvTypes DEF OInv
<1>2. OldSound(i)
  BY DEF OldSound, IsBesideFile
<1>3. rd.index = i /\ fds[i] # NotRead
  BY OldEntry DEF OInv, OldControl, OldFile
<1>4. rd.src = ExternalSource /\ rd.left = Len(Plain(i)) - Len(got)
  BY DEF Position, FromBeside, InOldLoop
<1>5. ExternalBytes(i) = Plain(i) /\ Len(Plain(i)) \in Nat
  BY <1>1, <1>2, <1>3, BesideBytes, OldSoundMeans
<1>6. io.buf = <<>> /\ rd.pos = Len(got)
  BY <1>1, <1>4 DEF OnePart
<1>7. io.left = io.size
  BY <1>1, <1>6
<1>8. Len(got) + io.size <= Len(Plain(i)) /\ io.left > 0
  BY <1>2, OldWithin, ReadsSomething
<1>9. BytesToRead = io.left
  <2>1. io.left <= rd.left
    BY <1>1, <1>4, <1>5, <1>7, <1>8
  <2> QED BY <1>1, <2>1 DEF BytesToRead
<1>10. Enough
  <2>1. SourceBytes = Plain(i)
    BY <1>3, <1>4, <1>5 DEF SourceBytes
  <2>2. ExternalSource # 0
    BY U16Assumption DEF ExternalSource
  <2> QED BY <1>1, <1>4, <1>6, <1>7, <1>8, <1>9, <2>1, <2>2 DEF Enough
<1> QED BY <1>7, <1>8, <1>9, <1>10

(* The reader stands in the part where the next byte of the file is.       *)
LEMMA IntactStands ==
  ASSUME OInv, TrueCache, Position, pc \in {"loop", "fill", "part", "data"},
         NEW i \in Files, i = call.index, OldSound(i), Intact(i),
         Len(got) < Len(Plain(i)), io.status = "reading" => io.size > 0
  PROVE  /\ AtPart(i) /\ rd.index = i /\ Len(Plain(i)) = Len(Stored(i))
         /\ rd.src \in Lo(i) .. Hi(i) /\ Raw \in Nat
         /\ rd.left = StartOf(i, rd.src + 1) - Raw
         /\ StartOf(i, rd.src + 1) < Len(Plain(i)) => rd.src < Hi(i)
<1>1. WithinFile /\ rd.index = i /\ io.status \in {"idle", "reading"}
  BY OldWithin
<1>2. StreamInv /\ InStep /\ cab \in DOMAIN Archives /\ Len(got) \in Nat /\ Len(io.buf) \in Nat
  BY InvTypes DEF OInv
<1>3. Raw \in Nat
  BY <1>2 DEF Raw
<1>4. Len(Plain(i)) = Len(Stored(i)) /\ Len(Plain(i)) \in Nat
  BY <1>2, OldSoundMeans
<1>5. AtPart(i) \/ AtEnd(i)
  BY <1>1, <1>2 DEF InStep
<1>6. ~AtEnd(i)
  <2>1. CASE io.status = "reading"
    BY <1>1, <1>2, <2>1, EndReadsNothing
  <2>2. CASE io.status = "idle"
    <3>1. Raw = Len(got)
      BY <1>2, <2>2 DEF Raw
    <3> QED BY <1>2, <1>4, <3>1 DEF AtEnd
  <2> QED BY <1>1, <2>1, <2>2
<1>7. AtPart(i)
  BY <1>5, <1>6
<1>8. rd.src \in Lo(i) .. Hi(i) /\ rd.left = StartOf(i, rd.src + 1) - Raw
  BY <1>7 DEF AtPart
<1>9. StartOf(i, rd.src + 1) < Len(Plain(i)) => rd.src < Hi(i)
  <2>1. Lo(i) \in Nat /\ Hi(i) \in Nat /\ StartOf(i, Hi(i) + 1) = Len(Stored(i))
    BY <1>2, IntactMeans, PartsInOrder
  <2>2. rd.src = Hi(i) => StartOf(i, rd.src + 1) = Len(Plain(i))
    BY <1>4, <2>1
  <2> QED BY <1>4, <1>8, <2>1, <2>2
<1> QED BY <1>1, <1>3, <1>4, <1>7, <1>8, <1>9

LEMMA IntactReads ==
  ASSUME OInv, TrueCache, Position, pc \in {"part", "data"}, io.status = "reading",
         NEW i \in Files, i = call.index, OldSound(i), Intact(i)
  PROVE  /\ Enough /\ BytesToRead > 0 /\ AtPart(i) /\ rd.index = i
         /\ BytesToRead < io.left => rd.src < Hi(i)
<1>1. /\ rd.left \in Nat /\ io.size \in Nat /\ io.left \in Nat
      /\ Len(io.buf) \in Nat /\ Len(io.buf) + io.left = io.size /\ StreamInv
      /\ Len(got) \in Nat /\ cab \in DOMAIN Archives
  BY InvTypes DEF OInv
<1>2. io.size > 0 /\ io.left > 0 /\ (io.buf = <<>> => rd.left > 0)
  BY ReadsSomething
<1>3. Len(got) + io.size <= Len(Plain(i)) /\ Len(Plain(i)) \in Nat
  BY <1>1, OldWithin, OldSoundMeans
<1>4. Len(got) < Len(Plain(i))
  BY <1>1, <1>2, <1>3
<1>5. /\ AtPart(i) /\ rd.src \in Lo(i) .. Hi(i) /\ Raw \in Nat /\ rd.index = i
      /\ rd.left = StartOf(i, rd.src + 1) - Raw
      /\ StartOf(i, rd.src + 1) < Len(Plain(i)) => rd.src < Hi(i)
  BY <1>2, <1>4, IntactStands
<1>6. Enough
  BY <1>1, <1>5, IntactMeans, PartReads
<1>7. rd.left > 0
  BY <1>1, <1>2, <1>5 DEF AtPart
<1>8. BytesToRead > 0
  BY <1>1, <1>2, <1>7 DEF BytesToRead
<1>9. ASSUME BytesToRead < io.left PROVE rd.src < Hi(i)
  <2>1. BytesToRead = rd.left /\ rd.left < io.left
    BY <1>1, <1>9 DEF BytesToRead
  <2>2. Raw = Len(got) + Len(io.buf)
    BY DEF Raw
  <2>3. StartOf(i, rd.src + 1) \in Nat
    BY <1>1, <1>5, IntactMeans, PartsInOrder
  <2>4. StartOf(i, rd.src + 1) < Len(Plain(i))
    <3>1. PICK a, w, g, b, m, s, p :
            /\ a = StartOf(i, rd.src + 1) /\ w = Raw /\ g = Len(got) /\ b = Len(io.buf)
            /\ m = io.left /\ s = io.size /\ p = Len(Plain(i))
      OBVIOUS
    <3>2. a \in Nat /\ w \in Nat /\ a - w < m
      BY <1>5, <2>1, <2>3, <3>1
    <3>3. w = g + b /\ b + m = s /\ g + s <= p
      BY <1>1, <1>3, <2>2, <3>1
    <3>4. g \in Nat /\ b \in Nat /\ m \in Nat /\ s \in Nat /\ p \in Nat
      BY <1>1, <1>3, <3>1
    <3>5. a < p
      BY <3>2, <3>3, <3>4
    <3> QED BY <3>1, <3>5
  <2> QED BY <1>5, <2>4
<1> QED BY <1>5, <1>6, <1>8, <1>9

(* So the steps of failing reads and volumes are those of other files.     *)
LEMMA SoundReadsOn ==
  ASSUME OInv, TrueCache, Position, pc \in {"loop", "fill", "part", "data"},
         NEW i \in Files, i = call.index, OldSound(i)
  PROVE  /\ ~ReadFails
         /\ ContinueRead => /\ pc = "data" /\ Intact(i) /\ io'.status = "reading" /\ pc' = pc
                            /\ io'.buf # <<>> /\ io'.size = io.size /\ UNCHANGED <<call, got>>
         /\ OpenNextVolume => /\ Intact(i) /\ io'.status = "idle" /\ pc' = "fill"
                              /\ rd'.left # 0 /\ UNCHANGED <<call, got, input>>
<1>0. StreamInv /\ cab \in DOMAIN Archives /\ (Intact(i) \/ IsBesideFile(i))
  BY OldTypes, OldSoundMeans
<1>1. io.status = "reading" => pc \in {"part", "data"}
  BY DEF OInv, OldControl, OldStatus
<1>2. ASSUME ReadFails PROVE FALSE
  <2>1. io.status = "reading" /\ (BytesToRead = 0 \/ ~Enough)
    BY <1>2 DEF ReadFails, ReadFail
  <2>2. io.left \in Nat
    BY <1>0, InvTypes
  <2>3. Enough /\ BytesToRead # 0
    <3>1. CASE Intact(i)
      BY <1>1, <2>1, <3>1, IntactReads
    <3>2. CASE IsBesideFile(i)
      BY <1>1, <2>1, <2>2, <3>2, BesideReads
    <3> QED BY <1>0, <3>1, <3>2
  <2> QED BY <2>1, <2>3
<1>3. ASSUME ContinueRead
      PROVE  /\ pc = "data" /\ Intact(i) /\ io'.status = "reading" /\ pc' = pc
             /\ io'.buf # <<>> /\ io'.size = io.size /\ UNCHANGED <<call, got>>
  <2>1. PICK opened, failed :
          /\ opened = [io EXCEPT !.left = @ - BytesToRead, !.buf = @ \o Fread]
          /\ failed = [io EXCEPT !.status = "failed"]
          /\ OpensNext(opened, failed) /\ io.status = "reading" /\ BytesToRead < io.left
          /\ UNCHANGED call /\ pc' = IF io'.status = "failed" THEN "exit" ELSE pc
    BY <1>3 DEF ContinueRead, ReadAcross
  <2>2. pc = "data"
    <3>1. pc # "part"
      <4>1. rd.left \in Nat
        BY OldTypes
      <4> QED BY <2>1, <4>1 DEF BytesToRead, OInv, OldControl, PartIsRead
    <3> QED BY <1>1, <2>1, <3>1
  <2>3. Intact(i)
    <3>1. io.left \in Nat
      BY <1>0, InvTypes
    <3>2. ~IsBesideFile(i)
      BY <2>1, <2>2, <3>1, BesideReads
    <3> QED BY <1>0, <3>2
  <2>4. Enough /\ BytesToRead > 0 /\ AtPart(i) /\ rd.index = i /\ rd.src < Hi(i)
    BY <2>1, <2>2, <2>3, IntactReads
  <2>5. io' = opened /\ UNCHANGED got
    BY <1>0, <2>1, <2>3, <2>4, NextVolumeOpened
  <2>6. PICK b, f : b = io.buf /\ f = Fread
    OBVIOUS
  <2>7. b \in Seq(Byte) /\ f \in Seq(Byte) /\ Len(f) = BytesToRead /\ BytesToRead \in Nat
    BY <1>0, <2>1, <2>4, <2>6, InvTypes, FreadType
  <2>8. b \o f # <<>>
    <3>1. Len(b \o f) = Len(b) + Len(f) /\ Len(b) \in Nat
      BY <2>7, ConcatProperties, LenProperties
    <3> QED BY <2>4, <2>7, <3>1
  <2>9. io \in IoType
    BY <1>0, InvTypes
  <2>10. io'.status = "reading" /\ io'.buf = b \o f /\ io'.size = io.size
    BY <2>1, <2>5, <2>6, <2>9 DEF IoType
  <2> QED BY <2>1, <2>2, <2>3, <2>5, <2>8, <2>10
<1>4. ASSUME OpenNextVolume
      PROVE  /\ Intact(i) /\ io'.status = "idle" /\ pc' = "fill"
             /\ rd'.left # 0 /\ UNCHANGED <<call, got, input>>
  <2>1. /\ pc = "loop" /\ call.left > 0 /\ io.status = "idle" /\ rd.left = 0
        /\ OpensNext(NoCall("idle"), NoCall("failed")) /\ UNCHANGED <<call, input>>
        /\ pc' = IF io'.status = "failed" THEN "exit" ELSE "fill"
    BY <1>4 DEF OpenNextVolume, OpenNext
  <2>2. Len(got) < Len(Plain(i)) /\ Len(got) \in Nat /\ Len(Plain(i)) \in Nat
    BY <1>0, <2>1, MoreToRead, InvTypes, OldSoundMeans
  <2>3. Intact(i)
    <3>1. IsBesideFile(i) => rd.left = Len(Plain(i)) - Len(got)
      BY <2>1 DEF Position, FromBeside, InOldLoop
    <3> QED BY <1>0, <2>1, <2>2, <3>1
  <2>4. /\ AtPart(i) /\ rd.src \in Lo(i) .. Hi(i) /\ rd.left = StartOf(i, rd.src + 1) - Raw
        /\ StartOf(i, rd.src + 1) < Len(Plain(i)) => rd.src < Hi(i)
        /\ rd.index = i /\ Raw \in Nat
    BY <2>1, <2>2, <2>3, IntactStands
  <2>5. Raw = Len(got)
    BY <2>1, <2>2 DEF Raw
  <2>6. /\ Lo(i) \in Nat /\ Hi(i) \in Nat /\ StartOf(i, rd.src + 1) \in Nat
        /\ Split(i) <=> Lo(i) < Hi(i)
    BY <1>0, <2>3, <2>4, IntactMeans, PartsInOrder
  <2>7. rd.src < Hi(i)
    BY <2>1, <2>2, <2>4, <2>5, <2>6
  <2>8. PICK v : v = rd.src + 1 /\ v \in Lo(i) .. Hi(i)
    BY <2>4, <2>6, <2>7
  <2>9. StartOf(i, v) \in Nat /\ StartOf(i, v + 1) \in Nat /\ StartOf(i, v) < StartOf(i, v + 1)
    <3>1. Split(i)
      BY <2>4, <2>6, <2>7
    <3> QED BY <1>0, <2>3, <2>8, <3>1, IntactMeans, PartsInOrder
  <2>10. /\ io' = NoCall("idle") /\ UNCHANGED got
         /\ StandsAt(rd', rd.src + 1, OffsetOf(i, rd.src + 1),
                     StartOf(i, rd.src + 1 + 1) - StartOf(i, rd.src + 1))
    <3>1. NoCall("idle") # NoCall("failed")
      BY DEF NoCall
    <3> QED BY <1>0, <2>1, <2>3, <2>4, <2>7, <3>1, IntactMeans, NextVolumeOpened
  <2>11. rd'.left = StartOf(i, v + 1) - StartOf(i, v)
    BY <2>8, <2>10 DEF StandsAt
  <2> QED BY <2>1, <2>3, <2>9, <2>10, <2>11 DEF NoCall
<1> QED BY <1>2, <1>3, <1>4

-----------------------------------------------------------------------------
(* Where the reader is, after a step.                                      *)
LEMMA NextFromBeside ==
  ASSUME OInv, TrueCache, FoundBeside, AtStart, Position, [OldNext]_oldVars
  PROVE  FromBeside'
<1>1. UNCHANGED cab /\ Plain(call.index)' = Plain(call'.index)
      /\ (IsBesideFile(call.index)' <=> IsBesideFile(call'.index))
  BY OldCab, SameArchive, SameOld
<1> SUFFICES ASSUME pc' = "open" \/ pc' \in {"loop", "fill", "part", "data"}
             PROVE  /\ pc' = "open" => rd'.src = ExternalSource
                    /\ IsBesideFile(call'.index) =>
                         rd'.src = ExternalSource
                         /\ rd'.left = Len(Plain(call'.index)) - Len(got')
  BY <1>1 DEF FromBeside, InOldLoop
<1>2. CASE OpenExternal
  <2>1. PICK i \in Files : i = call.index /\ fds[i] # NotRead
    BY <1>2, OldTypes DEF OpenExternal, At, OInv, OldControl, OldFile
  <2>2. /\ rd' = [NoReader EXCEPT !.index = i, !.src = ExternalSource, !.left = ExternalLeft(i)]
        /\ got' = <<>> /\ call' = call
    BY <1>2, <2>1 DEF OpenExternal, CreateExternal
  <2>3. rd'.src = ExternalSource /\ rd'.left = ExternalLeft(i)
    BY <2>2 DEF NoReader
  <2>4. IsBesideFile(i) => ExternalLeft(i) = Len(Plain(i)) /\ Len(Plain(i)) \in Nat
    <3>1. cab \in DOMAIN Archives /\ (IsBesideFile(i) => OldSound(i))
      BY OldTypes DEF OldSound, IsBesideFile
    <3> QED BY <2>1, <3>1, BesideBytes, OldSoundMeans
  <2>5. Len(got') = 0
    BY <2>2
  <2>6. IsBesideFile(i) => rd'.left = Len(Plain(i)) - Len(got')
    BY <2>3, <2>4, <2>5
  <2> QED BY <2>1, <2>2, <2>3, <2>6
<1>3. CASE OpenOldOutput
  <2>1. /\ pc' = "loop" /\ UNCHANGED <<rd, got>> /\ (pc = "open" \/ (pc = "check" /\ ~Outside))
    BY <1>3 DEF OpenOldOutput, OutputDue, vars
  <2>2. PICK i \in Files : i = call.index
    BY <2>1, OldTypes
  <2>3. call'.index = i
    BY <1>3, <2>2, OldArguments DEF OpenOldOutput, AskOld, BeginOld, Begin, FollowLink, At
  <2>4. CASE pc = "open"
    BY <2>1, <2>2, <2>3, <2>4 DEF Position, FromBeside
  <2>5. CASE pc = "check" /\ ~Outside
    <3>1. ~IsBesideFile(i)
      <4>1. ASSUME IsBesideFile(i) PROVE FALSE
        <5>1. rd.src = Lo(i)
          BY <2>2, <2>5, <4>1 DEF FoundBeside
        <5>2. cab \in DOMAIN Archives
          BY OldTypes
        <5>3. fd.offset = Archive.files[i].offset
          BY <2>2, <2>5, OldEntry
        <5>4. Archive.files[i].offset = Len(Vols[Lo(i)].bytes)
          BY <4>1, <5>2, BesideMeans
        <5> QED BY <2>5, <5>1, <5>3, <5>4 DEF Outside
      <4> QED BY <4>1
    <3> QED BY <2>1, <2>3, <3>1
  <2> QED BY <2>1, <2>4, <2>5
<1>4. CASE pc \in {"loop", "fill", "part", "data"}
           /\ (OpenNextVolume \/ (ContinueRead /\ UNCHANGED input))
  <2>1. PICK i \in Files : i = call.index
    BY <1>4, OldTypes
  <2>2. call'.index = i /\ pc' # "open"
    BY <1>4, <2>1 DEF OpenNextVolume, ContinueRead
  <2>3. IsBesideFile(i) => OldSound(i) /\ ~Intact(i)
    <3>1. cab \in DOMAIN Archives
      BY OldTypes
    <3> QED BY <3>1, BesideMeans DEF OldSound, IsBesideFile
  <2>4. ~IsBesideFile(i)
    BY <1>4, <2>1, <2>3, SoundReadsOn
  <2> QED BY <2>2, <2>4
<1>5. CASE pc \in {"loop", "fill", "part", "data"} /\ FinishOldRead
  <2>1. PICK full : full = io.buf \o Fread
    OBVIOUS
  <2>2. ReadDone /\ UNCHANGED <<pc, call>> /\ StreamInv
    BY <1>5 DEF FinishOldRead, FinishRead, locals, OInv
  <2>3. /\ io.status = "reading" /\ rd'.src = rd.src /\ rd'.left = rd.left - io.left
        /\ Len(got') = Len(got) + io.size
    BY <2>1, <2>2, DoneParts
  <2>4. PICK i \in Files : i = call.index
    BY <1>5, OldTypes
  <2>5. ASSUME IsBesideFile(i) PROVE rd'.src = ExternalSource /\ rd'.left = Len(Plain(i)) - Len(got')
    <3>1. rd.src = ExternalSource /\ rd.left = Len(Plain(i)) - Len(got)
      BY <1>5, <2>4, <2>5 DEF Position, FromBeside, InOldLoop
    <3>2. pc \in {"part", "data"}
      BY <1>5, <2>3 DEF OInv, OldControl, OldStatus
    <3>3. io.left = io.size
      BY <2>3, <2>4, <2>5, <3>2, BesideReads
    <3>4. Len(got) \in Nat /\ io.size \in Nat /\ Len(Plain(i)) \in Nat
      <4>1. cab \in DOMAIN Archives /\ OldSound(i)
        BY <2>5, OldTypes DEF OldSound, IsBesideFile
      <4> QED BY <2>2, <4>1, OldSoundMeans, InvTypes
    <3> QED BY <2>3, <3>1, <3>3, <3>4
  <2> QED BY <1>5, <2>2, <2>4, <2>5
<1>6. CASE pc \in {"loop", "fill", "part", "data"}
           /\ (AskPart \/ AskCopied \/ PartDone \/ WriteOld \/ UNCHANGED oldVars)
  <2>1. UNCHANGED <<rd, got>>
    BY <1>6 DEF AskPart, AskCopied, ReadBegin, PartDone, WriteOld, vars, oldVars, allVars
  <2>2. call'.index = call.index /\ pc' # "open"
    <3>1. ~AskOld /\ ~FollowLink
      BY <1>6 DEF AskOld, BeginOld, Begin, FollowLink, At
    <3>2. pc' # "open"
      BY <1>6 DEF AskPart, AskCopied, PartDone, WriteOld, oldVars, allVars, locals
    <3> QED BY <3>1, <3>2, OldArguments
  <2> QED BY <1>6, <2>1, <2>2 DEF Position, FromBeside, InOldLoop
<1>7. CASE pc' = "open" /\ ~OpenExternal
  <2>1. UNCHANGED oldVars
    BY <1>7, OldLookupSteps DEF AskOld, BeginOld, Begin, Lookup, FollowLink, StartReader,
       OpenReader, TryExternal, At
  <2>2. UNCHANGED <<pc, call, rd, got>>
    BY <2>1 DEF oldVars, allVars, vars, locals
  <2> QED BY <1>7, <2>2 DEF Position, FromBeside
<1> QED BY <1>2, <1>3, <1>4, <1>5, <1>6, <1>7, OldLoopSteps

LEMMA NextSomethingThere ==
  ASSUME OInv, TrueCache, Position, [OldNext]_oldVars PROVE SomethingThere'
<1>1. UNCHANGED cab /\ (OldSound(call.index)' <=> OldSound(call'.index))
  BY OldCab, SameOld
<1> SUFFICES ASSUME OldSound(call'.index),
                    \/ pc' = "fill"
                    \/ pc' \in {"part", "data"} /\ io'.status = "reading" /\ io'.buf = <<>>
             PROVE  rd'.left # 0
  BY <1>1 DEF SomethingThere
<1>2. CASE pc \in {"loop", "fill", "part", "data"} /\ ~OpenOldOutput
  <2>1. ~AskOld /\ ~FollowLink
    BY <1>2 DEF AskOld, BeginOld, Begin, FollowLink, At
  <2>2. call'.index = call.index
    BY <2>1, OldArguments
  <2>3. PICK i \in Files : i = call.index /\ OldSound(i)
    BY <1>2, <2>2, OldTypes
  <2>4. CASE OpenNextVolume
    BY <1>2, <2>3, <2>4, SoundReadsOn
  <2>5. CASE ContinueRead
    <3>1. pc = "data" /\ pc' = pc /\ io'.buf # <<>>
      BY <1>2, <2>3, <2>5, SoundReadsOn
    <3> QED BY <3>1
  <2>6. CASE AskPart \/ AskCopied
    <3>1. UNCHANGED rd /\ (pc = "fill" \/ rd.left # 0)
      BY <2>6 DEF AskPart, AskCopied, HasVolume, ReadBegin
    <3>2. pc = "fill" => rd.left # 0
      BY <2>3 DEF Position, SomethingThere
    <3> QED BY <3>1, <3>2
  <2>7. CASE FinishOldRead \/ PartDone \/ WriteOld
    <3>1. io'.status = "idle" /\ pc' # "fill"
      <4>1. CASE FinishOldRead
        <5>1. ReadDone /\ UNCHANGED pc
          BY <4>1 DEF FinishOldRead, FinishRead, locals
        <5>2. io.status = "reading" /\ io'.status = "idle"
          BY <5>1, ReadDoneFacts DEF OInv
        <5> QED BY <5>1, <5>2 DEF OInv, OldControl, OldStatus
      <4>2. CASE PartDone \/ WriteOld
        BY <4>2 DEF PartDone, WriteOld, WriteChunk, WriteCopied, HasChunk, InPart, vars
      <4> QED BY <2>7, <4>1, <4>2
    <3> QED BY <3>1
  <2>8. CASE UNCHANGED oldVars
    <3>1. UNCHANGED <<pc, io, rd, call>>
      BY <2>8 DEF oldVars, allVars, vars, locals
    <3> QED BY <2>3, <3>1 DEF Position, SomethingThere
  <2> QED BY <1>2, <2>4, <2>5, <2>6, <2>7, <2>8, OldLoopSteps
<1>3. CASE OpenOldOutput
  BY <1>3 DEF OpenOldOutput
<1> QED BY <1>2, <1>3, OldLoopSteps

LEMMA NextPartWithin ==
  ASSUME OInv, TrueCache, Position, [OldNext]_oldVars PROVE PartWithin'
<1>1. UNCHANGED cab /\ (OldSound(call.index)' <=> OldSound(call'.index))
      /\ Plain(call.index)' = Plain(call'.index)
  BY OldCab, SameOld, SameArchive
<1> SUFFICES ASSUME OldSound(call'.index), pc' = "part", io'.status = "reading"
             PROVE  Len(got') + io'.size <= Len(Plain(call'.index))
  BY <1>1 DEF PartWithin
<1>2. \/ AskPart
      \/ pc = "part" /\ (ContinueRead \/ FinishOldRead \/ WriteOld \/ UNCHANGED oldVars)
  BY OldLoopSteps
     DEF OpenOldOutput, OpenNextVolume, AskCopied, FinishOldRead, FinishRead, PartDone, WriteOld,
         WriteChunk, WriteCopied, HasChunk, InPart, oldVars, allVars, locals
<1>3. pc \in {"loop", "fill", "part"}
  BY <1>2 DEF AskPart, HasVolume
<1>4. ~AskOld /\ ~FollowLink
  BY <1>3 DEF AskOld, BeginOld, Begin, FollowLink, At
<1>5. PICK i \in Files : i = call.index /\ call'.index = i
  BY <1>3, <1>4, OldTypes, OldArguments
<1>6. OldSound(i) /\ cab \in DOMAIN Archives /\ Len(Plain(i)) \in Nat /\ Len(got) \in Nat
      /\ rd.left \in Nat
  BY <1>5, OldTypes, OldSoundMeans
<1>7. CASE AskPart
  <2>1. /\ ReadBegin(rd.left) /\ (pc = "fill" \/ (pc = "loop" /\ call.left > 0))
    BY <1>7 DEF AskPart, PartBytes, HasVolume
  <2>2. io'.size = rd.left /\ UNCHANGED got /\ io.status = "idle"
    BY <2>1 DEF ReadBegin
  <2>3. call.left > 0
    BY <2>1 DEF OInv, OldControl, WorkLeft
  <2>4. Len(got) < Len(Plain(i))
    BY <1>5, <1>6, <2>1, <2>3, MoreToRead
  <2>5. Len(got) + rd.left <= Len(Plain(i))
    <3>1. CASE IsBesideFile(i)
      <4>1. rd.left = Len(Plain(i)) - Len(got)
        BY <1>5, <2>1, <3>1 DEF Position, FromBeside, InOldLoop
      <4> QED BY <1>6, <4>1
    <3>2. CASE Intact(i)
      <4>1. /\ rd.src \in Lo(i) .. Hi(i) /\ rd.left = StartOf(i, rd.src + 1) - Raw
            /\ Len(Plain(i)) = Len(Stored(i))
        BY <1>5, <1>6, <2>1, <2>2, <2>4, <3>2, IntactStands
      <4>2. Raw = Len(got)
        BY <1>6, <2>2 DEF Raw
      <4>3. StartOf(i, rd.src + 1) \in Nat /\ StartOf(i, rd.src + 1) <= Len(Stored(i))
        BY <1>6, <3>2, <4>1, IntactMeans, PartsInOrder
      <4> QED BY <1>6, <4>1, <4>2, <4>3
    <3> QED BY <1>6, <3>1, <3>2, OldSoundMeans
  <2> QED BY <1>5, <2>2, <2>5
<1>8. CASE pc = "part" /\ UNCHANGED oldVars
  <2>1. UNCHANGED <<got, io>>
    BY <1>8 DEF oldVars, allVars, vars
  <2> QED BY <1>5, <1>6, <1>8, <2>1 DEF Position, PartWithin
<1>9. CASE pc = "part" /\ ContinueRead
  <2>1. pc = "data"
    BY <1>5, <1>6, <1>9, SoundReadsOn
  <2> QED BY <1>9, <2>1
<1>10. CASE pc = "part" /\ (FinishOldRead \/ WriteOld)
  <2>1. io'.status = "idle"
    <3>1. CASE FinishOldRead
      BY <3>1, ReadDoneFacts DEF FinishOldRead, FinishRead, OInv
    <3>2. CASE WriteOld
      BY <3>2 DEF WriteOld, WriteChunk, WriteCopied, HasChunk, InPart, vars
    <3> QED BY <1>10, <3>1, <3>2
  <2> QED BY <2>1
<1> QED BY <1>2, <1>7, <1>8, <1>9, <1>10

-----------------------------------------------------------------------------
(* What a read delivers are the next bytes of the file.                    *)
LEMMA OldReadBytes ==
  ASSUME OInv, OInv', TrueCache, Position, FinishOldRead,
         NEW i \in Files, i = call.index, OldSound(i)
  PROVE  /\ io.status = "reading" /\ io'.status = "idle" /\ pc \in {"part", "data"}
         /\ UNCHANGED <<cab, locals>> /\ input' = IF pc = "part" THEN io'.buf ELSE <<>>
         /\ Len(got) \in Nat /\ io.size \in Nat
         /\ Len(got') = Len(got) + io.size /\ Len(got) + io.size <= Len(Plain(i))
         /\ io'.buf \in Seq(Byte) /\ Len(io'.buf) = io.size
         /\ \A j \in 1 .. io.size : io'.buf[j] = Plain(i)[Len(got) + j]
<1>1. ReadDone /\ UNCHANGED locals /\ StreamInv /\ (input' = IF pc = "part" THEN io'.buf ELSE <<>>)
  BY DEF FinishOldRead, FinishRead, OInv
<1>2. /\ io.status = "reading" /\ io'.status = "idle"
      /\ io'.buf \in Seq(Byte) /\ Len(io'.buf) = io.size
      /\ got' = got \o io'.buf /\ Len(got') = Len(got) + io.size
      /\ rd'.index = rd.index /\ UNCHANGED <<cab, fds>>
  BY <1>1, ReadDoneFacts
<1>3. /\ cab \in DOMAIN Archives /\ got \in Seq(Byte) /\ Len(got) \in Nat /\ io.size \in Nat
      /\ (Intact(i) \/ IsBesideFile(i))
  BY <1>1, InvTypes, OldSoundMeans
<1>4. pc \in {"part", "data"}
  BY <1>2 DEF OInv, OldControl, OldStatus, OldLocals
<1>5. Len(got) + io.size <= Len(Plain(i)) /\ rd.index = i /\ fds[i] # NotRead
  BY <1>2, <1>4, OldWithin, OldEntry
<1>6. Plain(i)' = Plain(i) /\ (Intact(i)' <=> Intact(i))
  BY <1>2, SameArchive
<1>7. \A k \in 1 .. Len(got') : got'[k] = Plain(i)[k]
  <2>1. CASE Intact(i)
    <3>1. WithinFile'
      BY <1>2, <1>3, <1>5, <1>6, <2>1, SameArchive, IntactMeans DEF WithinFile, Asked
    <3>2. Delivered'
      BY DEF OInv, StreamInv, Flow
    <3> QED BY <1>2, <1>5, <1>6, <3>1, <3>2 DEF Delivered
  <2>2. CASE IsBesideFile(i)
    <3>1. rd.src = ExternalSource
      BY <1>4, <2>2 DEF Position, FromBeside, InOldLoop
    <3>2. PICK full : full = io.buf \o Fread
      OBVIOUS
    <3>3. rd'.src = ExternalSource
      BY <1>1, <3>1, <3>2, DoneParts
    <3>4. OnePart'
      BY DEF OInv, StreamInv, Flow
    <3>5. ExternalBytes(i)' = Plain(i) /\ "obfuscated" \notin fds[i].flags
      <4>1. ExternalBytes(i) = Plain(i) /\ "obfuscated" \notin fds[i].flags
        BY <1>5, <2>2, BesideBytes
      <4>2. ExternalBytes(i)' = ExternalBytes(i)
        BY <1>2 DEF ExternalBytes, Supplement, Missing, Archive
      <4> QED BY <4>1, <4>2
    <3>6. ~IsObfuscated' /\ rd'.index = i /\ ExternalSource' = ExternalSource
      BY <1>2, <1>5, <3>5 DEF IsObfuscated, ExternalSource
    <3> QED BY <3>3, <3>4, <3>5, <3>6 DEF OnePart
  <2> QED BY <1>3, <2>1, <2>2
<1>8. ASSUME NEW j \in 1 .. io.size PROVE io'.buf[j] = Plain(i)[Len(got) + j]
  <2>1. PICK s, t : s = got /\ t = io'.buf /\ s \in Seq(Byte) /\ t \in Seq(Byte)
    BY <1>2, <1>3
  <2>2. (s \o t)[Len(s) + j] = t[j]
    <3>1. j \in 1 .. Len(t)
      BY <1>2, <2>1
    <3> QED BY <2>1, <3>1, ConcatAt
  <2>3. got'[Len(got) + j] = io'.buf[j]
    BY <1>2, <2>1, <2>2
  <2>4. Len(got) + j \in 1 .. Len(got')
    BY <1>2, <1>3
  <2> QED BY <1>7, <2>3, <2>4
<1> QED BY <1>1, <1>2, <1>3, <1>4, <1>5, <1>8

LEMMA OpensAtStart ==
  ASSUME OInv, TrueCache, NothingOut, AtStart, OpenOldOutput,
         NEW i \in Files, i = call.index, OldSound(i)
  PROVE  /\ pc' = "loop" /\ Len(got') = 0 /\ input' = <<>> /\ call'.total = 0
         /\ call'.left = Len(Archive.content[i]) /\ call'.index = i
<1>1. /\ pc \in {"check", "open"} /\ pc' = "loop" /\ UNCHANGED <<vars, input>>
      /\ call' = [call EXCEPT !.left = fd.expanded % U32]
  BY DEF OpenOldOutput, OutputDue
<1>2. call \in OldCall /\ cab \in DOMAIN Archives /\ call.total = 0 /\ got = <<>>
  BY <1>1, OldTypes DEF NothingOut, AtStart
<1>3. PICK e, t : e = Archive.files[i] /\ t = Archive.content[i]
  OBVIOUS
<1>4. Len(t) \in Nat /\ Len(t) < U32 /\ e.expanded = Len(t)
  BY <1>2, <1>3, OldContentMeans
<1>5. fd.expanded = Len(t)
  BY <1>1, <1>3, <1>4, OldEntry
<1>6. fd.expanded % U32 = Len(t)
  BY <1>4, <1>5, ModSmall
<1>7. call'.left = Len(t) /\ call'.total = 0 /\ call'.index = i
  BY <1>1, <1>2, <1>6 DEF OldCall
<1>8. got' = <<>>
  BY <1>1, <1>2 DEF vars
<1>9. input = <<>>
  BY <1>1 DEF OInv, OldControl, InputTaken
<1> QED BY <1>1, <1>3, <1>7, <1>8, <1>9

LEMMA LeftTaken ==
  ASSUME NEW l \in 0 .. U32 - 1, NEW m \in Nat, m <= l PROVE (l - m) % U32 = l - m
<1>1. PICK n : n = l - m /\ n \in Nat /\ n < U32
  BY U32Assumption
<1>2. n % U32 = n
  BY <1>1, ModSmall
<1> QED BY <1>1, <1>2

LEMMA NextBytesCopied ==
  ASSUME OInv, OInv', TrueCache, NothingOut, AtStart, Position, [OldNext]_oldVars
  PROVE  BytesCopied'
<1>0. UNCHANGED cab /\ (OldSound(call.index)' <=> OldSound(call'.index)) /\ Archive' = Archive
      /\ \A j : Plain(j)' = Plain(j)
  BY OldCab, SameOld, SameArchive
<1> SUFFICES ASSUME pc' \in {"loop", "fill", "data"}, OldSound(call'.index), ~Compressed'
             PROVE  CopiedTo(call.index)'
  BY <1>0 DEF BytesCopied
<1>1. pc \notin {"idle", "lookup", "vet"} /\ ~AskOld /\ ~FollowLink
  BY OldVetted DEF StartReader, At, AskOld, BeginOld, Begin, FollowLink
<1>2. PICK i \in Files : i = call.index /\ call'.index = i
  BY <1>1, OldTypes, OldArguments
<1>3. ~Compressed /\ OldSound(i)
  BY <1>1, <1>2, SameKind
<1>4. cab \in DOMAIN Archives /\ call \in OldCall /\ call.left \in Nat /\ call.total \in Nat
      /\ Len(Plain(i)) \in Nat
  BY <1>3, OldTypes, OldSoundMeans
<1> SUFFICES /\ call'.left + call'.total = Len(Plain(i))
             /\ IF pc' = "data" /\ io'.status = "idle"
                THEN /\ Len(got') = call'.total + Len(io'.buf) /\ Len(io'.buf) <= call'.left
                     /\ \A j \in 1 .. Len(io'.buf) : io'.buf[j] = Plain(i)[call'.total + j]
                ELSE Len(got') = call'.total
             /\ pc' = "data" => io'.size = NextSize'
  BY <1>0, <1>2 DEF CopiedTo
<1>5. ASSUME pc \in {"loop", "fill", "data"}
      PROVE  /\ CopiedTo(i) /\ call.left + call.total = Len(Plain(i))
             /\ ~(pc = "data" /\ io.status = "idle") => Len(got) = call.total
             /\ pc = "data" => io.size = NextSize
  BY <1>2, <1>3, <1>5 DEF Position, BytesCopied, CopiedTo
<1>6. NextSize' = IF call'.left < BUFFER_SIZE THEN call'.left ELSE BUFFER_SIZE
  BY DEF NextSize, BUFFER_SIZE
<1>7. CASE OpenOldOutput
  <2>1. /\ pc' = "loop" /\ Len(got') = 0 /\ call'.total = 0
        /\ call'.left = Len(Archive.content[i])
    BY <1>2, <1>3, <1>7, OpensAtStart
  <2>2. Plain(i) = Archive.content[i]
    <3>1. PICK e, t : e = Archive.files[i] /\ t = Archive.content[i]
      OBVIOUS
    <3>2. "compressed" \notin e.flags
      BY <1>1, <1>2, <1>3, <3>1, OldEntry
    <3> QED BY <1>3, <1>4, <3>1, <3>2, OldContentMeans
  <2> QED BY <1>4, <2>1, <2>2
<1>8. CASE pc \in {"loop", "fill"} /\ OpenNextVolume
  <2>1. pc' = "fill" /\ UNCHANGED <<call, got>>
    BY <1>2, <1>3, <1>8, SoundReadsOn
  <2> QED BY <1>5, <1>8, <2>1
<1>9. CASE AskPart
  BY <1>3, <1>9 DEF AskPart
<1>10. CASE pc \in {"loop", "fill"} /\ AskCopied
  <2>1. pc' = "data" /\ ReadBegin(NextSize) /\ UNCHANGED call
    BY <1>10 DEF AskCopied
  <2>2. io'.status = "reading" /\ io'.size = NextSize /\ UNCHANGED got
    BY <2>1 DEF ReadBegin
  <2>3. NextSize' = NextSize
    BY <1>6, <2>1 DEF NextSize
  <2> QED BY <1>5, <1>10, <2>1, <2>2, <2>3
<1>11. CASE pc \in {"loop", "fill", "data"} /\ ContinueRead
  <2>1. pc = "data" /\ pc' = pc /\ io'.status = "reading" /\ io'.size = io.size
        /\ UNCHANGED <<call, got>>
    BY <1>2, <1>3, <1>11, SoundReadsOn
  <2>2. NextSize' = NextSize
    BY <1>6, <2>1 DEF NextSize
  <2>3. io.status = "reading"
    BY <1>11 DEF ContinueRead, ReadAcross
  <2> QED BY <1>5, <2>1, <2>2, <2>3
<1>12. CASE pc \in {"loop", "fill", "data"} /\ FinishOldRead
  <2>1. /\ pc = "data" /\ pc' = pc /\ call' = call /\ io'.status = "idle" /\ io.status = "reading"
        /\ Len(got') = Len(got) + io.size /\ Len(io'.buf) = io.size /\ io.size \in Nat
        /\ \A j \in 1 .. io.size : io'.buf[j] = Plain(i)[Len(got) + j]
    BY <1>2, <1>3, <1>12, OldReadBytes DEF locals
  <2>2. Len(got) = call.total /\ io.size = NextSize /\ call.left > 0
    BY <1>5, <2>1 DEF OInv, OldControl, WorkLeft
  <2>3. NextSize <= call.left
    BY <2>2, OldTypes
  <2>4. NextSize' = NextSize
    BY <1>6, <2>1 DEF NextSize
  <2>5. io'.size = io.size
    BY <1>12, ReadDoneFacts DEF FinishOldRead, FinishRead, OInv
  <2> QED BY <1>5, <2>1, <2>2, <2>3, <2>4, <2>5
<1>13. CASE pc \in {"loop", "fill", "data"} /\ WriteOld
  <2>1. /\ pc = "data" /\ io.status = "idle" /\ pc' = "loop" /\ UNCHANGED vars
        /\ call' = [call EXCEPT !.left = LeftAfterOld, !.total = @ + Len(OldOutput)]
    BY <1>13 DEF WriteOld, WriteChunk, HasChunk, InPart, WriteCopied
  <2>2. PICK b : b = io.buf /\ OldOutput = b
    BY <2>1 DEF OldOutput
  <2>3. /\ Len(got) = call.total + Len(b) /\ Len(b) <= call.left /\ Len(b) \in Nat
    BY <1>5, <2>1, <2>2, OldTypes DEF CopiedTo
  <2>4. LeftAfterOld = call.left - Len(b)
    <3>1. call.left \in 0 .. U32 - 1
      BY <1>4 DEF OldCall
    <3>2. PICK l, m : l = call.left /\ m = Len(b)
      OBVIOUS
    <3>3. (l - m) % U32 = l - m
      BY <2>3, <3>1, <3>2, LeftTaken
    <3> QED BY <2>2, <3>2, <3>3 DEF LeftAfterOld
  <2>5. call'.left = call.left - Len(b) /\ call'.total = call.total + Len(b)
    BY <1>4, <2>1, <2>2, <2>4 DEF OldCall
  <2>6. got' = got
    BY <2>1 DEF vars
  <2> QED BY <1>4, <1>5, <2>1, <2>3, <2>5, <2>6
<1>14. CASE pc = "part"
  BY <1>3, <1>14 DEF Position, ByKind
<1>15. CASE PartDone
  BY <1>14, <1>15 DEF PartDone, InPart
<1>16. CASE pc \in {"loop", "fill", "data"} /\ UNCHANGED oldVars
  <2>1. UNCHANGED <<pc, call, io, got>>
    BY <1>16 DEF oldVars, allVars, vars, locals
  <2>2. NextSize' = NextSize
    BY <1>6, <2>1 DEF NextSize
  <2> QED BY <1>5, <1>16, <2>1, <2>2 DEF CopiedTo
<1> QED BY <1>7, <1>8, <1>9, <1>10, <1>11, <1>12, <1>13, <1>14, <1>15, <1>16, OldLoopSteps
    DEF OpenNextVolume, AskCopied, HasVolume

-----------------------------------------------------------------------------
(* The search for markers finds the chunk that comes next, or finds that   *)
(* the part ends in it.                                                    *)
LEMMA NextChunkIs ==
  ASSUME OInv, TrueCache, Position, HasChunk, NEW i \in Files, i = call.index, OldSound(i),
         NEW k \in 1 .. ChunkCount(i) + 1, TakenTo(i, k), NEW c, c = ChunkOf(i, k)
  PROVE  /\ k \in 1 .. ChunkCount(i) /\ "compressed" \in Archive.files[i].flags
         /\ cab \in DOMAIN Archives /\ ChunkCount(i) \in Nat
         /\ \/ /\ Len(c) + 4 <= Len(input) /\ ChunkEnds # {} /\ Chunk = c
               /\ AfterChunk \in Seq(Byte) /\ Len(AfterChunk) = Len(input) - (Len(c) + 4)
               /\ \A j \in 1 .. Len(AfterChunk) : AfterChunk[j] = input[(Len(c) + 4) + j]
            \/ ChunkEnds = {} /\ Intact(i) /\ ~WholeChunks(Archive, i)
<1>1. PICK s, l, n, p, a :
        s = input /\ l = Len(s) /\ n = ChunkCount(i) /\ p = Plain(i) /\ a = StoredAt(i, k)
  OBVIOUS
<1>2. pc = "part" /\ io.status = "idle" /\ s # <<>> /\ call.left > 0
  BY <1>1 DEF HasChunk, InPart
<1>3. Compressed
  BY <1>2 DEF Position, ByKind
<1>4. "compressed" \in Archive.files[i].flags /\ cab \in DOMAIN Archives
  BY <1>2, <1>3, OldEntry
<1>5. /\ s \in Seq(Byte) /\ l \in Nat /\ Len(got) \in Nat /\ call.left \in Nat /\ call.total \in Nat
      /\ n \in Nat /\ Len(p) \in Nat /\ Len(Archive.content[i]) \in Nat /\ l > 0
  <2>1. /\ s \in Seq(Byte) /\ l \in Nat /\ Len(got) \in Nat
        /\ call.left \in Nat /\ call.total \in Nat
    BY <1>1, OldTypes
  <2>2. n \in Nat /\ Len(p) \in Nat /\ Len(Archive.content[i]) \in Nat
    BY <1>1, <1>4, OldChunksMean, OldSoundMeans, OldContentMeans
  <2>3. l # 0
    BY <1>1, <1>2, <2>1, EmptySeq
  <2> QED BY <2>1, <2>2, <2>3
<1>6. /\ Len(got) = a + l /\ Len(got) <= Len(p)
      /\ \A j \in 1 .. l : s[j] = p[a + j]
      /\ call.total = ContentAt(i, k) /\ call.left + call.total = Len(Archive.content[i])
  BY <1>1 DEF TakenTo
<1>7. k \in 1 .. n
  <2>1. ContentAt(i, k) # Len(Archive.content[i])
    BY <1>2, <1>5, <1>6
  <2>2. k # n + 1
    BY <1>1, <1>4, <2>1, ChunksInOrder
  <2> QED BY <1>1, <1>5, <2>2
<1>8. /\ c \in Seq(Byte) /\ Len(c) \in Nat /\ Len(c) > 1 /\ a \in Nat
      /\ \A q \in Matches(END_OF_CHUNK, c) : q + 4 <= Len(c) /\ c[q + 4] % 2 = 1
      /\ StoredAt(i, k + 1) = a + (Len(c) + 4) /\ StoredAt(i, k + 1) <= Len(p)
      /\ \A j \in 1 .. Len(c) : p[a + j] = c[j]
      /\ \A y \in 1 .. 4 : p[a + (Len(c) + y)] = END_OF_CHUNK[y]
  <2>1. k \in 1 .. ChunkCount(i)
    BY <1>1, <1>7
  <2>2. /\ c \in Seq(Byte) /\ Len(c) \in Nat /\ Len(c) > 1
        /\ \A q \in Matches(END_OF_CHUNK, c) : q + 4 <= Len(c) /\ c[q + 4] % 2 = 1
    BY <1>4, <2>1, ChunkSound
  <2>3. StoredAt(i, k) \in Nat /\ StoredAt(i, k + 1) = StoredAt(i, k) + (Len(c) + 4)
    BY <1>4, <2>1, ChunkSpots
  <2>4. StoredAt(i, k + 1) <= Len(Plain(i))
    BY <1>4, <2>1, ChunkSpots
  <2>5. ASSUME NEW j \in 1 .. Len(c) PROVE p[a + j] = c[j]
    <3>1. Plain(i)[StoredAt(i, k) + j] = c[j]
      BY <1>4, <2>1, ChunkBytes
    <3> QED BY <1>1, <3>1
  <2>6. ASSUME NEW y \in 1 .. 4 PROVE p[a + (Len(c) + y)] = END_OF_CHUNK[y]
    <3>1. Plain(i)[StoredAt(i, k) + (Len(c) + y)] = END_OF_CHUNK[y]
      BY <1>4, <2>1, ChunkMarker
    <3> QED BY <1>1, <3>1
  <2> QED BY <1>1, <2>2, <2>3, <2>4, <2>5, <2>6
<1>11. PICK lc, z : lc = Len(c) /\ z = StoredAt(i, k + 1)
  OBVIOUS
<1>12. lc \in Nat /\ lc > 1 /\ a \in Nat /\ z = a + (lc + 4) /\ z <= Len(p)
  BY <1>8, <1>11
<1>13. ASSUME NEW y \in 1 .. 4, Len(c) + y <= l PROVE s[Len(c) + y] = END_OF_CHUNK[y]
  <2>1. PICK x : x = Len(c) + y
    OBVIOUS
  <2>2. x \in 1 .. l
    BY <1>5, <1>13, <1>11, <1>12, <2>1, SMTT(30)
  <2>3. s[x] = p[a + x]
    BY <1>6, <2>2
  <2>4. p[a + x] = END_OF_CHUNK[y]
    BY <1>8, <2>1
  <2> QED BY <2>1, <2>3, <2>4
<1>14. PICK e : e = END_OF_CHUNK
  OBVIOUS
<1>15. e[1] = 0 /\ e[2] = 0 /\ e[3] = 255 /\ e[4] = 255
  BY <1>14 DEF END_OF_CHUNK
<1>16. /\ Len(c) + 1 <= l => s[Len(c) + 1] = 0
       /\ Len(c) + 2 <= l => s[Len(c) + 2] = 0
       /\ Len(c) + 3 <= l => s[Len(c) + 3] = 255
       /\ Len(c) + 4 <= l => s[Len(c) + 4] = 255
  <2>1. \A y \in 1 .. 4 : Len(c) + y <= l => s[Len(c) + y] = e[y]
    BY <1>13, <1>14
  <2> QED BY <1>15, <2>1
<1>9. CASE Len(c) + 4 <= l
  <2>1. \A j \in 1 .. Len(c) : s[j] = c[j]
    BY <1>5, <1>6, <1>8, <1>9
  <2>2. s[Len(c) + 1] = 0 /\ s[Len(c) + 2] = 0 /\ s[Len(c) + 3] = 255 /\ s[Len(c) + 4] = 255
    <3>1. Len(c) + 1 <= l /\ Len(c) + 2 <= l /\ Len(c) + 3 <= l
      BY <1>5, <1>9, <1>11, <1>12
    <3> QED BY <1>9, <1>16, <3>1
  <2>3. ASSUME Len(c) + 5 <= l PROVE s[Len(c) + 5] % 2 = 0
    <3>1. PICK m, d, b : m = k + 1 /\ d = ChunkOf(i, m) /\ b = StoredAt(i, m)
      OBVIOUS
    <3>2. b = a + (Len(c) + 4) /\ b < Len(p)
      BY <1>5, <1>6, <1>8, <2>3, <3>1
    <3>3. m \in 1 .. n + 1
      BY <1>5, <1>7, <3>1
    <3>4. m # n + 1
      <4>1. StoredAt(i, n + 1) = Len(p)
        BY <1>1, <1>4, OldChunksMean
      <4> QED BY <1>5, <3>1, <3>2, <4>1
    <3>5. m \in 1 .. n
      BY <1>5, <3>3, <3>4
    <3>6. Len(d) \in Nat /\ Len(d) > 1 /\ d[1] % 2 = 0 /\ \A j \in 1 .. Len(d) : p[b + j] = d[j]
      <4>1. m \in 1 .. ChunkCount(i)
        BY <1>1, <3>5
      <4>2. Len(d) \in Nat /\ Len(d) > 1 /\ d[1] % 2 = 0
        BY <1>4, <3>1, <4>1, ChunkSound
      <4>3. ASSUME NEW j \in 1 .. Len(d) PROVE p[b + j] = d[j]
        <5>1. Plain(i)[StoredAt(i, m) + j] = d[j]
          BY <1>4, <3>1, <4>1, ChunkBytes
        <5> QED BY <1>1, <3>1, <5>1
      <4> QED BY <4>2, <4>3
    <3>7. p[b + 1] = d[1]
      <4>1. 1 \in 1 .. Len(d)
        BY <3>6
      <4> QED BY <3>6, <4>1
    <3>8. s[Len(c) + 5] = p[b + 1]
      <4>1. Len(c) + 5 \in 1 .. l /\ a + (Len(c) + 5) = b + 1
        BY <1>5, <1>8, <2>3, <3>2
      <4> QED BY <1>6, <4>1
    <3> QED BY <3>6, <3>7, <3>8
  <2>4. /\ ChunkEnds # {} /\ Chunk = c
        /\ AfterChunk \in Seq(Byte) /\ Len(AfterChunk) = Len(s) - (Len(c) + 4)
        /\ \A j \in 1 .. Len(AfterChunk) : AfterChunk[j] = s[(Len(c) + 4) + j]
    <3>1. Len(c) + 4 <= Len(s) /\ (Len(c) + 5 <= Len(s) => s[Len(c) + 5] % 2 = 0)
      BY <1>1, <1>9, <2>3
    <3>2. s \in Seq(Byte) /\ c \in Seq(Byte) /\ s = input
      BY <1>1, <1>5, <1>8
    <3>3. \A q \in Matches(END_OF_CHUNK, c) : q + 4 <= Len(c) /\ c[q + 4] % 2 = 1
      BY <1>8
    <3>4. ChunkEnds # {} /\ Chunk = c /\ Min(ChunkEnds) = Len(c) + 1
      <4>1. Telling(c)
        BY <3>3 DEF Telling
      <4>2. BeginsWith(s, c)
        BY <2>1, <2>2, <3>1 DEF BeginsWith
      <4> QED BY <3>2, <4>1, <4>2, ChunkEndIs
    <3>5. lc + 4 <= Len(s) /\ Min(ChunkEnds) = lc + 1
      BY <1>11, <3>1, <3>4
    <3>6. AfterChunk \in Seq(Byte) /\ Len(AfterChunk) = Len(s) - (lc + 4)
      BY <1>12, <3>2, <3>5, AfterChunkIs
    <3>7. \A j \in 1 .. Len(AfterChunk) : AfterChunk[j] = s[(lc + 4) + j]
      BY <1>12, <3>2, <3>5, AfterChunkIs
    <3> QED BY <1>11, <3>4, <3>6, <3>7
  <2> QED BY <1>1, <1>4, <1>5, <1>7, <1>9, <2>4
<1>10. CASE l < Len(c) + 4
  <2>1. Len(got) < StoredAt(i, k + 1) /\ Len(got) < Len(p)
    <3>1. PICK g, w : g = Len(got) /\ w = Len(p)
      OBVIOUS
    <3>2. g = a + l /\ z <= w /\ w \in Nat
      BY <1>5, <1>6, <1>12, <3>1
    <3>3. l < lc + 4
      BY <1>10, <1>11
    <3>4. g < z /\ g < w
      BY <1>5, <1>12, <3>2, <3>3
    <3> QED BY <1>11, <3>1, <3>4
  <2>2. rd.left = 0
    BY <1>2 DEF OInv, OldControl, PartIsRead
  <2>3. Intact(i)
    <3>1. IsBesideFile(i) => rd.left = Len(p) - Len(got)
      BY <1>1, <1>2 DEF Position, FromBeside, InOldLoop
    <3>2. ~IsBesideFile(i)
      BY <1>5, <2>1, <2>2, <3>1
    <3> QED BY <1>4, <3>2, OldSoundMeans
  <2>4. PICK v : v = rd.src + 1
    OBVIOUS
  <2>5. /\ rd.src \in Lo(i) .. Hi(i) /\ Raw \in Nat /\ rd.left = StartOf(i, v) - Raw
        /\ StartOf(i, v) < Len(p) => rd.src < Hi(i)
    BY <1>1, <1>2, <2>1, <2>3, <2>4, IntactStands
  <2>6. Raw = Len(got)
    BY <1>2, <1>5 DEF Raw
  <2>7. StartOf(i, v) = Len(got) /\ v \in Lo(i) + 1 .. Hi(i)
    <3>1. Lo(i) \in Nat /\ Hi(i) \in Nat /\ StartOf(i, v) \in Nat
      BY <1>4, <2>3, <2>4, <2>5, IntactMeans, PartsInOrder
    <3>2. StartOf(i, v) = Len(got)
      BY <1>5, <2>2, <2>5, <2>6, <3>1
    <3> QED BY <2>1, <2>4, <2>5, <3>1, <3>2
  <2>8. ~CutBehindMarker(Archive, i)
    BY <1>4, <2>3, OldSoundMeans
  <2>9. \A q \in Matches(END_OF_CHUNK, c) : l # q + 3
    <3>1. SUFFICES ASSUME NEW q \in Matches(END_OF_CHUNK, c), l = q + 3 PROVE FALSE
      OBVIOUS
    <3>2. Archive.layout[i].start[v] = Archive.starts[i].stored[k] + (q + 3)
      BY <1>1, <1>6, <2>7, <3>1 DEF StartOf, StoredAt
    <3>3. v \in Archive.layout[i].lo + 1 .. Archive.layout[i].hi
      BY <2>7 DEF Lo, Hi
    <3>4. k \in 1 .. Len(Archive.chunks[i]) /\ c = Archive.chunks[i][k]
      BY <1>1, <1>7 DEF ChunkCount, ChunkOf
    <3> QED BY <1>4, <2>8, <3>1, <3>2, <3>3, <3>4 DEF CutBehindMarker
  <2>10. ChunkEnds = {}
    <3>1. \A j \in 1 .. Len(s) : j <= Len(c) => s[j] = c[j]
      BY <1>1, <1>5, <1>6, <1>8
    <3>2. /\ Len(c) + 1 <= Len(s) => s[Len(c) + 1] = 0
          /\ Len(c) + 2 <= Len(s) => s[Len(c) + 2] = 0
      BY <1>1, <1>16
    <3>3. Len(s) < Len(c) + 4 /\ \A q \in Matches(END_OF_CHUNK, c) : Len(s) # q + 3
      BY <1>1, <1>10, <2>9
    <3> QED BY <1>1, <1>5, <1>8, <3>1, <3>2, <3>3, NoChunkEnd
  <2>11. ~WholeChunks(Archive, i)
    <3>1. SUFFICES ASSUME WholeChunks(Archive, i) PROVE FALSE
      OBVIOUS
    <3>2. Archive.layout[i].start[v] \in ChunkBounds(Archive, i)
      BY <1>4, <2>7, <3>1 DEF WholeChunks, Lo, Hi
    <3>3. PICK j \in DOMAIN Archive.starts[i].stored : StartOf(i, v) = StoredAt(i, j)
      BY <3>2 DEF ChunkBounds, StartOf, StoredAt
    <3>4. j \in 1 .. n + 1
      <4>1. PICK chunks : chunks = Archive.chunks[i] /\ n = Len(chunks)
        BY <1>1 DEF ChunkCount
      <4>2. PICK packed : packed = [x \in 1 .. Len(chunks) |-> Marked(chunks[x])]
        OBVIOUS
      <4>3. Concatenates(Plain(i), packed, Archive.starts[i].stored)
        BY <1>4, <4>1, <4>2, OldSoundMeans DEF EncodesOld
      <4>4. Len(packed) = n
        BY <1>5, <4>1, <4>2
      <4>5. Archive.starts[i].stored \in [1 .. n + 1 -> Nat]
        BY <4>3, <4>4 DEF Concatenates
      <4> QED BY <3>3, <4>5
    <3>5. a < StoredAt(i, j) /\ StoredAt(i, j) < StoredAt(i, k + 1)
      BY <1>5, <1>6, <1>8, <2>1, <2>7, <3>3, SMTT(30)
    <3>6. StoredAt(i, k + 1) <= StoredAt(i, j)
      BY <1>1, <1>4, <3>4, <3>5, ChunksInOrder
    <3>7. StoredAt(i, j) \in Nat /\ StoredAt(i, k + 1) \in Nat
      <4>1. StoredAt(i, k + 1) \in Nat
        BY <1>11, <1>12
      <4> QED BY <1>5, <2>7, <3>3, <4>1
    <3> QED BY <3>5, <3>6, <3>7
  <2> QED BY <1>1, <1>4, <1>5, <1>7, <2>3, <2>10, <2>11
<1> QED
  <2>1. Len(c) + 4 <= l \/ l < Len(c) + 4
    BY <1>5, <1>11, <1>12
  <2> QED BY <1>9, <1>10, <2>1

(* What is cut out inflates to the next bytes of the content.              *)
LEMMA ChunkCutOut ==
  ASSUME OInv, TrueCache, Position, HasChunk, NEW i \in Files, i = call.index, OldSound(i)
  PROVE  /\ ChunkEnds = {} => Intact(i) /\ ~WholeChunks(Archive, i)
         /\ ChunkEnds # {} =>
              /\ InflatesOld(Chunk)
              /\ \E k \in 1 .. ChunkCount(i) :
                   /\ TakenTo(i, k) /\ Len(ChunkOf(i, k)) + 4 <= Len(input)
                   /\ InflateOld(Chunk) = Inflate(ChunkOf(i, k))
                   /\ AfterChunk \in Seq(Byte)
                   /\ Len(AfterChunk) = Len(input) - (Len(ChunkOf(i, k)) + 4)
                   /\ \A j \in 1 .. Len(AfterChunk) :
                        AfterChunk[j] = input[(Len(ChunkOf(i, k)) + 4) + j]
<1>1. Compressed
  BY DEF HasChunk, InPart, Position, ByKind
<1>2. PICK k \in 1 .. ChunkCount(i) + 1 : TakenTo(i, k)
  BY <1>1 DEF Position, ChunksTaken, HasChunk, InPart
<1>3. PICK c : c = ChunkOf(i, k)
  OBVIOUS
<1>4. /\ k \in 1 .. ChunkCount(i) /\ "compressed" \in Archive.files[i].flags
      /\ cab \in DOMAIN Archives
      /\ \/ /\ Len(c) + 4 <= Len(input) /\ ChunkEnds # {} /\ Chunk = c
            /\ AfterChunk \in Seq(Byte) /\ Len(AfterChunk) = Len(input) - (Len(c) + 4)
            /\ \A j \in 1 .. Len(AfterChunk) : AfterChunk[j] = input[(Len(c) + 4) + j]
         \/ ChunkEnds = {} /\ Intact(i) /\ ~WholeChunks(Archive, i)
  BY <1>2, <1>3, NextChunkIs, SMTT(30)
<1>5. /\ Len(c) \in Nat /\ Len(c) > 1
      /\ Inflate(c) \in Seq(Byte) /\ Len(Inflate(c)) <= BUFFER_SIZE
  BY <1>3, <1>4, ChunkSound, ChunkInflates
<1>6. InflateOld(c) = Inflate(c)
  BY <1>5 DEF InflateOld
<1>7. InflatesOld(c)
  BY <1>5, <1>6 DEF InflatesOld
<1> QED BY <1>2, <1>3, <1>4, <1>6, <1>7

LEMMA WrittenTo ==
  ASSUME OInv, TrueCache, Position, WriteOld, pc = "part",
         NEW i \in Files, i = call.index, OldSound(i)
  PROVE  \E k \in 1 .. ChunkCount(i) + 1 :
           /\ Len(got) = StoredAt(i, k) + Len(input')
           /\ \A j \in 1 .. Len(input') : input'[j] = Plain(i)[StoredAt(i, k) + j]
           /\ call'.total = ContentAt(i, k)
           /\ call'.left + call'.total = Len(Archive.content[i])
<1>1. HasChunk /\ ChunkEnds # {} /\ input' = AfterChunk
      /\ call' = [call EXCEPT !.left = LeftAfterOld, !.total = @ + Len(OldOutput)]
  BY DEF WriteOld, WriteChunk, WriteCopied, InputAfter
<1>2. PICK k \in 1 .. ChunkCount(i) :
        /\ TakenTo(i, k) /\ Len(ChunkOf(i, k)) + 4 <= Len(input)
        /\ InflateOld(Chunk) = Inflate(ChunkOf(i, k))
        /\ AfterChunk \in Seq(Byte)
        /\ Len(AfterChunk) = Len(input) - (Len(ChunkOf(i, k)) + 4)
        /\ \A j \in 1 .. Len(AfterChunk) : AfterChunk[j] = input[(Len(ChunkOf(i, k)) + 4) + j]
  BY <1>1, ChunkCutOut
<1>3. PICK c, o, r, p, m :
        /\ c = ChunkOf(i, k) /\ o = Inflate(c) /\ r = AfterChunk /\ p = Plain(i) /\ m = k + 1
  OBVIOUS
<1>4. cab \in DOMAIN Archives /\ "compressed" \in Archive.files[i].flags
  BY OldEntry DEF Position, ByKind
<1>5. /\ Len(c) \in Nat /\ Len(o) \in Nat /\ StoredAt(i, k) \in Nat /\ ContentAt(i, k) \in Nat
      /\ StoredAt(i, m) = StoredAt(i, k) + (Len(c) + 4)
      /\ ContentAt(i, m) = ContentAt(i, k) + Len(o)
      /\ ContentAt(i, m) <= Len(Archive.content[i])
  <2>1. Len(c) \in Nat
    BY <1>3, <1>4, ChunkSound
  <2>2. Len(Inflate(c)) \in Nat
    BY <1>3, <1>4, ChunkInflates
  <2>3. /\ StoredAt(i, k) \in Nat /\ StoredAt(i, k + 1) = StoredAt(i, k) + (Len(c) + 4)
        /\ ContentAt(i, k) \in Nat
    BY <1>3, <1>4, ChunkSpots
  <2>4. /\ ContentAt(i, k + 1) = ContentAt(i, k) + Len(Inflate(c))
        /\ ContentAt(i, k + 1) <= Len(Archive.content[i])
    BY <1>3, <1>4, ChunkSpots
  <2> QED BY <1>3, <2>1, <2>2, <2>3, <2>4
<1>6. /\ Len(got) = StoredAt(i, k) + Len(input)
      /\ \A j \in 1 .. Len(input) : input[j] = p[StoredAt(i, k) + j]
      /\ call.total = ContentAt(i, k) /\ call.left + call.total = Len(Archive.content[i])
  BY <1>2, <1>3 DEF TakenTo
<1>7. /\ call \in OldCall /\ call.left \in 0 .. U32 - 1 /\ call.left \in Nat /\ call.total \in Nat
      /\ Len(input) \in Nat /\ Len(got) \in Nat
      /\ Len(Archive.content[i]) \in Nat /\ ChunkCount(i) \in Nat
  BY <1>4, OldTypes, OldContentMeans, OldChunksMean DEF OldCall
<1>8. Len(r) = Len(input) - (Len(c) + 4) /\ Len(r) \in Nat /\ r = input'
  BY <1>1, <1>2, <1>3, <1>5, <1>7
<1>9. ASSUME NEW j \in 1 .. Len(r) PROVE r[j] = p[StoredAt(i, m) + j]
  <2>1. PICK x : x = (Len(c) + 4) + j /\ x \in 1 .. Len(input)
    BY <1>5, <1>7, <1>8, SMTT(30)
  <2>2. r[j] = input[x]
    BY <1>2, <1>3, <2>1
  <2>3. StoredAt(i, k) + x = StoredAt(i, m) + j
    BY <1>5, <1>8, <2>1
  <2> QED BY <1>6, <2>1, <2>2, <2>3
<1>10. Len(got) = StoredAt(i, m) + Len(r)
  BY <1>5, <1>6, <1>7, <1>8
<1>11. OldOutput = o
  BY <1>2, <1>3 DEF OldOutput
<1>12. Len(o) <= call.left
  <2>1. PICK q, f, t, g, b :
          /\ q = Len(o) /\ f = call.left /\ t = ContentAt(i, k) /\ g = Len(Archive.content[i])
          /\ b = ContentAt(i, m)
    OBVIOUS
  <2>2. b = t + q /\ b <= g /\ q \in Nat /\ t \in Nat
    BY <1>5, <2>1
  <2>3. f + t = g /\ f \in Nat /\ g \in Nat
    BY <1>6, <1>7, <2>1
  <2>4. q <= f
    BY <2>2, <2>3
  <2> QED BY <2>1, <2>4
<1>13. LeftAfterOld = call.left - Len(o)
  BY <1>5, <1>7, <1>11, <1>12, LeftTaken DEF LeftAfterOld
<1>14. call'.left = call.left - Len(o) /\ call'.total = call.total + Len(o)
  BY <1>1, <1>7, <1>11, <1>13 DEF OldCall
<1>15. m \in 1 .. ChunkCount(i) + 1
  BY <1>3, <1>7
<1> WITNESS m \in 1 .. ChunkCount(i) + 1
<1>16. call'.total = ContentAt(i, m) /\ call'.left + call'.total = Len(Archive.content[i])
  BY <1>5, <1>6, <1>7, <1>14
<1> QED BY <1>3, <1>8, <1>9, <1>10, <1>16

LEMMA NextChunksTaken ==
  ASSUME OInv, OInv', TrueCache, NothingOut, AtStart, Position, [OldNext]_oldVars
  PROVE  ChunksTaken'
<1>0. /\ UNCHANGED cab
      /\ OldSound(call.index)' <=> OldSound(call'.index)
      /\ Archive' = Archive
      /\ \A j : Plain(j)' = Plain(j) /\ ChunkCount(j)' = ChunkCount(j)
      /\ \A x, y : StoredAt(x, y)' = StoredAt(x, y) /\ ContentAt(x, y)' = ContentAt(x, y)
  BY OldCab, SameOld, SameArchive
<1> SUFFICES ASSUME pc' \in {"loop", "fill", "part"}, OldSound(call'.index), Compressed'
             PROVE  (\E k \in 1 .. ChunkCount(call.index) + 1 : TakenTo(call.index, k))'
  BY <1>0 DEF ChunksTaken
<1>1. pc \notin {"idle", "lookup", "vet"} /\ ~AskOld /\ ~FollowLink
  BY OldVetted DEF StartReader, At, AskOld, BeginOld, Begin, FollowLink
<1>2. PICK i \in Files : i = call.index /\ call'.index = i
  BY <1>1, OldTypes, OldArguments
<1>3. Compressed /\ OldSound(i)
  BY <1>1, <1>2, SameKind
<1>4. /\ cab \in DOMAIN Archives /\ call \in OldCall
      /\ Len(Plain(i)) \in Nat /\ Len(Archive.content[i]) \in Nat
      /\ "compressed" \in Archive.files[i].flags /\ ChunkCount(i) \in Nat
      /\ StoredAt(i, 1) = 0 /\ ContentAt(i, 1) = 0
  BY <1>1, <1>2, <1>3, OldEntry, OldTypes, OldSoundMeans, OldContentMeans, OldChunksMean
<1> SUFFICES \E k \in 1 .. ChunkCount(i) + 1 :
               /\ Len(got') = StoredAt(i, k) + Len(input') /\ Len(got') <= Len(Plain(i))
               /\ \A j \in 1 .. Len(input') : input'[j] = Plain(i)[StoredAt(i, k) + j]
               /\ call'.total = ContentAt(i, k)
               /\ call'.left + call'.total = Len(Archive.content[i])
  BY <1>0, <1>2 DEF TakenTo
<1>5. ASSUME pc \in {"loop", "fill", "part"}
      PROVE  \E k \in 1 .. ChunkCount(i) + 1 :
               /\ Len(got) = StoredAt(i, k) + Len(input) /\ Len(got) <= Len(Plain(i))
               /\ \A j \in 1 .. Len(input) : input[j] = Plain(i)[StoredAt(i, k) + j]
               /\ call.total = ContentAt(i, k)
               /\ call.left + call.total = Len(Archive.content[i])
  BY <1>2, <1>3, <1>5 DEF Position, ChunksTaken, TakenTo
<1>6. CASE OpenOldOutput
  <2>1. /\ Len(got') = 0 /\ input' = <<>> /\ call'.total = 0
        /\ call'.left = Len(Archive.content[i])
    BY <1>2, <1>3, <1>6, OpensAtStart
  <2>2. 1 \in 1 .. ChunkCount(i) + 1 /\ Len(input') = 0
    BY <1>4, <2>1
  <2>3. /\ Len(got') = StoredAt(i, 1) + Len(input') /\ Len(got') <= Len(Plain(i))
        /\ \A j \in 1 .. Len(input') : input'[j] = Plain(i)[StoredAt(i, 1) + j]
        /\ call'.total = ContentAt(i, 1) /\ call'.left + call'.total = Len(Archive.content[i])
    BY <1>4, <2>1, <2>2
  <2> QED BY <2>2, <2>3
<1>7. CASE pc \in {"loop", "fill", "part"} /\ UNCHANGED <<call, got, input>>
  BY <1>5, <1>7
<1>8. CASE pc \in {"loop", "fill", "part"} /\ OpenNextVolume
  BY <1>2, <1>3, <1>7, <1>8, SoundReadsOn
<1>9. CASE pc \in {"loop", "fill", "part"} /\ (AskPart \/ PartDone \/ UNCHANGED oldVars)
  BY <1>7, <1>9 DEF AskPart, PartDone, ReadBegin, vars, oldVars, allVars, locals
<1>10. CASE AskCopied
  BY <1>3, <1>10 DEF AskCopied
<1>11. CASE pc \in {"loop", "fill", "part"} /\ ContinueRead
  <2>1. pc = "data"
    BY <1>2, <1>3, <1>11, SoundReadsOn
  <2> QED BY <1>11, <2>1
<1>12. CASE pc \in {"loop", "fill", "part"} /\ FinishOldRead
  <2>1. /\ io.status = "reading" /\ pc \in {"part", "data"} /\ UNCHANGED call
        /\ input' = IF pc = "part" THEN io'.buf ELSE <<>>
        /\ Len(got) \in Nat /\ io.size \in Nat
        /\ Len(got') = Len(got) + io.size /\ Len(got) + io.size <= Len(Plain(i))
        /\ Len(io'.buf) = io.size
        /\ \A j \in 1 .. io.size : io'.buf[j] = Plain(i)[Len(got) + j]
    BY <1>2, <1>3, <1>12, OldReadBytes DEF locals
  <2>2. pc = "part" /\ input = <<>> /\ Len(input) = 0 /\ input' = io'.buf
    <3>1. pc = "part"
      BY <1>12, <2>1
    <3>2. input = <<>>
      BY <2>1, <3>1 DEF OInv, OldControl, InputTaken
    <3> QED BY <2>1, <3>1, <3>2
  <2>3. PICK k \in 1 .. ChunkCount(i) + 1 :
          /\ Len(got) = StoredAt(i, k) + Len(input) /\ call.total = ContentAt(i, k)
          /\ call.left + call.total = Len(Archive.content[i])
    BY <1>5, <1>12
  <2>4. StoredAt(i, k) \in Nat
    BY <1>3, <1>4, OldChunksMean
  <2>5. Len(got) = StoredAt(i, k)
    BY <2>2, <2>3, <2>4
  <2>6. /\ Len(got') = StoredAt(i, k) + Len(input') /\ Len(got') <= Len(Plain(i))
        /\ \A j \in 1 .. Len(input') : input'[j] = Plain(i)[StoredAt(i, k) + j]
        /\ call'.total = ContentAt(i, k) /\ call'.left + call'.total = Len(Archive.content[i])
    BY <2>1, <2>2, <2>3, <2>5
  <2> QED BY <2>6
<1>13. CASE pc \in {"loop", "fill", "part"} /\ WriteOld
  <2>1. pc = "part" /\ UNCHANGED got
    BY <1>13 DEF WriteOld, WriteChunk, WriteCopied, HasChunk, InPart, vars
  <2>2. Len(got) <= Len(Plain(i))
    BY <1>2, <1>3, <2>1, OldWithin
  <2> QED BY <1>2, <1>3, <1>13, <2>1, <2>2, WrittenTo
<1>14. CASE pc = "data"
  BY <1>3, <1>14 DEF Position, ByKind
<1> QED BY <1>6, <1>8, <1>9, <1>10, <1>11, <1>12, <1>13, <1>14, OldLoopSteps

LEMMA NextPosition ==
  ASSUME OInv, OInv', TrueCache, NothingOut, FoundBeside, AtStart, Position, [OldNext]_oldVars
  PROVE  Position'
<1>1. ByKind'
  BY NextByKind DEF Position
<1> QED BY <1>1, NextFromBeside, NextChunksTaken, NextBytesCopied, NextSomethingThere,
           NextPartWithin
    DEF Position
-----------------------------------------------------------------------------
(* What is written.                                                        *)
LEMMA OldOutputFits ==
  ASSUME OInv, TrueCache, Position, WriteChunk \/ WriteCopied,
         NEW i \in Files, i = call.index, OldSound(i),
         NEW t, t = Archive.content[i], NEW o, o = OldOutput
  PROVE  /\ t \in Seq(Byte) /\ Len(t) \in Nat /\ o \in Seq(Byte) /\ Len(o) \in Nat
         /\ call.total \in Nat /\ call.total + Len(o) <= Len(t)
         /\ call.left + call.total = Len(t) /\ Len(o) <= call.left
         /\ \A j \in 1 .. Len(o) : t[call.total + j] = o[j]
<1>1. /\ cab \in DOMAIN Archives /\ call.total \in Nat /\ call.left \in Nat
      /\ pc \notin {"idle", "lookup"} /\ pc \in {"part", "data"}
      /\ o \in Seq(Byte) /\ Len(o) \in Nat
  BY OldTypes, OldOutputType
<1>2. t \in Seq(Byte) /\ Len(t) \in Nat
  BY <1>1, OldContentMeans
<1>3. CASE WriteCopied
  <2>1. pc = "data" /\ io.status = "idle" /\ ~Compressed /\ o = io.buf
    BY <1>3 DEF WriteCopied, Position, ByKind, OldOutput
  <2>2. CopiedTo(i)
    BY <2>1 DEF Position, BytesCopied
  <2>3. Plain(i) = t
    BY <1>1, <2>1, OldEntry, OldContentMeans
  <2>4. /\ call.left + call.total = Len(t) /\ Len(o) <= call.left
        /\ \A j \in 1 .. Len(o) : o[j] = t[call.total + j]
    BY <2>1, <2>2, <2>3 DEF CopiedTo
  <2>5. call.total + Len(o) <= Len(t)
    BY <1>1, <1>2, <2>4
  <2> QED BY <1>1, <1>2, <2>4, <2>5
<1>4. CASE WriteChunk
  <2>1. HasChunk /\ ChunkEnds # {} /\ pc = "part"
    BY <1>4 DEF WriteChunk, HasChunk, InPart
  <2>2. "compressed" \in Archive.files[i].flags
    BY <1>1, <2>1, OldEntry DEF Position, ByKind
  <2>3. PICK k \in 1 .. ChunkCount(i) :
          TakenTo(i, k) /\ InflateOld(Chunk) = Inflate(ChunkOf(i, k))
    BY <2>1, ChunkCutOut
  <2>4. PICK c : c = ChunkOf(i, k)
    OBVIOUS
  <2>5. o = Inflate(c)
    BY <2>1, <2>3, <2>4 DEF OldOutput
  <2>6. /\ ContentAt(i, k) \in Nat /\ ContentAt(i, k + 1) = ContentAt(i, k) + Len(o)
        /\ ContentAt(i, k + 1) <= Len(t)
        /\ \A j \in 1 .. Len(o) : t[ContentAt(i, k) + j] = o[j]
    <3>1. /\ ContentAt(i, k) \in Nat
          /\ ContentAt(i, k + 1) = ContentAt(i, k) + Len(Inflate(c))
          /\ ContentAt(i, k + 1) <= Len(Archive.content[i])
          /\ \A j \in 1 .. Len(Inflate(c)) :
               Archive.content[i][ContentAt(i, k) + j] = Inflate(c)[j]
      <4>1. ContentAt(i, k) \in Nat
        BY <1>1, <2>2, <2>4, ChunkSpots
      <4>2. /\ ContentAt(i, k + 1) = ContentAt(i, k) + Len(Inflate(c))
            /\ ContentAt(i, k + 1) <= Len(Archive.content[i])
        BY <1>1, <2>2, <2>4, ChunkSpots
      <4>3. ASSUME NEW j \in 1 .. Len(Inflate(c))
            PROVE  Archive.content[i][ContentAt(i, k) + j] = Inflate(c)[j]
        BY <1>1, <2>2, <2>4, ChunkContent
      <4> QED BY <4>1, <4>2, <4>3
    <3> QED BY <2>5, <3>1
  <2>7. call.total = ContentAt(i, k) /\ call.left + call.total = Len(t)
    BY <2>3 DEF TakenTo
  <2>8. call.total + Len(o) <= Len(t) /\ Len(o) <= call.left
    BY <1>1, <1>2, <2>6, <2>7
  <2> QED BY <1>1, <1>2, <2>6, <2>7, <2>8
<1> QED BY <1>3, <1>4

LEMMA OldGrowsIf ==
  ASSUME NEW s \in Seq(Byte), NEW t \in Seq(Byte), Len(s) <= Len(t), Agree(s, t)
  PROVE  OldPromise!Grows(s, t)
<1>1. Promise!Grows(s, t)
  BY GrowsIf
<1> QED BY <1>1 DEF Promise!Grows, OldPromise!Grows

LEMMA OldGrown ==
  ASSUME NEW s \in Seq(Byte), NEW t \in Seq(Byte), OldPromise!Grows(s, t)
  PROVE  Len(s) <= Len(t) /\ Agree(s, t)
<1>1. Len(s) \in Nat /\ Len(t) \in Nat /\ \A j \in 1 .. Len(t) : t[j] \in Byte
  BY LenProperties, ElementOfSeq
<1>2. PICK n, u : n = Len(s) /\ u = SubSeq(t, 1, n)
  OBVIOUS
<1>3. s = u /\ n <= Len(t) /\ n \in Nat
  BY <1>1, <1>2 DEF OldPromise!Grows
<1>4. \A j \in 1 .. n - 1 + 1 : u[j] = t[1 + j - 1]
  <2>1. \A j \in 1 .. n : t[j] \in Byte
    BY <1>1, <1>3
  <2> QED BY <1>1, <1>2, <1>3, <2>1, SubSeqProperties
<1>5. ASSUME NEW j \in 1 .. n PROVE s[j] = t[j]
  <2>1. j \in 1 .. n - 1 + 1 /\ 1 + j - 1 = j
    BY <1>3
  <2> QED BY <1>3, <1>4, <2>1
<1> QED BY <1>2, <1>3, <1>5 DEF Agree

(* A step writes nothing, begins with an empty file, or goes on behind     *)
(* what was written.                                                       *)
LEMMA OldOutputChanges ==
  ASSUME OInv, [OldNext]_oldVars
  PROVE  \/ UNCHANGED out
         \/ AskOld /\ out'.bytes = <<>>
         \/ OpenOldOutput /\ out'.bytes = <<>>
         \/ WriteOld \/ WriteOldFails
<1>1. CASE AskOld
  BY <1>1 DEF AskOld, BeginOld, Begin, NoFile
<1>2. CASE OpenOldOutput
  <2>1. PICK e : out' = [NoFile EXCEPT !.exists = e]
    BY <1>2 DEF OpenOldOutput
  <2>2. out'.bytes = <<>>
    BY <2>1 DEF NoFile
  <2> QED BY <1>2, <2>2
<1>3. CASE UNCHANGED oldVars
  BY <1>3 DEF oldVars, allVars, locals
<1>4. CASE Shared
  BY <1>4 DEF Shared, LookupFail, Lookup, VetFail, FollowLink, StartReader, NoMemoryForReader,
     OpenReader, ReaderFails, ContinueRead, ReadFails, GiveUp, Answer, ToExit, locals
<1>5. CASE \/ TryExternal \/ ExternalFails \/ OpenExternal \/ OldOutputFails
           \/ OpenNextVolume \/ AskPart \/ AskCopied \/ FinishOldRead \/ PartDone
           \/ ChunkEndLost \/ Stray \/ DecompressionFails \/ VerifyOld \/ ExitOld
  BY <1>5 DEF TryExternal, ExternalFails, OpenExternal, OldOutputFails, OpenNextVolume, AskPart,
     AskCopied, FinishOldRead, FinishRead, PartDone, ChunkEndLost, Stray, DecompressionFails,
     VerifyOld, ExitOld, Exit, GiveUp, Answer, ToExit, locals
<1> QED BY <1>1, <1>2, <1>3, <1>4, <1>5 DEF OldNext, OldWork

LEMMA NextOldOutputIsPrefix ==
  ASSUME OInv, OInv', TrueCache, AskedInRange, SameEnds, Vetted, OutCounted, Position,
         OldOutputIsPrefix, [OldNext]_oldVars
  PROVE  OldOutputIsPrefix'
<1>1. /\ UNCHANGED cab /\ cab \in DOMAIN Archives /\ AskedInRange' /\ call \in OldCall
      /\ Archive' = Archive
  BY OldCab, NextOldLinks, OldTypes, SameArchive
<1>2. PICK a, t, b, w : /\ a = call'.asked /\ t = Target(a)
                        /\ b = out'.bytes /\ w = Archive.content[t]
  OBVIOUS
<1>3. Target(a)' = t /\ (IsLegal(a)' <=> IsLegal(a)) /\ (OldSound(t)' <=> OldSound(t))
  BY <1>1, <1>2, SameRequests, SameOld
<1> SUFFICES ASSUME IsLegal(a), OldSound(t) PROVE OldPromise!Grows(b, w)
  BY <1>1, <1>2, <1>3 DEF OldOutputIsPrefix, OldPromise!Grows
<1>4. a \in -1 .. Archive.count
  BY <1>1, <1>2 DEF AskedInRange
<1>5. t \in Files /\ w \in Seq(Byte)
  BY <1>1, <1>2, <1>4, TargetIsFile, OldContentMeans
<1>6. CASE b = <<>>
  <2>1. b \in Seq(Byte) /\ Len(b) = 0 /\ Len(w) \in Nat
    BY <1>5, <1>6, EmptySeq, LenProperties
  <2>2. Len(b) <= Len(w) /\ Agree(b, w)
    BY <2>1 DEF Agree
  <2> QED BY <1>5, <2>1, <2>2, OldGrowsIf
<1>7. CASE UNCHANGED out /\ ~AskOld
  <2>1. call'.asked = call.asked
    BY <1>7, OldArguments
  <2> QED BY <1>2, <1>7, <2>1 DEF OldOutputIsPrefix
<1>8. CASE WriteOld \/ WriteOldFails
  <2>1. /\ WriteChunk \/ WriteCopied
        /\ pc \in {"part", "data"} /\ pc' \in {"part", "loop", "exit"}
        /\ ~out.exists => out'.bytes = out.bytes
        /\ out.exists =>
              \E s \in Seq(Byte) :
                Len(s) <= Len(OldOutput) /\ Agree(s, OldOutput) /\ out'.bytes = out.bytes \o s
    BY <1>8, WritesOld
  <2>2. call.asked = a
    <3>1. ~AskOld
      BY <2>1 DEF AskOld, BeginOld, Begin
    <3> QED BY <1>2, <3>1, OldArguments
  <2>3. CASE ~out.exists
    BY <1>2, <2>1, <2>2, <2>3 DEF OldOutputIsPrefix
  <2>4. CASE out.exists
    <3>1. PICK d, o : d = out.bytes /\ o = OldOutput
      OBVIOUS
    <3>2. PICK s \in Seq(Byte) : Len(s) <= Len(o) /\ Agree(s, o) /\ b = d \o s
      BY <1>2, <2>1, <2>4, <3>1
    <3>3. t = call.index /\ call.index \in Files
      BY <1>2, <2>1, <2>2, OldReadsTarget
    <3>4. /\ o \in Seq(Byte) /\ Len(o) \in Nat /\ Len(w) \in Nat
          /\ call.total + Len(o) <= Len(w)
          /\ \A j \in 1 .. Len(o) : w[call.total + j] = o[j]
      BY <1>2, <2>1, <3>1, <3>3, OldOutputFits
    <3>5. d \in Seq(Byte) /\ Len(d) = call.total
      BY <2>1, <2>4, <3>1, OldTypes DEF OutCounted, InOldLoop
    <3>6. OldPromise!Grows(d, w)
      BY <1>2, <2>2, <3>1 DEF OldOutputIsPrefix
    <3>7. Agree(d, w)
      BY <1>5, <3>5, <3>6, OldGrown
    <3>8. b \in Seq(Byte) /\ Len(b) = Len(d) + Len(s) /\ Len(d) \in Nat /\ Len(s) \in Nat
      BY <3>2, <3>5, ConcatAt, ConcatProperties, LenProperties
    <3>9. /\ \A j \in 1 .. Len(d) : b[j] = d[j]
          /\ \A j \in 1 .. Len(s) : b[Len(d) + j] = s[j]
      BY <3>2, <3>5, ConcatAt
    <3>10. ASSUME NEW j \in 1 .. Len(b) PROVE b[j] = w[j]
      <4>1. CASE j <= Len(d)
        <5>1. j \in 1 .. Len(d)
          BY <3>8, <4>1
        <5> QED BY <3>7, <3>9, <5>1 DEF Agree
      <4>2. CASE ~(j <= Len(d))
        <5>1. PICK m : m = j - Len(d)
          OBVIOUS
        <5>2. m \in 1 .. Len(s) /\ Len(d) + m = j /\ m \in 1 .. Len(o)
          BY <3>2, <3>4, <3>8, <4>2, <5>1
        <5>3. b[Len(d) + m] = s[m] /\ s[m] = o[m] /\ w[call.total + m] = o[m]
          BY <3>2, <3>4, <3>9, <5>2 DEF Agree
        <5> QED BY <3>5, <5>2, <5>3
      <4> QED BY <4>1, <4>2
    <3>11. Len(b) <= Len(w)
      <4>1. PICK x, y, z, n : x = Len(d) /\ y = Len(s) /\ z = Len(o) /\ n = call.total
        OBVIOUS
      <4>2. x = n /\ y <= z /\ n + z <= Len(w) /\ Len(b) = x + y
            /\ x \in Nat /\ y \in Nat /\ z \in Nat /\ Len(w) \in Nat
        BY <3>2, <3>4, <3>5, <3>8, <4>1
      <4> QED BY <4>2
    <3> QED BY <1>5, <3>8, <3>10, <3>11, OldGrowsIf DEF Agree
  <2> QED BY <2>3, <2>4
<1>9. CASE UNCHANGED out /\ AskOld
  BY <1>2, <1>6, <1>9 DEF AskOld, BeginOld, Begin, NoFile
<1> QED BY <1>2, <1>6, <1>7, <1>8, <1>9, OldOutputChanges
-----------------------------------------------------------------------------
(* The end of a call.                                                      *)
LEMMA OldSoundOrNot ==
  ASSUME NEW i, Extractable(i), cab \in DOMAIN Archives
  PROVE  OldSound(i) /\ (i \in InWholeChunks[cab] \/ IsBesideFile(i))
<1>1. i \in InWholeChunks[cab] => i \in OldSoundFiles[cab]
  BY DEF InWholeChunks
<1> QED BY <1>1 DEF Extractable, OldSound, IsBesideFile

LEMMA SameOldInnocent ==
  ASSUME UNCHANGED cab PROVE \A l : OldInnocent(l)' <=> OldInnocent(l)
<1> SUFFICES ASSUME NEW l PROVE OldInnocent(l)' <=> OldInnocent(l)
  OBVIOUS
<1>1. PICK a, t : a = l.asked /\ t = Target(a)
  OBVIOUS
<1>2. Target(a)' = t /\ (IsLegal(a)' <=> IsLegal(a)) /\ (Extractable(t)' <=> Extractable(t))
  BY <1>1, SameRequests, SameOld
<1> QED BY <1>1, <1>2 DEF OldInnocent

(* No chunk end is lost in the files that lie in whole chunks, or beside   *)
(* the cabinets.                                                           *)
LEMMA ChunkEndFound ==
  ASSUME OInv, TrueCache, Position, HasChunk, NEW i \in Files, i = call.index,
         i \in InWholeChunks[cab] \/ IsBesideFile(i)
  PROVE  ChunkEnds # {} /\ InflatesOld(Chunk)
<1>1. cab \in DOMAIN Archives
  BY OldTypes
<1>2. OldSound(i) /\ (i \in InWholeChunks[cab] => WholeChunks(Archive, i))
  BY <1>1 DEF InWholeChunks, OldSound, IsBesideFile, Archive
<1>3. IsBesideFile(i) => ~Intact(i)
  BY <1>1, BesideMeans
<1>4. ChunkEnds # {}
  BY <1>2, <1>3, ChunkCutOut
<1> QED BY <1>2, <1>4, ChunkCutOut

LEMMA OldVerifiesSound ==
  ASSUME OInv, TrueCache, Position, pc = "loop", call.left = 0,
         NEW i \in Files, i = call.index, OldSound(i)
  PROVE  RightSize
<1>1. cab \in DOMAIN Archives /\ call.total \in Nat
  BY OldTypes
<1>2. PICK e, t : e = Archive.files[i] /\ t = Archive.content[i]
  OBVIOUS
<1>3. /\ Len(t) \in Nat /\ e.expanded = Len(t) /\ fd.expanded = e.expanded
      /\ Compressed <=> "compressed" \in e.flags
      /\ "compressed" \notin e.flags => Plain(i) = t
  BY <1>1, <1>2, OldContentMeans, OldEntry
<1>4. CASE Compressed
  <2>1. PICK k \in 1 .. ChunkCount(i) + 1 : TakenTo(i, k)
    BY <1>4 DEF Position, ChunksTaken
  <2>2. call.left + call.total = Len(t)
    BY <1>2, <2>1 DEF TakenTo
  <2> QED BY <1>1, <1>3, <2>2 DEF RightSize
<1>5. CASE ~Compressed
  <2>1. call.left + call.total = Len(Plain(i))
    BY <1>5 DEF Position, BytesCopied, CopiedTo
  <2>2. call.left + call.total = Len(t)
    BY <1>3, <1>5, <2>1
  <2> QED BY <1>1, <1>3, <2>2 DEF RightSize
<1> QED BY <1>4, <1>5

(* Where a call is that ends.                                              *)
LEMMA OldEnds ==
  ASSUME OInv, [OldNext]_oldVars, pc' \in {"exit", "undefined"}
  PROVE  \/ UNCHANGED oldVars
         \/ /\ pc \in {"check", "open", "loop", "part", "data"} /\ ~AskOld /\ ~FollowLink
            /\ call'.asked = call.asked /\ call'.index = call.index /\ call'.sink = call.sink
            /\ \/ pc' = "undefined" /\ Stray
               \/ pc' = "exit" /\ \/ OldOutputFails \/ (OpenNextVolume /\ io'.status = "failed")
                                  \/ (ContinueRead /\ io'.status = "failed") \/ ReadFails
                                  \/ ChunkEndLost \/ DecompressionFails \/ WriteOldFails
                                  \/ VerifyOld
<1>1. ~AskOld /\ (pc' # pc => ~FollowLink)
  BY DEF AskOld, BeginOld, Begin, FollowLink, At
<1>2. ContinueRead \/ ReadFails => pc \in {"part", "data"}
  <2>1. ContinueRead \/ ReadFails => io.status = "reading"
    BY DEF ContinueRead, ReadFails, ReadAcross, ReadFail
  <2> QED BY <2>1 DEF OInv, OldLocals, OldControl, OldStatus
<1>3. Stray \/ ChunkEndLost \/ DecompressionFails => pc = "part"
  BY DEF Stray, ChunkEndLost, DecompressionFails, HasChunk, InPart
<1>4. OldOutputFails => pc \in {"check", "open"}
  BY DEF OldOutputFails, OutputDue
<1>5. OpenNextVolume \/ VerifyOld => pc = "loop"
  BY DEF OpenNextVolume, VerifyOld
<1>6. WriteOldFails => pc \in {"part", "data"}
  BY WritesOld
<1>7. \/ UNCHANGED oldVars
      \/ /\ pc \in {"check", "open", "loop", "part", "data"}
         /\ \/ pc' = "undefined" /\ Stray
            \/ pc' = "exit" /\ \/ OldOutputFails \/ (OpenNextVolume /\ io'.status = "failed")
                               \/ (ContinueRead /\ io'.status = "failed") \/ ReadFails
                               \/ ChunkEndLost \/ DecompressionFails \/ WriteOldFails
                               \/ VerifyOld
  BY <1>2, <1>3, <1>4, <1>5, <1>6, OldExitSteps
<1>8. pc \in {"check", "open", "loop", "part", "data"} =>
        /\ ~FollowLink /\ call'.asked = call.asked /\ call'.index = call.index
        /\ call'.sink = call.sink
  <2>1. pc \in {"check", "open", "loop", "part", "data"} => ~FollowLink
    BY DEF FollowLink, At
  <2> QED BY <1>1, <2>1, OldArguments
<1> QED BY <1>1, <1>7, <1>8

LEMMA NextOldExitExplained ==
  ASSUME OInv, TrueCache, AskedInRange, SameEnds, Vetted, Position, OldExitExplained,
         [OldNext]_oldVars
  PROVE  OldExitExplained'
<1>1. UNCHANGED cab /\ cab \in DOMAIN Archives /\ call \in OldCall
  BY OldCab, OldTypes
<1>2. PICK c : c = call'
  OBVIOUS
<1> SUFFICES ASSUME pc' = "exit", OldInnocent(c) PROVE c.ok
  BY <1>1, <1>2, SameOldInnocent DEF OldExitExplained
<1>3. CASE UNCHANGED oldVars
  BY <1>2, <1>3 DEF OldExitExplained, oldVars, allVars, locals
<1>4. CASE /\ pc \in {"check", "open", "loop", "part", "data"}
           /\ call'.asked = call.asked
           /\ \/ OldOutputFails \/ (OpenNextVolume /\ io'.status = "failed")
              \/ (ContinueRead /\ io'.status = "failed") \/ ReadFails
              \/ ChunkEndLost \/ DecompressionFails \/ WriteOldFails \/ VerifyOld
  <2>1. PICK i \in Files : i = call.index /\ Target(call.asked) = i
    BY <1>4, OldReadsTarget
  <2>2. Extractable(i) /\ ~c.fault
    BY <1>2, <1>4, <2>1 DEF OldInnocent
  <2>3. OldSound(i) /\ (i \in InWholeChunks[cab] \/ IsBesideFile(i))
    BY <1>1, <2>2, OldSoundOrNot
  <2>4. CASE OldOutputFails
    <3>1. call' = [call EXCEPT !.fault = TRUE]
      BY <2>4 DEF OldOutputFails, ToExit
    <3> QED BY <1>1, <1>2, <2>2, <3>1 DEF OldCall
  <2>5. CASE OpenNextVolume /\ io'.status = "failed"
    <3>1. pc = "loop"
      BY <2>5 DEF OpenNextVolume
    <3> QED BY <2>1, <2>3, <2>5, <3>1, SoundReadsOn
  <2>6. CASE (ContinueRead /\ io'.status = "failed") \/ ReadFails
    <3>1. pc \in {"part", "data"}
      <4>1. io.status = "reading"
        BY <2>6 DEF ContinueRead, ReadFails, ReadAcross, ReadFail
      <4> QED BY <4>1 DEF OInv, OldLocals, OldControl, OldStatus
    <3> QED BY <2>1, <2>3, <2>6, <3>1, SoundReadsOn
  <2>7. CASE ChunkEndLost \/ DecompressionFails
    BY <2>1, <2>3, <2>7, ChunkEndFound DEF ChunkEndLost, DecompressionFails
  <2>8. CASE WriteOldFails
    <3>1. call' = [call EXCEPT !.left = LeftAfterOld, !.fault = TRUE]
      BY <2>8 DEF WriteOldFails, ToExit
    <3> QED BY <1>1, <1>2, <2>2, <3>1 DEF OldCall
  <2>9. CASE VerifyOld
    <3>1. pc = "loop" /\ call.left = 0 /\ call' = [call EXCEPT !.ok = RightSize]
      BY <2>9 DEF VerifyOld, ToExit
    <3>2. RightSize
      BY <2>1, <2>3, <3>1, OldVerifiesSound
    <3> QED BY <1>1, <1>2, <3>1, <3>2 DEF OldCall
  <2> QED BY <1>4, <2>4, <2>5, <2>6, <2>7, <2>8, <2>9
<1> QED BY <1>3, <1>4, OldEnds

LEMMA NextSearchInside ==
  ASSUME OInv, TrueCache, Position, SearchInside, [OldNext]_oldVars
  PROVE  SearchInside'
<1>1. UNCHANGED cab /\ cab \in DOMAIN Archives
  BY OldCab
<1>2. InWholeChunks' = InWholeChunks /\ BesideFiles' = BesideFiles
  BY DEF InWholeChunks, OldSoundFiles, BesideFiles
<1> SUFFICES ASSUME pc' = "undefined"
             PROVE  call'.index \notin InWholeChunks[cab] \cup BesideFiles[cab]
  BY <1>1, <1>2 DEF SearchInside
<1>3. CASE UNCHANGED oldVars
  BY <1>3 DEF SearchInside, oldVars, allVars, locals
<1>4. CASE Stray /\ call'.index = call.index
  <2>1. HasChunk /\ ChunkEnds = {} /\ pc = "part"
    BY <1>4 DEF Stray, HasChunk, InPart
  <2>2. PICK i \in Files : i = call.index
    BY <2>1, OldTypes
  <2>3. ~(i \in InWholeChunks[cab] \/ IsBesideFile(i))
    BY <2>1, <2>2, ChunkEndFound
  <2> QED BY <1>4, <2>2, <2>3 DEF IsBesideFile
<1> QED BY <1>3, <1>4, OldEnds
-----------------------------------------------------------------------------
(* The answer to a call.                                                   *)
OldAnswerIs(c) ==
  \/ (LookupFail \/ VetFail \/ ReaderFails \/ Exit) /\ c = call
  \/ ExternalFails /\ call.index \notin DOMAIN Archive.external /\ c = call
  \/ (NoMemoryForReader \/ ExternalFails) /\ c = [call EXCEPT !.fault = TRUE]

LEMMA OldAnswers ==
  ASSUME OInv, [OldNext]_oldVars
  PROVE  \/ UNCHANGED log
         \/ \E c \in OldCall : OldAnswerIs(c) /\ Answer(c)
<1>1. call \in OldCall
  BY OldTypes
<1>2. [call EXCEPT !.fault = TRUE] \in OldCall
  BY <1>1 DEF OldCall
<1>3. CASE LookupFail \/ VetFail \/ ReaderFails \/ Exit
  <2>1. Answer(call)
    BY <1>3 DEF LookupFail, VetFail, ReaderFails, Exit, GiveUp
  <2> QED BY <1>1, <1>3, <2>1 DEF OldAnswerIs
<1>4. CASE NoMemoryForReader
  <2>1. Answer([call EXCEPT !.fault = TRUE])
    BY <1>4 DEF NoMemoryForReader
  <2> QED BY <1>2, <1>4, <2>1 DEF OldAnswerIs
<1>5. CASE ExternalFails
  <2>1. CASE call.index \notin DOMAIN Archive.external /\ GiveUp
    BY <1>1, <1>5, <2>1 DEF OldAnswerIs, GiveUp
  <2>2. CASE Answer([call EXCEPT !.fault = TRUE])
    BY <1>2, <1>5, <2>2 DEF OldAnswerIs
  <2> QED BY <1>5, <2>1, <2>2 DEF ExternalFails
<1>6. CASE UNCHANGED oldVars
  BY <1>6 DEF oldVars, allVars, locals
<1>7. CASE Shared /\ ~(LookupFail \/ VetFail \/ ReaderFails \/ NoMemoryForReader)
  BY <1>7 DEF Shared, Lookup, FollowLink, StartReader, OpenReader, ContinueRead, ReadFails, ToExit,
     locals
<1>8. CASE \/ AskOld \/ TryExternal \/ OpenExternal \/ OpenOldOutput \/ OldOutputFails
           \/ OpenNextVolume \/ AskPart \/ AskCopied \/ FinishOldRead \/ PartDone
           \/ ChunkEndLost \/ Stray \/ DecompressionFails \/ WriteOld \/ WriteOldFails \/ VerifyOld
  BY <1>8 DEF AskOld, BeginOld, Begin, TryExternal, OpenExternal, OpenOldOutput, OldOutputFails,
     OpenNextVolume, AskPart, AskCopied, FinishOldRead, FinishRead, PartDone,
     ChunkEndLost, Stray, DecompressionFails, WriteOld, WriteOldFails, VerifyOld, ToExit, locals
<1> QED BY <1>3, <1>4, <1>5, <1>6, <1>7, <1>8 DEF OldNext, OldWork, Shared, ExitOld

LEMMA OldNewEntry ==
  ASSUME OInv, NEW c \in OldCall, Answer(c)
  PROVE  /\ Len(log') = Len(log) + 1 /\ Len(log) \in Nat
         /\ DOMAIN log = 1 .. Len(log) /\ DOMAIN log' = 1 .. Len(log) + 1
         /\ \A k \in 1 .. Len(log) : log'[k] = log[k]
         /\ log'[Len(log) + 1] =
              [op |-> c.op, asked |-> c.asked, sink |-> c.sink, ok |-> c.ok,
               fault |-> c.fault, bytes |-> out.bytes]
<1>1. log \in Seq(OldAnswer) /\ out.bytes \in Seq(Byte)
  BY DEF OInv, OldLocals
<1>2. PICK x : x = [op |-> c.op, asked |-> c.asked, sink |-> c.sink, ok |-> c.ok,
                    fault |-> c.fault, bytes |-> out.bytes]
  OBVIOUS
<1>3. x \in OldAnswer
  BY <1>1, <1>2 DEF OldCall, OldAnswer
<1>4. log' = Append(log, x)
  BY <1>2 DEF Answer
<1>5. /\ log' \in Seq(OldAnswer) /\ Len(log') = Len(log) + 1
      /\ \A k \in 1 .. Len(log) : log'[k] = log[k]
      /\ log'[Len(log) + 1] = x
  BY <1>1, <1>3, <1>4, AppendProperties
<1>6. /\ Len(log) \in Nat /\ DOMAIN log = 1 .. Len(log) /\ DOMAIN log' = 1 .. Len(log')
  BY <1>1, <1>5, LenProperties
<1> QED BY <1>2, <1>5, <1>6

LEMMA OldAnswerExplained ==
  ASSUME OInv, TrueCache, AskedInRange, SameEnds, Vetted, BesideCache, Missed, OldExitExplained,
         NEW c, OldAnswerIs(c), OldInnocent(c)
  PROVE  c.ok
<1>1. /\ IInv /\ cab \in DOMAIN Archives /\ call \in OldCall /\ IsLegal(c.asked)
      /\ DOMAIN Archive.files = Files /\ ~c.fault
  BY ArchiveType, OldTypes DEF OldInnocent
<1>2. ASSUME c = call, EndsOf(call.index) = {} PROVE FALSE
  BY <1>1, <1>2, EndsAre DEF SameEnds, AskedInRange, IsLegal
<1>3. CASE LookupFail /\ c = call
  <2>1. call.index \notin Files
    BY <1>3 DEF LookupFail
  <2>2. EndsOf(call.index) = {}
    BY <1>1, <2>1, EndsOfFile
  <2> QED BY <1>2, <1>3, <2>2
<1>4. CASE VetFail /\ c = call
  <2>1. pc = "vet" /\ IsInvalid(fd)
    BY <1>4 DEF VetFail
  <2>2. PICK i \in Files : i = call.index /\ fds[i] # NotRead
    BY <2>1, OldTypes DEF OInv, OldControl, OldFile
  <2>3. PICK d, e : d = fds[i] /\ e = Archive.files[i]
    OBVIOUS
  <2>4. IsInvalid(d) <=> IsInvalid(e)
    BY <1>1, <2>2, <2>3, EntryCached
  <2>5. IsInvalid(Archive.files[i])
    BY <2>1, <2>2, <2>3, <2>4 DEF fd
  <2>6. ~HasLink(Archive, i)
    BY <2>5 DEF HasLink
  <2>7. EndsOf(i) = {i}
    BY <1>1, <2>6, EndsOfFile
  <2>8. Ends(c.asked) = {i}
    BY <1>1, <1>4, <2>2, <2>7, EndsAre DEF SameEnds, AskedInRange
  <2> QED BY <1>1, <2>5, <2>8 DEF IsLegal
<1>5. CASE ReaderFails /\ c = call
  <2>1. pc = "create" /\ CreateFail
    BY <1>5 DEF ReaderFails
  <2>2. PICK i \in Files : i = call.index /\ Target(call.asked) = i /\ fds[i] # NotRead
    BY <2>1, OldReadsTarget
  <2>3. rd.index = i
    BY <2>1, <2>2 DEF OInv, OldControl, OldFile
  <2>4. OldSound(i)
    BY <1>1, <1>5, <2>2, OldSoundOrNot DEF OldInnocent
  <2>5. PICK v : v = fds[i].volume
    OBVIOUS
  <2>6. Readable(v)
    <3>1. CASE Intact(i)
      <4>1. v \in FirstVolume(i) .. Lo(i)
        BY <1>1, <2>2, <2>5, <3>1, IntactMeans, InvTypes DEF OInv, CacheSound, KnownAs
      <4>2. FirstVolume(i) \in Nat /\ Lo(i) \in Nat /\ Hi(i) \in Nat /\ Lo(i) <= Hi(i)
        BY <1>1, <3>1, IntactMeans, PartsInOrder, HeadersSay
      <4>3. v \in FirstVolume(i) .. Hi(i)
        BY <4>1, <4>2
      <4> QED BY <1>1, <3>1, <4>3, SearchedReadable
    <3>2. CASE IsBesideFile(i)
      <4>1. v \in FirstVolume(i) .. Lo(i)
        BY <2>2, <2>5, <3>2 DEF BesideCache
      <4> QED BY <1>1, <3>2, <4>1, BesideSearch
    <3> QED BY <1>1, <2>4, <3>1, <3>2, OldSoundMeans
  <2>7. ~Readable(v)
    BY <2>1, <2>3, <2>5 DEF CreateFail
  <2> QED BY <2>6, <2>7
<1>6. CASE Exit /\ c = call
  BY <1>6 DEF Exit, OldExitExplained
<1>7. CASE ExternalFails /\ call.index \notin DOMAIN Archive.external /\ c = call
  <2>1. pc = "external" /\ call.index \notin DOMAIN Archive.external
    BY <1>7 DEF ExternalFails
  <2>2. PICK i \in Files : i = call.index /\ Target(call.asked) = i
    BY <2>1, OldReadsTarget
  <2>3. IsBesideFile(i)
    BY <1>7, <2>1, <2>2 DEF Missed, OldInnocent
  <2> QED BY <1>1, <2>1, <2>2, <2>3, BesideMeans
<1>8. CASE c = [call EXCEPT !.fault = TRUE]
  BY <1>1, <1>8 DEF OldCall
<1> QED BY <1>3, <1>4, <1>5, <1>6, <1>7, <1>8 DEF OldAnswerIs

LEMMA NextOldAnswersExplained ==
  ASSUME OInv, TrueCache, AskedInRange, SameEnds, Vetted, BesideCache, Missed, OldExitExplained,
         OldAnswersExplained, [OldNext]_oldVars
  PROVE  OldAnswersExplained'
<1>1. UNCHANGED cab
  BY OldCab
<1>2. ASSUME \A k \in DOMAIN log' : OldInnocent(log'[k]) => log'[k].ok
      PROVE  OldAnswersExplained'
  BY <1>1, <1>2, SameOldInnocent DEF OldAnswersExplained
<1>3. CASE UNCHANGED log
  BY <1>2, <1>3 DEF OldAnswersExplained
<1>4. CASE ~UNCHANGED log
  <2>1. PICK c \in OldCall : OldAnswerIs(c) /\ Answer(c)
    BY <1>4, OldAnswers
  <2>2. PICK n, x : n = Len(log) /\ x = log'[n + 1]
    OBVIOUS
  <2>3. /\ n \in Nat /\ DOMAIN log = 1 .. n /\ DOMAIN log' = 1 .. n + 1
        /\ \A k \in 1 .. n : log'[k] = log[k]
        /\ x = [op |-> c.op, asked |-> c.asked, sink |-> c.sink, ok |-> c.ok,
                fault |-> c.fault, bytes |-> out.bytes]
    BY <2>1, <2>2, OldNewEntry
  <2>4. OldInnocent(x) => x.ok
    <3>1. x.asked = c.asked /\ x.fault = c.fault /\ x.ok = c.ok
      BY <2>3
    <3>2. OldInnocent(x) => OldInnocent(c)
      BY <3>1 DEF OldInnocent
    <3>3. OldInnocent(c) => c.ok
      BY <2>1, OldAnswerExplained
    <3> QED BY <3>1, <3>2, <3>3
  <2>5. ASSUME NEW k \in 1 .. n + 1 PROVE OldInnocent(log'[k]) => log'[k].ok
    <3>1. CASE k = n + 1
      BY <2>2, <2>4, <3>1
    <3>2. CASE k # n + 1
      <4>1. k \in 1 .. n
        BY <2>3, <3>2
      <4> QED BY <2>3, <4>1 DEF OldAnswersExplained
    <3> QED BY <3>1, <3>2
  <2> QED BY <1>2, <2>3, <2>5
<1> QED BY <1>3, <1>4
-----------------------------------------------------------------------------
(* What is answered with success is acceptable.                            *)
LEMMA OldRequestIs ==
  ASSUME NEW t, t = Target(call.asked), NEW e, e = Archive.files[t], IsLegal(call.asked)
  PROVE  /\ OldRequest.legal /\ (OldRequest.kept <=> call.sink = "file")
         /\ OldRequest.size = e.expanded
         /\ \A b \in OldRequest.exact : OldSound(t) /\ b = Archive.content[t]
<1>1. PICK size, exact :
        size = e.expanded /\ exact = IF OldSound(t) THEN {Archive.content[t]} ELSE {}
  OBVIOUS
<1>2. OldRequest.legal /\ (OldRequest.kept <=> call.sink = "file")
  BY DEF OldRequest
<1>3. OldRequest.size = size
  BY <1>1 DEF OldRequest
<1>4. OldRequest.exact = exact
  BY <1>1 DEF OldRequest
<1> QED BY <1>1, <1>2, <1>3, <1>4

LEMMA OldVerifyAccepts ==
  ASSUME OInv, TrueCache, AskedInRange, SameEnds, Vetted, OutCounted, OldOutputIsPrefix,
         pc = "loop", call.left = 0, RightSize
  PROVE  OldPromise!Acceptable
<1>1. /\ cab \in DOMAIN Archives /\ out.bytes \in Seq(Byte)
      /\ call.sink = "file" => Len(out.bytes) = call.total
  BY OldTypes DEF OutCounted, InOldLoop
<1>2. PICK i \in Files : i = call.index /\ Target(call.asked) = i /\ IsLegal(call.asked)
  BY OldReadsTarget
<1>3. PICK e, b : e = Archive.files[i] /\ b = out.bytes
  OBVIOUS
<1>4. /\ OldRequest.legal /\ (OldRequest.kept <=> call.sink = "file")
      /\ OldRequest.size = e.expanded
      /\ \A w \in OldRequest.exact : OldSound(i) /\ w = Archive.content[i]
  BY <1>2, <1>3, OldRequestIs
<1>5. call.total = e.expanded
  <2>1. fd.expanded = e.expanded
    BY <1>2, <1>3, OldEntry
  <2> QED BY <2>1 DEF RightSize
<1>6. ASSUME call.sink = "file", NEW w \in OldRequest.exact PROVE b = w
  <2>1. OldSound(i) /\ w = Archive.content[i]
    BY <1>4, <1>6
  <2>2. w \in Seq(Byte) /\ e.expanded = Len(w)
    BY <1>1, <1>3, <2>1, OldContentMeans
  <2>3. OldPromise!Grows(b, w)
    BY <1>2, <1>3, <2>1 DEF OldOutputIsPrefix
  <2>4. Agree(b, w)
    BY <1>1, <1>3, <2>2, <2>3, OldGrown
  <2>5. Len(b) = Len(w)
    BY <1>1, <1>3, <1>5, <1>6, <2>2
  <2> QED BY <1>1, <1>3, <2>2, <2>4, <2>5, SeqEqual DEF Agree
<1> QED BY <1>1, <1>3, <1>4, <1>5, <1>6 DEF OldPromise!Acceptable

LEMMA SameOldRequest ==
  ASSUME UNCHANGED cab, call'.asked = call.asked, call'.sink = call.sink
  PROVE  OldRequest' = OldRequest
<1>1. PICK a, t, sink : a = call.asked /\ t = Target(a) /\ sink = call.sink
  OBVIOUS
<1>2. call'.asked = a /\ call'.sink = sink
  BY <1>1
<1>3. /\ Archive' = Archive /\ Target(a)' = t /\ (IsLegal(a)' <=> IsLegal(a))
      /\ (OldSound(t)' <=> OldSound(t))
  BY <1>1, SameRequests, SameOld
<1>4. PICK e, w : e = Archive.files[t] /\ w = Archive.content[t]
  OBVIOUS
<1>5. CASE IsLegal(a) /\ OldSound(t)
  <2>1. OldRequest = [legal |-> TRUE, kept |-> sink = "file", size |-> e.expanded,
                      exact |-> {w}]
    BY <1>1, <1>4, <1>5 DEF OldRequest
  <2>2. OldRequest' = [legal |-> TRUE, kept |-> sink = "file", size |-> e.expanded,
                       exact |-> {w}]
    BY <1>2, <1>3, <1>4, <1>5 DEF OldRequest
  <2> QED BY <2>1, <2>2
<1>6. CASE IsLegal(a) /\ ~OldSound(t)
  <2>1. OldRequest = [legal |-> TRUE, kept |-> sink = "file", size |-> e.expanded, exact |-> {}]
    BY <1>1, <1>4, <1>6 DEF OldRequest
  <2>2. OldRequest' = [legal |-> TRUE, kept |-> sink = "file", size |-> e.expanded, exact |-> {}]
    BY <1>2, <1>3, <1>4, <1>6 DEF OldRequest
  <2> QED BY <2>1, <2>2
<1>7. CASE ~IsLegal(a)
  <2>0. IsLegal(a) = FALSE /\ IsLegal(a)' = FALSE
    BY <1>3, <1>7 DEF IsLegal
  <2>1. OldRequest = [legal |-> FALSE, kept |-> sink = "file", size |-> 0, exact |-> {}]
    BY <1>1, <2>0 DEF OldRequest
  <2>2. OldRequest' = [legal |-> FALSE, kept |-> sink = "file", size |-> 0, exact |-> {}]
    BY <1>2, <1>3, <2>0 DEF OldRequest
  <2> QED BY <2>1, <2>2
<1> QED BY <1>5, <1>6, <1>7

LEMMA NextOldAccepted ==
  ASSUME OInv, NotOkYet, TrueCache, AskedInRange, SameEnds, Vetted, OutCounted,
         OldOutputIsPrefix, OldAccepted, [OldNext]_oldVars
  PROVE  OldAccepted'
<1>1. UNCHANGED cab /\ call \in OldCall
  BY OldCab, OldTypes
<1> SUFFICES ASSUME pc' = "exit", call'.ok PROVE OldPromise!Acceptable'
  BY DEF OldAccepted
<1>2. ASSUME OldPromise!Acceptable, OldRequest' = OldRequest, UNCHANGED out
      PROVE  OldPromise!Acceptable'
  BY <1>2 DEF OldPromise!Acceptable
<1>3. CASE UNCHANGED oldVars
  <2>1. UNCHANGED <<pc, call, out>>
    BY <1>3 DEF oldVars, allVars, locals
  <2>2. OldRequest' = OldRequest
    BY <1>1, <2>1, SameOldRequest
  <2> QED BY <1>2, <2>1, <2>2 DEF OldAccepted
<1>4. CASE VerifyOld /\ call'.asked = call.asked /\ call'.sink = call.sink
  <2>1. pc = "loop" /\ call.left = 0 /\ call' = [call EXCEPT !.ok = RightSize] /\ UNCHANGED out
    BY <1>4 DEF VerifyOld, ToExit
  <2>2. RightSize
    BY <1>1, <2>1 DEF OldCall
  <2>3. OldRequest' = OldRequest
    BY <1>1, <1>4, SameOldRequest
  <2> QED BY <1>2, <2>1, <2>2, <2>3, OldVerifyAccepts
<1>5. CASE ~VerifyOld /\ pc # "exit"
  BY <1>5, NextNotOkYet
<1> QED BY <1>3, <1>4, <1>5, OldEnds
-----------------------------------------------------------------------------
LEMMA InitYInv == OldInit => YInv
<1> SUFFICES ASSUME OldInit PROVE YInv
  OBVIOUS
<1>1. OInv
  BY InitOInv
<1>2. /\ pc = "idle" /\ call = NewCall("save", 0, "null") /\ out = NoFile /\ log = <<>>
      /\ fds = [i \in Files |-> NotRead] /\ cab \in DOMAIN Archives
  BY DEF OldInit, SaveInit, Init
<1>3. call.asked = 0 /\ call.index = 0
  BY <1>2 DEF NewCall
<1>4. TrueCache /\ BesideCache
  BY <1>2 DEF TrueCache, BesideCache
<1>5. AskedInRange /\ SameEnds
  BY <1>2, <1>3, ArchiveType DEF AskedInRange, SameEnds
<1>6. /\ NothingOut /\ OutCounted /\ NotOkYet /\ Vetted /\ FoundPart /\ FoundBeside /\ AtStart
      /\ Missed /\ OldExitExplained /\ SearchInside /\ OldAccepted
  BY <1>2 DEF NothingOut, OutCounted, InOldLoop, NotOkYet, Vetted, FoundPart, FoundBeside, AtStart,
     Missed, OldExitExplained, SearchInside, OldAccepted
<1>7. Position
  BY <1>2 DEF Position, FromBeside, ByKind, ChunksTaken, BytesCopied, SomethingThere, PartWithin,
     InOldLoop
<1>8. OldAnswersExplained
  BY <1>2 DEF OldAnswersExplained
<1>9. OldOutputIsPrefix
  <2> SUFFICES ASSUME IsLegal(0), OldSound(Target(0))
               PROVE  OldPromise!Grows(out.bytes, Archive.content[Target(0)])
    BY <1>3 DEF OldOutputIsPrefix
  <2>1. PICK t, w : t = Target(0) /\ w = Archive.content[t]
    OBVIOUS
  <2>2. t \in Files
    BY <1>2, <1>3, <1>5, <2>1, TargetIsFile DEF AskedInRange
  <2>3. w \in Seq(Byte)
    BY <1>2, <2>1, <2>2, OldContentMeans
  <2>4. out.bytes = <<>> /\ <<>> \in Seq(Byte) /\ Len(<<>>) = 0 /\ Len(w) \in Nat
    BY <1>2, <2>3, EmptySeq, LenProperties DEF NoFile
  <2>5. Len(out.bytes) <= Len(w) /\ Agree(out.bytes, w)
    BY <2>4 DEF Agree
  <2> QED BY <2>1, <2>3, <2>4, <2>5, OldGrowsIf
<1> QED BY <1>1, <1>4, <1>5, <1>6, <1>7, <1>8, <1>9 DEF YInv

LEMMA NextYInv ==
  ASSUME YInv, [OldNext]_oldVars PROVE YInv'
<1>1. OInv'
  BY NextOInv DEF YInv
<1>2. NothingOut' /\ OutCounted' /\ NotOkYet'
  BY NextNothingOut, NextOutCounted, NextNotOkYet DEF YInv
<1>3. TrueCache' /\ BesideCache'
  BY NextOldTrueCache, NextBesideCache DEF YInv
<1>4. AskedInRange' /\ SameEnds' /\ Vetted'
  BY NextOldLinks DEF YInv
<1>5. FoundPart' /\ FoundBeside' /\ AtStart'
  BY NextOldFound DEF YInv
<1>6. Position'
  BY <1>1, NextPosition DEF YInv
<1>7. OldOutputIsPrefix'
  BY <1>1, NextOldOutputIsPrefix DEF YInv
<1>8. Missed'
  BY NextMissed DEF YInv
<1>9. OldExitExplained'
  BY NextOldExitExplained DEF YInv
<1>10. OldAnswersExplained'
  BY NextOldAnswersExplained DEF YInv
<1>11. SearchInside'
  BY NextSearchInside DEF YInv
<1>12. OldAccepted'
  BY NextOldAccepted DEF YInv
<1> QED BY <1>1, <1>2, <1>3, <1>4, <1>5, <1>6, <1>7, <1>8, <1>9, <1>10, <1>11, <1>12 DEF YInv

(* Whatever unshield_file_save_old has written, at any moment and however  *)
(* the call ends, is the beginning of the file that it was asked for: the  *)
(* search for markers cuts out the chunks as they were stored, or none.    *)
THEOREM OldOutputStaysAPrefix == OldSpec => []OldOutputIsPrefix
<1>1. YInv => OldOutputIsPrefix
  BY DEF YInv
<1> QED BY <1>1, InitYInv, NextYInv, PTL DEF OldSpec

(* unshield_file_save_old extracts every file whose volumes end with its   *)
(* chunks, wherever it is cut, unless the output or memory fail the call,  *)
(* and the search for markers stays within the buffer.                     *)
THEOREM WholeChunksAreExtracted == OldSpec => []WholeChunksExtract
<1>1. YInv => WholeChunksExtract
  <2> SUFFICES ASSUME YInv PROVE WholeChunksExtract
    OBVIOUS
  <2>1. ASSUME NEW k \in DOMAIN log, NEW t, t = Target(log[k].asked), IsLegal(log[k].asked),
               t \in InWholeChunks[cab], ~log[k].fault, ~AtEndOfVolume(t)
        PROVE  log[k].ok
    BY <2>1 DEF YInv, OldAnswersExplained, OldInnocent, Extractable
  <2>2. pc = "undefined" => call.index \notin InWholeChunks[cab] \cup BesideFiles[cab]
    BY DEF YInv, SearchInside
  <2> QED BY <2>1, <2>2 DEF WholeChunksExtract
<1> QED BY <1>1, InitYInv, NextYInv, PTL DEF OldSpec

(* unshield_file_save_old extracts every file that lies beside the         *)
(* cabinets, also without the end of its last marker, unless the output,   *)
(* memory or opening the file fail the call.                               *)
THEOREM BesideFilesAreExtracted == OldSpec => []BesideExtracts
<1>1. YInv => BesideExtracts
  BY DEF YInv, OldAnswersExplained, OldInnocent, Extractable, IsBesideFile, BesideExtracts
<1> QED BY <1>1, InitYInv, NextYInv, PTL DEF OldSpec
-----------------------------------------------------------------------------
(* The steps of unshield_file_save_old are steps of Extraction.            *)
LEMMA OldRequestType ==
  ASSUME YInv PROVE OldRequest \in OldPromise!Requests
<1>1. cab \in DOMAIN Archives /\ call \in OldCall /\ AskedInRange
  BY OldTypes DEF YInv
<1>2. PICK t, e : t = Target(call.asked) /\ e = Archive.files[t]
  OBVIOUS
<1>3. ASSUME NEW s \in Seq(Byte) PROVE s \in Seq(Nat)
  <2>1. Byte \subseteq Nat
    BY DEF Byte
  <2> QED BY <2>1, SeqMonotonic
<1>4. CASE IsLegal(call.asked)
  <2>1. t \in Files /\ e \in FileDescriptor
    BY <1>1, <1>2, <1>4, TargetIsFile, ArchiveType DEF AskedInRange
  <2>2. /\ OldRequest.size = e.expanded
        /\ \A b \in OldRequest.exact : OldSound(t) /\ b = Archive.content[t]
    BY <1>2, <1>4, OldRequestIs
  <2>3. OldRequest.size \in Nat
    BY <2>1, <2>2 DEF FileDescriptor
  <2>4. OldRequest.exact \in SUBSET Seq(Nat)
    <3>1. OldSound(t) => Archive.content[t] \in Seq(Byte)
      BY <1>1, <2>1, OldContentMeans
    <3> QED BY <1>3, <2>2, <3>1
  <2>5. IsLegal(call.asked) \in BOOLEAN
    BY DEF IsLegal
  <2>6. PICK size, exact :
          OldRequest = [legal |-> IsLegal(call.asked), kept |-> call.sink = "file",
                        size |-> size, exact |-> exact]
    BY DEF OldRequest
  <2>7. size \in Nat /\ exact \in SUBSET Seq(Nat)
    BY <2>3, <2>4, <2>6
  <2> QED BY <2>5, <2>6, <2>7 DEF OldPromise!Requests
<1>5. CASE ~IsLegal(call.asked)
  <2>1. IsLegal(call.asked) = FALSE
    BY <1>5 DEF IsLegal
  <2>2. OldRequest = [legal |-> FALSE, kept |-> call.sink = "file", size |-> 0, exact |-> {}]
    BY <2>1 DEF OldRequest
  <2> QED BY <2>2 DEF OldPromise!Requests
<1> QED BY <1>4, <1>5

LEMMA OldAnswersAppended ==
  ASSUME OInv, NEW c \in OldCall, Answer(c)
  PROVE  [k \in DOMAIN log' |-> log'[k].ok] = Append([k \in DOMAIN log |-> log[k].ok], c.ok)
<1>1. PICK n, s, t : /\ n = Len(log) /\ s = [k \in DOMAIN log |-> log[k].ok]
                     /\ t = [k \in DOMAIN log' |-> log'[k].ok]
  OBVIOUS
<1>2. /\ n \in Nat /\ DOMAIN log = 1 .. n /\ DOMAIN log' = 1 .. n + 1
      /\ \A k \in 1 .. n : log'[k] = log[k]
      /\ log'[n + 1].ok = c.ok
  <2>1. /\ n \in Nat /\ DOMAIN log = 1 .. n /\ DOMAIN log' = 1 .. n + 1
        /\ \A k \in 1 .. n : log'[k] = log[k]
    BY <1>1, OldNewEntry
  <2>2. log'[Len(log) + 1] =
          [op |-> c.op, asked |-> c.asked, sink |-> c.sink, ok |-> c.ok,
           fault |-> c.fault, bytes |-> out.bytes]
    BY OldNewEntry
  <2> QED BY <1>1, <2>1, <2>2
<1>3. ASSUME NEW k \in 1 .. n PROVE log[k].ok \in BOOLEAN
  <2>1. log \in Seq(OldAnswer)
    BY DEF OInv, OldLocals
  <2>2. log[k] \in OldAnswer
    BY <1>1, <2>1, ElementOfSeq
  <2> QED BY <2>2 DEF OldAnswer
<1>4. c.ok \in BOOLEAN
  BY DEF OldCall
<1>5. s \in [1 .. n -> BOOLEAN] /\ t \in [1 .. n + 1 -> BOOLEAN]
  <2>1. s \in [1 .. n -> BOOLEAN]
    BY <1>1, <1>2, <1>3
  <2>2. ASSUME NEW k \in 1 .. n + 1 PROVE log'[k].ok \in BOOLEAN
    <3>1. k \in 1 .. n \/ k = n + 1
      BY <1>2
    <3> QED BY <1>2, <1>3, <1>4, <3>1
  <2> QED BY <1>1, <1>2, <2>1, <2>2
<1>6. s \in Seq(BOOLEAN) /\ t \in Seq(BOOLEAN)
  BY <1>2, <1>5, SeqDef
<1>7. Len(s) = n /\ Len(t) = n + 1
  BY <1>2, <1>5, <1>6, LenProperties
<1>8. PICK u : u = Append(s, c.ok)
  OBVIOUS
<1>9. /\ u \in Seq(BOOLEAN) /\ Len(u) = n + 1 /\ u[n + 1] = c.ok
      /\ \A k \in 1 .. n : u[k] = s[k]
  BY <1>4, <1>6, <1>7, <1>8, AppendProperties
<1>10. ASSUME NEW k \in 1 .. n + 1 PROVE t[k] = u[k]
  <2>1. t[k] = log'[k].ok
    BY <1>1, <1>2
  <2>2. CASE k = n + 1
    BY <1>2, <1>9, <2>1, <2>2
  <2>3. CASE k # n + 1
    <3>1. k \in 1 .. n
      BY <1>2, <2>3
    <3>2. s[k] = log[k].ok
      BY <1>1, <1>2, <3>1
    <3> QED BY <1>2, <1>9, <2>1, <3>1, <3>2
  <2> QED BY <2>2, <2>3
<1>11. t = u
  BY <1>6, <1>7, <1>9, <1>10, SeqEqual
<1> QED BY <1>1, <1>8, <1>11

LEMMA OldAnswerKeepsPromise ==
  ASSUME YInv, [OldNext]_oldVars, NEW c \in OldCall, Answer(c), OldAnswerIs(c)
  PROVE  \E ok \in BOOLEAN : OldPromise!Answer(ok)
<1>1. OInv /\ UNCHANGED cab /\ call \in OldCall
  BY OldCab, OldTypes DEF YInv
<1>2. c.asked = call.asked /\ c.sink = call.sink /\ (c.ok <=> call.ok)
  BY <1>1 DEF OldAnswerIs, OldCall
<1>3. pc # "idle" /\ (pc = "exit" \/ ~call.ok)
  BY DEF OldAnswerIs, LookupFail, VetFail, ReaderFails, Exit, ExternalFails, NoMemoryForReader,
     YInv, NotOkYet
<1>4. c.ok => OldPromise!Acceptable
  BY <1>2, <1>3 DEF YInv, OldAccepted
<1>5. pc' = "idle" /\ call' = c /\ UNCHANGED out
  BY DEF Answer
<1>6. OldRequest' = OldRequest
  BY <1>1, <1>2, <1>5, SameOldRequest
<1>7. [k \in DOMAIN log' |-> log'[k].ok] = Append([k \in DOMAIN log |-> log[k].ok], c.ok)
  BY <1>1, OldAnswersAppended
<1>8. c.ok \in BOOLEAN
  BY DEF OldCall
<1> QED BY <1>3, <1>4, <1>5, <1>6, <1>7, <1>8 DEF OldPromise!Answer

LEMMA OldWriteKeepsPromise ==
  ASSUME YInv, [OldNext]_oldVars, WriteOld \/ WriteOldFails
  PROVE  OldPromise!Write
<1>1. OInv /\ UNCHANGED cab /\ out.bytes \in Seq(Byte)
  BY OldCab, OldTypes DEF YInv
<1>2. /\ pc \in {"part", "data"} /\ pc' \in {"part", "loop", "exit"}
      /\ ~out.exists => out'.bytes = out.bytes
      /\ out.exists => \E s \in Seq(Byte) : out'.bytes = out.bytes \o s
  BY <1>1, WritesOld
<1>3. UNCHANGED log
  BY DEF WriteOld, WriteOldFails, ToExit
<1>4. OldRequest' = OldRequest
  <2>1. ~AskOld
    BY <1>2 DEF AskOld, BeginOld, Begin
  <2> QED BY <1>1, <2>1, OldArguments, SameOldRequest
<1>5. OldPromise!Grows(out.bytes, out'.bytes)
  <2>1. CASE ~out.exists
    <3>1. Len(out.bytes) \in Nat /\ Agree(out.bytes, out.bytes)
      BY <1>1, LenProperties DEF Agree
    <3> QED BY <1>1, <1>2, <2>1, <3>1, OldGrowsIf
  <2>2. CASE out.exists
    <3>1. PICK s \in Seq(Byte) : out'.bytes = out.bytes \o s
      BY <1>2, <2>2
    <3>2. PICK d, b : d = out.bytes /\ b = d \o s
      OBVIOUS
    <3>3. d \in Seq(Byte) /\ Len(d) \in Nat /\ Len(s) \in Nat
      BY <1>1, <3>2, LenProperties
    <3>4. b \in Seq(Byte) /\ Len(b) = Len(d) + Len(s) /\ \A j \in 1 .. Len(d) : b[j] = d[j]
      BY <3>2, <3>3, ConcatAt
    <3>5. Len(d) <= Len(b) /\ Agree(d, b)
      BY <3>3, <3>4 DEF Agree
    <3>6. OldPromise!Grows(d, b)
      BY <3>3, <3>4, <3>5, OldGrowsIf
    <3> QED BY <3>1, <3>2, <3>6
  <2> QED BY <2>1, <2>2
<1>6. (pc # "idle") /\ (pc' # "idle")
  BY <1>2
<1> QED BY <1>3, <1>4, <1>5, <1>6 DEF OldPromise!Write

(* A call begins and ends where it is asked and answered only.             *)
LEMMA OldStaysBusy ==
  ASSUME OInv, [OldNext]_oldVars, ~AskOld, UNCHANGED log
  PROVE  (pc' # "idle") = (pc # "idle")
<1>1. CASE UNCHANGED oldVars
  BY <1>1 DEF oldVars, allVars, locals
<1>2. ASSUME NEW c \in OldCall, Answer(c) PROVE FALSE
  <2>1. Len(log') = Len(log) + 1 /\ Len(log) \in Nat
    BY <1>2, OldNewEntry
  <2> QED BY <2>1
<1>3. ~LookupFail /\ ~VetFail /\ ~ReaderFails /\ ~Exit /\ ~NoMemoryForReader /\ ~ExternalFails
  <2>1. call \in OldCall /\ [call EXCEPT !.fault = TRUE] \in OldCall
    BY OldTypes DEF OldCall
  <2> QED BY <1>2, <2>1 DEF LookupFail, VetFail, ReaderFails, Exit, GiveUp, NoMemoryForReader,
         ExternalFails
<1>4. CASE Shared
  <2>1. io.status = "reading" => pc \in {"part", "data"}
    BY DEF OInv, OldLocals, OldControl, OldStatus
  <2>2. pc # "idle" /\ pc' # "idle"
    BY <1>3, <1>4, <2>1 DEF Shared, Lookup, FollowLink, StartReader, OpenReader, ContinueRead,
       ReadFails, ReadAcross, ReadFail, At, ToExit
  <2> QED BY <2>2
<1>5. CASE OldWork /\ ~Shared
  <2>1. io.status = "reading" => pc \in {"part", "data"}
    BY DEF OInv, OldLocals, OldControl, OldStatus
  <2>2. WriteOld \/ WriteOldFails => pc # "idle" /\ pc' # "idle"
    BY WritesOld
  <2>3. pc # "idle" /\ pc' # "idle"
    BY <1>3, <1>5, <2>1, <2>2 DEF OldWork, TryExternal, OpenExternal, OpenOldOutput,
       OldOutputFails, OutputDue, OpenNextVolume, AskPart, AskCopied, HasVolume, FinishOldRead,
       FinishRead, ReadDone, PartDone, ChunkEndLost, Stray, DecompressionFails, HasChunk, InPart,
       VerifyOld, ExitOld, At, ToExit, locals
  <2> QED BY <2>3
<1> QED BY <1>1, <1>4, <1>5 DEF OldNext

LEMMA NextKeepsOldPromise ==
  ASSUME YInv, (OldRequest \in OldPromise!Requests)', [OldNext]_oldVars
  PROVE  [OldPromise!Next]_(OldPromise!vars)
<1>1. OInv /\ UNCHANGED cab
  BY OldCab DEF YInv
<1>2. CASE AskOld
  <2>1. /\ pc = "idle" /\ pc' = "lookup" /\ out'.bytes = <<>> /\ UNCHANGED log
    BY <1>2 DEF AskOld, BeginOld, Begin, NoFile
  <2>2. OldPromise!Ask
    BY <2>1 DEF OldPromise!Ask
  <2> QED BY <2>2 DEF OldPromise!Next
<1>3. CASE WriteOld \/ WriteOldFails
  BY <1>3, OldWriteKeepsPromise DEF OldPromise!Next
<1>4. CASE ~UNCHANGED log
  <2>1. PICK c \in OldCall : OldAnswerIs(c) /\ Answer(c)
    BY <1>1, <1>4, OldAnswers
  <2>2. \E ok \in BOOLEAN : OldPromise!Answer(ok)
    BY <2>1, OldAnswerKeepsPromise
  <2> QED BY <2>2 DEF OldPromise!Next
<1>5. CASE UNCHANGED log /\ ~AskOld /\ ~WriteOld /\ ~WriteOldFails
  <2>1. OldRequest' = OldRequest
    BY <1>1, <1>5, OldArguments, SameOldRequest
  <2>2. out'.bytes = out.bytes
    <3>1. OpenOldOutput => out.bytes = <<>>
      BY DEF OpenOldOutput, OutputDue, YInv, NothingOut, NoFile
    <3> QED BY <1>1, <1>5, <3>1, OldOutputChanges
  <2>3. (pc' # "idle") = (pc # "idle")
    BY <1>1, <1>5, OldStaysBusy
  <2>4. [k \in DOMAIN log' |-> log'[k].ok] = [k \in DOMAIN log |-> log[k].ok]
    BY <1>5
  <2> QED BY <2>1, <2>2, <2>3, <2>4 DEF OldPromise!vars
<1> QED BY <1>2, <1>3, <1>4, <1>5

LEMMA InitKeepsOldPromise ==
  ASSUME OldInit PROVE OldPromise!Init
<1>1. pc = "idle" /\ out = NoFile /\ log = <<>> /\ YInv
  BY InitYInv DEF OldInit, SaveInit
<1>2. OldRequest \in OldPromise!Requests
  BY <1>1, OldRequestType
<1>3. [k \in DOMAIN log |-> log[k].ok] = <<>>
  <2>1. PICK s : s = [k \in DOMAIN log |-> log[k].ok]
    OBVIOUS
  <2>2. DOMAIN log = 1 .. 0
    BY <1>1
  <2>3. s \in [1 .. 0 -> BOOLEAN]
    BY <2>1, <2>2
  <2>4. s \in Seq(BOOLEAN) /\ Len(s) = 0
    BY <2>3, SeqDef, LenProperties
  <2> QED BY <2>1, <2>4, EmptySeq
<1> QED BY <1>1, <1>2, <1>3 DEF OldPromise!Init, NoFile

(* unshield_file_save_old keeps the promise of Extraction: its output file *)
(* only grows, each call is answered at most once, and with success only   *)
(* when the output has the size that the file table announces and, for a   *)
(* file that was stored as old archives are, exactly its content.          *)
THEOREM OldExtractionImplemented == OldSpec => KeepsOldPromise
<1>1. YInv => OldRequest \in OldPromise!Requests
  BY OldRequestType
<1>2. OldInit => YInv /\ OldPromise!Init
  BY InitYInv, InitKeepsOldPromise
<1>3. YInv /\ [OldNext]_oldVars => YInv'
  BY NextYInv
<1>4. YInv /\ (OldRequest \in OldPromise!Requests)' /\ [OldNext]_oldVars
        => [OldPromise!Next]_(OldPromise!vars)
  BY NextKeepsOldPromise
<1> QED BY <1>1, <1>2, <1>3, <1>4, PTL DEF OldSpec, KeepsOldPromise, OldPromise!Spec
=============================================================================
