------------------------------ MODULE FileSave ------------------------------
(***************************************************************************)
(* unshield_file_save and unshield_file_save_raw (lib/file.c): extraction  *)
(* of a file through an UnshieldReader, one call after the other on the    *)
(* same Unshield handle.  A step of a call that uses the reader is the     *)
(* reader's own action, so a call is interleaved with nothing but keeps    *)
(* every intermediate state of its volumes and counters.                   *)
(*                                                                         *)
(* Besides what VolumeReader says of them, archives have                   *)
(*   content   the expanded bytes of each file,                            *)
(*   chunks    for a compressed file the deflated chunks it is made of,    *)
(*   starts    and where each of them begins, and the last one ends, in    *)
(*             the stored bytes (.stored) and in the content (.content).   *)
(***************************************************************************)
EXTENDS VolumeReader

CONSTANTS Inflate(_),   \* zlib on one chunk: the inflated bytes, or anything
                        \* else than bytes when zlib refuses the chunk
          MaxCalls      \* bound: number of calls made on the handle

ASSUME MaxCallsAssumption == MaxCalls \in Nat

BUFFER_SIZE == U16          \* 64*1024

(* The reader is modelled for the reads that the calls make of it.         *)
ASSUME BufferAssumption == 1 .. BUFFER_SIZE \subseteq ReadSizes

Op == {"save", "raw"}
Sink == {"file", "null"}    \* null: "just throw away the result"

VARIABLES pc,       \* where the call is
          call,     \* its arguments and local variables
          out,      \* the output file
          log       \* what the calls answered
locals == <<pc, call, out, log>>
allVars == <<vars, locals>>

NoFile == [exists |-> FALSE, bytes |-> <<>>]

(* index is the argument of the innermost recursive call; fault is TRUE    *)
(* when the output could not be opened or written, or memory was short.    *)
NewCall(op, i, sink) ==
  [op |-> op, asked |-> i, index |-> i, sink |-> sink, left |-> 0, total |-> 0,
   digest |-> <<>>, ok |-> FALSE, fault |-> FALSE]

SaveInit ==
  /\ Init
  /\ pc = "idle"
  /\ call = NewCall("save", 0, "null")
  /\ out = NoFile
  /\ log = <<>>

Begin(op, i, sink) ==
  /\ pc = "idle"
  /\ Len(log) < MaxCalls
  /\ pc' = "lookup"
  /\ call' = NewCall(op, i, sink)
  /\ out' = NoFile
  /\ UNCHANGED <<vars, log>>

(* The answer of a call that ends with the call record c.                  *)
Answer(c) ==
  /\ pc' = "idle"
  /\ call' = c
  /\ log' = Append(log, [op |-> c.op, asked |-> c.asked, sink |-> c.sink, ok |-> c.ok,
                         fault |-> c.fault, bytes |-> out.bytes])
  /\ UNCHANGED out

GiveUp == Answer(call)
At(label, next) == pc = label /\ pc' = next

(* An index from outside 0 .. file_count - 1, of the caller or of a link.  *)
LookupFail ==
  /\ pc = "lookup" /\ call.index \notin Files
  /\ GiveUp
  /\ UNCHANGED vars

Lookup ==
  /\ At("lookup", "vet") /\ call.index \in Files
  /\ GetFileDescriptor(call.index)
  /\ UNCHANGED <<call, out, log>>

fd == fds[call.index]
Compressed == "compressed" \in fd.flags
IsInvalid(d) == "invalid" \in d.flags \/ d.offset = 0

VetFail ==
  /\ pc = "vet" /\ IsInvalid(fd)
  /\ GiveUp
  /\ UNCHANGED vars

(* LINK_PREV: the call is made again for link_previous.                    *)
LinkPreviousSelf == call.index   \* mutant
LinkPrevious == fd.prev
FollowLink ==
  /\ At("vet", "lookup") /\ ~IsInvalid(fd) /\ fd.linked
  /\ call' = [call EXCEPT !.index = LinkPrevious]
  /\ UNCHANGED <<vars, out, log>>

StartReader ==
  /\ At("vet", "create") /\ ~IsInvalid(fd) /\ ~fd.linked
  /\ CreateBegin(call.index)
  /\ UNCHANGED <<call, out, log>>

NoMemoryForReader ==
  /\ pc = "vet" /\ ~IsInvalid(fd) /\ ~fd.linked
  /\ Answer([call EXCEPT !.fault = TRUE])
  /\ UNCHANGED vars

OpenReader ==
  /\ pc = "create" /\ CreateOpen
  /\ pc' = IF io'.status = "idle" THEN "check" ELSE "create"
  /\ UNCHANGED <<call, out, log>>

ReaderFails == pc = "create" /\ CreateFail /\ GiveUp

(* "File %i is not inside the cabinet."                                    *)
OutsideSwapped == Len(Vols[rd.src].bytes) >= fd.offset   \* mutant
Outside == Len(Vols[rd.src].bytes) = fd.offset
ToExit(c) == pc' = "exit" /\ call' = c

CheckFail ==
  /\ pc = "check" /\ Outside
  /\ ToExit(call)
  /\ UNCHANGED <<vars, out, log>>

(* fopen "wb", unless there is no file name.                               *)
OpenOutput ==
  /\ At("check", "loop") /\ ~Outside
  /\ out' = [NoFile EXCEPT !.exists = (call.sink = "file")]
  /\ call' = [call EXCEPT !.left = StoredSize(fd.flags, fd) % U32]
  /\ UNCHANGED <<vars, log>>

OutputFails ==
  /\ pc = "check" /\ ~Outside
  /\ call.sink = "file"
  /\ ToExit([call EXCEPT !.fault = TRUE])
  /\ UNCHANGED <<vars, out, log>>

(* while (bytes_left > 0): the length of a chunk, or the next BUFFER_SIZE  *)
(* bytes of a file that is copied as it is.                                *)
InChunks == Compressed /\ call.op = "save"

AskLength ==
  /\ At("loop", "length") /\ call.left > 0 /\ InChunks
  /\ ReadBegin(2)
  /\ UNCHANGED <<call, out, log>>

NextSizeUnbounded == call.left   \* mutant
NextSize == IF call.left < BUFFER_SIZE THEN call.left ELSE BUFFER_SIZE

AskData ==
  /\ At("loop", "data") /\ call.left > 0 /\ ~InChunks
  /\ ReadBegin(NextSize)
  /\ UNCHANGED <<call, out, log>>

(* The steps of a read that has begun.                                     *)
ContinueRead ==
  /\ ReadAcross
  /\ pc' = IF io'.status = "failed" THEN "exit" ELSE pc
  /\ UNCHANGED <<call, out, log>>
ReadFails == ReadFail /\ ToExit(call) /\ UNCHANGED <<out, log>>
FinishRead == ReadDone /\ UNCHANGED locals

(* READ_UINT16 of the two bytes.                                           *)
ChunkLength == (io.buf[1] + 256 * io.buf[2]) % U16

AskChunk ==
  /\ At("length", "chunk") /\ io.status = "idle" /\ ChunkLength # 0
  /\ ReadBegin(ChunkLength)
  /\ UNCHANGED <<call, out, log>>

EmptyChunk ==
  /\ pc = "length" /\ io.status = "idle" /\ ChunkLength = 0
  /\ ToExit(call)
  /\ UNCHANGED <<vars, out, log>>

(* Inflation fails also when the result has no room in the output buffer.  *)
Inflated == Inflate(io.buf)
Inflates == Inflated \in Seq(Byte) /\ Len(Inflated) <= BUFFER_SIZE

InflateFails ==
  /\ pc = "chunk" /\ io.status = "idle" /\ ~Inflates
  /\ ToExit(call)
  /\ UNCHANGED <<vars, out, log>>

(* The bytes for the output, and bytes_left, an unsigned, after them.      *)
HasOutput == io.status = "idle" /\ (pc = "data" \/ (pc = "chunk" /\ Inflates))
Output == IF pc = "chunk" THEN Inflated ELSE io.buf
ChunkHeader == IF pc = "chunk" THEN 2 ELSE 0
LeftAfterSigned == call.left - io.size - ChunkHeader   \* mutant
LeftAfterPayload == (call.left - io.size) % U32   \* mutant
LeftAfter == (call.left - io.size - ChunkHeader) % U32

Digested == [call EXCEPT !.left = LeftAfter, !.digest = @ \o Output]

WriteOutput ==
  /\ HasOutput
  /\ pc' = "loop"
  /\ call' = [Digested EXCEPT !.total = @ + Len(Output)]
  /\ out' = IF out.exists THEN [out EXCEPT !.bytes = @ \o Output] ELSE out
  /\ UNCHANGED <<vars, log>>

WriteFails ==
  /\ HasOutput /\ out.exists
  /\ \E k \in 0 .. Len(Output) - 1 :
       out' = [out EXCEPT !.bytes = @ \o SubSeq(Output, 1, k)]
  /\ ToExit([Digested EXCEPT !.fault = TRUE])
  /\ UNCHANGED <<vars, log>>

(* After the loop; raw data are not verified, and before version 6 there   *)
(* is no checksum to verify.                                               *)
VerifiedLength == call.op = "raw" \/ fd.expanded = call.total   \* mutant
Verified ==
  \/ call.op = "raw"
  \/ /\ fd.expanded = call.total
     /\ Archive.version >= 6 => call.digest = fd.md5

Verify ==
  /\ pc = "loop" /\ call.left = 0
  /\ ToExit([call EXCEPT !.ok = Verified])
  /\ UNCHANGED <<vars, out, log>>

Exit == pc = "exit" /\ Destroy /\ GiveUp
-----------------------------------------------------------------------------
Work ==
  \/ LookupFail \/ Lookup \/ VetFail \/ FollowLink \/ StartReader \/ NoMemoryForReader
  \/ OpenReader \/ ReaderFails \/ CheckFail \/ OpenOutput \/ OutputFails
  \/ AskLength \/ AskData \/ ContinueRead \/ ReadFails \/ FinishRead
  \/ AskChunk \/ EmptyChunk \/ InflateFails \/ WriteOutput \/ WriteFails
  \/ Verify \/ Exit

(* The caller's index is any int: -1 and file_count stand for the others.  *)
Ask == \E op \in Op, i \in Files \cup {-1, Archive.count}, sink \in Sink : Begin(op, i, sink)

SaveNext == Ask \/ Work

SaveSpec == SaveInit /\ [][SaveNext]_allVars /\ WF_allVars(Work)
-----------------------------------------------------------------------------
(* What a call is about, from the archive alone.                           *)

(* The files that the links lead to from file i of archive a, i included:  *)
(* those in every set of files that has i and, with a file, the one that   *)
(* it links to.  The data of a request for i are those of the file at the  *)
(* end of this chain.                                                      *)
HasLink(a, i) ==
  /\ a.version \notin {0, 5}
  /\ ~IsInvalid(a.files[i]) /\ a.files[i].linked
LinksToFile(a, i) == HasLink(a, i) /\ a.files[i].prev \in DOMAIN a.files
IsClosed(a, files) == \A j \in files : LinksToFile(a, j) => a.files[j].prev \in files
Chain(a, i) ==
  {j \in DOMAIN a.files :
     i \in DOMAIN a.files
       /\ \A files \in SUBSET DOMAIN a.files : i \in files /\ IsClosed(a, files) => j \in files}
Chains ==
  [c \in DOMAIN Archives |->
     LET a == Archives[c] IN [i \in -1 .. a.count |-> Chain(a, i)]]

Ends(i) == {j \in Chains[cab][i] : ~HasLink(Archive, j)}
Target(i) == CHOOSE j \in Ends(i) : TRUE
IsLegal(i) == \E j \in Ends(i) : ~IsInvalid(Archive.files[j])
EndsInCycle(i) == Chains[cab][i] # {} /\ \A j \in Chains[cab][i] : LinksToFile(Archive, j)

(* bytes are the pieces one after the other, each from where it starts.    *)
Concatenates(bytes, pieces, starts) ==
  LET n == Len(pieces)
  IN  /\ starts \in [1 .. n + 1 -> Nat]
      /\ starts[1] = 0 /\ starts[n + 1] = Len(bytes)
      /\ \A k \in 1 .. n :
           /\ starts[k + 1] = starts[k] + Len(pieces[k])
           /\ \A j \in 1 .. Len(pieces[k]) : bytes[starts[k] + j] = pieces[k][j]

(* The stored bytes are what the compressor makes of the content.          *)
PackedChunk(chunk) == <<Len(chunk) % 256, Len(chunk) \div 256>> \o chunk
IsDeflated(chunk) ==
  /\ Len(chunk) \in 1 .. U16 - 1
  /\ Inflate(chunk) \in Seq(Byte) /\ Len(Inflate(chunk)) <= BUFFER_SIZE
Encodes(c, i) ==
  LET a == Archives[c]
      e == a.files[i]
      chunks == a.chunks[i]
  IN  /\ e.expanded = Len(a.content[i])
      /\ a.content[i] \in Seq(Byte)
      /\ a.version >= 6 => e.md5 = a.content[i]
      /\ IF "compressed" \in e.flags
         THEN /\ chunks \in Seq(Seq(Byte))
              /\ \A k \in 1 .. Len(chunks) : IsDeflated(chunks[k])
              /\ Concatenates(PlainBytes[c][i], [k \in 1 .. Len(chunks) |-> PackedChunk(chunks[k])],
                              a.starts[i].stored)
              /\ Concatenates(a.content[i], [k \in 1 .. Len(chunks) |-> Inflate(chunks[k])],
                              a.starts[i].content)
         ELSE PlainBytes[c][i] = a.content[i]
SoundFiles ==
  [c \in DOMAIN Archives |-> {i \in LaidFiles[c] : Encodes(c, i)}]
Sound(i) == i \in SoundFiles[cab]

(* The bytes a request for the data of file i should produce.              *)
Wanted(op, i) == IF op = "raw" THEN Plain(i) ELSE Archive.content[i]

(* Where the reads of an extraction begin within the stored bytes.         *)
ReadStarts(op, i) ==
  IF op = "save" /\ "compressed" \in Archive.files[i].flags
  THEN UNION {{Archive.starts[i].stored[k], Archive.starts[i].stored[k] + 2} :
                k \in DOMAIN Archive.chunks[i]}
  ELSE {n * BUFFER_SIZE : n \in 0 .. Len(Plain(i)) \div BUFFER_SIZE}

(* Some part of the file ends where a read begins, or the file is empty    *)
(* and lies at the very end of its volume.                                 *)
CutBetweenReads(op, i) ==
  LET L == Archive.layout[i]
  IN  \E v \in L.lo + 1 .. L.hi : L.start[v] \in ReadStarts(op, i)
AtEndOfVolume(i) == Archive.files[i].offset = Len(Vols[Archive.layout[i].lo].bytes)

Request ==
  LET t == Target(call.asked)
      e == Archive.files[t]
      legal == IsLegal(call.asked)
      size == IF call.op = "raw" THEN StoredSize(e.flags, e) % U32 ELSE e.expanded
  IN  [legal |-> legal,
       kept |-> call.sink = "file",
       size |-> IF legal THEN size ELSE 0,
       exact |-> (IF legal /\ Sound(t) THEN {Wanted(call.op, t)} ELSE {})
                 \cup (IF legal /\ call.op = "save" /\ Archive.version >= 6
                       THEN {e.md5} ELSE {})]

Promise ==
  INSTANCE Extraction WITH request <- Request, busy <- (pc # "idle"), output <- out.bytes,
                           answers <- [k \in DOMAIN log |-> log[k].ok]
-----------------------------------------------------------------------------
(* Every variable has the type of the C object it stands for; a reader is  *)
(* in use exactly between its creation and the exit of the call.           *)
SaveTypeOK ==
  /\ pc \in {"idle", "lookup", "vet", "create", "check", "loop", "length", "chunk",
             "data", "exit"}
  /\ call \in [op : Op, asked : Int, index : Int, sink : Sink, left : 0 .. U32 - 1,
               total : Nat, digest : Seq(Byte), ok : BOOLEAN, fault : BOOLEAN]
  /\ out \in [exists : BOOLEAN, bytes : Seq(Byte)]
  /\ pc \notin {"idle", "lookup"} => call.index \in Files /\ fd \in FileDescriptor
  /\ pc \in {"idle", "lookup", "vet"} <=> io.status = "none"
  /\ \A k \in DOMAIN log : log[k].ok \in BOOLEAN /\ log[k].bytes \in Seq(Byte)

(* bytes_left, kept by the callers of the reader, and the position of the  *)
(* reader in its stream move together whatever the archive says: at the    *)
(* head of the loop they add up to the size in the descriptor, and what    *)
(* was hashed, counted and written is the same bytes.                      *)
CountersAgree ==
  pc = "loop" =>
    /\ (call.left + Len(got)) % U32 = StoredSize(fd.flags, fd) % U32
    /\ call.total = Len(call.digest)
    /\ out.exists => out.bytes = call.digest
    /\ ~InChunks => call.digest = got

(* Nothing but the beginning of the file is ever in the output, also when  *)
(* the call fails half way: a full disk, and volumes that are missing, cut *)
(* short or without their headers, leave no foreign bytes behind.          *)
OutputIsPrefix ==
  IsLegal(call.asked) /\ Sound(Target(call.asked)) =>
    Promise!Grows(out.bytes, Wanted(call.op, Target(call.asked)))

(* Extraction of an intact file succeeds unless one of the known reasons   *)
(* applies: unshield_file_save and unshield_file_save_raw fail for no      *)
(* other, wherever the file was cut and whatever was extracted before.     *)
FailureExplained ==
  \A k \in DOMAIN log :
    LET t == Target(log[k].asked)
    IN  /\ IsLegal(log[k].asked) /\ Sound(t) /\ Intact(t) /\ ~log[k].fault
        /\ ~AtEndOfVolume(t) /\ ~CutBetweenReads(log[k].op, t)
        => log[k].ok

(* What the documentation says of split files, without the first of those  *)
(* reasons: a file that spans volumes is extracted wherever it was cut.    *)
SplitFilesExtract ==
  \A k \in DOMAIN log :
    LET t == Target(log[k].asked)
    IN  /\ IsLegal(log[k].asked) /\ Sound(t) /\ Intact(t)
        /\ ~log[k].fault /\ ~AtEndOfVolume(t)
        => log[k].ok

(* "enable support for split archives for IS5": a split file of an IS5     *)
(* archive is read when its volumes are there and announce its parts, the  *)
(* last file of the archive too.                                           *)
IS5SplitFilesExtract ==
  \A k \in DOMAIN log :
    LET t == Target(log[k].asked)
    IN  /\ Archive.version = 5 /\ IsLegal(log[k].asked) /\ ~log[k].fault
        /\ LayoutOK(Archive, t) /\ HeadersOK(Archive, t) /\ IsComplete(Archive, t)
        /\ IsSplit(Archive, t)
        /\ log[k].op = "raw" /\ ~CutBetweenReads("raw", t)
        => log[k].ok

(* "Save raw data (do not decompress)": when unshield_file_save_raw says   *)
(* that it saved a file, all of the stored bytes are in the output.        *)
RawDataIsWhole ==
  \A k \in DOMAIN log :
    LET e == Archive.files[Target(log[k].asked)]
    IN  log[k].op = "raw" /\ log[k].sink = "file" /\ log[k].ok =>
          Len(log[k].bytes) = StoredSize(e.flags, e)

(* What the first extraction learned about a file (IS5 volume and split    *)
(* flag, kept in the cached descriptor) does not change the second one.    *)
(* It has no premise on the archive, and is no theorem: in an IS5 archive  *)
(* damaged so that a file seems split only behind the volume where it was  *)
(* first looked for, a second extraction begins elsewhere than the first.  *)
RepeatGivesSame ==
  \A j, k \in DOMAIN log :
    /\ log[j].asked = log[k].asked /\ log[j].op = log[k].op
    /\ ~log[j].fault /\ ~log[k].fault
    => /\ log[j].ok = log[k].ok
       /\ log[j].sink = log[k].sink => log[j].bytes = log[k].bytes

(* The calls use the reader as its clients may: one reader at a time, no   *)
(* read after a failed one, no read larger than the 64 KiB buffers, and    *)
(* nothing about the archive or the cache changed behind its back.         *)
ReaderProtocol == Init /\ [][Next]_vars

(* The two calls keep the promise of Extraction.                           *)
KeepsPromise == Promise!Spec

(* Every call returns, unless the links of the file table form a cycle.    *)
CallsReturn ==
  (pc # "idle" /\ ~EndsInCycle(call.asked)) ~> pc = "idle"
=============================================================================
