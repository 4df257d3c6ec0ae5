------------------------------ MODULE SaveOld ------------------------------
(***************************************************************************)
(* unshield_file_save_old (lib/file.c): extraction of files whose chunks   *)
(* end with a marker instead of beginning with their length.  A part of a  *)
(* compressed file is read as a whole and then taken apart; a file that is *)
(* not in the cabinets is looked for beside them.  The steps that it       *)
(* shares with unshield_file_save are the actions of FileSave.             *)
(*                                                                         *)
(* pc has five labels more: external and open (a file beside the cabinets  *)
(* is to be opened, is open), fill (a volume with the next part is open),  *)
(* part (the input buffer is read or taken apart) and undefined (the       *)
(* search for a marker went on behind the buffer; anything may happen).    *)
(***************************************************************************)
EXTENDS FileSave, ByteSearch, FiniteSetsExt

VARIABLE input      \* chunk_buffer: the input_size bytes not yet taken
oldVars == <<allVars, input>>

OldInit == SaveInit /\ input = <<>>
BeginOld(i, sink) == Begin("old", i, sink) /\ UNCHANGED input

(* "Trying external file!"                                                 *)
TryExternal ==
  /\ At("check", "external") /\ Outside
  /\ Destroy
  /\ UNCHANGED <<call, out, log, input>>

ExternalFails ==
  /\ pc = "external"
  /\ \/ call.index \notin DOMAIN Archive.external /\ GiveUp
     \/ Answer([call EXCEPT !.fault = TRUE])
  /\ UNCHANGED <<vars, input>>

OpenExternal ==
  /\ At("external", "open")
  /\ CreateExternal(call.index)
  /\ UNCHANGED <<call, out, log, input>>

OutputDue == pc = "open" \/ (pc = "check" /\ ~Outside)

OpenOldOutput ==
  /\ OutputDue
  /\ pc' = "loop"
  /\ out' = [NoFile EXCEPT !.exists = (call.sink = "file")]
  /\ call' = [call EXCEPT !.left = fd.expanded % U32]
  /\ UNCHANGED <<vars, log, input>>

OldOutputFails ==
  /\ OutputDue
  /\ call.sink = "file"
  /\ ToExit([call EXCEPT !.fault = TRUE])
  /\ UNCHANGED <<vars, out, log, input>>

(* while (bytes_left > 0): the next volume when this one has been read ... *)
OpenNextVolume ==
  /\ pc = "loop" /\ call.left > 0
  /\ OpenNext
  /\ pc' = IF io'.status = "failed" THEN "exit" ELSE "fill"
  /\ UNCHANGED <<call, out, log, input>>

HasVolumeUnasked == pc = "loop" /\ call.left > 0   \* mutant
HasVolume == pc = "fill" \/ (pc = "loop" /\ call.left > 0 /\ rd.left # 0)

(* ... then all of its part, or the next bytes of a copied file.           *)
PartBytesAndMarker == rd.left + Len(END_OF_CHUNK)   \* mutant
PartBytes == rd.left

AskPart ==
  /\ HasVolume /\ Compressed
  /\ pc' = "part"
  /\ ReadBegin(PartBytes)
  /\ UNCHANGED <<call, out, log, input>>

AskCopied ==
  /\ HasVolume /\ ~Compressed
  /\ pc' = "data"
  /\ ReadBegin(NextSize)
  /\ UNCHANGED <<call, out, log, input>>

FinishOldRead ==
  /\ FinishRead
  /\ input' = IF pc = "part" THEN io'.buf ELSE <<>>

(* The chunks of a part: for (; input_size && bytes_left; ).               *)
InPart == pc = "part" /\ io.status = "idle"
HasChunk == InPart /\ input # <<>> /\ call.left > 0

PartDone ==
  /\ InPart /\ ~HasChunk
  /\ pc' = "loop"
  /\ UNCHANGED <<vars, call, out, log, input>>

(* Markers are searched one after the other: one before an odd byte is     *)
(* inside of a chunk.  Without any other, the search was the last one,     *)
(* behind the last marker.                                                 *)
Markers == Matches(END_OF_CHUNK, input)
BeforeOdd(q) == q + 4 <= Len(input) /\ input[q + 4] % 2 = 1
AllChunkEnds == Markers   \* mutant
ChunkEnds == {q \in Markers : ~BeforeOdd(q)}
LastSearched ==
  IF Markers = {} THEN input ELSE SubSeq(input, Max(Markers) + 4, Len(input))

(* "Could not find end of chunk", if no marker was found behind the buffer *)
(* either.                                                                 *)
ChunkEndLost ==
  /\ HasChunk /\ ChunkEnds = {}
  /\ ToExit(call)
  /\ UNCHANGED <<vars, out, log, input>>

Stray ==
  /\ HasChunk /\ ChunkEnds = {}
  /\ LooksBeyond(END_OF_CHUNK, LastSearched)
  /\ pc' = "undefined"
  /\ UNCHANGED <<vars, call, out, log, input>>

Chunk == SubSeq(input, 1, Min(ChunkEnds) - 1)
AfterChunk == SubSeq(input, Min(ChunkEnds) + 4, Len(input))

(* unshield_uncompress_old does nothing with less than two bytes.          *)
InflateOld(c) == IF Len(c) <= 1 THEN <<>> ELSE Inflate(c)
InflatesOld(c) == InflateOld(c) \in Seq(Byte) /\ Len(InflateOld(c)) <= BUFFER_SIZE

DecompressionFails ==
  /\ HasChunk /\ ChunkEnds # {} /\ ~InflatesOld(Chunk)
  /\ ToExit(call)
  /\ UNCHANGED <<vars, out, log, input>>

WriteChunk == HasChunk /\ ChunkEnds # {} /\ InflatesOld(Chunk)
WriteCopied == pc = "data" /\ io.status = "idle"

OldOutput == IF pc = "part" THEN InflateOld(Chunk) ELSE io.buf
LeftAfterOld == (call.left - Len(OldOutput)) % U32
InputAfter == IF pc = "part" THEN AfterChunk ELSE input

WriteOld ==
  /\ WriteChunk \/ WriteCopied
  /\ pc' = IF pc = "part" THEN "part" ELSE "loop"
  /\ call' = [call EXCEPT !.left = LeftAfterOld, !.total = @ + Len(OldOutput)]
  /\ out' = IF out.exists THEN [out EXCEPT !.bytes = @ \o OldOutput] ELSE out
  /\ input' = InputAfter
  /\ UNCHANGED <<vars, log>>

WriteOldFails ==
  /\ (WriteChunk \/ WriteCopied) /\ out.exists
  /\ \E k \in 0 .. Len(OldOutput) - 1 :
       out' = [out EXCEPT !.bytes = @ \o SubSeq(OldOutput, 1, k)]
  /\ ToExit([call EXCEPT !.left = LeftAfterOld, !.fault = TRUE])
  /\ input' = InputAfter
  /\ UNCHANGED <<vars, log>>

(* Only the size is verified.                                              *)
RightSizeAssumed == TRUE   \* mutant
RightSize == fd.expanded = call.total

VerifyOld ==
  /\ pc = "loop" /\ call.left = 0
  /\ ToExit([call EXCEPT !.ok = RightSize])
  /\ UNCHANGED <<vars, out, log, input>>

ExitOld == Exit /\ input' = <<>>
-----------------------------------------------------------------------------
Shared ==
  /\ \/ LookupFail \/ Lookup \/ VetFail \/ FollowLink \/ StartReader \/ NoMemoryForReader
     \/ OpenReader \/ ReaderFails \/ ContinueRead \/ ReadFails
  /\ UNCHANGED input

OldWork ==
  \/ Shared
  \/ TryExternal \/ ExternalFails \/ OpenExternal \/ OpenOldOutput \/ OldOutputFails
  \/ OpenNextVolume \/ AskPart \/ AskCopied \/ FinishOldRead
  \/ PartDone \/ ChunkEndLost \/ Stray \/ DecompressionFails \/ WriteOld \/ WriteOldFails
  \/ VerifyOld \/ ExitOld

AskOld == \E i \in Files \cup {-1, Archive.count}, sink \in Sink : BeginOld(i, sink)

OldNext == AskOld \/ OldWork
OldSpec == OldInit /\ [][OldNext]_oldVars /\ WF_oldVars(OldWork)
-----------------------------------------------------------------------------
(* What a call is about, from the archive alone.                           *)

(* Chunks that the search can tell apart: "The first bit of a compressed   *)
(* block is always zero", and the byte after a marker inside of a chunk    *)
(* is odd.                                                                 *)
Recognisable(c) ==
  /\ Len(c) > 1 /\ c[1] % 2 = 0
  /\ Inflate(c) \in Seq(Byte) /\ Len(Inflate(c)) \in 1 .. BUFFER_SIZE
  /\ \A q \in Matches(END_OF_CHUNK, c) : q + 4 <= Len(c) /\ c[q + 4] % 2 = 1
Marked(c) == c \o END_OF_CHUNK

(* bytes are what the compressor of old archives makes of the content.     *)
EncodesOld(a, i, bytes) ==
  LET chunks == a.chunks[i]
  IN  /\ a.files[i].expanded = Len(a.content[i]) /\ Len(a.content[i]) < U32
      /\ a.content[i] \in Seq(Byte)
      /\ IF "compressed" \in a.files[i].flags
         THEN /\ chunks \in Seq(Seq(Byte))
              /\ \A k \in 1 .. Len(chunks) : Recognisable(chunks[k])
              /\ Concatenates(bytes, [k \in 1 .. Len(chunks) |-> Marked(chunks[k])],
                              a.starts[i].stored)
              /\ Concatenates(a.content[i], [k \in 1 .. Len(chunks) |-> Inflate(chunks[k])],
                              a.starts[i].content)
         ELSE bytes = a.content[i]

(* Every volume but the last ends where a chunk does.                      *)
ChunkBounds(a, i) == {a.starts[i].stored[k] : k \in DOMAIN a.starts[i].stored}
WholeChunks(a, i) ==
  "compressed" \in a.files[i].flags =>
    \A v \in a.layout[i].lo + 1 .. a.layout[i].hi :
      a.layout[i].start[v] \in ChunkBounds(a, i)

(* A volume ends right behind a marker inside of a chunk: the search finds *)
(* nothing odd behind it, and half of the chunk is inflated.               *)
CutBehindMarker(a, i) ==
  LET L == a.layout[i]
      chunks == a.chunks[i]
  IN  /\ "compressed" \in a.files[i].flags
      /\ \E v \in L.lo + 1 .. L.hi, k \in 1 .. Len(chunks) :
           \E q \in Matches(END_OF_CHUNK, chunks[k]) :
             L.start[v] = a.starts[i].stored[k] + (q + 3)

(* A file beside the cabinets, all of it but for as much of the end of the *)
(* last marker as may be missing.  The marker that the reader supplies is  *)
(* right for a file that is not obfuscated.                                *)
IsBeside(a, i) ==
  LET L == a.layout[i]
  IN  /\ i \in DOMAIN a.external
      /\ L.lo \in Nat /\ SearchedFrom(a, i) <= L.lo
      /\ \A v \in SearchedFrom(a, i) .. L.lo : IsWhole(a, v)
      /\ \A v \in SearchedFrom(a, i) .. L.lo - 1 :
           a.version <= 5 /\ AsInt(a.vols[v].last.index) < i
      /\ i <= AsInt(a.vols[L.lo].last.index)
      /\ a.files[i].offset = Len(a.vols[L.lo].bytes)
AllBeside(a, i) ==
  /\ IsBeside(a, i)
  /\ "obfuscated" \notin a.files[i].flags
  /\ StoredSize(a.files[i].flags, a.files[i]) = Len(a.stored[i]) /\ Len(a.stored[i]) < U32
  /\ \E k \in 0 .. (IF "compressed" \in a.files[i].flags THEN 4 ELSE 0) :
       a.external[i] = SubSeq(a.stored[i], 1, Len(a.stored[i]) - k)

(* For each archive: the files that unshield_file_save_old can extract,    *)
(* those whose chunks would do but lie across volumes included ...         *)
OldSoundFiles ==
  [c \in DOMAIN Archives |->
     {i \in IntactFiles[c] : EncodesOld(Archives[c], i, PlainBytes[c][i])
                               /\ ~CutBehindMarker(Archives[c], i)}]
(* ... the ones of them without such a chunk, and the files beside it.     *)
InWholeChunks ==
  [c \in DOMAIN Archives |-> {i \in OldSoundFiles[c] : WholeChunks(Archives[c], i)}]
BesideFiles ==
  [c \in DOMAIN Archives |->
     {i \in DOMAIN Archives[c].files :
        AllBeside(Archives[c], i) /\ EncodesOld(Archives[c], i, Archives[c].stored[i])}]

OldSound(i) == i \in OldSoundFiles[cab] \cup BesideFiles[cab]

OldRequest ==
  LET t == Target(call.asked)
      legal == IsLegal(call.asked)
  IN  [legal |-> legal,
       kept |-> call.sink = "file",
       size |-> IF legal THEN Archive.files[t].expanded ELSE 0,
       exact |-> IF legal /\ OldSound(t) THEN {Archive.content[t]} ELSE {}]

OldPromise ==
  INSTANCE Extraction WITH request <- OldRequest, busy <- (pc # "idle"),
                           output <- out.bytes,
                           answers <- [k \in DOMAIN log |-> log[k].ok]
-----------------------------------------------------------------------------
(* The chunks of a part that the search cuts out are the chunks it was     *)
(* stored as: nothing but the beginning of the file is in the output, when *)
(* markers lie inside of chunks, and when a call fails half way, too.      *)
OldOutputIsPrefix ==
  IsLegal(call.asked) /\ OldSound(Target(call.asked)) =>
    OldPromise!Grows(out.bytes, Archive.content[Target(call.asked)])

(* A file whose volumes end with its chunks is extracted wherever it was   *)
(* cut, also when a read begins where a part ends: the volume is opened    *)
(* before the read, as unshield_file_save does not.  The search for        *)
(* markers never leaves the buffer then.                                   *)
WholeChunksExtract ==
  /\ \A k \in DOMAIN log :
       LET t == Target(log[k].asked)
       IN  /\ IsLegal(log[k].asked) /\ t \in InWholeChunks[cab]
           /\ ~log[k].fault /\ ~AtEndOfVolume(t)
           => log[k].ok
  /\ pc = "undefined" => call.index \notin InWholeChunks[cab] \cup BesideFiles[cab]

(* A file that lies beside the cabinets is extracted from there, when the  *)
(* end of its last marker is missing, too ("Workaround: Create a temporary *)
(* file with the correct end of chunk").                                   *)
BesideExtracts ==
  \A k \in DOMAIN log :
    LET t == Target(log[k].asked)
    IN  IsLegal(log[k].asked) /\ t \in BesideFiles[cab] /\ ~log[k].fault => log[k].ok

(* unshield_file_save_old keeps the promise of Extraction.                 *)
KeepsOldPromise == OldPromise!Spec

(* Every call returns, unless the links form a cycle, or its outcome is    *)
(* not defined.                                                            *)
OldCallsReturn ==
  (pc # "idle" /\ ~EndsInCycle(call.asked)) ~> pc \in {"idle", "undefined"}
=============================================================================
