---------------------------- MODULE VolumeReader ----------------------------
(***************************************************************************)
(* UnshieldReader (lib/file.c): one file of a cabinet set read as a stream *)
(* of bytes, whatever volumes (data1.cab, data2.cab, ...) its parts lie    *)
(* in, together with the file descriptors that libunshield caches and that *)
(* the reader itself modifies: IS5 cabinets say neither in which volume a  *)
(* file starts nor that it is split, so the reader finds out and writes    *)
(* what it found into the cached descriptor.                               *)
(*                                                                         *)
(* An archive of the constant Archives is what lies on the disk:           *)
(*   version  header_list->major_version                                   *)
(*   count    cab.file_count                                               *)
(*   files    the file table: 0 .. count-1 -> Entry                        *)
(*   vols     the volumes that can be opened; .whole says that both of its *)
(*            headers can be read, .first and .last are the VolumeHeader,  *)
(*            .bytes is the whole content of the file                      *)
(*   external the files that lie beside the cabinets instead of in them    *)
(*   stored, layout                                                        *)
(*            not read by the program: the bytes of each file as they were *)
(*            stored and where each part of them was put.                  *)
(* A FILE* read by the reader is the volume it was opened on, or           *)
(* ExternalSource; 0 is NULL.                                              *)
(***************************************************************************)
EXTENDS Deobfuscation

CONSTANTS Archives,     \* function from archive names to archives
          ReadSizes,    \* the sizes a client asks unshield_reader_read for
          U16,          \* number of values of a uint16_t
          NotRead       \* an empty slot of header->file_descriptors

ASSUME U16Assumption == U16 \in Nat \ {0, 1}
ASSUME ReadSizesAssumption == ReadSizes \subseteq Nat

INT32_MAX == 2147483647
CommonHeaderSize == 20
VolumeHeaderSize(version) == IF version \in {0, 5} THEN 40 ELSE 64
HeaderSize(version) == CommonHeaderSize + VolumeHeaderSize(version)

Flag == {"split", "obfuscated", "compressed", "invalid"}

(* FileDescriptor; md5 is the content it is the checksum of.               *)
FileDescriptor ==
  [flags : SUBSET Flag, volume : 0 .. U16 - 1, offset : Nat,
   expanded : Nat, compressed : Nat, linked : BOOLEAN, prev : Nat,
   md5 : Seq(Byte)]

(* first_file_* and last_file_* of a VolumeHeader.                         *)
Edge == [index : 0 .. U32 - 1, offset : Nat, expanded : Nat, compressed : Nat]
Volume == [whole : BOOLEAN, first : Edge, last : Edge, bytes : Seq(Byte)]

IsArchive(a) ==
  /\ a.version \in Nat
  /\ a.count \in Nat /\ a.count < U32 \div 2
  /\ a.files \in [0 .. a.count - 1 -> FileDescriptor]
  /\ DOMAIN a.vols \subseteq 1 .. U16 - 2
  /\ \A v \in DOMAIN a.vols : a.vols[v] \in Volume
  /\ DOMAIN a.external \subseteq 0 .. a.count - 1
  /\ \A i \in DOMAIN a.external : a.external[i] \in Seq(Byte)
  /\ a.stored \in [0 .. a.count - 1 -> Seq(Byte)]

ASSUME ArchivesAssumption == \A a \in DOMAIN Archives : IsArchive(Archives[a])
ASSUME NotReadAssumption == NotRead \notin FileDescriptor

VARIABLES cab,      \* which archive is open; never changes
          fds,      \* header->file_descriptors
          rd,       \* the UnshieldReader
          io,       \* the call of the reader in progress
          got,      \* the bytes this reader delivered, in order
          handles   \* number of volume files open in the process
vars == <<cab, fds, rd, io, got, handles>>

Archive == Archives[cab]
Files == 0 .. Archive.count - 1

NoReader == [index |-> 0, volume |-> 0, src |-> 0, pos |-> 0, left |-> 0, obf |-> 0]
NoCall(status) == [status |-> status, size |-> 0, left |-> 0, buf |-> <<>>]

Init ==
  /\ cab \in DOMAIN Archives
  /\ fds = [i \in Files |-> NotRead]
  /\ rd = NoReader
  /\ io = NoCall("none")
  /\ got = <<>>
  /\ handles = 0
-----------------------------------------------------------------------------
(* The file descriptors.                                                   *)

(* Tables of versions 0 and 5 have neither a volume nor links: the volume  *)
(* is the index of the header, which is the first of the list.             *)
ReadFileDescriptor(i) ==
  IF Archive.version \in {0, 5}
  THEN [Archive.files[i] EXCEPT !.volume = 1, !.linked = FALSE, !.prev = 0]
  ELSE Archive.files[i]

(* The descriptor unshield_get_file_descriptor answers for a legal index.  *)
Descriptor(i) == IF fds[i] = NotRead THEN ReadFileDescriptor(i) ELSE fds[i]

(* unshield_get_file_descriptor fills the slot the first time.             *)
GetFileDescriptor(i) ==
  /\ fds' = [fds EXCEPT ![i] = Descriptor(i)]
  /\ UNCHANGED <<cab, rd, io, got, handles>>

(* The number of bytes of a file in the cabinets, or of a part of it.      *)
StoredSize(flags, x) == IF "compressed" \in flags THEN x.compressed ELSE x.expanded
-----------------------------------------------------------------------------
(* unshield_reader_open_volume.                                            *)

Vols == Archive.vols
Openable(v) == v \in DOMAIN Vols
Readable(v) == Openable(v) /\ Vols[v].whole

FoundSplitOnlyFirst(i, d, v) ==   \* mutant
  /\ Archive.version = 5
  /\ i > 0
  /\ i = Vols[v].first.index
  /\ Vols[v].first.compressed # d.compressed

(* "enable support for split archives for IS5"                             *)
FoundSplit(i, d, v) ==
  /\ Archive.version = 5
  /\ \/ /\ i < Archive.count - 1
        /\ i = Vols[v].last.index
        /\ Vols[v].last.compressed # d.compressed
     \/ /\ i > 0
        /\ i = Vols[v].first.index
        /\ Vols[v].first.compressed # d.compressed

OpenedDescriptorAssigned(i, d, v) ==   \* mutant
  IF FoundSplit(i, d, v) THEN [d EXCEPT !.flags = {"split"}] ELSE d
OpenedDescriptorMoved(i, d, v) ==   \* mutant
  IF FoundSplit(i, d, v) THEN [d EXCEPT !.flags = @ \cup {"split"}]
  ELSE [d EXCEPT !.volume = v]

OpenedDescriptor(i, d, v) ==
  IF FoundSplit(i, d, v) THEN [d EXCEPT !.flags = @ \cup {"split"}] ELSE d

HasLastOffset(a, v) ==
  /\ a.vols[v].last.offset # INT32_MAX
  /\ a.version \in {0, 5} => a.vols[v].last.offset # 0

(* Where the part of file i in volume v is said to be; no place at all for *)
(* a split file that is neither the last nor the first of the volume.      *)
Places(i, d, v) ==
  IF "split" \notin d.flags THEN {d}
  ELSE IF i = Vols[v].last.index /\ HasLastOffset(Archive, v) THEN {Vols[v].last}
  ELSE IF i = Vols[v].first.index THEN {Vols[v].first}
  ELSE {}

(* volume_bytes_left is an unsigned, the sizes may have 64 bits.           *)
BytesOfPartWide(d, place) == StoredSize(d.flags, place)   \* mutant
BytesOfPart(d, place) == StoredSize(d.flags, place) % U32

(* The reader after a successful open: positioned at its part, or, without *)
(* one, after the headers of v with the counters it had.                   *)
Opened(r, d, v) ==
  IF Places(r.index, d, v) = {}
  THEN [r EXCEPT !.src = v, !.pos = HeaderSize(Archive.version)]
  ELSE LET place == CHOOSE p \in Places(r.index, d, v) : TRUE
       IN  [r EXCEPT !.src = v, !.volume = v, !.pos = place.offset,
                     !.left = BytesOfPart(d, place)]

(* The old volume is closed before the new one is opened; a volume whose   *)
(* headers cannot be read stays open.                                      *)
HandlesAfterNoClose(v) == handles + (IF Openable(v) THEN 1 ELSE 0)   \* mutant
HandlesAfter(v) ==
  handles - (IF rd.src # 0 THEN 1 ELSE 0) + (IF Openable(v) THEN 1 ELSE 0)
SourceAfter(v) == IF Openable(v) THEN v ELSE 0
-----------------------------------------------------------------------------
(* unshield_reader_create, one volume opened by each step.                 *)

CreateBegin(i) ==
  /\ io.status = "none"
  /\ fds[i] # NotRead
  /\ rd' = [NoReader EXCEPT !.index = i]
  /\ io' = NoCall("opening")
  /\ got' = <<>>
  /\ UNCHANGED <<cab, fds, handles>>

(* The cast to int of a uint32_t.                                          *)
AsInt(n) == IF n < U32 \div 2 THEN n ELSE n - U32

(* The files of volume v all come before file i ("Start with the correct   *)
(* volume for IS5 cabinets").                                              *)
StartsLater(i, v) == Archive.version <= 5 /\ i > AsInt(Vols[v].last.index)

NextVolumeSame(v) == v   \* mutant
NextVolume(v) == (v + 1) % U16

CreateOpen ==
  LET i == rd.index
      v == fds[i].volume
      d == OpenedDescriptor(i, fds[i], v)
  IN  /\ io.status = "opening"
      /\ Readable(v)
      /\ rd' = Opened(rd, d, v)
      /\ handles' = HandlesAfter(v)
      /\ IF StartsLater(i, v)
         THEN /\ fds' = [fds EXCEPT ![i] = [d EXCEPT !.volume = NextVolume(v)]]
              /\ UNCHANGED io
         ELSE /\ fds' = [fds EXCEPT ![i] = d]
              /\ io' = NoCall("idle")
      /\ UNCHANGED <<cab, got>>

(* The reader is freed, and with it the only reference to the volume it    *)
(* may have open.                                                          *)
CreateFail ==
  LET v == fds[rd.index].volume
  IN  /\ io.status = "opening"
      /\ ~Readable(v)
      /\ handles' = HandlesAfter(v)
      /\ rd' = NoReader
      /\ io' = NoCall("none")
      /\ UNCHANGED <<cab, fds, got>>
-----------------------------------------------------------------------------
(* unshield_reader_create_external: the file is not in the cabinets but    *)
(* beside them.  Compressed bytes that are too few get the end of a chunk  *)
(* marker, as much of it as is missing.                                    *)
END_OF_CHUNK == <<0, 0, 255, 255>>
ExternalSource == U16 - 1       \* no volume has this number

Missing(i) ==
  IF "compressed" \in fds[i].flags THEN fds[i].compressed - Len(Archive.external[i]) ELSE 0
Supplement(i) ==
  IF Missing(i) > 4 THEN 4 ELSE IF Missing(i) > 0 THEN Missing(i) ELSE 0
ExternalBytesFromStart(i) ==   \* mutant
  Archive.external[i] \o SubSeq(END_OF_CHUNK, 1, Supplement(i))
ExternalBytes(i) ==
  Archive.external[i] \o SubSeq(END_OF_CHUNK, 5 - Supplement(i), 4)
ExternalLeft(i) ==
  (IF Supplement(i) > 0 THEN Len(ExternalBytes(i)) ELSE StoredSize(fds[i].flags, fds[i])) % U32

CreateExternal(i) ==
  /\ io.status = "none"
  /\ fds[i] # NotRead
  /\ i \in DOMAIN Archive.external
  /\ rd' = [NoReader EXCEPT !.index = i, !.src = ExternalSource, !.left = ExternalLeft(i)]
  /\ io' = NoCall("idle")
  /\ got' = <<>>
  /\ handles' = handles + 1
  /\ UNCHANGED <<cab, fds>>
-----------------------------------------------------------------------------
(* unshield_reader_read, one fread by each step.                           *)

ReadBegin(n) ==
  /\ io.status = "idle"
  /\ io' = [status |-> "reading", size |-> n, left |-> n, buf |-> <<>>]
  /\ UNCHANGED <<cab, fds, rd, got, handles>>

(* bytes_to_read, and what is left in the file for fread.                  *)
BytesToRead == IF io.left < rd.left THEN io.left ELSE rd.left
SourceBytes ==
  IF rd.src = ExternalSource THEN ExternalBytes(rd.index) ELSE Vols[rd.src].bytes
Enough == rd.src # 0 /\ rd.pos + BytesToRead <= Len(SourceBytes)
Fread == SubSeq(SourceBytes, rd.pos + 1, rd.pos + BytesToRead)

(* "bytes_to_read can't be zero", or fread came short.                     *)
ReadFail ==
  /\ io.status = "reading"
  /\ BytesToRead = 0 \/ ~Enough
  /\ io' = [io EXCEPT !.status = "failed"]
  /\ UNCHANGED <<cab, fds, rd, got, handles>>

(* The buffer is complete: it is deobfuscated as a whole, with the seed    *)
(* that earlier reads of the file left.                                    *)
IsObfuscated == "obfuscated" \in fds[rd.index].flags
ClearRestarted(buffer) ==   \* mutant
  IF IsObfuscated THEN Deobfuscate(buffer, 0) ELSE buffer
Clear(buffer) == IF IsObfuscated THEN Deobfuscate(buffer, rd.obf) ELSE buffer
SeedAfterPart == IF IsObfuscated THEN NextSeed(io.left, rd.obf) ELSE rd.obf   \* mutant
SeedAfter == IF IsObfuscated THEN NextSeed(io.size, rd.obf) ELSE rd.obf

ReadDone ==
  /\ io.status = "reading"
  /\ BytesToRead # 0 /\ Enough
  /\ BytesToRead = io.left
  /\ rd' = [rd EXCEPT !.pos = @ + BytesToRead, !.left = @ - BytesToRead, !.obf = SeedAfter]
  /\ io' = [status |-> "idle", size |-> io.size, left |-> 0, buf |-> Clear(io.buf \o Fread)]
  /\ got' = got \o io'.buf
  /\ UNCHANGED <<cab, fds, handles>>

(* "Open next volume": what the call in progress is after a success and    *)
(* after a failure.                                                        *)
NextThere == IF Readable(rd.volume + 1) THEN rd.volume + 1 ELSE rd.volume + 2   \* mutant
NextToOpen == rd.volume + 1
OpensNext(opened, failed) ==
  LET i == rd.index
      v == NextToOpen
      d == OpenedDescriptor(i, fds[i], v)
  IN  /\ handles' = HandlesAfter(v)
      /\ IF Readable(v)
         THEN /\ rd' = Opened([rd EXCEPT !.left = 0], d, v)
              /\ fds' = [fds EXCEPT ![i] = d]
              /\ io' = opened
         ELSE /\ rd' = [rd EXCEPT !.left = 0, !.src = SourceAfter(v)]
              /\ io' = failed
              /\ UNCHANGED fds
      /\ UNCHANGED <<cab, got>>

(* The volume ran out first.                                               *)
ReadAcross ==
  /\ io.status = "reading"
  /\ BytesToRead # 0 /\ Enough
  /\ BytesToRead < io.left
  /\ OpensNext([io EXCEPT !.left = @ - BytesToRead, !.buf = @ \o Fread],
               [io EXCEPT !.status = "failed"])

(* Nothing is left of this volume and the caller opens the next one before *)
(* it reads, as only unshield_file_save_old does.                          *)
OpenNext ==
  /\ io.status = "idle"
  /\ rd.left = 0
  /\ OpensNext(NoCall("idle"), NoCall("failed"))

(* unshield_reader_destroy: every caller of the reader does it, and does   *)
(* nothing else after a failed read.                                       *)
Destroy ==
  /\ io.status \in {"idle", "failed"}
  /\ handles' = handles - (IF rd.src # 0 THEN 1 ELSE 0)
  /\ rd' = NoReader
  /\ io' = NoCall("none")
  /\ UNCHANGED <<cab, fds, got>>
-----------------------------------------------------------------------------
Step == CreateOpen \/ CreateFail \/ ReadFail \/ ReadDone \/ ReadAcross

(* A client: readers one after the other, and reads of any size in each.   *)
Open ==
  /\ io.status = "none"
  /\ \E i \in Files : GetFileDescriptor(i) \/ CreateBegin(i) \/ CreateExternal(i)
Read == \E n \in ReadSizes : ReadBegin(n)
Next == Step \/ Open \/ Read \/ OpenNext \/ Destroy

Spec == Init /\ [][Next]_vars /\ WF_vars(Step)
-----------------------------------------------------------------------------
(* What the reader is for, said from the layout of an archive a and        *)
(* without the operators above: file i was put into volumes lo .. hi, and  *)
(* the bytes start[v] + 1 .. start[v+1] of it into volume v, at offset[v]. *)
(* Of a volume that is missing, cut short or without its headers only what *)
(* is left can be right.                                                   *)

PartSize(a, i, v) == a.layout[i].start[v + 1] - a.layout[i].start[v]
IsSplit(a, i) == a.layout[i].lo < a.layout[i].hi
IsWhole(a, v) == v \in DOMAIN a.vols /\ a.vols[v].whole
SearchedFrom(a, i) == IF a.version \in {0, 5} THEN 1 ELSE a.files[i].volume

LayoutOK(a, i) ==
  LET L == a.layout[i]
  IN  /\ L.lo \in 1 .. U16 - 2 /\ L.hi \in 1 .. U16 - 2 /\ L.lo <= L.hi
      /\ L.start \in [L.lo .. L.hi + 1 -> Nat]
      /\ L.offset \in [L.lo .. L.hi -> Nat]
      /\ L.start[L.lo] = 0 /\ L.start[L.hi + 1] = Len(a.stored[i])
      /\ \A v \in L.lo .. L.hi :
           /\ \A w \in v + 1 .. L.hi + 1 : L.start[v] <= L.start[w]
           /\ IsSplit(a, i) => L.start[v] < L.start[v + 1]
           /\ v \in DOMAIN a.vols =>
                \A k \in 1 .. PartSize(a, i, v) :
                  L.offset[v] + k <= Len(a.vols[v].bytes) =>
                    a.vols[v].bytes[L.offset[v] + k] = a.stored[i][L.start[v] + k]

(* The header of volume v announces the part of file i there, as the last  *)
(* or as the first file of the volume.                                     *)
Announces(a, i, v, edge) ==
  /\ edge.index = i
  /\ edge.offset = a.layout[i].offset[v]
  /\ edge.compressed = PartSize(a, i, v)
  /\ "compressed" \notin a.files[i].flags => edge.expanded = PartSize(a, i, v)

ClaimsLast(a, i, v) == a.vols[v].last.index = i /\ HasLastOffset(a, v)
AnnouncesPart(a, i, v) ==
  IF v < a.layout[i].hi \/ ClaimsLast(a, i, v)
  THEN ClaimsLast(a, i, v) /\ Announces(a, i, v, a.vols[v].last)
  ELSE Announces(a, i, v, a.vols[v].first)

HeadersOK(a, i) ==
  LET L == a.layout[i]
      e == a.files[i]
  IN  /\ SearchedFrom(a, i) <= L.lo
      /\ a.version > 5 => SearchedFrom(a, i) = L.lo
      /\ \A v \in SearchedFrom(a, i) .. L.lo - 1 :
           IsWhole(a, v) => AsInt(a.vols[v].last.index) < i /\ a.vols[v].first.index # i
      /\ IsWhole(a, L.lo) => i <= AsInt(a.vols[L.lo].last.index)
      /\ \A v \in DOMAIN a.vols :
           v > L.hi => i \notin {a.vols[v].first.index, a.vols[v].last.index}
      /\ StoredSize(e.flags, e) = Len(a.stored[i]) /\ Len(a.stored[i]) < U32
      /\ IF IsSplit(a, i)
         THEN /\ \A v \in L.lo .. L.hi : IsWhole(a, v) => AnnouncesPart(a, i, v)
              /\ e.compressed = Len(a.stored[i])
              /\ a.version # 5 => "split" \in e.flags
         ELSE /\ "split" \notin e.flags
              /\ e.offset = L.offset[L.lo]
              /\ IsWhole(a, L.lo) =>
                   \A edge \in {a.vols[L.lo].first, a.vols[L.lo].last} :
                     edge.index = i => edge.compressed = e.compressed

(* The IS5 file table does not say "split", and the reader never looks for *)
(* it in the last file of the set unless another rule finds it.            *)
Undetected(a, i) == a.version = 5 /\ IsSplit(a, i) /\ i = a.count - 1

(* The files of each archive that were stored in the cabinets as           *)
(* InstallShield stores them, whatever became of the volumes since ...     *)
LaidFiles ==
  [c \in DOMAIN Archives |->
     LET a == Archives[c]
     IN  {i \in DOMAIN a.files \ DOMAIN a.external :
            LayoutOK(a, i) /\ HeadersOK(a, i) /\ ~Undetected(a, i)}]

(* ... those of them whose volumes are all there, with all of their bytes, *)
IsComplete(a, i) ==
  LET L == a.layout[i]
  IN  /\ \A v \in SearchedFrom(a, i) .. L.hi : IsWhole(a, v)
      /\ \A v \in L.lo .. L.hi :
           L.offset[v] + PartSize(a, i, v) <= Len(a.vols[v].bytes)
IntactFiles ==
  [c \in DOMAIN Archives |-> {i \in LaidFiles[c] : IsComplete(Archives[c], i)}]

(* and what every file was before it was obfuscated.                   *)
PlainBytes ==
  [c \in DOMAIN Archives |->
     LET a == Archives[c]
     IN  [i \in DOMAIN a.files |->
            IF "obfuscated" \in a.files[i].flags THEN Deobfuscate(a.stored[i], 0)
            ELSE a.stored[i]]]

Laid(i) == i \in LaidFiles[cab]
Intact(i) == i \in IntactFiles[cab]
Plain(i) == PlainBytes[cab][i]

Asked == Len(got) + (IF io.status \in {"reading", "failed"} THEN io.size ELSE 0)

(* The reader works on a file that was stored as it should be, and was     *)
(* asked for no more than the file has.                                    *)
WithinFile ==
  /\ io.status \in {"idle", "reading", "failed"}
  /\ Laid(rd.index)
  /\ Asked <= Len(Plain(rd.index))
-----------------------------------------------------------------------------
(* Every variable has the type of the C object it stands for; in           *)
(* particular the counters of the reader never leave their unsigned range. *)
TypeOK ==
  /\ cab \in DOMAIN Archives
  /\ fds \in [Files -> FileDescriptor \cup {NotRead}]
  /\ rd \in [index : Nat, volume : Nat, src : Nat, pos : Nat,
             left : 0 .. U32 - 1, obf : 0 .. U32 - 1]
  /\ io \in [status : {"none", "opening", "idle", "reading", "failed"},
             size : Nat, left : Nat, buf : Seq(Byte)]
  /\ got \in Seq(Byte)
  /\ handles \in Nat
  /\ rd.src \in DOMAIN Vols \cup {0, ExternalSource}
  /\ io.status # "none" => rd.index \in Files /\ fds[rd.index] # NotRead

(* unshield_reader_read delivers the file: whatever sizes it is asked for  *)
(* and wherever the file was cut into volumes, what it delivered so far is *)
(* the beginning of the stored bytes, deobfuscated when they have to be,   *)
(* also when volumes of it are missing, cut short or without headers; and  *)
(* so for the supplemented bytes of a file beside the cabinets.            *)
StreamInOrder ==
  /\ WithinFile => got = SubSeq(Plain(rd.index), 1, Len(got))
  /\ rd.src = ExternalSource =>
       LET bytes == SubSeq(ExternalBytes(rd.index), 1, Len(got))
       IN  got = IF IsObfuscated THEN Deobfuscate(bytes, 0) ELSE bytes

(* The seed of unshield_reader_deobfuscate is the position in the stream:  *)
(* neither a change of volume nor a failed read moves one without the      *)
(* other, and files that are not obfuscated do not touch it.               *)
SeedFollowsStream ==
  io.status # "none" =>
    rd.obf = IF "obfuscated" \in fds[rd.index].flags THEN Len(got) % U32 ELSE 0

(* A read inside an intact file fails for one reason only: when it begins  *)
(* where a part of the file ends, unshield_reader_read finds nothing left  *)
(* in the volume and does not try the next one.                            *)
FailsOnlyBetweenParts ==
  WithinFile /\ Intact(rd.index) /\ io.status = "failed" /\ io.size > 0 =>
    /\ io.size = io.left
    /\ \E v \in DOMAIN Archive.layout[rd.index].offset :
         Len(got) = Archive.layout[rd.index].start[v + 1]

(* No volume file stays open when there is no reader, however the last     *)
(* reader ended, as long as every volume that is there has its headers.    *)
HandlesReturned ==
  /\ \A v \in DOMAIN Vols : Vols[v].whole
  /\ io.status = "none"
  => handles = 0

(* What the reader writes into a cached descriptor is only ever a volume   *)
(* further on (IS5) or the split flag: a descriptor once read keeps the    *)
(* place, the sizes and the checksum that the file table gave it.          *)
DescriptorsOnlyLearn ==
  [][\A i \in Files : fds[i] # NotRead =>
       /\ fds'[i] = [fds[i] EXCEPT !.flags = fds'[i].flags, !.volume = fds'[i].volume]
       /\ fds'[i].flags \in {fds[i].flags, fds[i].flags \cup {"split"}}
       /\ fds'[i].flags # fds[i].flags => Archive.version = 5
       /\ fds'[i].volume # fds[i].volume =>
            fds'[i].volume = fds[i].volume + 1 /\ Archive.version <= 5]_vars

(* A volume search or a read that has begun ends.                          *)
StepsEnd == io.status \in {"opening", "reading"} ~> io.status \notin {"opening", "reading"}
=============================================================================
