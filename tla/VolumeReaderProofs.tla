------------------------- MODULE VolumeReaderProofs -------------------------
(***************************************************************************)
(* What holds of the reader and of unshield_deobfuscate for all archives,  *)
(* read sizes, buffers and widths of the counters.                         *)
(***************************************************************************)
EXTENDS VolumeReader, SequenceTheorems, TLAPS

(* Division with remainder.                                                *)
LEMMA DivMod ==
  ASSUME NEW m \in Nat \ {0}, NEW x \in Int
  PROVE  /\ x % m \in 0 .. m - 1
         /\ x \div m \in Int
         /\ x = m * (x \div m) + (x % m)
  OBVIOUS

(* A number of the form m * k + r with 0 <= r < m has remainder r.         *)
LEMMA ModUnique ==
  ASSUME NEW m \in Nat \ {0}, NEW k \in Int, NEW r \in 0 .. m - 1
  PROVE  (m * k + r) % m = r
<1> DEFINE x == m * k + r
           q == x \div m
<1>1. x \in Int /\ q \in Int /\ x % m \in 0 .. m - 1 /\ x = m * q + (x % m)
  BY DivMod
<1>2. m * (k - q) = (x % m) - r
  BY <1>1
<1>3. k - q = 0
  <2>1. CASE k - q >= 1
    <3>1. m * (k - q) >= m
      BY <2>1, <1>1
    <3> QED BY <3>1, <1>1, <1>2
  <2>2. CASE k - q <= -1
    <3>1. m * (k - q) <= -m
      BY <2>2, <1>1
    <3> QED BY <3>1, <1>1, <1>2
  <2> QED BY <2>1, <2>2, <1>1
<1> QED BY <1>1, <1>2, <1>3

LEMMA Distributes ==
  ASSUME NEW m \in Int, NEW p \in Int, NEW q \in Int
  PROVE  m * (p + q) = m * p + m * q
  OBVIOUS

(* Unsigned addition may be reduced step by step.                          *)
LEMMA ModAdd ==
  ASSUME NEW m \in Nat \ {0}, NEW a \in Nat, NEW b \in Int
  PROVE  ((a % m) + b) % m = (a + b) % m
<1> DEFINE c == (a % m) + b
<1>1. a = m * (a \div m) + (a % m) /\ a % m \in Int /\ a \div m \in Int
  BY DivMod
<1>c. c \in Int
  BY <1>1
<1> HIDE DEF c
<1>2. c = m * (c \div m) + (c % m) /\ c % m \in 0 .. m - 1 /\ c \div m \in Int
  BY <1>c, DivMod
<1>3. a + b = m * ((a \div m) + (c \div m)) + (c % m)
  <2>1. a + b = m * (a \div m) + c
    BY <1>1 DEF c
  <2>2. m * ((a \div m) + (c \div m)) = m * (a \div m) + m * (c \div m)
    BY <1>1, <1>2, Distributes, m \in Int
  <2> QED BY <2>1, <2>2, <1>1, <1>2
<1>4. (m * ((a \div m) + (c \div m)) + (c % m)) % m = c % m
  <2> DEFINE k == (a \div m) + (c \div m)
  <2>1. k \in Int
    BY <1>1, <1>2
  <2> HIDE DEF k
  <2>2. (m * k + (c % m)) % m = c % m
    BY <2>1, <1>2, ModUnique
  <2> QED BY <2>2 DEF k
<1> QED BY <1>3, <1>4 DEF c

(* unshield_deobfuscate turns bytes into bytes, as many as it was given.   *)
LEMMA DeobfuscateByteType ==
  ASSUME NEW x \in Byte, NEW seed \in Nat
  PROVE  DeobfuscateByte(x, seed) \in Byte
<1>1. Xor8(x, 213) \in Int
  BY DEF Xor8, Byte
<1>2. Ror2(Xor8(x, 213)) \in Int
  BY <1>1 DEF Ror2
<1> QED BY <1>2 DEF DeobfuscateByte, Byte

LEMMA DeobfuscateType ==
  ASSUME NEW buffer \in Seq(Byte), NEW seed \in Nat
  PROVE  /\ Deobfuscate(buffer, seed) \in Seq(Byte)
         /\ Len(Deobfuscate(buffer, seed)) = Len(buffer)
         /\ \A k \in 1 .. Len(buffer) :
              Deobfuscate(buffer, seed)[k] =
                DeobfuscateByte(buffer[k], (seed + (k - 1)) % U32)
<1>1. ASSUME NEW k \in 1 .. Len(buffer)
      PROVE  DeobfuscateByte(buffer[k], (seed + (k - 1)) % U32) \in Byte
  <2>1. buffer[k] \in Byte
    BY ElementOfSeq
  <2>2. seed + (k - 1) \in Int
    OBVIOUS
  <2>3. (seed + (k - 1)) % U32 \in Nat
    BY <2>2, U32Assumption, DivMod
  <2> QED BY <2>1, <2>3, DeobfuscateByteType
<1>2. Len(buffer) \in Nat
  BY LenProperties
<1> QED BY <1>1, <1>2 DEF Deobfuscate

(* The seed left by one buffer is the seed the next one needs: cutting a   *)
(* stream into buffers in any way does not change what comes out of it.    *)
(* unshield_reader_deobfuscate relies on it for reads of all sizes.        *)
THEOREM DeobfuscateInPieces ==
  ASSUME NEW s \in Seq(Byte), NEW t \in Seq(Byte), NEW seed \in Nat
  PROVE  Deobfuscate(s \o t, seed) =
           Deobfuscate(s, seed) \o Deobfuscate(t, NextSeed(Len(s), seed))
<1> DEFINE next == NextSeed(Len(s), seed)
           whole == Deobfuscate(s \o t, seed)
           first == Deobfuscate(s, seed)
           second == Deobfuscate(t, next)
<1>1. next \in Nat /\ next = (seed + Len(s)) % U32
  <2>1. Len(s) \in Nat
    BY LenProperties
  <2>2. seed + Len(s) \in Int
    BY <2>1
  <2> QED BY <2>2, U32Assumption, DivMod DEF NextSeed
<1>2. /\ s \o t \in Seq(Byte)
      /\ Len(s \o t) = Len(s) + Len(t)
      /\ \A k \in 1 .. Len(s) + Len(t) :
           (s \o t)[k] = IF k <= Len(s) THEN s[k] ELSE t[k - Len(s)]
  BY ConcatProperties
<1> HIDE DEF next
<1>3. /\ whole \in Seq(Byte) /\ Len(whole) = Len(s) + Len(t)
      /\ \A k \in 1 .. Len(s) + Len(t) :
           whole[k] = DeobfuscateByte((s \o t)[k], (seed + (k - 1)) % U32)
  BY <1>2, DeobfuscateType
<1>4. /\ first \in Seq(Byte) /\ Len(first) = Len(s)
      /\ \A k \in 1 .. Len(s) :
           first[k] = DeobfuscateByte(s[k], (seed + (k - 1)) % U32)
  BY DeobfuscateType
<1>5. /\ second \in Seq(Byte) /\ Len(second) = Len(t)
      /\ \A k \in 1 .. Len(t) :
           second[k] = DeobfuscateByte(t[k], (next + (k - 1)) % U32)
  BY <1>1, DeobfuscateType
<1> HIDE DEF whole, first, second
<1>6. /\ first \o second \in Seq(Byte)
      /\ Len(first \o second) = Len(s) + Len(t)
      /\ \A k \in 1 .. Len(s) + Len(t) :
           (first \o second)[k] = IF k <= Len(s) THEN first[k] ELSE second[k - Len(s)]
  <2>a. first \in Seq(Byte) /\ second \in Seq(Byte)
    BY <1>4, <1>5
  <2>1. /\ first \o second \in Seq(Byte)
        /\ Len(first \o second) = Len(first) + Len(second)
        /\ \A k \in 1 .. Len(first) + Len(second) :
             (first \o second)[k] =
               IF k <= Len(first) THEN first[k] ELSE second[k - Len(first)]
    BY <2>a, ConcatProperties
  <2> QED BY <2>1, <1>4, <1>5
<1>7. Len(s) \in Nat /\ Len(t) \in Nat
  BY LenProperties
<1>8. ASSUME NEW k \in 1 .. Len(s) + Len(t)
      PROVE  whole[k] = (first \o second)[k]
  <2>1. CASE k <= Len(s)
    BY <2>1, <1>2, <1>3, <1>4, <1>6, <1>7
  <2>2. CASE k > Len(s)
    <3>1. k - Len(s) \in 1 .. Len(t) /\ ~(k <= Len(s))
      BY <2>2, <1>7
    <3>2. (next + (k - Len(s) - 1)) % U32 = (seed + (k - 1)) % U32
      <4> DEFINE a == seed + Len(s)
                 b == k - Len(s) - 1
      <4>1. a \in Nat /\ b \in Int /\ a + b = seed + (k - 1)
        BY <1>7
      <4> HIDE DEF a, b
      <4>2. ((a % U32) + b) % U32 = (a + b) % U32
        BY <4>1, U32Assumption, ModAdd
      <4>3. next = a % U32
        BY <1>1 DEF a
      <4>4. (next + b) % U32 = (seed + (k - 1)) % U32
        BY <4>1, <4>2, <4>3
      <4> QED BY <4>4 DEF b
    <3>3. whole[k] = DeobfuscateByte(t[k - Len(s)], (seed + (k - 1)) % U32)
      BY <3>1, <1>2, <1>3
    <3>4. second[k - Len(s)] =
            DeobfuscateByte(t[k - Len(s)], (next + (k - Len(s) - 1)) % U32)
      BY <3>1, <1>5
    <3> QED BY <3>1, <3>2, <3>3, <3>4, <1>6
  <2>3. k <= Len(s) \/ k > Len(s)
    BY <1>7
  <2> QED BY <2>1, <2>2, <2>3
<1>9. whole = first \o second
  <2>1. Len(whole) = Len(first \o second)
    BY <1>3, <1>6
  <2>2. \A k \in 1 .. Len(whole) : whole[k] = (first \o second)[k]
    BY <1>8, <1>3
  <2> QED BY <2>1, <2>2, <1>3, <1>6, SeqEqual
<1> QED BY <1>9 DEF whole, first, second, next
-----------------------------------------------------------------------------
(* TypeOK is not inductive alone: that handles stays a number needs the    *)
(* reader's own file to be counted in it, and that the buffer of a read in *)
(* progress and what is left of it add up to its size is what the seed     *)
(* depends on.  A reader of a file beside the cabinets reads a file that   *)
(* is there.                                                               *)
SourceCounted ==
  /\ rd.src # 0 => handles >= 1
  /\ io.status = "none" => rd.src = 0
BufferFills == io.status = "reading" => Len(io.buf) + io.left = io.size
ExternalThere == rd.src = ExternalSource => rd.index \in DOMAIN Archive.external
IInv == TypeOK /\ SourceCounted /\ BufferFills /\ ExternalThere

RdType ==
  [index : Nat, volume : Nat, src : Nat, pos : Nat, left : 0 .. U32 - 1, obf : 0 .. U32 - 1]
IoType ==
  [status : {"none", "opening", "idle", "reading", "failed"}, size : Nat, left : Nat,
   buf : Seq(Byte)]
-----------------------------------------------------------------------------
(* The archive in use.                                                     *)
LEMMA ArchiveType ==
  ASSUME cab \in DOMAIN Archives
  PROVE  /\ Archive.count \in Nat /\ Archive.version \in Nat
         /\ Archive.files \in [Files -> FileDescriptor]
         /\ DOMAIN Vols \subseteq 1 .. U16 - 2
         /\ \A v \in DOMAIN Vols : Vols[v] \in Volume
         /\ DOMAIN Archive.external \subseteq Files
         /\ \A i \in DOMAIN Archive.external : Archive.external[i] \in Seq(Byte)
  BY ArchivesAssumption DEF IsArchive, Archive, Files, Vols

LEMMA FilesAreNat == Files \subseteq Nat
  BY DEF Files

LEMMA VolumeFields ==
  ASSUME cab \in DOMAIN Archives, NEW v \in DOMAIN Vols
  PROVE  /\ Vols[v].first \in Edge /\ Vols[v].last \in Edge
         /\ Vols[v].bytes \in Seq(Byte) /\ Len(Vols[v].bytes) \in Nat
         /\ v \in Nat \ {0}
<1>1. Vols[v] \in Volume /\ v \in 1 .. U16 - 2
  BY ArchiveType
<1>2. v \in Nat \ {0}
  BY <1>1, U16Assumption
<1>3. Vols[v].bytes \in Seq(Byte)
  BY <1>1 DEF Volume
<1>4. Len(Vols[v].bytes) \in Nat
  BY <1>3, LenProperties
<1> QED BY <1>1, <1>2, <1>3, <1>4 DEF Volume

LEMMA ExternalIsNoVolume ==
  ASSUME cab \in DOMAIN Archives
  PROVE  /\ ExternalSource \in Nat \ {0}
         /\ ExternalSource \notin DOMAIN Vols
<1>1. DOMAIN Vols \subseteq 1 .. U16 - 2
  BY ArchiveType
<1> QED BY <1>1, U16Assumption DEF ExternalSource

(* The bytes of a file beside the cabinets with their supplement.          *)
LEMMA ExternalType ==
  ASSUME cab \in DOMAIN Archives, NEW i \in DOMAIN Archive.external,
         fds[i] \in FileDescriptor
  PROVE  /\ ExternalBytes(i) \in Seq(Byte) /\ Len(ExternalBytes(i)) \in Nat
         /\ ExternalLeft(i) \in 0 .. U32 - 1
<1> DEFINE raw == Archive.external[i]
           k == Supplement(i)
           tail == SubSeq(END_OF_CHUNK, 5 - k, 4)
<1>1. raw \in Seq(Byte) /\ Len(raw) \in Nat
  BY ArchiveType, LenProperties
<1>2. fds[i].compressed \in Nat /\ StoredSize(fds[i].flags, fds[i]) \in Nat
  BY DEF FileDescriptor, StoredSize
<1>3. Missing(i) \in Int
  <2>1. fds[i].compressed - Len(Archive.external[i]) \in Int
    BY <1>1, <1>2
  <2> QED BY <2>1 DEF Missing
<1>4. k \in 0 .. 4
  BY <1>3 DEF Supplement
<1>5. tail \in Seq(Byte)
  <2>1. END_OF_CHUNK \in Seq(Byte) /\ Len(END_OF_CHUNK) = 4
    BY DEF END_OF_CHUNK, Byte
  <2> DEFINE e == END_OF_CHUNK
             from == 5 - k
  <2>2. from \in 1 .. 5
    BY <1>4
  <2> HIDE DEF e, from
  <2>3. e \in Seq(Byte) /\ Len(e) = 4
    BY <2>1 DEF e
  <2>4. \A j \in from .. 4 : e[j] \in Byte
    <3> SUFFICES ASSUME NEW j \in from .. 4 PROVE e[j] \in Byte
      OBVIOUS
    <3>1. j \in 1 .. Len(e)
      BY <2>2, <2>3
    <3> QED BY <2>3, <3>1, ElementOfSeq
  <2>5. from \in Int /\ 4 \in Int
    BY <2>2
  <2>6. SubSeq(e, from, 4) \in Seq(Byte)
    BY <2>4, <2>5, SubSeqProperties
  <2> QED BY <2>6 DEF e, from
<1> HIDE DEF raw, tail
<1>6. raw \o tail \in Seq(Byte) /\ Len(raw \o tail) \in Nat
  BY <1>1, <1>5, ConcatProperties, LenProperties
<1>7. ExternalBytes(i) = raw \o tail
  BY DEF ExternalBytes, raw, tail
<1>8. ExternalLeft(i) \in 0 .. U32 - 1
  <2> DEFINE n == IF Supplement(i) > 0 THEN Len(ExternalBytes(i))
                  ELSE StoredSize(fds[i].flags, fds[i])
  <2>1. n \in Nat
    BY <1>2, <1>6, <1>7
  <2>2. ExternalLeft(i) = n % U32
    BY DEF ExternalLeft
  <2> HIDE DEF n
  <2> QED BY <2>1, <2>2, U32Assumption, DivMod
<1> QED BY <1>6, <1>7, <1>8

LEMMA ReadFileDescriptorType ==
  ASSUME cab \in DOMAIN Archives, NEW i \in Files
  PROVE  ReadFileDescriptor(i) \in FileDescriptor
<1>1. Archive.files[i] \in FileDescriptor
  BY ArchiveType
<1>2. 1 \in 0 .. U16 - 1
  BY U16Assumption
<1> QED BY <1>1, <1>2 DEF ReadFileDescriptor, FileDescriptor

(* The number of bytes of a part and the reader at its beginning.          *)
LEMMA OpenedDescriptorType ==
  ASSUME NEW i, NEW v, NEW d \in FileDescriptor
  PROVE  OpenedDescriptor(i, d, v) \in FileDescriptor
  BY DEF OpenedDescriptor, FileDescriptor, Flag

LEMMA NextVolumeType ==
  ASSUME NEW v \in Int PROVE NextVolume(v) \in 0 .. U16 - 1
<1>1. v + 1 \in Int
  OBVIOUS
<1> QED BY <1>1, U16Assumption, DivMod DEF NextVolume

LEMMA BytesOfPartType ==
  ASSUME NEW d \in FileDescriptor, NEW place \in Edge \cup FileDescriptor
  PROVE  BytesOfPart(d, place) \in 0 .. U32 - 1
<1>1. StoredSize(d.flags, place) \in Nat
  BY DEF StoredSize, Edge, FileDescriptor
<1> QED BY <1>1, U32Assumption, DivMod DEF BytesOfPart

LEMMA OpenedType ==
  ASSUME cab \in DOMAIN Archives, NEW r \in RdType, NEW d \in FileDescriptor,
         NEW v \in DOMAIN Vols
  PROVE  /\ Opened(r, d, v) \in RdType
         /\ Opened(r, d, v).src = v
         /\ Opened(r, d, v).index = r.index
         /\ Opened(r, d, v).obf = r.obf
<1>1. v \in Nat /\ HeaderSize(Archive.version) \in Nat
  BY VolumeFields DEF HeaderSize, CommonHeaderSize, VolumeHeaderSize
<1>2. CASE Places(r.index, d, v) = {}
  BY <1>1, <1>2 DEF Opened, RdType
<1>3. CASE Places(r.index, d, v) # {}
  <2> DEFINE place == CHOOSE p \in Places(r.index, d, v) : TRUE
  <2>1. place \in Places(r.index, d, v)
    BY <1>3
  <2>2. Places(r.index, d, v) \subseteq Edge \cup FileDescriptor
    BY VolumeFields DEF Places
  <2>3. place \in Edge \cup FileDescriptor
    BY <2>1, <2>2
  <2>4. Opened(r, d, v) = [r EXCEPT !.src = v, !.volume = v, !.pos = place.offset,
                                    !.left = BytesOfPart(d, place)]
    BY <1>3 DEF Opened
  <2> HIDE DEF place
  <2>5. place.offset \in Nat
    BY <2>3 DEF Edge, FileDescriptor
  <2>6. BytesOfPart(d, place) \in 0 .. U32 - 1
    BY <2>3, BytesOfPartType
  <2> QED BY <1>1, <2>4, <2>5, <2>6 DEF RdType
<1> QED BY <1>2, <1>3

(* What the fread of a step delivers.                                      *)
LEMMA FreadType ==
  ASSUME IInv
  PROVE  /\ BytesToRead \in Nat /\ BytesToRead <= io.left /\ BytesToRead <= rd.left
         /\ Enough => Fread \in Seq(Byte) /\ Len(Fread) = BytesToRead
<1>1. io.left \in Nat /\ rd.left \in Nat /\ rd.pos \in Nat
  BY U32Assumption DEF IInv, TypeOK
<1>2. BytesToRead \in Nat /\ BytesToRead <= io.left /\ BytesToRead <= rd.left
  BY <1>1 DEF BytesToRead
<1>3. ASSUME Enough
      PROVE  Fread \in Seq(Byte) /\ Len(Fread) = BytesToRead
  <2>1. /\ rd.src \in DOMAIN Vols \cup {ExternalSource} /\ cab \in DOMAIN Archives
        /\ rd.src = ExternalSource => rd.index \in DOMAIN Archive.external
    BY <1>3 DEF Enough, IInv, TypeOK, ExternalThere
  <2> DEFINE b == SourceBytes
             n == BytesToRead
             p == rd.pos
  <2>2. b \in Seq(Byte) /\ Len(b) \in Nat
    <3>1. CASE rd.src = ExternalSource
      <4>1. fds[rd.index] \in FileDescriptor
        <5>1. io.status # "none"
          BY <3>1, <2>1, ExternalIsNoVolume DEF IInv, SourceCounted
        <5> QED BY <5>1 DEF IInv, TypeOK
      <4> QED BY <2>1, <3>1, <4>1, ExternalType DEF SourceBytes
    <3>2. CASE rd.src # ExternalSource
      BY <2>1, <3>2, VolumeFields DEF SourceBytes
    <3> QED BY <3>1, <3>2
  <2>3. p \in Nat /\ n \in Nat /\ p + n <= Len(b)
    BY <1>1, <1>2, <1>3 DEF Enough
  <2> HIDE DEF b, n, p
  <2>4. SubSeq(b, p + 1, p + n) \in Seq(Byte) /\ Len(SubSeq(b, p + 1, p + n)) = n
    <3>1. CASE n = 0
      BY <2>2, <2>3, <3>1, SubSeqProperties
    <3>2. CASE n # 0
      BY <2>2, <2>3, <3>2, SubSeqProperties
    <3> QED BY <3>1, <3>2
  <2> QED BY <2>4 DEF b, n, p, Fread
<1> QED BY <1>2, <1>3

LEMMA ClearType ==
  ASSUME IInv, NEW buffer \in Seq(Byte)
  PROVE  Clear(buffer) \in Seq(Byte) /\ Len(Clear(buffer)) = Len(buffer)
<1>1. rd.obf \in Nat
  BY U32Assumption DEF IInv, TypeOK
<1> QED BY <1>1, DeobfuscateType DEF Clear

LEMMA SeedAfterType ==
  ASSUME IInv PROVE SeedAfter \in 0 .. U32 - 1
<1>1. rd.obf \in 0 .. U32 - 1 /\ rd.obf + io.size \in Int
  BY U32Assumption DEF IInv, TypeOK
<1> QED BY <1>1, U32Assumption, DivMod DEF SeedAfter, NextSeed
-----------------------------------------------------------------------------
(* The reader's invariant, one lemma for each of its operations.           *)
LEMMA InitIInv == Init => IInv
<1> SUFFICES ASSUME Init PROVE IInv
  OBVIOUS
<1>1. 0 \in 0 .. U32 - 1 /\ <<>> \in Seq(Byte)
  BY U32Assumption
<1>2. fds \in [Files -> FileDescriptor \cup {NotRead}]
  BY DEF Init
<1>3. 0 # ExternalSource
  BY U16Assumption DEF ExternalSource
<1> QED BY <1>1, <1>2, <1>3
    DEF Init, IInv, TypeOK, SourceCounted, BufferFills, ExternalThere,
        NoReader, NoCall

LEMMA GetFileDescriptorIInv ==
  ASSUME IInv, NEW i \in Files, GetFileDescriptor(i)
  PROVE  IInv'
<1>1. Descriptor(i) \in FileDescriptor
  BY ReadFileDescriptorType DEF Descriptor, IInv, TypeOK
<1>2. fds' \in [Files -> FileDescriptor \cup {NotRead}]
  BY <1>1 DEF GetFileDescriptor, IInv, TypeOK
<1>3. io.status # "none" => fds'[rd.index] # NotRead
  BY <1>1, NotReadAssumption DEF GetFileDescriptor, IInv, TypeOK
<1>4. UNCHANGED <<cab, rd, io, got, handles>>
  BY DEF GetFileDescriptor
<1>5. Files' = Files /\ Vols' = Vols
  BY <1>4 DEF Files, Vols, Archive
<1> QED BY <1>2, <1>3, <1>4, <1>5
    DEF IInv, TypeOK, SourceCounted, BufferFills, ExternalThere, Archive

(* A call that leaves the cache alone and changes rd, io and got to values *)
(* of their types keeps the invariant.                                     *)
LEMMA KeepsIInv ==
  ASSUME IInv, UNCHANGED cab, fds' \in [Files -> FileDescriptor \cup {NotRead}],
         rd' \in RdType, io' \in IoType, got' \in Seq(Byte), handles' \in Nat,
         \/ rd'.src \in DOMAIN Vols \cup {0}
         \/ rd'.src = rd.src /\ rd'.index = rd.index
         \/ rd'.src = ExternalSource /\ rd'.index \in DOMAIN Archive.external,
         io'.status # "none" => rd'.index \in Files /\ fds'[rd'.index] # NotRead,
         SourceCounted', BufferFills'
  PROVE  IInv'
<1>1. Files' = Files /\ Vols' = Vols /\ Archive' = Archive
  BY DEF Files, Vols, Archive
<1>2. rd'.src \in DOMAIN Vols \cup {0, ExternalSource}
  BY DEF IInv, TypeOK
<1>3. ExternalThere'
  BY <1>1, ExternalIsNoVolume DEF IInv, TypeOK, ExternalThere
<1>4. TypeOK'
  BY <1>1, <1>2 DEF IInv, TypeOK, RdType, IoType
<1> QED BY <1>3, <1>4 DEF IInv

LEMMA HandlesAfterType ==
  ASSUME IInv, NEW v
  PROVE  HandlesAfter(v) \in Nat /\ (Openable(v) => HandlesAfter(v) >= 1)
  BY DEF IInv, TypeOK, SourceCounted, HandlesAfter

LEMMA CreateBeginIInv ==
  ASSUME IInv, NEW i \in Files, CreateBegin(i)
  PROVE  IInv'
<1>1. rd' = [NoReader EXCEPT !.index = i] /\ io' = NoCall("opening") /\ got' = <<>>
  BY DEF CreateBegin
<1>2. rd' \in RdType /\ rd'.src = 0 /\ rd'.index = i
  BY <1>1, FilesAreNat, U32Assumption DEF NoReader, RdType
<1>3. io' \in IoType /\ io'.status = "opening"
  BY <1>1 DEF NoCall, IoType
<1>4. got' \in Seq(Byte)
  BY <1>1
<1>5. fds[i] # NotRead /\ UNCHANGED <<cab, fds, handles>>
  BY DEF CreateBegin
<1> QED BY <1>2, <1>3, <1>4, <1>5, KeepsIInv DEF SourceCounted, BufferFills, IInv, TypeOK

LEMMA CreateExternalIInv ==
  ASSUME IInv, NEW i \in Files, CreateExternal(i)
  PROVE  IInv'
<1>1. /\ rd' = [NoReader EXCEPT !.index = i, !.src = ExternalSource, !.left = ExternalLeft(i)]
      /\ io' = NoCall("idle") /\ got' = <<>> /\ handles' = handles + 1
      /\ i \in DOMAIN Archive.external /\ fds[i] # NotRead /\ UNCHANGED <<cab, fds>>
  BY DEF CreateExternal
<1>2. ExternalLeft(i) \in 0 .. U32 - 1 /\ ExternalSource \in Nat
  BY <1>1, ExternalType, ExternalIsNoVolume DEF IInv, TypeOK
<1>3. rd' \in RdType /\ rd'.src = ExternalSource /\ rd'.index = i
  <2> DEFINE left == ExternalLeft(i)
             src == ExternalSource
  <2>1. left \in 0 .. U32 - 1 /\ src \in Nat
    BY <1>2
  <2>2. rd' = [NoReader EXCEPT !.index = i, !.src = src, !.left = left]
    BY <1>1
  <2> HIDE DEF left, src
  <2>3. rd' \in RdType /\ rd'.src = src /\ rd'.index = i
    <3>1. i \in Nat /\ 0 \in 0 .. U32 - 1
      BY FilesAreNat, U32Assumption
    <3>2. rd' = [index |-> i, volume |-> 0, src |-> src, pos |-> 0, left |-> left, obf |-> 0]
      BY <2>2 DEF NoReader
    <3> QED BY <2>1, <3>1, <3>2 DEF RdType
  <2> QED BY <2>3 DEF src
<1>4. io' \in IoType /\ io'.status = "idle" /\ got' \in Seq(Byte)
  BY <1>1 DEF NoCall, IoType
<1>5. handles' \in Nat /\ handles' >= 1
  BY <1>1 DEF IInv, TypeOK
<1> QED BY <1>1, <1>3, <1>4, <1>5, KeepsIInv DEF SourceCounted, BufferFills, IInv, TypeOK

(* What both operations that open a volume make of the cached descriptor   *)
(* and of the reader.                                                      *)
LEMMA CreateOpenIInv ==
  ASSUME IInv, CreateOpen
  PROVE  IInv'
<1> DEFINE i == rd.index
           v == fds[i].volume
           d == OpenedDescriptor(i, fds[i], v)
<1>1. i \in Files /\ fds[i] \in FileDescriptor /\ fds[i] # NotRead
  BY DEF CreateOpen, IInv, TypeOK
<1>2. v \in DOMAIN Vols /\ Openable(v) /\ v # 0 /\ v \in Int
  <2>1. v \in DOMAIN Vols
    BY DEF CreateOpen, Readable, Openable
  <2> QED BY <2>1, VolumeFields DEF IInv, TypeOK, Openable
<1>3. d \in FileDescriptor
  BY <1>1, OpenedDescriptorType
<1>4. rd' = Opened(rd, d, v) /\ handles' = HandlesAfter(v) /\ UNCHANGED <<cab, got>>
  BY DEF CreateOpen
<1>5. \/ fds' = [fds EXCEPT ![i] = [d EXCEPT !.volume = NextVolume(v)]] /\ UNCHANGED io
      \/ fds' = [fds EXCEPT ![i] = d] /\ io' = NoCall("idle")
  BY DEF CreateOpen
<1> HIDE DEF d
<1>6. rd' \in RdType /\ rd'.src = v /\ rd'.index = i
  BY <1>1, <1>2, <1>3, <1>4, OpenedType DEF IInv, TypeOK, RdType
<1>7. [d EXCEPT !.volume = NextVolume(v)] \in FileDescriptor
  BY <1>2, <1>3, NextVolumeType DEF FileDescriptor
<1>8. fds' \in [Files -> FileDescriptor \cup {NotRead}] /\ fds'[i] # NotRead
  <2>1. PICK e \in FileDescriptor : fds' = [fds EXCEPT ![i] = e]
    BY <1>3, <1>5, <1>7
  <2>2. fds \in [Files -> FileDescriptor \cup {NotRead}]
    BY DEF IInv, TypeOK
  <2> QED BY <1>1, <2>1, <2>2, NotReadAssumption
<1>9. io' \in IoType /\ io'.status \in {"opening", "idle"}
  <2>1. io' = io \/ io' = NoCall("idle")
    BY <1>5
  <2>2. io \in IoType /\ io.status = "opening"
    BY DEF CreateOpen, IInv, TypeOK, IoType
  <2>3. NoCall("idle") \in IoType /\ NoCall("idle").status = "idle"
    BY DEF NoCall, IoType
  <2> QED BY <2>1, <2>2, <2>3
<1>10. handles' \in Nat /\ handles' >= 1
  BY <1>2, <1>4, HandlesAfterType
<1> QED BY <1>1, <1>2, <1>4, <1>6, <1>8, <1>9, <1>10, KeepsIInv
    DEF SourceCounted, BufferFills, IInv, TypeOK

LEMMA EndOfReader ==
  ASSUME IInv, rd' = NoReader, io' = NoCall("none"), UNCHANGED <<cab, fds, got>>,
         handles' \in Nat
  PROVE  IInv'
<1>1. rd' \in RdType /\ rd'.src = 0
  BY U32Assumption DEF NoReader, RdType
<1>2. io' \in IoType /\ io'.status = "none"
  BY DEF NoCall, IoType
<1> QED BY <1>1, <1>2, KeepsIInv DEF SourceCounted, BufferFills, IInv, TypeOK

LEMMA CreateFailIInv ==
  ASSUME IInv, CreateFail PROVE IInv'
<1>1. handles' \in Nat
  BY HandlesAfterType DEF CreateFail
<1> QED BY <1>1, EndOfReader DEF CreateFail

LEMMA DestroyIInv ==
  ASSUME IInv, Destroy PROVE IInv'
<1>1. handles' \in Nat
  BY DEF Destroy, IInv, TypeOK, SourceCounted
<1> QED BY <1>1, EndOfReader DEF Destroy

LEMMA ReadBeginIInv ==
  ASSUME IInv, NEW n \in Nat, ReadBegin(n) PROVE IInv'
<1>1. n \in Nat
  OBVIOUS
<1>2. io' = [status |-> "reading", size |-> n, left |-> n, buf |-> <<>>]
  BY DEF ReadBegin
<1>3. io' \in IoType
  BY <1>1, <1>2 DEF IoType
<1>4. BufferFills'
  BY <1>1, <1>2 DEF BufferFills
<1> QED BY <1>2, <1>3, <1>4, KeepsIInv
    DEF ReadBegin, SourceCounted, IInv, TypeOK, RdType

LEMMA ReadFailIInv ==
  ASSUME IInv, ReadFail PROVE IInv'
<1>1. io' \in IoType /\ io'.status = "failed"
  BY DEF ReadFail, IInv, TypeOK, IoType
<1> QED BY <1>1, KeepsIInv DEF ReadFail, SourceCounted, BufferFills, IInv, TypeOK, RdType

(* bytes_to_read of the buffer, and of the volume, are used up.            *)
LEMMA ReadDoneIInv ==
  ASSUME IInv, ReadDone PROVE IInv' /\ Len(io'.buf) = io.size
<1>1. /\ BytesToRead \in Nat /\ BytesToRead = io.left /\ BytesToRead <= rd.left
      /\ Fread \in Seq(Byte) /\ Len(Fread) = BytesToRead
  BY FreadType DEF ReadDone
<1>2. io.buf \in Seq(Byte) /\ got \in Seq(Byte) /\ io.size \in Nat
  BY DEF IInv, TypeOK
<1> DEFINE full == io.buf \o Fread
<1>3. full \in Seq(Byte) /\ Len(full) = io.size
  <2>1. Len(io.buf) + io.left = io.size
    BY DEF ReadDone, IInv, BufferFills
  <2>2. full \in Seq(Byte) /\ Len(full) = Len(io.buf) + Len(Fread)
    BY <1>1, <1>2, ConcatProperties
  <2> QED BY <2>1, <2>2, <1>1
<1>4. io' = [status |-> "idle", size |-> io.size, left |-> 0, buf |-> Clear(full)]
  BY DEF ReadDone
<1> HIDE DEF full
<1>5. Clear(full) \in Seq(Byte) /\ Len(Clear(full)) = io.size
  BY <1>3, ClearType
<1>6. io' \in IoType /\ io'.status = "idle" /\ io'.buf = Clear(full)
  BY <1>2, <1>4, <1>5 DEF IoType
<1>7. got' \in Seq(Byte)
  <2>1. got' = got \o Clear(full)
    BY <1>6 DEF ReadDone
  <2> QED BY <1>2, <1>5, <2>1, ConcatProperties
<1>8. rd' \in RdType /\ rd'.src = rd.src /\ rd'.index = rd.index
  <2>1. rd \in RdType /\ rd.pos + BytesToRead \in Nat
    BY <1>1 DEF IInv, TypeOK, RdType
  <2>2. rd.left - BytesToRead \in 0 .. U32 - 1
    BY <1>1, <2>1, U32Assumption DEF RdType
  <2>3. rd' = [rd EXCEPT !.pos = rd.pos + BytesToRead, !.left = rd.left - BytesToRead,
                         !.obf = SeedAfter]
    BY DEF ReadDone
  <2> QED BY <2>1, <2>2, <2>3, SeedAfterType DEF RdType
<1>9. UNCHANGED <<cab, fds, handles>> /\ io.status = "reading"
  BY DEF ReadDone
<1>10. IInv'
  BY <1>6, <1>7, <1>8, <1>9, KeepsIInv DEF SourceCounted, BufferFills, IInv, TypeOK
<1> QED BY <1>5, <1>6, <1>10

(* The next volume, in a read or before one.                               *)
Slot(i) == OpenedDescriptor(i, fds[i], rd.volume + 1)

LEMMA OpensNextReader ==
  ASSUME IInv, io.status # "none", NEW opened, NEW failed, OpensNext(opened, failed)
  PROVE  /\ rd.index \in Files /\ fds[rd.index] \in FileDescriptor
         /\ fds' = fds \/ fds' = [fds EXCEPT ![rd.index] = Slot(rd.index)]
         /\ io' = opened \/ io' = failed
         /\ rd' \in RdType /\ rd'.index = rd.index /\ rd'.obf = rd.obf
         /\ rd'.src \in DOMAIN Vols \cup {0}
         /\ rd'.src # 0 <=> Openable(rd.volume + 1)
         /\ handles' = HandlesAfter(rd.volume + 1)
         /\ UNCHANGED <<cab, got>>
<1> DEFINE i == rd.index
           v == rd.volume + 1
           d == OpenedDescriptor(i, fds[i], v)
<1>1. i \in Files /\ fds[i] \in FileDescriptor /\ rd \in RdType /\ cab \in DOMAIN Archives
  BY DEF IInv, TypeOK, RdType
<1>2. d \in FileDescriptor
  BY <1>1, OpenedDescriptorType
<1>3. v \in Nat /\ handles' = HandlesAfter(v) /\ UNCHANGED <<cab, got>>
  BY <1>1 DEF OpensNext, NextToOpen, RdType
<1>4. [rd EXCEPT !.left = 0] \in RdType
  BY <1>1, U32Assumption DEF RdType
<1>5. [rd EXCEPT !.left = 0].index = i /\ [rd EXCEPT !.left = 0].obf = rd.obf
  BY <1>1 DEF RdType
<1>6. CASE Readable(v)
  <2>1. /\ rd' = Opened([rd EXCEPT !.left = 0], d, v)
        /\ fds' = [fds EXCEPT ![i] = Slot(i)]
        /\ io' = opened
    BY <1>6 DEF OpensNext, NextToOpen, Slot
  <2>2. v \in DOMAIN Vols /\ Openable(v) /\ v # 0
    BY <1>1, <1>3, <1>6, VolumeFields DEF Readable, Openable
  <2> HIDE DEF d, v
  <2>3. rd' \in RdType /\ rd'.src = v /\ rd'.index = i /\ rd'.obf = rd.obf
    BY <1>1, <1>2, <1>4, <1>5, <2>1, <2>2, OpenedType
  <2> QED BY <1>1, <1>3, <2>1, <2>2, <2>3 DEF v
<1>7. CASE ~Readable(v)
  <2>1. /\ rd' = [rd EXCEPT !.left = 0, !.src = SourceAfter(v)]
        /\ io' = failed
        /\ fds' = fds
    BY <1>7 DEF OpensNext, NextToOpen
  <2>2. /\ SourceAfter(v) \in DOMAIN Vols \cup {0} /\ SourceAfter(v) \in Nat
        /\ SourceAfter(v) # 0 <=> Openable(v)
    BY <1>1, <1>3, VolumeFields DEF SourceAfter, Openable
  <2> HIDE DEF d, v
  <2>3. rd' \in RdType /\ rd'.src = SourceAfter(v) /\ rd'.index = i /\ rd'.obf = rd.obf
    <3> DEFINE src == SourceAfter(v)
    <3>1. src \in Nat /\ rd' = [rd EXCEPT !.left = 0, !.src = src] /\ 0 \in 0 .. U32 - 1
      BY <2>1, <2>2, U32Assumption
    <3> HIDE DEF src
    <3>2. rd' \in RdType /\ rd'.src = src /\ rd'.index = i /\ rd'.obf = rd.obf
      BY <1>1, <3>1 DEF RdType
    <3> QED BY <3>2 DEF src
  <2> QED BY <1>1, <1>3, <2>1, <2>2, <2>3 DEF v
<1> QED BY <1>6, <1>7

LEMMA OpensNextIInv ==
  ASSUME IInv, io.status # "none",
         NEW opened \in IoType, opened.status \in {"idle", "reading"},
         opened.status = "reading" => Len(opened.buf) + opened.left = opened.size,
         NEW failed \in IoType, failed.status = "failed",
         OpensNext(opened, failed)
  PROVE  IInv'
<1> DEFINE i == rd.index
<1>1. /\ i \in Files /\ fds[i] \in FileDescriptor
      /\ fds' = fds \/ fds' = [fds EXCEPT ![i] = Slot(i)]
      /\ io' = opened \/ io' = failed
      /\ rd' \in RdType /\ rd'.index = i
      /\ rd'.src \in DOMAIN Vols \cup {0}
      /\ rd'.src # 0 <=> Openable(rd.volume + 1)
      /\ handles' = HandlesAfter(rd.volume + 1)
      /\ UNCHANGED <<cab, got>>
  BY OpensNextReader
<1>2. Slot(i) \in FileDescriptor
  BY <1>1, OpenedDescriptorType DEF Slot
<1>3. fds' \in [Files -> FileDescriptor \cup {NotRead}] /\ fds'[i] # NotRead
  <2>1. fds \in [Files -> FileDescriptor \cup {NotRead}]
    BY DEF IInv, TypeOK
  <2> QED BY <1>1, <1>2, <2>1, NotReadAssumption
<1>4. handles' \in Nat /\ (rd'.src # 0 => handles' >= 1)
  BY <1>1, HandlesAfterType
<1>5. io' \in IoType /\ io'.status # "none" /\ BufferFills'
  BY <1>1 DEF BufferFills
<1>6. SourceCounted'
  BY <1>4, <1>5 DEF SourceCounted
<1>7. got' \in Seq(Byte)
  BY <1>1 DEF IInv, TypeOK
<1> QED BY <1>1, <1>3, <1>4, <1>5, <1>6, <1>7, KeepsIInv

LEMMA ReadAcrossIInv ==
  ASSUME IInv, ReadAcross PROVE IInv'
<1> DEFINE left == io.left - BytesToRead
           buf == io.buf \o Fread
           opened == [io EXCEPT !.left = left, !.buf = buf]
           failed == [io EXCEPT !.status = "failed"]
<1>1. io \in IoType /\ io.status = "reading" /\ OpensNext(opened, failed)
  BY DEF ReadAcross, IInv, TypeOK, IoType
<1>2. /\ BytesToRead \in Nat /\ BytesToRead <= io.left
      /\ Fread \in Seq(Byte) /\ Len(Fread) = BytesToRead
  BY FreadType DEF ReadAcross
<1>3. Len(io.buf) \in Nat /\ io.left \in Nat /\ Len(io.buf) + io.left = io.size
  BY <1>1, LenProperties DEF IInv, BufferFills, IoType
<1>4. buf \in Seq(Byte) /\ Len(buf) = Len(io.buf) + Len(Fread)
  <2> DEFINE b == io.buf
             f == Fread
  <2>1. b \in Seq(Byte) /\ f \in Seq(Byte)
    BY <1>1, <1>2 DEF IoType
  <2> HIDE DEF b, f
  <2>2. b \o f \in Seq(Byte) /\ Len(b \o f) = Len(b) + Len(f)
    BY <2>1, ConcatProperties
  <2> QED BY <2>2 DEF b, f
<1>5. left \in Nat /\ Len(buf) + left = io.size
  BY <1>2, <1>3, <1>4
<1> HIDE DEF left, buf
<1>6. opened \in IoType /\ opened.status = "reading"
      /\ Len(opened.buf) + opened.left = opened.size
  BY <1>1, <1>4, <1>5 DEF IoType
<1>7. failed \in IoType /\ failed.status = "failed"
  BY <1>1 DEF IoType
<1> HIDE DEF opened, failed
<1> QED BY <1>1, <1>6, <1>7, OpensNextIInv

LEMMA OpenNextIInv ==
  ASSUME IInv, OpenNext PROVE IInv'
<1>1. io.status = "idle" /\ OpensNext(NoCall("idle"), NoCall("failed"))
  BY DEF OpenNext
<1>2. /\ NoCall("idle") \in IoType /\ NoCall("idle").status = "idle"
      /\ NoCall("failed") \in IoType /\ NoCall("failed").status = "failed"
  BY DEF NoCall, IoType
<1> QED BY <1>1, <1>2, OpensNextIInv

(* The same for the other lemmas below.                                    *)
LEMMA AdvanceOpensNext ==
  ASSUME ReadAcross \/ OpenNext
  PROVE  /\ io.status \in {"reading", "idle"}
         /\ \E opened, failed : OpensNext(opened, failed)
<1>1. CASE ReadAcross BY <1>1 DEF ReadAcross
<1>2. CASE OpenNext BY <1>2 DEF OpenNext
<1> QED BY <1>1, <1>2
-----------------------------------------------------------------------------
LEMMA StutterIInv ==
  ASSUME IInv, UNCHANGED vars PROVE IInv'
  BY DEF vars, IInv, TypeOK, SourceCounted, BufferFills, ExternalThere, Files, Vols,
         Archive

(* The invariant is preserved by everything the reader or a client does.   *)
LEMMA NextIInv ==
  ASSUME IInv, [Next]_vars PROVE IInv'
<1>1. CASE CreateOpen BY <1>1, CreateOpenIInv
<1>2. CASE CreateFail BY <1>2, CreateFailIInv
<1>3. CASE ReadFail BY <1>3, ReadFailIInv
<1>4. CASE ReadDone BY <1>4, ReadDoneIInv
<1>5. CASE ReadAcross BY <1>5, ReadAcrossIInv
<1>6. CASE Open BY <1>6, GetFileDescriptorIInv, CreateBeginIInv, CreateExternalIInv DEF Open
<1>7. CASE Read BY <1>7, ReadBeginIInv, ReadSizesAssumption DEF Read
<1>8. CASE Destroy BY <1>8, DestroyIInv
<1>9. CASE OpenNext BY <1>9, OpenNextIInv
<1>10. CASE UNCHANGED vars BY <1>10, StutterIInv
<1> QED BY <1>1, <1>2, <1>3, <1>4, <1>5, <1>6, <1>7, <1>8, <1>9, <1>10 DEF Next, Step

(* Reading never takes a variable of the reader out of the type of its C   *)
(* object: the 32 bit counters, the cached descriptors and the buffers.    *)
THEOREM TypeCorrect == Spec => []TypeOK
<1>1. Init => IInv
  BY InitIInv
<1>2. IInv /\ [Next]_vars => IInv'
  BY NextIInv
<1>3. IInv => TypeOK
  BY DEF IInv
<1> QED BY <1>1, <1>2, <1>3, PTL DEF Spec
-----------------------------------------------------------------------------
(* Volume files: with complete headers the reader's own is the only one.   *)
AllWhole == \A v \in DOMAIN Vols : Vols[v].whole
OnlySource == AllWhole => handles = IF rd.src # 0 THEN 1 ELSE 0

LEMMA SourceIsVolume ==
  ASSUME cab \in DOMAIN Archives, NEW v, Openable(v) PROVE v # 0
  BY VolumeFields DEF Openable

LEMMA NextOnlySource ==
  ASSUME IInv, OnlySource, [Next]_vars PROVE OnlySource'
<1> SUFFICES ASSUME AllWhole' PROVE handles' = IF rd'.src # 0 THEN 1 ELSE 0
  BY DEF OnlySource
<1>1. UNCHANGED cab
  BY DEF Next, Step, Open, Read, vars, CreateOpen, CreateFail, ReadFail, ReadDone,
         ReadAcross, OpenNext, OpensNext, NextToOpen, GetFileDescriptor, CreateBegin,
         CreateExternal, ReadBegin, Destroy
<1>2. AllWhole /\ handles = IF rd.src # 0 THEN 1 ELSE 0
  BY <1>1 DEF AllWhole, OnlySource, Vols, Archive
<1>3. ASSUME NEW v
      PROVE  /\ HandlesAfter(v) = IF Openable(v) THEN 1 ELSE 0
             /\ Readable(v) <=> Openable(v)
  BY <1>2 DEF HandlesAfter, Readable, Openable, AllWhole
<1>4. cab \in DOMAIN Archives /\ rd \in RdType
  BY DEF IInv, TypeOK, RdType
<1>5. CASE CreateOpen
  <2> DEFINE v == fds[rd.index].volume
             d == OpenedDescriptor(rd.index, fds[rd.index], v)
  <2>1. Readable(v) /\ v \in DOMAIN Vols /\ handles' = HandlesAfter(v)
    BY <1>5 DEF CreateOpen, Readable, Openable
  <2>2. fds[rd.index] \in FileDescriptor
    BY <1>5 DEF CreateOpen, IInv, TypeOK
  <2>3. d \in FileDescriptor /\ rd' = Opened(rd, d, v)
    BY <1>5, <2>2, OpenedDescriptorType DEF CreateOpen
  <2> HIDE DEF d
  <2>4. rd'.src = v
    BY <1>4, <2>1, <2>3, OpenedType
  <2> QED BY <1>3, <1>4, <2>1, <2>4, SourceIsVolume
<1>6. CASE CreateFail
  BY <1>3, <1>6 DEF CreateFail, NoReader
<1>7. CASE ReadAcross \/ OpenNext
  <2>1. handles' = HandlesAfter(rd.volume + 1) /\ (rd'.src # 0 <=> Openable(rd.volume + 1))
    BY <1>7, AdvanceOpensNext, OpensNextReader
  <2> QED BY <1>3, <2>1
<1>8. CASE ReadDone
  BY <1>2, <1>4, <1>8 DEF ReadDone, RdType
<1>9. CASE ReadFail
  BY <1>2, <1>9 DEF ReadFail
<1>10. CASE Open
  <2>1. rd.src = 0
    BY <1>10 DEF Open, IInv, SourceCounted
  <2>2. CASE \E i \in Files : CreateExternal(i)
    <3>1. handles' = 1 /\ rd'.src = ExternalSource
      BY <1>2, <2>1, <2>2 DEF CreateExternal, NoReader
    <3> QED BY <1>4, <3>1, ExternalIsNoVolume
  <2>3. CASE \E i \in Files : GetFileDescriptor(i) \/ CreateBegin(i)
    BY <1>2, <2>1, <2>3 DEF GetFileDescriptor, CreateBegin, NoReader
  <2> QED BY <1>10, <2>2, <2>3 DEF Open
<1>11. CASE Read
  BY <1>2, <1>11 DEF Read, ReadBegin
<1>12. CASE Destroy
  BY <1>2, <1>12 DEF Destroy, NoReader
<1>13. CASE UNCHANGED vars
  BY <1>2, <1>13 DEF vars
<1> QED BY <1>5, <1>6, <1>7, <1>8, <1>9, <1>10, <1>11, <1>12, <1>13 DEF Next, Step

(* A reader that is gone has left no volume file open, when each volume    *)
(* that is there has its headers; unshield_reader_create leaks the file    *)
(* only when they are missing.                                             *)
THEOREM HandlesAreReturned == Spec => []HandlesReturned
<1>1. Init => IInv
  BY InitIInv
<1>2. Init => OnlySource
  BY DEF Init, OnlySource, NoReader
<1>3. IInv /\ OnlySource /\ [Next]_vars => IInv' /\ OnlySource'
  BY NextIInv, NextOnlySource
<1>4. IInv /\ OnlySource => HandlesReturned
  BY DEF IInv, SourceCounted, OnlySource, AllWhole, HandlesReturned
<1> QED BY <1>1, <1>2, <1>3, <1>4, PTL DEF Spec
-----------------------------------------------------------------------------
(* Whether a file is obfuscated is not for the reader to change.           *)
LEMMA OpenedKeepsObfuscated ==
  ASSUME NEW i, NEW v, NEW d \in FileDescriptor
  PROVE  /\ "obfuscated" \in OpenedDescriptor(i, d, v).flags <=> "obfuscated" \in d.flags
         /\ OpenedDescriptor(i, d, v).volume = d.volume
  BY DEF OpenedDescriptor, FileDescriptor

LEMMA ReadDoneSeed ==
  ASSUME IInv, SeedFollowsStream, ReadDone PROVE SeedFollowsStream'
<1>1. IInv' /\ Len(io'.buf) = io.size /\ got' = got \o io'.buf
  BY ReadDoneIInv DEF ReadDone
<1>2. got \in Seq(Byte) /\ io'.buf \in Seq(Byte) /\ io.size \in Nat
  BY <1>1 DEF IInv, TypeOK
<1>3. Len(got) \in Nat /\ Len(got') = Len(got) + io.size
  <2>1. Len(got \o io'.buf) = Len(got) + Len(io'.buf)
    BY <1>2, ConcatProperties
  <2> QED BY <1>1, <1>2, <2>1, LenProperties
<1>4. rd'.obf = SeedAfter /\ rd'.index = rd.index /\ fds' = fds /\ io.status = "reading"
  BY DEF ReadDone, IInv, TypeOK
<1>5. CASE "obfuscated" \in fds[rd.index].flags
  <2>1. rd'.obf = ((Len(got) % U32) + io.size) % U32
    BY <1>4, <1>5 DEF SeedFollowsStream, SeedAfter, IsObfuscated, NextSeed
  <2>2. rd'.obf = (Len(got) + io.size) % U32
    <3>1. ((Len(got) % U32) + io.size) % U32 = (Len(got) + io.size) % U32
      <4> DEFINE a == Len(got)
                 b == io.size
      <4>1. a \in Nat /\ b \in Int
        BY <1>2, <1>3
      <4> HIDE DEF a, b
      <4>2. ((a % U32) + b) % U32 = (a + b) % U32
        BY <4>1, U32Assumption, ModAdd
      <4> QED BY <4>2 DEF a, b
    <3> QED BY <2>1, <3>1
  <2> QED BY <1>3, <1>4, <1>5, <2>2 DEF SeedFollowsStream
<1>6. CASE "obfuscated" \notin fds[rd.index].flags
  BY <1>4, <1>6 DEF SeedFollowsStream, SeedAfter, IsObfuscated
<1> QED BY <1>5, <1>6

LEMMA NextSeedFollows ==
  ASSUME IInv, SeedFollowsStream, [Next]_vars PROVE SeedFollowsStream'
<1>1. cab \in DOMAIN Archives /\ rd \in RdType /\ io \in IoType
  BY DEF IInv, TypeOK, RdType, IoType
<1>2. 0 % U32 = 0 /\ 0 \in 0 .. U32 - 1
  BY U32Assumption
<1>3. CASE CreateOpen
  <2> DEFINE i == rd.index
             v == fds[i].volume
             d == OpenedDescriptor(i, fds[i], v)
  <2>1. i \in Files /\ fds[i] \in FileDescriptor
    BY <1>3 DEF CreateOpen, IInv, TypeOK
  <2>2. v \in DOMAIN Vols /\ io.status = "opening" /\ got' = got
    BY <1>3 DEF CreateOpen, Readable, Openable
  <2>3. d \in FileDescriptor /\ rd' = Opened(rd, d, v)
    BY <1>3, <2>1, OpenedDescriptorType DEF CreateOpen
  <2>4. "obfuscated" \in d.flags <=> "obfuscated" \in fds[i].flags
    BY <2>1, OpenedKeepsObfuscated
  <2>5. \/ fds' = [fds EXCEPT ![i] = [d EXCEPT !.volume = NextVolume(v)]]
        \/ fds' = [fds EXCEPT ![i] = d]
    BY <1>3 DEF CreateOpen
  <2> HIDE DEF d
  <2>6. rd'.obf = rd.obf /\ rd'.index = i
    BY <1>1, <2>2, <2>3, OpenedType
  <2>7. fds'[i].flags = d.flags
    <3>1. fds'[i] = d \/ fds'[i] = [d EXCEPT !.volume = NextVolume(v)]
      BY <2>1, <2>5 DEF IInv, TypeOK
    <3>2. [d EXCEPT !.volume = NextVolume(v)].flags = d.flags
      BY <2>3 DEF FileDescriptor
    <3> QED BY <3>1, <3>2
  <2> QED BY <2>2, <2>4, <2>6, <2>7 DEF SeedFollowsStream
<1>4. CASE ReadAcross \/ OpenNext
  <2> DEFINE i == rd.index
  <2>1. io.status # "none"
    BY <1>4, AdvanceOpensNext
  <2>2. /\ i \in Files /\ fds[i] \in FileDescriptor
        /\ fds' = fds \/ fds' = [fds EXCEPT ![i] = Slot(i)]
        /\ rd'.index = i /\ rd'.obf = rd.obf /\ got' = got
    BY <1>4, AdvanceOpensNext, OpensNextReader
  <2>3. "obfuscated" \in Slot(i).flags <=> "obfuscated" \in fds[i].flags
    BY <2>2, OpenedKeepsObfuscated DEF Slot
  <2>4. fds'[i] = fds[i] \/ fds'[i] = Slot(i)
    BY <2>2 DEF IInv, TypeOK
  <2> QED BY <2>1, <2>2, <2>3, <2>4 DEF SeedFollowsStream
<1>5. CASE ReadDone BY <1>5, ReadDoneSeed
<1>6. CASE ReadFail
  BY <1>6 DEF ReadFail, SeedFollowsStream
<1>7. CASE Open
  <2>1. CASE \E i \in Files : GetFileDescriptor(i)
    BY <1>7, <2>1 DEF Open, GetFileDescriptor, SeedFollowsStream
  <2>2. CASE \E i \in Files : CreateBegin(i) \/ CreateExternal(i)
    <3>1. rd'.obf = 0 /\ got' = <<>>
      BY <2>2 DEF CreateBegin, CreateExternal, NoReader
    <3> QED BY <1>2, <3>1 DEF SeedFollowsStream
  <2> QED BY <1>7, <2>1, <2>2 DEF Open
<1>8. CASE Read
  BY <1>8 DEF Read, ReadBegin, SeedFollowsStream
<1>9. CASE CreateFail \/ Destroy
  BY <1>9 DEF CreateFail, Destroy, NoCall, SeedFollowsStream
<1>10. CASE UNCHANGED vars
  BY <1>10 DEF vars, SeedFollowsStream
<1> QED BY <1>3, <1>4, <1>5, <1>6, <1>7, <1>8, <1>9, <1>10 DEF Next, Step

(* The seed of unshield_reader_deobfuscate is the reader's position in the *)
(* stream, modulo the width of an unsigned, through every sequence of      *)
(* reads, volumes and failures.                                            *)
THEOREM SeedIsPosition == Spec => []SeedFollowsStream
<1>1. Init => IInv
  BY InitIInv
<1>2. Init => SeedFollowsStream
  BY DEF Init, NoCall, SeedFollowsStream
<1>3. IInv /\ SeedFollowsStream /\ [Next]_vars => IInv' /\ SeedFollowsStream'
  BY NextIInv, NextSeedFollows
<1> QED BY <1>1, <1>2, <1>3, PTL DEF Spec
-----------------------------------------------------------------------------
(* One slot of the cache before and after a step.                          *)
Learns(d, e) ==
  /\ e = [d EXCEPT !.flags = e.flags, !.volume = e.volume]
  /\ e.flags \in {d.flags, d.flags \cup {"split"}}
  /\ e.flags # d.flags => Archive.version = 5
  /\ e.volume # d.volume => e.volume = d.volume + 1 /\ Archive.version <= 5

LEMMA LearnsNothing ==
  ASSUME NEW d \in FileDescriptor PROVE Learns(d, d)
  BY DEF Learns, FileDescriptor

LEMMA OpenedLearns ==
  ASSUME NEW d \in FileDescriptor, NEW i, NEW v
  PROVE  Learns(d, OpenedDescriptor(i, d, v))
  BY DEF Learns, OpenedDescriptor, FoundSplit, FileDescriptor

LEMMA MovedLearns ==
  ASSUME NEW d \in FileDescriptor, NEW i, NEW v, NEW w,
         Archive.version <= 5, w = d.volume + 1
  PROVE  Learns(d, [OpenedDescriptor(i, d, v) EXCEPT !.volume = w])
  BY DEF Learns, OpenedDescriptor, FoundSplit, FileDescriptor

(* A filled slot before and after any step of the reader or a client.      *)
LEMMA StepLearns ==
  ASSUME IInv, [Next]_vars, NEW i \in Files, fds[i] # NotRead
  PROVE  Learns(fds[i], fds'[i])
<1>1. fds[i] \in FileDescriptor /\ fds \in [Files -> FileDescriptor \cup {NotRead}]
  BY DEF IInv, TypeOK
<1>2. CASE fds'[i] = fds[i]
  BY <1>1, <1>2, LearnsNothing
<1>3. CASE CreateOpen
  <2> DEFINE v == fds[rd.index].volume
             d == OpenedDescriptor(rd.index, fds[rd.index], v)
  <2>1. CASE i # rd.index
    <3>1. PICK e : fds' = [fds EXCEPT ![rd.index] = e]
      BY <1>3 DEF CreateOpen
    <3> QED BY <1>1, <1>2, <2>1, <3>1
  <2>2. CASE i = rd.index /\ fds' = [fds EXCEPT ![i] = d]
    <3>1. fds'[i] = d
      BY <1>1, <2>2
    <3> QED BY <1>1, <2>2, <3>1, OpenedLearns
  <2>3. CASE /\ i = rd.index /\ StartsLater(i, v)
             /\ fds' = [fds EXCEPT ![i] = [d EXCEPT !.volume = NextVolume(v)]]
    <3>1. fds'[i] = [d EXCEPT !.volume = NextVolume(v)]
      BY <1>1, <2>3
    <3>2. NextVolume(v) = v + 1
      <4>1. v \in 1 .. U16 - 2
        BY <1>3, ArchiveType DEF CreateOpen, Readable, Openable, IInv, TypeOK
      <4> DEFINE w == v + 1
      <4>2. w \in 0 .. U16 - 1 /\ U16 \in Nat \ {0}
        BY <4>1, U16Assumption
      <4> HIDE DEF w
      <4>3. (U16 * 0 + w) % U16 = w
        BY <4>2, ModUnique
      <4>4. U16 * 0 + w = w
        BY <4>2
      <4> QED BY <4>3, <4>4 DEF NextVolume, w
    <3> QED BY <1>1, <2>3, <3>1, <3>2, MovedLearns DEF StartsLater
  <2> QED BY <1>3, <2>1, <2>2, <2>3 DEF CreateOpen
<1>4. CASE ReadAcross \/ OpenNext
  <2> DEFINE d == Slot(rd.index)
  <2>1. fds' = fds \/ fds' = [fds EXCEPT ![rd.index] = d]
    BY <1>4, AdvanceOpensNext, OpensNextReader
  <2>2. CASE i = rd.index /\ fds' = [fds EXCEPT ![i] = d]
    <3>1. fds'[i] = d
      BY <1>1, <2>2
    <3> QED BY <1>1, <2>2, <3>1, OpenedLearns DEF Slot
  <2>3. CASE fds' = fds \/ (i # rd.index /\ fds' = [fds EXCEPT ![rd.index] = d])
    <3>1. fds'[i] = fds[i]
      BY <1>1, <2>3
    <3> QED BY <1>2, <3>1
  <2> QED BY <2>1, <2>2, <2>3
<1>5. CASE Open
  <2>1. CASE \E j \in Files : GetFileDescriptor(j)
    <3>1. PICK j \in Files : fds' = [fds EXCEPT ![j] = Descriptor(j)]
      BY <2>1 DEF GetFileDescriptor
    <3>2. fds'[i] = fds[i]
      BY <1>1, <3>1 DEF Descriptor
    <3> QED BY <1>2, <3>2
  <2>2. CASE \E j \in Files : CreateBegin(j) \/ CreateExternal(j)
    BY <1>2, <2>2 DEF CreateBegin, CreateExternal
  <2> QED BY <1>5, <2>1, <2>2 DEF Open
<1>6. CASE CreateFail \/ ReadFail \/ ReadDone \/ Read \/ Destroy \/ UNCHANGED vars
  BY <1>2, <1>6 DEF CreateFail, ReadFail, ReadDone, Read, ReadBegin, Destroy, vars
<1> QED BY <1>2, <1>3, <1>4, <1>5, <1>6 DEF Next, Step

(* What a step writes into a slot of the cache that was filled is what the *)
(* reader found out about the file in the headers of the volume it opened: *)
(* a later volume or the split flag, never a place, a size or a checksum.  *)
THEOREM CacheOnlyLearns == Spec => DescriptorsOnlyLearn
<1> DEFINE Filled(i) == fds[i] # NotRead => Learns(fds[i], fds'[i])
<1>1. ASSUME IInv, [Next]_vars, NEW i \in Files PROVE Filled(i)
  BY <1>1, StepLearns
<1>2. IInv /\ [Next]_vars => \A i \in Files : Filled(i)
  BY <1>1
<1>3. Init => IInv
  BY InitIInv
<1>4. IInv /\ [Next]_vars => IInv'
  BY NextIInv
<1>5. IInv /\ [Next]_vars =>
        [\A i \in Files : fds[i] # NotRead =>
           /\ fds'[i] = [fds[i] EXCEPT !.flags = fds'[i].flags, !.volume = fds'[i].volume]
           /\ fds'[i].flags \in {fds[i].flags, fds[i].flags \cup {"split"}}
           /\ fds'[i].flags # fds[i].flags => Archive.version = 5
           /\ fds'[i].volume # fds[i].volume =>
                fds'[i].volume = fds[i].volume + 1 /\ Archive.version <= 5]_vars
  BY <1>2 DEF Learns
<1> QED BY <1>3, <1>4, <1>5, PTL DEF Spec, DescriptorsOnlyLearn
-----------------------------------------------------------------------------
(***************************************************************************)
(* That unshield_reader_read delivers the bytes of a file in their order,  *)
(* however the file was cut into volumes, whatever became of them since    *)
(* and whatever sizes are asked for, and that a read of an intact file     *)
(* fails for one reason only.                                              *)
(***************************************************************************)

(* Where the parts of a file are, in the archive in use.                   *)
Stored(i) == Archive.stored[i]
Lo(i) == Archive.layout[i].lo
Hi(i) == Archive.layout[i].hi
StartOf(i, v) == Archive.layout[i].start[v]
OffsetOf(i, v) == Archive.layout[i].offset[v]
FirstVolume(i) == SearchedFrom(Archive, i)
Split(i) == IsSplit(Archive, i)

(* What the cache may say of such a file: what the file table says, but *)
(* for the split flag of a split file, and a volume on the way to the one  *)
(* where the file begins.                                                  *)
KnownAs(i, d) ==
  LET e == Archive.files[i]
  IN  /\ d.offset = e.offset /\ d.expanded = e.expanded /\ d.compressed = e.compressed
      /\ d.flags \in {e.flags, e.flags \cup {"split"}}
      /\ d.flags = e.flags \/ Split(i)
      /\ d.volume \in FirstVolume(i) .. Lo(i)
CacheSound ==
  \A i \in Files : Laid(i) /\ fds[i] # NotRead => KnownAs(i, fds[i])

(* The reader stands in a part of the file, where the bytes that were read *)
(* so far end ...                                                          *)
Raw == Len(got) + (IF io.status = "reading" THEN Len(io.buf) ELSE 0)
AtPart(i) ==
  /\ rd.src \in Lo(i) .. Hi(i) /\ rd.volume = rd.src
  /\ StartOf(i, rd.src) <= Raw
  /\ rd.pos = OffsetOf(i, rd.src) + (Raw - StartOf(i, rd.src))
  /\ rd.left = StartOf(i, rd.src + 1) - Raw
  /\ Split(i) => "split" \in fds[i].flags
  /\ io.status = "reading" /\ rd.left = 0 => io.buf = <<>>

(* ... or behind the last of them.                                         *)
AtEnd(i) ==
  /\ Raw = Len(Stored(i)) /\ rd.volume >= Hi(i)
  /\ io.status = "reading" => io.buf = <<>>

InStep ==
  WithinFile /\ io.status \in {"idle", "reading"} =>
    /\ AtPart(rd.index) \/ AtEnd(rd.index)
    /\ io.status = "reading" =>
         \A k \in 1 .. Len(io.buf) : io.buf[k] = Stored(rd.index)[Len(got) + k]
Delivered ==
  WithinFile => \A k \in 1 .. Len(got) : got[k] = Plain(rd.index)[k]
NothingYet == io.status = "opening" => got = <<>>
SomeLeft == io.status = "reading" /\ io.size # 0 => io.left # 0

(* A file beside the cabinets is one part, and a read of it one fread.     *)
OnePart ==
  rd.src = ExternalSource =>
    /\ rd.pos = Len(got) /\ Len(got) <= Len(ExternalBytes(rd.index))
    /\ io.status = "reading" => io.buf = <<>>
    /\ \A k \in 1 .. Len(got) :
         got[k] = IF IsObfuscated
                  THEN DeobfuscateByte(ExternalBytes(rd.index)[k], (k - 1) % U32)
                  ELSE ExternalBytes(rd.index)[k]

Flow ==
  /\ CacheSound /\ InStep /\ Delivered /\ NothingYet /\ SomeLeft
  /\ OnePart /\ FailsOnlyBetweenParts
StreamInv == IInv /\ SeedFollowsStream /\ Flow
-----------------------------------------------------------------------------
(* The cast to int of the number of a file, and of any uint32_t.           *)
LEMMA AsIntType ==
  ASSUME NEW n \in 0 .. U32 - 1 PROVE AsInt(n) \in Int
<1>1. U32 \in Nat
  BY U32Assumption
<1> QED BY <1>1 DEF AsInt

LEMMA FileAsInt ==
  ASSUME cab \in DOMAIN Archives, NEW i \in Files PROVE AsInt(i) = i
<1>1. Archive.count \in Nat /\ Archive.count < U32 \div 2
  BY ArchivesAssumption DEF IsArchive, Archive
<1>2. U32 \div 2 \in Int
  BY U32Assumption, DivMod
<1>3. i < U32 \div 2
  BY <1>1, <1>2 DEF Files
<1> QED BY <1>3 DEF AsInt

(* What it means that a file was stored as it should be, and that it is    *)
(* still complete.                                                         *)
LEMMA LaidMeans ==
  ASSUME cab \in DOMAIN Archives, NEW i \in Files, Laid(i)
  PROVE  /\ LayoutOK(Archive, i) /\ HeadersOK(Archive, i) /\ ~Undetected(Archive, i)
         /\ i \notin DOMAIN Archive.external
         /\ Archive.files[i] \in FileDescriptor /\ i \in Nat
<1>1. Archive.files \in [Files -> FileDescriptor]
  BY ArchiveType
<1>2. LaidFiles[cab] =
        {j \in DOMAIN Archives[cab].files \ DOMAIN Archives[cab].external :
           LayoutOK(Archives[cab], j) /\ HeadersOK(Archives[cab], j)
             /\ ~Undetected(Archives[cab], j)}
  BY DEF LaidFiles
<1> QED BY <1>1, <1>2, FilesAreNat DEF Laid, Archive

LEMMA IntactMeans ==
  ASSUME cab \in DOMAIN Archives, NEW i, Intact(i)
  PROVE  Laid(i) /\ IsComplete(Archive, i)
  BY DEF Intact, IntactFiles, Laid, Archive

LEMMA StoredType ==
  ASSUME cab \in DOMAIN Archives, NEW i \in Files
  PROVE  Stored(i) \in Seq(Byte) /\ Len(Stored(i)) \in Nat
<1>1. Stored(i) \in Seq(Byte)
  BY ArchivesAssumption DEF Stored, Archive, IsArchive, Files
<1> QED BY <1>1, LenProperties

LEMMA PlainMeans ==
  ASSUME cab \in DOMAIN Archives, NEW i \in Files
  PROVE  /\ Plain(i) \in Seq(Byte) /\ Len(Plain(i)) = Len(Stored(i))
         /\ \A k \in 1 .. Len(Stored(i)) :
              Plain(i)[k] = IF "obfuscated" \in Archive.files[i].flags
                            THEN DeobfuscateByte(Stored(i)[k], (k - 1) % U32)
                            ELSE Stored(i)[k]
<1> DEFINE s == Stored(i)
<1>1. s \in Seq(Byte) /\ Len(s) \in Nat
  BY StoredType
<1>2. i \in DOMAIN Archives[cab].files
  BY ArchiveType DEF Archive
<1>3. Plain(i) = IF "obfuscated" \in Archive.files[i].flags THEN Deobfuscate(s, 0) ELSE s
  BY <1>2 DEF Plain, PlainBytes, Archive, Stored
<1> HIDE DEF s
<1>4. /\ Deobfuscate(s, 0) \in Seq(Byte) /\ Len(Deobfuscate(s, 0)) = Len(s)
      /\ \A k \in 1 .. Len(s) :
           Deobfuscate(s, 0)[k] = DeobfuscateByte(s[k], (0 + (k - 1)) % U32)
  BY <1>1, DeobfuscateType
<1>5. \A k \in 1 .. Len(s) : 0 + (k - 1) = k - 1
  BY <1>1
<1>6. CASE "obfuscated" \in Archive.files[i].flags
  BY <1>3, <1>4, <1>5, <1>6 DEF s
<1>7. CASE "obfuscated" \notin Archive.files[i].flags
  BY <1>1, <1>3, <1>7 DEF s
<1> QED BY <1>6, <1>7

LEMMA PartsInOrder ==
  ASSUME cab \in DOMAIN Archives, NEW i \in Files, Laid(i)
  PROVE  /\ Lo(i) \in Nat \ {0} /\ Hi(i) \in Nat /\ Lo(i) <= Hi(i)
         /\ StartOf(i, Lo(i)) = 0 /\ StartOf(i, Hi(i) + 1) = Len(Stored(i))
         /\ Split(i) <=> Lo(i) < Hi(i)
         /\ \A v \in Lo(i) .. Hi(i) :
              /\ v \in Nat \ {0} /\ v # ExternalSource
              /\ StartOf(i, v) \in Nat /\ StartOf(i, v + 1) \in Nat /\ OffsetOf(i, v) \in Nat
              /\ StartOf(i, v) <= StartOf(i, v + 1)
              /\ StartOf(i, v + 1) <= Len(Stored(i))
              /\ Split(i) => StartOf(i, v) < StartOf(i, v + 1)
<1>1. LayoutOK(Archive, i)
  BY LaidMeans
<1> DEFINE lo == Lo(i)
           hi == Hi(i)
           start == Archive.layout[i].start
<1>2. /\ lo \in 1 .. U16 - 2 /\ hi \in 1 .. U16 - 2 /\ lo <= hi
      /\ start \in [lo .. hi + 1 -> Nat]
      /\ Archive.layout[i].offset \in [lo .. hi -> Nat]
      /\ start[lo] = 0 /\ start[hi + 1] = Len(Archive.stored[i])
      /\ \A v \in lo .. hi :
           /\ \A w \in v + 1 .. hi + 1 : start[v] <= start[w]
           /\ IsSplit(Archive, i) => start[v] < start[v + 1]
  BY <1>1 DEF LayoutOK, Lo, Hi
<1>u. U16 \in Nat
  BY U16Assumption
<1>3. IsSplit(Archive, i) <=> lo < hi
  BY DEF IsSplit, Lo, Hi
<1> HIDE DEF lo, hi, start
<1>4. ASSUME NEW v \in lo .. hi
      PROVE  /\ start[v] \in Nat /\ start[v + 1] \in Nat
             /\ start[v] <= start[v + 1] /\ start[v + 1] <= start[hi + 1]
  <2>1. v \in lo .. hi + 1 /\ v + 1 \in lo .. hi + 1 /\ hi + 1 \in lo .. hi + 1
    BY <1>2, <1>u
  <2>2. v + 1 \in v + 1 .. hi + 1
    BY <1>2, <1>u
  <2>3. start[v] \in Nat /\ start[v + 1] \in Nat /\ start[v] <= start[v + 1]
    BY <1>2, <2>1, <2>2
  <2>4. CASE v = hi
    BY <2>3, <2>4
  <2>5. CASE v # hi
    <3>1. v + 1 \in lo .. hi /\ hi + 1 \in (v + 1) + 1 .. hi + 1
      BY <1>2, <1>u, <2>5
    <3> QED BY <1>2, <2>3, <3>1
  <2> QED BY <2>3, <2>4, <2>5
<1>n. /\ lo \in Nat \ {0} /\ hi \in Nat /\ lo <= hi
      /\ \A v \in lo .. hi : v \in Nat \ {0} /\ v # ExternalSource
  BY <1>2, <1>u DEF ExternalSource
<1>5. /\ lo \in Nat \ {0} /\ hi \in Nat /\ lo <= hi
      /\ start[lo] = 0 /\ start[hi + 1] = Len(Archive.stored[i])
      /\ \A v \in lo .. hi :
           /\ v \in Nat \ {0} /\ v # ExternalSource
           /\ start[v] \in Nat /\ start[v + 1] \in Nat /\ Archive.layout[i].offset[v] \in Nat
           /\ start[v] <= start[v + 1]
           /\ start[v + 1] <= Len(Archive.stored[i])
           /\ IsSplit(Archive, i) => start[v] < start[v + 1]
  BY <1>2, <1>4, <1>n
<1> QED BY <1>3, <1>5 DEF lo, hi, start, Lo, Hi, StartOf, OffsetOf, Stored, Split, Vols

(* The bytes of a part that are in its volume are the right ones, and all  *)
(* of them are there when the file is intact.                              *)
LEMMA PartInVolume ==
  ASSUME cab \in DOMAIN Archives, NEW i \in Files, Laid(i), NEW v \in Lo(i) .. Hi(i),
         v \in DOMAIN Vols
  PROVE  \A k \in 1 .. StartOf(i, v + 1) - StartOf(i, v) :
           OffsetOf(i, v) + k <= Len(Vols[v].bytes) =>
             Vols[v].bytes[OffsetOf(i, v) + k] = Stored(i)[StartOf(i, v) + k]
<1>1. LayoutOK(Archive, i)
  BY LaidMeans
<1> QED BY <1>1 DEF LayoutOK, PartSize, Lo, Hi, StartOf, OffsetOf, Stored, Vols

LEMMA PartComplete ==
  ASSUME cab \in DOMAIN Archives, NEW i \in Files, Intact(i), NEW v \in Lo(i) .. Hi(i)
  PROVE  /\ v \in DOMAIN Vols /\ Vols[v].whole
         /\ OffsetOf(i, v) + (StartOf(i, v + 1) - StartOf(i, v)) <= Len(Vols[v].bytes)
<1>1. IsComplete(Archive, i) /\ HeadersOK(Archive, i) /\ Laid(i)
      /\ Archive.files[i] \in FileDescriptor
  BY IntactMeans, LaidMeans
<1>2. v \in SearchedFrom(Archive, i) .. Hi(i)
  <2>1. Lo(i) \in Nat /\ Hi(i) \in Nat
    BY <1>1, PartsInOrder
  <2>2. SearchedFrom(Archive, i) <= Lo(i) /\ SearchedFrom(Archive, i) \in Int
    BY <1>1, U16Assumption DEF HeadersOK, Lo, SearchedFrom, FileDescriptor
  <2> QED BY <2>1, <2>2
<1> QED BY <1>1, <1>2
    DEF IsComplete, IsWhole, PartSize, Lo, Hi, StartOf, OffsetOf, Vols

(* All volumes where an intact file is looked for can be read.             *)
LEMMA SearchedReadable ==
  ASSUME cab \in DOMAIN Archives, NEW i \in Files, Intact(i), NEW v \in FirstVolume(i) .. Hi(i)
  PROVE  Readable(v)
<1>1. IsComplete(Archive, i)
  BY IntactMeans
<1> QED BY <1>1 DEF IsComplete, IsWhole, FirstVolume, Hi, Readable, Openable, Vols

(* What the headers of the volumes say of such a file.                     *)
LEMMA HeadersSay ==
  ASSUME cab \in DOMAIN Archives, NEW i \in Files, Laid(i)
  PROVE  /\ FirstVolume(i) <= Lo(i) /\ FirstVolume(i) \in Nat
         /\ Archive.version > 5 => FirstVolume(i) = Lo(i)
         /\ \A v \in FirstVolume(i) .. Lo(i) - 1 :
              Readable(v) => i > AsInt(Vols[v].last.index)
         /\ Readable(Lo(i)) => i <= AsInt(Vols[Lo(i)].last.index)
         /\ StoredSize(Archive.files[i].flags, Archive.files[i]) = Len(Stored(i))
         /\ Len(Stored(i)) < U32
<1>1. HeadersOK(Archive, i) /\ i \in Nat /\ Archive.files[i] \in FileDescriptor
  BY LaidMeans
<1>2. FirstVolume(i) \in Nat
  <2>1. Archive.files[i].volume \in 0 .. U16 - 1
    BY <1>1 DEF FileDescriptor
  <2> QED BY <2>1, U16Assumption DEF FirstVolume, SearchedFrom
<1>3. ASSUME NEW v \in FirstVolume(i) .. Lo(i) - 1, Readable(v)
      PROVE  i > AsInt(Vols[v].last.index)
  <2>1. AsInt(Vols[v].last.index) < i
    BY <1>1, <1>3 DEF HeadersOK, FirstVolume, Lo, Vols, IsWhole, Readable, Openable
  <2>2. AsInt(Vols[v].last.index) \in Int
    BY <1>3, VolumeFields, AsIntType DEF Edge, Readable, Openable
  <2> QED BY <1>1, <2>1, <2>2
<1>4. /\ FirstVolume(i) <= Lo(i)
      /\ Archive.version > 5 => FirstVolume(i) = Lo(i)
      /\ Readable(Lo(i)) => i <= AsInt(Vols[Lo(i)].last.index)
      /\ StoredSize(Archive.files[i].flags, Archive.files[i]) = Len(Stored(i))
      /\ Len(Stored(i)) < U32
  BY <1>1 DEF HeadersOK, FirstVolume, Lo, Vols, Stored, IsWhole, Readable, Openable
<1> QED BY <1>2, <1>3, <1>4

(* The part of a split file in each of its volumes.                        *)
LEMMA SplitSays ==
  ASSUME cab \in DOMAIN Archives, NEW i \in Files, Laid(i), Split(i)
  PROVE  /\ \A v \in Lo(i) .. Hi(i) :
              Readable(v) =>
                \/ ClaimsLast(Archive, i, v) /\ Announces(Archive, i, v, Vols[v].last)
                \/ /\ v = Hi(i) /\ ~ClaimsLast(Archive, i, v)
                   /\ Announces(Archive, i, v, Vols[v].first)
         /\ Archive.files[i].compressed = Len(Stored(i))
         /\ Archive.version # 5 => "split" \in Archive.files[i].flags
<1>1. HeadersOK(Archive, i)
  BY LaidMeans
<1>2. \A v \in Lo(i) .. Hi(i) : Readable(v) => AnnouncesPart(Archive, i, v)
  BY <1>1 DEF HeadersOK, Split, Lo, Hi, Vols, IsWhole, Readable, Openable
<1>3. /\ Archive.files[i].compressed = Len(Stored(i))
      /\ Archive.version # 5 => "split" \in Archive.files[i].flags
  BY <1>1 DEF HeadersOK, Split, Stored
<1>4. Lo(i) \in Nat /\ Hi(i) \in Nat
  BY PartsInOrder
<1> QED BY <1>2, <1>3, <1>4 DEF AnnouncesPart, Hi, Vols

LEMMA WholeSays ==
  ASSUME cab \in DOMAIN Archives, NEW i \in Files, Laid(i), ~Split(i)
  PROVE  /\ "split" \notin Archive.files[i].flags
         /\ Archive.files[i].offset = OffsetOf(i, Lo(i))
         /\ Readable(Lo(i)) =>
              \A edge \in {Vols[Lo(i)].first, Vols[Lo(i)].last} :
                edge.index = i => edge.compressed = Archive.files[i].compressed
<1>1. HeadersOK(Archive, i)
  BY LaidMeans
<1> QED BY <1>1 DEF HeadersOK, Split, Lo, OffsetOf, Vols, IsWhole, Readable, Openable

(* No header makes the reader take a file that is not split for one.       *)
LEMMA NoFalseSplit ==
  ASSUME cab \in DOMAIN Archives, NEW i \in Files, Laid(i), ~Split(i),
         NEW d, KnownAs(i, d), NEW v \in DOMAIN Vols, Readable(v)
  PROVE  ~FoundSplit(i, d, v)
<1> SUFFICES ASSUME FoundSplit(i, d, v) PROVE FALSE
  OBVIOUS
<1>1. HeadersOK(Archive, i)
  BY LaidMeans
<1>2. /\ Archive.version = 5
      /\ \E edge \in {Vols[v].first, Vols[v].last} :
           edge.index = i /\ edge.compressed # Archive.files[i].compressed
  BY DEF FoundSplit, KnownAs
<1>3. Lo(i) \in Nat /\ Hi(i) = Lo(i) /\ v \in Nat \ {0} /\ FirstVolume(i) = 1
  BY <1>2, PartsInOrder, VolumeFields DEF FirstVolume, SearchedFrom
<1>4. CASE v < Lo(i)
  <2>1. v \in 1 .. Lo(i) - 1
    BY <1>3, <1>4
  <2>2. AsInt(Vols[v].last.index) < i /\ Vols[v].first.index # i
    BY <1>1, <1>2, <2>1 DEF HeadersOK, SearchedFrom, Lo, Vols, IsWhole, Readable, Openable
  <2>3. AsInt(i) = i /\ i \in Nat
    BY FileAsInt, FilesAreNat
  <2>4. Vols[v].last.index # i
    BY <2>2, <2>3
  <2> QED BY <1>2, <2>2, <2>4
<1>5. CASE v = Lo(i)
  BY <1>2, <1>5, WholeSays
<1>6. CASE v > Lo(i)
  <2>1. v > Hi(i)
    BY <1>3, <1>6
  <2>2. i \notin {Vols[v].first.index, Vols[v].last.index}
    BY <1>1, <2>1 DEF HeadersOK, Hi, Vols
  <2> QED BY <1>2, <2>2
<1> QED BY <1>3, <1>4, <1>5, <1>6

LEMMA OpenedKnown ==
  ASSUME cab \in DOMAIN Archives, NEW i \in Files, Laid(i),
         NEW d \in FileDescriptor, KnownAs(i, d), NEW v \in DOMAIN Vols, Readable(v)
  PROVE  KnownAs(i, OpenedDescriptor(i, d, v))
<1>1. CASE ~FoundSplit(i, d, v)
  BY <1>1 DEF OpenedDescriptor
<1>2. CASE FoundSplit(i, d, v)
  <2>1. Split(i)
    BY <1>2, NoFalseSplit
  <2>2. OpenedDescriptor(i, d, v) = [d EXCEPT !.flags = d.flags \cup {"split"}]
    BY <1>2 DEF OpenedDescriptor
  <2> QED BY <2>1, <2>2 DEF KnownAs, FileDescriptor
<1> QED BY <1>1, <1>2

LEMMA ModSmall ==
  ASSUME NEW n \in Nat, n < U32 PROVE n % U32 = n
<1>1. (U32 * 0 + n) % U32 = n
  BY U32Assumption, ModUnique
<1>2. U32 * 0 + n = n
  BY U32Assumption
<1> QED BY <1>1, <1>2

(* The reader that has opened a volume in which a part of the file lies    *)
(* stands at the beginning of that part, and knows that it is one.         *)
LEMMA SplitPlace ==
  ASSUME cab \in DOMAIN Archives, NEW i \in Files, Laid(i), Split(i),
         NEW d, "split" \in d.flags, NEW v \in Lo(i) .. Hi(i), Readable(v)
  PROVE  \E edge \in Edge :
           /\ Places(i, d, v) = {edge}
           /\ edge.offset = OffsetOf(i, v)
           /\ edge.compressed = StartOf(i, v + 1) - StartOf(i, v)
           /\ "compressed" \notin Archive.files[i].flags =>
                edge.expanded = StartOf(i, v + 1) - StartOf(i, v)
<1>1. /\ Vols[v].last \in Edge /\ Vols[v].first \in Edge
      /\ Lo(i) \in Nat /\ Hi(i) \in Nat
  BY PartsInOrder, VolumeFields DEF Readable, Openable
<1>2. CASE ClaimsLast(Archive, i, v) /\ Announces(Archive, i, v, Vols[v].last)
  BY <1>1, <1>2 DEF ClaimsLast, Announces, Places, PartSize, OffsetOf, StartOf, Vols
<1>3. CASE ~ClaimsLast(Archive, i, v) /\ Announces(Archive, i, v, Vols[v].first)
  <2>1. Places(i, d, v) = {Vols[v].first}
    BY <1>3 DEF ClaimsLast, Announces, Places, Vols
  <2> QED BY <1>1, <1>3, <2>1 DEF Announces, PartSize, OffsetOf, StartOf
<1> QED BY <1>2, <1>3, SplitSays

(* The reader finds out that a file is split where it begins, or was told. *)
LEMMA SplitFound ==
  ASSUME cab \in DOMAIN Archives, NEW i \in Files, Laid(i), Split(i),
         NEW d \in FileDescriptor, KnownAs(i, d), NEW v \in Lo(i) .. Hi(i),
         Readable(v), v # Lo(i) => "split" \in d.flags
  PROVE  "split" \in OpenedDescriptor(i, d, v).flags
<1>1. CASE "split" \in d.flags
  BY <1>1 DEF OpenedDescriptor, FileDescriptor
<1>2. CASE "split" \notin d.flags
  <2>1. v = Lo(i) /\ d.flags = Archive.files[i].flags
    BY <1>2 DEF KnownAs
  <2>2. Archive.version = 5
    BY <1>2, <2>1, SplitSays
  <2>3. /\ Lo(i) \in Nat /\ Hi(i) \in Nat /\ Lo(i) < Hi(i)
        /\ Lo(i) # Hi(i) /\ Lo(i) \in Lo(i) .. Hi(i) /\ Lo(i) + 1 \in Lo(i) .. Hi(i)
    BY PartsInOrder, SMTT(30)
  <2>4. /\ StartOf(i, Lo(i)) = 0 /\ StartOf(i, Lo(i) + 1) \in Nat
        /\ StartOf(i, Lo(i) + 1) < StartOf(i, (Lo(i) + 1) + 1)
        /\ StartOf(i, (Lo(i) + 1) + 1) <= Len(Stored(i))
        /\ StartOf(i, (Lo(i) + 1) + 1) \in Nat
    BY <2>3, PartsInOrder
  <2>5. Vols[v].last.index = i
        /\ Vols[v].last.compressed = StartOf(i, Lo(i) + 1) - StartOf(i, Lo(i))
    BY <2>1, <2>3, SplitSays DEF ClaimsLast, Announces, PartSize, StartOf, Vols
  <2>6. d.compressed = Len(Stored(i)) /\ Len(Stored(i)) \in Nat
    BY SplitSays, StoredType DEF KnownAs
  <2>7. Vols[v].last.compressed # d.compressed
    BY <2>4, <2>5, <2>6
  <2>8. i < Archive.count - 1
    <3>1. i # Archive.count - 1
      BY <2>2, LaidMeans DEF Undetected, Split
    <3> QED BY <3>1, ArchiveType DEF Files
  <2>9. FoundSplit(i, d, v)
    BY <2>2, <2>5, <2>7, <2>8 DEF FoundSplit
  <2> QED BY <2>9 DEF OpenedDescriptor, FileDescriptor
<1> QED BY <1>1, <1>2

StandsAt(r, v, pos, left) == r.src = v /\ r.volume = v /\ r.pos = pos /\ r.left = left

LEMMA OpenedAt ==
  ASSUME cab \in DOMAIN Archives, NEW i \in Files, Laid(i),
         NEW d0 \in FileDescriptor, KnownAs(i, d0), NEW v \in Lo(i) .. Hi(i),
         Readable(v), Split(i) /\ v # Lo(i) => "split" \in d0.flags,
         NEW r \in RdType, r.index = i,
         NEW d, d = OpenedDescriptor(i, d0, v)
  PROVE  /\ StandsAt(Opened(r, d, v), v, OffsetOf(i, v), StartOf(i, v + 1) - StartOf(i, v))
         /\ Split(i) => "split" \in d.flags
<1> DEFINE size == StartOf(i, v + 1) - StartOf(i, v)
           offset == OffsetOf(i, v)
<1>1. v \in DOMAIN Vols
  BY DEF Readable, Openable
<1>2. d \in FileDescriptor /\ KnownAs(i, d)
  BY <1>1, OpenedDescriptorType, OpenedKnown
<1>3. Split(i) => "split" \in d.flags
  BY SplitFound
<1>4. size \in Nat /\ size < U32
  <2>1. /\ StartOf(i, v) \in Nat /\ StartOf(i, v + 1) \in Nat
        /\ StartOf(i, v) <= StartOf(i, v + 1)
        /\ StartOf(i, v + 1) <= Len(Stored(i))
    BY PartsInOrder
  <2>2. Len(Stored(i)) < U32 /\ Len(Stored(i)) \in Nat
    BY HeadersSay, StoredType
  <2> QED BY <2>1, <2>2, U32Assumption
<1>5. \E place : /\ Places(i, d, v) = {place}
                 /\ place.offset = offset /\ StoredSize(d.flags, place) = size
  <2>1. CASE Split(i)
    <3>1. PICK edge \in Edge :
            /\ Places(i, d, v) = {edge}
            /\ edge.offset = OffsetOf(i, v)
            /\ edge.compressed = StartOf(i, v + 1) - StartOf(i, v)
            /\ "compressed" \notin Archive.files[i].flags =>
                 edge.expanded = StartOf(i, v + 1) - StartOf(i, v)
      BY <1>3, <2>1, SplitPlace
    <3>2. "compressed" \in d.flags <=> "compressed" \in Archive.files[i].flags
      BY <1>2 DEF KnownAs
    <3> QED BY <3>1, <3>2 DEF StoredSize
  <2>2. CASE ~Split(i)
    <3>1. v = Lo(i) /\ v = Hi(i) /\ Lo(i) \in Nat
      BY <2>2, PartsInOrder
    <3>2. StartOf(i, v) = 0 /\ StartOf(i, v + 1) = Len(Stored(i)) /\ Len(Stored(i)) \in Nat
      BY <3>1, PartsInOrder, StoredType
    <3>3. size = Len(Stored(i))
      BY <3>2
    <3>4. /\ d.flags = Archive.files[i].flags /\ d.offset = Archive.files[i].offset
          /\ d.expanded = Archive.files[i].expanded /\ d.compressed = Archive.files[i].compressed
      BY <1>2, <2>2 DEF KnownAs
    <3>5. "split" \notin d.flags /\ d.offset = offset
      BY <2>2, <3>1, <3>4, WholeSays
    <3>6. StoredSize(d.flags, d) = size
      <4>1. StoredSize(Archive.files[i].flags, Archive.files[i]) = Len(Stored(i))
        BY HeadersSay
      <4> QED BY <3>3, <3>4, <4>1 DEF StoredSize
    <3> HIDE DEF size, offset
    <3> QED BY <3>5, <3>6 DEF Places
  <2> QED BY <2>1, <2>2
<1> HIDE DEF size, offset
<1>6. PICK place : /\ Places(i, d, v) = {place}
                   /\ place.offset = offset /\ StoredSize(d.flags, place) = size
  BY <1>5
<1>7. BytesOfPart(d, place) = size
  BY <1>4, <1>6, ModSmall DEF BytesOfPart
<1>8. (CHOOSE p \in Places(i, d, v) : TRUE) = place
  BY <1>6
<1>9. Opened(r, d, v) = [r EXCEPT !.src = v, !.volume = v, !.pos = offset, !.left = size]
  BY <1>6, <1>7, <1>8 DEF Opened
<1>10. StandsAt(Opened(r, d, v), v, offset, size)
  BY <1>9 DEF StandsAt, RdType
<1> QED BY <1>3, <1>10 DEF size, offset
-----------------------------------------------------------------------------
(* Only a call changes anything, and none changes the archive.             *)
LEMMA SameArchive ==
  ASSUME UNCHANGED cab
  PROVE  /\ Files' = Files /\ Archive' = Archive /\ Vols' = Vols
         /\ \A i : /\ (Laid(i)' <=> Laid(i)) /\ (Intact(i)' <=> Intact(i))
                   /\ Plain(i)' = Plain(i) /\ Stored(i)' = Stored(i)
                   /\ Lo(i)' = Lo(i) /\ Hi(i)' = Hi(i)
                   /\ Split(i)' <=> Split(i)
         /\ \A i, v : StartOf(i, v)' = StartOf(i, v) /\ OffsetOf(i, v)' = OffsetOf(i, v)
         /\ \A i, d : KnownAs(i, d)' <=> KnownAs(i, d)
  BY DEF Files, Archive, Vols, Laid, Intact, Plain, Stored, Lo, Hi, Split, StartOf, OffsetOf,
         KnownAs, FirstVolume

LEMMA CacheSame ==
  ASSUME CacheSound, UNCHANGED <<cab, fds>> PROVE CacheSound'
  BY SameArchive DEF CacheSound

LEMMA CacheKeeps ==
  ASSUME IInv, CacheSound, UNCHANGED cab, NEW i \in Files, NEW e \in FileDescriptor,
         fds' = [fds EXCEPT ![i] = e], Laid(i) => KnownAs(i, e)
  PROVE  CacheSound'
<1>1. ASSUME NEW j \in Files, Laid(j), fds'[j] # NotRead
      PROVE  KnownAs(j, fds'[j])
  <2>1. fds \in [Files -> FileDescriptor \cup {NotRead}]
    BY DEF IInv, TypeOK
  <2>2. CASE j = i
    BY <1>1, <2>1, <2>2
  <2>3. CASE j # i
    BY <1>1, <2>1, <2>3 DEF CacheSound
  <2> QED BY <2>2, <2>3
<1> QED BY <1>1, SameArchive DEF CacheSound

(* Without a reader, or before the reader is ready.                        *)
LEMMA QuietFlow ==
  ASSUME CacheSound', io'.status \in {"none", "opening"},
         io'.status = "opening" => got' = <<>>, rd'.src # ExternalSource
  PROVE  Flow'
<1>1. ExternalSource' = ExternalSource
  BY DEF ExternalSource
<1> QED BY <1>1
    DEF Flow, WithinFile, InStep, Delivered, NothingYet, SomeLeft, OnePart,
        FailsOnlyBetweenParts

LEMMA GetFileDescriptorFlow ==
  ASSUME StreamInv, io.status = "none", NEW i \in Files, GetFileDescriptor(i)
  PROVE  Flow'
<1>1. cab \in DOMAIN Archives /\ CacheSound /\ UNCHANGED <<cab, rd, io, got>>
  BY DEF StreamInv, Flow, IInv, TypeOK, GetFileDescriptor
<1>2. Descriptor(i) \in FileDescriptor
  BY ReadFileDescriptorType DEF Descriptor, StreamInv, IInv, TypeOK
<1>3. ASSUME Laid(i) PROVE KnownAs(i, Descriptor(i))
  <2>1. CASE fds[i] # NotRead
    BY <1>1, <1>3, <2>1 DEF Descriptor, CacheSound
  <2>2. CASE fds[i] = NotRead
    <3>1. Archive.files[i] \in FileDescriptor /\ FirstVolume(i) \in FirstVolume(i) .. Lo(i)
      BY <1>1, <1>3, LaidMeans, HeadersSay, PartsInOrder
    <3>2. Descriptor(i) = ReadFileDescriptor(i)
      BY <2>2 DEF Descriptor
    <3> QED BY <3>1, <3>2 DEF ReadFileDescriptor, KnownAs, FileDescriptor, FirstVolume,
                          SearchedFrom
  <2> QED BY <2>1, <2>2
<1>4. CacheSound'
  BY <1>1, <1>2, <1>3, CacheKeeps DEF StreamInv, GetFileDescriptor
<1>5. rd.src # ExternalSource
  BY <1>1, ExternalIsNoVolume DEF StreamInv, IInv, SourceCounted
<1> QED BY <1>1, <1>4, <1>5, QuietFlow

LEMMA CreateBeginFlow ==
  ASSUME StreamInv, NEW i \in Files, CreateBegin(i) PROVE Flow'
<1>1. UNCHANGED <<cab, fds>> /\ io'.status = "opening" /\ got' = <<>> /\ rd'.src = 0
  BY DEF CreateBegin, NoCall, NoReader
<1>2. CacheSound'
  BY <1>1, CacheSame DEF StreamInv, Flow
<1> QED BY <1>1, <1>2, QuietFlow, ExternalIsNoVolume DEF StreamInv, IInv, TypeOK

LEMMA EndFlow ==
  ASSUME StreamInv, CreateFail \/ Destroy PROVE Flow'
<1>1. UNCHANGED <<cab, fds>> /\ io'.status = "none" /\ rd'.src = 0
  BY DEF CreateFail, Destroy, NoCall, NoReader
<1>2. CacheSound'
  BY <1>1, CacheSame DEF StreamInv, Flow
<1> QED BY <1>1, <1>2, QuietFlow, ExternalIsNoVolume DEF StreamInv, IInv, TypeOK

LEMMA CreateExternalFlow ==
  ASSUME StreamInv, NEW i \in Files, CreateExternal(i) PROVE Flow'
<1>1. /\ UNCHANGED <<cab, fds>> /\ io' = NoCall("idle") /\ got' = <<>>
      /\ i \in DOMAIN Archive.external /\ cab \in DOMAIN Archives
      /\ fds[i] # NotRead /\ CacheSound
  BY DEF CreateExternal, StreamInv, Flow, IInv, TypeOK
<1>2. rd'.index = i /\ rd'.pos = 0
  BY DEF CreateExternal, NoReader
<1>3. io'.status = "idle"
  BY <1>1 DEF NoCall
<1>4. ~WithinFile'
  <2>1. ~Laid(i)
    BY <1>1, LaidMeans
  <2>2. ~Laid(rd.index)'
    BY <1>1, <1>2, <2>1 DEF Laid
  <2> QED BY <2>2 DEF WithinFile
<1>5. CacheSound'
  BY <1>1, CacheSame
<1>6. OnePart'
  <2>1. Len(ExternalBytes(i)) \in Nat
    BY <1>1, ExternalType DEF StreamInv, IInv, TypeOK
  <2>2. ExternalBytes(i)' = ExternalBytes(i)
    BY <1>1, SameArchive DEF ExternalBytes, Supplement, Missing
  <2>3. ExternalBytes(rd.index)' = ExternalBytes(i)
    BY <1>2, <2>2
  <2> QED BY <1>1, <1>2, <1>3, <2>1, <2>3 DEF OnePart
<1> QED BY <1>1, <1>3, <1>4, <1>5, <1>6
    DEF Flow, InStep, Delivered, NothingYet, SomeLeft, FailsOnlyBetweenParts

LEMMA NextVolumeIs ==
  ASSUME cab \in DOMAIN Archives, NEW v \in DOMAIN Vols PROVE NextVolume(v) = v + 1
<1>1. v \in 1 .. U16 - 2
  BY ArchiveType
<1> DEFINE w == v + 1
<1>2. w \in 0 .. U16 - 1 /\ U16 \in Nat \ {0}
  BY <1>1, U16Assumption
<1> HIDE DEF w
<1>3. (U16 * 0 + w) % U16 = w
  BY <1>2, ModUnique
<1>4. U16 * 0 + w = w
  BY <1>2
<1> QED BY <1>3, <1>4 DEF NextVolume, w

(* The search for the first volume stops where the file begins.            *)
LEMMA SearchStops ==
  ASSUME cab \in DOMAIN Archives, NEW i \in Files, Laid(i), NEW v \in FirstVolume(i) .. Lo(i),
         Readable(v)
  PROVE  StartsLater(i, v) <=> v # Lo(i)
<1>1. /\ FirstVolume(i) \in Nat /\ Lo(i) \in Nat /\ i \in Nat /\ Archive.version \in Nat
      /\ Archive.version > 5 => FirstVolume(i) = Lo(i)
  BY PartsInOrder, HeadersSay, FilesAreNat, ArchiveType
<1>2. CASE v = Lo(i)
  <2>1. i <= AsInt(Vols[v].last.index) /\ AsInt(Vols[v].last.index) \in Int
    BY <1>2, HeadersSay, VolumeFields, AsIntType DEF Edge, Readable, Openable
  <2> QED BY <1>1, <1>2, <2>1 DEF StartsLater
<1>3. CASE v # Lo(i)
  <2>1. v \in FirstVolume(i) .. Lo(i) - 1 /\ Archive.version <= 5
    BY <1>1, <1>3
  <2> QED BY <1>3, <2>1, HeadersSay DEF StartsLater
<1> QED BY <1>2, <1>3

(* A reader that has just been put at the beginning of a part.             *)
LEMMA AtNewPart ==
  ASSUME cab \in DOMAIN Archives, NEW i \in Files, Laid(i), NEW v \in Lo(i) .. Hi(i),
         StandsAt(rd', v, OffsetOf(i, v), StartOf(i, v + 1) - StartOf(i, v)),
         Raw' = StartOf(i, v), UNCHANGED cab, Split(i) => "split" \in fds'[i].flags,
         v # Lo(i) \/ io'.status # "reading"
  PROVE  AtPart(i)'
<1>1. /\ v \in Nat /\ StartOf(i, v) \in Nat /\ OffsetOf(i, v) \in Nat
      /\ StartOf(i, v + 1) \in Nat /\ Lo(i) \in Nat /\ Hi(i) \in Nat
      /\ Split(i) => StartOf(i, v) < StartOf(i, v + 1)
      /\ Split(i) <=> Lo(i) < Hi(i)
  BY PartsInOrder
<1>2. /\ rd'.src = v /\ rd'.volume = v /\ rd'.pos = OffsetOf(i, v)
      /\ rd'.left = StartOf(i, v + 1) - StartOf(i, v)
  BY DEF StandsAt
<1>3. v # Lo(i) => Split(i)
  BY <1>1
<1>4. io'.status = "reading" => rd'.left # 0
  BY <1>1, <1>2, <1>3
<1>5. /\ Lo(i)' = Lo(i) /\ Hi(i)' = Hi(i) /\ (Split(i)' <=> Split(i))
      /\ StartOf(i, rd.src)' = StartOf(i, v) /\ StartOf(i, rd.src + 1)' = StartOf(i, v + 1)
      /\ OffsetOf(i, rd.src)' = OffsetOf(i, v)
  BY <1>2 DEF Lo, Hi, Split, StartOf, OffsetOf, Archive
<1> QED BY <1>1, <1>2, <1>4, <1>5 DEF AtPart

LEMMA CreateOpenFlow ==
  ASSUME StreamInv, CreateOpen PROVE Flow'
<1>a. PICK i \in Files : i = rd.index
  BY DEF StreamInv, CreateOpen, IInv, TypeOK
<1>b. PICK d0, v, d, moved :
        /\ d0 = fds[i] /\ v = d0.volume /\ d = OpenedDescriptor(i, d0, v)
        /\ moved = [d EXCEPT !.volume = NextVolume(v)]
  OBVIOUS
<1>1. /\ cab \in DOMAIN Archives /\ d0 \in FileDescriptor
      /\ rd \in RdType /\ CacheSound /\ d0 # NotRead
      /\ fds \in [Files -> FileDescriptor \cup {NotRead}]
  BY <1>a, <1>b DEF StreamInv, Flow, CreateOpen, IInv, TypeOK, RdType
<1>2. v \in DOMAIN Vols /\ Readable(v) /\ v \in Nat \ {0} /\ v # ExternalSource
  <2>1. v \in DOMAIN Vols /\ Readable(v)
    BY <1>a, <1>b DEF CreateOpen, Readable, Openable
  <2> QED BY <1>1, <2>1, VolumeFields, ExternalIsNoVolume
<1>3. d \in FileDescriptor /\ d.volume = v
  BY <1>1, <1>b, OpenedDescriptorType, OpenedKeepsObfuscated
<1>4. rd' = Opened(rd, d, v) /\ UNCHANGED <<cab, got>> /\ got = <<>> /\ io.status = "opening"
  BY <1>a, <1>b DEF CreateOpen, StreamInv, Flow, NothingYet
<1>5. \/ StartsLater(i, v) /\ fds' = [fds EXCEPT ![i] = moved] /\ io' = io
      \/ ~StartsLater(i, v) /\ fds' = [fds EXCEPT ![i] = d] /\ io' = NoCall("idle")
  BY <1>a, <1>b DEF CreateOpen
<1>6. Laid(i) => KnownAs(i, d) /\ v \in FirstVolume(i) .. Lo(i) /\ KnownAs(i, d0)
  <2>1. Laid(i) => KnownAs(i, d0)
    BY <1>1, <1>b DEF CacheSound
  <2>2. Laid(i) => KnownAs(i, d)
    BY <1>1, <1>2, <1>b, <2>1, OpenedKnown
  <2> QED BY <1>b, <2>1, <2>2 DEF KnownAs
<1>7. rd'.src = v /\ rd'.index = i
  BY <1>1, <1>2, <1>3, <1>4, <1>a, OpenedType
<1>8. CASE StartsLater(i, v)
  <2>1. fds' = [fds EXCEPT ![i] = moved] /\ io' = io
    BY <1>5, <1>8
  <2>2. moved \in FileDescriptor /\ NextVolume(v) = v + 1
    <3>1. NextVolume(v) \in 0 .. U16 - 1 /\ NextVolume(v) = v + 1
      BY <1>1, <1>2, NextVolumeType, NextVolumeIs
    <3> QED BY <1>3, <1>b, <3>1 DEF FileDescriptor
  <2>3. ASSUME Laid(i) PROVE KnownAs(i, moved)
    <3>1. v # Lo(i) /\ v \in FirstVolume(i) .. Lo(i)
      BY <1>1, <1>2, <1>6, <1>8, <2>3, SearchStops
    <3>2. v + 1 \in FirstVolume(i) .. Lo(i)
      BY <1>1, <1>2, <2>3, <3>1, PartsInOrder, HeadersSay
    <3> QED BY <1>3, <1>6, <1>b, <2>2, <2>3, <3>2 DEF KnownAs, FileDescriptor
  <2>4. CacheSound'
    BY <1>1, <1>4, <2>1, <2>2, <2>3, CacheKeeps DEF StreamInv
  <2> QED BY <1>2, <1>4, <1>7, <2>1, <2>4, QuietFlow
<1>9. CASE ~StartsLater(i, v)
  <2>1. fds' = [fds EXCEPT ![i] = d] /\ io' = NoCall("idle") /\ io'.status = "idle"
    BY <1>5, <1>9 DEF NoCall
  <2>2. CacheSound'
    BY <1>1, <1>3, <1>4, <1>6, <2>1, CacheKeeps DEF StreamInv
  <2>3. InStep'
    <3> SUFFICES ASSUME WithinFile' PROVE AtPart(rd.index)'
      BY <2>1 DEF InStep
    <3>1. Laid(i)
      <4>1. Laid(rd.index)'
        BY DEF WithinFile
      <4> QED BY <1>4, <1>7, <4>1 DEF Laid
    <3>2. v = Lo(i)
      BY <1>1, <1>2, <1>6, <1>9, <3>1, SearchStops
    <3>3. v \in Lo(i) .. Hi(i) /\ StartOf(i, v) = 0
      BY <1>1, <3>1, <3>2, PartsInOrder
    <3>4. /\ StandsAt(rd', v, OffsetOf(i, v), StartOf(i, v + 1) - StartOf(i, v))
          /\ Split(i) => "split" \in d.flags
      <4>1. KnownAs(i, d0) /\ d0 \in FileDescriptor /\ d = OpenedDescriptor(i, d0, v)
        BY <1>1, <1>6, <1>b, <3>1
      <4>2. rd \in RdType /\ rd.index = i
        BY <1>1, <1>a
      <4> QED BY <1>1, <1>2, <1>4, <3>1, <3>2, <3>3, <4>1, <4>2, OpenedAt
    <3>5. Raw' = StartOf(i, v)
      BY <1>4, <2>1, <3>3 DEF Raw
    <3>6. fds'[i] = d
      BY <1>1, <2>1
    <3>7. AtPart(i)'
      BY <1>1, <1>4, <2>1, <3>1, <3>3, <3>4, <3>5, <3>6, AtNewPart
    <3> QED BY <1>7, <3>7 DEF AtPart
  <2>4. Delivered' /\ NothingYet' /\ SomeLeft' /\ FailsOnlyBetweenParts'
    BY <1>4, <2>1 DEF Delivered, NothingYet, SomeLeft, FailsOnlyBetweenParts
  <2>5. OnePart'
    BY <1>2, <1>7 DEF OnePart, ExternalSource
  <2> QED BY <2>2, <2>3, <2>4, <2>5 DEF Flow
<1> QED BY <1>8, <1>9
-----------------------------------------------------------------------------
(* Reads.                                                                  *)
LEMMA InvTypes ==
  ASSUME StreamInv
  PROVE  /\ IInv /\ SeedFollowsStream /\ cab \in DOMAIN Archives
         /\ rd \in RdType /\ io \in IoType /\ got \in Seq(Byte) /\ Len(got) \in Nat
         /\ io.buf \in Seq(Byte) /\ Len(io.buf) \in Nat
         /\ io.size \in Nat /\ io.left \in Nat /\ rd.left \in Nat /\ rd.pos \in Nat
         /\ fds \in [Files -> FileDescriptor \cup {NotRead}]
         /\ CacheSound /\ InStep /\ Delivered /\ NothingYet /\ SomeLeft /\ OnePart
         /\ FailsOnlyBetweenParts
         /\ io.status # "none" => rd.index \in Files /\ fds[rd.index] # NotRead
         /\ io.status = "reading" => Len(io.buf) + io.left = io.size
<1>1. /\ IInv /\ SeedFollowsStream /\ cab \in DOMAIN Archives
      /\ rd \in RdType /\ io \in IoType /\ got \in Seq(Byte) /\ io.buf \in Seq(Byte)
      /\ io.size \in Nat /\ io.left \in Nat /\ rd.left \in 0 .. U32 - 1 /\ rd.pos \in Nat
      /\ fds \in [Files -> FileDescriptor \cup {NotRead}]
      /\ io.status # "none" => rd.index \in Files /\ fds[rd.index] # NotRead
      /\ io.status = "reading" => Len(io.buf) + io.left = io.size
  BY DEF StreamInv, IInv, TypeOK, BufferFills, RdType, IoType
<1>2. Len(got) \in Nat /\ Len(io.buf) \in Nat
  BY <1>1, LenProperties
<1>3. rd.left \in Nat
  BY <1>1, U32Assumption
<1> QED BY <1>1, <1>2, <1>3 DEF StreamInv, Flow

(* What fread delivers are the next bytes of the file, and the part of an  *)
(* intact file has all the bytes that the reader believes to be left.      *)
LEMMA PartReads ==
  ASSUME StreamInv, io.status = "reading", NEW i \in Files, Laid(i), AtPart(i)
  PROVE  /\ Intact(i) => Enough
         /\ Enough => \A k \in 1 .. BytesToRead : Fread[k] = Stored(i)[Raw + k]
<1> DEFINE v == rd.src
           part == StartOf(i, v + 1) - StartOf(i, v)
           done == Raw - StartOf(i, v)
           bytes == Vols[v].bytes
           n == BytesToRead
<1>1. /\ v \in Lo(i) .. Hi(i) /\ StartOf(i, v) <= Raw
      /\ rd.pos = OffsetOf(i, v) + done /\ rd.left = StartOf(i, v + 1) - Raw
  BY DEF AtPart
<1>2. Raw = Len(got) + Len(io.buf) /\ Raw \in Nat
  BY InvTypes DEF Raw
<1>3. /\ v \in DOMAIN Vols /\ StartOf(i, v) \in Nat /\ StartOf(i, v + 1) \in Nat
      /\ OffsetOf(i, v) \in Nat
  <2>1. v \in Nat \ {0} /\ v # ExternalSource
    BY <1>1, InvTypes, PartsInOrder
  <2>2. v \in DOMAIN Vols
    BY <2>1, InvTypes DEF IInv, TypeOK
  <2> QED BY <1>1, <2>2, InvTypes, PartsInOrder
<1>4. \A k \in 1 .. part :
        OffsetOf(i, v) + k <= Len(bytes) =>
          bytes[OffsetOf(i, v) + k] = Stored(i)[StartOf(i, v) + k]
  BY <1>1, <1>3, InvTypes, PartInVolume
<1>5. SourceBytes = bytes /\ v # 0
  BY <1>3, InvTypes, ExternalIsNoVolume, VolumeFields DEF SourceBytes
<1>6. n \in Nat /\ n <= rd.left
  BY InvTypes, FreadType
<1>7. bytes \in Seq(Byte) /\ Len(bytes) \in Nat
  BY <1>3, InvTypes, VolumeFields
<1>8. done \in Nat /\ part \in Nat /\ done + n <= part
  <2> DEFINE a == StartOf(i, v)
             b == StartOf(i, v + 1)
  <2>1. /\ a \in Nat /\ b \in Nat /\ a <= Raw /\ Raw \in Nat
        /\ n \in Nat /\ n <= b - Raw
    BY <1>1, <1>2, <1>3, <1>6
  <2> HIDE DEF a, b, n
  <2>2. Raw - a \in Nat /\ b - a \in Nat /\ (Raw - a) + n <= b - a
    BY <2>1
  <2> QED BY <2>2 DEF a, b
<1> DEFINE offset == OffsetOf(i, v)
           start == StartOf(i, v)
<1>9. ASSUME Intact(i) PROVE rd.pos + n <= Len(bytes)
  <2>1. PICK o, d, m, q, l, p :
          o = offset /\ d = done /\ m = n /\ q = part /\ l = Len(bytes) /\ p = rd.pos
    OBVIOUS
  <2>2. p = o + d /\ o + q <= l
    <3>1. OffsetOf(i, v) + part <= Len(bytes)
      BY <1>1, <1>9, InvTypes, PartComplete
    <3> QED BY <1>1, <2>1, <3>1
  <2>3. o \in Nat /\ l \in Nat /\ d \in Nat /\ q \in Nat /\ m \in Nat /\ d + m <= q
    BY <1>3, <1>6, <1>7, <1>8, <2>1
  <2>4. p + m <= l
    BY <2>2, <2>3
  <2> QED BY <2>1, <2>4
<1>10. Intact(i) => Enough
  BY <1>5, <1>9 DEF Enough
<1>11. ASSUME Enough, NEW k \in 1 .. n PROVE Fread[k] = Stored(i)[Raw + k]
  <2>1. Fread = SubSeq(bytes, rd.pos + 1, rd.pos + n)
    BY <1>5 DEF Fread
  <2>2. Fread[k] = bytes[rd.pos + k]
    <3> DEFINE p == rd.pos
    <3>1. p \in Nat /\ p + n <= Len(bytes) /\ k \in 1 .. n
      BY <1>5, <1>11, InvTypes DEF Enough
    <3> HIDE DEF p, bytes, n
    <3>2. SubSeq(bytes, p + 1, p + n)[k] = bytes[p + k]
      BY <1>6, <1>7, <3>1, SubSeqProperties
    <3> QED BY <2>1, <3>2 DEF p, bytes, n
  <2>3. rd.pos + k = offset + (done + k) /\ done + k \in 1 .. part
    <3> HIDE DEF done, part, offset, n
    <3>1. rd.pos = offset + done
      BY <1>1 DEF offset
    <3>2. offset \in Nat
      BY <1>3 DEF offset
    <3> QED BY <1>6, <1>8, <3>1, <3>2
  <2>4. bytes[offset + (done + k)] = Stored(i)[start + (done + k)]
    <3>1. rd.pos + k <= Len(bytes)
      <4> DEFINE p == rd.pos
                 l == Len(bytes)
      <4>1. p + n <= l /\ p \in Nat /\ l \in Nat
        BY <1>5, <1>7, <1>11, InvTypes DEF Enough
      <4> HIDE DEF p, l, n
      <4>2. p + k <= l
        BY <1>6, <4>1
      <4> QED BY <4>2 DEF p, l
    <3> HIDE DEF done, part, bytes
    <3> QED BY <1>4, <2>3, <3>1
  <2>5. start + (done + k) = Raw + k
    BY <1>2, <1>3, <1>6
  <2> QED BY <2>2, <2>3, <2>4, <2>5
<1> QED BY <1>10, <1>11

LEMMA ReadBeginFlow ==
  ASSUME StreamInv, NEW n \in Nat, ReadBegin(n) PROVE Flow'
<1>1. /\ n \in Nat /\ io.status = "idle"
      /\ io' = [status |-> "reading", size |-> n, left |-> n, buf |-> <<>>]
      /\ UNCHANGED <<cab, fds, rd, got>>
  BY DEF ReadBegin
<1>2. io'.status = "reading" /\ io'.size = n /\ io'.left = n /\ io'.buf = <<>>
  BY <1>1
<1>3. Raw = Len(got) /\ Raw' = Len(got)
  BY <1>1, <1>2, InvTypes DEF Raw
<1>4. WithinFile' => WithinFile
  <2>1. Asked = Len(got) /\ Asked' = Len(got) + n
    BY <1>1, <1>2, InvTypes DEF Asked
  <2>2. Laid(rd.index)' => Laid(rd.index)
    BY <1>1 DEF Laid
  <2>3. Plain(rd.index)' = Plain(rd.index)
    BY <1>1 DEF Plain
  <2>4. ASSUME Laid(rd.index) PROVE Len(Plain(rd.index)) \in Nat
    <3>1. rd.index \in Files /\ cab \in DOMAIN Archives
      BY <1>1, InvTypes
    <3> QED BY <3>1, PlainMeans, StoredType
  <2> QED BY <1>1, <2>1, <2>2, <2>3, <2>4, InvTypes DEF WithinFile
<1>5. InStep'
  <2> SUFFICES ASSUME WithinFile' PROVE AtPart(rd.index)' \/ AtEnd(rd.index)'
    BY <1>2 DEF InStep
  <2>1. AtPart(rd.index) \/ AtEnd(rd.index)
    BY <1>1, <1>4, InvTypes DEF InStep
  <2>2. AtPart(rd.index) => AtPart(rd.index)'
    BY <1>1, <1>2, <1>3 DEF AtPart, StartOf, OffsetOf, Lo, Hi, Split, Archive
  <2>3. AtEnd(rd.index) => AtEnd(rd.index)'
    BY <1>1, <1>2, <1>3 DEF AtEnd, Stored, Hi, Archive
  <2> QED BY <2>1, <2>2, <2>3
<1>6. Delivered'
  BY <1>1, <1>4, InvTypes DEF Delivered, Plain
<1>7. OnePart'
  BY <1>1, <1>2, InvTypes
     DEF OnePart, ExternalBytes, Supplement, Missing, IsObfuscated, Archive, ExternalSource
<1>8. CacheSound'
  BY <1>1, InvTypes, CacheSame
<1> QED BY <1>1, <1>2, <1>5, <1>6, <1>7, <1>8
    DEF Flow, NothingYet, SomeLeft, FailsOnlyBetweenParts

(* A reader behind the last part has nothing to do within the file.        *)
LEMMA EndReadsNothing ==
  ASSUME StreamInv, io.status = "reading", WithinFile, AtEnd(rd.index)
  PROVE  io.size = 0 /\ io.left = 0
<1>1. Raw = Len(Stored(rd.index)) /\ io.buf = <<>>
  BY DEF AtEnd
<1>2. Raw = Len(got) /\ Len(got) \in Nat /\ io.size \in Nat /\ io.left \in Nat
  BY <1>1, InvTypes DEF Raw
<1>3. Len(Plain(rd.index)) = Len(Stored(rd.index))
  <2>1. rd.index \in Files /\ cab \in DOMAIN Archives
    BY InvTypes
  <2> QED BY <2>1, PlainMeans
<1>4. Len(got) + io.size <= Len(Plain(rd.index))
  BY DEF WithinFile, Asked
<1>5. io.size = 0
  <2> DEFINE n == Len(got)
             m == Len(Plain(rd.index))
  <2>1. n = m /\ n + io.size <= m
    BY <1>1, <1>2, <1>3, <1>4
  <2>2. n \in Nat /\ io.size \in Nat
    BY <1>2
  <2> HIDE DEF n, m
  <2> QED BY <2>1, <2>2
<1>6. Len(io.buf) + io.left = io.size /\ Len(io.buf) \in Nat
  BY InvTypes
<1> QED BY <1>2, <1>5, <1>6

LEMMA ReadFailFlow ==
  ASSUME StreamInv, ReadFail PROVE Flow'
<1>1. /\ io.status = "reading" /\ (BytesToRead = 0 \/ ~Enough)
      /\ io' = [io EXCEPT !.status = "failed"] /\ UNCHANGED <<cab, fds, rd, got>>
  BY DEF ReadFail
<1>2. io'.status = "failed" /\ io'.size = io.size /\ io'.left = io.left /\ io'.buf = io.buf
  BY <1>1, InvTypes DEF IoType
<1>3. WithinFile' => WithinFile
  BY <1>1, <1>2 DEF WithinFile, Asked, Laid, Plain
<1>4. ASSUME WithinFile', Intact(rd.index), io'.size > 0
      PROVE  /\ io.size = io.left
             /\ \E v \in DOMAIN Archive.layout[rd.index].offset :
                  Len(got) = Archive.layout[rd.index].start[v + 1]
  <2>1. PICK i \in Files : i = rd.index
    BY <1>1, InvTypes
  <2>2. WithinFile /\ Laid(i) /\ (AtPart(i) \/ AtEnd(i))
    BY <1>1, <1>3, <1>4, <2>1, InvTypes DEF InStep, WithinFile
  <2>3. AtPart(i)
    BY <1>1, <1>2, <1>4, <2>1, <2>2, EndReadsNothing
  <2>4. BytesToRead = 0
    BY <1>1, <1>4, <2>1, <2>2, <2>3, PartReads
  <2>5. rd.left = 0 /\ io.buf = <<>>
    <3>1. io.left # 0
      BY <1>1, <1>2, <1>4, InvTypes DEF SomeLeft
    <3> QED BY <1>1, <2>3, <2>4, <3>1 DEF BytesToRead, AtPart
  <2>6. io.size = io.left /\ Raw = Len(got)
    BY <1>1, <2>5, InvTypes DEF Raw
  <2>7. /\ rd.src \in Lo(i) .. Hi(i) /\ rd.left = StartOf(i, rd.src + 1) - Raw
    BY <2>3 DEF AtPart
  <2>8. StartOf(i, rd.src + 1) \in Nat /\ Len(got) \in Nat
    BY <2>2, <2>7, InvTypes, PartsInOrder
  <2>9. Len(got) = StartOf(i, rd.src + 1)
    BY <2>5, <2>6, <2>7, <2>8
  <2>10. DOMAIN Archive.layout[i].offset = Lo(i) .. Hi(i)
    BY <2>2, InvTypes, LaidMeans DEF LayoutOK, Lo, Hi
  <2> QED BY <2>1, <2>6, <2>7, <2>9, <2>10 DEF StartOf
<1>5. FailsOnlyBetweenParts'
  BY <1>1, <1>2, <1>4 DEF FailsOnlyBetweenParts, Intact, Archive
<1>6. InStep' /\ NothingYet' /\ SomeLeft'
  BY <1>2 DEF InStep, NothingYet, SomeLeft
<1>7. Delivered'
  BY <1>1, <1>3, InvTypes DEF Delivered, Plain
<1>8. OnePart'
  BY <1>1, <1>2, InvTypes
     DEF OnePart, ExternalBytes, Supplement, Missing, IsObfuscated, Archive, ExternalSource
<1>9. CacheSound'
  BY <1>1, InvTypes, CacheSame
<1> QED BY <1>5, <1>6, <1>7, <1>8, <1>9 DEF Flow

(* The bytes that a complete buffer adds to the stream.                    *)
LEMMA ClearAt ==
  ASSUME StreamInv, io.status = "reading", NEW b \in Seq(Byte), NEW k \in 1 .. Len(b)
  PROVE  Clear(b)[k] = IF IsObfuscated THEN DeobfuscateByte(b[k], (Len(got) + k - 1) % U32)
                       ELSE b[k]
<1>1. CASE ~IsObfuscated
  BY <1>1 DEF Clear
<1>2. CASE IsObfuscated
  <2>1. rd.obf = Len(got) % U32 /\ rd.obf \in Nat
    BY <1>2, InvTypes, U32Assumption DEF SeedFollowsStream, IsObfuscated, RdType
  <2>2. Clear(b)[k] = DeobfuscateByte(b[k], (rd.obf + (k - 1)) % U32)
    BY <1>2, <2>1, DeobfuscateType DEF Clear
  <2> DEFINE n == Len(got)
             m == k - 1
  <2>3. n \in Nat /\ m \in Int
    BY InvTypes, LenProperties
  <2>4. n + m = n + k - 1
    BY <2>3, LenProperties
  <2> HIDE DEF n, m
  <2>5. ((n % U32) + m) % U32 = (n + m) % U32
    BY <2>3, U32Assumption, ModAdd
  <2> QED BY <1>2, <2>1, <2>2, <2>4, <2>5 DEF n, m
<1> QED BY <1>1, <1>2

LEMMA ConcatAt ==
  ASSUME NEW s \in Seq(Byte), NEW t \in Seq(Byte)
  PROVE  /\ s \o t \in Seq(Byte) /\ Len(s \o t) = Len(s) + Len(t)
         /\ \A k \in 1 .. Len(s) : (s \o t)[k] = s[k]
         /\ \A k \in 1 .. Len(t) : (s \o t)[Len(s) + k] = t[k]
<1>1. Len(s) \in Nat /\ Len(t) \in Nat
  BY LenProperties
<1>2. /\ s \o t \in Seq(Byte) /\ Len(s \o t) = Len(s) + Len(t)
      /\ \A k \in 1 .. Len(s) + Len(t) :
           (s \o t)[k] = IF k <= Len(s) THEN s[k] ELSE t[k - Len(s)]
  BY ConcatProperties
<1>3. \A k \in 1 .. Len(s) : k \in 1 .. Len(s) + Len(t) /\ k <= Len(s)
  BY <1>1
<1>4. \A k \in 1 .. Len(t) : /\ Len(s) + k \in 1 .. Len(s) + Len(t)
                             /\ ~(Len(s) + k <= Len(s)) /\ (Len(s) + k) - Len(s) = k
  BY <1>1
<1> QED BY <1>2, <1>3, <1>4

LEMMA DoneParts ==
  ASSUME StreamInv, ReadDone, NEW full, full = io.buf \o Fread
  PROVE  /\ io.status = "reading" /\ io'.status = "idle" /\ UNCHANGED <<cab, fds>>
         /\ rd'.src = rd.src /\ rd'.volume = rd.volume /\ rd'.index = rd.index
         /\ rd'.pos = rd.pos + io.left /\ rd'.left = rd.left - io.left
         /\ BytesToRead = io.left /\ io.left # 0 /\ io.left <= rd.left /\ Enough
         /\ full \in Seq(Byte) /\ Len(full) = io.size
         /\ \A k \in 1 .. Len(io.buf) : full[k] = io.buf[k]
         /\ \A k \in 1 .. io.left : full[Len(io.buf) + k] = Fread[k]
         /\ Len(got') = Len(got) + io.size
         /\ \A k \in 1 .. Len(got) : got'[k] = got[k]
         /\ \A k \in 1 .. io.size : got'[Len(got) + k] = Clear(full)[k]
<1>1. /\ io.status = "reading" /\ UNCHANGED <<cab, fds>>
      /\ BytesToRead = io.left /\ io.left # 0 /\ Enough
      /\ rd' = [rd EXCEPT !.pos = @ + BytesToRead, !.left = @ - BytesToRead, !.obf = SeedAfter]
      /\ io' = [status |-> "idle", size |-> io.size, left |-> 0, buf |-> Clear(full)]
      /\ got' = got \o io'.buf
  BY DEF ReadDone
<1>2. Fread \in Seq(Byte) /\ Len(Fread) = io.left /\ io.left <= rd.left
  BY <1>1, InvTypes, FreadType
<1>3. /\ rd'.src = rd.src /\ rd'.volume = rd.volume /\ rd'.index = rd.index
      /\ rd'.pos = rd.pos + io.left /\ rd'.left = rd.left - io.left
  BY <1>1, InvTypes DEF RdType
<1>4. /\ full \in Seq(Byte) /\ Len(full) = Len(io.buf) + io.left
      /\ \A k \in 1 .. Len(io.buf) : full[k] = io.buf[k]
      /\ \A k \in 1 .. io.left : full[Len(io.buf) + k] = Fread[k]
  <2>1. PICK s, t : s = io.buf /\ t = Fread
    OBVIOUS
  <2>2. s \in Seq(Byte) /\ t \in Seq(Byte) /\ full = s \o t
    BY <1>2, <2>1, InvTypes
  <2> QED BY <1>2, <2>1, <2>2, ConcatAt
<1>5. Len(full) = io.size
  BY <1>1, <1>4, InvTypes
<1>6. Clear(full) \in Seq(Byte) /\ Len(Clear(full)) = io.size
  BY <1>4, <1>5, InvTypes, ClearType
<1>7. /\ Len(got') = Len(got) + io.size
      /\ \A k \in 1 .. Len(got) : got'[k] = got[k]
      /\ \A k \in 1 .. io.size : got'[Len(got) + k] = Clear(full)[k]
  <2>1. PICK s, t : s = got /\ t = Clear(full)
    OBVIOUS
  <2>2. s \in Seq(Byte) /\ t \in Seq(Byte) /\ got' = s \o t
    BY <1>1, <1>6, <2>1, InvTypes
  <2> QED BY <1>6, <2>1, <2>2, ConcatAt
<1>8. io'.status = "idle"
  BY <1>1
<1> QED BY <1>1, <1>2, <1>3, <1>4, <1>5, <1>7, <1>8

LEMMA ReadDoneFlow ==
  ASSUME StreamInv, ReadDone PROVE Flow'
<1>a. PICK i \in Files : i = rd.index
  BY InvTypes DEF ReadDone
<1>1. PICK full : i = rd.index /\ full = io.buf \o Fread
  BY <1>a
<1>2. /\ io.status = "reading" /\ io'.status = "idle" /\ UNCHANGED <<cab, fds>>
      /\ rd'.src = rd.src /\ rd'.volume = rd.volume /\ rd'.index = i
      /\ rd'.pos = rd.pos + io.left /\ rd'.left = rd.left - io.left
      /\ BytesToRead = io.left /\ io.left # 0 /\ io.left <= rd.left /\ Enough
      /\ full \in Seq(Byte) /\ Len(full) = io.size
      /\ \A k \in 1 .. Len(io.buf) : full[k] = io.buf[k]
      /\ \A k \in 1 .. io.left : full[Len(io.buf) + k] = Fread[k]
      /\ Len(got') = Len(got) + io.size
      /\ \A k \in 1 .. Len(got) : got'[k] = got[k]
      /\ \A k \in 1 .. io.size : got'[Len(got) + k] = Clear(full)[k]
  BY <1>1, DoneParts
<1>3. /\ Len(got) \in Nat /\ Len(io.buf) \in Nat /\ io.left \in Nat /\ rd.pos \in Nat
      /\ rd.left \in Nat /\ io.size \in Nat /\ io.size = Len(io.buf) + io.left
      /\ cab \in DOMAIN Archives
  BY <1>2, InvTypes
<1>4. Raw = Len(got) + Len(io.buf) /\ Raw' = Raw + io.left
  BY <1>2, <1>3 DEF Raw
<1>5. ASSUME NEW k \in 1 .. Len(got')
      PROVE  \/ k \in 1 .. Len(got)
             \/ \E j \in 1 .. io.size : k = Len(got) + j
  <2>1. k <= Len(got) \/ k - Len(got) \in 1 .. io.size
    BY <1>2, <1>3
  <2>2. k = Len(got) + (k - Len(got))
    BY <1>2, <1>3
  <2> QED BY <1>2, <1>3, <2>1, <2>2
<1>6. ASSUME NEW k \in 1 .. io.size
      PROVE  \/ k \in 1 .. Len(io.buf)
             \/ \E j \in 1 .. io.left : k = Len(io.buf) + j
  <2>1. k <= Len(io.buf) \/ k - Len(io.buf) \in 1 .. io.left
    BY <1>3
  <2>2. k = Len(io.buf) + (k - Len(io.buf))
    BY <1>3
  <2> QED BY <1>3, <2>1, <2>2
<1>7. WithinFile' => WithinFile /\ Laid(i)
  <2>1. Asked' = Len(got') /\ Asked = Len(got) + io.size
    BY <1>2, <1>3 DEF Asked
  <2>2. Plain(rd.index)' = Plain(i)
    BY <1>2 DEF Plain
  <2>3. Laid(rd.index)' <=> Laid(i)
    BY <1>2 DEF Laid
  <2> QED BY <1>1, <1>2, <2>1, <2>2, <2>3 DEF WithinFile
<1>8. WithinFile' => AtPart(i)
  <2>1. WithinFile' => AtPart(i) \/ AtEnd(i)
    BY <1>1, <1>2, <1>7, InvTypes DEF InStep
  <2> QED BY <1>1, <1>2, <1>7, <2>1, EndReadsNothing
<1>9. InStep'
  <2> SUFFICES ASSUME WithinFile' PROVE AtPart(rd.index)'
    BY <1>2 DEF InStep
  <2>1. AtPart(i) /\ Laid(i)
    BY <1>7, <1>8
  <2>2. StartOf(i, rd.src) \in Nat /\ StartOf(i, rd.src + 1) \in Nat /\ OffsetOf(i, rd.src) \in Nat
    BY <1>3, <2>1, PartsInOrder DEF AtPart
  <2>3. /\ StartOf(i, rd.src) <= Raw'
        /\ rd'.pos = OffsetOf(i, rd.src) + (Raw' - StartOf(i, rd.src))
        /\ rd'.left = StartOf(i, rd.src + 1) - Raw'
    <3> DEFINE a == StartOf(i, rd.src)
               b == StartOf(i, rd.src + 1)
               c == OffsetOf(i, rd.src)
               n == io.left
    <3>1. /\ a \in Nat /\ b \in Nat /\ c \in Nat /\ Raw \in Nat /\ n \in Nat
          /\ a <= Raw /\ rd.pos = c + (Raw - a) /\ rd.left = b - Raw
      BY <1>3, <1>4, <2>1, <2>2 DEF AtPart
    <3>2. Raw' = Raw + n /\ rd'.pos = rd.pos + n /\ rd'.left = rd.left - n
      BY <1>2, <1>4
    <3> HIDE DEF a, b, c, n
    <3>3. a <= Raw'
      BY <3>1, <3>2
    <3>4. rd'.pos = c + (Raw' - a)
      BY <3>1, <3>2
    <3>5. rd'.left = b - Raw'
      BY <3>1, <3>2
    <3> QED BY <3>3, <3>4, <3>5 DEF a, b, c
  <2> QED BY <1>2, <2>1, <2>3 DEF AtPart, StartOf, OffsetOf, Lo, Hi, Split, Archive
<1>10. Delivered'
  <2> SUFFICES ASSUME WithinFile', NEW k \in 1 .. Len(got')
               PROVE  got'[k] = Plain(i)[k]
    BY <1>2 DEF Delivered, Plain
  <2>1. WithinFile /\ Laid(i) /\ AtPart(i)
    BY <1>7, <1>8
  <2>2. CASE k \in 1 .. Len(got)
    BY <1>1, <1>2, <2>1, <2>2, InvTypes DEF Delivered
  <2>3. ASSUME NEW j \in 1 .. io.size, k = Len(got) + j
        PROVE  got'[k] = Plain(i)[k]
    <3>1. full[j] = Stored(i)[k]
      <4>1. CASE j \in 1 .. Len(io.buf)
        BY <1>1, <1>2, <2>1, <2>3, <4>1, InvTypes DEF InStep
      <4>2. ASSUME NEW m \in 1 .. io.left, j = Len(io.buf) + m
            PROVE  full[j] = Stored(i)[k]
        <5>1. Raw + m = k
          BY <1>3, <1>4, <2>3, <4>2
        <5>2. Fread[m] = Stored(i)[Raw + m]
          BY <1>2, <2>1, PartReads
        <5> QED BY <1>2, <4>2, <5>1, <5>2
      <4> QED BY <1>6, <4>1, <4>2
    <3>2. got'[k] = IF IsObfuscated THEN DeobfuscateByte(full[j], (Len(got) + j - 1) % U32)
                    ELSE full[j]
      BY <1>2, <2>3, ClearAt
    <3>3. Len(got) + j - 1 = k - 1
      BY <2>3
    <3>4. IsObfuscated <=> "obfuscated" \in Archive.files[i].flags
      <4>1. KnownAs(i, fds[i])
        BY <1>1, <1>2, <2>1, InvTypes DEF CacheSound
      <4> QED BY <1>1, <4>1 DEF IsObfuscated, KnownAs
    <3>5. k \in 1 .. Len(Stored(i))
      <4>1. Len(got') <= Len(Plain(i))
        BY <1>2 DEF WithinFile, Asked, Plain
      <4>2. Len(Plain(i)) = Len(Stored(i)) /\ Len(Stored(i)) \in Nat
        BY <1>3, PlainMeans, StoredType
      <4> QED BY <1>2, <1>3, <4>1, <4>2
    <3> QED BY <1>3, <3>1, <3>2, <3>3, <3>4, <3>5, PlainMeans
  <2> QED BY <1>5, <2>2, <2>3
<1>11. OnePart'
  <2> SUFFICES ASSUME rd.src = ExternalSource
               PROVE  /\ rd'.pos = Len(got') /\ Len(got') <= Len(ExternalBytes(i))
                      /\ \A k \in 1 .. Len(got') :
                           got'[k] = IF IsObfuscated
                                     THEN DeobfuscateByte(ExternalBytes(i)[k], (k - 1) % U32)
                                     ELSE ExternalBytes(i)[k]
    BY <1>1, <1>2, ZenonT(30) DEF OnePart, ExternalBytes, Supplement, Missing, IsObfuscated, Archive,
                      ExternalSource
  <2>1. /\ rd.pos = Len(got) /\ io.buf = <<>>
        /\ \A k \in 1 .. Len(got) :
             got[k] = IF IsObfuscated
                      THEN DeobfuscateByte(ExternalBytes(i)[k], (k - 1) % U32)
                      ELSE ExternalBytes(i)[k]
    BY <1>1, <1>2, InvTypes DEF OnePart
  <2>2. Len(io.buf) = 0 /\ io.size = io.left
    BY <1>3, <2>1
  <2>3. SourceBytes = ExternalBytes(i)
    BY <1>1 DEF SourceBytes
  <2>4. ExternalBytes(i) \in Seq(Byte) /\ Len(ExternalBytes(i)) \in Nat
    <3>1. i \in DOMAIN Archive.external /\ fds[i] \in FileDescriptor
      BY <1>1, <1>2, InvTypes DEF IInv, ExternalThere
    <3> QED BY <1>3, <3>1, ExternalType
  <2>5. rd.pos + io.left <= Len(ExternalBytes(i))
    BY <1>2, <2>3 DEF Enough
  <2>6. ASSUME NEW k \in 1 .. Len(got')
        PROVE  got'[k] = IF IsObfuscated
                         THEN DeobfuscateByte(ExternalBytes(i)[k], (k - 1) % U32)
                         ELSE ExternalBytes(i)[k]
    <3>1. CASE k \in 1 .. Len(got)
      BY <1>2, <2>1, <3>1
    <3>2. ASSUME NEW j \in 1 .. io.size, k = Len(got) + j
          PROVE  /\ full[j] = ExternalBytes(i)[k] /\ Len(got) + j - 1 = k - 1
                 /\ got'[k] = Clear(full)[j]
      <4>1. PICK b, p, n : b = ExternalBytes(i) /\ p = rd.pos /\ n = io.left
        OBVIOUS
      <4>2. /\ b \in Seq(Byte) /\ p \in Nat /\ n \in Nat /\ p + n <= Len(b)
            /\ j \in 1 .. n /\ n # 0 /\ Len(b) \in Nat
        BY <1>2, <1>3, <2>2, <2>4, <2>5, <4>1
      <4>3. SubSeq(b, p + 1, p + n)[j] = b[p + j]
        BY <4>2, SubSeqProperties
      <4>4. Fread = SubSeq(b, p + 1, p + n)
        BY <1>2, <2>3, <4>1 DEF Fread
      <4>5. full[j] = Fread[j]
        <5>1. full[Len(io.buf) + j] = Fread[j] /\ Len(io.buf) + j = j
          BY <1>2, <2>2
        <5> QED BY <5>1
      <4>6. Len(got) + j - 1 = k - 1
        BY <1>3, <3>2
      <4> QED BY <1>2, <2>1, <3>2, <4>1, <4>3, <4>4, <4>5, <4>6
    <3>3. ASSUME NEW j \in 1 .. io.size, k = Len(got) + j
          PROVE  got'[k] = IF IsObfuscated
                           THEN DeobfuscateByte(ExternalBytes(i)[k], (k - 1) % U32)
                           ELSE ExternalBytes(i)[k]
      <4>1. Clear(full)[j] =
              IF IsObfuscated THEN DeobfuscateByte(full[j], (Len(got) + j - 1) % U32)
              ELSE full[j]
        BY <1>2, ClearAt
      <4> QED BY <3>2, <3>3, <4>1
    <3> QED BY <1>5, <3>1, <3>3
  <2>7. rd'.pos = Len(got') /\ Len(got') <= Len(ExternalBytes(i))
    BY <1>2, <1>3, <2>1, <2>2, <2>4, <2>5
  <2> QED BY <2>6, <2>7
<1>12. CacheSound'
  BY <1>2, InvTypes, CacheSame
<1> QED BY <1>2, <1>9, <1>10, <1>11, <1>12
    DEF Flow, NothingYet, SomeLeft, FailsOnlyBetweenParts
-----------------------------------------------------------------------------
(* The next volume.                                                        *)
LEMMA OpenedVolume ==
  ASSUME NEW r \in RdType, NEW d, NEW v \in Nat
  PROVE  Opened(r, d, v).volume \in {r.volume, v}
<1>1. CASE Places(r.index, d, v) = {}
  BY <1>1 DEF Opened, RdType
<1>2. CASE Places(r.index, d, v) # {}
  <2>1. PICK place : place = CHOOSE p \in Places(r.index, d, v) : TRUE
    OBVIOUS
  <2>2. Opened(r, d, v) = [r EXCEPT !.src = v, !.volume = v, !.pos = place.offset,
                                    !.left = BytesOfPart(d, place)]
    BY <1>2, <2>1 DEF Opened
  <2> QED BY <2>2 DEF RdType
<1> QED BY <1>1, <1>2

LEMMA NextVolumeOpened ==
  ASSUME StreamInv, io.status # "none", NEW i \in Files, i = rd.index,
         NEW opened, NEW failed, OpensNext(opened, failed)
  PROVE  /\ CacheSound' /\ UNCHANGED <<cab, got>> /\ rd'.index = i
         /\ rd'.src # ExternalSource /\ io' \in {opened, failed}
         /\ rd'.volume \in {rd.volume, rd.volume + 1}
         /\ Intact(i) /\ AtPart(i) /\ rd.src < Hi(i) => io' = opened
         /\ Laid(i) /\ AtPart(i) /\ rd.src < Hi(i) /\ io' # failed =>
              /\ io' = opened /\ rd.src + 1 \in Lo(i) .. Hi(i) /\ rd.src + 1 # Lo(i)
              /\ StandsAt(rd', rd.src + 1, OffsetOf(i, rd.src + 1),
                          StartOf(i, rd.src + 1 + 1) - StartOf(i, rd.src + 1))
              /\ Split(i) => "split" \in fds'[i].flags
<1>1. PICK d0, v, d, r :
        /\ d0 = fds[i] /\ v = rd.volume + 1 /\ d = OpenedDescriptor(i, d0, v)
        /\ r = [rd EXCEPT !.left = 0]
  OBVIOUS
<1>2. /\ cab \in DOMAIN Archives /\ d0 \in FileDescriptor /\ rd \in RdType /\ v \in Nat
      /\ fds \in [Files -> FileDescriptor \cup {NotRead}] /\ CacheSound /\ IInv
      /\ fds[i] # NotRead
  <2>1. /\ cab \in DOMAIN Archives /\ rd \in RdType /\ fds[i] # NotRead /\ CacheSound /\ IInv
        /\ fds \in [Files -> FileDescriptor \cup {NotRead}]
    BY InvTypes
  <2> QED BY <1>1, <2>1 DEF RdType
<1>3. r \in RdType /\ r.index = i /\ r.volume = rd.volume
  BY <1>1, <1>2, U32Assumption DEF RdType
<1>4. d \in FileDescriptor
  BY <1>1, <1>2, OpenedDescriptorType
<1>5. /\ UNCHANGED <<cab, got>>
      /\ \/ /\ Readable(v) /\ rd' = Opened(r, d, v)
            /\ fds' = [fds EXCEPT ![i] = d] /\ io' = opened
         \/ /\ ~Readable(v) /\ rd' = [r EXCEPT !.src = SourceAfter(v)]
            /\ fds' = fds /\ io' = failed
  BY <1>1, <1>2 DEF OpensNext, NextToOpen, RdType
<1>6. Laid(i) => KnownAs(i, d0)
  BY <1>1, <1>2 DEF CacheSound
<1>7. CASE Readable(v)
  <2>1. rd' = Opened(r, d, v) /\ fds' = [fds EXCEPT ![i] = d] /\ io' = opened
    BY <1>5, <1>7
  <2>2. v \in DOMAIN Vols /\ Readable(v)
    BY <1>7 DEF Readable, Openable
  <2>3. rd'.index = i /\ rd'.src = v /\ v # ExternalSource
    BY <1>2, <1>3, <1>4, <2>1, <2>2, OpenedType, ExternalIsNoVolume
  <2>4. rd'.volume \in {rd.volume, rd.volume + 1}
    BY <1>1, <1>2, <1>3, <2>1, OpenedVolume
  <2>5. Laid(i) => KnownAs(i, d)
    BY <1>1, <1>2, <1>6, <2>2, OpenedKnown
  <2>6. CacheSound'
    BY <1>2, <1>4, <1>5, <2>1, <2>5, CacheKeeps
  <2>7. ASSUME Laid(i), AtPart(i), rd.src < Hi(i)
        PROVE  /\ rd.src + 1 \in Lo(i) .. Hi(i) /\ rd.src + 1 # Lo(i)
               /\ StandsAt(rd', rd.src + 1, OffsetOf(i, rd.src + 1),
                           StartOf(i, rd.src + 1 + 1) - StartOf(i, rd.src + 1))
               /\ Split(i) => "split" \in fds'[i].flags
    <3>1. Lo(i) \in Nat /\ Hi(i) \in Nat
      BY <1>2, <2>7, PartsInOrder
    <3>2. /\ v = rd.src + 1 /\ v \in Lo(i) .. Hi(i) /\ v # Lo(i)
          /\ Split(i) => "split" \in d0.flags
      BY <1>1, <2>7, <3>1 DEF AtPart
    <3>3. /\ StandsAt(Opened(r, d, v), v, OffsetOf(i, v), StartOf(i, v + 1) - StartOf(i, v))
          /\ Split(i) => "split" \in d.flags
      BY <1>1, <1>2, <1>3, <1>6, <1>7, <2>7, <3>2, OpenedAt
    <3>4. fds'[i] = d
      BY <1>2, <2>1
    <3> QED BY <2>1, <3>2, <3>3, <3>4
  <2> QED BY <1>5, <2>1, <2>3, <2>4, <2>6, <2>7
<1>8. CASE ~Readable(v)
  <2>1. rd' = [r EXCEPT !.src = SourceAfter(v)] /\ fds' = fds /\ io' = failed
    BY <1>5, <1>8
  <2>2. rd'.index = i /\ rd'.volume = rd.volume /\ rd'.src = SourceAfter(v)
    BY <1>3, <2>1 DEF RdType
  <2>3. SourceAfter(v) # ExternalSource
    BY <1>2, ExternalIsNoVolume DEF SourceAfter, Openable
  <2>4. CacheSound'
    BY <1>2, <1>5, <2>1, CacheSame
  <2>5. ~(Intact(i) /\ AtPart(i) /\ rd.src < Hi(i))
    <3> SUFFICES ASSUME Intact(i), AtPart(i), rd.src < Hi(i) PROVE FALSE
      OBVIOUS
    <3>1. Lo(i) \in Nat /\ Hi(i) \in Nat
      BY <1>2, IntactMeans, PartsInOrder
    <3>2. v \in Lo(i) .. Hi(i)
      BY <1>1, <3>1 DEF AtPart
    <3> QED BY <1>2, <1>8, <3>2, PartComplete DEF Readable, Openable
  <2> QED BY <1>5, <2>1, <2>2, <2>3, <2>4, <2>5
<1> QED BY <1>7, <1>8

LEMMA ReadAcrossFlow ==
  ASSUME StreamInv, ReadAcross PROVE Flow'
<1>a. PICK i \in Files : i = rd.index
  BY InvTypes DEF ReadAcross
<1>1. PICK opened, failed :
        /\ i = rd.index /\ failed = [io EXCEPT !.status = "failed"]
        /\ opened = [io EXCEPT !.left = @ - BytesToRead, !.buf = @ \o Fread]
  BY <1>a
<1>2. /\ io.status = "reading" /\ BytesToRead # 0 /\ Enough /\ BytesToRead < io.left
      /\ OpensNext(opened, failed)
  BY <1>1 DEF ReadAcross
<1>3. /\ BytesToRead \in Nat /\ BytesToRead = rd.left
      /\ Fread \in Seq(Byte) /\ Len(Fread) = BytesToRead
  <2>1. /\ BytesToRead \in Nat /\ Fread \in Seq(Byte) /\ Len(Fread) = BytesToRead
    BY <1>2, InvTypes, FreadType
  <2> QED BY <1>2, <2>1, InvTypes DEF BytesToRead
<1>4. /\ Len(got) \in Nat /\ Len(io.buf) \in Nat /\ io.left \in Nat /\ io.size \in Nat
      /\ io.size = Len(io.buf) + io.left /\ cab \in DOMAIN Archives
  BY <1>2, InvTypes
<1>b. PICK buf : buf = io.buf \o Fread
  OBVIOUS
<1>5. /\ Len(buf) = Len(io.buf) + BytesToRead
      /\ \A k \in 1 .. Len(io.buf) : buf[k] = io.buf[k]
      /\ \A k \in 1 .. BytesToRead : buf[Len(io.buf) + k] = Fread[k]
  <2>1. PICK s, t : s = io.buf /\ t = Fread
    OBVIOUS
  <2>2. s \in Seq(Byte) /\ t \in Seq(Byte) /\ buf = s \o t
    BY <1>3, <1>b, <2>1, InvTypes
  <2>3. /\ Len(s \o t) = Len(s) + Len(t)
        /\ \A k \in 1 .. Len(s) : (s \o t)[k] = s[k]
        /\ \A k \in 1 .. Len(t) : (s \o t)[Len(s) + k] = t[k]
    BY <2>2, ConcatAt
  <2> QED BY <1>3, <2>1, <2>2, <2>3
<1>6. /\ opened.status = "reading" /\ opened.size = io.size /\ opened.buf = buf
      /\ opened.left = io.left - BytesToRead
      /\ failed.status = "failed" /\ failed.size = io.size
  <2>1. io \in IoType /\ opened = [io EXCEPT !.left = io.left - BytesToRead, !.buf = buf]
    BY <1>1, <1>b, InvTypes
  <2> QED BY <1>1, <1>2, <2>1 DEF IoType
<1>7. /\ CacheSound' /\ UNCHANGED <<cab, got>> /\ rd'.index = i
      /\ rd'.src # ExternalSource /\ io' \in {opened, failed}
      /\ Intact(i) /\ AtPart(i) /\ rd.src < Hi(i) => io' = opened
      /\ Laid(i) /\ AtPart(i) /\ rd.src < Hi(i) /\ io' # failed =>
           /\ io' = opened /\ rd.src + 1 \in Lo(i) .. Hi(i) /\ rd.src + 1 # Lo(i)
           /\ StandsAt(rd', rd.src + 1, OffsetOf(i, rd.src + 1),
                       StartOf(i, rd.src + 1 + 1) - StartOf(i, rd.src + 1))
           /\ Split(i) => "split" \in fds'[i].flags
  BY <1>1, <1>2, NextVolumeOpened
<1>8. WithinFile' => WithinFile /\ Laid(i)
  BY <1>1, <1>2, <1>6, <1>7 DEF WithinFile, Asked, Laid, Plain
<1>9. ASSUME WithinFile' PROVE AtPart(i) /\ rd.src < Hi(i) /\ Laid(i)
  <2>1. Laid(i) /\ WithinFile
    BY <1>8, <1>9
  <2>2. AtPart(i)
    <3>1. AtPart(i) \/ AtEnd(i)
      BY <1>1, <1>2, <2>1, InvTypes DEF InStep
    <3>2. io.left # 0
      BY <1>2, <1>3, <1>4
    <3> QED BY <1>1, <1>2, <2>1, <3>1, <3>2, EndReadsNothing
  <2>3. Hi(i) \in Nat /\ rd.src \in Nat /\ rd.src <= Hi(i)
    <3>1. Hi(i) \in Nat /\ Lo(i) \in Nat
      BY <1>4, <2>1, PartsInOrder
    <3> QED BY <2>2, <3>1 DEF AtPart
  <2>4. rd.src # Hi(i)
    <3> SUFFICES ASSUME rd.src = Hi(i) PROVE FALSE
      OBVIOUS
    <3>1. rd.left = Len(Stored(i)) - Raw /\ Raw = Len(got) + Len(io.buf)
      BY <1>2, <1>4, <2>1, <2>2, PartsInOrder DEF AtPart, Raw
    <3>2. Len(got) + io.size <= Len(Stored(i)) /\ Len(Stored(i)) \in Nat
      <4>1. Len(Plain(i)) = Len(Stored(i)) /\ Len(Stored(i)) \in Nat
        BY <1>4, PlainMeans, StoredType
      <4>2. Len(got) + io.size <= Len(Plain(i))
        BY <1>1, <1>2, <2>1 DEF WithinFile, Asked
      <4> QED BY <4>1, <4>2
    <3> DEFINE m == Len(Stored(i))
               n == Len(got)
               b == Len(io.buf)
    <3>3. /\ m \in Nat /\ n \in Nat /\ b \in Nat /\ io.left \in Nat
          /\ n + (b + io.left) <= m /\ m - (n + b) < io.left
      BY <1>2, <1>3, <1>4, <3>1, <3>2
    <3> HIDE DEF m, n, b
    <3> QED BY <3>3
  <2> QED BY <2>1, <2>2, <2>3, <2>4
<1>9a. FailsOnlyBetweenParts'
  <2> SUFFICES ASSUME WithinFile', Intact(rd.index)' PROVE io'.status = "reading"
    BY DEF FailsOnlyBetweenParts
  <2>1. Intact(i)
    BY <1>7 DEF Intact
  <2> QED BY <1>6, <1>7, <1>9, <2>1
<1>10. InStep'
  <2> SUFFICES ASSUME WithinFile', io'.status \in {"idle", "reading"}
               PROVE  /\ io'.status = "reading" /\ AtPart(rd.index)'
                      /\ \A k \in 1 .. Len(io'.buf) : io'.buf[k] = Stored(i)[Len(got) + k]
    BY <1>7 DEF InStep, Stored, Archive
  <2>0. io' # failed
    BY <1>6
  <2>1. Laid(i) /\ AtPart(i) /\ rd.src < Hi(i) /\ WithinFile
    BY <1>8, <1>9
  <2>2. PICK v : v = rd.src + 1
    OBVIOUS
  <2>3. /\ io' = opened /\ v \in Lo(i) .. Hi(i) /\ v # Lo(i)
        /\ StandsAt(rd', v, OffsetOf(i, v), StartOf(i, v + 1) - StartOf(i, v))
        /\ Split(i) => "split" \in fds'[i].flags
    BY <1>7, <2>0, <2>1, <2>2
  <2>4. Raw = Len(got) + Len(io.buf) /\ Raw' = Len(got) + Len(buf)
    BY <1>2, <1>6, <1>7, <2>3 DEF Raw
  <2>5. Raw' = StartOf(i, v)
    <3>1. rd.left = StartOf(i, v) - Raw
      BY <2>1, <2>2 DEF AtPart
    <3>2. StartOf(i, v) \in Nat
      BY <1>4, <2>1, <2>3, PartsInOrder
    <3>3. Raw' = Raw + rd.left /\ Raw \in Nat
      <4> DEFINE n == Len(got)
                 b == Len(io.buf)
      <4>1. /\ n \in Nat /\ b \in Nat /\ rd.left \in Nat
            /\ Raw = n + b /\ Raw' = n + (b + rd.left)
        BY <1>3, <1>4, <1>5, <2>4
      <4> HIDE DEF n, b
      <4> QED BY <4>1
    <3> QED BY <3>1, <3>2, <3>3
  <2>6. AtPart(i)'
    BY <1>4, <1>7, <2>1, <2>3, <2>5, AtNewPart
  <2>7. AtPart(rd.index)'
    BY <1>7, <2>6 DEF AtPart
  <2>8. ASSUME NEW k \in 1 .. Len(buf) PROVE buf[k] = Stored(i)[Len(got) + k]
    <3>1. CASE k \in 1 .. Len(io.buf)
      BY <1>1, <1>2, <1>5, <2>1, <3>1, InvTypes DEF InStep
    <3>2. ASSUME NEW m \in 1 .. BytesToRead, k = Len(io.buf) + m
          PROVE  buf[k] = Stored(i)[Len(got) + k]
      <4>1. Raw + m = Len(got) + k
        BY <1>3, <1>4, <2>4, <3>2
      <4>2. Fread[m] = Stored(i)[Raw + m]
        BY <1>2, <2>1, PartReads
      <4> QED BY <1>5, <3>2, <4>1, <4>2
    <3>3. k \in 1 .. Len(io.buf) \/ \E m \in 1 .. BytesToRead : k = Len(io.buf) + m
      <4>1. k <= Len(io.buf) \/ k - Len(io.buf) \in 1 .. BytesToRead
        BY <1>3, <1>4, <1>5
      <4>2. k = Len(io.buf) + (k - Len(io.buf))
        BY <1>4
      <4> QED BY <1>4, <4>1, <4>2
    <3> QED BY <3>1, <3>2, <3>3
  <2> QED BY <1>6, <2>3, <2>7, <2>8
<1>11. Delivered'
  BY <1>1, <1>7, <1>8, InvTypes DEF Delivered, Plain
<1>12. SomeLeft'
  BY <1>2, <1>3, <1>4, <1>6, <1>7 DEF SomeLeft
<1>13. NothingYet' /\ OnePart'
  BY <1>6, <1>7 DEF NothingYet, OnePart, ExternalSource
<1> QED BY <1>7, <1>9a, <1>10, <1>11, <1>12, <1>13 DEF Flow

LEMMA OpenNextFlow ==
  ASSUME StreamInv, OpenNext PROVE Flow'
<1>a. PICK i \in Files : i = rd.index
  BY InvTypes DEF OpenNext
<1>1. PICK opened, failed :
        i = rd.index /\ opened = NoCall("idle") /\ failed = NoCall("failed")
  BY <1>a
<1>2. io.status = "idle" /\ rd.left = 0 /\ OpensNext(opened, failed)
  BY <1>1 DEF OpenNext
<1>3. /\ opened.status = "idle" /\ failed.status = "failed" /\ failed.size = 0
      /\ Len(got) \in Nat /\ cab \in DOMAIN Archives
  BY <1>1, InvTypes DEF NoCall
<1>4. /\ CacheSound' /\ UNCHANGED <<cab, got>> /\ rd'.index = i
      /\ rd'.src # ExternalSource /\ io' \in {opened, failed}
      /\ rd'.volume \in {rd.volume, rd.volume + 1}
      /\ Intact(i) /\ AtPart(i) /\ rd.src < Hi(i) => io' = opened
      /\ Laid(i) /\ AtPart(i) /\ rd.src < Hi(i) /\ io' # failed =>
           /\ io' = opened /\ rd.src + 1 \in Lo(i) .. Hi(i) /\ rd.src + 1 # Lo(i)
           /\ StandsAt(rd', rd.src + 1, OffsetOf(i, rd.src + 1),
                       StartOf(i, rd.src + 1 + 1) - StartOf(i, rd.src + 1))
           /\ Split(i) => "split" \in fds'[i].flags
  BY <1>1, <1>2, NextVolumeOpened
<1>5. WithinFile' => WithinFile /\ Laid(i)
  BY <1>1, <1>2, <1>3, <1>4 DEF WithinFile, Asked, Laid, Plain
<1>6. Raw = Len(got) /\ (io'.status = "idle" => Raw' = Len(got))
  BY <1>2, <1>3, <1>4 DEF Raw
<1>7. InStep'
  <2> SUFFICES ASSUME WithinFile', io'.status = "idle"
               PROVE  AtPart(i)' \/ AtEnd(i)'
    BY <1>3, <1>4 DEF InStep, AtPart, AtEnd
  <2>1. Laid(i) /\ (AtPart(i) \/ AtEnd(i))
    BY <1>1, <1>2, <1>5, InvTypes DEF InStep
  <2>2. /\ Lo(i) \in Nat /\ Hi(i) \in Nat /\ StartOf(i, Hi(i) + 1) = Len(Stored(i))
        /\ rd.volume \in Nat
    BY <1>3, <2>1, PartsInOrder, InvTypes DEF RdType
  <2>3. CASE AtPart(i) /\ rd.src < Hi(i)
    <3>1. PICK v : v = rd.src + 1
      OBVIOUS
    <3>2. /\ v \in Lo(i) .. Hi(i) /\ v # Lo(i)
          /\ StandsAt(rd', v, OffsetOf(i, v), StartOf(i, v + 1) - StartOf(i, v))
          /\ Split(i) => "split" \in fds'[i].flags
      BY <1>3, <1>4, <2>1, <2>3, <3>1
    <3>3. Raw' = StartOf(i, v)
      <4>1. StartOf(i, v) \in Nat /\ 0 = StartOf(i, v) - Len(got)
        BY <1>2, <1>3, <1>6, <2>1, <2>3, <3>1, <3>2, PartsInOrder DEF AtPart
      <4> QED BY <1>3, <1>6, <4>1
    <3> QED BY <1>3, <1>4, <2>1, <3>2, <3>3, AtNewPart
  <2>4. CASE AtPart(i) /\ ~(rd.src < Hi(i))
    <3>1. rd.src = Hi(i) /\ rd.volume = Hi(i)
      BY <2>2, <2>4 DEF AtPart
    <3>2. Raw = Len(Stored(i))
      <4>1. 0 = Len(Stored(i)) - Len(got) /\ Len(Stored(i)) \in Nat
        BY <1>2, <1>3, <1>6, <2>2, <2>4, <3>1, StoredType DEF AtPart
      <4> QED BY <1>3, <1>6, <4>1
    <3>3. rd'.volume >= Hi(i)
      BY <1>4, <2>2, <3>1
    <3> QED BY <1>4, <1>6, <3>2, <3>3 DEF AtEnd, Stored, Hi, Archive
  <2>5. CASE AtEnd(i)
    <3>1. Raw = Len(Stored(i)) /\ rd'.volume >= Hi(i)
      BY <1>4, <2>2, <2>5 DEF AtEnd
    <3> QED BY <1>4, <1>6, <3>1 DEF AtEnd, Stored, Hi, Archive
  <2> QED BY <2>1, <2>3, <2>4, <2>5
<1>8. Delivered'
  BY <1>1, <1>4, <1>5, InvTypes DEF Delivered, Plain
<1>9. SomeLeft' /\ NothingYet' /\ OnePart' /\ FailsOnlyBetweenParts'
  BY <1>3, <1>4 DEF SomeLeft, NothingYet, OnePart, FailsOnlyBetweenParts, ExternalSource
<1> QED BY <1>4, <1>7, <1>8, <1>9 DEF Flow
-----------------------------------------------------------------------------
LEMMA InitFlow == Init => Flow
<1> SUFFICES ASSUME Init PROVE Flow
  OBVIOUS
<1>1. io.status = "none" /\ rd.src = 0 /\ \A i \in Files : fds[i] = NotRead
  BY DEF Init, NoCall, NoReader
<1>2. 0 # ExternalSource
  BY U16Assumption DEF ExternalSource
<1> QED BY <1>1, <1>2
    DEF Flow, CacheSound, WithinFile, InStep, Delivered, NothingYet, SomeLeft, OnePart,
        FailsOnlyBetweenParts

LEMMA StutterFlow ==
  ASSUME StreamInv, UNCHANGED vars PROVE Flow'
<1>1. UNCHANGED <<cab, fds, rd, io, got>>
  BY DEF vars
<1>2. CacheSound'
  BY <1>1, InvTypes, CacheSame
<1>3. InStep'
  BY <1>1, InvTypes
     DEF InStep, WithinFile, Asked, Laid, Intact, Plain, AtPart, AtEnd, Raw, StartOf, OffsetOf, Lo,
         Hi, Split, Stored, Archive
<1>4. Delivered' /\ NothingYet' /\ SomeLeft' /\ FailsOnlyBetweenParts'
  BY <1>1, InvTypes
     DEF Delivered, NothingYet, SomeLeft, FailsOnlyBetweenParts, WithinFile, Asked, Laid,
         Intact, Plain, Archive
<1>5. OnePart'
  BY <1>1, InvTypes
     DEF OnePart, ExternalBytes, Supplement, Missing, IsObfuscated, Archive, ExternalSource
<1> QED BY <1>2, <1>3, <1>4, <1>5 DEF Flow

LEMMA NextFlow ==
  ASSUME StreamInv, [Next]_vars PROVE Flow'
<1>1. CASE CreateOpen BY <1>1, CreateOpenFlow
<1>2. CASE CreateFail BY <1>2, EndFlow
<1>3. CASE ReadFail BY <1>3, ReadFailFlow
<1>4. CASE ReadDone BY <1>4, ReadDoneFlow
<1>5. CASE ReadAcross BY <1>5, ReadAcrossFlow
<1>6. CASE Open
  BY <1>6, GetFileDescriptorFlow, CreateBeginFlow, CreateExternalFlow DEF Open
<1>7. CASE Read BY <1>7, ReadBeginFlow, ReadSizesAssumption DEF Read
<1>8. CASE Destroy BY <1>8, EndFlow
<1>9. CASE OpenNext BY <1>9, OpenNextFlow
<1>10. CASE UNCHANGED vars BY <1>10, StutterFlow
<1> QED BY <1>1, <1>2, <1>3, <1>4, <1>5, <1>6, <1>7, <1>8, <1>9, <1>10 DEF Next, Step

(* So it is with reads of any size, from the list of sizes or not.         *)
LEMMA AnyReadStream ==
  ASSUME StreamInv, [Next]_vars \/ \E n \in Nat : ReadBegin(n)
  PROVE  StreamInv'
<1>1. IInv /\ SeedFollowsStream
  BY DEF StreamInv
<1>2. CASE [Next]_vars
  BY <1>1, <1>2, NextIInv, NextSeedFollows, NextFlow DEF StreamInv
<1>3. CASE \E n \in Nat : ReadBegin(n)
  <2>1. PICK n \in Nat : ReadBegin(n)
    BY <1>3
  <2>2. IInv' /\ Flow'
    BY <1>1, <2>1, ReadBeginIInv, ReadBeginFlow
  <2>3. UNCHANGED <<cab, fds, rd, got>> /\ io.status = "idle"
    BY <2>1 DEF ReadBegin
  <2>4. SeedFollowsStream'
    BY <1>1, <2>3 DEF SeedFollowsStream
  <2> QED BY <2>2, <2>4 DEF StreamInv
<1> QED BY <1>2, <1>3

LEMMA FlowInOrder ==
  ASSUME StreamInv PROVE StreamInOrder
<1>1. ASSUME WithinFile PROVE got = SubSeq(Plain(rd.index), 1, Len(got))
  <2>1. PICK i, s, n : i = rd.index /\ s = Plain(i) /\ n = Len(got)
    OBVIOUS
  <2>2. i \in Files /\ cab \in DOMAIN Archives /\ Laid(i) /\ n \in Nat
    BY <1>1, <2>1, InvTypes DEF WithinFile
  <2>3. s \in Seq(Byte) /\ Len(s) \in Nat
    BY <2>1, <2>2, PlainMeans, LenProperties
  <2>4. n <= Len(s)
    <3>1. Asked \in Nat /\ n <= Asked
      BY <2>1, <2>2, InvTypes DEF Asked
    <3> QED BY <1>1, <2>1, <2>2, <2>3, <3>1 DEF WithinFile
  <2>5. \A k \in 1 .. n : got[k] = s[k]
    BY <1>1, <2>1, InvTypes DEF Delivered
  <2>6. PICK t : t = SubSeq(s, 1, n)
    OBVIOUS
  <2>7. t \in Seq(Byte) /\ Len(t) = n /\ \A k \in 1 .. n : t[k] = s[k]
    <3>1. CASE n = 0
      BY <2>3, <2>6, <3>1, SubSeqProperties
    <3>2. CASE n # 0
      BY <2>2, <2>3, <2>4, <2>6, <3>2, SubSeqProperties
    <3> QED BY <3>1, <3>2
  <2>8. got = t
    BY <2>1, <2>5, <2>7, InvTypes, SeqEqual
  <2> QED BY <2>1, <2>6, <2>8
<1>2. ASSUME rd.src = ExternalSource
      PROVE  LET bytes == SubSeq(ExternalBytes(rd.index), 1, Len(got))
             IN  got = IF IsObfuscated THEN Deobfuscate(bytes, 0) ELSE bytes
  <2>1. PICK s, n, t : s = ExternalBytes(rd.index) /\ n = Len(got) /\ t = SubSeq(s, 1, n)
    OBVIOUS
  <2>2. s \in Seq(Byte) /\ Len(s) \in Nat /\ n \in Nat /\ n <= Len(s)
    <3>1. io.status # "none" /\ rd.index \in DOMAIN Archive.external /\ cab \in DOMAIN Archives
      BY <1>2, ExternalIsNoVolume, InvTypes DEF IInv, SourceCounted, ExternalThere
    <3>2. fds[rd.index] \in FileDescriptor
      BY <3>1, InvTypes
    <3> QED BY <1>2, <2>1, <3>1, <3>2, ExternalType, InvTypes DEF OnePart
  <2>3. t \in Seq(Byte) /\ Len(t) = n /\ \A k \in 1 .. n : t[k] = s[k]
    <3>1. CASE n = 0
      BY <2>1, <2>2, <3>1, SubSeqProperties
    <3>2. CASE n # 0
      BY <2>1, <2>2, <3>2, SubSeqProperties
    <3> QED BY <3>1, <3>2
  <2>4. \A k \in 1 .. n :
          got[k] = IF IsObfuscated THEN DeobfuscateByte(s[k], (k - 1) % U32) ELSE s[k]
    BY <1>2, <2>1, InvTypes DEF OnePart
  <2>5. CASE ~IsObfuscated
    <3>1. got = t
      BY <2>1, <2>3, <2>4, <2>5, InvTypes, SeqEqual
    <3> QED BY <2>1, <2>5, <3>1
  <2>6. CASE IsObfuscated
    <3>1. PICK u : u = Deobfuscate(t, 0)
      OBVIOUS
    <3>2. /\ u \in Seq(Byte) /\ Len(u) = n
          /\ \A k \in 1 .. n : u[k] = DeobfuscateByte(t[k], (0 + (k - 1)) % U32)
      BY <2>3, <3>1, DeobfuscateType
    <3>3. \A k \in 1 .. n : 0 + (k - 1) = k - 1
      BY <2>2
    <3>4. \A k \in 1 .. n : got[k] = u[k]
      BY <2>3, <2>4, <2>6, <3>2, <3>3
    <3>5. got = u
      BY <2>1, <3>2, <3>4, InvTypes, SeqEqual
    <3> QED BY <2>1, <2>6, <3>1, <3>5
  <2> QED BY <2>5, <2>6
<1> QED BY <1>1, <1>2 DEF StreamInOrder

(* For every archive, every sequence of reads of every size and every      *)
(* cutting of a file into volumes, also when some of them are missing, cut *)
(* short or without headers: what unshield_reader_read has delivered of a  *)
(* file is the beginning of the file.                                      *)
THEOREM DeliversInOrder == Spec => []StreamInOrder
<1>1. Init => StreamInv
  BY InitIInv, InitFlow DEF StreamInv, Init, NoCall, SeedFollowsStream
<1>2. StreamInv /\ [Next]_vars => StreamInv'
  BY NextIInv, NextSeedFollows, NextFlow DEF StreamInv
<1>3. StreamInv => StreamInOrder
  BY FlowInOrder
<1> QED BY <1>1, <1>2, <1>3, PTL DEF Spec

(* The only read within an intact file that fails is one that begins where *)
(* a part of the file ends.                                                *)
THEOREM FailsOnlyThere == Spec => []FailsOnlyBetweenParts
<1>1. Init => StreamInv
  BY InitIInv, InitFlow DEF StreamInv, Init, NoCall, SeedFollowsStream
<1>2. StreamInv /\ [Next]_vars => StreamInv'
  BY NextIInv, NextSeedFollows, NextFlow DEF StreamInv
<1>3. StreamInv => FailsOnlyBetweenParts
  BY DEF StreamInv, Flow
<1> QED BY <1>1, <1>2, <1>3, PTL DEF Spec
=============================================================================
