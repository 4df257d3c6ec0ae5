# Verification of unshield

TLA+ models of unshield, the extractor for InstallShield cabinet sets
(`data1.hdr`, `data1.cab`, `data2.cab`, ...), with the runs of TLC that check
them and the proofs that TLAPS checks. Line numbers are those of the commit the
models were written from; `PROJECT.json` maps every definition to its lines.

unshield is sequential: there are no threads. What is hard about it is the long
life of a handle. Descriptors are cached and *modified* by the readers that use
them, a file is cut over volumes in places the format does not say, two counters
(of the caller and of the reader) have to stay in step over reads of any size,
and every fread, fopen, fwrite, allocation and inflation may fail in between. The
tool on top of it makes paths out of names that the cabinet chose, by way of two
hand-written converters, and goes on after a failure.

## Inventory

| part | state | operations | called by | what makes it correct |
|---|---|---|---|---|
| deobfuscation (`lib/file.c:499`) | none, the caller's seed | `unshield_deobfuscate` | reader, `unshield-deobfuscate` | the result does not depend on how the stream is cut into buffers |
| file descriptors (`lib/file.c:35-164`) | `header->file_descriptors`, filled on demand | `unshield_get_file_descriptor` and the getters | everything about files | a filled slot keeps what the file table said, but for what IS5 readers learn |
| volume reader (`lib/file.c:296-726`) | `UnshieldReader`: volume, `FILE*`, bytes left in the volume, seed | create, open_volume, read, destroy; create_external | the three extractions | delivers the stored stream in order; fails for known reasons; gives its file back; its loops end |
| extraction (`lib/file.c:733-1069`) | locals: bytes left, total, digest, output | `unshield_file_save`, `unshield_file_save_raw` | clients, the tool | `true` only for the right bytes; nothing but the file in the output; returns |
| old extraction (`lib/file.c:1071-1322`) | the same and a growing input buffer | `unshield_file_save_old`, `find_bytes` | clients, the tool with `-O` | chunk ends are found wherever they lie |
| header list, opening (`lib/libunshield.c`, `lib/helper.c`) | `header_list`, filename pattern | open, read_headers, close, fopen_for_reading | clients | all headers in order, nothing leaked on errors |
| components, file groups (`lib/libunshield.c:228-306`, `component.c`, `file_group.c`) | arrays in the header | walk of the offset lists, find by name | clients, the tool | every list entry once, in order |
| string conversion (`lib/converter.c`, `lib/helper.c:220-259`) | string buffers of the header | UTF-16 to UTF-8 and back | names of files, directories, components | decoding what was encoded; never outside the buffers |
| command line tool (`src/unshield.c`) | options, the output directory | extract, list, test | user | every selected file extracted; failures in the exit code |
| MD5, log, win32 | - | - | - | vendored or formatting, not modelled |

The parts interact by calls only. An extraction asks for a descriptor, creates a
reader for it, reads with it and destroys it; the reader opens volumes through
the callbacks of the handle and writes into the descriptor; the tool calls one
extraction after another on the same handle. So the interleaving that matters is
that of one call's steps with the state the calls before it left.

## Modules

`Deobfuscation` has the byte transformation and the seed as operators.

`VolumeReader` models the reader. Its variables are `fds` (the cache of
descriptors), `rd` (the `UnshieldReader`: `index`, `volume`, `src` for the
`FILE*`, `pos` for its position, `left` for `volume_bytes_left`, `obf` for
`obfuscation_offset`), `io` (the call in progress), `got` (history: the bytes
delivered) and `handles` (volume files open). `CreateBegin`, `CreateOpen` and
`CreateFail` are `unshield_reader_create`, one pass of its loop each;
`ReadBegin`, `ReadDone`, `ReadAcross` and `ReadFail` are
`unshield_reader_read`, one fread with all that follows it each; `Destroy` is
`unshield_reader_destroy`. `CreateExternal` is `unshield_reader_create_external`,
for a file that lies beside the cabinets, with the end of the last marker
supplied; `OpenNext` is a caller that opens the next volume before it reads.
`unshield_reader_open_volume` is part of the actions
that call it: `HandlesAfter` (old file closed, new one opened), `Readable` (both
headers could be read), `OpenedDescriptor` (the split flag found in an IS5
header) and `Opened` (placement, with the early success that sets nothing).

What lies on the disk is a constant: an archive is a record with the file table,
the volumes (their headers and all of their bytes) and, for the properties only,
the layout. Files are real byte sequences, so offsets, cuts and reads past a
part are all visible. `CabBuilder` makes archives the way InstallShield stores
them: files one after the other, cut where a volume is full, both headers filled
in (`last_file_offset` 0 and missing split flags for IS5), deflated chunks
behind their lengths, obfuscation by the inverse of the modelled transformation;
and it damages them: volumes missing, without headers, cut short.

`FileSave` extends it with the two extractions. `pc`, `call`, `out` and `log`
are the call's program counter, its arguments and locals, the output file and
the answers. Each action is one branch of the function, and steps of the reader
are the reader's own actions. zlib is the constant `Inflate(_)`: bytes, or
something else where zlib refuses. A digest is the digested content. Disk
(`OutputFails`, `WriteFails` after any number of bytes) and memory
(`NoMemoryForReader`) fail whenever they can.

`ByteSearch` has what `find_bytes` is for, and `FindBytes` the function itself,
one pass of its loop each step. The length it gives to `memchr` is not shortened
by the bytes that `memchr` skipped, so a search without a match may look behind
its buffer; `LooksBeyond` says exactly when, which `FindBytes` checks and
`SaveOld` uses.

`SaveOld` extends `FileSave` with `unshield_file_save_old`: the steps it shares
(lookup, links, the reader) are `FileSave`'s actions, the others its own:
`TryExternal`, `OpenExternal`, `OpenNextVolume`, `AskPart` (a whole part of a
compressed file into `input`), `WriteOld` (one chunk cut out of it and inflated)
and so on. `Stray` is the search behind the buffer: its outcome is not defined,
and the label `undefined`, from which nothing follows, stands for that.

`Unicode` has UTF-16 and UTF-8 from the standard, written with nothing of the
code: which values are scalars, which bytes are well-formed (table 3-7), what
text a string stands for. `Converter` is `lib/converter.c`: `utf16_to_utf8` and
`utf8_to_utf16`, one pass of their loop each step (`Count` without a target,
`Write`, and `Drop` where a character has no room), with the decoders and the
encoders as operators on units and bytes; the bit masks of the code are div and
mod. `Retry` is a client that asked for the size first. `HeaderStrings` is
`unshield_utf16_to_utf8` of `lib/helper.c`: the length it counts, the buffer it
makes, and the one unit more than that which it converts. `Memories` is what lies
from a name on, so that the unit behind the terminator may be anything.

`OffsetLists` is the walk of the component and file group lists with the array
that doubles (`unshield_header_get_components` and `_file_groups` are the same
but for the objects made). `Headers` extends it with the life of a handle:
looking up `data<i>.hdr` and `data<i>.cab` whatever the case of their names,
reading, parsing, both walks, the linked list, what clients allocate, and
`unshield_close`. `heap` counts the allocated objects of each kind by header.

`Extraction` is the abstract specification: an output that only grows, and an
answer that is `TRUE` only for an acceptable output. `FileSave!Promise` maps
`FileSave` to it; its `Request` is computed from the archive, with the content
where the archive is sound and the checksum's content where it is not.

`SaveOld!OldPromise` maps the old extraction to it as well.

`ToolPaths` has what the tool makes of names: a name is a value, and each
conversion (replaced characters, what `isprint` refuses, lower case, iconv, what
`snprintf` cuts off) a function on names, a constant. `Tool` is
`src/unshield.c`: the options one after the other (`Option`, `Version`, `Usage`,
`NoAction`, `ParametersDone`), `main` (`NotOpened` to `EncodingDone`), `do_action`
(`ListNames` to `Done`), the loop over the files of a group (`Skip`, `ListFile`,
`TestFile`, `LeaveGroup`) and `extract_file` (`Place`, `NoDirname`, `Locate`, with
`make_sure_directory_exists`; `Save`, `SaveFails`, `Fail`, `FailStale`). `fs` is the disk,
from real paths to what is there; `at` the two loop variables, `filename` the
buffer, `count` and `exit_status` the globals. The library is what it tells of a
cabinet and what its calls answer; `FileSave` and `SaveOld` say what is in those
answers. `FailStale` is a failure before `filename` was written: `unlink` gets the
allocated but unwritten buffer, which may still hold the name that an earlier call
put there, and `blind` notes when that removed a file. `Batch` is the abstract
specification: every file asked for is tried once for each group that has it, in
the order of the cabinet, and the status tells whether all were right. `Tool!B`
maps `Tool` to it, with what was asked for read off the command line at once.

`VolumeReaderProofs`, `FileSaveProofs`, `ExtractionProofs`, `SaveOldProofs`,
`FindBytesProofs`, `HeadersProofs`, `ConverterProofs` and `ToolProofs` hold the
proofs, the `MC` modules the instances. `VolumeReader` is extended by `FileSave`, and
that by `SaveOld`, so the extractions run the reader that is proved about, step by step.

## Runs

| run | question | instance |
|---|---|---|
| `VolumeReader` | Does a reader deliver the stream and fail only for known reasons, whatever was read before through the same cache? | 22 sets, versions 0, 5 and 6, one to four volumes, files in one to three of them or beside them; reads of 1 to 4 bytes; 22 260 states |
| `FileSave` | What do calls write and answer, do they return, and does a second call differ from the first? | 15 sets, some with volumes missing, cut short or without headers, two calls on a handle for every index, -1 and `file_count`, either function, with and without a file name; 313 879 states |
| `FindBytes` | What does the search for a marker find, and when does it look behind the buffer? | every buffer of up to 7 bytes over 0, 255 and one other; 11 579 states |
| `SaveOld` | What does the old extraction write and answer, wherever volumes cut chunks and markers? | 14 sets, two calls on a handle; 195 491 states |
| `Headers` | Which headers does a handle get, what do clients see, are lists walked in order and inside the array, is everything freed? | 20 directories with up to two headers, 168 with one whose component lists share entries or close on themselves; two forced versions, any memory or open failure; 17 028 states |
| `Strings` | Is what the converters write text, the text of the source, and inside the target? | every string of up to 3 units over 13, of 4 over 6, of up to 3 bytes over 14, and 4 byte sequences at the limits; targets of 1, 4 and 9, of the size asked for, and string buffers for names of up to three units; 201 670 states |
| `Tool` | Is every file tried, what is on the disk afterwards, what does the status say, does the run end? | 25 lists of options, 6 actions, 8 cabinets with up to 8 files in 3 groups, 3 disks, one failure of memory or disk at any point; a group up to `INT_MAX`, a file and a cabinet from which the library does not return; 40 162 states |
| `ThreeHeaders` | Are all headers read? (violated) | three cabinets with a header each |
| `AlignedSplit` | Is a file that spans volumes extracted wherever it was cut? (violated) | a copied file of 13 bytes cut after 8, the buffer size |
| `LastFileSplit` | Is the last file of an IS5 set extracted when it is split? (violated) | two volumes |
| `HugeRaw` | Does a raw extraction that reports success have all bytes? (violated) | a file of 11 bytes where an unsigned has 8 values |
| `RawNames` | Does `-R` keep the names of the cabinet? (violated) | a directory with a space in its name |

The properties speak of two kinds of files, which they tell from the archive alone.
`LaidFiles` are those that were stored as InstallShield does it: of whatever is still
there, the headers announce the parts where they lie and the bytes are right. Their
volumes may be missing, cut short or without headers; only the last file of an IS5
set that is split is left out (finding 2). `IntactFiles` are those of
them of which nothing is missing. Properties of what is delivered and written are
about the former, those of calls that succeed about the latter.

Properties of `VolumeReader`: `TypeOK`; `StreamInOrder`, what was delivered is
the beginning of the plain stream, for all sequences of read sizes and all cuts,
and whatever part of the set is missing;
`SeedFollowsStream`, the seed is the position; `FailsOnlyBetweenParts`, inside
an intact file the one failure is a read that begins where a part ends;
`HandlesReturned`; `DescriptorsOnlyLearn`, the cached descriptors only learn the
split flag and the volume of an IS5 file; `StepsEnd`, searches and reads end.

Properties of `FileSave`: `SaveTypeOK`; `CountersAgree`, bytes left and the
reader's position add up to the descriptor's size modulo the width, for damaged
archives too; `OutputIsPrefix`, failed calls leave only the beginning of the
file, those that meet a missing or damaged volume in its middle included (in `gap6`
and `headless` that is so, and its mutant, which skips a missing volume, is found
there alone); `FailureExplained`, an intact file is extracted unless memory or disk
failed, or one of two named conditions holds (a cut between two reads, an empty
file at the end of the volume); `RepeatGivesSame`; `ReaderProtocol`, the calls
are a client `VolumeReader` allows, so what is proved there holds here;
`KeepsPromise`, refinement of `Extraction`; `CallsReturn`.

Properties of `FindBytes`: `SearchRight`, the match found is the first, and none
is missed; `BeyondWhen`; `SearchEnds`. Of `SaveOld`: `OldOutputIsPrefix`, chunks are cut out as they were stored, markers inside of
them included; `WholeChunksExtract`, a file whose volumes end with its chunks is
extracted, and its searches stay inside the buffer; `BesideExtracts`, so is a
file beside the cabinets, without the end of its last marker, too;
`ReaderProtocol`; `KeepsOldPromise`; `OldCallsReturn`. Their premises, on chunks
that the search can tell apart (`Recognisable`) among others, are computed from
the archive alone.

Properties of `Headers`: `TypeOK`; `ArrayFits`, no component is written behind the
end of the growing array; `InOrder`, every entry of a list once, in its order;
`HeadersListed`, for directories with at most two usable headers; `FirstHeaderServes`,
opening succeeds exactly if there is a first header, which is that of `data1`
(`VolumeReader` counts the volumes of IS5 sets from there) and has the components
and file groups of its lists; `NothingLeaks`; `CallsReturn`.

Properties of `Strings`: `ConverterTypeOK`, never outside of source or target;
`TargetIsText`, however small the target and broken the source, no half of a
character and no surrogate without its partner is ever in it; `TextArrives`, in a
target of the size that was asked for, or that the longest codepoints need, the
text of the source is there whole; `NothingDropped`, the string buffers of the
headers are large enough; `NameArrives`, the name clients see is that of the
header, whatever is converted behind its terminator.

Properties of `Tool`: `KeepsBatch`, refinement of `Batch`; `DiskExplained`, between two
files the disk is what it was but for directories, whole files, and nothing where
the last attempt failed; `HealthyRunSucceeds`, a run in whose way nothing stands
extracts everything, each file to its own path, and exits with 0; `RunEnds`, the
run ends if the library returns from opening the cabinet (it does not when a list
closes on itself) and from each file asked for (it does not when links do), and no
group asked for goes up to `INT_MAX`: that loop is never left by `i <= last`.
`After` is the `i++`, with both outcomes of its overflow, going on from `INT_MIN` or
leaving the loop. `KeepsBatch` promises nothing of such groups.

### Bounds and why they are enough

`U32` (values of an unsigned) and `U16` (values of a 16 bit number and, as in the
code, the size of the buffers) are small so that counters wrap and files are
longer than a buffer: `U32` is 8 in the reader's run, where files of 7 and more
bytes wrap the seed and the sizes; `U16` is 8 in the extraction's run, where files of
11 bytes take two reads and a chunk length may exceed the buffer. `MaxCalls` = 2
is what a difference between calls takes; the cache only learns, and a second
call has seen all of it. Files of one to eleven bytes in volumes of three to
nine lie in up to three volumes, and every cut relative to the reads occurs.
In `SaveOld`, `U16` is 16 and `U32` 256: chunks of 2, 3 and 8 bytes, one with a
marker inside, in volumes of 9 to 60 bytes, so that volumes end between chunks,
inside of a chunk, inside of a marker and right behind one that is inside of a chunk. A marker has four bytes, so that seven
bytes hold one, and one that begins before it (`FindBytes`). Arrays begin with
two places (`FirstSize`, 16 in the code) and lists have up to five entries;
`MaxItems` (16) bounds the array only where a list closes on itself. `Slots` (71 in
the code, for the table and for the groups of a component) is 3.
`MaxStrings` is more than the strings a header needs.
The decoders treat units and bytes by comparing them with a few limits, so
strings over the numbers next to each limit (`Units`, `Bytes`, `Tails` of
`MCStrings`) reach every branch; a codepoint has at most four bytes, and targets of
1, 4 and 9 end inside characters of all lengths. `PATH_MAX` is 20 in `Tool`, which
some paths exceed by the directory, by the name or only when joined; two
overlapping groups and one without files, and names that collide once they are
converted, are in the cabinets. `MaxFaults` is 1: a failure is noticed, or not, by
the files after it, and a second one adds no way on. `INT_MAX` is 9, two more than
the last index of a file, and groups end before it, one below it and at it; `MaxTries`
(12, more files than any countable run tries) bounds only the run of a loop
without an end. `Begins` lists the names that
begin with another, because the test for "inside of the output directory"
compares characters.
The layouts are those that matter: cut in the middle, at a chunk, at a buffer, no
cut; a void last entry in an IS5 header; a volume where the file is neither
first nor last; a size that does not fit.

`CHECK_DEADLOCK FALSE` where a run really ends: after `MaxCalls` calls
(`FileSave`, `SaveOld`), when the search has ended (`FindBytes`), when a handle
is closed or the walk was given up (`Headers`), when a string is converted
(`Strings`), and when the tool has exited (`Tool`). `VolumeReader` checks deadlock.

### Fairness

`WF(Step)` in `VolumeReader` and `Tool`, `WF(Work)` in `FileSave` and `Headers`,
`WF(OldWork)` in `SaveOld` and `WF(Pass)` in `FindBytes`: a call, or a run of the
tool, that has begun is executed to its end by the single thread that made it. Clients need not call,
so `Open`, `Read`, `Ask` have no fairness, and `StepsEnd` and `CallsReturn`
speak of calls that have begun. `Converter` has no fairness: its passes are as many
as the source has units. `CallsReturn` excludes files whose links form a
cycle: the code recurses without end there, and `Headers!CallsReturn` excludes lists that close on
themselves, which are walked without end. `RunEnds` excludes both, and groups up to `INT_MAX`.

## Proofs

`VolumeReaderProofs` proves, for all archives, read sizes and widths allowed by
the assumptions of the modules (`U32Assumption`, `U16Assumption`,
`ReadSizesAssumption`, `ArchivesAssumption`, `NotReadAssumption`):

- `TypeCorrect`: `Spec => []TypeOK`. `TypeOK` alone is not inductive: closing a
  file keeps `handles` a number only if an open source is counted in it
  (`SourceCounted`), an external source has its file (`ExternalThere`), and the length of a finished buffer is its size only if
  what was read and what is left add up (`BufferFills`). `IInv` is the four
  together, with a lemma for each action.
- `HandlesAreReturned`: with complete headers `handles` is 1 when the reader has a
  source and 0 otherwise (`OnlySource`).
- `SeedIsPosition`: the seed and the length of the stream move together; the
  step needs that unsigned addition may be reduced early (`ModAdd`) and that
  opening a volume keeps the obfuscated flag.
- `CacheOnlyLearns`: the action property, from `IInv` for both steps.

It also has the lemma of the algorithm, `DeobfuscateInPieces`, for sequences of any
length.

`VolumeReaderProofs` proves also, from the same assumptions,

- `DeliversInOrder`: `Spec => []StreamInOrder`, and
- `FailsOnlyThere`: `Spec => []FailsOnlyBetweenParts`,

for every archive, so for files cut into any number of volumes, and for every
sequence of read sizes. The invariant, `StreamInv`, adds to `IInv` and the seed:
what the cache may have learnt of a laid file (`CacheSound`: it says nothing but
what the file table says, and the split flag and a volume that is not behind the
file where IS5 sets need them); and, while the reader is within a laid file, `Flow`. The
reader stands in a part (`AtPart`: its source is the part's volume, its position
the part's offset plus what was consumed of it, and what is left is the rest of
the part) or behind the last one (`AtEnd`); what is in the buffer are the next
stored bytes (`InStep`), what was delivered is the beginning of the plain ones
(`Delivered`); while parts remain the last one is not used up (`SomeLeft`), and a
file beside the cabinets has one part (`OnePart`). The core of the proof is that
opening a volume that has a part of the file puts the reader at the beginning of
that part (`OpenedAt`), through the last or the first entry of its header or, for a
file that is not split, the file table. Where the code would take the wrong entry,
the premises of `LaidFiles` exclude the file, and the findings below show what
becomes of it. `StreamInv` is not short, because of the three ways to the first
part (file table, IS5 search, file beside the cabinets). TLC has checked it, too.

`FindBytesProofs` proves, for every pattern and every buffer,

- `FindsFirst` (`SearchRight`). The invariant (`Reaches`) is that the part memchr
  looks at always reaches the end of the buffer, and that no match begins before it.
- `LeavesBufferWhen` (`BeyondWhen`): when memcmp looks behind the buffer. The window
  is not what is left of the buffer: it has shrunk by one for each first byte that
  was passed (`Shrunk`), none of which began a match, not even one that the end of
  the buffer cuts off. The step counts the first bytes before the place that is
  looked at (`Passed`).

`HeadersProofs` proves, for every directory and every table of a header, of the walk
over the offset lists

- `ArraysFit`: `ArrayFits` for all tables, cyclic ones included, and all first
  sizes; it needs that the offset is zero or that of an entry (`OnList`);
- `WalksInOrder`: `InOrder`, that the entries are taken once each and in order. The
  invariant (`OrderInv`) is that the walk is behind so many entries of a list that
  ends, or among the entries of one that does not, which it then never leaves. That a
  list from which zero is reached has an order at all is where the finiteness of the
  table is used: a walk longer than the table meets an entry twice;

and of the whole of `unshield_open` and `unshield_close`, from `KInv`,

- `HandleTypes` (`TypeOK`), `HandleArraysFit` (`ArrayFits`): a step of `Headers` is one
  of `OffsetLists` or leaves the walk alone (`WalkStep`), because a walk is started only
  with a table of the file that was read;
- `FirstServes` (`FirstHeaderServes`), `HeadersAreListed` (`HeadersListed`) and
  `NothingIsLost` (`NothingLeaks`), the latter two for directories with at most two
  usable headers, as the properties say: with three, finding 4 shows what is lost.

`KInv` has a part for each thing a later step relies on: how the headers are linked,
and that only the first can have a successor (`Chained`, what finding 4 is about);
which file is being read, and whether a `.hdr` or a `.cab` (`FileRead`); that without
a failure the headers so far are those of the directory and that the loop stopped
where the directory does (`Faithful`); whose lists the arrays hold (`Served`); and, for
each header, what is allocated: all of it for those that are linked, one or two
blocks for the one that is read, nothing for the others (`Allocations`), and while
closing for the two that can still be reached (`Closing`). `NamesDiffer` is the
assumption that no two files of a directory have one name.

`ConverterProofs` proves `TargetsFit` (`ConverterTypeOK`) for every string and every
size of the target, `NamesFit` (`NothingDropped`) for every name and whatever unit
follows it, and `CodepointsSurvive`: each codepoint but the surrogates is decoded
from its own UTF-8 and UTF-16 encodings as itself, to the last unit. For
`NamesFit` the invariant is that the target has room for three bytes for each unit
that is left and one more; a pair, which takes four, used up two units, and the
terminator takes one byte only.

`TextIsWritten` is `TargetIsText`, for every source, well-formed or not, and every
size of the target. It takes three steps. Every codepoint that is decoded is a
scalar value (`Scalar8Read`, `Scalar16Read`; `ReplacementScalar` for what is refused): `decode_utf8` tests for surrogates with a mask, which is shown to single out
55296 to 57343 among what the two, three and four byte forms can give (`NoSurrogate`).
What is written for a scalar value is one whole character (`BytesAreText`,
`UnitsAreText`). And whole characters behind text are text (`TextJoined8`,
`TextJoined16`), as where characters begin and end does not depend on what is before
them (`CharacterMoves`). A pass that has no room writes nothing (`PassKeepsText`), so
that there is no induction over the source.

`ToolProofs` proves `DiskIsExplained` (`DiskExplained`), for every command line,
cabinet and disk, and any number of failures. The invariant (`DInv`) says of every path
that the disk has there what the last attempt at it left (`Right`), at every place in
the run and not only between two files, but for the path that is tried (`Trying`):
between the call of the library and `unlink`, anything may be there. It is preserved
because `unlink` gets the path the library wrote to. That is not by itself so, as both
look the name up on the disk as it is then: the write does not change what the name
leads to, since what is written was no directory and the way there has only
directories (`TargetsStay`). That the last attempt is a well-defined one (`LastTry`)
is by well-foundedness of the numbers.

`FileSaveProofs` proves of the two calls, for all archives and from the same
assumptions and `BufferAssumption` (the reader allows every read up to
`BUFFER_SIZE`),

- `SaveTypesCorrect`: `SaveSpec => []SaveTypeOK`;
- `KeepsProtocol`: `SaveSpec => ReaderProtocol`, that every step of a call is a step
  its reader allows, or none. It makes `StreamInv` an invariant of the calls;
- `CountersStayTogether`: `SaveSpec => []CountersAgree`;
- `CopiesFaithfully`: when a file is copied (`unshield_file_save_raw`, or
  `unshield_file_save` of a file that is not compressed) and is laid as it should be,
  its output holds nothing but the beginning of its data, whichever volume, write or
  allocation fails, volumes that are missing, cut short or without headers included,
  and all of it when the call goes on to report success.

The first two have the invariant `SInv`: `StreamInv`, that the place in the call
decides what the reader does (`PcStatus`), that it reads the file the call is about
(`SameFile`) and that two bytes were read before they are taken for a length
(`LengthRead`). For the counters `CInv` adds `Ahead`, the bytes that were delivered and
that `bytes_left` still counts: `bytes_left` plus what was delivered, less `Ahead`, is
the size modulo the width at every place in the loop (`Summed`), and without the
modulo for a file that is copied, where no read is larger than what is left
(`CopiedSoFar`). `CopiesFaithfully` keeps this up to the exit of the call
(`AtExit`), so that no call asks for more than a laid file has, and the order of
the stream (`Delivered`) becomes that of the output.

`ExtractionProofs` proves of the two calls, from the same assumptions,

- `OutputStaysAPrefix` (`OutputIsPrefix`): the output, compressed or not, holds nothing
  but the beginning of the data of the file, whichever step fails, be it at a volume
  that is missing, cut short or without headers;
- `FailuresAreExplained` (`FailureExplained`): a call fails only for a reason the
  property names: with healthy volumes and memory an intact file is extracted,
  unless a volume is cut right behind a part (`AtEndOfVolume`) or between two reads
  (`CutBetweenReads`); and
- `ExtractionImplemented` (`KeepsPromise`): `FileSave` implements `Extraction`. Each
  step of a call is the step of the promise or stutters; only the last step of a
  call, which answers, and the first are steps of the promise.

The invariant (`XInv`) adds to that of `FileSaveProofs` what each answer depends on.
The cache says what the file table says, but for the volume and the split flag
(`TrueCache`), so that a call sees the flags of its file whatever was called before.
Links that are followed have the end of the file that was asked for (`SameEnds`), and
a file is read only when it is that end and valid (`Vetted`). Between two reads the
reader stands before one of the chunks of the file (`ChunksSoFar`): what was
delivered is the stored length of the chunks before it, what was digested is
their content, and `bytes_left` is the rest. The bytes in the buffer are the last
delivered (`BufferIsLast`), so that the length that is read is the one stored before the
chunk, and the chunk the one that inflates. A file that is copied is read in whole buffers but for the
last (`InBlocks`). At the exit, `ok` is refused only to a call something has happened to
(`ExitExplained`), and given only with all the data and the right digest (`Accepted`).
Where the argument runs over the chunks of a file or the links between files, it is by
the least counterexample, a fact about sets of numbers, as the induction theorems of
the library cannot be instantiated.

`SaveOldProofs` proves of `unshield_file_save_old`, from the same assumptions, for
every archive, so for any number of chunks, of markers inside of them and of
volumes they lie in,

- `OldOutputStaysAPrefix` (`OldOutputIsPrefix`): what is written of a sound file is
  the beginning of its content, whichever step fails;
- `WholeChunksAreExtracted` (`WholeChunksExtract`): a file whose volumes end with its
  chunks is extracted unless memory, disk or a volume failed, and the search for
  its markers never leaves the buffer;
- `BesideFilesAreExtracted` (`BesideExtracts`): so is a file beside the cabinets,
  with up to four bytes of its last marker missing; and
- `OldExtractionImplemented` (`KeepsOldPromise`): `SaveOld` implements `Extraction`.

The reader comes with all of its invariant (`OInv` has `StreamInv`), because its steps
keep that for every size that is asked for (`AnyReadStream`): a part is read in one
go, whatever its size. What `YInv` adds is, first, the place in the chunks
(`TakenTo`): the input buffer holds what is stored from the beginning of some chunk
on, up to where the reader is, and the output what the chunks before it inflate to.
The core is what the search finds in such a buffer (`NextChunkIs`). If the chunk and
its marker are in it, the first marker that is not before an odd byte is that one
(`ChunkEndIs`): one that begins in the chunk and is all in it is followed by an odd
byte of the chunk, none begins in the chunk and ends in its marker (`NoOverlap`), and
what follows the right one is the even first byte of the next chunk. If they are
not, nothing is found (`NoChunkEnd`), and the volume ends inside of the chunk. The
attempt to prove this showed the one layout where it is false: a
volume that ends right behind a marker that is inside of a chunk. There is no odd
byte behind it, and half of the chunk is inflated. `CutBehindMarker` names that
layout, `OldSoundFiles` excludes it, and one of the sets of the run (`v6_27`) has it: without
the exclusion TLC finds `OldOutputIsPrefix` violated there. A file beside the cabinets
is looked for in the volumes before (`BesideCache`, `FoundBeside`) and then read as one
part, with what is missing of its last marker (`FromBeside`, `BesideBytes`). A read begins
only where the volume has something left (`SomethingThere`), as the next one is opened
before; so there is no cut between two reads that loses a file. At the exit, `ok` is
refused only for a reason (`OldExitExplained`) and given only with the right size
(`OldAccepted`), which for a prefix of the content is all of it.

Only model-checked:

- `RepeatGivesSame`, which compares two calls of one run: in a damaged IS5 archive the
  first may learn what the second then knows;
- the `ReaderProtocol` of `SaveOld`: `ReadSizes` of the run has every size of a part, but
  for all archives it would have to be assumed, which is why `SaveOldProofs` goes
  without it;
- two of `Tool` (`HealthyRunSucceeds`, `KeepsBatch`: the names and jobs of a whole run
  are folds), `TextArrives` and `NameArrives` (the text of a whole string is an
  induction over data);
- all liveness (out of the prover's reach: it handles neither fairness nor ENABLED).

## Findings

1. `lib/file.c:538`: a read that begins where a part ends fails instead of opening
   the next volume (`AlignedSplit`).
2. `lib/file.c:421`: the last file of an IS5 set is never recognised as split at the
   end of its first volume (`LastFileSplit`).
3. `lib/file.c:983`: `unshield_file_save_raw` truncates the size to 32 bits and reports
   success (`HugeRaw`).
4. `lib/libunshield.c:427`: of three or more headers all but the first and the last
   are lost and never freed (`ThreeHeaders`).
5. `src/unshield.c:453`: characters of directory names are replaced with `-R`, too,
   which `man/unshield.1:51` says converts nothing (`RawNames`).

Seen on the way, without a text of the repository that says otherwise: when a
volume ends right behind an end of chunk marker that is inside of a chunk, the old
extraction takes it for the end (`lib/file.c:1224`); two files
that `-j` or `-L` give one path overwrite each other, and the run exits with 0; when
the directory of a file cannot be made out, `unlink` gets a buffer nobody wrote
(`src/unshield.c:552`); `-e` converts the name of the output directory with the rest
of the path; a group that does not exist is reported, but the exit status is 0; a
group whose last file is `INT_MAX` is never left by the comparison of the loop
(`src/unshield.c:588`); a name that `snprintf` cuts is extracted under the cut name,
with status 0. The
properties of `Tool` name the first two (`DiskExplained` follows the *last* attempt
at a path, and excludes `blind`) and `Tool!Legal` has the others as they are.

## Not modelled

- MD5 (`lib/md5`) is vendored; a digest is modelled by the digested content. Logging
  and the listings of the tool are formatting. `win32_msvc` is third party.
- The layout of the tables in a header file: an archive is a record with what the
  readers make of it, as is a cabinet of the tool. Getters change nothing, and are
  what their record says.
- The making of the filename pattern (`lib/libunshield.c:92-125`) and of paths in the
  library: `Headers` starts with the pattern, and looks names up whatever their case.
- The buffer loop of `src/unshield-deobfuscate.c`: it hands one buffer after the other
  to `unshield_deobfuscate` with the seed threaded through; `DeobfuscateInPieces`
  says that this gives the bytes of a single call.
- Names of cabinets before version 17 are returned as the bytes they are.
- The doubling of the old extraction's input buffer (`lib/file.c:1181`): the buffer is
  a sequence, and doubles until a part of the file fits.
- Failures of `fclose` and of the flush in it, which the code ignores: the answer `true`
  is about what `fwrite` accepted. A `tmpfile` that fails, which it does not check.
- Allocations whose failure the code does not check, and symbolic links in the
  output directory (`realpath` is modelled for directories and files alone).
- An external file is found by its index, its search by name is left out.
