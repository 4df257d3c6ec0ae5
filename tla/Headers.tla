------------------------------ MODULE Headers ------------------------------
(***************************************************************************)
(* The life of a handle: unshield_open reads the headers of a cabinet set  *)
(* into a linked list (unshield_read_headers, lib/libunshield.c), clients  *)
(* use the first of them, and unshield_close frees what was allocated.     *)
(*                                                                         *)
(* A disk of the constant Disks is the directory of the set: whether       *)
(* opendir succeeds (listable), and its files in the order of readdir,     *)
(* each with the number and the suffix of its name, whether upper and      *)
(* lower case are those of the filename pattern (exact), and the header    *)
(* that it has.  A header is what read_headers looks at: the size of the   *)
(* file, whether fread returns all of it (whole) and the signature is      *)
(* right, the version, cab_descriptor_size and _offset (descriptor, at),   *)
(* the offset of the file table (start), the numbers of directories and    *)
(* files, and the two tables of offsets.                                   *)
(*                                                                         *)
(* The Header object read from data<i> is known by the number i.           *)
(***************************************************************************)
EXTENDS OffsetLists

CONSTANTS Disks,        \* the disks, by number
          Versions,     \* the versions a client may force; -1 forces none
          MaxStrings    \* bound on the names that a client asks for

HeaderFile ==
  [size : Nat, whole : BOOLEAN, signature : BOOLEAN, version : Nat, descriptor : Nat,
   at : Nat, start : Nat, dirs : Nat, files : Nat, components : Tables, groups : Tables]
DirectoryEntry ==
  [index : Nat, suffix : {"hdr", "cab"}, exact : BOOLEAN, header : HeaderFile]
Directory == [listable : BOOLEAN, entries : Seq(DirectoryEntry)]

(* No two files of a directory have the same name.                         *)
NamesDiffer(d) ==
  \A j, k \in DOMAIN d.entries :
    LET a == d.entries[j]  b == d.entries[k]
    IN  a.exact /\ b.exact /\ a.index = b.index /\ a.suffix = b.suffix => j = k

ASSUME DisksAssumption ==
  \A d \in DOMAIN Disks : Disks[d] \in Directory /\ NamesDiffer(Disks[d])
ASSUME VersionsAssumption == Versions \subseteq Int

VARIABLES disk,     \* which of the disks; never changes
          forced,   \* the version that the client forced
          pc,       \* start, hdr, cab, read, parse, components, groups, error, end,
                    \* open, failed, closing, closed or aborted
          loc,      \* index, iterate and previous, the file and whether it is open
          list,     \* unshield->header_list
          header,   \* the Header objects
          heap,     \* the number of allocated objects of each kind, by header
          fault     \* memory was short or a file could not be opened
handleVars == <<disk, forced, pc, loc, list, header, heap, fault>>
headerVars == <<table, slot, offset, items, available, walk, handleVars>>

Files == Disks[disk].entries
Numbers == 1 .. Len(Files) + 1
Kind == {"header", "data", "table", "components", "component", "groups", "group",
         "string", "descriptors", "descriptor"}
NewHeader == [next |-> 0, major |-> 0, files |-> 0, components |-> <<>>, groups |-> <<>>]

Init ==
  /\ disk \in DOMAIN Disks /\ forced \in Versions
  /\ pc = "start"
  /\ loc = [index |-> 0, iterate |-> TRUE, previous |-> 0, file |-> 0, open |-> FALSE]
  /\ list = 0
  /\ header = [h \in Numbers |-> NewHeader]
  /\ heap = [h \in Numbers |-> [k \in Kind |-> 0]]
  /\ fault = FALSE
  /\ table = (CHOOSE t \in Tables : TRUE) /\ WalkInit

H == loc.index
Allocated(kind, n) == [heap EXCEPT ![H][kind] = @ + n]
-----------------------------------------------------------------------------
(* unshield_fopen_for_reading: the first file of the directory whose name  *)
(* is the one asked for but for upper and lower case, or that very name    *)
(* when the directory cannot be read.                                      *)
Named(d, i, suffix) ==
  {k \in DOMAIN d.entries : d.entries[k].index = i /\ d.entries[k].suffix = suffix}
Lookup(d, i, suffix) ==
  IF d.listable
  THEN {k \in Named(d, i, suffix) : \A j \in Named(d, i, suffix) : k <= j}
  ELSE {k \in Named(d, i, suffix) : d.entries[k].exact}

Start ==
  /\ pc = "start"
  /\ pc' = "hdr"
  /\ loc' = [loc EXCEPT !.index = 1]
  /\ UNCHANGED <<disk, forced, list, header, heap, fault, walkVars>>

(* for (i = 1; iterate; i++): the end of a pass, l being the locals.       *)
Onwards(l) ==
  IF l.iterate
  THEN pc' = "hdr" /\ loc' = [l EXCEPT !.index = @ + 1]
  ELSE pc' = "end" /\ loc' = l
StoppedNot(l) == l   \* mutant
Stopped(l) == [l EXCEPT !.iterate = FALSE]

(* A file was found; the loop ends with the first .hdr file.               *)
Open(suffix, iterate) ==
  \E k \in Lookup(Disks[disk], H, suffix) :
    /\ loc' = [loc EXCEPT !.file = k, !.open = TRUE, !.iterate = iterate]
    /\ pc' = "read"
    /\ heap' = Allocated("header", 1)
    /\ UNCHANGED <<disk, forced, list, header, fault, walkVars>>

OpenHdr == pc = "hdr" /\ Open("hdr", FALSE)
OpenCab == pc = "cab" /\ Open("cab", loc.iterate)

NoFile(suffix) ==
  /\ fault' = (fault \/ Lookup(Disks[disk], H, suffix) # {})
  /\ UNCHANGED <<disk, forced, list, header, heap, walkVars>>

NoHdr == pc = "hdr" /\ NoFile("hdr") /\ pc' = "cab" /\ UNCHANGED loc
NoCab == pc = "cab" /\ NoFile("cab") /\ Onwards(Stopped(loc))
-----------------------------------------------------------------------------
Found == Files[loc.file].header
Error == pc' = "error" /\ UNCHANGED <<disk, forced, list, header, walkVars>>
CloseFile == loc' = [loc EXCEPT !.open = FALSE]

TooSmall ==
  /\ pc = "read" /\ Found.size < 4
  /\ Error /\ CloseFile
  /\ UNCHANGED <<heap, fault>>

NoDataMemory ==
  /\ pc = "read" /\ Found.size >= 4
  /\ Error /\ CloseFile
  /\ fault' = TRUE
  /\ UNCHANGED heap

ReadShort ==
  /\ pc = "read" /\ Found.size >= 4 /\ ~Found.whole
  /\ Error /\ CloseFile
  /\ heap' = Allocated("data", 1)
  /\ UNCHANGED fault

ReadData ==
  /\ pc = "read" /\ Found.size >= 4 /\ Found.whole
  /\ pc' = "parse" /\ CloseFile
  /\ heap' = Allocated("data", 1)
  /\ UNCHANGED <<disk, forced, list, header, fault, walkVars>>

(* The file table: where it begins and how many bytes it has.              *)
TableStart(h) == h.at + h.start
TableSize(h) == 4 * (h.dirs + h.files)
TableOutsideStrict(h) ==   \* mutant
  TableStart(h) > h.size \/ TableSize(h) >= h.size - TableStart(h)
TableOutside(h) == TableStart(h) > h.size \/ TableSize(h) > h.size - TableStart(h)

(* "Invalid file signature", "No CAB descriptor available!", "File table   *)
(* is empty" and "File table ... is out of bounds".                        *)
UnusableBefore(h) == ~h.signature \/ h.descriptor = 0   \* mutant
Unusable(h) ==
  ~h.signature \/ h.descriptor = 0 \/ h.dirs + h.files = 0 \/ TableOutside(h)

BadHeader ==
  /\ pc = "parse" /\ Unusable(Found)
  /\ Error
  /\ UNCHANGED <<loc, heap, fault>>

NoTableMemory ==
  /\ pc = "parse" /\ ~Unusable(Found)
  /\ Error
  /\ fault' = TRUE
  /\ UNCHANGED <<loc, heap>>

(* The version as unshield counts them, from the one of the file.          *)
MajorVersion(version) ==
  LET kind == version \div 16777216
  IN  IF forced # -1 THEN forced
      ELSE IF kind = 1 THEN (version \div 4096) % 16
      ELSE IF kind \in {2, 4} THEN (version % 65536) \div 100
      ELSE 0

Parse ==
  /\ pc = "parse" /\ ~Unusable(Found)
  /\ pc' = "components"
  /\ header' = [header EXCEPT ![H] = [NewHeader EXCEPT !.major = MajorVersion(Found.version),
                                                       !.files = Found.files]]
  /\ heap' = [heap EXCEPT ![H].table = @ + 1, ![H].components = @ + 1]
  /\ StartWalk(Found.components)
  /\ UNCHANGED <<disk, forced, loc, list, fault>>
-----------------------------------------------------------------------------
(* The walks.  From version 17 on names are converted and each is kept in  *)
(* a string buffer of the header.                                          *)
IsUnicode(h) == header[h].major >= 17
Strings(h, n) == IF IsUnicode(h) THEN n ELSE 0
Object == IF pc = "components" THEN "component" ELSE "group"

MakeObject ==
  /\ pc \in {"components", "groups"}
  /\ Take
  /\ heap' = [heap EXCEPT ![H][Object] = @ + 1,
                          ![H].string = @ + Strings(H, 1 + Entry.item.groups)]
  /\ UNCHANGED <<disk, forced, pc, loc, list, header, fault>>

WalkOn ==
  /\ pc \in {"components", "groups"}
  /\ NextSlot \/ WalkEnd
  /\ UNCHANGED handleVars

Crash ==
  /\ pc = "components"
  /\ Abort
  /\ pc' = "aborted"
  /\ UNCHANGED <<disk, forced, loc, list, header, heap, fault>>

ComponentsDone ==
  /\ pc = "components" /\ walk = "done"
  /\ pc' = "groups"
  /\ header' = [header EXCEPT ![H].components = items]
  /\ heap' = Allocated("groups", 1)
  /\ StartWalk(Found.groups)
  /\ UNCHANGED <<disk, forced, loc, list, fault>>

(* The header is appended to the list, behind the first.                   *)
PreviousAfter == IF loc.previous = 0 THEN H ELSE loc.previous

Link ==
  /\ pc = "groups" /\ walk = "done"
  /\ LET done == [header EXCEPT ![H].groups = items]
     IN  IF loc.previous = 0
         THEN list' = H /\ header' = done
         ELSE list' = list /\ header' = [done EXCEPT ![loc.previous].next = H]
  /\ Onwards([loc EXCEPT !.previous = PreviousAfter])
  /\ UNCHANGED <<disk, forced, heap, fault, walkVars>>

DisposedKeepsData == {"header"}   \* mutant
Disposed == {"header", "data"}
Dispose ==
  /\ pc = "error"
  /\ Onwards(Stopped(loc))
  /\ heap' = [heap EXCEPT ![H] = [k \in Kind |-> IF k \in Disposed THEN 0 ELSE @[k]]]
  /\ UNCHANGED <<disk, forced, list, header, fault, walkVars>>

End ==
  /\ pc = "end"
  /\ pc' = IF list # 0 THEN "open" ELSE "failed"
  /\ UNCHANGED <<disk, forced, loc, list, header, heap, fault, walkVars>>
-----------------------------------------------------------------------------
(* The clients, all of them of the first header only: a name (of a file, a *)
(* directory), a file descriptor.                                          *)
GetName ==
  /\ pc = "open"
  /\ heap[list].string < MaxStrings
  /\ heap' = [heap EXCEPT ![list].string = @ + Strings(list, 1)]
  /\ UNCHANGED <<disk, forced, pc, loc, list, header, fault, walkVars>>

GetDescriptor ==
  /\ pc = "open"
  /\ heap[list].descriptor < header[list].files
  /\ heap' = [heap EXCEPT ![list].descriptors = 1, ![list].descriptor = @ + 1]
  /\ UNCHANGED <<disk, forced, pc, loc, list, header, fault, walkVars>>

(* unshield_close, one header each step.                                   *)
BeginClose ==
  /\ pc = "open"
  /\ pc' = "closing"
  /\ loc' = [loc EXCEPT !.index = list]
  /\ UNCHANGED <<disk, forced, list, header, heap, fault, walkVars>>

Destroyed(h) ==
  [k \in Kind |->
     CASE k = "component" -> Len(header[h].components)
       [] k = "group" -> Len(header[h].groups)
       [] k = "descriptor" -> IF heap[h].descriptors = 1 THEN heap[h].descriptor ELSE 0
       [] OTHER -> heap[h][k]]

CloseHeader ==
  /\ pc = "closing" /\ H # 0
  /\ heap' = [heap EXCEPT ![H] = [k \in Kind |-> @[k] - Destroyed(H)[k]]]
  /\ loc' = [loc EXCEPT !.index = header[H].next]
  /\ UNCHANGED <<disk, forced, pc, list, header, fault, walkVars>>

Close ==
  /\ pc = "closing" /\ H = 0
  /\ pc' = "closed"
  /\ list' = 0
  /\ UNCHANGED <<disk, forced, loc, header, heap, fault, walkVars>>

Work ==
  \/ Start \/ OpenHdr \/ OpenCab \/ NoHdr \/ NoCab
  \/ TooSmall \/ NoDataMemory \/ ReadShort \/ ReadData
  \/ BadHeader \/ NoTableMemory \/ Parse
  \/ MakeObject \/ WalkOn \/ Crash \/ ComponentsDone \/ Link \/ Dispose \/ End
  \/ CloseHeader \/ Close

Next == Work \/ GetName \/ GetDescriptor \/ BeginClose
Spec == Init /\ [][Next]_headerVars /\ WF_headerVars(Work)
-----------------------------------------------------------------------------
(* What a client may expect, from the disk alone: the file that header i   *)
(* is read from, and how many headers there are before a file that is      *)
(* missing, cannot be used, or is a .hdr file, which is the last.          *)
Visible(d, i, suffix) ==
  {k \in DOMAIN d.entries :
     /\ d.entries[k].index = i /\ d.entries[k].suffix = suffix
     /\ d.listable \/ d.entries[k].exact}
HasHdr(d, i) == Visible(d, i, "hdr") # {}
Source(d, i) ==
  LET files == Visible(d, i, IF HasHdr(d, i) THEN "hdr" ELSE "cab")
  IN  {d.entries[k].header : k \in {k \in files : \A j \in files : k <= j}}

Usable(h) ==
  /\ h.size >= 4 /\ h.whole /\ h.signature /\ h.descriptor # 0
  /\ h.dirs + h.files > 0
  /\ h.at + h.start + 4 * (h.dirs + h.files) <= h.size

Serves(d, i) == \E h \in Source(d, i) : Usable(h)
Amount(d, n) ==
  /\ \A i \in 1 .. n : Serves(d, i)
  /\ \A i \in 1 .. n - 1 : ~HasHdr(d, i)
  /\ (n > 0 /\ HasHdr(d, n)) \/ ~Serves(d, n + 1)
Present(d) == CHOOSE n \in 0 .. Len(d.entries) : Amount(d, n)
UpTo(n) == [i \in 1 .. n |-> i]

(* The headers in the list.                                                *)
Listing ==
  LET from[k \in Numbers] ==
        IF k = 1 THEN list ELSE IF from[k - 1] = 0 THEN 0 ELSE header[from[k - 1]].next
  IN  SubSeq(from, 1, Cardinality({k \in DOMAIN from : from[k] # 0}))

Refuses(t) == \E o \in DOMAIN t.nodes : Refused(t.nodes[o].item)
IsProper(d) ==
  \A k \in DOMAIN d.entries :
    LET h == d.entries[k].header
    IN  ~Cyclic(h.components) /\ ~Cyclic(h.groups) /\ ~Refuses(h.components)
-----------------------------------------------------------------------------
(* The type of the state, and a file is open only while it is read.        *)
TypeOK ==
  /\ pc \in {"start", "hdr", "cab", "read", "parse", "components", "groups", "error",
             "end", "open", "failed", "closing", "closed", "aborted"}
  /\ loc.index \in Numbers \cup {0} /\ loc.previous \in Numbers \cup {0}
  /\ list \in Numbers \cup {0}
  /\ \A h \in Numbers : \A k \in Kind : heap[h][k] \in Nat
  /\ loc.open <=> pc = "read"

(* The list has the headers of a set in their order, all of them unless a  *)
(* file could not be opened or memory was short; of sets with at most two  *)
(* headers (AllHeadersListed is about the others).                         *)
AtMostTwo(d) ==
  \A k \in DOMAIN d.entries : d.entries[k].index > 2 => ~Usable(d.entries[k].header)
HeadersListed ==
  pc = "open" /\ AtMostTwo(Disks[disk]) =>
    /\ Listing = UpTo(Len(Listing))
    /\ fault \/ Len(Listing) = Present(Disks[disk])

(* Opening succeeds if there is a first header, and all that clients look  *)
(* at is of data1: the volumes of IS5 sets are counted from its number.    *)
(* Its components and file groups are those of its lists.                  *)
FirstHeaderServes ==
  /\ pc = "failed" => fault \/ Present(Disks[disk]) = 0
  /\ pc = "open" =>
       /\ list = 1
       /\ \E k \in DOMAIN Files :
            /\ Files[k].index = 1
            /\ header[list].components = AllEntries(Files[k].header.components)
            /\ header[list].groups = AllEntries(Files[k].header.groups)

(* When the handle is closed, or opening has failed, all that was          *)
(* allocated has been freed; of sets with at most two headers.             *)
NothingLeaks ==
  pc \in {"failed", "closed"} /\ AtMostTwo(Disks[disk]) =>
    \A h \in Numbers : \A k \in Kind : heap[h][k] = 0

(* "Read all header files"                                                 *)
AllHeadersListed ==
  pc = "open" /\ ~fault => Listing = UpTo(Present(Disks[disk]))

(* unshield_open and unshield_close return, unless a list closes on itself *)
(* or a component makes the program abort.                                 *)
CallsReturn ==
  IsProper(Disks[disk]) =>
    /\ pc = "start" ~> pc \in {"open", "failed"}
    /\ pc = "closing" ~> pc = "closed"
=============================================================================
