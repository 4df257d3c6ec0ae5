----------------------------- MODULE MCFileSave -----------------------------
(* Instances of FileSave: sets of a few volumes with copied, compressed,   *)
(* obfuscated, linked, invalid and empty files, whole and damaged.         *)
EXTENDS FileSave, CabBuilder

(* A stand-in for zlib: every byte doubled, 15 is no start of a chunk.     *)
Twice(chunk) == [k \in 1 .. 2 * Len(chunk) |-> chunk[(k + 1) \div 2]]
MCInflate(chunk) == IF chunk[1] = 15 THEN <<-1>> ELSE Twice(chunk)

Mixed ==
  <<Copied({}, Run(1, 3)),
    Packed({"obfuscated"}, <<Run(2, 2), Run(3, 3)>>, MCInflate),
    Copied({"obfuscated"}, Run(4, 11)),
    Link(1)>>
Odd ==
  <<Copied({"invalid"}, Run(1, 1)), Link(3), Packed({}, <<Run(5, 4)>>, MCInflate),
    Link(2), Copied({}, <<>>)>>
Cycle == <<Copied({}, Run(1, 3)), Link(2), Link(1)>>

Bad ==
  <<Packed({}, <<<<1, 2>>, <<15>>>>, Twice), Packed({}, <<Run(1, 5)>>, Twice),
    Copied({"compressed"}, <<0, 0, 1>>)>>

(* Version, capacity and files of each set ...                             *)
Sets ==
  [v6_5 |-> <<6, 5, Mixed>>, v6_4 |-> <<6, 4, Mixed>>, v5_5 |-> <<5, 5, Mixed>>,
   v5_6 |-> <<5, 6, Mixed>>, v5_7 |-> <<5, 7, Mixed>>,
   odd6 |-> <<6, 4, Odd>>, odd5 |-> <<5, 20, Odd>>, cycle |-> <<6, 20, Cycle>>,
   missing6 |-> <<6, 5, Mixed>>, gap6 |-> <<6, 4, Mixed>>, headless |-> <<6, 4, Mixed>>,
   short5 |-> <<5, 5, Mixed>>, badsize |-> <<6, 4, Mixed>>, badsum |-> <<6, 5, Mixed>>,
   badchunk |-> <<6, 20, Bad>>]

(* ... and the damage done to it: volumes that are gone or have no headers *)
(* at the end, at the beginning and in the middle of files, and others.    *)
Damaged(name, a) ==
  CASE name = "missing6" -> WithoutVolume(a, 3)
    [] name = "gap6" -> WithoutVolume(a, 2)
    [] name = "headless" -> WithoutHeaders(a, 5)
    [] name = "short5" -> CutShort(a, 3, 1)
    [] name = "badsize" -> [a EXCEPT !.files[1].compressed = 8, !.files[2].expanded = 10]
    [] name = "badsum" -> [a EXCEPT !.files[0].md5 = <<1, 2, 3>>]
    [] OTHER -> a

Cabinets ==
  [name \in DOMAIN Sets |->
     Damaged(name, Build(Sets[name][1], Sets[name][2], Sets[name][3]))]

(* TLC keeps the value of Cabinets instead of building it at every use,    *)
(* and does not look into a LET when it measures coverage.                 *)
MCArchives == LET built == Cabinets IN [name \in DOMAIN built |-> built[name]]
-----------------------------------------------------------------------------
(* A copied file of 13 bytes cut after 8, the size of the buffer.          *)
AlignedArchives ==
  [c \in {"aligned"} |-> Build(6, 8, <<Copied({}, Run(1, 13)), Copied({}, Run(2, 2))>>)]

(* An IS5 set whose last file lies in two volumes.                         *)
LastSplitArchives ==
  [c \in {"lastsplit"} |-> Build(5, 7, <<Copied({}, Run(1, 3)), Copied({}, Run(2, 6))>>)]

(* A file whose size does not fit an unsigned (U32 = 8 in that run).       *)
HugeArchives == [c \in {"huge"} |-> Build(6, 20, <<Copied({}, Run(1, 11))>>)]
=============================================================================
