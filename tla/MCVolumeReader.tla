--------------------------- MODULE MCVolumeReader ---------------------------
(* Instances of VolumeReader: sets of two to four volumes in which a file  *)
(* lies in one, two or three of them, cut inside and at the end of reads.  *)
EXTENDS VolumeReader, CabBuilder

Plain3 == <<Copied({}, Run(1, 2)), Copied({"obfuscated"}, Run(2, 7)), Copied({}, Run(3, 3))>>
Twice(b) == b \o b
Packed2 == <<Packed({"obfuscated"}, <<Run(4, 3)>>, Twice), Copied({}, <<>>),
             Packed({}, <<Run(6, 2)>>, Twice)>>

(* Version, capacity and files of each set ...                             *)
Sets ==
  [v6_3 |-> <<6, 3, Plain3>>, v6_4 |-> <<6, 4, Plain3>>, v6_9 |-> <<6, 9, Plain3>>,
   v5_3 |-> <<5, 3, Plain3>>, v5_4 |-> <<5, 4, Plain3>>, v5_9 |-> <<5, 9, Plain3>>,
   v0_12 |-> <<0, 12, Plain3>>, void5 |-> <<5, 3, Plain3>>,
   p6_4 |-> <<6, 4, Packed2>>, p5_4 |-> <<5, 4, Packed2>>, p5_5 |-> <<5, 5, Packed2>>,
   missing6 |-> <<6, 3, Plain3>>, missing5 |-> <<5, 3, Plain3>>,
   missing1 |-> <<5, 3, Plain3>>, headless |-> <<6, 4, Plain3>>,
   short6 |-> <<6, 4, Plain3>>, short5 |-> <<5, 5, Packed2>>,
   mislaid |-> <<6, 4, Plain3>>, overlong |-> <<6, 4, Plain3>>, nolast |-> <<5, 4, Plain3>>,
   beside6 |-> <<6, 9, Packed2>>, beside5 |-> <<5, 9, Plain3>>,
   huge |-> <<6, 20, <<Copied({"obfuscated"}, Run(8, 10))>>>>]

(* ... and what is unusual in it or missing from it.                       *)
Damaged(name, a) ==
  CASE name = "void5" ->
         [a EXCEPT !.vols[3].last.offset = 0, !.vols[3].last.expanded = 0,
                   !.vols[3].last.compressed = 0]
    [] name = "missing6" -> WithoutVolume(a, 2)
    [] name = "missing5" -> WithoutVolume(a, 3)
    [] name = "missing1" -> WithoutVolume(a, 1)
    [] name = "headless" -> WithoutHeaders(a, 2)
    [] name = "short6" -> CutShort(a, 2, 2)
    [] name = "short5" -> CutShort(a, 1, 1)
    [] name = "mislaid" -> [a EXCEPT !.vols[2].first.index = 2, !.vols[2].last.index = 2]
    [] name = "nolast" -> [a EXCEPT !.vols[1].last.index = U32 - 1]
    [] name = "overlong" -> [a EXCEPT !.files[2].expanded = 6]
    [] name = "beside6" -> Beside(a, 0, SubSeq(a.stored[0], 1, 3))
    [] name = "beside5" -> Beside(a, 2, Run(9, 2))
    [] OTHER -> a

Cabinets ==
  [name \in DOMAIN Sets |->
     Damaged(name, Build(Sets[name][1], Sets[name][2], Sets[name][3]))]

(* TLC keeps the value of Cabinets instead of building it at every use,    *)
(* and does not look into a LET when it measures coverage.                 *)
MCArchives == LET built == Cabinets IN [name \in DOMAIN built |-> built[name]]
=============================================================================
