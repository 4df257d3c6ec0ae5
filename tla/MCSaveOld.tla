----------------------------- MODULE MCSaveOld -----------------------------
(* Instances of SaveOld: volumes cut between chunks, inside of a chunk,    *)
(* inside of a marker and right behind one that is inside of a chunk;      *)
(* markers inside of chunks; files beside cabinets.                        *)
EXTENDS SaveOld, CabBuilder

(* A stand-in for zlib: every byte doubled, 14 is no start of a chunk.     *)
Twice(chunk) == [k \in 1 .. 2 * Len(chunk) |-> chunk[(k + 1) \div 2]]
MCInflate(chunk) == IF chunk[1] = 14 THEN <<-1>> ELSE Twice(chunk)

(* Chunks of 2, 3 and 8 bytes, the last one with a marker inside.          *)
Tricky == <<4, 0, 0, 255, 255, 7, 0, 8>>
Mixed ==
  <<Copied({}, Run(1, 3)),
    PackedOld({}, <<<<2, 0>>, <<4, 9, 0>>>>, MCInflate),
    PackedOld({"obfuscated"}, <<<<6, 255>>, Tricky>>, MCInflate),
    Copied({}, Run(4, 18)),
    PackedOld({}, <<<<8, 8>>>>, MCInflate)>>
Bad ==
  <<PackedOld({}, <<<<14, 1>>>>, Twice), PackedOld({}, <<<<2, 2>>, <<2>>>>, Twice),
    Link(1), Copied({"compressed"}, <<0, 0, 0, 0, 255>>), Copied({"invalid"}, Run(1, 1)),
    Link(6), Link(5), Copied({}, Run(1, 3))>>

(* Version, capacity and files of each set ...                             *)
Sets ==
  [v6_16 |-> <<6, 16, Mixed>>, v6_9 |-> <<6, 9, Mixed>>, v5_22 |-> <<5, 22, Mixed>>,
   v0_60 |-> <<0, 60, Mixed>>, v5_50 |-> <<5, 50, Mixed>>, v6_22 |-> <<6, 22, Mixed>>,
   v6_27 |-> <<6, 27, Mixed>>,
   missing |-> <<6, 16, Mixed>>, short |-> <<5, 16, Mixed>>, bad |-> <<6, 60, Bad>>,
   beside |-> <<6, 16, Mixed>>, beside5 |-> <<5, 60, Mixed>>, cut |-> <<6, 16, Mixed>>,
   mislaid |-> <<6, 9, Mixed>>]

Missing4(a, i) == SubSeq(a.stored[i], 1, Len(a.stored[i]) - 4)

(* ... and what is unusual in it or missing from it.                       *)
Damaged(name, a) ==
  CASE name = "missing" -> WithoutVolume(a, 3)
    [] name = "short" -> CutShort(a, 2, 1)
    [] name = "bad" -> [a EXCEPT !.files[1].expanded = 3, !.files[7].expanded = U32 + 3]
    [] name = "beside" -> Beside(Beside(a, 1, Missing4(a, 1)), 3, a.stored[3])
    [] name = "beside5" -> Beside(Beside(a, 4, SubSeq(a.stored[4], 1, 5)), 1, a.stored[1])
    [] name = "cut" -> Beside(Beside(a, 3, Run(4, 9)), 1, <<2, 0, 0, 0>>)
    [] name = "mislaid" -> [a EXCEPT !.vols[2].first.index = 0, !.vols[2].last.index = 0]
    [] OTHER -> a

Cabinets ==
  [name \in DOMAIN Sets |->
     Damaged(name, Build(Sets[name][1], Sets[name][2], Sets[name][3]))]

(* TLC keeps the value of Cabinets instead of building it at every use,    *)
(* and does not look into a LET when it measures coverage.                 *)
MCArchives == LET built == Cabinets IN [name \in DOMAIN built |-> built[name]]
=============================================================================
