----------------------------- MODULE CabBuilder -----------------------------
(***************************************************************************)
(* Small cabinet sets for the model checker: files laid one after the      *)
(* other into volumes of a fixed capacity, with the descriptors and volume *)
(* headers that the layout calls for, and the damage done to such sets.    *)
(* Nothing here models code of the repository.                             *)
(***************************************************************************)
EXTENDS Deobfuscation, FiniteSets

LOCAL INSTANCE SequencesExt
LOCAL INSTANCE FiniteSetsExt

(* What unshield_deobfuscate turns into the given bytes.                   *)
Obfuscated(flags, bytes) ==
  IF "obfuscated" \notin flags THEN bytes
  ELSE [k \in DOMAIN bytes |->
          LET rotated == (bytes[k] + ((k - 1) % 71)) % 256
          IN  Xor8(((rotated * 4) % 256) + (rotated \div 64), 213)]

(* A file to be stored: flags, the bytes before obfuscation and the        *)
(* content, both in pieces, and the chunks they are made of when it is     *)
(* compressed.                                                             *)
Starts(pieces) == [k \in 1 .. Len(pieces) + 1 |-> Len(FlattenSeq(SubSeq(pieces, 1, k - 1)))]
File(flags, chunks, stored, content) ==
  [flags |-> flags, chunks |-> chunks, stored |-> Obfuscated(flags, FlattenSeq(stored)),
   content |-> FlattenSeq(content), link |-> {},
   starts |-> [stored |-> Starts(stored), content |-> Starts(content)]]

Copied(flags, content) == File(flags, <<>>, <<content>>, <<content>>)
Packed(flags, chunks, Inflate(_)) ==
  File(flags \cup {"compressed"}, chunks,
       [k \in DOMAIN chunks |-> <<Len(chunks[k]), 0>> \o chunks[k]],
       [k \in DOMAIN chunks |-> Inflate(chunks[k])])

(* The same in the style of old archives: a marker ends each chunk.        *)
PackedOld(flags, chunks, Inflate(_)) ==
  File(flags \cup {"compressed"}, chunks,
       [k \in DOMAIN chunks |-> chunks[k] \o <<0, 0, 255, 255>>],
       [k \in DOMAIN chunks |-> Inflate(chunks[k])])

(* A file that says its data is that of file i.                            *)
Link(i) == [File({}, <<>>, <<>>, <<>>) EXCEPT !.link = {i}]

(* n bytes that no other file of the set has.                              *)
Run(tag, n) == [k \in 1 .. n |-> 16 * tag + k]

HeaderBytes(version) == IF version \in {0, 5} THEN 60 ELSE 84

Build(version, capacity, specs) ==
  LET n == Len(specs)
      ids == 0 .. n - 1
      spec(i) == specs[i + 1]
      size(i) == Len(spec(i).stored)
      stream == FlattenSeq([k \in 1 .. n |-> specs[k].stored])
      begin == [i \in ids |-> Len(FlattenSeq([k \in 1 .. i |-> specs[k].stored]))]
      lo(i) == 1 + (begin[i] \div capacity)
      hi(i) == IF size(i) = 0 THEN lo(i) ELSE 1 + ((begin[i] + size(i) - 1) \div capacity)
      volumes == 1 .. Max({hi(i) : i \in ids})
      start(i, v) == Min({size(i), Max({0, (v - 1) * capacity - begin[i]})})
      offset(i, v) == HeaderBytes(version) + (IF v = lo(i) THEN begin[i] % capacity ELSE 0)
      part(i, v) == start(i, v + 1) - start(i, v)
      within(v) == {i \in ids : lo(i) <= v /\ v <= hi(i) /\ spec(i).link = {}}
      edge(i, v) == [index |-> i, offset |-> offset(i, v), compressed |-> part(i, v),
                     expanded |-> IF "compressed" \in spec(i).flags
                                  THEN 2 * part(i, v) ELSE part(i, v)]
      split(i) == IF lo(i) < hi(i) /\ version # 5 THEN {"split"} ELSE {}
  IN  [version |-> version,
       count |-> n,
       files |-> [i \in ids |->
         [flags |-> spec(i).flags \cup split(i),
          volume |-> IF version \in {0, 5} THEN 0 ELSE lo(i),
          offset |-> offset(i, lo(i)),
          expanded |-> Len(spec(i).content), compressed |-> size(i),
          linked |-> spec(i).link # {},
          prev |-> IF spec(i).link = {} THEN 0 ELSE CHOOSE j \in spec(i).link : TRUE,
          md5 |-> spec(i).content]],
       vols |-> [v \in volumes |->
         [whole |-> TRUE,
          first |-> edge(Min(within(v)), v), last |-> edge(Max(within(v)), v),
          bytes |-> [k \in 1 .. HeaderBytes(version) |-> 0]
                    \o SubSeq(stream, (v - 1) * capacity + 1,
                              Min({Len(stream), v * capacity}))]],
       external |-> [i \in {} |-> <<>>],
       stored |-> [i \in ids |-> spec(i).stored],
       content |-> [i \in ids |-> spec(i).content],
       chunks |-> [i \in ids |-> spec(i).chunks],
       starts |-> [i \in ids |-> spec(i).starts],
       layout |-> [i \in ids |->
         [lo |-> lo(i), hi |-> hi(i),
          start |-> [v \in lo(i) .. hi(i) + 1 |->
                       IF v > hi(i) THEN size(i) ELSE start(i, v)],
          offset |-> [v \in lo(i) .. hi(i) |-> offset(i, v)]]]]

(* File i is not in its volume but beside it, with the given bytes.        *)
Beside(a, i, bytes) ==
  [a EXCEPT !.files[i].offset = Len(a.vols[a.layout[i].lo].bytes),
            !.external = [j \in DOMAIN @ \cup {i} |-> IF j = i THEN bytes ELSE @[j]]]

(* Damage.                                                                 *)
WithoutVolume(a, v) == [a EXCEPT !.vols = [w \in DOMAIN a.vols \ {v} |-> a.vols[w]]]
WithoutHeaders(a, v) == [a EXCEPT !.vols[v].whole = FALSE]
CutShort(a, v, n) ==
  [a EXCEPT !.vols[v].bytes = SubSeq(@, 1, Len(@) - n)]
=============================================================================
