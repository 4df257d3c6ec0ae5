----------------------------- MODULE MCHeaders -----------------------------
(* Directories with the headers where and how they may be: one .hdr file,  *)
(* headers in the cabinets, damaged ones, names in the other case.  And    *)
(* one header with each of 168 tables of three slots over five entries:    *)
(* one list, two that end in the same entries, lists that close on         *)
(* themselves, and an entry of which no component can be made.             *)
EXTENDS Headers

MCItems == [name : 1 .. 5, groups : {0, 1, 4}]

Node(name, groups, next) == [item |-> [name |-> name, groups |-> groups], next |-> next]
None == [heads |-> <<0, 0, 0>>, nodes |-> <<Node(1, 0, 0)>>]
Few == [heads |-> <<0, 2, 0>>, nodes |-> <<Node(1, 0, 0), Node(2, 1, 0)>>]
Many ==
  [heads |-> <<3, 0, 2>>,
   nodes |-> <<Node(1, 0, 4), Node(2, 0, 0), Node(3, 1, 1), Node(4, 0, 0)>>]
Groups == [heads |-> <<1, 2, 0>>, nodes |-> <<Node(1, 0, 0), Node(2, 0, 0)>>]
Loop == [heads |-> <<1, 0, 0>>, nodes |-> <<Node(1, 0, 2), Node(2, 0, 1)>>]
Big == [heads |-> <<1, 0, 0>>, nodes |-> <<Node(1, 0, 2), Node(2, 4, 0)>>]

Nexts ==
  <<<<2, 3, 4, 5, 0>>, <<3, 4, 5, 0, 0>>, <<4, 3, 4, 0, 0>>, <<0, 0, 0, 0, 0>>,
    <<2, 1, 5, 5, 0>>, <<5, 3, 4, 4, 0>>>>
Heads == <<0, 1, 4>>
List(heads, next, refused) ==
  [heads |-> heads,
   nodes |-> [k \in 1 .. 5 |-> Node(k, IF k = refused THEN 4 ELSE 0, Nexts[next][k])]]
Lists ==
  [k \in 1 .. 162 |->
     List([j \in 1 .. 3 |-> Heads[((k \div (3 ^ (j - 1))) % 3) + 1]],
          ((k - 1) \div 27) + 1, 0)]
    \o [k \in 1 .. 6 |-> List(<<1, 4, 2>>, k, 3)]
MCTables ==
  {None, Few, Many, Groups, Loop, Big} \cup {Lists[k] : k \in DOMAIN Lists}
MCVersions == {-1, 5}

Good ==
  [size |-> 40, whole |-> TRUE, signature |-> TRUE, version |-> 16797702, descriptor |-> 9,
   at |-> 20, start |-> 8, dirs |-> 1, files |-> 2, components |-> Many, groups |-> Groups]
Plain == [Good EXCEPT !.components = Few, !.groups = None]
NoHeader == [Good EXCEPT !.descriptor = 0]

File(index, suffix, h) == [index |-> index, suffix |-> suffix, exact |-> TRUE, header |-> h]
Other(index, suffix, h) == [index |-> index, suffix |-> suffix, exact |-> FALSE, header |-> h]
Dir(files) == [listable |-> TRUE, entries |-> files]
OneFile(h) == Dir(<<File(2, "cab", NoHeader), File(1, "cab", h)>>)

Layouts ==
  <<Dir(<<File(1, "hdr", Good), File(1, "cab", NoHeader), File(2, "cab", NoHeader)>>),
   OneFile(Plain),
   Dir(<<File(1, "cab", Good), File(2, "cab", Plain), File(3, "cab", NoHeader)>>),
   Dir(<<File(3, "cab", NoHeader), File(2, "hdr", Plain), File(1, "cab", Plain)>>),
   Dir(<<Other(1, "cab", Plain), File(2, "cab", NoHeader), Other(1, "hdr", Good)>>),
   Dir(<<Other(1, "hdr", Good), File(1, "hdr", Plain)>>),
   [listable |-> FALSE, entries |-> <<Other(1, "hdr", Good), File(1, "cab", Plain)>>],
   OneFile([Good EXCEPT !.version = 67110664]),
   OneFile([Plain EXCEPT !.version = 0, !.dirs = 0]),
   Dir(<<File(1, "hdr", NoHeader), File(1, "cab", Good)>>),
   OneFile([Plain EXCEPT !.dirs = 0, !.files = 0]),
   OneFile([Plain EXCEPT !.size = 3]),
   OneFile([Plain EXCEPT !.whole = FALSE]),
   OneFile([Plain EXCEPT !.signature = FALSE]),
   OneFile([Plain EXCEPT !.files = 3]),
   OneFile([Plain EXCEPT !.start = 24]),
   Dir(<<File(1, "cab", Plain), File(2, "cab", [Good EXCEPT !.files = 3])>>),
   OneFile([Plain EXCEPT !.components = Loop]),
   OneFile([Plain EXCEPT !.components = Big]),
   Dir(<<>>)>>

MCDisks ==
  LET lists == Lists
  IN  Layouts
        \o [k \in DOMAIN lists |-> OneFile([Plain EXCEPT !.components = lists[k], !.files = 1])]

(* A set of three cabinets with a header in each.                          *)
MCThree == <<Dir([k \in 1 .. 3 |-> File(k, "cab", Plain)])>>
=============================================================================
