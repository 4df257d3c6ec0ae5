---------------------------- MODULE OffsetLists ----------------------------
(***************************************************************************)
(* The walk of unshield_header_get_components and of                       *)
(* unshield_header_get_file_groups (lib/libunshield.c) over a table of     *)
(* offsets, each of them zero or the first of a list in the header's data; *)
(* every entry of every list goes into an array that doubles when it is    *)
(* full.  The two functions differ in the table and in the object made of  *)
(* an entry only.                                                          *)
(*                                                                         *)
(* A table is a record: heads are the offsets, nodes is the data: what an  *)
(* entry of the list describes (item) and where the next one is (next).    *)
(* An item has a name and the number of its file groups, which is zero if  *)
(* it is not a component.                                                  *)
(***************************************************************************)
EXTENDS Integers, Sequences, FiniteSets

CONSTANTS Tables,       \* the tables walked
          Items,        \* what the entries describe
          Slots,        \* MAX_COMPONENT_COUNT, MAX_FILE_GROUP_COUNT
          FirstSize,    \* the size the array begins with
          MaxItems      \* bound: a list that closes on itself has no end

ASSUME ItemsAssumption == \A item \in Items : item.groups \in Nat
ASSUME SizeAssumption == Slots \in Nat /\ FirstSize \in Nat \ {0}

IsTable(t) ==
  /\ t.heads \in [1 .. Slots -> Nat]
  /\ t.nodes \in [DOMAIN t.nodes -> [item : Items, next : Nat]]
  /\ IsFiniteSet(DOMAIN t.nodes) /\ 0 \notin DOMAIN t.nodes
  /\ \A s \in 1 .. Slots : t.heads[s] \in {0} \cup DOMAIN t.nodes
  /\ \A o \in DOMAIN t.nodes : t.nodes[o].next \in {0} \cup DOMAIN t.nodes

ASSUME TablesAssumption == \A t \in Tables : IsTable(t)

VARIABLES table,        \* the table walked
          slot,         \* i, from 1
          offset,       \* list.next_offset
          items,        \* what is in the array
          available,    \* the size of the array
          walk          \* idle, walking, done or aborted
walkVars == <<table, slot, offset, items, available, walk>>

StartWalk(t) ==
  /\ walk \in {"idle", "done"}
  /\ table' = t
  /\ slot' = 1
  /\ offset' = 0
  /\ items' = <<>>
  /\ available' = FirstSize
  /\ walk' = "walking"

WalkInit ==
  /\ table \in Tables
  /\ slot = 1
  /\ offset = 0
  /\ items = <<>>
  /\ available = FirstSize
  /\ walk = "idle"

(* The list before is at its end: on to the next of the table.             *)
NextSlot ==
  /\ walk = "walking" /\ offset = 0 /\ slot <= Slots
  /\ offset' = table.heads[slot]
  /\ slot' = slot + 1
  /\ UNCHANGED <<table, items, available, walk>>

(* unshield_component_new makes no component with more groups than that.   *)
Refused(item) == item.groups > Slots

(* The array has room for one item more.                                   *)
GrownLate == IF Len(items) > available THEN 2 * available ELSE available   \* mutant
Grown == IF Len(items) = available THEN 2 * available ELSE available

Entry == table.nodes[offset]
FollowingSkips ==   \* mutant
  IF Entry.next = 0 THEN 0 ELSE table.nodes[Entry.next].next
Following == Entry.next

Take ==
  /\ walk = "walking" /\ offset # 0 /\ ~Refused(Entry.item)
  /\ Len(items) < MaxItems
  /\ available' = Grown
  /\ items' = Append(items, Entry.item)
  /\ offset' = Following
  /\ UNCHANGED <<table, slot, walk>>

Abort ==
  /\ walk = "walking" /\ offset # 0 /\ Refused(Entry.item)
  /\ available' = Grown
  /\ walk' = "aborted"
  /\ UNCHANGED <<table, slot, offset, items>>

AfterLastLate == slot > Slots + 1   \* mutant
AfterLast == slot > Slots
WalkEnd ==
  /\ walk = "walking" /\ offset = 0 /\ AfterLast
  /\ walk' = "done"
  /\ UNCHANGED <<table, slot, offset, items, available>>

Walk == NextSlot \/ Take \/ Abort \/ WalkEnd
WalkNext == Walk \/ \E t \in Tables : StartWalk(t)
WalkSpec == WalkInit /\ [][WalkNext]_walkVars
-----------------------------------------------------------------------------
(* The list of a table that begins at offset o, as the data has it: the    *)
(* offsets on the way and, without a cycle, what their entries describe.   *)
After(t, o) == IF o = 0 THEN 0 ELSE t.nodes[o].next
Way(t, o) ==
  LET at[k \in 0 .. Cardinality(DOMAIN t.nodes)] ==
        IF k = 0 THEN o ELSE After(t, at[k - 1])
  IN  at
Ends(t, o) == Way(t, o)[Cardinality(DOMAIN t.nodes)] = 0
Cyclic(t) == \E s \in 1 .. Slots : ~Ends(t, t.heads[s])
Entries(t, o) ==
  LET on == {k \in DOMAIN Way(t, o) : Way(t, o)[k] # 0}
  IN  [k \in 1 .. Cardinality(on) |-> t.nodes[Way(t, o)[k - 1]].item]

(* The entries of the first s lists, and of all of them.                   *)
Gathered(t) ==
  LET all[s \in 0 .. Slots] ==
        IF s = 0 THEN <<>> ELSE all[s - 1] \o Entries(t, t.heads[s])
  IN  all
AllEntries(t) == Gathered(t)[Slots]

(* An item is never written behind the end of the array.                   *)
ArrayFits ==
  /\ Len(items) <= available
  /\ slot \in 1 .. Slots + 1 /\ available \in Nat \ {0}
  /\ items \in Seq(Items)

(* The array has the entries of all lists, each list from its beginning    *)
(* and one after the other as the table has them, each entry once.         *)
InOrder ==
  ~Cyclic(table) =>
    /\ Len(items) <= Len(AllEntries(table))
    /\ items = SubSeq(AllEntries(table), 1, Len(items))
    /\ walk = "done" => items = AllEntries(table)
=============================================================================
