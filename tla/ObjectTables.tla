---------------------------- MODULE ObjectTables ----------------------------
(***************************************************************************)
(* The tables in which every node keeps its view of the objects that have  *)
(* IDs: events, barriers, reservations and processor groups (tables that   *)
(* exist from the start), and sparsity maps, which a node may create for   *)
(* another node to own, in a table per owner and creator that the other    *)
(* nodes construct when they first need it.  Entries come into being a     *)
(* leaf at a time; the creator's new leaves go to its free list.           *)
(*                                                                         *)
(* DynamicTable and DynamicTableFreeList are external: lookup_entry        *)
(* creates a missing leaf once, and alloc_entry, when it finds the free    *)
(* list empty, gives up the list's lock, which new_leaf_node takes, to     *)
(* look up the next index that no leaf has yet.                            *)
(***************************************************************************)
EXTENDS Integers, Sequences, FiniteSets, Functions

CONSTANTS
  NumNodes,
  Thread, HomeOf,   \* threads, and the node of each
  Kinds,            \* a subset of {"event", "sparsity"}; "event" stands for
                    \* the four kinds whose creator is their owner
  Owners,           \* the nodes that own sparsity maps
  LeafSize,         \* 1 << LEAF_BITS
  MaxIds,           \* bound: how many IDs are given out
  Null

Nodes == 0 .. NumNodes - 1

VARIABLES
  sparsity_maps,    \* [n][<<o, c>>]: who constructed node n's table of the
                    \* maps that c created for o, or Null
  me,               \* the creator_node field of every entry there is
  free_list, next_alloc,   \* [<<kind, n, o>>]: n's list for objects of o
  pc, local,        \* [t]: where a thread is, and its local variables
  given,            \* history: the IDs given out
  seen              \* history: (node, ID, entry) of lookups and allocations

tables == <<sparsity_maps, me, free_list, next_alloc>>
vars == <<tables, pc, local, given, seen>>

Id(kind, o, c, i) == [kind |-> kind, owner |-> o, creator |-> c, idx |-> i]

(* The free lists of a node: one for each owner of sparsity maps.          *)
Lists == {l \in Kinds \X Nodes \X Nodes : IF l[1] = "event" THEN l[2] = l[3] ELSE l[3] \in Owners}

(* An entry: its node, the table it is in, and its index.                  *)
Entry(n, id, table) == <<n, id.kind, id.owner, id.creator, table, id.idx>>

Init ==
  /\ sparsity_maps = [n \in Nodes |-> [oc \in Nodes \X Nodes |-> IF oc[2] = n THEN "init" ELSE Null]]
  /\ me = << >>
  /\ free_list = [l \in Lists |-> <<>>]
  /\ next_alloc = [l \in Lists |-> 0]
  /\ pc = [t \in Thread |-> "idle"]
  /\ local = [t \in Thread |-> Null]
  /\ given = {}
  /\ seen = {}
-----------------------------------------------------------------------------
Leaf(i) == {(i \div LeafSize) * LeafSize + k : k \in 0 .. LeafSize - 1}

(* The entries of the leaf of e, made by new_leaf_node with make_id: the   *)
(* id of a sparsity map starts with creator 0, the others with the owner.  *)
NewLeaf(e) ==
  [f \in {[e EXCEPT ![6] = i] : i \in Leaf(e[6])} |-> IF e[2] = "sparsity" THEN 0 ELSE e[3]]

(* lookup_entry, with or without a free list.                              *)
WithEntry(e) == IF e \in DOMAIN me THEN me ELSE [f \in DOMAIN me \cup DOMAIN NewLeaf(e) |->
                  IF f \in DOMAIN me THEN me[f] ELSE NewLeaf(e)[f]]

(* Handing out every entry of the leaf.                                    *)
StitchAll(first) == [k \in 1 .. LeafSize |-> first + k - 1]

(* The order in which new_leaf_node stitches the entries into the list:    *)
(* entry 0 of the first leaf is left out.                                  *)
Stitch(first) ==
  LET skip == IF first = 0 THEN 1 ELSE 0
  IN [k \in 1 .. LeafSize - skip |-> first + skip + k - 1]

TableOf(n, id) == IF id.kind = "sparsity" THEN sparsity_maps[n][<<id.owner, id.creator>>] ELSE "init"
-----------------------------------------------------------------------------
(* alloc_entry on list l, under the list's lock: take the first, or find   *)
(* the list empty and reserve the next leaf.                               *)
PopFree(t, l) ==
  IF free_list[l] # <<>>
    THEN /\ free_list' = [free_list EXCEPT ![l] = Tail(@)]
         /\ local' = [local EXCEPT ![t] = Id(l[1], l[3], l[2], Head(free_list[l]))]
         /\ pc' = [pc EXCEPT ![t] = "named"]
         /\ UNCHANGED next_alloc
    ELSE /\ next_alloc' = [next_alloc EXCEPT ![l] = @ + LeafSize]
         /\ local' = [local EXCEPT ![t] = Id(l[1], l[3], l[2], next_alloc[l])]
         /\ pc' = [pc EXCEPT ![t] = "fill"]
         /\ UNCHANGED free_list

Wanting == {t \in Thread : pc[t] \in {"fill", "retry", "named"}}

(* get_available_sparsity_impl, and the creation of an event or the like.  *)
BeginAlloc(t, l) ==
  /\ pc[t] = "idle" /\ l[2] = HomeOf[t]
  /\ Cardinality(given) + Cardinality(Wanting) < MaxIds
  /\ PopFree(t, l)
  /\ UNCHANGED <<sparsity_maps, me, given, seen>>

ListOf(id) == <<id.kind, id.creator, id.owner>>

Retry(t) ==
  /\ pc[t] = "retry"
  /\ PopFree(t, ListOf(local[t]))
  /\ UNCHANGED <<sparsity_maps, me, given, seen>>

(* alloc_entry's lookup_entry: the leaf is new, and joins the free list.   *)
FillLeaf(t) ==
  /\ pc[t] = "fill"
  /\ LET e == Entry(HomeOf[t], local[t], "init")
     IN /\ me' = WithEntry(e)
        /\ free_list' = IF e \in DOMAIN me THEN free_list
                          ELSE [free_list EXCEPT ![ListOf(local[t])] = Stitch(local[t].idx) \o @]
  /\ pc' = [pc EXCEPT ![t] = "retry"]
  /\ UNCHANGED <<sparsity_maps, next_alloc, local, given, seen>>

(* wrap->me.sparsity.creator_node = my_node_id, and the ID is out.         *)
NameEntry(t) ==
  /\ pc[t] = "named"
  /\ LET id == local[t]
         e == Entry(HomeOf[t], id, "init")
     IN /\ me' = IF id.kind = "sparsity" THEN [me EXCEPT ![e] = HomeOf[t]] ELSE me
        /\ given' = given \cup {id}
        /\ seen' = seen \cup {<<HomeOf[t], id, e>>}
  /\ pc' = [pc EXCEPT ![t] = "idle"]
  /\ local' = [local EXCEPT ![t] = Null]
  /\ UNCHANGED <<sparsity_maps, free_list, next_alloc>>
-----------------------------------------------------------------------------
(* get_sparsity_impl, get_genevent_impl and the other lookups, of an ID    *)
(* that has reached this node: "might need to construct this".             *)
BeginLookup(t, id) ==
  /\ pc[t] = "idle"
  /\ local' = [local EXCEPT ![t] = id]
  /\ pc' = [pc EXCEPT ![t] = IF TableOf(HomeOf[t], id) = Null THEN "construct" ELSE "find"]
  /\ UNCHANGED <<tables, given, seen>>

(* Storing the new table without looking again.                            *)
StoreTable(t) ==
  /\ pc[t] = "construct"
  /\ sparsity_maps' = [sparsity_maps EXCEPT ![HomeOf[t]][<<local[t].owner, local[t].creator>>] = t]
  /\ pc' = [pc EXCEPT ![t] = "find"]
  /\ UNCHANGED <<me, free_list, next_alloc, local, given, seen>>

(* "construct one and try to swap it in": t's table, if there is still     *)
(* none.                                                                   *)
SwapInTable(t) ==
  /\ pc[t] = "construct"
  /\ sparsity_maps' = [sparsity_maps EXCEPT ![HomeOf[t]][<<local[t].owner, local[t].creator>>] =
                         IF @ = Null THEN t ELSE @]
  /\ pc' = [pc EXCEPT ![t] = "find"]
  /\ UNCHANGED <<me, free_list, next_alloc, local, given, seen>>

Found(t, e) ==
  /\ seen' = seen \cup {<<HomeOf[t], local[t], e>>}
  /\ pc' = [pc EXCEPT ![t] = "idle"]
  /\ local' = [local EXCEPT ![t] = Null]

(* get_genevent_impl and the like: lookup_entry, and the assertion that    *)
(* the entry is the one.                                                   *)
LookupOwned(t) ==
  /\ pc[t] = "find" /\ local[t].kind = "event"
  /\ LET e == Entry(HomeOf[t], local[t], "init")
     IN /\ me' = WithEntry(e)
        /\ IF me'[e] = local[t].creator
             THEN Found(t, e)
             ELSE pc' = [pc EXCEPT ![t] = "aborted"] /\ UNCHANGED <<local, seen>>
  /\ UNCHANGED <<sparsity_maps, free_list, next_alloc, given>>

(* get_sparsity_impl: lookup_entry, and a look at the entry's ID.          *)
LookupEntry(t) ==
  /\ pc[t] = "find" /\ local[t].kind = "sparsity"
  /\ LET e == Entry(HomeOf[t], local[t], TableOf(HomeOf[t], local[t]))
     IN /\ me' = WithEntry(e)
        /\ IF me'[e] = local[t].creator
             THEN Found(t, e)
             ELSE /\ pc' = [pc EXCEPT ![t] = "fix"]
                  /\ UNCHANGED <<local, seen>>
  /\ UNCHANGED <<sparsity_maps, free_list, next_alloc, given>>

(* "creator node isn't always right, so try to fix it"; then the assertion *)
(* that the entry is the one.                                              *)
FixCreator(t) ==
  /\ pc[t] = "fix"
  /\ LET e == Entry(HomeOf[t], local[t], TableOf(HomeOf[t], local[t]))
     IN /\ me' = [me EXCEPT ![e] = IF @ = 0 THEN local[t].creator ELSE @]
        /\ IF me'[e] = local[t].creator
             THEN Found(t, e)
             ELSE pc' = [pc EXCEPT ![t] = "aborted"] /\ UNCHANGED <<local, seen>>
  /\ UNCHANGED <<sparsity_maps, free_list, next_alloc, given>>
-----------------------------------------------------------------------------
Next ==
  \E t \in Thread :
    \/ \E l \in Lists : BeginAlloc(t, l)
    \/ Retry(t) \/ FillLeaf(t) \/ NameEntry(t)
    \/ \E id \in given : BeginLookup(t, id)
    \/ SwapInTable(t) \/ LookupOwned(t) \/ LookupEntry(t) \/ FixCreator(t)

Spec == Init /\ [][Next]_vars
-----------------------------------------------------------------------------
Ids == {Id(l[1], l[3], l[2], i) : l \in Lists, i \in 0 .. LeafSize * MaxIds}

TypeOK ==
  /\ sparsity_maps \in [Nodes -> [Nodes \X Nodes -> Thread \cup {"init", Null}]]
  /\ \A e \in DOMAIN me : me[e] \in Nodes
  /\ \A l \in Lists : Range(free_list[l]) \subseteq Nat /\ next_alloc[l] \in Nat
  /\ pc \in [Thread -> {"idle", "fill", "retry", "named", "construct", "find", "fix", "aborted"}]
  /\ \A t \in Thread : local[t] # Null => local[t] \in Ids
  /\ given \subseteq Ids

(* The IDs a node is about to give out, or may give out next.              *)
ToGive(l) ==
  {Id(l[1], l[3], l[2], i) : i \in Range(free_list[l])} \cup
  {local[t] : t \in {u \in Thread : pc[u] = "named" /\ ListOf(local[u]) = l}}

(***************************************************************************)
(* An ID is given out once and index 0, which new_leaf_node leaves out of  *)
(* the first leaf, never, however the threads of a node race for the last  *)
(* entry of a free list and then for the next leaf.                        *)
(***************************************************************************)
GivenOnce ==
  /\ \A l \in Lists :
       /\ ToGive(l) \cap given = {}
       /\ IsInjective(free_list[l])
       /\ \A id \in ToGive(l) : id.idx # 0
  /\ \A t, u \in Thread : pc[t] = "named" /\ pc[u] = "named" /\ local[t] = local[u] => t = u
  /\ \A t \in Thread : pc[t] = "named" => local[t].idx \notin Range(free_list[ListOf(local[t])])

TablesInv == TypeOK /\ GivenOnce

(***************************************************************************)
(* One ID, one object: all lookups of an ID on a node, and the allocation  *)
(* if it was made there, return the same entry, the entry carries the ID,  *)
(* and the assertions of the lookups hold, although two threads may both   *)
(* find a table missing and an entry's creator wrong.                      *)
(***************************************************************************)
LookupsAgree ==
  /\ \A s, u \in seen : s[1] = u[1] /\ s[2] = u[2] => s[3] = u[3]
  /\ \A s \in seen : me[s[3]] = s[2].creator
  /\ \A t \in Thread : pc[t] # "aborted"
=============================================================================
