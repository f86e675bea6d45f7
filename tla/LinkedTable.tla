----------------------------- MODULE LinkedTable -----------------------------
(* LinkedHashTable (core/data_structures/linked_hash_table.py): buckets of   *)
(* chained nodes, which a doubly linked list holds in the order they came.   *)
(* It grows by half when it is four fifths full.                             *)
EXTENDS Integers, FiniteSetsExt, SequencesExt

CONSTANTS
    Keys, Values, None,
    Hash,            \* hash of a key, before it is reduced to a bucket
    InitialCapacity,
    Nil              \* None, for a node

ASSUME TableAssumption ==
    /\ IsFiniteSet(Keys) /\ Hash \in [Keys -> Int]
    /\ InitialCapacity \in Nat \ {0} /\ Nil \notin Nat

VARIABLES
    capacity, size, buckets, head, tail,
    nodes,    \* [node -> HashNode], of those that are in use
    answer    \* what the last call returned

tableVars == <<capacity, size, buckets, head, tail, nodes, answer>>

TableInit ==
    /\ capacity = InitialCapacity /\ size = 0
    /\ buckets = [b \in 0..(InitialCapacity - 1) |-> Nil]
    /\ head = Nil /\ tail = Nil /\ nodes = <<>> /\ answer = None
-----------------------------------------------------------------------------
\* The nodes met from n on; one more than there are, if they are a circle.
Follow(n, link) ==
    LET Walk[steps \in 0..(Cardinality(DOMAIN link) + 1)] ==
          IF steps = 0 THEN [at |-> n, met |-> <<>>]
          ELSE LET w == Walk[steps - 1]
               IN  IF w.at = Nil THEN w
                   ELSE [at |-> link[w.at], met |-> Append(w.met, w.at)]
    IN  Walk[Cardinality(DOMAIN link) + 1].met

BucketOf(k) == Hash[k] % capacity
Chain(b) == Follow(buckets[b], [n \in DOMAIN nodes |-> nodes[n].next_in_bucket])
InOrder == Follow(head, [n \in DOMAIN nodes |-> nodes[n].next_in_order])

\* Where the chain of k has it.
Lookup(k) == SelectInSeq(Chain(BucketOf(k)), LAMBDA n : nodes[n].key = k)
NodeOf(k) == Chain(BucketOf(k))[Lookup(k)]

get(k) ==
    /\ answer' = IF Lookup(k) = 0 THEN None ELSE nodes[NodeOf(k)].value
    /\ UNCHANGED <<capacity, size, buckets, head, tail, nodes>>

Free == Min({n \in 1..(Cardinality(Keys) + 1) : n \notin DOMAIN nodes})

\* _rehash: every node, in order, goes to the front of its new chain.
Rehashed(ns, first, wide) ==
    LET Walk[left \in 0..Cardinality(DOMAIN ns)] ==
          IF left = 0
          THEN [node |-> first, buckets |-> [b \in 0..(wide - 1) |-> Nil], nodes |-> ns]
          ELSE LET w == Walk[left - 1]
                   node == ns[w.node]
                   b == Hash[node.key] % wide
               IN  [node    |-> node.next_in_order,
                    buckets |-> [w.buckets EXCEPT ![b] = w.node],
                    nodes   |-> [w.nodes EXCEPT ![w.node].next_in_bucket = w.buckets[b]]]
    IN  Walk[Cardinality(DOMAIN ns)]

put(k, v) ==
    \/ /\ Lookup(k) # 0
       /\ answer' = nodes[NodeOf(k)].value
       /\ nodes' = [nodes EXCEPT ![NodeOf(k)].value = v]
       /\ UNCHANGED <<capacity, size, buckets, head, tail>>
    \/ /\ Lookup(k) = 0
       /\ LET n == Free
              node == [key |-> k, value |-> v, next_in_bucket |-> buckets[BucketOf(k)],
                       prev_in_order |-> tail, next_in_order |-> Nil]
              added == [m \in DOMAIN nodes \cup {n} |->
                          IF m = n THEN node
                          ELSE IF m = tail THEN [nodes[m] EXCEPT !.next_in_order = n]
                          ELSE nodes[m]]
              first == IF tail = Nil THEN n ELSE head
              wide == (capacity * 3) \div 2
              grown == Rehashed(added, first, wide)
          IN  /\ head' = first /\ tail' = n /\ size' = size + 1
              /\ IF 5 * size' >= 4 * capacity
                 THEN /\ capacity' = wide
                      /\ buckets' = grown.buckets /\ nodes' = grown.nodes
                 ELSE /\ buckets' = [buckets EXCEPT ![BucketOf(k)] = n]
                      /\ nodes' = added /\ UNCHANGED capacity
       /\ answer' = None

\* Mutant: the last node is unlinked, and stays the last.
TailAfterStays(node) == tail

TailAfter(node) == IF node.next_in_order = Nil THEN node.prev_in_order ELSE tail

remove(k) ==
    \/ Lookup(k) = 0 /\ answer' = None /\ UNCHANGED <<capacity, size, buckets, head, tail, nodes>>
    \/ /\ Lookup(k) # 0
       /\ LET n == NodeOf(k)
              node == nodes[n]
              before == IF Lookup(k) = 1 THEN Nil ELSE Chain(BucketOf(k))[Lookup(k) - 1]
              Unlinked(m) ==
                [nodes[m] EXCEPT
                   !.next_in_bucket = IF m = before THEN node.next_in_bucket ELSE @,
                   !.next_in_order = IF m = node.prev_in_order THEN node.next_in_order ELSE @,
                   !.prev_in_order = IF m = node.next_in_order THEN node.prev_in_order ELSE @]
          IN  /\ nodes' = [m \in DOMAIN nodes \ {n} |-> Unlinked(m)]
              /\ buckets' = IF before # Nil THEN buckets
                            ELSE [buckets EXCEPT ![BucketOf(k)] = node.next_in_bucket]
              /\ head' = IF node.prev_in_order = Nil THEN node.next_in_order ELSE head
              /\ tail' = TailAfter(node)
              /\ answer' = node.value
       /\ size' = size - 1
       /\ UNCHANGED capacity

\* The capacity stays.
clear ==
    /\ buckets' = [b \in DOMAIN buckets |-> Nil]
    /\ head' = Nil /\ tail' = Nil /\ size' = 0 /\ nodes' = <<>> /\ answer' = None
    /\ UNCHANGED capacity

TableNext ==
    \/ \E k \in Keys, v \in Values : put(k, v)
    \/ \E k \in Keys : get(k) \/ remove(k)
    \/ clear

TableSpec == TableInit /\ [][TableNext]_tableVars
-----------------------------------------------------------------------------
\* list(table), what __iter__ yields.
rows == LET order == InOrder
        IN  [i \in DOMAIN order |-> [key |-> nodes[order[i]].key, value |-> nodes[order[i]].value]]

Map == INSTANCE OrderedMap

\* However keys collide and whenever the table grows, it is an ordered map: each
\* step of the linked nodes is one of the map, its length is that of the map,
\* and there is an empty place left for the next key (linked_hash_table.py:158).
TableIsMap ==
    /\ rows = <<>> /\ answer = None
    /\ [][Map!MapNext /\ size' = Len(rows') /\ (capacity' > 1 => size' < capacity')]_tableVars
=============================================================================
