---------------------------- MODULE LightHashMap ----------------------------
(***************************************************************************)
(* The hash table behind every map of connections (TonkineseMaps.h): open   *)
(* addressing, probing downwards with wrap-around, growth by doubling at    *)
(* half load, and removal that closes the gap instead of leaving a mark.    *)
(* It implements ConnectionMap.                                             *)
(*                                                                         *)
(* hash_key() keeps the top bits of a 32-bit product; a key is represented  *)
(* by the top HashBits of them, chosen freely for each key.                 *)
(***************************************************************************)
EXTENDS Integers, FiniteSets, FiniteSetsExt, Sequences

LOCAL Seqs == INSTANCE SequencesExt

CONSTANTS
    Keys, Conns, NoConn,
    HashBits,   \* top bits of a hash that are modelled: 2^HashBits slots suffice
    Hashes      \* the values they take

cMinHashSize == 4

ASSUME LightHashMapAssumption ==
    /\ HashBits \in Nat /\ Hashes \subseteq 0 .. 2^HashBits - 1
    /\ Cardinality(Keys) <= 2^(HashBits - 1)   \* the modelled bits suffice

VARIABLES
    hash,              \* hash of each key
    m_values,          \* the table: slot -> key and connection, or Empty
    m_num_valid,
    m_grow_threshold,
    result,            \* the answer of the last call
    contents           \* history: what the table holds for each key

hashVars == <<hash, m_values, m_num_valid, m_grow_threshold, result, contents>>

Empty == [key |-> NoConn, conn |-> NoConn]
Node == [key : Keys, conn : Conns]

m_values_count == Cardinality(DOMAIN m_values)

(* Fibonacci hashing: the slot is the top bits of the hash.                 *)
hash_key(k, size) == hash[k] \div (2^HashBits \div size)

(* Slots in the order they are probed for k, as distances from its own.     *)
Slot(k, n, size) == (hash_key(k, size) - n) % size

(* The distances at which a search for k in table t stops.                   *)
Stops(t, k) ==
    LET size == Cardinality(DOMAIN t)
    IN  {n \in 0 .. size - 1 : t[Slot(k, n, size)].key \in {k, NoConn}}

(* find_index()                                                             *)
find_index(k) ==
    IF m_num_valid = 0 \/ Stops(m_values, k) = {} THEN -1
    ELSE LET i == Slot(k, Min(Stops(m_values, k)), m_values_count)
         IN  IF m_values[i].key = k THEN i ELSE -1

(* move_into(): the first free slot, counting from the node's own.          *)
move_into(t, node) ==
    LET size == Cardinality(DOMAIN t)
        free == {n \in 0 .. size - 1 : t[Slot(node.key, n, size)] = Empty}
    IN  IF free = {} THEN t
        ELSE [t EXCEPT ![Slot(node.key, Min(free), size)] = node]

(* rehash(): the nodes move in slot order into an empty table.              *)
rehash(size) ==
    LET Move(t, i) == IF m_values[i] = Empty THEN t
                      ELSE move_into(t, m_values[i])
    IN  Seqs!FoldLeft(Move, [i \in 0 .. size - 1 |-> Empty],
                      [i \in 1 .. m_values_count |-> i - 1])

(* insert_no_grow() on table t with valid nodes and threshold: "found",      *)
(* "placed", or "full" if the table must grow first.                        *)
Outcome(t, valid, threshold, k) ==
    LET stops == Stops(t, k)
        size == Cardinality(DOMAIN t)
    IN  IF stops = {} THEN "full"
        ELSE IF t[Slot(k, Min(stops), size)].key = k THEN "found"
        ELSE IF valid >= threshold THEN "full" ELSE "placed"

Place(t, k, c) ==
    [t EXCEPT ![Slot(k, Min(Stops(t, k)), Cardinality(DOMAIN t))] =
                  [key |-> k, conn |-> c]]

RECURSIVE CloseGap(_, _, _)

(* Fault: the gap is taken never to wrap. *)
BugBetween(i, r, j) == i <= r /\ r < j

(* erase_index() after slot j was freed: walk down from i, and move back     *)
(* into the gap the first node whose own slot is not between the gap and     *)
(* where it lies; the gap is then where that node was.                       *)
Between(i, r, j) == (i <= r /\ r < j) \/ (r < j /\ j < i) \/ (j < i /\ i <= r)

CloseGap(t, j, i) ==
    LET size == Cardinality(DOMAIN t)
        src == (i - 1) % size
    IN  IF t[src] = Empty THEN t
        ELSE IF Between(src, hash_key(t[src].key, size), j)
        THEN CloseGap(t, j, src)
        ELSE CloseGap([t EXCEPT ![j] = t[src], ![src] = Empty], src, src)

erase_index(i) == CloseGap([m_values EXCEPT ![i] = Empty], i, i)

(* What a table holds, whether or not a search finds it.                    *)
Contents(t) ==
    [k \in Keys |->
       LET stored == {t[i].conn : i \in {j \in DOMAIN t : t[j].key = k}}
       IN  IF stored = {} THEN NoConn ELSE CHOOSE c \in stored : TRUE]

-----------------------------------------------------------------------------
HashInit ==
    /\ hash \in [Keys -> Hashes]
    /\ m_values = [i \in {} |-> Empty]
    /\ m_num_valid = 0 /\ m_grow_threshold = 0
    /\ result = <<>> /\ contents = Contents(m_values)

Threshold(size) == (size + 1) \div 2

(* insert(): if the node cannot be placed the table is doubled, and the      *)
(* second attempt places it.                                                *)
Insert(k, c) ==
    /\ LET outcome == Outcome(m_values, m_num_valid, m_grow_threshold, k)
           size == Max({2 * m_values_count, cMinHashSize})
       IN  /\ result' = <<"Insert", k, outcome # "found">>
           /\ \/ /\ outcome = "found"
                 /\ UNCHANGED <<m_values, m_num_valid, m_grow_threshold>>
              \/ /\ outcome = "placed"
                 /\ m_values' = Place(m_values, k, c)
                 /\ m_num_valid' = m_num_valid + 1
                 /\ UNCHANGED m_grow_threshold
              \/ /\ outcome = "full"
                 /\ m_values' = Place(rehash(size), k, c)
                 /\ m_num_valid' = m_num_valid + 1
                 /\ m_grow_threshold' = Threshold(size)
    /\ contents' = Contents(m_values')
    /\ UNCHANGED hash

RemoveKey(k, c) ==
    /\ LET i == find_index(k)
           owned == i >= 0 /\ m_values[i].conn = c
       IN  /\ result' = <<"Remove", k, owned>>
           /\ IF owned
              THEN m_values' = erase_index(i) /\ m_num_valid' = m_num_valid - 1
              ELSE UNCHANGED <<m_values, m_num_valid>>
    /\ contents' = Contents(m_values')
    /\ UNCHANGED <<hash, m_grow_threshold>>

Find(k) ==
    /\ result' = <<"Find", k, IF find_index(k) < 0 THEN NoConn
                              ELSE m_values[find_index(k)].conn>>
    /\ UNCHANGED <<hash, m_values, m_num_valid, m_grow_threshold, contents>>

GetCount ==
    /\ result' = <<"GetCount", m_num_valid>>
    /\ UNCHANGED <<hash, m_values, m_num_valid, m_grow_threshold, contents>>

HashNext ==
    \/ \E k \in Keys, c \in Conns : Insert(k, c) \/ RemoveKey(k, c)
    \/ \E k \in Keys : Find(k)
    \/ GetCount

HashSpec == HashInit /\ [][HashNext]_hashVars

-----------------------------------------------------------------------------
Promised == INSTANCE ConnectionMap WITH map <- contents, None <- NoConn

(* Whatever the hashes and the order of insertions and removals, the table   *)
(* answers every Insert(), Remove(), Find() and GetCount() as a partial     *)
(* function would: no key is hidden by a gap or a wrap-around, none is       *)
(* stored twice, and none is lost when the table grows.                     *)
ImplementsMap == Promised!Spec
=============================================================================
