------------------------ MODULE ConnectionMapsProofs ------------------------
(***************************************************************************)
(* For any number of connections, sockets, addresses and ids: an id belongs *)
(* to one connection and the stack of free one-byte ids is exact, the       *)
(* cached lookup agrees with the address map, and an ordinary connection is *)
(* found where it currently is, and routed to only there.                   *)
(*                                                                         *)
(* None of the three is inductive alone.  A connection takes one id because *)
(* its accept task is its first and it has no id until that has run         *)
(* (TasksInOrder); only connections in the key map, which are P2P ones,     *)
(* switch sockets; the connection that is about to be inserted is an        *)
(* ordinary one, still on the socket of its request if it is live (Placed). *)
(***************************************************************************)
EXTENDS ConnectionMaps, FiniteSetTheorems, TLAPS

IdMaps ==
    [map : [Ids -> Conns \cup {None}],
     BestUnusedIds : [0 .. ShortIds - 1 -> 0 .. ShortIds - 1],
     count : 0 .. ShortIds, NextId : Ids]

AddrMaps ==
    [map : [Addrs -> Conns \cup {None}],
     RecentAddress : Addrs \cup {None}, RecentConnection : Conns \cup {None}]

Connections ==
    [stage : {"none", "live", "removed", "denied"}, id : Ids \cup {NoId},
     socket : Sockets, peer : Addrs \cup {None}, tasks : Seq(Tasks),
     allowed : BOOLEAN, seen : BOOLEAN, wins : BOOLEAN,
     stray : BOOLEAN, lost : BOOLEAN]

Insertions == [conn : Conns \cup {None}, socket : Sockets, addr : Addrs \cup {None}]

(* The pair of one address map that FindByAddr() answers from.              *)
Coherent(am) ==
    IF am.RecentConnection = None THEN am.RecentAddress = None
    ELSE am.RecentAddress \in Addrs /\ am.map[am.RecentAddress] = am.RecentConnection

(* The stack of free one-byte ids.                                          *)
FreeExact(m) ==
    /\ \A n \in 0 .. m.count - 1 : m.map[m.BestUnusedIds[n]] = None
    /\ \A n, k \in 0 .. m.count - 1 : m.BestUnusedIds[n] = m.BestUnusedIds[k] => n = k
    /\ \A i \in 0 .. ShortIds - 1 :
          m.map[i] = None => \E n \in 0 .. m.count - 1 : m.BestUnusedIds[n] = i

(* What no other strand changes in an address map.                          *)
KeepsOthers(am, new, c) ==
    \A b \in Addrs, d \in Conns \ {c} : new.map[b] = d <=> am.map[b] = d

(* What the entries of c become when it moves from old to a.                *)
MovesEntry(am, new, old, a, c) ==
    \A b \in Addrs : new.map[b] = c => b = a \/ (b # old /\ am.map[b] = c)

(* An address that no other connection has becomes one of c.                *)
TakesEntry(am, new, a, c) == am.map[a] \in {None, c} => new.map[a] = c

(* The entries of c stay, and nothing changes if a is taken.                *)
KeepsOwn(am, new, a, c) ==
    /\ \A b \in Addrs : am.map[b] = c => new.map[b] = c
    /\ am.map[a] # None => new.map = am.map

(* The cached lookup after FindConnectionByAddress() is what the map has. *)
LEMMA RememberKeeps ==
    ASSUME NEW am \in AddrMaps, Coherent(am), NEW a \in Addrs
    PROVE  /\ Remember(am, a) \in AddrMaps /\ Coherent(Remember(am, a))
           /\ Remember(am, a).map = am.map
  BY ConnectionMapsAssumption, Zenon DEF AddrMaps, Coherent, Remember

(* InsertAddress() adds the one entry. *)
LEMMA InsertKeeps ==
    ASSUME NEW am \in AddrMaps, Coherent(am), NEW a \in Addrs, NEW c \in Conns
    PROVE  LET new == InsertAddress(am, a, c)
           IN  /\ new \in AddrMaps /\ Coherent(new) /\ KeepsOthers(am, new, c)
               /\ MovesEntry(am, new, None, a, c)
  BY ConnectionMapsAssumption, Zenon
  DEF AddrMaps, Coherent, InsertAddress, Insert, KeepsOthers, MovesEntry

(* It removes none, and changes nothing if the address is taken. *)
LEMMA InsertTakes ==
    ASSUME NEW am \in AddrMaps, NEW a \in Addrs, NEW c \in Conns
    PROVE  LET new == InsertAddress(am, a, c)
           IN  TakesEntry(am, new, a, c) /\ KeepsOwn(am, new, a, c)
  <1> DEFINE new == InsertAddress(am, a, c)
  <1>1. new.map = IF am.map[a] = None THEN [am.map EXCEPT ![a] = c] ELSE am.map
    BY Zenon DEF AddrMaps, InsertAddress, Insert
  <1> HIDE DEF new
  <1> QED
    BY <1>1, ConnectionMapsAssumption, Zenon DEF AddrMaps, TakesEntry, KeepsOwn, new

(* RemoveAddress() forgets the cache and removes the connection's entry. *)
LEMMA RemoveKeeps ==
    ASSUME NEW am \in AddrMaps, Coherent(am), NEW a \in Addrs \cup {None}, NEW c \in Conns
    PROVE  LET new == RemoveAddress(am, a, c)
           IN  /\ new \in AddrMaps /\ Coherent(new) /\ KeepsOthers(am, new, c)
               /\ MovesEntry(am, new, a, None, c)
  <1> DEFINE new == RemoveAddress(am, a, c)
             kept == Forget(am, c)
  <1>1. kept \in AddrMaps /\ Coherent(kept) /\ kept.map = am.map
        /\ kept.RecentConnection # c
    BY ConnectionMapsAssumption, Zenon DEF AddrMaps, Coherent, Forget
  <1>2. CASE a = None
    BY <1>2, ConnectionMapsAssumption, Zenon DEF RemoveAddress, KeepsOthers, MovesEntry
  <1>3. CASE a # None
    <2>1. a \in Addrs /\ new = [kept EXCEPT !.map = Remove(kept.map, a, c)]
      BY <1>3, Zenon DEF RemoveAddress
    <2>2. /\ new \in AddrMaps /\ new.map = Remove(am.map, a, c)
          /\ new.RecentAddress = kept.RecentAddress
          /\ new.RecentConnection = kept.RecentConnection
      BY <1>1, <2>1 DEF AddrMaps, Remove
    <2>3. \A b \in Addrs : new.map[b] = IF b = a /\ am.map[a] = c THEN None ELSE am.map[b]
      BY <2>1, <2>2, Zenon DEF AddrMaps, Remove
    <2>4. Coherent(new)
      BY <1>1, <2>2, <2>3, Zenon DEF Coherent, AddrMaps
    <2> QED
      BY <2>2, <2>3, <2>4, ConnectionMapsAssumption DEF KeepsOthers, MovesEntry
  <1> QED
    BY <1>2, <1>3, Zenon

(* ChangeAddress() moves the entry from the old address to the new one. *)
LEMMA ChangeKeeps ==
    ASSUME NEW am \in AddrMaps, Coherent(am), NEW old \in Addrs \cup {None},
           NEW a \in Addrs, NEW c \in Conns
    PROVE  LET new == ChangeAddress(am, old, a, c)
           IN  /\ new \in AddrMaps /\ Coherent(new) /\ KeepsOthers(am, new, c)
               /\ MovesEntry(am, new, old, a, c) /\ TakesEntry(am, new, a, c)
  <1> DEFINE new == ChangeAddress(am, old, a, c)
             kept == Forget(am, c)
             without == IF old = None THEN kept.map ELSE Remove(kept.map, old, c)
  <1>1. kept \in AddrMaps /\ Coherent(kept) /\ kept.map = am.map
        /\ kept.RecentConnection # c
    BY ConnectionMapsAssumption, Zenon DEF AddrMaps, Coherent, Forget
  <1>2. /\ without \in [Addrs -> Conns \cup {None}]
        /\ \A b \in Addrs : without[b] = IF b = old /\ am.map[b] = c THEN None ELSE am.map[b]
    BY <1>1, ConnectionMapsAssumption, Zenon DEF AddrMaps, Remove
  <1>3. /\ new \in AddrMaps /\ new.map = Insert(without, a, c)
        /\ new.RecentAddress = kept.RecentAddress
        /\ new.RecentConnection = kept.RecentConnection
    BY <1>1, <1>2, Zenon DEF AddrMaps, Insert, ChangeAddress
  <1>4. \A b \in Addrs : new.map[b] = IF b = a /\ without[a] = None THEN c ELSE without[b]
    BY <1>2, <1>3, Zenon DEF Insert
  <1>5. Coherent(new)
    BY <1>1, <1>2, <1>3, <1>4 DEF Coherent, AddrMaps
  <1>6. TakesEntry(am, new, a, c)
    <2> HIDE DEF new, without
    <2> QED
      BY <1>2, <1>4, Zenon DEF TakesEntry
  <1>7. KeepsOthers(am, new, c) /\ MovesEntry(am, new, old, a, c)
    BY <1>2, <1>3, <1>4, ConnectionMapsAssumption DEF KeepsOthers, MovesEntry
  <1> QED
    BY <1>3, <1>5, <1>6, <1>7, Zenon

(* Two changes for the sake of c change nothing for the others. *)
LEMMA KeepsTransitive ==
    ASSUME NEW am, NEW mid, NEW new, NEW c, KeepsOthers(am, mid, c), KeepsOthers(mid, new, c)
    PROVE  KeepsOthers(am, new, c)
  BY Zenon DEF KeepsOthers

(* A change of one of the address maps.                                     *)
LEMMA OneSocket ==
    ASSUME NEW maps \in [Sockets -> AddrMaps], NEW s \in Sockets, NEW new \in AddrMaps, NEW c,
           \A r \in Sockets : Coherent(maps[r]), Coherent(new), KeepsOthers(maps[s], new, c)
    PROVE  LET next == [maps EXCEPT ![s] = new]
           IN  /\ next \in [Sockets -> AddrMaps] /\ \A r \in Sockets : Coherent(next[r])
               /\ \A r \in Sockets : KeepsOthers(maps[r], next[r], c)
  <1>1. \A r \in Sockets : KeepsOthers(maps[r], maps[r], c)
    BY Zenon DEF KeepsOthers
  <1> QED
    BY <1>1, Zenon

-----------------------------------------------------------------------------
(* A set of naturals that is not empty has a least element.                 *)
LEMMA Least ==
    ASSUME NEW S \in SUBSET Nat, S # {}
    PROVE  \E x \in S : \A y \in S : x <= y
  <1>1. IsWellFoundedOn(OpToRel(<, Nat), Nat)
    BY NatLessThanWellFounded, Zenon
  <1>2. \E x \in S : \A y \in S : ~(<<y, x>> \in OpToRel(<, Nat))
    BY <1>1, WFMin, Zenon
  <1>3. \A x, y \in Nat : ~(<<y, x>> \in OpToRel(<, Nat)) => x <= y
    BY DEF OpToRel
  <1> QED
    BY <1>2, <1>3, Zenon

(* The id InsertAndAssignId() picks is free: the top of the stack is, and if *)
(* the stack is empty all one-byte ids are taken, so the cyclic search ends. *)
LEMMA AssignedIsFree ==
    ASSUME ids \in IdMaps, FreeExact(ids), AssignedId # NoId
    PROVE  AssignedId \in Ids /\ ids.map[AssignedId] = None
  <1>0. ShortIds \in Nat /\ IdCount \in Nat /\ ShortIds < IdCount
    BY ConnectionMapsAssumption, Zenon
  <1>1. CASE ids.count > 0
    <2>1. ids.count - 1 \in 0 .. ids.count - 1 /\ ids.count - 1 \in 0 .. ShortIds - 1
      BY <1>0, <1>1 DEF IdMaps
    <2>2. AssignedId = ids.BestUnusedIds[ids.count - 1]
      BY <1>1, Zenon DEF AssignedId
    <2>3. ids.BestUnusedIds[ids.count - 1] \in 0 .. ShortIds - 1
      BY <2>1, Zenon DEF IdMaps
    <2>4. ids.map[ids.BestUnusedIds[ids.count - 1]] = None
      BY <2>1, Zenon DEF FreeExact
    <2> QED
      BY <1>0, <2>2, <2>3, <2>4 DEF Ids
  <1>2. CASE ~(ids.count > 0)
    <2>1. AssignedId = NextUnused /\ \E i \in Ids : ids.map[i] = None
      BY <1>2, Zenon DEF AssignedId
    <2>2. ids.count = 0 /\ ids.NextId \in Ids
      BY <1>0, <1>2 DEF IdMaps
    <2>3. \A i \in 0 .. ShortIds - 1 : ids.map[i] # None
      BY <2>2 DEF FreeExact
    <2>4. PICK u \in Ids : ids.map[u] = None
      BY <2>1, Zenon
    <2>5. u \in Unused
      BY <1>0, <2>3, <2>4 DEF Unused, Ids
    <2>6. \A i \in Unused : Distance(i) \in Nat
      BY <1>0, <2>2 DEF Unused, Distance, Ids
    <2>7. \E d \in {Distance(i) : i \in Unused} :
             \A e \in {Distance(i) : i \in Unused} : d <= e
      BY <2>5, <2>6, Least, Zenon
    <2>8. \E i \in Unused : \A j \in Unused : Distance(i) <= Distance(j)
      BY <2>7, Zenon
    <2>9. NextUnused \in Unused
      BY <2>8, Zenon DEF NextUnused
    <2> QED
      BY <1>0, <2>1, <2>9 DEF Unused, Ids
  <1> QED
    BY <1>1, <1>2, Zenon

(* InsertAndAssignId() gives c the id and takes it off the stack.           *)
LEMMA AssignKeeps ==
    ASSUME ids \in IdMaps, FreeExact(ids), NEW c \in Conns
    PROVE  LET new == InsertAndAssignId(c)
           IN  /\ AssignedId \in Ids \cup {NoId} /\ new.NextId \in Ids
               /\ new \in IdMaps /\ FreeExact(new)
               /\ \A i \in Ids : new.map[i] = IF i = AssignedId THEN c ELSE ids.map[i]
  <1> DEFINE new == InsertAndAssignId(c)
             i == AssignedId
  <1>0. ShortIds \in Nat /\ IdCount \in Nat /\ ShortIds < IdCount /\ None \notin Conns
    BY ConnectionMapsAssumption, Zenon
  <1>1. CASE i = NoId
    <2>1. new = ids
      BY <1>1, Zenon DEF InsertAndAssignId
    <2>2. NoId \notin Ids
      BY <1>0 DEF NoId, Ids
    <2>3. ids.NextId \in Ids
      BY DEF IdMaps
    <2> QED
      BY <1>1, <2>1, <2>2, <2>3, Zenon
  <1>2. CASE i # NoId
    <2>1. i \in Ids /\ ids.map[i] = None
      BY <1>2, AssignedIsFree, Zenon
    <2>2. /\ new.map = [ids.map EXCEPT ![i] = c]
          /\ new.BestUnusedIds = ids.BestUnusedIds
          /\ new.count = IF ids.count > 0 THEN ids.count - 1 ELSE ids.count
          /\ new.NextId = IF ids.count > 0 THEN ids.NextId ELSE i
          /\ new \in IdMaps
      <3>1. new = [ids EXCEPT
                     !.map = [ids.map EXCEPT ![i] = c],
                     !.count = IF ids.count > 0 THEN ids.count - 1 ELSE ids.count,
                     !.NextId = IF ids.count > 0 THEN ids.NextId ELSE i]
        <4> HIDE DEF i
        <4>1. new = [ids EXCEPT
                       !.map = Insert(ids.map, i, c),
                       !.count = IF ids.count > 0 /\ ids.map[i] = None
                                 THEN ids.count - 1 ELSE ids.count,
                       !.NextId = IF ids.count > 0 THEN ids.NextId ELSE i]
          BY <1>2, Zenon DEF InsertAndAssignId, i
        <4> HIDE DEF new
        <4> QED
          BY <2>1, <4>1, Zenon DEF Insert
      <3> HIDE DEF new, i
      <3>2. [ids.map EXCEPT ![i] = c] \in [Ids -> Conns \cup {None}]
        BY <2>1, Zenon DEF IdMaps
      <3>3. (IF ids.count > 0 THEN ids.count - 1 ELSE ids.count) \in 0 .. ShortIds
        BY <1>0 DEF IdMaps
      <3> QED
        BY <2>1, <3>1, <3>2, <3>3, Zenon DEF IdMaps
    <2>3. \A j \in Ids : new.map[j] = IF j = i THEN c ELSE ids.map[j]
      BY <2>1, <2>2, Zenon DEF IdMaps
    <2>4. FreeExact(new)
      <3>1. CASE ids.count > 0
        <4>1. new.count = ids.count - 1 /\ ids.count \in 1 .. ShortIds
          BY <1>0, <2>2, <3>1 DEF IdMaps
        <4>2. i = ids.BestUnusedIds[ids.count - 1]
          BY <3>1, Zenon DEF AssignedId
        <4>3. \A n \in 0 .. ids.count - 1 : ids.BestUnusedIds[n] \in 0 .. ShortIds - 1
          BY <1>0, <4>1 DEF IdMaps
        <4>4. 0 .. ShortIds - 1 \subseteq Ids
          BY <1>0 DEF Ids
        <4>5. \A n \in 0 .. new.count - 1 :
                 new.BestUnusedIds[n] # i /\ new.map[new.BestUnusedIds[n]] = None
          <5> SUFFICES ASSUME NEW n \in 0 .. new.count - 1
                       PROVE  new.BestUnusedIds[n] # i /\ new.map[new.BestUnusedIds[n]] = None
            BY Zenon
          <5>1. n \in 0 .. ids.count - 1 /\ ids.count - 1 \in 0 .. ids.count - 1 /\ n # ids.count - 1
            BY <4>1
          <5>2. ids.BestUnusedIds[n] # i /\ ids.map[ids.BestUnusedIds[n]] = None
            BY <4>2, <5>1, Zenon DEF FreeExact
          <5>3. ids.BestUnusedIds[n] \in Ids
            BY <4>3, <4>4, <5>1, Zenon
          <5> HIDE DEF new, i
          <5> QED
            BY <2>2, <2>3, <5>2, <5>3, Zenon
        <4>6. \A n, k \in 0 .. new.count - 1 :
                 new.BestUnusedIds[n] = new.BestUnusedIds[k] => n = k
          <5>1. \A n \in 0 .. new.count - 1 : n \in 0 .. ids.count - 1
            BY <4>1
          <5> HIDE DEF new
          <5> QED
            BY <2>2, <5>1 DEF FreeExact
        <4>7. ASSUME NEW j \in 0 .. ShortIds - 1, new.map[j] = None
              PROVE  \E n \in 0 .. new.count - 1 : new.BestUnusedIds[n] = j
          <5>1. j # i /\ ids.map[j] = None
            BY <1>0, <2>3, <4>4, <4>7, Zenon
          <5>2. PICK n \in 0 .. ids.count - 1 : ids.BestUnusedIds[n] = j
            BY <5>1, Zenon DEF FreeExact
          <5>3. n \in 0 .. new.count - 1
            BY <4>1, <4>2, <5>1, <5>2
          <5> QED
            BY <2>2, <5>2, <5>3, Zenon
        <4> QED
          BY <4>5, <4>6, <4>7, Zenon DEF FreeExact
      <3>2. CASE ~(ids.count > 0)
        <4>1. ids.count = 0 /\ new.count = 0
          BY <1>0, <2>2, <3>2 DEF IdMaps
        <4>2. \A j \in 0 .. ShortIds - 1 : ids.map[j] # None /\ j \in Ids
          BY <1>0, <4>1 DEF FreeExact, Ids
        <4>3. \A j \in 0 .. ShortIds - 1 : new.map[j] # None
          BY <1>0, <2>3, <4>2, Zenon
        <4> HIDE DEF new
        <4> QED
          BY <4>1, <4>3 DEF FreeExact
      <3> QED
        BY <3>1, <3>2, Zenon
    <2> HIDE DEF new, i
    <2>5. new.NextId \in Ids
      BY <2>2, Zenon DEF IdMaps
    <2> QED
      BY <2>1, <2>2, <2>3, <2>4, <2>5, Zenon DEF new, i
  <1> QED
    BY <1>1, <1>2, Zenon

(* The stack has room for a one-byte id that is taken.                      *)
LEMMA StackHasRoom ==
    ASSUME ids \in IdMaps, FreeExact(ids), NEW i \in 0 .. ShortIds - 1, ids.map[i] # None
    PROVE  ids.count < ShortIds
  <1>0. ShortIds \in Nat /\ ids.count \in 0 .. ShortIds
    BY ConnectionMapsAssumption, Zenon DEF IdMaps
  <1> SUFFICES ASSUME ids.count = ShortIds PROVE FALSE
    BY <1>0
  <1> DEFINE S == 0 .. ShortIds - 1
             f == ids.BestUnusedIds
  <1>1. IsFiniteSet(S) /\ Cardinality(S) = ShortIds
    <2>1. 0 \in Int /\ ShortIds - 1 \in Int
      BY <1>0
    <2>2. /\ IsFiniteSet(S)
          /\ Cardinality(S) = IF 0 > ShortIds - 1 THEN 0 ELSE (ShortIds - 1) - 0 + 1
      BY <2>1, FS_Interval, Zenon
    <2> HIDE DEF S
    <2> QED
      BY <1>0, <2>2
  <1>2. IsFiniteSet(S \ {i}) /\ Cardinality(S \ {i}) = Cardinality(S) - 1
    BY <1>1, FS_RemoveElement, Zenon
  <1>3. f \in [S -> S] /\ \A n \in S : f[n] # i
    BY Zenon DEF IdMaps, FreeExact
  <1>4. f \in [S -> S \ {i}]
    BY <1>3, Zenon
  <1>5. \E n, k \in S : n # k /\ f[n] = f[k]
    <2> HIDE DEF S, f
    <2> QED
      BY <1>0, <1>1, <1>2, <1>4, FS_PigeonHole
  <1> QED
    BY <1>5, Zenon DEF FreeExact

(* RemoveAndUnassignId() frees the id of its owner and stacks it if short.  *)
LEMMA UnassignKeeps ==
    ASSUME ids \in IdMaps, FreeExact(ids), NEW c \in Conns, NEW i \in Ids \cup {NoId},
           i # NoId => ids.map[i] = c
    PROVE  LET new == RemoveAndUnassignId(i, c)
           IN  /\ new \in IdMaps /\ FreeExact(new)
               /\ \A j \in Ids : new.map[j] = IF j = i THEN None ELSE ids.map[j]
  <1> DEFINE new == RemoveAndUnassignId(i, c)
             n0 == ids.count
  <1>0. ShortIds \in Nat /\ IdCount \in Nat /\ ShortIds < IdCount /\ None \notin Conns
    BY ConnectionMapsAssumption, Zenon
  <1>1. CASE i = NoId
    <2>1. new = ids /\ NoId \notin Ids
      BY <1>0, <1>1 DEF RemoveAndUnassignId, NoId, Ids
    <2> QED
      BY <1>1, <2>1, Zenon
  <1>2. CASE i # NoId /\ ~(i < ShortIds)
    <2>1. new = [ids EXCEPT !.map = [ids.map EXCEPT ![i] = None],
                            !.BestUnusedIds = ids.BestUnusedIds, !.count = n0]
      BY <1>2, Zenon DEF RemoveAndUnassignId, Remove
    <2>2. /\ new.map = [ids.map EXCEPT ![i] = None]
          /\ new.BestUnusedIds = ids.BestUnusedIds /\ new.count = n0
          /\ new \in IdMaps
      <3> HIDE DEF new
      <3> QED
        BY <1>2, <2>1, Zenon DEF IdMaps
    <2>3. \A j \in Ids : new.map[j] = IF j = i THEN None ELSE ids.map[j]
      BY <1>2, <2>2, Zenon DEF IdMaps
    <2>4. \A j \in 0 .. ShortIds - 1 : j # i /\ j \in Ids
      BY <1>0, <1>2 DEF Ids
    <2>5. \A n \in 0 .. n0 - 1 : ids.BestUnusedIds[n] \in 0 .. ShortIds - 1
      BY <1>0 DEF IdMaps
    <2>6. FreeExact(new)
      <3> HIDE DEF new
      <3> QED
        BY <2>2, <2>3, <2>4, <2>5 DEF FreeExact
    <2> QED
      BY <2>2, <2>3, <2>6, Zenon
  <1>3. CASE i # NoId /\ i < ShortIds
    <2>0. i \in 0 .. ShortIds - 1 /\ i \in Ids /\ ids.map[i] = c
      BY <1>0, <1>3 DEF Ids
    <2>1. n0 < ShortIds /\ n0 \in 0 .. ShortIds - 1
      <3>1. n0 < ShortIds
        BY <1>0, <2>0, StackHasRoom, Zenon
      <3> QED
        BY <1>0, <3>1 DEF IdMaps
    <2>2. new = [ids EXCEPT !.map = [ids.map EXCEPT ![i] = None],
                            !.BestUnusedIds = [ids.BestUnusedIds EXCEPT ![n0] = i],
                            !.count = n0 + 1]
      BY <1>3, <2>0, <2>1, Zenon DEF RemoveAndUnassignId, Remove
    <2>3. /\ new.map = [ids.map EXCEPT ![i] = None]
          /\ new.BestUnusedIds = [ids.BestUnusedIds EXCEPT ![n0] = i] /\ new.count = n0 + 1
          /\ new \in IdMaps
      <3> HIDE DEF new
      <3>1. [ids.map EXCEPT ![i] = None] \in [Ids -> Conns \cup {None}]
        BY <2>0, Zenon DEF IdMaps
      <3>2. [ids.BestUnusedIds EXCEPT ![n0] = i] \in [0 .. ShortIds - 1 -> 0 .. ShortIds - 1]
        BY <2>0, Zenon DEF IdMaps
      <3>3. n0 + 1 \in 0 .. ShortIds
        BY <1>0, <2>1
      <3> QED
        BY <2>2, <3>1, <3>2, <3>3, Zenon DEF IdMaps
    <2>4. \A j \in Ids : new.map[j] = IF j = i THEN None ELSE ids.map[j]
      BY <2>0, <2>3, Zenon DEF IdMaps
    <2>5. \A n \in 0 .. n0 - 1 :
             /\ new.BestUnusedIds[n] = ids.BestUnusedIds[n] /\ n \in 0 .. new.count - 1
             /\ ids.BestUnusedIds[n] \in 0 .. ShortIds - 1
             /\ ids.BestUnusedIds[n] \in Ids
             /\ ids.map[ids.BestUnusedIds[n]] = None /\ ids.BestUnusedIds[n] # i
      <3>1. \A n \in 0 .. n0 - 1 : n # n0 /\ n \in 0 .. ShortIds - 1 /\ n \in 0 .. n0
        BY <1>0, <2>1
      <3>2. \A n \in 0 .. n0 - 1 : ids.BestUnusedIds[n] \in 0 .. ShortIds - 1
        BY <3>1, Zenon DEF IdMaps
      <3>3. 0 .. ShortIds - 1 \subseteq Ids /\ n0 + 1 - 1 = n0
        BY <1>0, <2>1 DEF Ids
      <3>4. \A n \in 0 .. n0 - 1 : new.BestUnusedIds[n] = ids.BestUnusedIds[n]
        BY <2>3, <3>1, Zenon DEF IdMaps
      <3>5. \A n \in 0 .. n0 - 1 : ids.map[ids.BestUnusedIds[n]] = None
        BY Zenon DEF FreeExact
      <3>6. \A n \in 0 .. n0 - 1 : n \in 0 .. new.count - 1
        <4>1. new.count - 1 = n0
          <5>1. new.count = n0 + 1 /\ n0 \in Nat
            BY <1>0, <2>1, <2>3
          <5> QED
            BY <5>1
        <4> QED
          BY <3>1, <4>1, Zenon
      <3> HIDE DEF new, n0
      <3> QED
        BY <1>0, <2>0, <3>2, <3>3, <3>4, <3>5, <3>6, Zenon
    <2>6. new.BestUnusedIds[n0] = i /\ new.map[i] = None /\ n0 \in 0 .. new.count - 1
      <3>1. new.BestUnusedIds[n0] = i
        BY <2>1, <2>3, Zenon DEF IdMaps
      <3>2. n0 \in 0 .. new.count - 1
        BY <1>0, <2>1, <2>3
      <3> QED
        BY <2>0, <2>4, <3>1, <3>2, Zenon
    <2>7. \A n \in 0 .. new.count - 1 : n = n0 \/ n \in 0 .. n0 - 1
      BY <2>1, <2>3
    <2>8. FreeExact(new)
      <3> HIDE DEF new
      <3>1. \A n \in 0 .. new.count - 1 : new.map[new.BestUnusedIds[n]] = None
        BY <2>4, <2>5, <2>6, <2>7
      <3>2. \A n, k \in 0 .. new.count - 1 :
               new.BestUnusedIds[n] = new.BestUnusedIds[k] => n = k
        BY <2>5, <2>6, <2>7 DEF FreeExact
      <3>3. ASSUME NEW j \in 0 .. ShortIds - 1, new.map[j] = None
            PROVE  \E n \in 0 .. new.count - 1 : new.BestUnusedIds[n] = j
        <4>1. CASE j = i
          BY <2>6, <4>1, Zenon
        <4>2. CASE j # i
          <5>1. j \in Ids
            BY <1>0 DEF Ids
          <5>2. PICK n \in 0 .. n0 - 1 : ids.BestUnusedIds[n] = j
            BY <2>4, <3>3, <4>2, <5>1, Zenon DEF FreeExact
          <5> QED
            BY <2>5, <5>2, Zenon
        <4> QED
          BY <4>1, <4>2, Zenon
      <3> QED
        BY <3>1, <3>2, <3>3, Zenon DEF FreeExact
    <2> QED
      BY <2>3, <2>4, <2>8, Zenon
  <1> QED
    BY <1>1, <1>2, <1>3, Zenon

(* The stack a session starts with: a rotation of all one-byte ids.         *)
LEMMA Rotation ==
    ASSUME NEW x \in Nat, x < 2 * ShortIds
    PROVE  x % ShortIds = IF x < ShortIds THEN x ELSE x - ShortIds
  BY ConnectionMapsAssumption

(* The constructor fills the stack of free ids with each short id once. *)
LEMMA InitialStack ==
    ASSUME Init
    PROVE  ids \in IdMaps /\ FreeExact(ids) /\ \A i \in Ids : ids.map[i] = None
  <1>0. ShortIds \in Nat /\ IdCount \in Nat /\ ShortIds < IdCount /\ None \notin Conns
    BY ConnectionMapsAssumption, Zenon
  <1>1. PICK offset \in 0 .. ShortIds :
          ids = [map |-> [i \in Ids |-> None],
                 BestUnusedIds |-> [n \in 0 .. ShortIds - 1 |->
                                      (ShortIds - 1 - n + offset) % ShortIds],
                 count |-> ShortIds, NextId |-> 0]
    BY Zenon DEF Init
  <1> DEFINE x(n) == ShortIds - 1 - n + offset
  <1>2. \A n \in 0 .. ShortIds - 1 :
           ids.BestUnusedIds[n] = IF x(n) < ShortIds THEN x(n) ELSE x(n) - ShortIds
    <2>1. \A n \in 0 .. ShortIds - 1 : x(n) \in Nat /\ x(n) < 2 * ShortIds
      BY <1>0
    <2>2. \A n \in 0 .. ShortIds - 1 : ids.BestUnusedIds[n] = x(n) % ShortIds
      BY <1>1, Zenon
    <2> QED
      BY <2>1, <2>2, Rotation, Zenon
  <1>3. ids.count = ShortIds /\ ids.map = [i \in Ids |-> None] /\ ids.NextId = 0
    BY <1>1, Zenon
  <1>4. 0 .. ShortIds - 1 \subseteq Ids /\ 0 \in Ids
    BY <1>0 DEF Ids
  <1>5. \A n \in 0 .. ShortIds - 1 : ids.BestUnusedIds[n] \in 0 .. ShortIds - 1
    BY <1>0, <1>2
  <1>6. ids.BestUnusedIds \in [0 .. ShortIds - 1 -> 0 .. ShortIds - 1]
    <2>1. ids.BestUnusedIds = [n \in 0 .. ShortIds - 1 |-> x(n) % ShortIds]
      BY <1>1, Zenon
    <2> HIDE DEF x
    <2> QED
      BY <1>5, <2>1, Zenon
  <1>7. ids \in IdMaps
    BY <1>0, <1>1, <1>4, <1>6 DEF IdMaps
  <1>8. \A n, k \in 0 .. ShortIds - 1 : ids.BestUnusedIds[n] = ids.BestUnusedIds[k] => n = k
    BY <1>0, <1>2
  <1>9. ASSUME NEW i \in 0 .. ShortIds - 1
        PROVE  \E n \in 0 .. ShortIds - 1 : ids.BestUnusedIds[n] = i
    <2> DEFINE y == ShortIds - 1 - i + offset
               n == IF y < ShortIds THEN y ELSE y - ShortIds
    <2>1. n \in 0 .. ShortIds - 1
      BY <1>0
    <2>2. ids.BestUnusedIds[n] = i
      BY <1>0, <1>2, <2>1
    <2> QED
      BY <2>1, <2>2, Zenon
  <1> QED
    BY <1>3, <1>4, <1>5, <1>7, <1>8, <1>9 DEF FreeExact

-----------------------------------------------------------------------------
(* The accept task is the first of a connection that has no id yet, and only *)
(* P2P connections have P2P tasks.                                          *)
TasksInOrder(k, c) ==
    \A n \in 1 .. Len(k.tasks) :
        /\ k.tasks[n].kind = "accept" => n = 1 /\ k.stage = "live" /\ k.id = NoId
        /\ k.tasks[n].kind \in {"probe", "p2p"} => c \in P2P

Routed(maps, c, k) ==
    \A s \in Sockets, a \in Addrs :
        maps[s].map[a] = c /\ ~k.stray => k.stage = "live" /\ k.socket = s /\ k.peer = a

(* A live connection is found, unless the insertion ins is still to come.    *)
Found(maps, ins, c, k) ==
    k.stage = "live" =>
        /\ k.peer \in Addrs
        /\ ~(ins.conn = c /\ ins.addr = k.peer) /\ ~k.lost => maps[k.socket].map[k.peer] = c

Placed(ins, c, k) ==
    ins.conn = c =>
        /\ c \notin P2P /\ ins.addr \in Addrs
        /\ k.stage = "live" => k.socket = ins.socket

(* An entry moved in the map of the connection's socket.                    *)
LEMMA RoutedAfter ==
    ASSUME NEW maps \in [Sockets -> AddrMaps], NEW new \in AddrMaps, NEW c, NEW k, NEW m,
           NEW old, NEW a, k.socket \in Sockets, Routed(maps, c, k),
           MovesEntry(maps[k.socket], new, old, a, c),
           old = k.peer \/ a = k.peer, k.stray => m.stray,
           a \in Addrs => m.stage = "live" /\ m.socket = k.socket /\ m.peer = a
    PROVE  Routed([maps EXCEPT ![k.socket] = new], c, m)
  <1> DEFINE next == [maps EXCEPT ![k.socket] = new]
  <1>1. SUFFICES ASSUME NEW s \in Sockets, NEW b \in Addrs, next[s].map[b] = c, ~m.stray
                 PROVE  m.stage = "live" /\ m.socket = s /\ m.peer = b
    BY Zenon DEF Routed
  <1>2. s # k.socket => maps[s].map[b] = c
    BY <1>1, Zenon
  <1>3. s = k.socket
    BY <1>1, <1>2, Zenon DEF Routed
  <1>4. new.map[b] = c
    BY <1>1, <1>3, Zenon
  <1>5. b = a \/ (b # old /\ maps[s].map[b] = c)
    BY <1>3, <1>4, Zenon DEF MovesEntry
  <1>6. b = a
    BY <1>1, <1>5, Zenon DEF Routed
  <1> QED
    BY <1>3, <1>6, Zenon

(* A connection that stays where it is.                                     *)
SamePlace(k, m) ==
    /\ m.stage = k.stage /\ m.socket = k.socket /\ m.peer = k.peer
    /\ m.stray = k.stray /\ m.lost = k.lost

(* A connection that stays is found and routed to as before. *)
LEMMA SameListing ==
    ASSUME NEW maps, NEW next, NEW ins, NEW c, NEW k, NEW m, SamePlace(k, m),
           k.socket \in Sockets, \A r \in Sockets : next[r].map = maps[r].map
    PROVE  /\ Routed(maps, c, k) => Routed(next, c, m)
           /\ Found(maps, ins, c, k) => Found(next, ins, c, m)
           /\ Placed(ins, c, k) => Placed(ins, c, m)
  <1>1. /\ m.stage = k.stage /\ m.socket = k.socket /\ m.peer = k.peer
        /\ m.stray = k.stray /\ m.lost = k.lost
    BY Zenon DEF SamePlace
  <1>2. Routed(maps, c, k) => Routed(next, c, m)
    BY <1>1, Zenon DEF Routed
  <1>3. Found(maps, ins, c, k) => Found(next, ins, c, m)
    BY <1>1, Zenon DEF Found
  <1>4. Placed(ins, c, k) => Placed(ins, c, m)
    BY <1>1, Zenon DEF Placed
  <1> QED
    BY <1>2, <1>3, <1>4, Zenon

IInv ==
    /\ ids \in IdMaps /\ FreeExact(ids)
    /\ addrMaps \in [Sockets -> AddrMaps] /\ \A s \in Sockets : Coherent(addrMaps[s])
    /\ keyMap \subseteq P2P
    /\ conn \in [Conns -> Connections]
    /\ connecting \in Insertions
    /\ reading \in [Sockets -> Addrs \cup {None}]
    /\ \A c \in Conns : TasksInOrder(conn[c], c) /\ Placed(connecting, c, conn[c])
    /\ \A c \in Conns, i \in Ids : ids.map[i] = c <=> conn[c].stage = "live" /\ conn[c].id = i
    /\ \A c \in Conns \ P2P :
          Routed(addrMaps, c, conn[c]) /\ Found(addrMaps, connecting, c, conn[c])
    /\ \A c \in keyMap : conn[c].stage = "live"

(* IInv is what the runs check, and what makes it inductive.                *)
LEMMA IInvImplies == IInv => TypeOK /\ IdsExact /\ CacheCoherent /\ EntriesCurrent
  <1> SUFFICES ASSUME IInv PROVE TypeOK /\ IdsExact /\ CacheCoherent /\ EntriesCurrent
    OBVIOUS
  <1>1. TypeOK
    BY Zenon DEF IInv, TypeOK, IdMaps, AddrMaps, Connections, Insertions
  <1>2. IdsExact
    BY Zenon DEF IInv, IdsExact, FreeExact
  <1>3. CacheCoherent
    BY Zenon DEF IInv, CacheCoherent, Coherent
  <1>4. EntriesCurrent
    <2>1. /\ \A c \in Conns \ P2P :
                Routed(addrMaps, c, conn[c]) /\ Found(addrMaps, connecting, c, conn[c])
          /\ \A c \in keyMap : conn[c].stage = "live"
      BY Zenon DEF IInv
    <2>2. ASSUME NEW s \in Sockets, NEW a \in Addrs, NEW c \in Conns \ P2P,
                 addrMaps[s].map[a] = c, ~conn[c].stray
          PROVE  conn[c].stage = "live" /\ conn[c].socket = s /\ conn[c].peer = a
      <3>1. Routed(addrMaps, c, conn[c])
        BY <2>1, Zenon
      <3> QED
        BY <2>2, <3>1, Zenon DEF Routed
    <2>3. ASSUME NEW c \in Conns \ P2P, conn[c].stage = "live", ~Inserting(c), ~conn[c].lost
          PROVE  addrMaps[conn[c].socket].map[conn[c].peer] = c
      <3>1. Found(addrMaps, connecting, c, conn[c])
        BY <2>1, Zenon
      <3> QED
        BY <2>3, <3>1, Zenon DEF Found, Inserting
    <2> QED
      BY <2>1, <2>2, <2>3 DEF EntriesCurrent
  <1> QED
    BY <1>1, <1>2, <1>3, <1>4, Zenon

(* A connection object that is not in use. *)
LEMMA FreshIs ==
    Fresh \in Connections /\ Fresh.stage = "none" /\ Fresh.id = NoId
    /\ Fresh.tasks = <<>> /\ Len(Fresh.tasks) = 0
    /\ NotConnecting \in Insertions /\ NotConnecting.conn = None
  BY ConnectionMapsAssumption DEF Fresh, Connections, NotConnecting, Insertions

(* The invariant holds when the maps have been created. *)
LEMMA InitHolds == Init => IInv
  <1> SUFFICES ASSUME Init PROVE IInv
    OBVIOUS
  <1>0. /\ None \notin Conns /\ None \notin Addrs /\ Main \in Sockets
        /\ P2P \subseteq Conns
    BY ConnectionMapsAssumption, Zenon
  <1>1. ids \in IdMaps /\ FreeExact(ids) /\ \A i \in Ids : ids.map[i] = None
    BY InitialStack, Zenon
  <1>2. /\ addrMaps \in [Sockets -> AddrMaps]
        /\ \A s \in Sockets : Coherent(addrMaps[s]) /\ \A a \in Addrs : addrMaps[s].map[a] = None
    BY Zenon DEF Init, AddrMaps, Coherent
  <1>3. /\ Fresh \in Connections /\ Fresh.stage = "none" /\ Len(Fresh.tasks) = 0
        /\ NotConnecting \in Insertions /\ NotConnecting.conn = None
    BY FreshIs, Zenon
  <1>4. conn = [c \in Conns |-> Fresh] /\ keyMap = {} /\ connecting = NotConnecting
        /\ reading = [s \in Sockets |-> None]
    BY Zenon DEF Init
  <1>5. /\ conn \in [Conns -> Connections]
        /\ \A c \in Conns : conn[c].stage = "none" /\ Len(conn[c].tasks) = 0
    BY <1>3, <1>4, Zenon
  <1>6. \A c \in Conns : TasksInOrder(conn[c], c)
    BY <1>5 DEF TasksInOrder
  <1>7. \A c \in Conns : Routed(addrMaps, c, conn[c]) /\ Found(addrMaps, connecting, c, conn[c])
    BY <1>0, <1>2, <1>5, Zenon DEF Routed, Found
  <1>8. \A c \in Conns : Placed(connecting, c, conn[c])
    BY <1>0, <1>3, <1>4, Zenon DEF Placed
  <1> QED
    BY <1>0, <1>1, <1>2, <1>3, <1>4, <1>5, <1>6, <1>7, <1>8, Zenon DEF IInv

(* A step that changes one connection c, to k, and what the maps say of it. *)
OneChanges(c, k) ==
    /\ conn' = [conn EXCEPT ![c] = k] /\ TasksInOrder(k, c)
    /\ connecting' \in Insertions /\ Placed(connecting', c, k)
    /\ connecting' = connecting \/ {connecting.conn, connecting'.conn} \subseteq {c, None}
    /\ reading' \in [Sockets -> Addrs \cup {None}]
    /\ addrMaps' \in [Sockets -> AddrMaps]
    /\ \A s \in Sockets : Coherent(addrMaps'[s])
    /\ \A s \in Sockets : KeepsOthers(addrMaps[s], addrMaps'[s], c)
    /\ c \notin P2P => Routed(addrMaps', c, k) /\ Found(addrMaps', connecting', c, k)
    /\ keyMap' \subseteq P2P /\ keyMap' \subseteq keyMap \cup {c}
    /\ c \in keyMap' => k.stage = "live"
    /\ ids' \in IdMaps /\ FreeExact(ids')
    /\ \A i \in Ids, d \in Conns \ {c} : ids'.map[i] = d <=> ids.map[i] = d
    /\ \A i \in Ids : ids'.map[i] = c <=> k.stage = "live" /\ k.id = i

(* What the invariant and the assumption say of each variable. *)
LEMMA Facts ==
    ASSUME IInv
    PROVE  /\ None \notin Conns /\ None \notin Addrs /\ Main \in Sockets
           /\ P2P \subseteq Conns /\ NoId \notin Ids
           /\ ids \in IdMaps /\ FreeExact(ids) /\ keyMap \subseteq P2P
           /\ addrMaps \in [Sockets -> AddrMaps] /\ \A r \in Sockets : Coherent(addrMaps[r])
           /\ conn \in [Conns -> Connections]
           /\ reading \in [Sockets -> Addrs \cup {None}]
           /\ connecting \in Insertions
  <1>1. /\ None \notin Conns /\ None \notin Addrs /\ Main \in Sockets
        /\ P2P \subseteq Conns /\ NoId \notin Ids
    BY ConnectionMapsAssumption DEF NoId, Ids
  <1> QED
    BY <1>1, Zenon DEF IInv

(* A step that changes one connection, and the maps on its behalf. *)
LEMMA StepOfOne ==
    ASSUME IInv, NEW c \in Conns, NEW k \in Connections, OneChanges(c, k)
    PROVE  IInv'
  <1>0. conn' = [conn EXCEPT ![c] = k]
    BY Zenon DEF OneChanges
  <1>1. /\ conn' \in [Conns -> Connections] /\ conn'[c] = k
        /\ \A d \in Conns \ {c} : conn'[d] = conn[d]
    BY <1>0, Facts, Zenon
  <1>2. \A d \in Conns : TasksInOrder(conn'[d], d)
    <2>1. TasksInOrder(k, c) /\ \A d \in Conns : TasksInOrder(conn[d], d)
      BY Zenon DEF IInv, OneChanges
    <2> QED
      BY <1>1, <2>1, Zenon
  <1>c. /\ connecting' \in Insertions
        /\ \A d \in Conns \ {c} : connecting' = connecting
                                \/ (connecting.conn # d /\ connecting'.conn # d)
    <2>1. /\ connecting' \in Insertions /\ None \notin Conns
          /\ connecting' = connecting \/ {connecting.conn, connecting'.conn} \subseteq {c, None}
      BY Facts, Zenon DEF OneChanges
    <2> QED
      BY <2>1
  <1>3. \A d \in Conns, i \in Ids : ids'.map[i] = d <=> conn'[d].stage = "live" /\ conn'[d].id = i
    <2>1. /\ \A d \in Conns, i \in Ids : ids.map[i] = d <=> conn[d].stage = "live" /\ conn[d].id = i
          /\ \A i \in Ids, d \in Conns \ {c} : ids'.map[i] = d <=> ids.map[i] = d
          /\ \A i \in Ids : ids'.map[i] = c <=> k.stage = "live" /\ k.id = i
      BY Zenon DEF IInv, OneChanges
    <2> QED
      BY <1>1, <2>1
  <1>4. \A d \in Conns \ P2P :
           Routed(addrMaps', d, conn'[d]) /\ Found(addrMaps', connecting', d, conn'[d])
    <2>1. /\ \A d \in Conns \ P2P :
                Routed(addrMaps, d, conn[d]) /\ Found(addrMaps, connecting, d, conn[d])
          /\ c \notin P2P => Routed(addrMaps', c, k) /\ Found(addrMaps', connecting', c, k)
          /\ \A s \in Sockets : KeepsOthers(addrMaps[s], addrMaps'[s], c)
      BY Zenon DEF IInv, OneChanges
    <2>2. ASSUME NEW d \in Conns \ P2P, d # c PROVE Routed(addrMaps', d, conn'[d])
      BY <1>1, <2>1, <2>2 DEF Routed, KeepsOthers
    <2>3. ASSUME NEW d \in Conns \ P2P, d # c
          PROVE  Found(addrMaps', connecting', d, conn'[d])
      <3>1. conn'[d] = conn[d] /\ conn[d].socket \in Sockets
        BY <1>1, <2>3, Zenon DEF Connections
      <3>2. Found(addrMaps, connecting, d, conn[d])
        BY <2>1, Zenon
      <3>3. SUFFICES ASSUME conn[d].stage = "live"
                     PROVE  /\ conn[d].peer \in Addrs
                            /\ ~(connecting'.conn = d /\ connecting'.addr = conn[d].peer)
                               /\ ~conn[d].lost
                               => addrMaps'[conn[d].socket].map[conn[d].peer] = d
        BY <3>1, Zenon DEF Found
      <3>4. ~(connecting'.conn = d /\ connecting'.addr = conn[d].peer)
            => ~(connecting.conn = d /\ connecting.addr = conn[d].peer)
        BY <1>c, <2>3, Zenon
      <3>5. conn[d].peer \in Addrs
        BY <3>2, <3>3, Zenon DEF Found
      <3>6. addrMaps[conn[d].socket].map[conn[d].peer] = d
            => addrMaps'[conn[d].socket].map[conn[d].peer] = d
        <4>1. KeepsOthers(addrMaps[conn[d].socket], addrMaps'[conn[d].socket], c)
          BY <2>1, <3>1, Zenon
        <4>2. d \in Conns \ {c}
          BY <2>3, Zenon
        <4> QED
          BY <3>5, <4>1, <4>2, Zenon DEF KeepsOthers
      <3> QED
        BY <3>2, <3>3, <3>4, <3>5, <3>6, Zenon DEF Found
    <2> QED
      BY <1>1, <2>1, <2>2, <2>3, Zenon
  <1>5. \A d \in keyMap' : conn'[d].stage = "live"
    <2>1. /\ \A d \in keyMap : conn[d].stage = "live"
          /\ keyMap' \subseteq P2P /\ keyMap' \subseteq keyMap \cup {c}
          /\ c \in keyMap' => k.stage = "live"
      BY Zenon DEF IInv, OneChanges
    <2> QED
      BY <1>1, <2>1, Facts, Zenon
  <1>6. \A d \in Conns : Placed(connecting', d, conn'[d])
    <2>1. Placed(connecting', c, k) /\ \A d \in Conns : Placed(connecting, d, conn[d])
      BY Zenon DEF IInv, OneChanges
    <2>2. ASSUME NEW d \in Conns, d # c PROVE Placed(connecting', d, conn'[d])
      BY <1>1, <1>c, <2>1, <2>2, Zenon DEF Placed
    <2> QED
      BY <1>1, <2>1, <2>2, Zenon
  <1>7. /\ reading' \in [Sockets -> Addrs \cup {None}]
        /\ addrMaps' \in [Sockets -> AddrMaps] /\ \A s \in Sockets : Coherent(addrMaps'[s])
        /\ keyMap' \subseteq P2P /\ ids' \in IdMaps /\ FreeExact(ids')
    BY Zenon DEF OneChanges
  <1> QED
    BY <1>1, <1>2, <1>c, <1>3, <1>4, <1>5, <1>6, <1>7, Zenon DEF IInv

-----------------------------------------------------------------------------
(* Facts of IInv about one connection.                                      *)
LEMMA OfOne ==
    ASSUME IInv, NEW c \in Conns
    PROVE  /\ conn[c] \in Connections /\ conn = [conn EXCEPT ![c] = conn[c]]
           /\ conn[c].socket \in Sockets /\ conn[c].peer \in Addrs \cup {None}
           /\ conn[c].tasks \in Seq(Tasks) /\ conn[c].id \in Ids \cup {NoId}
           /\ TasksInOrder(conn[c], c)
           /\ \A s \in Sockets : KeepsOthers(addrMaps[s], addrMaps[s], c)
           /\ c \notin P2P =>
                 Routed(addrMaps, c, conn[c]) /\ Found(addrMaps, connecting, c, conn[c])
           /\ c \in keyMap => conn[c].stage = "live"
           /\ Placed(connecting, c, conn[c])
           /\ \A i \in Ids : ids.map[i] = c <=> conn[c].stage = "live" /\ conn[c].id = i
  <1>1. conn[c] \in Connections /\ conn = [conn EXCEPT ![c] = conn[c]]
    BY Facts, Zenon
  <1>2. /\ conn[c].socket \in Sockets /\ conn[c].peer \in Addrs \cup {None}
        /\ conn[c].tasks \in Seq(Tasks) /\ conn[c].id \in Ids \cup {NoId}
    BY <1>1, Zenon DEF Connections
  <1>3. \A s \in Sockets : KeepsOthers(addrMaps[s], addrMaps[s], c)
    BY Zenon DEF KeepsOthers
  <1>4. Placed(connecting, c, conn[c])
    BY Zenon DEF IInv
  <1>5. /\ TasksInOrder(conn[c], c)
        /\ c \notin P2P =>
              Routed(addrMaps, c, conn[c]) /\ Found(addrMaps, connecting, c, conn[c])
        /\ c \in keyMap => conn[c].stage = "live"
        /\ \A i \in Ids : ids.map[i] = c <=> conn[c].stage = "live" /\ conn[c].id = i
    BY Zenon DEF IInv
  <1> QED
    BY <1>1, <1>2, <1>3, <1>4, <1>5, Zenon

(* A task is appended or taken.                                             *)
LEMMA Appended ==
    ASSUME NEW tasks \in Seq(Tasks), NEW t \in Tasks
    PROVE  /\ Append(tasks, t) \in Seq(Tasks) /\ Len(tasks) \in Nat
           /\ Len(Append(tasks, t)) = Len(tasks) + 1
           /\ \A n \in 1 .. Len(tasks) : Append(tasks, t)[n] = tasks[n]
           /\ Append(tasks, t)[Len(tasks) + 1] = t
  OBVIOUS

(* The first task of a strand, and those behind it. *)
LEMMA Taken ==
    ASSUME IInv, NEW c \in Conns, conn[c].tasks # <<>>
    PROVE  /\ Head(conn[c].tasks) \in Tasks /\ Tail(conn[c].tasks) \in Seq(Tasks)
           /\ Head(conn[c].tasks).kind = "accept" => conn[c].stage = "live" /\ conn[c].id = NoId
           /\ Head(conn[c].tasks).kind \in {"probe", "p2p"} => c \in P2P
           /\ \A n \in 1 .. Len(Tail(conn[c].tasks)) :
                 LET kind == Tail(conn[c].tasks)[n].kind
                 IN  kind # "accept" /\ (kind \in {"probe", "p2p"} => c \in P2P)
  <1> DEFINE tasks == conn[c].tasks
  <1>1. tasks \in Seq(Tasks) /\ TasksInOrder(conn[c], c)
    BY OfOne, Zenon
  <1>2. /\ Head(tasks) \in Tasks /\ Tail(tasks) \in Seq(Tasks)
        /\ Len(Tail(tasks)) = Len(tasks) - 1
        /\ \A n \in 1 .. Len(Tail(tasks)) : Tail(tasks)[n] = tasks[n + 1]
    BY <1>1
  <1>3. Len(tasks) \in Nat /\ Len(tasks) # 0
    BY <1>1
  <1>4. 1 \in 1 .. Len(tasks) /\ Head(tasks) = tasks[1]
    BY <1>1, <1>3
  <1>5. \A n \in 1 .. Len(Tail(tasks)) : n + 1 \in 1 .. Len(tasks) /\ n + 1 # 1
    BY <1>2, <1>3
  <1> HIDE DEF tasks
  <1>6. /\ Head(tasks).kind = "accept" => conn[c].stage = "live" /\ conn[c].id = NoId
        /\ Head(tasks).kind \in {"probe", "p2p"} => c \in P2P
    BY <1>1, <1>4, Zenon DEF TasksInOrder, tasks
  <1>7. \A n \in 1 .. Len(Tail(tasks)) :
           /\ Tail(tasks)[n].kind # "accept"
           /\ Tail(tasks)[n].kind \in {"probe", "p2p"} => c \in P2P
    BY <1>1, <1>2, <1>5, Zenon DEF TasksInOrder, tasks
  <1> QED
    BY <1>2, <1>6, <1>7, Zenon DEF tasks

(* A reader posts a task; the address maps at most remember a lookup.       *)
LEMMA PostHolds ==
    ASSUME IInv, NEW c \in Conns, NEW kind \in Kinds \ {"accept"}, NEW s \in Sockets,
           NEW a \in Addrs, Post(c, kind, s, a), kind \in {"probe", "p2p"} => c \in P2P,
           addrMaps' \in [Sockets -> AddrMaps],
           \A r \in Sockets : Coherent(addrMaps'[r]) /\ addrMaps'[r].map = addrMaps[r].map,
           reading' \in [Sockets -> Addrs \cup {None}], UNCHANGED <<ids, keyMap, connecting>>
    PROVE  IInv'
  <1> DEFINE t == [kind |-> kind, addr |-> a,
                   socket |-> IF kind \in {"probe", "p2p"} THEN s ELSE Main]
             all == conn[c].allowed \/ kind = "update"
             k == [conn[c] EXCEPT !.tasks = Append(conn[c].tasks, t), !.allowed = all]
  <1>0. conn[c] \in Connections /\ conn[c].tasks \in Seq(Tasks) /\ TasksInOrder(conn[c], c)
    BY OfOne, Zenon
  <1>1. conn' = [conn EXCEPT ![c] = k]
    <2>1. conn' = [conn EXCEPT ![c].tasks = Append(conn[c].tasks, t), ![c].allowed = all]
      BY Zenon DEF Post
    <2>2. conn \in [Conns -> Connections]
      BY Facts, Zenon
    <2> HIDE DEF t, all
    <2> QED
      BY <2>1, <2>2, Zenon
  <1>2. t \in Tasks /\ t.kind = kind
    BY ConnectionMapsAssumption, Zenon DEF Tasks
  <1>3. /\ Append(conn[c].tasks, t) \in Seq(Tasks) /\ Len(conn[c].tasks) \in Nat
        /\ Len(Append(conn[c].tasks, t)) = Len(conn[c].tasks) + 1
        /\ \A n \in 1 .. Len(conn[c].tasks) : Append(conn[c].tasks, t)[n] = conn[c].tasks[n]
        /\ Append(conn[c].tasks, t)[Len(conn[c].tasks) + 1] = t
    BY <1>0, <1>2, Appended
  <1> HIDE DEF t
  <1>4. /\ k \in Connections /\ k.tasks = Append(conn[c].tasks, t)
        /\ k.stage = conn[c].stage /\ k.id = conn[c].id /\ SamePlace(conn[c], k)
    BY <1>0, <1>3, Zenon DEF Connections, SamePlace
  <1> HIDE DEF k
  <1>5. TasksInOrder(k, c)
    <2> SUFFICES ASSUME NEW n \in 1 .. Len(k.tasks)
                 PROVE  /\ k.tasks[n].kind = "accept" => n = 1 /\ k.stage = "live" /\ k.id = NoId
                        /\ k.tasks[n].kind \in {"probe", "p2p"} => c \in P2P
      BY Zenon DEF TasksInOrder
    <2>1. CASE n \in 1 .. Len(conn[c].tasks)
      BY <1>0, <1>3, <1>4, <2>1, ZenonT(40) DEF TasksInOrder
    <2>2. CASE n = Len(conn[c].tasks) + 1
      BY <1>2, <1>3, <1>4, <2>2, Zenon
    <2> QED
      BY <1>3, <1>4, <2>1, <2>2, SMTT(30)
  <1>6. connecting' = connecting /\ conn[c].socket \in Sockets
    BY OfOne, Zenon
  <1>7. \A r \in Sockets : KeepsOthers(addrMaps[r], addrMaps'[r], c)
    BY Zenon DEF KeepsOthers
  <1>8. /\ Placed(connecting', c, k)
        /\ c \notin P2P => Routed(addrMaps', c, k) /\ Found(addrMaps', connecting', c, k)
    <2>1. /\ Placed(connecting, c, conn[c])
          /\ c \notin P2P =>
                Routed(addrMaps, c, conn[c]) /\ Found(addrMaps, connecting, c, conn[c])
      BY OfOne, Zenon
    <2>2. \A r \in Sockets : addrMaps'[r].map = addrMaps[r].map
      BY Zenon
    <2>3. /\ Routed(addrMaps, c, conn[c]) => Routed(addrMaps', c, k)
          /\ Found(addrMaps, connecting, c, conn[c]) => Found(addrMaps', connecting, c, k)
          /\ Placed(connecting, c, conn[c]) => Placed(connecting, c, k)
      BY <1>4, <1>6, <2>2, SameListing, Zenon
    <2> QED
      BY <1>6, <2>1, <2>3, Zenon
  <1>9. /\ ids' \in IdMaps /\ FreeExact(ids') /\ connecting' \in Insertions
        /\ keyMap' \subseteq P2P /\ keyMap' \subseteq keyMap \cup {c}
        /\ \A i \in Ids, d \in Conns \ {c} : ids'.map[i] = d <=> ids.map[i] = d
    BY <1>6, Facts, Zenon
  <1>10. /\ c \in keyMap' => k.stage = "live"
         /\ \A i \in Ids : ids'.map[i] = c <=> k.stage = "live" /\ k.id = i
    BY <1>4, OfOne
  <1>11. OneChanges(c, k)
    BY <1>1, <1>5, <1>6, <1>7, <1>8, <1>9, <1>10, Zenon DEF OneChanges
  <1> QED
    BY <1>4, <1>11, StepOfOne, Zenon

(* A step of a UDP reader that changes no map. *)
LEMMA StepOfReader ==
    ASSUME IInv, reading' \in [Sockets -> Addrs \cup {None}],
           UNCHANGED <<ids, addrMaps, keyMap, conn, connecting>>
    PROVE  IInv'
  <1>1. ids' = ids /\ addrMaps' = addrMaps /\ keyMap' = keyMap /\ conn' = conn
        /\ connecting' = connecting
    BY Zenon
  <1> QED
    BY <1>1, SMTT(30) DEF IInv

(* Routing a datagram: by address, by id, by P2P key, or not at all. *)
LEMMA ReadersHold ==
    ASSUME IInv, NEW s \in Sockets,
           \/ \E a \in Addrs : RouteDatagram(s, a) \/ UnrecognizedSource(s, a)
           \/ \E c \in Conns : UpdateSourceAddress(s, c) \/ PeerToPeer(s, c)
           \/ DropDatagram(s)
    PROVE  IInv'
  <1>0. /\ addrMaps \in [Sockets -> AddrMaps] /\ \A r \in Sockets : Coherent(addrMaps[r])
        /\ reading \in [Sockets -> Addrs \cup {None}] /\ keyMap \subseteq P2P
        /\ P2P \subseteq Conns
    BY Facts, Zenon
  <1>1. ASSUME NEW a \in Addrs, RouteDatagram(s, a) PROVE IInv'
    <2>1. PICK c \in Conns : Post(c, "data", s, a)
      BY <1>1, Zenon DEF RouteDatagram
    <2>2. /\ addrMaps' = [addrMaps EXCEPT ![s] = Remember(addrMaps[s], a)]
          /\ reading' = reading /\ UNCHANGED <<ids, keyMap, connecting>>
      BY <1>1, Zenon DEF RouteDatagram
    <2>3. /\ Remember(addrMaps[s], a) \in AddrMaps /\ Coherent(Remember(addrMaps[s], a))
          /\ Remember(addrMaps[s], a).map = addrMaps[s].map
      BY <1>0, RememberKeeps, Zenon
    <2>4. /\ addrMaps' \in [Sockets -> AddrMaps]
          /\ \A r \in Sockets : Coherent(addrMaps'[r]) /\ addrMaps'[r].map = addrMaps[r].map
      BY <1>0, <2>2, <2>3, Zenon
    <2>5. "data" \in Kinds \ {"accept"}
      BY Zenon DEF Kinds
    <2> QED
      BY <1>0, <2>1, <2>2, <2>4, <2>5, PostHolds, Zenon
  <1>2. ASSUME NEW a \in Addrs, UnrecognizedSource(s, a) PROVE IInv'
    <2>1. /\ reading' \in [Sockets -> Addrs \cup {None}]
          /\ UNCHANGED <<ids, addrMaps, keyMap, conn, connecting>>
      BY <1>0, <1>2, Zenon DEF UnrecognizedSource
    <2> QED
      BY <2>1, StepOfReader, Zenon
  <1>3. ASSUME NEW c \in Conns, UpdateSourceAddress(s, c) PROVE IInv'
    <2>1. /\ reading[s] \in Addrs /\ Post(c, "update", s, reading[s])
          /\ reading' \in [Sockets -> Addrs \cup {None}]
          /\ UNCHANGED <<ids, addrMaps, keyMap, connecting>>
      BY <1>0, <1>3, Zenon DEF UpdateSourceAddress
    <2>2. "update" \in Kinds \ {"accept"}
      BY Zenon DEF Kinds
    <2> QED
      BY <1>0, <2>1, <2>2, PostHolds, Zenon
  <1>4. ASSUME NEW c \in Conns, PeerToPeer(s, c) PROVE IInv'
    <2>1. PICK kind \in {"probe", "p2p"} : Post(c, kind, s, reading[s])
      BY <1>4, Zenon DEF PeerToPeer
    <2>2. /\ reading[s] \in Addrs /\ c \in P2P
          /\ reading' \in [Sockets -> Addrs \cup {None}]
          /\ UNCHANGED <<ids, addrMaps, keyMap, connecting>>
      BY <1>0, <1>4, Zenon DEF PeerToPeer
    <2>3. kind \in Kinds \ {"accept"}
      BY Zenon DEF Kinds
    <2> QED
      BY <1>0, <2>1, <2>2, <2>3, PostHolds, Zenon
  <1>5. CASE DropDatagram(s)
    <2>1. /\ reading' \in [Sockets -> Addrs \cup {None}]
          /\ UNCHANGED <<ids, addrMaps, keyMap, conn, connecting>>
      BY <1>0, <1>5, Zenon DEF DropDatagram
    <2> QED
      BY <2>1, StepOfReader, Zenon
  <1> QED
    BY <1>1, <1>2, <1>3, <1>4, <1>5, Zenon

(* onConnectRequest(), in its two steps.                                    *)
LEMMA ConnectHolds ==
    ASSUME IInv,
           \/ \E c \in Conns, s \in Sockets, a \in Addrs : OnConnectRequest(c, s, a)
           \/ InsertConnecting
    PROVE  IInv'
  <1>0. /\ None \notin Conns /\ None \notin Addrs /\ Main \in Sockets /\ P2P \subseteq Conns
        /\ ids \in IdMaps /\ FreeExact(ids) /\ keyMap \subseteq P2P
        /\ addrMaps \in [Sockets -> AddrMaps] /\ \A r \in Sockets : Coherent(addrMaps[r])
        /\ reading \in [Sockets -> Addrs \cup {None}] /\ connecting \in Insertions
    BY Facts, Zenon
  <1>1. ASSUME NEW c \in Conns, NEW s \in Sockets, NEW a \in Addrs, OnConnectRequest(c, s, a)
        PROVE  IInv'
    <2> DEFINE t == [kind |-> "accept", socket |-> Main, addr |-> a]
               k == [Fresh EXCEPT !.stage = "live", !.socket = s, !.peer = a, !.tasks = <<t>>]
               ins == [conn |-> c, socket |-> s, addr |-> a]
    <2>1. /\ conn' = [conn EXCEPT ![c] = k] /\ connecting' = ins /\ c \notin P2P
          /\ connecting.conn = None
          /\ conn[c].stage = "none" /\ ~InAddressMap(c)
          /\ ids' = ids /\ addrMaps' = addrMaps /\ keyMap' = keyMap /\ reading' = reading
      BY <1>1, Zenon DEF OnConnectRequest, Unallocated
    <2>2. t \in Tasks /\ t.kind = "accept"
      BY <1>0, Zenon DEF Tasks, Kinds
    <2>3. <<t>> \in Seq(Tasks) /\ Len(<<t>>) = 1 /\ <<t>>[1] = t
      <3> HIDE DEF t
      <3> QED
        BY <2>2
    <2> HIDE DEF t
    <2>4. /\ k \in Connections /\ k.stage = "live" /\ k.id = NoId /\ k.tasks = <<t>>
          /\ k.peer = a /\ k.socket = s
      BY <1>0, <2>3, Zenon DEF Connections, Fresh
    <2> HIDE DEF k
    <2>5. TasksInOrder(k, c)
      BY <2>2, <2>3, <2>4 DEF TasksInOrder
    <2>i. ins \in Insertions /\ ins.conn = c /\ ins.socket = s /\ ins.addr = a
      BY Zenon DEF Insertions
    <2> HIDE DEF ins
    <2>6. /\ connecting' \in Insertions /\ Placed(connecting', c, k)
          /\ {connecting.conn, connecting'.conn} \subseteq {c, None}
      BY <2>1, <2>4, <2>i, Zenon DEF Placed
    <2>7. Routed(addrMaps', c, k) /\ Found(addrMaps', connecting', c, k)
      <3>1. Routed(addrMaps', c, k)
        BY <2>1, Zenon DEF Routed, InAddressMap
      <3>2. Found(addrMaps', connecting', c, k)
        BY <2>1, <2>4, <2>i, Zenon DEF Found
      <3> QED
        BY <3>1, <3>2, Zenon
    <2>8. \A i \in Ids : ids.map[i] # c
      BY <2>1, OfOne, Zenon
    <2>9. NoId \notin Ids
      BY ConnectionMapsAssumption DEF NoId, Ids
    <2>10. c \notin keyMap
      BY <1>0, <2>1, Zenon
    <2>11. \A i \in Ids : ids'.map[i] = c <=> k.stage = "live" /\ k.id = i
      BY <2>1, <2>4, <2>8, <2>9, Zenon
    <2>12. \A r \in Sockets : KeepsOthers(addrMaps[r], addrMaps[r], c)
      BY OfOne, Zenon
    <2>13. OneChanges(c, k)
      BY <1>0, <2>1, <2>5, <2>6, <2>7, <2>10, <2>11, <2>12, Zenon DEF OneChanges
    <2> QED
      BY <2>4, <2>13, StepOfOne, Zenon
  <1>2. CASE InsertConnecting
    <2> DEFINE c == connecting.conn
               s == connecting.socket
               a == connecting.addr
               k == conn[c]
               current == k.stage = "live" /\ k.peer = a
               holder == addrMaps[s].map[a]
               stray == k.stray \/ (~current /\ holder = None)
               lost == IF current THEN holder \notin {None, c} ELSE k.lost
               m == [k EXCEPT !.stray = stray, !.lost = lost]
               new == InsertAddress(addrMaps[s], a, c)
    <2>1. /\ c \in Conns /\ s \in Sockets
          /\ addrMaps' = [addrMaps EXCEPT ![s] = new]
          /\ conn' = [conn EXCEPT ![c].stray = stray, ![c].lost = lost]
          /\ connecting' = NotConnecting /\ ids' = ids /\ keyMap' = keyMap
          /\ reading' = reading
      BY <1>0, <1>2, Zenon DEF InsertConnecting, Insertions
    <2>2. /\ k \in Connections /\ k.socket \in Sockets
          /\ TasksInOrder(k, c) /\ Placed(connecting, c, k)
          /\ (c \notin P2P => Routed(addrMaps, c, k) /\ Found(addrMaps, connecting, c, k))
          /\ (c \in keyMap => k.stage = "live")
          /\ \A i \in Ids : ids.map[i] = c <=> k.stage = "live" /\ k.id = i
      BY <2>1, OfOne, Zenon
    <2>3. c \notin P2P /\ a \in Addrs /\ (k.stage = "live" => k.socket = s)
      BY <2>2, Zenon DEF Placed
    <2>4. /\ new \in AddrMaps /\ Coherent(new) /\ KeepsOthers(addrMaps[s], new, c)
          /\ MovesEntry(addrMaps[s], new, None, a, c) /\ TakesEntry(addrMaps[s], new, a, c)
          /\ KeepsOwn(addrMaps[s], new, a, c)
      <3>1. addrMaps[s] \in AddrMaps /\ Coherent(addrMaps[s])
        BY <1>0, <2>1, Zenon
      <3> HIDE DEF c, k, s, a, stray, lost, current, holder
      <3>2. /\ new \in AddrMaps /\ Coherent(new) /\ KeepsOthers(addrMaps[s], new, c)
            /\ MovesEntry(addrMaps[s], new, None, a, c)
        BY <2>1, <2>3, <3>1, InsertKeeps, Zenon
      <3>3. TakesEntry(addrMaps[s], new, a, c) /\ KeepsOwn(addrMaps[s], new, a, c)
        BY <2>1, <2>3, <3>1, InsertTakes, Zenon
      <3> HIDE DEF new
      <3> QED
        BY <3>2, <3>3, Zenon
    <2>5. stray \in BOOLEAN /\ lost \in BOOLEAN
      BY <2>2, Zenon DEF Connections
    <2>6. conn' = [conn EXCEPT ![c] = m]
      <3>1. conn \in [Conns -> Connections]
        BY Facts, Zenon
      <3> HIDE DEF c, stray, lost
      <3> QED
        BY <2>1, <3>1, Zenon
    <2>7. /\ m \in Connections /\ m.stage = k.stage /\ m.id = k.id /\ m.tasks = k.tasks
          /\ m.socket = k.socket /\ m.peer = k.peer /\ m.stray = stray /\ m.lost = lost
      <3> HIDE DEF k, stray, lost
      <3> QED
        BY <2>2, <2>5, Zenon DEF Connections
    <2> HIDE DEF m, new
    <2>8. Routed(addrMaps', c, m)
      <3>1. CASE current
        <4>1. /\ k.socket = s /\ k.peer = a /\ m.stage = "live" /\ m.socket = s /\ m.peer = a
              /\ k.stray => m.stray
          BY <2>3, <2>7, <3>1, Zenon
        <4>2. Routed(addrMaps, c, k) /\ k.socket \in Sockets
          BY <2>2, <2>3, Zenon
        <4> HIDE DEF c, k, s, a, stray, lost, current, holder
        <4> QED
          BY <1>0, <2>1, <2>4, <4>1, <4>2, RoutedAfter, Zenon
      <3>2. CASE ~current /\ holder = None
        BY <2>7, <3>2, Zenon DEF Routed
      <3>3. CASE ~current /\ holder # None
        <4>1. \A r \in Sockets : addrMaps'[r].map = addrMaps[r].map
          <5>1. new.map = addrMaps[s].map
            BY <2>4, <3>3, Zenon DEF KeepsOwn
          <5> HIDE DEF c, k, s, a
          <5> QED
            BY <1>0, <2>1, <5>1, Zenon
        <4>2. Routed(addrMaps, c, k) /\ k.socket \in Sockets /\ SamePlace(k, m)
          BY <2>2, <2>3, <2>5, <2>7, <3>3, Zenon DEF SamePlace, Connections
        <4> HIDE DEF c, k
        <4> QED
          BY <4>1, <4>2, SameListing, Zenon
      <3> QED
        BY <3>1, <3>2, <3>3, Zenon
    <2>9. Found(addrMaps', connecting', c, m)
      <3>1. SUFFICES ASSUME k.stage = "live", ~m.lost
                     PROVE  addrMaps'[k.socket].map[k.peer] = c
        <4>1. k.stage = "live" => k.peer \in Addrs
          BY <2>2, <2>3, Zenon DEF Found
        <4> HIDE DEF c, k
        <4> QED
          BY <2>7, <4>1, Zenon DEF Found
      <3>2. k.socket = s /\ addrMaps'[s] = new
        <4> HIDE DEF c, k, a
        <4> QED
          BY <1>0, <2>1, <2>3, <3>1, Zenon
      <3>3. CASE current
        <4>1. addrMaps[s].map[a] \in {None, c} /\ k.peer = a
          BY <2>7, <3>1, <3>3, Zenon
        <4> QED
          BY <2>4, <3>2, <4>1, Zenon DEF TakesEntry
      <3>4. CASE ~current
        <4>1. k.peer # a /\ ~k.lost
          BY <2>7, <3>1, <3>4, Zenon
        <4>2. addrMaps[s].map[k.peer] = c /\ k.peer \in Addrs
          BY <2>2, <2>3, <3>1, <3>2, <4>1, Zenon DEF Found
        <4> HIDE DEF c, k, s, a
        <4> QED
          BY <2>4, <3>2, <4>2, Zenon DEF KeepsOwn
      <3> QED
        BY <3>3, <3>4, Zenon
    <2>10. /\ connecting' \in Insertions /\ connecting'.conn = None
           /\ {connecting.conn, connecting'.conn} \subseteq {c, None}
      BY <2>1, FreshIs, Zenon
    <2> HIDE DEF c, k, s, a, stray, lost, current, holder
    <2>11. addrMaps' \in [Sockets -> AddrMaps] /\ \A r \in Sockets : Coherent(addrMaps'[r])
      BY <1>0, <2>1, <2>4, OneSocket, Zenon
    <2>12. \A r \in Sockets : KeepsOthers(addrMaps[r], addrMaps'[r], c)
      BY <1>0, <2>1, <2>4, OneSocket, Zenon
    <2>13. TasksInOrder(m, c) /\ Placed(connecting', c, m)
      BY <1>0, <2>1, <2>2, <2>7, <2>10, Zenon DEF TasksInOrder, Placed
    <2>14. /\ c \in keyMap' => m.stage = "live"
           /\ \A i \in Ids : ids'.map[i] = c <=> m.stage = "live" /\ m.id = i
      BY <2>1, <2>2, <2>7, Zenon
    <2>15. OneChanges(c, m)
      <3>1. /\ reading' \in [Sockets -> Addrs \cup {None}]
            /\ keyMap' \subseteq P2P /\ keyMap' \subseteq keyMap \cup {c}
            /\ ids' \in IdMaps /\ FreeExact(ids')
            /\ \A i \in Ids, d \in Conns \ {c} : ids'.map[i] = d <=> ids.map[i] = d
        BY <1>0, <2>1, Zenon
      <3> QED
        BY <2>6, <2>8, <2>9, <2>10, <2>11, <2>12, <2>13, <2>14, <3>1, Zenon DEF OneChanges
    <2> QED
      BY <2>1, <2>7, <2>15, StepOfOne, Zenon
  <1> QED
    BY <1>1, <1>2, Zenon

(* A denial gives the id back: only NextId has changed.                     *)
LEMMA DenialKeeps ==
    ASSUME ids \in IdMaps, FreeExact(ids), NEW c \in Conns
    PROVE  LET left == [ids EXCEPT !.NextId = InsertAndAssignId(c).NextId]
           IN  left \in IdMaps /\ FreeExact(left) /\ left.map = ids.map
  <1> DEFINE next == InsertAndAssignId(c).NextId
             left == [ids EXCEPT !.NextId = next]
  <1>1. next \in Ids
    BY AssignKeeps, Zenon
  <1> HIDE DEF next
  <1>2. /\ left \in IdMaps /\ left.map = ids.map /\ left.count = ids.count
        /\ left.BestUnusedIds = ids.BestUnusedIds
    BY <1>1, Zenon DEF IdMaps
  <1> HIDE DEF left
  <1>3. FreeExact(left)
    BY <1>2, Zenon DEF FreeExact
  <1> QED
    BY <1>2, <1>3, Zenon DEF left, next

(* A denied P2P connection leaves the maps as they were. *)
LEMMA DeniedP2PHolds ==
    ASSUME IInv, NEW c \in Conns,
           ids' = [ids EXCEPT !.NextId = InsertAndAssignId(c).NextId],
           UNCHANGED <<keyMap, conn, addrMaps, connecting, reading>>
    PROVE  IInv'
  <1>1. ids' \in IdMaps /\ FreeExact(ids') /\ ids'.map = ids.map
    BY Facts, DenialKeeps, Zenon
  <1>2. keyMap' = keyMap /\ conn' = conn /\ addrMaps' = addrMaps
        /\ connecting' = connecting /\ reading' = reading
    BY Zenon
  <1> QED
    BY <1>1, <1>2, SMTT(30) DEF IInv

(* StartP2PConnect() with or without an id that is free. *)
LEMMA StartP2PHolds ==
    ASSUME IInv, NEW c \in Conns, NEW wins \in BOOLEAN, StartP2PConnect(c, wins)
    PROVE  IInv'
  <1>0. /\ None \notin Conns /\ Main \in Sockets
        /\ ids \in IdMaps /\ FreeExact(ids) /\ keyMap \subseteq P2P
        /\ addrMaps \in [Sockets -> AddrMaps] /\ \A r \in Sockets : Coherent(addrMaps[r])
        /\ reading \in [Sockets -> Addrs \cup {None}] /\ connecting \in Insertions
    BY Facts, Zenon
  <1> DEFINE k == [Fresh EXCEPT !.stage = "live", !.id = AssignedId, !.wins = wins]
             new == InsertAndAssignId(c)
  <1>d. CASE /\ ids' = [ids EXCEPT !.NextId = InsertAndAssignId(c).NextId]
             /\ UNCHANGED <<keyMap, conn, addrMaps, connecting, reading>>
    BY <1>d, DeniedP2PHolds, Zenon
  <1>1. SUFFICES
          ASSUME conn' = [conn EXCEPT ![c] = k], c \in P2P, conn[c].stage = "none",
                 ids' = new, keyMap' = keyMap \cup {c}, connecting.conn # c,
                 addrMaps' = addrMaps, connecting' = connecting, reading' = reading
          PROVE  IInv'
    BY <1>d, Zenon DEF StartP2PConnect, Unallocated
  <1>2. /\ AssignedId \in Ids \cup {NoId} /\ new \in IdMaps /\ FreeExact(new)
        /\ \A i \in Ids : new.map[i] = IF i = AssignedId THEN c ELSE ids.map[i]
    BY <1>0, AssignKeeps, Zenon
  <1> HIDE DEF new
  <1>3. k \in Connections /\ k.stage = "live" /\ k.id = AssignedId /\ k.tasks = <<>>
    <2>1. Fresh \in Connections /\ Fresh.tasks = <<>>
      BY FreshIs, Zenon
    <2>2. wins \in BOOLEAN
      BY Zenon
    <2> HIDE DEF k
    <2>3. k = [Fresh EXCEPT !.stage = "live", !.id = AssignedId, !.wins = wins]
      BY Zenon DEF k
    <2> QED
      BY <1>2, <2>1, <2>2, <2>3, Zenon DEF Connections
  <1> HIDE DEF k
  <1>4. TasksInOrder(k, c)
    BY <1>3 DEF TasksInOrder
  <1>5. \A i \in Ids : ids.map[i] # c
    BY <1>1, OfOne, Zenon
  <1>6. \A i \in Ids, d \in Conns \ {c} : new.map[i] = d <=> ids.map[i] = d
    <2>1. AssignedId # NoId => ids.map[AssignedId] = None
      BY <1>0, AssignedIsFree, Zenon
    <2>2. NoId \notin Ids
      BY Facts, Zenon
    <2> QED
      BY <1>0, <1>2, <2>1, <2>2, Zenon
  <1>7. \A i \in Ids : new.map[i] = c <=> k.stage = "live" /\ k.id = i
    BY <1>2, <1>3, <1>5, Zenon
  <1>8. connecting' \in Insertions /\ Placed(connecting', c, k)
    BY <1>0, <1>1, Zenon DEF Placed
  <1>9. \A r \in Sockets : KeepsOthers(addrMaps[r], addrMaps[r], c)
    BY OfOne, Zenon
  <1>10. OneChanges(c, k)
    <2>1. /\ addrMaps' \in [Sockets -> AddrMaps] /\ \A r \in Sockets : Coherent(addrMaps'[r])
          /\ \A r \in Sockets : KeepsOthers(addrMaps[r], addrMaps'[r], c)
          /\ reading' \in [Sockets -> Addrs \cup {None}]
          /\ keyMap' \subseteq P2P /\ keyMap' \subseteq keyMap \cup {c}
      BY <1>0, <1>1, <1>9, Zenon
    <2>2. /\ ids' \in IdMaps /\ FreeExact(ids')
          /\ \A i \in Ids, d \in Conns \ {c} : ids'.map[i] = d <=> ids.map[i] = d
          /\ \A i \in Ids : ids'.map[i] = c <=> k.stage = "live" /\ k.id = i
      BY <1>1, <1>2, <1>6, <1>7
    <2> QED
      BY <1>1, <1>3, <1>4, <1>8, <2>1, <2>2, Zenon DEF OneChanges
  <1> QED
    BY <1>3, <1>10, StepOfOne, Zenon

(* A task of another kind than accept that c may have.                      *)
Later(tasks, c) ==
    \A n \in 1 .. Len(tasks) :
        tasks[n].kind # "accept" /\ (tasks[n].kind \in {"probe", "p2p"} => c \in P2P)

(* removeFromMaps(), whether the connection is closed or denied.            *)
LEMMA DropHolds ==
    ASSUME IInv, NEW c \in Conns, NEW newIds \in IdMaps, FreeExact(newIds),
           NEW tasks \in Seq(Tasks), Later(tasks, c),
           \A i \in Ids, d \in Conns \ {c} : newIds.map[i] = d <=> ids.map[i] = d,
           \A i \in Ids : newIds.map[i] # c, NEW stage \in {"removed", "denied"},
           DropFromMaps(c, newIds, stage, tasks), UNCHANGED <<connecting, reading>>
    PROVE  IInv'
  <1>0. /\ None \notin Conns /\ None \notin Addrs /\ keyMap \subseteq P2P
        /\ addrMaps \in [Sockets -> AddrMaps] /\ \A r \in Sockets : Coherent(addrMaps[r])
        /\ reading \in [Sockets -> Addrs \cup {None}] /\ connecting \in Insertions
    BY Facts, Zenon
  <1> DEFINE k == [conn[c] EXCEPT !.stage = stage, !.tasks = tasks]
             s == conn[c].socket
             new == RemoveAddress(addrMaps[s], conn[c].peer, c)
  <1>1. conn' = [conn EXCEPT ![c] = k]
    <2>1. conn' = [conn EXCEPT ![c].stage = stage, ![c].tasks = tasks]
      BY Zenon DEF DropFromMaps
    <2>2. conn \in [Conns -> Connections]
      BY Facts, Zenon
    <2> QED
      BY <2>1, <2>2, Zenon
  <1>2. /\ ids' = newIds /\ keyMap' = keyMap \ {c}
        /\ addrMaps' = [addrMaps EXCEPT ![s] = new]
        /\ connecting' = connecting /\ reading' = reading
    BY Zenon DEF DropFromMaps
  <1>3. /\ conn[c] \in Connections /\ s \in Sockets /\ conn[c].peer \in Addrs \cup {None}
        /\ (c \notin P2P => Routed(addrMaps, c, conn[c])) /\ Placed(connecting, c, conn[c])
        /\ \A r \in Sockets : KeepsOthers(addrMaps[r], addrMaps[r], c)
    BY OfOne, Zenon
  <1>4. /\ k \in Connections /\ k.stage # "live" /\ k.tasks = tasks
        /\ k.stray = conn[c].stray
    BY <1>3, Zenon DEF Connections
  <1> HIDE DEF k, s
  <1>5. /\ new \in AddrMaps /\ Coherent(new) /\ KeepsOthers(addrMaps[s], new, c)
        /\ MovesEntry(addrMaps[s], new, conn[c].peer, None, c)
    <2>1. addrMaps[s] \in AddrMaps /\ Coherent(addrMaps[s])
      BY <1>0, <1>3, Zenon
    <2> QED
      BY <1>3, <2>1, RemoveKeeps, Zenon
  <1> HIDE DEF new
  <1>6. addrMaps' \in [Sockets -> AddrMaps] /\ \A r \in Sockets : Coherent(addrMaps'[r])
    BY <1>0, <1>2, <1>3, <1>5, OneSocket, Zenon
  <1>7. \A r \in Sockets : KeepsOthers(addrMaps[r], addrMaps'[r], c)
    BY <1>0, <1>2, <1>3, <1>5, OneSocket, Zenon
  <1>8. c \notin P2P => Routed(addrMaps', c, k) /\ Found(addrMaps', connecting', c, k)
    <2>1. c \notin P2P => Routed(addrMaps', c, k)
      BY <1>0, <1>2, <1>3, <1>4, <1>5, RoutedAfter, Zenon DEF s
    <2>2. Found(addrMaps', connecting', c, k)
      BY <1>4, Zenon DEF Found
    <2> QED
      BY <2>1, <2>2, Zenon
  <1>9. TasksInOrder(k, c)
    BY <1>4, Zenon DEF TasksInOrder, Later
  <1>10. connecting' \in Insertions /\ Placed(connecting', c, k)
    BY <1>0, <1>2, <1>3, <1>4, Zenon DEF Placed
  <1>11. OneChanges(c, k)
    BY <1>0, <1>1, <1>2, <1>4, <1>6, <1>7, <1>8, <1>9, <1>10, Zenon DEF OneChanges
  <1> QED
    BY <1>4, <1>11, StepOfOne, Zenon

(* The tick that removes a closed connection from the maps. *)
LEMMA RemoveHolds ==
    ASSUME IInv, NEW c \in Conns, RemoveFromMaps(c)
    PROVE  IInv'
  <1> DEFINE new == RemoveAndUnassignId(conn[c].id, c)
  <1>1. /\ conn[c].stage = "live" /\ UNCHANGED <<connecting, reading>>
        /\ DropFromMaps(c, new, "removed", conn[c].tasks)
        /\ conn[c].tasks # <<>> => Head(conn[c].tasks).kind # "accept"
    BY Zenon DEF RemoveFromMaps
  <1>2. /\ conn[c].tasks \in Seq(Tasks) /\ conn[c].id \in Ids \cup {NoId}
        /\ TasksInOrder(conn[c], c)
        /\ \A i \in Ids : ids.map[i] = c <=> conn[c].stage = "live" /\ conn[c].id = i
    BY OfOne, Zenon
  <1>3. Later(conn[c].tasks, c)
    <2>1. \A n \in 1 .. Len(conn[c].tasks) : conn[c].tasks[n].kind = "accept" => n = 1
      BY <1>2, Zenon DEF TasksInOrder
    <2>2. 1 \in 1 .. Len(conn[c].tasks) => conn[c].tasks # <<>> /\ conn[c].tasks[1] = Head(conn[c].tasks)
      BY <1>2
    <2> QED
      BY <1>1, <1>2, <2>1, <2>2, Zenon DEF TasksInOrder, Later
  <1>4. conn[c].id # NoId => ids.map[conn[c].id] = c
    BY <1>1, <1>2, Zenon
  <1>5. /\ new \in IdMaps /\ FreeExact(new)
        /\ \A j \in Ids : new.map[j] = IF j = conn[c].id THEN None ELSE ids.map[j]
    BY <1>2, <1>4, Facts, UnassignKeeps, Zenon
  <1> HIDE DEF new
  <1>6. None \notin Conns
    BY ConnectionMapsAssumption, Zenon
  <1>7. \A i \in Ids : new.map[i] # c
    BY <1>1, <1>2, <1>5, <1>6, Zenon
  <1>8. \A i \in Ids, d \in Conns \ {c} : new.map[i] = d <=> ids.map[i] = d
    <2>1. ASSUME NEW i \in Ids, NEW d \in Conns \ {c}
          PROVE  new.map[i] = d <=> ids.map[i] = d
      <3>1. d # None /\ d # c
        BY <1>6, Zenon
      <3>2. CASE i = conn[c].id
        BY <1>1, <1>2, <1>5, <3>1, <3>2, Zenon
      <3>3. CASE i # conn[c].id
        BY <1>5, <3>3, Zenon
      <3> QED
        BY <3>2, <3>3, Zenon
    <2> QED
      BY <2>1, Zenon
  <1> QED
    BY <1>1, <1>2, <1>3, <1>5, <1>7, <1>8, DropHolds, Zenon

(* completeIncomingConnection(): the application accepts or denies.         *)
LEMMA AcceptHolds ==
    ASSUME IInv, NEW c \in Conns, AcceptConnection(c)
    PROVE  IInv'
  <1>0. /\ None \notin Conns /\ NoId \notin Ids
        /\ ids \in IdMaps /\ FreeExact(ids) /\ keyMap \subseteq P2P
        /\ addrMaps \in [Sockets -> AddrMaps] /\ \A r \in Sockets : Coherent(addrMaps[r])
        /\ reading \in [Sockets -> Addrs \cup {None}] /\ connecting \in Insertions
    BY Facts, Zenon
  <1> DEFINE rest == Tail(conn[c].tasks)
             new == InsertAndAssignId(c)
  <1>1. /\ conn[c].tasks # <<>> /\ Head(conn[c].tasks).kind = "accept"
        /\ connecting' = connecting /\ reading' = reading
    BY Zenon DEF AcceptConnection, Running
  <1>2. /\ rest \in Seq(Tasks) /\ Later(rest, c) /\ conn[c].stage = "live" /\ conn[c].id = NoId
    BY <1>1, Taken, Zenon DEF Later
  <1>3. /\ conn[c] \in Connections /\ conn[c].socket \in Sockets
        /\ (c \notin P2P =>
               Routed(addrMaps, c, conn[c]) /\ Found(addrMaps, connecting, c, conn[c]))
        /\ Placed(connecting, c, conn[c])
        /\ (c \in keyMap => conn[c].stage = "live")
        /\ \A r \in Sockets : KeepsOthers(addrMaps[r], addrMaps[r], c)
        /\ \A i \in Ids : ids.map[i] = c <=> conn[c].stage = "live" /\ conn[c].id = i
    BY OfOne, Zenon
  <1>4. \A i \in Ids : ids.map[i] # c
    BY <1>0, <1>2, <1>3, Zenon
  <1>5. /\ AssignedId \in Ids \cup {NoId} /\ new \in IdMaps /\ FreeExact(new)
        /\ new.NextId \in Ids
        /\ \A i \in Ids : new.map[i] = IF i = AssignedId THEN c ELSE ids.map[i]
    BY <1>0, AssignKeeps, Zenon
  <1> HIDE DEF rest
  <1>6. CASE /\ ids' = new
             /\ conn' = [conn EXCEPT ![c].id = AssignedId, ![c].tasks = rest]
             /\ UNCHANGED <<addrMaps, keyMap>>
    <2> HIDE DEF new
    <2> DEFINE k == [conn[c] EXCEPT !.id = AssignedId, !.tasks = rest]
    <2>1. conn' = [conn EXCEPT ![c] = k]
      BY <1>6, Facts, Zenon
    <2>2. /\ k \in Connections /\ k.stage = "live" /\ k.id = AssignedId /\ k.tasks = rest
          /\ SamePlace(conn[c], k)
      BY <1>2, <1>3, <1>5, Zenon DEF Connections, SamePlace
    <2> HIDE DEF k
    <2>3. TasksInOrder(k, c)
      BY <1>2, <2>2, Zenon DEF TasksInOrder, Later
    <2>4. \A i \in Ids, d \in Conns \ {c} : new.map[i] = d <=> ids.map[i] = d
      <3>1. AssignedId # NoId => ids.map[AssignedId] = None
        BY <1>0, AssignedIsFree, Zenon
      <3> QED
        BY <1>0, <1>5, <3>1, Zenon
    <2>5. \A i \in Ids : new.map[i] = c <=> k.stage = "live" /\ k.id = i
      BY <1>4, <1>5, <2>2, Zenon
    <2>6. connecting' \in Insertions /\ connecting' = connecting /\ addrMaps' = addrMaps
      BY <1>0, <1>1, <1>6, Zenon
    <2>7. /\ Placed(connecting', c, k)
          /\ c \notin P2P => Routed(addrMaps', c, k) /\ Found(addrMaps', connecting', c, k)
      BY <1>3, <2>2, <2>6, SameListing, Zenon
    <2>8. ids' = new /\ addrMaps' = addrMaps /\ keyMap' = keyMap
      BY <1>6, Zenon
    <2>9. OneChanges(c, k)
      <3>1. /\ addrMaps' \in [Sockets -> AddrMaps] /\ \A r \in Sockets : Coherent(addrMaps'[r])
            /\ \A r \in Sockets : KeepsOthers(addrMaps[r], addrMaps'[r], c)
            /\ reading' \in [Sockets -> Addrs \cup {None}]
            /\ keyMap' \subseteq P2P /\ keyMap' \subseteq keyMap \cup {c}
        BY <1>0, <1>1, <1>3, <2>8, Zenon
      <3>2. /\ ids' \in IdMaps /\ FreeExact(ids')
            /\ \A i \in Ids, d \in Conns \ {c} : ids'.map[i] = d <=> ids.map[i] = d
            /\ \A i \in Ids : ids'.map[i] = c <=> k.stage = "live" /\ k.id = i
        BY <1>5, <2>4, <2>5, <2>8, Zenon
      <3> QED
        BY <2>1, <2>2, <2>3, <2>6, <2>7, <3>1, <3>2, Zenon DEF OneChanges
    <2> QED
      BY <2>2, <2>9, StepOfOne, Zenon
  <1>7. CASE DropFromMaps(c, [ids EXCEPT !.NextId = new.NextId], "denied", rest)
    <2> DEFINE left == [ids EXCEPT !.NextId = new.NextId]
    <2>1. left \in IdMaps /\ FreeExact(left) /\ left.map = ids.map
      BY <1>0, DenialKeeps, Zenon
    <2>2. DropFromMaps(c, left, "denied", rest)
      BY <1>7, Zenon
    <2> HIDE DEF left
    <2>3. /\ \A i \in Ids, d \in Conns \ {c} : left.map[i] = d <=> ids.map[i] = d
          /\ \A i \in Ids : left.map[i] # c
      BY <1>4, <2>1, Zenon
    <2> QED
      BY <1>1, <1>2, <2>1, <2>2, <2>3, DropHolds, Zenon
  <1> QED
    BY <1>6, <1>7, Zenon DEF AcceptConnection, rest

(* The deletion of a connection that left the maps. *)
LEMMA DeleteHolds ==
    ASSUME IInv, NEW c \in Conns, Delete(c)
    PROVE  IInv'
  <1>0. /\ None \notin Conns /\ Main \in Sockets
        /\ ids \in IdMaps /\ FreeExact(ids) /\ keyMap \subseteq P2P
        /\ addrMaps \in [Sockets -> AddrMaps] /\ \A r \in Sockets : Coherent(addrMaps[r])
        /\ reading \in [Sockets -> Addrs \cup {None}] /\ connecting \in Insertions
    BY Facts, Zenon
  <1> DEFINE k == [Fresh EXCEPT !.stray = conn[c].stray]
  <1>1. /\ conn[c].stage = "removed" /\ conn' = [conn EXCEPT ![c] = k]
        /\ ids' = ids /\ addrMaps' = addrMaps /\ keyMap' = keyMap
        /\ connecting' = connecting /\ reading' = reading
    BY Zenon DEF Delete
  <1>2. /\ conn[c] \in Connections
        /\ (c \notin P2P => Routed(addrMaps, c, conn[c]))
        /\ (c \in keyMap => conn[c].stage = "live") /\ Placed(connecting, c, conn[c])
        /\ \A r \in Sockets : KeepsOthers(addrMaps[r], addrMaps[r], c)
        /\ \A i \in Ids : ids.map[i] = c <=> conn[c].stage = "live" /\ conn[c].id = i
    BY OfOne, Zenon
  <1>3. /\ k \in Connections /\ k.stage = "none" /\ Len(k.tasks) = 0
        /\ k.stray = conn[c].stray
    <2>1. /\ Fresh \in Connections /\ Fresh.stage = "none" /\ Fresh.tasks = <<>>
          /\ Len(Fresh.tasks) = 0
      BY FreshIs, Zenon
    <2>2. conn[c].stray \in BOOLEAN
      BY <1>2, Zenon DEF Connections
    <2> QED
      BY <2>1, <2>2, Zenon DEF Connections
  <1> HIDE DEF k
  <1>4. TasksInOrder(k, c)
    BY <1>3 DEF TasksInOrder
  <1>5. c \notin P2P => Routed(addrMaps', c, k) /\ Found(addrMaps', connecting', c, k)
    BY <1>1, <1>2, <1>3, Zenon DEF Routed, Found
  <1>6. connecting' \in Insertions /\ Placed(connecting', c, k)
    BY <1>0, <1>1, <1>2, <1>3, Zenon DEF Placed
  <1>7. c \notin keyMap /\ \A i \in Ids : ids.map[i] = c <=> k.stage = "live" /\ k.id = i
    BY <1>1, <1>2, <1>3, Zenon
  <1>8. OneChanges(c, k)
    BY <1>0, <1>1, <1>2, <1>4, <1>5, <1>6, <1>7, Zenon DEF OneChanges
  <1> QED
    BY <1>3, <1>8, StepOfOne, Zenon

(* ProcessDatagram(), after the maps have changed to maps and c to k.       *)
LEMMA ProcessHolds ==
    ASSUME IInv, NEW c \in Conns, NEW k \in Connections, NEW a \in Addrs,
           NEW maps \in [Sockets -> AddrMaps],
           \A r \in Sockets : Coherent(maps[r]) /\ KeepsOthers(addrMaps[r], maps[r], c),
           c \notin P2P => Routed(maps, c, k) /\ Found(maps, connecting, c, k),
           TasksInOrder(k, c), Placed(connecting, c, k),
           k.stage = conn[c].stage, k.id = conn[c].id,
           ProcessDatagram(c, k, maps, a),
           UNCHANGED <<ids, keyMap, connecting, reading>>
    PROVE  IInv'
  <1>0. /\ None \notin Conns /\ None \notin Addrs
        /\ ids \in IdMaps /\ FreeExact(ids) /\ keyMap \subseteq P2P
        /\ reading \in [Sockets -> Addrs \cup {None}] /\ connecting \in Insertions
        /\ (c \in keyMap => k.stage = "live")
        /\ \A i \in Ids : ids.map[i] = c <=> k.stage = "live" /\ k.id = i
    <2>1. /\ c \in keyMap => conn[c].stage = "live"
          /\ \A i \in Ids : ids.map[i] = c <=> conn[c].stage = "live" /\ conn[c].id = i
      BY OfOne, Zenon
    <2> QED
      BY <2>1, Facts, Zenon
  <1>1. k.socket \in Sockets /\ k.peer \in Addrs \cup {None}
    BY Zenon DEF Connections
  <1>2. CASE Moves(k, a) /\ SetPeerAddress(c, k, maps, a)
    <2> DEFINE s == k.socket
               lost == maps[s].map[a] \notin {None, c}
               m == [k EXCEPT !.peer = a, !.allowed = FALSE, !.lost = lost]
               new == ChangeAddress(maps[s], k.peer, a, c)
    <2>1. /\ conn' = [conn EXCEPT ![c] = m] /\ addrMaps' = [maps EXCEPT ![s] = new]
          /\ k.stage = "live"
      BY <1>2, Zenon DEF Moves, SetPeerAddress
    <2>2. /\ m \in Connections /\ m.peer = a /\ m.stage = k.stage /\ m.id = k.id
          /\ m.socket = s /\ m.tasks = k.tasks /\ m.stray = k.stray /\ m.lost = lost
      <3>1. lost \in BOOLEAN
        BY Zenon
      <3> HIDE DEF lost
      <3> QED
        BY <3>1, Zenon DEF Connections
    <2>3. /\ new \in AddrMaps /\ Coherent(new) /\ KeepsOthers(maps[s], new, c)
          /\ MovesEntry(maps[s], new, k.peer, a, c) /\ TakesEntry(maps[s], new, a, c)
      <3>1. maps[s] \in AddrMaps /\ Coherent(maps[s])
        BY <1>1, Zenon
      <3> QED
        BY <1>1, <3>1, ChangeKeeps, Zenon
    <2> HIDE DEF m, new
    <2>c. \A r \in Sockets : Coherent(maps[r])
      BY Zenon
    <2>4. /\ addrMaps' \in [Sockets -> AddrMaps] /\ \A r \in Sockets : Coherent(addrMaps'[r])
          /\ \A r \in Sockets : KeepsOthers(maps[r], addrMaps'[r], c)
      BY <1>1, <2>1, <2>3, <2>c, OneSocket, Zenon
    <2>5. \A r \in Sockets : KeepsOthers(addrMaps[r], addrMaps'[r], c)
      BY <2>4, KeepsTransitive, Zenon
    <2>6. c \notin P2P => Routed(addrMaps', c, m) /\ Found(addrMaps', connecting', c, m)
      <3>1. c \notin P2P => Routed(addrMaps', c, m)
        BY <1>1, <2>1, <2>2, <2>3, RoutedAfter, Zenon
      <3>2. addrMaps'[s] = new
        BY <1>1, <2>1, Zenon
      <3>3. Found(addrMaps', connecting', c, m)
        BY <2>2, <2>3, <3>2, Zenon DEF Found, TakesEntry
      <3> QED
        BY <3>1, <3>3, Zenon
    <2>7. TasksInOrder(m, c)
      BY <2>2, Zenon DEF TasksInOrder
    <2>8. connecting' \in Insertions /\ connecting' = connecting /\ Placed(connecting', c, m)
      BY <1>0, <2>2, Zenon DEF Placed
    <2>9. OneChanges(c, m)
      BY <1>0, <2>1, <2>2, <2>4, <2>5, <2>6, <2>7, <2>8, Zenon DEF OneChanges
    <2> QED
      BY <2>2, <2>9, StepOfOne, Zenon
  <1>3. CASE addrMaps' = maps /\ conn' = [conn EXCEPT ![c] = k]
    <2>1. connecting' \in Insertions /\ connecting' = connecting
      BY <1>0, Zenon
    <2>2. OneChanges(c, k)
      BY <1>0, <1>3, <2>1, Zenon DEF OneChanges
    <2> QED
      BY <2>2, StepOfOne, Zenon
  <1> QED
    BY <1>2, <1>3, Zenon DEF ProcessDatagram

(* What a P2P connection leaves in the maps when it switches.               *)
LEMMA SwitchKeeps ==
    ASSUME IInv, NEW c \in Conns, NEW s \in Sockets, NEW a \in Addrs
    PROVE  LET maps == SwitchedMaps(c, s, a)
           IN  /\ maps \in [Sockets -> AddrMaps]
               /\ \A r \in Sockets : Coherent(maps[r]) /\ KeepsOthers(addrMaps[r], maps[r], c)
  <1> DEFINE new == InsertAddress(addrMaps[s], a, c)
             inserted == [addrMaps EXCEPT ![s] = new]
             o == conn[c].socket
             old == RemoveAddress(inserted[o], conn[c].peer, c)
             maps == SwitchedMaps(c, s, a)
  <1>0. /\ addrMaps \in [Sockets -> AddrMaps] /\ \A r \in Sockets : Coherent(addrMaps[r])
    BY Facts, Zenon
  <1>1. /\ o \in Sockets /\ conn[c].peer \in Addrs \cup {None}
        /\ \A r \in Sockets : KeepsOthers(addrMaps[r], addrMaps[r], c)
    BY OfOne, Zenon
  <1>2. new \in AddrMaps /\ Coherent(new) /\ KeepsOthers(addrMaps[s], new, c)
    BY <1>0, InsertKeeps, Zenon
  <1>3. maps = inserted \/ maps = [inserted EXCEPT ![o] = old]
    BY Zenon DEF SwitchedMaps
  <1> HIDE DEF new, o, maps
  <1>4. /\ inserted \in [Sockets -> AddrMaps]
        /\ \A r \in Sockets : Coherent(inserted[r]) /\ KeepsOthers(addrMaps[r], inserted[r], c)
    BY <1>0, <1>1, <1>2, Zenon
  <1> HIDE DEF inserted
  <1>5. old \in AddrMaps /\ Coherent(old) /\ KeepsOthers(inserted[o], old, c)
    <2>1. inserted[o] \in AddrMaps /\ Coherent(inserted[o])
      BY <1>1, <1>4, Zenon
    <2> QED
      BY <1>1, <2>1, RemoveKeeps, Zenon
  <1>6. KeepsOthers(addrMaps[o], old, c)
    BY <1>1, <1>4, <1>5, KeepsTransitive, Zenon
  <1> HIDE DEF old
  <1>7. CASE maps = inserted
    BY <1>4, <1>7, Zenon DEF maps
  <1>8. CASE maps = [inserted EXCEPT ![o] = old]
    <2>1. maps \in [Sockets -> AddrMaps] /\ maps[o] = old
          /\ \A r \in Sockets : r # o => maps[r] = inserted[r]
      BY <1>1, <1>4, <1>5, <1>8, Zenon
    <2>2. \A r \in Sockets : Coherent(maps[r]) /\ KeepsOthers(addrMaps[r], maps[r], c)
      BY <1>4, <1>5, <1>6, <2>1, Zenon
    <2> QED
      BY <2>1, <2>2, Zenon DEF maps
  <1> QED
    BY <1>3, <1>7, <1>8, Zenon

(* The tasks that carry datagrams.                                          *)
LEMMA DatagramsHold ==
    ASSUME IInv, NEW c \in Conns, RunDatagram(c) \/ OnNATProbe(c) \/ OnP2PConnection(c)
    PROVE  IInv'
  <1> DEFINE t == Head(conn[c].tasks)
             rest == Tail(conn[c].tasks)
             k == [conn[c] EXCEPT !.tasks = rest]
             moved == SwitchedConn(c, t.socket, t.addr)
  <1>0. /\ addrMaps \in [Sockets -> AddrMaps] /\ \A r \in Sockets : Coherent(addrMaps[r])
        /\ ids' = ids /\ keyMap' = keyMap
        /\ ids \in IdMaps /\ FreeExact(ids) /\ keyMap \subseteq P2P
        /\ reading \in [Sockets -> Addrs \cup {None}] /\ connecting \in Insertions
    BY Facts, Zenon DEF RunDatagram, OnNATProbe, OnP2PConnection
  <1>1. /\ conn[c].tasks # <<>>
        /\ connecting' = connecting /\ reading' = reading
    BY Zenon DEF RunDatagram, OnNATProbe, OnP2PConnection, Running
  <1>2. /\ t \in Tasks /\ rest \in Seq(Tasks) /\ Later(rest, c)
        /\ t.kind \in {"probe", "p2p"} => c \in P2P
    BY <1>1, Taken, Zenon DEF Later
  <1>3. t.socket \in Sockets /\ t.addr \in Addrs
    BY <1>2, Zenon DEF Tasks
  <1>4. /\ conn[c] \in Connections /\ conn[c].socket \in Sockets
        /\ (c \notin P2P =>
               Routed(addrMaps, c, conn[c]) /\ Found(addrMaps, connecting, c, conn[c]))
        /\ Placed(connecting, c, conn[c])
        /\ (c \in keyMap => conn[c].stage = "live")
        /\ \A r \in Sockets : KeepsOthers(addrMaps[r], addrMaps[r], c)
        /\ \A i \in Ids : ids.map[i] = c <=> conn[c].stage = "live" /\ conn[c].id = i
    BY OfOne, Zenon
  <1> HIDE DEF rest
  <1>5. /\ k \in Connections /\ k.tasks = rest
        /\ k.stage = conn[c].stage /\ k.id = conn[c].id /\ SamePlace(conn[c], k)
    BY <1>2, <1>4, Zenon DEF Connections, SamePlace
  <1>6. /\ moved \in Connections /\ moved.tasks = rest
        /\ moved.stage = conn[c].stage /\ moved.id = conn[c].id
    <2>1. moved = [conn[c] EXCEPT !.socket = t.socket, !.peer = t.addr, !.seen = TRUE,
                                  !.tasks = rest]
      BY Zenon DEF SwitchedConn, rest
    <2> HIDE DEF moved, t
    <2> QED
      BY <1>2, <1>3, <1>4, <2>1, Zenon DEF Connections
  <1>7. TasksInOrder(k, c) /\ TasksInOrder(moved, c)
    BY <1>2, <1>5, <1>6, Zenon DEF TasksInOrder, Later
  <1>8. /\ Placed(connecting, c, k) /\ (c \in P2P => Placed(connecting, c, moved))
        /\ c \notin P2P => Routed(addrMaps, c, k) /\ Found(addrMaps, connecting, c, k)
    <2>1. /\ Placed(connecting, c, k)
          /\ c \notin P2P => Routed(addrMaps, c, k) /\ Found(addrMaps, connecting, c, k)
      <3> HIDE DEF k
      <3>1. \A r \in Sockets : addrMaps[r].map = addrMaps[r].map
        BY Zenon
      <3>2. /\ Routed(addrMaps, c, conn[c]) => Routed(addrMaps, c, k)
            /\ Found(addrMaps, connecting, c, conn[c]) => Found(addrMaps, connecting, c, k)
            /\ Placed(connecting, c, conn[c]) => Placed(connecting, c, k)
        BY <1>4, <1>5, <3>1, SameListing, Zenon
      <3> QED
        BY <1>4, <3>2, Zenon
    <2>2. c \in P2P => Placed(connecting, c, moved)
      BY <1>4, Zenon DEF Placed
    <2> QED
      BY <2>1, <2>2, Zenon
  <1> DEFINE maps == SwitchedMaps(c, t.socket, t.addr)
  <1>9. /\ maps \in [Sockets -> AddrMaps]
        /\ \A r \in Sockets : Coherent(maps[r]) /\ KeepsOthers(addrMaps[r], maps[r], c)
    BY <1>3, SwitchKeeps, Zenon
  <1> HIDE DEF k, moved, maps, t
  <1>10. ASSUME NEW m \in Connections, NEW b \in Addrs, NEW am \in [Sockets -> AddrMaps],
                \A r \in Sockets : Coherent(am[r]) /\ KeepsOthers(addrMaps[r], am[r], c),
                c \notin P2P => Routed(am, c, m) /\ Found(am, connecting, c, m),
                TasksInOrder(m, c), Placed(connecting, c, m),
                m.stage = conn[c].stage, m.id = conn[c].id,
                ProcessDatagram(c, m, am, b)
         PROVE  IInv'
    BY <1>0, <1>1, <1>10, ProcessHolds, Zenon
  <1>11. CASE RunDatagram(c)
    <2>1. ProcessDatagram(c, k, addrMaps, t.addr)
      BY <1>11, Zenon DEF RunDatagram, k, t, rest
    <2> QED
      BY <1>0, <1>3, <1>4, <1>5, <1>7, <1>8, <1>10, <2>1, Zenon
  <1>12. CASE OnNATProbe(c)
    <2>1. c \in P2P
      BY <1>2, <1>12, Zenon DEF OnNATProbe, Running, t
    <2>2. CASE conn[c].seen
      <3>1. addrMaps' = addrMaps /\ conn' = [conn EXCEPT ![c] = k]
        BY <1>12, <2>2, Facts, Zenon DEF OnNATProbe, k, rest
      <3>2. ProcessDatagram(c, k, addrMaps, t.addr)
        BY <3>1, Zenon DEF ProcessDatagram
      <3> QED
        BY <1>0, <1>3, <1>4, <1>5, <1>7, <1>8, <1>10, <3>2, Zenon
    <2>3. CASE ~conn[c].seen
      <3>1. addrMaps' = maps /\ conn' = [conn EXCEPT ![c] = moved]
        BY <1>12, <2>3, Zenon DEF OnNATProbe, moved, maps, t
      <3>2. ProcessDatagram(c, moved, maps, t.addr)
        BY <3>1, Zenon DEF ProcessDatagram
      <3> QED
        BY <1>3, <1>6, <1>7, <1>8, <1>9, <1>10, <2>1, <3>2, Zenon
    <2> QED
      BY <2>2, <2>3, Zenon
  <1>13. CASE OnP2PConnection(c)
    <2>1. c \in P2P
      BY <1>2, <1>13, Zenon DEF OnP2PConnection, Running, t
    <2>2. \/ ProcessDatagram(c, k, addrMaps, t.addr)
          \/ ProcessDatagram(c, moved, maps, t.addr)
          \/ ProcessDatagram(c, moved, addrMaps, t.addr)
      BY <1>13, Zenon DEF OnP2PConnection, k, moved, maps, t, rest
    <2> QED
      BY <1>0, <1>3, <1>4, <1>5, <1>6, <1>7, <1>8, <1>9, <1>10, <2>1, <2>2, Zenon
  <1> QED
    BY <1>11, <1>12, <1>13, Zenon

-----------------------------------------------------------------------------
(* Every step preserves IInv.                                               *)
LEMMA NextHolds == IInv /\ [Next]_vars => IInv'
  <1> SUFFICES ASSUME IInv, [Next]_vars PROVE IInv'
    BY Zenon
  <1>1. CASE UNCHANGED vars
    BY <1>1, Facts, StepOfReader, Zenon DEF vars
  <1>2. CASE Next
    BY <1>2, ReadersHold, ConnectHolds, StartP2PHolds, AcceptHolds, DatagramsHold,
       RemoveHolds, DeleteHolds, Zenon DEF Next
  <1> QED
    BY <1>1, <1>2, Zenon

(* For any number of connections, sockets, addresses and ids, ids stay      *)
(* unique and the stack of ConnectionIdMap holds exactly the free one-byte   *)
(* ids, so that InsertAndAssignId() never inserts over a connection and     *)
(* RemoveAndUnassignId() never pushes onto a full stack.                     *)
THEOREM IdsStayExact == Spec => []IdsExact
  <1>1. Init => IInv
    BY InitHolds, Zenon
  <1>2. IInv /\ [Next]_vars => IInv'
    BY NextHolds, Zenon
  <1>3. IInv => IdsExact
    BY IInvImplies, Zenon
  <1> QED
    BY <1>1, <1>2, <1>3, PTL DEF Spec

(* FindByAddr() never answers from its cached pair what the address map      *)
(* would not, whatever the strands insert, move and remove.                 *)
THEOREM CacheStaysCoherent == Spec => []CacheCoherent
  <1>1. Init => IInv
    BY InitHolds, Zenon
  <1>2. IInv /\ [Next]_vars => IInv'
    BY NextHolds, Zenon
  <1>3. IInv => CacheCoherent
    BY IInvImplies, Zenon
  <1> QED
    BY <1>1, <1>2, <1>3, PTL DEF Spec

(* For ordinary connections, whatever the readers, the connect strand and    *)
(* the connections' own strands do in between: a source is routed only to a *)
(* live connection whose current socket and peer address it is, and a live  *)
(* connection is found at its address, but for the two races that the       *)
(* history fields record.  So setPeerAddress() takes the entry along and    *)
(* removeFromMaps() leaves none behind.                                     *)
THEOREM EntriesStayCurrent == Spec => []EntriesCurrent
  <1>1. Init => IInv
    BY InitHolds, Zenon
  <1>2. IInv /\ [Next]_vars => IInv'
    BY NextHolds, Zenon
  <1>3. IInv => EntriesCurrent
    BY IInvImplies, Zenon
  <1> QED
    BY <1>1, <1>2, <1>3, PTL DEF Spec

(* Maps, free list and connections keep their types.                        *)
THEOREM MapsTypeCorrect == Spec => []TypeOK
  <1>1. Init => IInv
    BY InitHolds, Zenon
  <1>2. IInv /\ [Next]_vars => IInv'
    BY NextHolds, Zenon
  <1>3. IInv => TypeOK
    BY IInvImplies, Zenon
  <1> QED
    BY <1>1, <1>2, <1>3, PTL DEF Spec

=============================================================================
