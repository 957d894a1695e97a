----------------------------- MODULE TargetsProofs -----------------------------
(***************************************************************************)
(* Proofs about getNodeExporterTargets, for any number of nodes and node   *)
(* sets: what the loops of NodeExporterTargets return is what              *)
(* ScrapeTargets allows, and nothing is left out as long as every node has *)
(* an address.                                                             *)
(*                                                                         *)
(* A list that ends early has to be shown to be the beginning of an order  *)
(* of all the nodes.  That there is one is proved without induction: among *)
(* the ways to go on from the nodes visited so far there is a longest one, *)
(* since none visits a node twice, and one that leaves a node out is not   *)
(* the longest.                                                            *)
(***************************************************************************)
EXTENDS NodeExporterTargets, FiniteSetTheorems, WellFoundedInduction, TLAPS

(***************************************************************************)
(* Numbers and addresses                                                   *)
(***************************************************************************)
LEMMA Minimum ==
  ASSUME NEW S \in SUBSET Nat, S # {} PROVE \E i \in S : \A j \in S : i <= j
  <1>1. PICK i \in S : \A j \in S : ~(<<j, i>> \in OpToRel(<, Nat))
    BY NatLessThanWellFounded, WFMin, Zenon
  <1>2. ASSUME NEW j \in S PROVE i <= j
    <2>1. <<j, i>> \notin OpToRel(<, Nat)
      BY <1>1, Zenon
    <2>2. ~(j < i)
      BY <2>1 DEF OpToRel
    <2> QED BY <2>2
  <1> QED BY <1>2

LEMMA Maximum ==
  ASSUME NEW S \in SUBSET Nat, S # {}, NEW n \in Nat, \A i \in S : i <= n
  PROVE  \E i \in S : \A j \in S : j <= i
  <1> DEFINE T == {k \in Nat : n - k \in S}
  <1>1. \A i \in S : n - i \in T
    BY DEF T
  <1>2. T \in SUBSET Nat /\ T # {}
    BY <1>1, Zenon DEF T
  <1> HIDE DEF T
  <1>3. PICK k \in T : \A l \in T : k <= l
    BY <1>2, Minimum
  <1>4. n - k \in S /\ k \in Nat
    BY <1>3 DEF T
  <1>5. ASSUME NEW j \in S PROVE j <= n - k
    <2>1. k <= n - j
      BY <1>1, <1>3, Zenon
    <2> QED BY <1>4, <2>1
  <1> QED BY <1>4, <1>5

\* A node with a valid HostName and an AnsibleHost has an address, whatever
\* there is of IPSets and services.
LEMMA HasAddress ==
  ASSUME NEW any \in BOOLEAN, NEW item \in Items, NEW ipset \in Reservations, NEW service,
         item.host, item.ansible # "empty"
  PROVE  GetAddress(any, item, ipset, service) # None
  <1>. "AnsibleHost" # None /\ "HostName" # None
    BY NoneAssumption
  <1>1. GetAddressFromAnsibleHost(item) # None
    BY DEF GetAddressFromAnsibleHost
  <1>2. GetAddressFromIPSet(item, ipset, service) # None
    <2>1. CASE ipset = None
      BY <2>1 DEF GetAddressFromIPSet
    <2>2. CASE ipset # None /\ Matches(ipset, service) # {}
      <3> DEFINE M == Matches(ipset, service)
                 first == CHOOSE i \in M : \A j \in M : i <= j
      <3>1. ipset \in Seq(STRING)
        BY <2>2, ReservationsAssumption
      <3>2. M \in SUBSET Nat /\ M \subseteq 1 .. Len(ipset)
        BY <3>1 DEF Matches
      <3>3. first \in 1 .. Len(ipset)
        <4> HIDE DEF M
        <4>1. \E i \in M : \A j \in M : i <= j
          BY <2>2, <3>2, Minimum DEF M
        <4>2. first \in M
          BY <4>1, Zenon
        <4> QED BY <3>2, <4>2, Zenon
      <3>4. ipset[first] \in STRING
        BY <3>1, <3>3
      <3> HIDE DEF first
      <3>5. GetAddressFromIPSet(item, ipset, service) = ipset[first]
        BY <2>2, Zenon DEF GetAddressFromIPSet, first, M
      <3> QED BY <3>4, <3>5, NoneAssumption
    <2>3. CASE ipset # None /\ Matches(ipset, service) = {}
      BY <1>1, <2>3 DEF GetAddressFromIPSet
    <2> QED BY <2>1, <2>2, <2>3
  <1> QED BY <1>1, <1>2 DEF GetAddress

(***************************************************************************)
(* The orders of the nodes                                                 *)
(***************************************************************************)
\* The first m nodes in an order that can be carried on: node sets that have
\* been begun are completed, but for the last one.
Visit(v, m, w) ==
  /\ m \in Nat /\ w \in [1 .. m -> Scraped(v)]
  /\ \A i, j \in 1 .. m : w[i] = w[j] => i = j
  /\ \A i, j, k \in 1 .. m :
       i < j /\ j < k /\ v.home[w[i]] = v.home[w[k]] => v.home[w[j]] = v.home[w[k]]
  /\ \A x \in Scraped(v), i \in 1 .. m :
       (\A j \in 1 .. m : w[j] # x) /\ v.home[w[i]] = v.home[x] => v.home[w[m]] = v.home[x]

\* No more nodes are visited than there are.
LEMMA VisitBounded ==
  ASSUME NEW v, IsFiniteSet(Scraped(v)), NEW m, NEW w, Visit(v, m, w)
  PROVE  /\ Cardinality(Scraped(v)) \in Nat /\ m <= Cardinality(Scraped(v))
         /\ (\A x \in Scraped(v) : \E j \in 1 .. m : w[j] = x) => m = Cardinality(Scraped(v))
  <1>1. m \in Nat /\ w \in Injection(1 .. m, Scraped(v))
    BY DEF Visit, Injection, IsInjective
  <1>2. IsFiniteSet(1 .. m) /\ Cardinality(1 .. m) = m
    BY <1>1, FS_Interval
  <1>3. Cardinality(Scraped(v)) \in Nat
    BY FS_CardinalityType
  <1>4. /\ Cardinality(1 .. m) <= Cardinality(Scraped(v))
        /\ Cardinality(1 .. m) = Cardinality(Scraped(v)) <=> w \in Surjection(1 .. m, Scraped(v))
    BY <1>1, FS_Injection
  <1>5. (\A x \in Scraped(v) : \E j \in 1 .. m : w[j] = x) => w \in Surjection(1 .. m, Scraped(v))
    BY <1>1 DEF Injection, Surjection
  <1> QED BY <1>2, <1>3, <1>4, <1>5

\* A visit that leaves a node out is not the longest.
LEMMA VisitLonger ==
  ASSUME NEW v, NEW m, NEW w, Visit(v, m, w),
         \E x \in Scraped(v) : \A j \in 1 .. m : w[j] # x
  PROVE  \E y : Visit(v, m + 1, y) /\ \A j \in 1 .. m : y[j] = w[j]
  <1> DEFINE S == Scraped(v)
             Left(x) == x \in S /\ \A j \in 1 .. m : w[j] # x
             home(x) == v.home[x]
  <1>1. /\ m \in Nat /\ w \in [1 .. m -> S]
        /\ \A i, j \in 1 .. m : w[i] = w[j] => i = j
        /\ \A i, j, k \in 1 .. m : i < j /\ j < k /\ home(w[i]) = home(w[k]) => home(w[j]) = home(w[k])
        /\ \A x, i : i \in 1 .. m /\ Left(x) /\ home(w[i]) = home(x) => home(w[m]) = home(x)
    BY DEF Visit
  <1> HIDE DEF S, home
  <1>2. PICK x : Left(x) /\ ((\E y : Left(y) /\ home(y) = home(w[m])) => home(x) = home(w[m]))
    BY DEF S
  <1> DEFINE y == [i \in 1 .. m + 1 |-> IF i = m + 1 THEN x ELSE w[i]]
  <1>3. /\ y \in [1 .. m + 1 -> S] /\ y[m + 1] = x
        /\ \A i \in 1 .. m + 1 : i = m + 1 \/ (i \in 1 .. m /\ y[i] = w[i])
        /\ \A i \in 1 .. m : y[i] = w[i] /\ i \in 1 .. m + 1
    BY <1>1, <1>2
  <1> HIDE DEF y
  <1>4. \A i, j \in 1 .. m + 1 : y[i] = y[j] => i = j
    BY <1>1, <1>2, <1>3
  <1>5. ASSUME NEW i \in 1 .. m, home(w[i]) = home(x) PROVE \A j \in 1 .. m : i < j => home(w[j]) = home(x)
    BY <1>1, <1>2, <1>5
  <1>6. ASSUME NEW i \in 1 .. m + 1, NEW j \in 1 .. m + 1, NEW k \in 1 .. m + 1,
               i < j, j < k, home(y[i]) = home(y[k])
        PROVE  home(y[j]) = home(y[k])
    <2>1. CASE k = m + 1
      <3>1. i \in 1 .. m /\ j \in 1 .. m /\ y[i] = w[i] /\ y[j] = w[j]
        BY <1>1, <1>3, <1>6, <2>1
      <3> QED BY <1>3, <1>5, <1>6, <2>1, <3>1
    <2>2. CASE k # m + 1
      <3>1. /\ i \in 1 .. m /\ j \in 1 .. m /\ k \in 1 .. m
            /\ y[i] = w[i] /\ y[j] = w[j] /\ y[k] = w[k]
        BY <1>1, <1>3, <1>6, <2>2
      <3> QED BY <1>1, <1>6, <3>1
    <2> QED BY <2>1, <2>2
  <1>7. ASSUME NEW z \in S, NEW i \in 1 .. m + 1, \A j \in 1 .. m + 1 : y[j] # z, home(y[i]) = home(z)
        PROVE  home(y[m + 1]) = home(z)
    <2>1. Left(z)
      BY <1>3, <1>7
    <2>2. CASE i = m + 1
      BY <1>7, <2>2
    <2>3. CASE i # m + 1
      <3>1. i \in 1 .. m /\ home(w[i]) = home(z)
        BY <1>3, <1>7, <2>3
      <3>2. home(w[m]) = home(z)
        BY <1>1, <2>1, <3>1
      <3> QED BY <1>2, <1>3, <2>1, <3>2
    <2> QED BY <2>2, <2>3
  <1>8. Visit(v, m + 1, y)
    BY <1>1, <1>3, <1>4, <1>6, <1>7 DEF Visit, S, home
  <1> QED BY <1>3, <1>8, Zenon

\* Every visit is the beginning of an order of all the nodes.
LEMMA VisitCompleted ==
  ASSUME NEW v, IsFiniteSet(Scraped(v)), NEW m, NEW w, Visit(v, m, w)
  PROVE  \E o \in Orders(v) : \A i \in 1 .. m : i \in DOMAIN o /\ o[i] = w[i]
  <1> DEFINE S == Scraped(v)
             Longer(k) == \E y : Visit(v, k, y) /\ k >= m /\ \A i \in 1 .. m : y[i] = w[i]
             K == {k \in Nat : Longer(k)}
  <1>1. m \in Nat
    BY DEF Visit
  <1>2. K \in SUBSET Nat /\ m \in K
    BY <1>1
  <1>3. Cardinality(S) \in Nat /\ \A k \in K : k <= Cardinality(S)
    BY VisitBounded
  <1> HIDE DEF K
  <1>4. PICK k \in K : \A l \in K : l <= k
    BY <1>2, <1>3, Maximum, Zenon
  <1>5. PICK y : Visit(v, k, y) /\ k >= m /\ \A i \in 1 .. m : y[i] = w[i]
    BY DEF K
  <1>6. \A x \in S : \E j \in 1 .. k : y[j] = x
    <2> SUFFICES ASSUME \E x \in S : \A j \in 1 .. k : y[j] # x PROVE FALSE
      OBVIOUS
    <2>1. PICK z : Visit(v, k + 1, z) /\ \A j \in 1 .. k : z[j] = y[j]
      BY <1>5, VisitLonger
    <2>2. k \in Nat /\ k >= m
      BY <1>5 DEF Visit
    <2>3. \A i \in 1 .. m : z[i] = w[i]
      BY <1>1, <1>5, <2>1, <2>2
    <2>4. k + 1 \in K
      BY <1>1, <2>1, <2>2, <2>3 DEF K
    <2> QED BY <1>4, <2>2, <2>4
  <1>7. k = Cardinality(S)
    BY <1>5, <1>6, VisitBounded
  <1>8. y \in Orders(v) /\ DOMAIN y = 1 .. k
    BY <1>5, <1>7 DEF Visit, Orders
  <1>9. \A i \in 1 .. m : i \in 1 .. k
    BY <1>1, <1>5 DEF Visit
  <1> QED BY <1>5, <1>8, <1>9, Zenon

\* The number of nodes before the first one without an address.
LEMMA ReachedIs ==
  ASSUME NEW v, IsFiniteSet(Scraped(v)), NEW o \in Orders(v), NEW m \in Nat,
         \A i \in 1 .. m : i \in DOMAIN o /\ AddressOf(v, o[i]) # None,
         m + 1 \in DOMAIN o => AddressOf(v, o[m + 1]) = None
  PROVE  Reached(v, o) = m
  <1> DEFINE P == {i \in DOMAIN o : \A j \in 1 .. i : AddressOf(v, o[j]) # None}
  <1>1. DOMAIN o = 1 .. Cardinality(Scraped(v)) /\ Cardinality(Scraped(v)) \in Nat
    BY FS_CardinalityType DEF Orders
  <1>2. ASSUME NEW i \in P PROVE i \in 1 .. m
    <2> SUFFICES ASSUME i > m PROVE FALSE
      BY <1>1
    <2>1. m + 1 \in 1 .. i /\ m + 1 \in DOMAIN o
      BY <1>1
    <2> QED BY <2>1
  <1>3. ASSUME NEW i \in 1 .. m PROVE i \in P
    <2>1. \A j \in 1 .. i : j \in 1 .. m
      OBVIOUS
    <2> QED BY <2>1
  <1>4. P = 1 .. m
    BY <1>2, <1>3
  <1>5. Cardinality(1 .. m) = m
    BY FS_Interval
  <1> QED BY <1>4, <1>5, Zenon DEF Reached

\* A list of targets is a result if it is the beginning of an order, and ends
\* with the last node or before one without an address.
LEMMA IsResult ==
  ASSUME NEW v, IsFiniteSet(Scraped(v)), NEW o \in Orders(v), NEW s, s = [i \in 1 .. Len(s) |-> s[i]],
         Len(s) \in Nat,
         \A i \in 1 .. Len(s) : i \in DOMAIN o /\ AddressOf(v, o[i]) # None /\ s[i] = Target(v, o[i]),
         Len(s) + 1 \in DOMAIN o => AddressOf(v, o[Len(s) + 1]) = None
  PROVE  s \in Results(v)
  <1>1. Reached(v, o) = Len(s)
    BY ReachedIs
  <1>2. s = [i \in 1 .. Len(s) |-> Target(v, o[i])]
    OBVIOUS
  <1>3. s = [i \in 1 .. Reached(v, o) |-> Target(v, o[i])]
    BY <1>1, <1>2
  <1> QED BY <1>3, Zenon DEF Results

\* The function has something to return, whatever the inventory, so that the
\* step of the controller that takes its result is never stuck.
THEOREM SomeResult ==
  ASSUME NEW v, IsFiniteSet(Scraped(v)) PROVE Results(v) # {}
  <1>1. Visit(v, 0, <<>>)
    BY DEF Visit
  <1>2. PICK o \in Orders(v) : TRUE
    BY <1>1, VisitCompleted
  <1> QED BY <1>2, Zenon DEF Results

(***************************************************************************)
(* The loops                                                               *)
(***************************************************************************)
Inventory == [home : [Nodes -> NodeSets], telemetry : SUBSET NodeSets, items : [Nodes -> Items],
              ipsets : [Nodes -> Reservations], service : ServiceNets]

Addresses == {GetAddress(any, item, ipset, service) :
                any \in BOOLEAN, item \in Items, ipset \in Reservations, service \in ServiceNets}

LoopType ==
  /\ listed \in Inventory /\ inv \in Inventory
  /\ addresses \in Seq([node : Nodes, at : Addresses])
  /\ nodes \subseteq Scraped(listed)
  /\ done \in BOOLEAN
  /\ changes \in 0 .. MaxChanges

Visited == 1 .. Len(addresses)

At(i) == addresses[i].node

Home(n) == listed.home[n]

\* Every node with the service has been visited, is to come in this node set or
\* in one of those that are left, and only one of these.
Partition ==
  /\ \A n \in Scraped(listed) : n \in nodes \/ Home(n) \in sets \/ \E i \in Visited : At(i) = n
  /\ \A n \in nodes : Home(n) \notin sets
  /\ \A i \in Visited : At(i) \in Scraped(listed) \ nodes /\ Home(At(i)) \notin sets

\* None is visited twice, and the node sets one after the other, that of the
\* nodes to come being the last.
InOrder ==
  /\ \A i, j \in Visited : At(i) = At(j) => i = j
  /\ \A i, j, k \in Visited : i < j /\ j < k /\ Home(At(i)) = Home(At(k)) => Home(At(j)) = Home(At(k))
  /\ \A n, k \in nodes : Home(n) = Home(k)
  /\ \A n \in nodes, i, j \in Visited : i < j /\ Home(At(i)) = Home(n) => Home(At(j)) = Home(n)

\* As long as nothing has changed, the addresses are those of the inventory.
Addressed ==
  changes = MaxChanges =>
    /\ inv = listed
    /\ \A i \in Visited : addresses[i] = Target(listed, At(i)) /\ AddressOf(listed, At(i)) # None

\* The loops end when there are no more nodes, or at one without an address.
Ended == done => (nodes = {} /\ sets = {}) \/ \E n \in nodes : Found(n) = None

LoopInv == LoopType /\ Partition /\ InOrder /\ Addressed /\ Ended

LEMMA ScrapedNodes == ASSUME NEW v \in Inventory PROVE Scraped(v) = {n \in Nodes : v.home[n] \in v.telemetry}
  BY DEF Inventory, Scraped

LEMMA ScrapedFinite == ASSUME NEW v \in Inventory PROVE IsFiniteSet(Scraped(v))
  BY ScrapedNodes, BoundAssumption, FS_Subset

LEMMA FoundType == ASSUME LoopType, NEW n \in Nodes PROVE Found(n) \in Addresses
  <1>1. /\ HasIPSets(listed) \in BOOLEAN /\ listed.items[n] \in Items
        /\ inv.ipsets[n] \in Reservations /\ inv.service \in ServiceNets
    BY DEF LoopType, Inventory, HasIPSets
  <1> QED BY <1>1 DEF Found, Addresses

LEMMA LoopInit == ASSUME Init PROVE LoopInv
  <1>1. /\ inv \in Inventory /\ listed = inv /\ sets = NodeSets /\ nodes = {}
        /\ addresses = <<>> /\ done = FALSE /\ changes = MaxChanges
    BY DEF Init, Inventory
  <1>2. LoopType
    <2>1. changes \in 0 .. MaxChanges
      BY <1>1, BoundAssumption
    <2>2. <<>> \in Seq([node : Nodes, at : Addresses])
      OBVIOUS
    <2> QED BY <1>1, <2>1, <2>2, Zenon DEF LoopType
  <1>3. Visited = {}
    BY <1>1 DEF Visited
  <1>4. \A n \in Scraped(listed) : Home(n) \in sets
    BY <1>1 DEF Scraped, Inventory, Home
  <1>5. Partition /\ InOrder /\ Addressed /\ Ended
    BY <1>1, <1>3, <1>4 DEF Partition, InOrder, Addressed, Ended
  <1> QED BY <1>2, <1>5 DEF LoopInv

LEMMA SetStep == ASSUME LoopInv, NextNodeSet PROVE LoopInv'
  <1> USE DEF LoopInv
  <1>1. PICK s \in sets :
          sets' = sets \ {s} /\ nodes' = IF s \in listed.telemetry THEN Members(listed, s) ELSE {}
    BY DEF NextNodeSet
  <1>2. UNCHANGED <<listed, inv, addresses, done, changes>> /\ nodes = {} /\ ~done
    BY DEF NextNodeSet
  <1>3. \A n \in nodes' : n \in Scraped(listed) /\ Home(n) = s
    BY <1>1 DEF Members, Scraped, Home
  <1>4. \A n \in Scraped(listed) : Home(n) = s => n \in nodes'
    BY <1>1 DEF Members, Scraped, Home
  <1>5. \A i \in Visited : Home(At(i)) # s
    BY <1>1 DEF Partition
  <1>6. LoopType'
    BY <1>2, <1>3 DEF LoopType
  <1>7. Partition'
    BY <1>1, <1>2, <1>3, <1>4, <1>5 DEF Partition, Visited, At, Home
  <1>8. InOrder'
    BY <1>2, <1>3, <1>5 DEF InOrder, Visited, At, Home
  <1>9. Addressed' /\ Ended'
    BY <1>2 DEF Addressed, Ended, Visited, At
  <1> QED BY <1>6, <1>7, <1>8, <1>9

LEMMA NodeStep == ASSUME LoopInv, NextNode PROVE LoopInv'
  <1> USE DEF LoopInv
  <1>1. UNCHANGED <<listed, inv, sets, changes>>
    BY DEF NextNode
  <1>2. PICK n \in nodes :
          IF Found(n) = None
          THEN done' = TRUE /\ UNCHANGED <<nodes, addresses>>
          ELSE /\ nodes' = nodes \ {n}
               /\ addresses' = Append(addresses, [node |-> n, at |-> Found(n)])
               /\ UNCHANGED done
    BY DEF NextNode
  <1>3. CASE Found(n) = None
    <2>1. done' = TRUE /\ UNCHANGED <<nodes, addresses>>
      BY <1>2, <1>3
    <2>2. LoopType' /\ Partition' /\ InOrder' /\ Addressed'
      BY <1>1, <2>1 DEF LoopType, Partition, InOrder, Addressed, Visited, At, Home
    <2>3. Ended'
      BY <1>1, <1>3, <2>1 DEF Ended, Found
    <2> QED BY <2>2, <2>3
  <1>4. CASE Found(n) # None
    <2> DEFINE m == Len(addresses)
    <2>1. nodes' = nodes \ {n} /\ done' = done /\ ~done
          /\ addresses' = Append(addresses, [node |-> n, at |-> Found(n)])
      BY <1>2, <1>4 DEF NextNode
    <2>2. n \in Scraped(listed) /\ n \in Nodes
      BY ScrapedNodes DEF LoopType
    <2>3. [node |-> n, at |-> Found(n)] \in [node : Nodes, at : Addresses]
      BY <2>2, FoundType
    <2>4. /\ addresses' \in Seq([node : Nodes, at : Addresses])
          /\ m \in Nat /\ Len(addresses') = m + 1
          /\ \A i \in 1 .. m : addresses'[i] = addresses[i]
          /\ addresses'[m + 1] = [node |-> n, at |-> Found(n)]
      BY <2>1, <2>3 DEF LoopType
    <2> HIDE DEF m
    <2>5. /\ m + 1 \in Visited' /\ addresses'[m + 1].node = n
          /\ Visited = 1 .. m /\ Visited' = 1 .. m + 1
          /\ \A i \in Visited : i \in Visited' /\ addresses'[i].node = At(i)
          /\ \A i \in Visited' : i \in Visited \/ i = m + 1
      BY <2>4 DEF Visited, At, m
    <2>6. \A i \in Visited : Home(addresses'[i].node) = Home(At(i))
      BY <2>5
    <2>7. LoopType'
      BY <1>1, <2>1, <2>4 DEF LoopType
    <2>8. Partition'
      <3>1. \A k \in Scraped(listed) : k \in nodes' \/ Home(k) \in sets' \/ \E i \in Visited' : addresses'[i].node = k
        BY <1>1, <2>1, <2>5 DEF Partition
      <3>2. \A k \in nodes' : Home(k) \notin sets'
        BY <1>1, <2>1 DEF Partition
      <3>3. \A i \in Visited' : addresses'[i].node \in Scraped(listed) \ nodes' /\ Home(addresses'[i].node) \notin sets'
        BY <1>1, <2>1, <2>2, <2>5 DEF Partition
      <3> QED BY <1>1, <3>1, <3>2, <3>3 DEF Partition, Home, At
    <2>9. InOrder'
      <3>1. ASSUME NEW i \in Visited', NEW j \in Visited', addresses'[i].node = addresses'[j].node PROVE i = j
        BY <2>5, <3>1 DEF InOrder, Partition
      <3>2. ASSUME NEW i \in Visited', NEW j \in Visited', NEW k \in Visited', i < j, j < k,
                   Home(addresses'[i].node) = Home(addresses'[k].node)
            PROVE  Home(addresses'[j].node) = Home(addresses'[k].node)
        <4>1. i \in Visited /\ j \in Visited
          BY <2>4, <2>5, <3>2
        <4>2. CASE k = m + 1
          BY <2>5, <3>2, <4>1, <4>2 DEF InOrder
        <4>3. CASE k \in Visited
          BY <2>5, <3>2, <4>1, <4>3 DEF InOrder
        <4> QED BY <2>5, <4>2, <4>3
      <3>3. \A k, l \in nodes' : Home(k) = Home(l)
        BY <2>1 DEF InOrder
      <3>4. ASSUME NEW k \in nodes', NEW i \in Visited', NEW j \in Visited', i < j, Home(addresses'[i].node) = Home(k)
            PROVE  Home(addresses'[j].node) = Home(k)
        <4>1. i \in Visited /\ k \in nodes
          BY <2>1, <2>4, <2>5, <3>4
        <4>2. CASE j = m + 1
          BY <2>5, <4>1, <4>2 DEF InOrder
        <4>3. CASE j \in Visited
          BY <2>5, <3>4, <4>1, <4>3 DEF InOrder
        <4> QED BY <2>5, <4>2, <4>3
      <3> QED BY <1>1, <3>1, <3>2, <3>3, <3>4 DEF InOrder, Home, At
    <2>10. Addressed'
      <3> SUFFICES ASSUME changes = MaxChanges, NEW i \in Visited'
                   PROVE  /\ inv = listed
                          /\ addresses'[i] = Target(listed, addresses'[i].node) /\ AddressOf(listed, addresses'[i].node) # None
        BY <1>1 DEF Addressed, At
      <3>1. inv = listed
        BY DEF Addressed
      <3>2. Found(n) = AddressOf(listed, n)
        BY <3>1 DEF Found, AddressOf
      <3>3. CASE i = m + 1
        BY <1>4, <2>4, <2>5, <3>1, <3>2, <3>3 DEF Target
      <3>4. CASE i \in Visited
        BY <2>4, <2>5, <3>1, <3>4 DEF Addressed
      <3> QED BY <2>5, <3>3, <3>4
    <2>11. Ended'
      BY <2>1 DEF Ended
    <2> QED BY <2>7, <2>8, <2>9, <2>10, <2>11
  <1> QED BY <1>3, <1>4

LEMMA ChangeStep == ASSUME LoopInv, InventoryChanges PROVE LoopInv'
  <1> USE DEF LoopInv
  <1>1. UNCHANGED <<listed, sets, nodes, addresses, done>> /\ ~done /\ changes > 0 /\ changes' = changes - 1
    BY DEF InventoryChanges
  <1>2. inv' \in Inventory
    BY DEF InventoryChanges, LoopType, Inventory
  <1>3. changes' \in 0 .. MaxChanges /\ changes' # MaxChanges
    BY <1>1, BoundAssumption DEF LoopType
  <1>4. LoopType' /\ Partition' /\ InOrder' /\ Addressed' /\ Ended'
    BY <1>1, <1>2, <1>3 DEF LoopType, Partition, InOrder, Addressed, Ended, Visited, At, Home
  <1> QED BY <1>4

LEMMA LoopStep == ASSUME LoopInv, [Next]_vars PROVE LoopInv'
  <1>1. CASE Return \/ UNCHANGED vars
    <2>1. UNCHANGED <<listed, inv, sets, nodes, addresses, changes>> /\ done' \in BOOLEAN
          /\ (done' => done \/ (nodes = {} /\ sets = {}))
      <3>1. CASE Return
        BY <3>1 DEF Return
      <3>2. CASE UNCHANGED vars
        BY <3>2, Zenon DEF vars, LoopInv, LoopType
      <3> QED BY <1>1, <3>1, <3>2
    <2>2. LoopType' /\ Partition' /\ InOrder' /\ Addressed'
      BY <2>1 DEF LoopInv, LoopType, Partition, InOrder, Addressed, Visited, At, Home
    <2>3. Ended'
      BY <2>1 DEF LoopInv, Ended, Found
    <2> QED BY <2>2, <2>3 DEF LoopInv
  <1> QED BY <1>1, SetStep, NodeStep, ChangeStep DEF Next

LEMMA Loops == Spec => []LoopInv
  BY LoopInit, LoopStep, PTL DEF Spec

\* However many nodes there are and in whatever order the loops come to them,
\* no node is left out when each has a valid HostName and an AnsibleHost, even
\* if IPSets and networks come and go while the loops run.
THEOREM NoneHidden == Spec => []AllScraped
  <1>1. LoopInv => AllScraped
    <2> SUFFICES ASSUME LoopInv, done,
                        \A n \in Scraped(listed) : listed.items[n].host /\ listed.items[n].ansible # "empty"
                 PROVE  {addresses[i].node : i \in 1 .. Len(addresses)} = Scraped(listed)
      BY DEF AllScraped
    <2>1. ASSUME NEW n \in nodes PROVE Found(n) # None
      <3>1. n \in Scraped(listed) /\ n \in Nodes
        BY ScrapedNodes DEF LoopInv, LoopType
      <3>2. /\ HasIPSets(listed) \in BOOLEAN
            /\ listed.items[n] \in Items /\ inv.ipsets[n] \in Reservations
        BY <3>1 DEF LoopInv, LoopType, Inventory, HasIPSets
      <3> QED BY <3>1, <3>2, HasAddress DEF Found
    <2>2. nodes = {} /\ sets = {}
      BY <2>1 DEF LoopInv, Ended
    <2> QED BY <2>2 DEF LoopInv, Partition, Visited, At
  <1> QED BY <1>1, Loops, PTL

\* The loops return what ScrapeTargets allows, which is what the model of the
\* controller lets them return in one step.
THEOREM LoopsReturnResult == Spec => []ReturnsResult
  <1>1. LoopInv => ReturnsResult
    <2> SUFFICES ASSUME LoopInv, done, changes = MaxChanges PROVE addresses \in Results(listed)
      BY DEF ReturnsResult, LoopInv, Addressed
    <2> USE DEF LoopInv
    <2> DEFINE m == Len(addresses)
               w == [i \in 1 .. m |-> At(i)]
    <2>1. /\ m \in Nat /\ addresses = [i \in 1 .. m |-> addresses[i]] /\ Visited = 1 .. m
          /\ \A i \in 1 .. m : addresses[i] = Target(listed, w[i]) /\ AddressOf(listed, w[i]) # None
      BY DEF LoopType, Addressed, Visited
    <2>2. IsFiniteSet(Scraped(listed))
      BY ScrapedFinite DEF LoopType
    <2>3. /\ w \in [1 .. m -> Scraped(listed)]
          /\ \A i \in 1 .. m : w[i] \notin nodes /\ Home(w[i]) \notin sets
          /\ \A i, j \in 1 .. m : w[i] = w[j] => i = j
          /\ \A i, j, k \in 1 .. m :
               i < j /\ j < k /\ Home(w[i]) = Home(w[k]) => Home(w[j]) = Home(w[k])
      BY <2>1 DEF Partition, InOrder
    <2>4. \A x \in Scraped(listed) : (\A j \in 1 .. m : w[j] # x) => x \in nodes \/ Home(x) \in sets
      BY <2>1 DEF Partition
    <2>5. \A n \in nodes, i, j \in 1 .. m : i < j /\ Home(w[i]) = Home(n) => Home(w[j]) = Home(n)
      BY <2>1 DEF InOrder
    <2> HIDE DEF m, w
    <2>6. CASE nodes = {} /\ sets = {}
      <3>1. \A x \in Scraped(listed) : \E j \in 1 .. m : w[j] = x
        BY <2>4, <2>6
      <3>2. Visit(listed, m, w)
        BY <2>1, <2>3, <3>1 DEF Visit, Home
      <3>3. m = Cardinality(Scraped(listed))
        BY <2>2, <3>1, <3>2, VisitBounded
      <3>4. w \in Orders(listed) /\ DOMAIN w = 1 .. m
        BY <2>3, <3>3 DEF Orders, Home
      <3>5. m + 1 \notin 1 .. m
        BY <2>1
      <3> QED BY <2>1, <2>2, <3>4, <3>5, IsResult DEF m
    <2>7. ASSUME NEW n \in nodes, Found(n) = None PROVE addresses \in Results(listed)
      <3> DEFINE y == [i \in 1 .. m + 1 |-> IF i = m + 1 THEN n ELSE w[i]]
      <3>1. n \in Scraped(listed) /\ Home(n) \notin sets /\ \A k \in nodes : Home(k) = Home(n)
        BY DEF LoopType, Partition, InOrder
      <3>2. /\ y \in [1 .. m + 1 -> Scraped(listed)] /\ y[m + 1] = n /\ m + 1 \in 1 .. m + 1
            /\ \A i \in 1 .. m + 1 : i = m + 1 \/ (i \in 1 .. m /\ y[i] = w[i])
            /\ \A i \in 1 .. m : y[i] = w[i] /\ i \in 1 .. m + 1
        BY <2>1, <2>3, <3>1
      <3> HIDE DEF y
      <3>3. \A i, j \in 1 .. m + 1 : y[i] = y[j] => i = j
        BY <2>3, <3>2
      <3>4. ASSUME NEW i \in 1 .. m + 1, NEW j \in 1 .. m + 1, NEW k \in 1 .. m + 1,
                   i < j, j < k, Home(y[i]) = Home(y[k])
            PROVE  Home(y[j]) = Home(y[k])
        <4>1. i \in 1 .. m /\ j \in 1 .. m /\ y[i] = w[i] /\ y[j] = w[j]
          BY <2>1, <3>2, <3>4
        <4>2. CASE k = m + 1
          BY <2>5, <3>2, <3>4, <4>1, <4>2
        <4>3. CASE k \in 1 .. m
          BY <2>3, <3>2, <3>4, <4>1, <4>3
        <4> QED BY <3>2, <4>2, <4>3
      <3>5. ASSUME NEW x \in Scraped(listed), NEW i \in 1 .. m + 1,
                   \A j \in 1 .. m + 1 : y[j] # x, Home(y[i]) = Home(x)
            PROVE  Home(n) = Home(x)
        <4>1. x \in nodes \/ Home(x) \in sets
          BY <2>4, <3>2, <3>5
        <4>2. i = m + 1 \/ Home(y[i]) \notin sets
          BY <2>3, <3>2
        <4> QED BY <3>1, <3>2, <3>5, <4>1, <4>2
      <3>6. Visit(listed, m + 1, y)
        BY <2>1, <3>2, <3>3, <3>4, <3>5 DEF Visit, Home
      <3>7. PICK o \in Orders(listed) : \A i \in 1 .. m + 1 : i \in DOMAIN o /\ o[i] = y[i]
        BY <2>2, <3>6, VisitCompleted
      <3>8. AddressOf(listed, n) = None
        BY <2>7 DEF Found, AddressOf, Addressed
      <3>9. \A i \in 1 .. m : i \in DOMAIN o /\ o[i] = w[i]
        BY <3>2, <3>7
      <3>10. AddressOf(listed, o[m + 1]) = None
        BY <3>2, <3>7, <3>8
      <3> QED BY <2>1, <2>2, <3>9, <3>10, IsResult DEF m
    <2> QED BY <2>6, <2>7 DEF Ended
  <1> QED BY <1>1, Loops, PTL

================================================================================
