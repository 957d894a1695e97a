-------------------------- MODULE NodeExporterTargets --------------------------
(***************************************************************************)
(* The loops of getNodeExporterTargets                                     *)
(* (src/controllers/metricstorage_controller.go), one step for each        *)
(* iteration, over every inventory and in every order of the node sets and *)
(* of the nodes in them.  ScrapeTargets says what they compute.            *)
(*                                                                         *)
(* The node sets and the number of IPSets are read once, before the loops. *)
(* The IPSet of a node and the telemetry service are read for each node,   *)
(* and may have changed by then.                                           *)
(***************************************************************************)
EXTENDS ScrapeTargets

CONSTANTS
  Nodes, NodeSets,
  Items,         \* the sections of a node
  Reservations,  \* the networks reserved by an IPSet, or None
  ServiceNets,   \* the networks of the telemetry service, or None
  MaxChanges

ASSUME ItemsAssumption ==
  Items \subseteq [ansible : {"empty", "ip", "domain", "invalid"}, host : BOOLEAN]
ASSUME NoneAssumption == None \notin STRING \cup {"AnsibleHost", "HostName"}
ASSUME ReservationsAssumption == Reservations \subseteq Seq(STRING) \cup {None}
ASSUME BoundAssumption == IsFiniteSet(Nodes) /\ MaxChanges \in Nat

VARIABLES
  listed,     \* the inventory when the lists are read
  inv,        \* the inventory now
  sets,       \* the node sets still to come
  nodes,      \* the nodes still to come of the current node set
  addresses,  \* the targets so far
  done,       \* has the function returned?
  changes     \* changes of the inventory still allowed

vars == <<listed, inv, sets, nodes, addresses, done, changes>>

Init ==
  /\ inv \in [home : [Nodes -> NodeSets], telemetry : SUBSET NodeSets, items : [Nodes -> Items],
              ipsets : [Nodes -> Reservations], service : ServiceNets]
  /\ listed = inv
  /\ sets = NodeSets /\ nodes = {} /\ addresses = <<>> /\ done = FALSE
  /\ changes = MaxChanges

\* A node set without the telemetry service is skipped.
NextNodeSet ==
  /\ ~done /\ nodes = {}
  /\ \E s \in sets :
       /\ sets' = sets \ {s}
       /\ nodes' = IF s \in listed.telemetry THEN Members(listed, s) ELSE {}
  /\ UNCHANGED <<listed, inv, addresses, done, changes>>

\* The address found for a node in this iteration.
Found(n) == GetAddress(HasIPSets(listed), listed.items[n], inv.ipsets[n], inv.service)

\* Mutant: the address of the node before is used for a node without one.
NextNodeStale ==
  /\ ~done
  /\ \E n \in nodes :
       /\ nodes' = nodes \ {n}
       /\ addresses' = IF Found(n) = None /\ addresses # <<>>
                       THEN Append(addresses, [node |-> n, at |-> addresses[Len(addresses)].at])
                       ELSE Append(addresses, [node |-> n, at |-> Found(n)])
  /\ UNCHANGED <<listed, inv, sets, done, changes>>

\* Mutant: an IPSet that was in the list and is gone ends the loops.
NextNodeGone ==
  /\ ~done
  /\ \E n \in nodes :
       IF Found(n) = None \/ (listed.ipsets[n] # None /\ inv.ipsets[n] = None)
       THEN done' = TRUE /\ UNCHANGED <<nodes, addresses>>
       ELSE /\ nodes' = nodes \ {n}
            /\ addresses' = Append(addresses, [node |-> n, at |-> Found(n)])
            /\ UNCHANGED done
  /\ UNCHANGED <<listed, inv, sets, changes>>

\* "we do not go further" when there is no address for a node.
NextNode ==
  /\ ~done
  /\ \E n \in nodes :
       IF Found(n) = None
       THEN done' = TRUE /\ UNCHANGED <<nodes, addresses>>
       ELSE /\ nodes' = nodes \ {n}
            /\ addresses' = Append(addresses, [node |-> n, at |-> Found(n)])
            /\ UNCHANGED done
  /\ UNCHANGED <<listed, inv, sets, changes>>

Return ==
  /\ ~done /\ nodes = {} /\ sets = {}
  /\ done' = TRUE
  /\ UNCHANGED <<listed, inv, sets, nodes, addresses, changes>>

\* The caches of IPSets and of services go on meanwhile.
InventoryChanges ==
  /\ ~done /\ changes > 0
  /\ \/ \E n \in Nodes, r \in Reservations : inv' = [inv EXCEPT !.ipsets[n] = r]
     \/ \E s \in ServiceNets : inv' = [inv EXCEPT !.service = s]
  /\ inv' # inv
  /\ changes' = changes - 1
  /\ UNCHANGED <<listed, sets, nodes, addresses, done>>

Next == NextNodeSet \/ NextNode \/ Return \/ InventoryChanges

Spec == Init /\ [][Next]_vars

(***************************************************************************)
(* Properties                                                              *)
(***************************************************************************)
\* While the inventory stands still, the loops return exactly what
\* ScrapeTargets says: no node is scraped without the telemetry service, none
\* twice, none at the address of another, and the list ends early only at a
\* node without an address.
ReturnsResult == done /\ changes = MaxChanges => addresses \in Results(inv)

\* One node without an address hides those that follow.  A node with a valid
\* HostName and an AnsibleHost does not, whatever happens to the IPSets and to
\* the service during the loops: when all are like that, all are returned.
AllScraped ==
  done /\ (\A n \in Scraped(listed) : listed.items[n].host /\ listed.items[n].ansible # "empty") =>
    {addresses[i].node : i \in 1 .. Len(addresses)} = Scraped(listed)
===============================================================================
