----------------------------- MODULE ScrapeTargets -----------------------------
(***************************************************************************)
(* The addresses at which Prometheus scrapes the node exporters, as        *)
(* getNodeExporterTargets of src/controllers/metricstorage_controller.go   *)
(* collects them from the node sets of the data plane.                     *)
(*                                                                         *)
(* An inventory is a record of what the function reads:                    *)
(*   home       the node set of each node;                                 *)
(*   telemetry  the node sets with the service "telemetry";                *)
(*   items      for each node, whether its AnsibleHost is "empty", an      *)
(*              "ip", a valid "domain" or "invalid", and whether its       *)
(*              HostName is a valid domain;                                *)
(*   ipsets     for each node, the networks of the reservations of its     *)
(*              IPSet, in order, or None;                                  *)
(*   service    the networks of the OpenStackDataPlaneService, or None.    *)
(* An address is the name of the field, or of the network, it comes from.  *)
(***************************************************************************)
EXTENDS Sequences, Naturals, FiniteSets

CONSTANT None   \* a missing object, the empty address

\* getAddressFromAnsibleHost
GetAddressFromAnsibleHost(item) ==
  CASE item.ansible \in {"ip", "domain"} -> "AnsibleHost"
    [] item.ansible \notin {"ip", "domain"} /\ item.host -> "HostName"
    [] OTHER -> None

\* The reservations on a network of the service.
Matches(ipset, service) ==
  {i \in 1 .. Len(ipset) : service # None /\ ipset[i] \in service}

\* getAddressFromIPSet: the first such reservation.  AnsibleHost is not tried
\* for a node that has no IPSet.
GetAddressFromIPSet(item, ipset, service) ==
  IF ipset = None
  THEN IF item.host THEN "HostName" ELSE None
  ELSE IF Matches(ipset, service) # {}
       THEN ipset[CHOOSE i \in Matches(ipset, service) :
                    \A j \in Matches(ipset, service) : i <= j]
       ELSE GetAddressFromAnsibleHost(item)

HasIPSets(inv) == \E m \in DOMAIN inv.ipsets : inv.ipsets[m] # None

\* The body of the loop over the nodes; any tells whether there are IPSets at
\* all.  If not, HostName is not tried for a node without an AnsibleHost.
GetAddress(any, item, ipset, service) ==
  IF any THEN GetAddressFromIPSet(item, ipset, service)
  ELSE IF item.ansible # "empty" THEN GetAddressFromAnsibleHost(item) ELSE None

(***************************************************************************)
(* What the function may return.  Both the node sets in a list from the    *)
(* cache and the nodes in a Go map come in an order that differs from call *)
(* to call, and the loop ends at the first node without an address.        *)
(***************************************************************************)
AddressOf(inv, n) == GetAddress(HasIPSets(inv), inv.items[n], inv.ipsets[n], inv.service)

Target(inv, n) == [node |-> n, at |-> AddressOf(inv, n)]

Scraped(inv) == {n \in DOMAIN inv.home : inv.home[n] \in inv.telemetry}

Members(inv, s) == {n \in DOMAIN inv.home : inv.home[n] = s}

\* The orders in which the loops may come to the nodes: each once, and the nodes
\* of a node set one after the other.
Orders(inv) ==
  {o \in [1 .. Cardinality(Scraped(inv)) -> Scraped(inv)] :
     /\ \A i, j \in DOMAIN o : o[i] = o[j] => i = j
     /\ \A i, j, k \in DOMAIN o :
          i < j /\ j < k /\ inv.home[o[i]] = inv.home[o[k]] => inv.home[o[j]] = inv.home[o[k]]}

\* The number of nodes before the first one without an address.
Reached(inv, o) ==
  Cardinality({i \in DOMAIN o : \A j \in 1 .. i : AddressOf(inv, o[j]) # None})

\* The sequences of targets that may be returned.
Results(inv) == {[i \in 1 .. Reached(inv, o) |-> Target(inv, o[i])] : o \in Orders(inv)}
===============================================================================
