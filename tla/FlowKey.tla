------------------------------ MODULE FlowKey -------------------------------
(***************************************************************************)
(* Flow keys (pcap_decode/models.py).  An endpoint is an (ip, port) pair.  *)
(* The code compares endpoints only for equality and for the order of      *)
(* Python tuples, so an endpoint is its rank in that order: a natural      *)
(* number.  A flow key is directed; both directions of a conversation      *)
(* share one normalised key.                                               *)
(***************************************************************************)
EXTENDS Naturals

CONSTANT Endpoint

ASSUME EndpointAssumption == Endpoint \subseteq Nat

Flow == [src : Endpoint, dst : Endpoint]

Reversed(flow) == [src |-> flow.dst, dst |-> flow.src]

Normalized(flow) == IF flow.src <= flow.dst THEN flow ELSE Reversed(flow)

\* The key of a decoded packet.
FlowOf(packet) == [src |-> packet.src, dst |-> packet.dst]
=============================================================================
