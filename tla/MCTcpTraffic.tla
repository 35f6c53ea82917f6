---------------------------- MODULE MCTcpTraffic ----------------------------
(***************************************************************************)
(* Two conversations with the same client, endpoint 2: one with a server   *)
(* that is the lower endpoint, so that the normalised flow is the reverse  *)
(* of the conversation, and one with a higher server that sends nothing.   *)
(* A single conversation is enough for the disordered captures.            *)
(***************************************************************************)
EXTENDS TcpTraffic

ToLower == [src |-> 2, dst |-> 1]
ToHigher == [src |-> 2, dst |-> 3]

MCEndpoint == 1 .. 3

MCBoth == {ToLower, ToHigher}
MCOne == {ToLower}

MCLen == [side \in Sides |-> IF Normalized(side) = Normalized(ToLower) THEN 2 ELSE IF side.src = 2 THEN 1 ELSE 0]

MCIsn == [side \in Sides |-> IF side.src = 2 THEN 6 ELSE 0]
=============================================================================
