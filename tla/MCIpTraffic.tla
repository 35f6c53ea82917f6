---------------------------- MODULE MCIpTraffic -----------------------------
(***************************************************************************)
(* Two pairs of addresses that use the same identification, datagrams of   *)
(* four units.                                                             *)
(***************************************************************************)
EXTENDS IpTraffic

MCKeys == {[pair |-> "ab", id |-> 1], [pair |-> "ac", id |-> 1]}
MCOneKey == {[pair |-> "ab", id |-> 1]}
=============================================================================
