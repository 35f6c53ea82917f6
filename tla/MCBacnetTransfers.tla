------------------------- MODULE MCBacnetTransfers --------------------------
(***************************************************************************)
(* A client, and two servers with a file of the same number; the first     *)
(* server has another file.  One file is longer than the cap by a byte,    *)
(* and the two others fit.                                                 *)
(***************************************************************************)
EXTENDS BacnetTransfers

Long == [server |-> "s1", file |-> "f1"]
Fitting == [server |-> "s1", file |-> "f2"]
Elsewhere == [server |-> "s2", file |-> "f1"]

MCStored == {Long, Fitting, Elsewhere}
MCFileLen == [f \in MCStored |-> IF f = Long THEN 3 ELSE IF f = Fitting THEN 2 ELSE 1]
MCInvokeIds == {1, 2}
=============================================================================
