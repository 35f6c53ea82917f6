---------------------------- MODULE MCTcpCapture ----------------------------
(***************************************************************************)
(* A stream of five bytes in a sequence space of 16.  With the initial     *)
(* numbers 3 and 12 the stream lies inside the space and wraps in its      *)
(* middle.                                                                 *)
(***************************************************************************)
EXTENDS TcpCapture

MCIsns == {3, 12}
=============================================================================
