------------------------------- MODULE MCGlass -------------------------------
(***************************************************************************)
(* A board read held on its left edge, stood on its USB-C port, lying flat   *)
(* and held on a diagonal, in mg.                                          *)
(***************************************************************************)
EXTENDS Glass

Poses ==
  {[x |-> 0, y |-> -986, z |-> 30], [x |-> 1000, y |-> 0, z |-> 0],
   [x |-> 0, y |-> 0, z |-> 1000], [x |-> 707, y |-> -707, z |-> 0]}
=============================================================================
