------------------------- MODULE MCControlEndpoint -------------------------
(* Instances of ControlEndpoint: the requests the host may issue, and the pool
   they share. *)
EXTENDS ControlEndpoint
=============================================================================
