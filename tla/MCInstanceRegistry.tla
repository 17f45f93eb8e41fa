------------------------- MODULE MCInstanceRegistry -------------------------
(* Instances of InstanceRegistry: model values for the requests, UUIDs and
   ports. *)
EXTENDS InstanceRegistry

CONSTANTS m1, m2, g1, d1, d2, u1, u2, u3, p1
MCUuids == {u1, u2, u3}
=============================================================================
