---------------------------- MODULE MCJobDelivery ----------------------------
(* Finite instances of JobDelivery for TLC. *)
EXTENDS JobDelivery

CONSTANTS k1, k2

AnyFault == {"loss", "lossbusy", "linger", "error", "signal"}
BusyLoss == {"loss", "lossbusy"}
=============================================================================
