------------------------- MODULE MCDynamicSampling -------------------------
(* Two ranks and three groups of two: the second group lies on both ranks. *)
EXTENDS DynamicSampling

CONSTANTS p, q, f

TwoOrders == {<<p, q, f>>, <<f, q, p>>}
=============================================================================
