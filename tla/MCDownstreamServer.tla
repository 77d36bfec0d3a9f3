------------------------- MODULE MCDownstreamServer -------------------------
(* The envelope at a small scale, and the validator's own test of its stall *)
(* geometry (model/validate_ldownmax.py:173-190): the loop and the cycle-   *)
(* stepping server agree from every phase.                                  *)
EXTENDS DownstreamServer

ASSUME StallGeometry ==
  \A start \in 0 .. 2 * Window, w \in 0 .. 3 * Window :
    Advance(start, w) = AdvanceStepping(start, w)
=============================================================================
