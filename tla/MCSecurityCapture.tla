------------------------- MODULE MCSecurityCapture -------------------------
(* Model checking SecurityCapture: the constants are numbers.               *)
EXTENDS SecurityCapture
=============================================================================
