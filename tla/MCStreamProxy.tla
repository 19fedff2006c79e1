--------------------------- MODULE MCStreamProxy ---------------------------
(* One stream with a few frames each way.                                  *)
EXTENDS StreamProxy
=============================================================================
