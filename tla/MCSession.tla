------------------------------ MODULE MCSession ------------------------------
(* The bus of the application holds 64 events.  Instances with a small     *)
(* Capacity lose events after a few; in the others none can be lost.       *)
EXTENDS Session
=============================================================================
