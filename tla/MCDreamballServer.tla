------------------------- MODULE MCDreamballServer -------------------------
(* Model-checking instances of DreamballServer. *)
EXTENDS DreamballServer

=============================================================================
