--------------------------- MODULE MCPagePipeline ---------------------------
(* An instance of PagePipeline for TLC. *)
EXTENDS PagePipeline

Either == {TRUE, FALSE}
=============================================================================
