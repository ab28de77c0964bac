------------------------ MODULE MCExternalCallEngine ------------------------
(* Model-checking instance of ExternalCallEngine. *)
EXTENDS ExternalCallEngine
=============================================================================
