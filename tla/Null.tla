-------------------------------- MODULE Null --------------------------------
(* C#'s null and TypeScript's undefined, shared by the modules of two lanes. *)
CONSTANT None
=============================================================================
