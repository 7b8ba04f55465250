------------------------------- MODULE Option -------------------------------
(* The absence of a value, where the code has an Option: one for the modules  *)
(* that are reasoned about together.                                          *)
CONSTANT None
=============================================================================
