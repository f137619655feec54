-------------------------------- MODULE Nothing -------------------------------
(***************************************************************************)
(* Python's None, a value apart from all others.                           *)
(***************************************************************************)
CONSTANT None
===============================================================================
