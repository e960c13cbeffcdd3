------------------------------- MODULE Inputs -------------------------------
(***************************************************************************)
(* A function without a state of its own is looked at one input at a time: *)
(* `input' is a record of its arguments, and `kind' tells which function.  *)
(***************************************************************************)
VARIABLE input

Is(kind) == input.kind = kind

NoInput == input = [kind |-> "none"]

=============================================================================
