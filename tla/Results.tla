------------------------------- MODULE Results -------------------------------
(***************************************************************************)
(* What the code of a standard library node leaves behind.                 *)
(***************************************************************************)

(* A value, a fault the program can see, or the end of the process.         *)
Ok(v) == [ok |-> TRUE, value |-> v]
Fault(f) == [ok |-> FALSE, fault |-> f]
Dead == [ok |-> FALSE, fault |-> "aborted"]
(* A result whose shape is not the declared output type's, which the code   *)
(* that consumes it then reads as if it were.                               *)
WrongShape == [ok |-> FALSE, fault |-> "wrong_shape"]
(* A node the back end rejects, or emits a module for that does not verify. *)
Refused == [ok |-> FALSE, fault |-> "not_compiled"]
=============================================================================
