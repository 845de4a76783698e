------------------------------ MODULE CallTree ------------------------------
(***************************************************************************)
(* The fork-join calls one run of a compiled program makes.  The native    *)
(* back end emits a call of fa_parallel_for for every parallel-safe map    *)
(* and a call of fa_parallel_tasks for every batch of independent chains;  *)
(* the body of an item is compiled code and may itself contain such a      *)
(* call.  A program is therefore a tree of calls: call c has Count[c]      *)
(* items, and Child[c][i] is the call that item i makes, or NoCall.        *)
(***************************************************************************)
EXTENDS Integers

CONSTANTS
  Calls,    (* The fork-join calls of the program.                         *)
  Root,     (* The outermost one, made by the program's main function.     *)
  NoCall,   (* What Child says of an item that makes no call.              *)
  Kind,     (* Kind[c]: "for" (fa_parallel_for) or "tasks".                *)
  Count,    (* Count[c]: end - start of a "for", count of "tasks".         *)
  Grain,    (* Grain[c]: items claimed at once; 1 for "tasks".             *)
  Child     (* Child[c][i]: the call made by item i of c.                  *)

Items(c) == 0 .. Count[c] - 1

ASSUME CallTreeAssumption ==
  /\ Root \in Calls
  /\ NoCall \notin Calls
  /\ Kind  \in [Calls -> {"for", "tasks"}]
  /\ Count \in [Calls -> Nat]
  /\ Grain \in [Calls -> Nat \ {0}]
  /\ \A c \in Calls : Kind[c] = "tasks" => Grain[c] = 1
  /\ DOMAIN Child = Calls
  /\ \A c \in Calls : Child[c] \in [Items(c) -> Calls \cup {NoCall}]
  /\ \A c \in Calls : \A i \in Items(c) : Child[c][i] # Root
  /\ \A c, d \in Calls : \A i \in Items(c), j \in Items(d) :
       Child[c][i] = Child[d][j] /\ Child[c][i] # NoCall => c = d /\ i = j
=============================================================================
