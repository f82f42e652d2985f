------------------------------ MODULE AtomicFile ------------------------------
(***************************************************************************)
(* What the callers of storage.rs count on: a JSON file of the             *)
(* configuration directory is one value, and load, modify, save is one     *)
(* indivisible update of it.  Lose is the one failure that write_atomic    *)
(* still has with a single writer: between remove_file and rename the      *)
(* file does not exist, and a process that stops there leaves the next     *)
(* load with the default value.                                            *)
(***************************************************************************)
CONSTANTS
    Default,       \* the value of a file that does not exist
    Requests,      \* what a caller may ask
    Apply(_, _),   \* Apply(r, v): the value r saves when it loads v, or Refused
    Refused,
    Initial        \* the values the file may start with

VARIABLE value

Init == value \in Initial

Update ==
    \E r \in Requests :
        /\ Apply(r, value) # Refused
        /\ value' = Apply(r, value)

Lose == value' = Default

Spec == Init /\ [][Update]_value
===============================================================================
