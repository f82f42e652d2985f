------------------------------ MODULE MCJsonFile ------------------------------
(* One file on a small instance: what it holds is a set of items, a request adds
   one or, like a command that is refused, none. *)
EXTENDS JsonFile

CONSTANTS x, y, z, nothing

Items == {x, y, z}

\* Listed, so that TLC can tell whether a model value is one of them.
MCValues == {v : v \in SUBSET Items}

MCRequests == Items \cup {nothing}

MCApply(r, v) == IF r = nothing THEN Refused ELSE v \cup {r}

NewOrSaved == {Missing, {x}}
===============================================================================
