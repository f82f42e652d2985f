--------------------------------- MODULE Mail ---------------------------------
(***************************************************************************)
(* What chat.rs promises its users about messages, direct or to a group,   *)
(* with every process, file and connection left out: a line appears on the *)
(* screens of those it was typed for, at most once on each, in the order   *)
(* its sender typed the lines, and only between two who have imported each *)
(* other's invites.  Any line may be lost: nothing is acknowledged or      *)
(* retried.                                                                *)
(***************************************************************************)
EXTENDS Naturals, Sequences

CONSTANT Onions

VARIABLES
    typed,    \* typed[m]: for whom m typed its first, second, ... line
    shown,    \* shown[n]: the lines on n's screen, [from, line]
    knows     \* pairs <<n, m>>: n has imported an invite of m

Init ==
    /\ typed = [n \in Onions |-> <<>>]
    /\ shown = [n \in Onions |-> <<>>]
    /\ knows \subseteq Onions \X Onions

Type(m, audience) ==
    /\ typed' = [typed EXCEPT ![m] = Append(@, audience)]
    /\ UNCHANGED <<shown, knows>>

Learn(n, m) ==
    /\ knows' = knows \cup {<<n, m>>}
    /\ UNCHANGED <<typed, shown>>

\* Line i of m comes after every line of m on the screen s.
Later(s, m, i) == \A j \in DOMAIN s : s[j].from = m => s[j].line < i

Show(n, m) ==
    /\ {<<n, m>>, <<m, n>>} \subseteq knows
    /\ \E i \in DOMAIN typed[m] :
        /\ n \in typed[m][i]
        /\ Later(shown[n], m, i)
        /\ shown' = [shown EXCEPT ![n] = Append(@, [from |-> m, line |-> i])]
    /\ UNCHANGED <<typed, knows>>

Next ==
    \/ \E m \in Onions, audience \in SUBSET Onions : Type(m, audience)
    \/ \E n, m \in Onions : Learn(n, m) \/ Show(n, m)

Spec == Init /\ [][Next]_<<typed, shown, knows>>
===============================================================================
