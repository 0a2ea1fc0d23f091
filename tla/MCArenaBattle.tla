---------------------------- MODULE MCArenaBattle ----------------------------
(* ArenaBattle on small sets.  Every battle is between the same two agents, *)
(* who change sides from one battle to the next.                            *)
EXTENDS ArenaBattle

CONSTANTS b1, b2, x, y

MCContender ==
    [b \in Battles |-> IF b = b1 THEN [A |-> x, B |-> y] ELSE [A |-> y, B |-> x]]

\* Stakes that one lost battle makes unaffordable in the next.
MCStake == [b \in Battles |-> IF b = b1 THEN 2 ELSE 3]
MCOpening == [a \in Agents |-> IF a = x THEN 3 ELSE 1]
=============================================================================
