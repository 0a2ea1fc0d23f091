----------------------------- MODULE StakeLedger -----------------------------
(***************************************************************************)
(* What the arena promises about stakes, with nothing said of rounds,      *)
(* votes, deadlines or requests: a battle is decided once, and in the same *)
(* step the loser pays the winner the stake, or all it has if that is      *)
(* less; a draw moves nothing.  ArenaBattle implements this module         *)
(* (LedgerKept there).                                                     *)
(***************************************************************************)
EXTENDS Integers

CONSTANTS Battles, Agents, Contender, Stake, Opening

VARIABLES outcome, balance

vars == <<outcome, balance>>

Init ==
    /\ outcome = [b \in Battles |-> "open"]
    /\ balance = Opening

Draw(b) ==
    /\ outcome[b] = "open"
    /\ outcome' = [outcome EXCEPT ![b] = "draw"]
    /\ UNCHANGED balance

Win(b, side, rival) ==
    /\ outcome[b] = "open"
    /\ outcome' = [outcome EXCEPT ![b] = side]
    /\ \E amount \in {Stake[b], balance[Contender[b][rival]]} :
         /\ amount <= Stake[b]
         /\ amount <= balance[Contender[b][rival]]
         /\ balance' = [balance EXCEPT ![Contender[b][side]] = @ + amount,
                                       ![Contender[b][rival]] = @ - amount]

Next ==
    \E b \in Battles : Draw(b) \/ Win(b, "A", "B") \/ Win(b, "B", "A")

Spec == Init /\ [][Next]_vars
=============================================================================
