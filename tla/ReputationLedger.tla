--------------------------- MODULE ReputationLedger ---------------------------
(***************************************************************************)
(* The reputation ledger: internal/repository/reputation.go, the Arena's   *)
(* use of it (settleArenaStakeTx in arena.go) and cmd/recalc-reputation.   *)
(*                                                                         *)
(* Every transaction runs under READ COMMITTED: each statement sees what   *)
(* is committed when it starts.  ApplyReputationEventTx reads the score,   *)
(* then sums the last day's gains, then writes the absolute score it       *)
(* computed from those two reads; nothing is locked before that UPDATE.    *)
(* A stake transfer reads the score FOR UPDATE.  The UPDATE and the COMMIT *)
(* of a transaction are one step, since nobody sees the state between them.*)
(* A transaction begins before any of this: the vote it belongs to, or the *)
(* battle it settles, is written first and may wait for rows meanwhile.    *)
(*                                                                         *)
(* Points are whole numbers (the code's are floating point), scaled gains  *)
(* round down, and the clock ticks when a transaction begins, which is the *)
(* time NOW() gives its row, whenever that is written; half a day passes   *)
(* in one step.  All the events the callers pass have a value, so the      *)
(* no-op event is left out.                                                *)
(***************************************************************************)
EXTENDS Integers, Sequences, FiniteSets, FiniteSetsExt, SequencesExt

CONSTANTS
    Participants,
    Writers,      \* transactions open at a time
    Nobody,
    Events,       \* event types
    Base,         \* [Events -> Int \ {0}]: baseEventValue
    Stakes,       \* what a settlement asks for: a positive or a negative delta
    Baseline,     \* ReputationBaseline
    Cap,          \* dailyGainCap
    HalfDay,      \* ticks of the clock in 12 hours
    MaxEvents,    \* bound: rows of a participant's history
    MaxClock      \* bound: the last tick

ASSUME EventAssumption == Base \in [Events -> Int] /\ \A e \in Events : Base[e] # 0
ASSUME PointAssumption == Baseline \in Nat \ {0} /\ Cap \in Nat /\ Stakes \subseteq Int
ASSUME ClockAssumption == HalfDay \in Nat \ {0} /\ MaxClock \in Nat /\ MaxEvents \in Nat
ASSUME NobodyAssumption == Nobody \notin Participants
ASSUME KindAssumption == IsFiniteSet(Events) /\ "stake" \notin Events
ASSUME WriterAssumption == IsFiniteSet(Writers) /\ Writers # {}

Day == 2 * HalfDay

VARIABLES
    score,    \* committed participants.reputation_score
    history,  \* committed reputation_events, in the order they were committed
    clock,
    tx,       \* what each open transaction has read and computed
    crossed,  \* history: a transaction overwrote a score it had not read
    origin    \* history: the score, and the rows behind it, last recalculated

vars == <<score, history, clock, tx, crossed, origin>>

Kinds == Events \cup {"stake"}
Rows == [kind : Kinds, delta : Int, at : 0 .. MaxClock]
Idle == [pc |-> "idle", who |-> Nobody, kind |-> "stake", read |-> 0,
         delta |-> 0, at |-> 0, stale |-> FALSE]
Transactions == [pc : {"idle", "begun", "scored", "capped", "locked", "replayed"},
                 who : Participants \cup {Nobody}, kind : Kinds, read : Nat,
                 delta : Int, at : 0 .. MaxClock, stale : BOOLEAN]

TypeOK ==
    /\ score \in [Participants -> Nat]
    /\ history \in [Participants -> Seq(Rows)]
    /\ \A p \in Participants : Len(history[p]) <= MaxEvents
    /\ clock \in 0 .. MaxClock
    /\ tx \in [Writers -> Transactions]
    /\ crossed \in [Participants -> BOOLEAN]
    /\ origin \in [Participants -> [score : Nat, rows : 0 .. MaxEvents]]

Init ==
    /\ score = [p \in Participants |-> Baseline]
    /\ history = [p \in Participants |-> <<>>]
    /\ clock = 0
    /\ tx = [w \in Writers |-> Idle]
    /\ crossed = [p \in Participants |-> FALSE]
    /\ origin = [p \in Participants |-> [score |-> Baseline, rows |-> 0]]

-----------------------------------------------------------------------------
(* The formula.                                                            *)

\* Mutant: the result is not floored.
Floor_None(points) == points

Floor(points) == Max({0, points})

\* difficultyMultiplier: full gains below the baseline, then fewer and fewer.
Scaled(gain, current) ==
    IF current < Baseline THEN gain
    ELSE (2 * Baseline * gain) \div (current + Baseline)

\* Mutant: the last gain before the cap is not cut to what remains.
Room_Uncut(gain, gained) == IF gained >= Cap THEN 0 ELSE gain

\* What the daily cap leaves of a gain.
Room(gain, gained) == Min({gain, Floor(Cap - gained)})

\* The points of some of the rows.
SumOf(rows, chosen) == MapThenSumSet(LAMBDA i : rows[i].delta, chosen)

\* The gains of the 24 hours before a transaction began, stakes won included.
GainedToday(p, at) ==
    SumOf(history[p], {i \in DOMAIN history[p] : history[p][i].at > at - Day /\ history[p][i].delta > 0})

-----------------------------------------------------------------------------
(* ApplyReputationEventTx, inside the transaction of a vote, an epistemic  *)
(* vote or RecordEvent.                                                    *)

Held(p) == \E w \in Writers : tx[w].pc = "locked" /\ tx[w].who = p

\* Mutant: the settlement reads the score without FOR UPDATE.
RowFree_Always(p) == TRUE

\* Nobody holds the participant's row lock.
RowFree(p) == ~Held(p)

\* Its row will carry this time, however long the statements before the first
\* read of a score wait.
Begin(w) ==
    /\ tx[w].pc = "idle"
    /\ clock < MaxClock
    /\ clock' = clock + 1
    /\ tx' = [tx EXCEPT ![w] = [Idle EXCEPT !.pc = "begun", !.at = clock']]
    /\ UNCHANGED <<score, history, crossed, origin>>

\* A loss needs no second read.
ReadScore(w, p, e) ==
    /\ tx[w].pc = "begun"
    /\ tx' = [tx EXCEPT ![w] =
                 [pc |-> IF Base[e] > 0 THEN "scored" ELSE "capped", who |-> p,
                  kind |-> e, read |-> score[p],
                  delta |-> IF Base[e] > 0 THEN Scaled(Base[e], score[p]) ELSE Base[e],
                  at |-> tx[w].at, stale |-> FALSE]]
    /\ UNCHANGED <<score, history, clock, crossed, origin>>

ReadGains(w) ==
    /\ tx[w].pc = "scored"
    /\ tx' = [tx EXCEPT ![w].pc = "capped",
                        ![w].delta = Room(@, GainedToday(tx[w].who, tx[w].at))]
    /\ UNCHANGED <<score, history, clock, crossed, origin>>

\* The committing writer is done; the others no longer hold a current score.
Committed(w) ==
    [v \in Writers |->
        IF v = w THEN Idle
        ELSE IF tx[v].who = tx[w].who THEN [tx[v] EXCEPT !.stale = TRUE] ELSE tx[v]]

\* Mutant: the history row keeps the canonical value of the event.
EventRow_Canonical(w) == [kind |-> tx[w].kind, delta |-> Base[tx[w].kind], at |-> tx[w].at]

EventRow(w) == [kind |-> tx[w].kind, delta |-> tx[w].delta, at |-> tx[w].at]

CommitEvent(w) ==
    LET p == tx[w].who IN
    /\ tx[w].pc = "capped"
    /\ RowFree(p)
    /\ Len(history[p]) < MaxEvents
    /\ history' = [history EXCEPT ![p] = Append(@, EventRow(w))]
    /\ score' = [score EXCEPT ![p] = Floor(tx[w].read + tx[w].delta)]
    /\ crossed' = [crossed EXCEPT ![p] = @ \/ tx[w].stale]
    /\ tx' = Committed(w)
    /\ UNCHANGED <<clock, origin>>

-----------------------------------------------------------------------------
(* ApplyExactReputationDeltaTx, inside a stake settlement.                 *)

LockScore(w, p, stake) ==
    /\ tx[w].pc = "begun"
    /\ RowFree(p)
    /\ tx' = [tx EXCEPT ![w] =
                 [pc |-> "locked", who |-> p, kind |-> "stake", read |-> score[p],
                  delta |-> Max({stake, -score[p]}), at |-> tx[w].at, stale |-> FALSE]]
    /\ UNCHANGED <<score, history, clock, crossed, origin>>

StakeRow(w) == [kind |-> "stake", delta |-> tx[w].delta, at |-> tx[w].at]

CommitStake(w) ==
    LET p == tx[w].who IN
    /\ tx[w].pc = "locked"
    /\ Len(history[p]) < MaxEvents
    /\ history' = [history EXCEPT ![p] = Append(@, StakeRow(w))]
    /\ score' = [score EXCEPT ![p] = Floor(tx[w].read + tx[w].delta)]
    /\ tx' = Committed(w)
    /\ UNCHANGED <<clock, crossed, origin>>

\* Any transaction may fail before it commits.
Rollback(w) ==
    /\ tx[w].pc # "idle"
    /\ tx' = [tx EXCEPT ![w] = Idle]
    /\ UNCHANGED <<score, history, clock, crossed, origin>>

-----------------------------------------------------------------------------
(* Recalculate: the history is read in one statement, replayed, and the    *)
(* score written by a statement of its own, with no transaction around.    *)

\* Mutant: the gains of the day are forgotten after every row.
ReplayedBefore_Forgets(replay, row) == 0

\* What the replay has already granted on the UTC day of a row.
ReplayedBefore(replay, row) ==
    IF replay.day = row.at \div Day THEN replay.gained ELSE 0

ReplayRow(replay, row) ==
    LET gained == ReplayedBefore(replay, row)
        base == Base[row.kind]
        delta == CASE row.kind = "stake" -> row.delta
                   [] row.kind # "stake" /\ base > 0 ->
                        Room(Scaled(base, replay.score), gained)
                   [] OTHER -> base
    IN [score |-> Floor(replay.score + delta),
        day |-> row.at \div Day,
        gained |-> IF row.kind # "stake" /\ base > 0 THEN gained + delta ELSE gained]

\* ORDER BY created_at ASC: a fold ends with the latest of the rows it is over.
Latest(rows, is) == CHOOSE i \in is : \A j \in is : rows[j].at <= rows[i].at

Replayed(rows) ==
    MapThenFoldSet(LAMBDA row, replay : ReplayRow(replay, row),
                   [score |-> Baseline, day |-> 0, gained |-> 0],
                   LAMBDA i : rows[i], LAMBDA is : Latest(rows, is), DOMAIN rows)

Replay(rows) == Replayed(rows).score

ReadHistory(w, p) ==
    /\ tx[w].pc = "idle"
    /\ tx' = [tx EXCEPT ![w] = [Idle EXCEPT !.pc = "replayed", !.who = p,
                                            !.read = Replay(history[p])]]
    /\ UNCHANGED <<score, history, clock, crossed, origin>>

WriteReplay(w) ==
    LET p == tx[w].who IN
    /\ tx[w].pc = "replayed"
    /\ RowFree(p)
    /\ score' = [score EXCEPT ![p] = tx[w].read]
    /\ crossed' = [crossed EXCEPT ![p] = @ \/ tx[w].stale]
    /\ origin' = [origin EXCEPT ![p] = [score |-> tx[w].read, rows |-> Len(history[p])]]
    /\ tx' = Committed(w)
    /\ UNCHANGED <<history, clock>>

TimePasses ==
    /\ clock + HalfDay <= MaxClock
    /\ clock' = HalfDay * (clock \div HalfDay + 1)
    /\ UNCHANGED <<score, history, tx, crossed, origin>>

Next ==
    \/ \E w \in Writers :
          \/ Begin(w)
          \/ \E p \in Participants :
                \/ \E e \in Events : ReadScore(w, p, e)
                \/ \E stake \in Stakes : LockScore(w, p, stake)
                \/ ReadHistory(w, p)
          \/ ReadGains(w)
          \/ CommitEvent(w)
          \/ CommitStake(w)
          \/ WriteReplay(w)
          \/ Rollback(w)
    \/ TimePasses

Spec == Init /\ [][Next]_vars

-----------------------------------------------------------------------------
(* What must hold.                                                         *)

\* Points after a list of rows, each floored at zero.
Sum(from, rows) ==
    FoldLeft(LAMBDA points, r : IF points + r.delta < 0 THEN 0 ELSE points + r.delta,
             from, rows)

Since(p) == SubSeq(history[p], origin[p].rows + 1, Len(history[p]))

\* A score is what the rows committed since its last recalculation add up to,
\* as long as no transaction of that participant overwrote a score it had not
\* read: serial events, settlements that hold the row lock, and rollbacks keep
\* the two tables in step.
ScoreExplained ==
    \A p \in Participants :
        ~crossed[p] => score[p] = Sum(origin[p].score, Since(p))

\* A settlement's FOR UPDATE works: the score it read is still the committed
\* one, whatever the unlocked writers do, until it commits.
LockedScoreIsCurrent ==
    \A w \in Writers :
        tx[w].pc = "locked" => tx[w].read = score[tx[w].who] /\ ~tx[w].stale

Gained(p) ==
    SumOf(history[p], {i \in DOMAIN history[p] :
                         /\ history[p][i].kind # "stake"
                         /\ history[p][i].at > clock - Day
                         /\ history[p][i].delta > 0})

LargestGain == Max({Base[e] : e \in Events} \cup {0})

\* The daily cap is kept by transactions that do not overlap, and each further
\* transaction open at a time can exceed it by one event and no more.
CapKept ==
    \A p \in Participants :
        /\ ~crossed[p] => Gained(p) <= Cap
        /\ Gained(p) <= Cap + (Cardinality(Writers) - 1) * LargestGain

\* Rows were committed in the order in which their transactions began.
InOrder(rows) == \A i, j \in DOMAIN rows : i < j => rows[i].at < rows[j].at

\* One UTC day, and no stake won.
Plain(rows) ==
    /\ \A i \in DOMAIN rows : rows[i].at \div Day = rows[1].at \div Day
    /\ \A i \in DOMAIN rows : rows[i].kind = "stake" => rows[i].delta <= 0

\* Recalculating is neutral: the replay of a history that no transactions
\* crossed, whose transactions committed in the order in which they began, that
\* lies within one UTC day and in which no stake was won gives the score the
\* events left behind.  (The two computations of the formula are written apart,
\* in ApplyReputationEventTx and in Recalculate.)  Each condition is needed: see
\* ReplayFollowsCommits for the order.
ReplayAgrees ==
    \A p \in Participants :
        ~crossed[p] /\ InOrder(history[p]) /\ Plain(history[p])
            => score[p] = Replay(history[p])

-----------------------------------------------------------------------------
(* What the code says and does not do.                                     *)

\* Does not hold: an overlapping writer discards a delta its history keeps.
\* reputation.go:142: the event and the score are updated "atomically", "so
\* reputation stays consistent with the triggering write".
ScoreMatchesHistory ==
    \A p \in Participants :
        (\A w \in Writers : tx[w].pc = "idle") =>
            score[p] = Sum(origin[p].score, Since(p))

\* Does not hold: Recalculate replays the rows by created_at, the beginning of
\* their transactions, and a transaction that waited before it read the score
\* commits after one that began later.  Neither overwrites anything, and yet the
\* replay scales the gains and floors the losses in the other order.
ReplayFollowsCommits ==
    \A p \in Participants :
        ~crossed[p] /\ Plain(history[p]) => score[p] = Replay(history[p])
=============================================================================
