--------------------------- MODULE VoteScoreProofs ---------------------------
(***************************************************************************)
(* Theorems of VoteScore, for any number of voters, remote actors, targets *)
(* and open transactions.                                                  *)
(*                                                                         *)
(* The row locks are predicates on what the open transactions have done.   *)
(* The invariant says that two transactions never hold one row, and what   *)
(* each may rely on while it holds one: the vote it found, the visibility  *)
(* it read, and, for the score, a set of voters outside which it has       *)
(* counted everybody.                                                      *)
(***************************************************************************)
EXTENDS VoteScore, FiniteSetTheorems, TLAPS

\* Statements of a transaction after its count, and after its write.
Stored == {"store", "gate", "credit", "commit"}

\* A vote row, and a target, is held by one transaction at a time.
KeysExclusive ==
    \A w, x \in Writers, t \in Targets, v \in Everybody :
        HoldsVote(w, t, v) /\ HoldsVote(x, t, v) => w = x

TargetsExclusive ==
    \A w, x \in Writers, t \in Targets :
        HoldsTarget(w, t) /\ HoldsTarget(x, t) => w = x

\* The vote a transaction found is the committed one for as long as it holds it.
FoundIsCurrent ==
    \A w \in Writers :
        tx[w].pc \in Stored \cup {"count"} \/ (tx[w].pc = "mutate" /\ tx[w].was # "none")
            => tx[w].was = votes[tx[w].target][tx[w].voter]

\* A sum counts what ballots that differ from the current ones for the missed
\* voters alone add up to.
Counts(sum, ballots, missed) ==
    \E f \in [Everybody -> Ballot] :
        /\ sum = Sum(f)
        /\ \A v \in Everybody \ missed : f[v] = ballots[v]

SeenExplained ==
    \A w \in Writers : tx[w].pc \in Stored => Counts(tx[w].seen, After(w), tx[w].missed)

StoredExplained ==
    \A t \in Targets : Counts(score[t], votes[t], lost[t])

\* A Like holds its target from the start and misses nobody.
LikesMissNobody ==
    \A w \in Writers : tx[w].kind = "like" => tx[w].missed = {}

\* A transaction's path by its kind.
Paths ==
    \A w \in Writers :
        /\ tx[w].pc = "lock" => tx[w].kind = "like"
        /\ tx[w].pc \in {"lookup", "gate", "credit"} => tx[w].kind = "vote"
        /\ tx[w].pc \notin Stored => tx[w].missed = {}
        /\ tx[w].pc \in {"idle", "lookup", "lock"} => tx[w].was = "none"

\* What a vote read of its target's visibility holds until it ends.
VisibilityIsCurrent ==
    \A w \in Writers : tx[w].kind = "vote" =>
        /\ tx[w].pc = "gate" => /\ tx[w].public <=> state[tx[w].target] = "public"
                                /\ Home[tx[w].target] # tx[w].target
        /\ tx[w].pc \in {"credit", "commit"} => (tx[w].public <=> Public(tx[w].target))

LockInv == TypeOK /\ Paths /\ KeysExclusive /\ TargetsExclusive /\ FoundIsCurrent

CountInv == LockInv /\ LikesMissNobody /\ SeenExplained /\ StoredExplained

-----------------------------------------------------------------------------
(* Types.                                                                  *)

LEMMA SumType ==
    ASSUME NEW f
    PROVE  /\ Sum(f) \in Int
           /\ \A d : IsFiniteSet(Given(f, d)) /\ Cardinality(Given(f, d)) \in Nat
<1>1. ASSUME NEW d PROVE IsFiniteSet(Given(f, d)) /\ Cardinality(Given(f, d)) \in Nat
  <2>1. Given(f, d) \subseteq Everybody
    BY DEF Given
  <2>2. IsFiniteSet(Given(f, d))
    BY <2>1, FS_Subset, VoterAssumption
  <2> QED BY <2>2, FS_CardinalityType
<1> QED BY <1>1 DEF Sum

\* A step of one transaction that commits nothing.
Moves(w) ==
    /\ \A x \in Writers \ {w} : tx'[x] = tx[x]
    /\ UNCHANGED <<votes, score, state, announced, lost>>

Begins(w) ==
    \E t \in Targets :
       \/ \E v \in Voters, direction \in Directions : Request(w, t, v, direction)
       \/ \E a \in Actors : RequestLike(w, t, a)

Private(w) ==
    \/ Begins(w) \/ Rollback(w) \/ Lookup(w) \/ LockTarget(w) \/ Mutate(w) \/ InsertLike(w)
    \/ Count(w) \/ Store(w) \/ Gate(w) \/ Credit(w)

Moderation ==
    \E t \in Targets, to \in {"public", "quarantined", "deleted"} : Moderate(t, to)

LEMMA StepKinds ==
    ASSUME [Next]_vars
    PROVE  \/ \E w \in Writers : Private(w)
           \/ \E w \in Writers : Commit(w)
           \/ Moderation
           \/ UNCHANGED vars
BY DEF Next, Statement, Private, Begins, Moderation

\* The row a transaction keeps of itself.
Shaped(row) ==
    /\ row \in Transactions
    /\ row.pc # "idle" =>
         /\ row.target \in Targets
         /\ row.voter \in IF row.kind = "vote" THEN Voters ELSE Actors

LEMMA IdleShaped ==
    Shaped(Idle) /\ Idle.pc = "idle" /\ Idle.kind = "vote" /\ Idle.missed = {}
BY DEF Shaped, Idle, Transactions, Directions, Ballot

LEMMA VoteShaped ==
    ASSUME NEW t \in Targets, NEW v \in Voters, NEW direction \in Directions,
           NEW known \in BOOLEAN
    PROVE  Shaped([Idle EXCEPT !.pc = "lookup", !.target = t, !.voter = v,
                               !.direction = direction, !.known = known])
BY IdleShaped DEF Shaped, Transactions, Everybody

LEMMA LikeShaped ==
    ASSUME NEW t \in Targets, NEW a \in Actors
    PROVE  Shaped([Idle EXCEPT !.pc = "lock", !.kind = "like", !.target = t, !.voter = a])
BY IdleShaped DEF Shaped, Transactions, Everybody

LEMMA PrivateMoves ==
    ASSUME TypeOK, NEW w \in Writers, Private(w)
    PROVE  /\ Moves(w)
           /\ DOMAIN tx' = Writers
           /\ tx' = [tx EXCEPT ![w] = tx'[w]]
           /\ Shaped(tx'[w])
           /\ requests' \in 0 .. MaxRequests
           /\ changes' = changes
<1> USE DEF TypeOK
<1>0. Shaped(tx[w])
  BY DEF Shaped
<1>a. ASSUME tx[w].pc # "idle"
      PROVE  votes[tx[w].target][tx[w].voter] \in Ballot
  <2>1. tx[w].target \in Targets /\ tx[w].voter \in Everybody
    BY <1>a DEF Everybody
  <2> QED BY <2>1
<1>1. CASE Begins(w)
  <2>3. \E row : Shaped(row) /\ tx' = [tx EXCEPT ![w] = row]
    <3>1. CASE \E t \in Targets, v \in Voters, direction \in Directions :
                 Request(w, t, v, direction)
      BY <3>1, VoteShaped DEF Request
    <3>2. CASE \E t \in Targets, a \in Actors : RequestLike(w, t, a)
      BY <3>2, LikeShaped DEF RequestLike
    <3> QED BY <1>1, <3>1, <3>2 DEF Begins
  <2>4. requests < MaxRequests /\ requests' = requests + 1 /\ changes' = changes
    BY <1>1 DEF Begins, Request, RequestLike
  <2>5. UNCHANGED <<votes, score, state, announced, lost>>
    BY <1>1 DEF Begins, Request, RequestLike
  <2>6. requests' \in 0 .. MaxRequests
    BY <2>4, BoundAssumption
  <2> QED BY <2>3, <2>4, <2>5, <2>6 DEF Moves
<1>2. CASE Rollback(w)
  BY <1>2, IdleShaped DEF Rollback, Ended, Reads, Moves
<1>3. CASE Lookup(w)
  BY <1>0, <1>a, <1>3 DEF Lookup, Reads, Moves, Shaped, Transactions
<1>4. CASE LockTarget(w)
  BY <1>0, <1>4, IdleShaped DEF LockTarget, Reads, Moves, Shaped, Transactions
<1>5. CASE Mutate(w)
  BY <1>0, <1>5, IdleShaped DEF Mutate, Ended, Reads, Moves, Shaped, Transactions
<1>6. CASE InsertLike(w)
  BY <1>0, <1>a, <1>6 DEF InsertLike, Reads, Moves, Shaped, Transactions
<1>7. CASE Count(w)
  <2>1. Recount(w) \in Int
    BY SumType DEF Recount
  <2> QED BY <1>0, <1>7, <2>1 DEF Count, Reads, Moves, Shaped, Transactions
<1>8. CASE Store(w)
  BY <1>0, <1>8 DEF Store, Reads, Moves, Shaped, Transactions
<1>9. CASE Gate(w)
  BY <1>0, <1>9 DEF Gate, Reads, Moves, Shaped, Transactions
<1>10. CASE Credit(w)
  BY <1>0, <1>10 DEF Credit, Reads, Moves, Shaped, Transactions
<1> QED
  BY <1>1, <1>2, <1>3, <1>4, <1>5, <1>6, <1>7, <1>8, <1>9, <1>10 DEF Private

LEMMA MutatedType ==
    ASSUME TypeOK, NEW w \in Writers
    PROVE  Mutated(w) \in Ballot
<1>1. tx[w].was \in Ballot /\ tx[w].direction \in Directions
  BY DEF TypeOK, Transactions
<1> QED BY <1>1 DEF Mutated, Toggled, Ballot, Directions

LEMMA AfterType ==
    ASSUME TypeOK, NEW w \in Writers, tx[w].pc # "idle"
    PROVE  After(w) \in [Everybody -> Ballot]
<1>1. tx[w].target \in Targets
  BY DEF TypeOK
<1>2. votes[tx[w].target] \in [Everybody -> Ballot]
  BY <1>1 DEF TypeOK
<1> QED BY <1>2, MutatedType DEF After

LEMMA TypePrivate ==
    ASSUME TypeOK, NEW w \in Writers, Private(w)
    PROVE  TypeOK'
<1>1. /\ UNCHANGED <<votes, score, state, announced, lost, changes>>
      /\ requests' \in 0 .. MaxRequests
      /\ tx' = [tx EXCEPT ![w] = tx'[w]]
      /\ Shaped(tx'[w])
  BY PrivateMoves DEF Moves
<1>2. \A x \in Writers : Shaped(tx'[x])
  BY <1>1 DEF TypeOK, Shaped
<1>3. DOMAIN tx' = Writers /\ tx' = [x \in Writers |-> tx'[x]]
  BY <1>1 DEF TypeOK
<1>4. tx' \in [Writers -> Transactions]
  BY <1>2, <1>3 DEF Shaped
<1> QED BY <1>1, <1>2, <1>4 DEF TypeOK, Shaped

LEMMA TypeCommit ==
    ASSUME TypeOK, NEW w \in Writers, Commit(w)
    PROVE  TypeOK'
<1> DEFINE t == tx[w].target
           v == tx[w].voter
<1>1. t \in Targets /\ v \in Everybody
  BY DEF Commit, TypeOK, Everybody
<1>2. votes' \in [Targets -> [Everybody -> Ballot]]
  <2>1. votes' = [votes EXCEPT ![t][v] = Mutated(w)]
    BY DEF Commit
  <2> QED BY <1>1, <2>1, MutatedType DEF TypeOK
<1>3. score' \in [Targets -> Int]
  <2>1. tx[w].seen \in Int
    BY DEF TypeOK, Transactions
  <2> QED BY <2>1 DEF Commit, TypeOK
<1>4. \A x \in Writers : Shaped(tx'[x])
  <2> TAKE x \in Writers
  <2>1. CASE x = w
    BY <2>1, IdleShaped DEF Commit, Committed
  <2>2. CASE x # w /\ tx'[x] = tx[x]
    BY <2>2 DEF TypeOK, Shaped
  <2>3. CASE x # w /\ tx'[x] = [tx[x] EXCEPT !.missed = @ \cup {v}]
    <3>1. Shaped(tx[x])
      BY DEF TypeOK, Shaped
    <3> QED BY <1>1, <2>3, <3>1 DEF Shaped, Transactions
  <2> QED BY <2>1, <2>2, <2>3 DEF Commit, Committed
<1>5. tx' \in [Writers -> Transactions]
  <2>1. tx' = [x \in Writers |-> tx'[x]]
    BY DEF Commit, Committed
  <2> QED BY <1>4, <2>1 DEF Shaped
<1>6. lost' \in [Targets -> SUBSET Everybody]
  <2>1. tx[w].missed \in SUBSET Everybody
    BY DEF TypeOK, Transactions
  <2> QED BY <2>1 DEF Commit, TypeOK
<1>7. announced' \in [Targets -> [Voters -> Nat]]
  <2>1. CASE Announces(w)
    <3>1. v \in Voters
      BY <2>1 DEF Announces, Rewards, Commit, TypeOK
    <3>2. announced' = [announced EXCEPT ![t][v] = @ + 1]
      BY <2>1 DEF Commit
    <3> QED BY <1>1, <3>1, <3>2 DEF TypeOK
  <2>2. CASE ~Announces(w)
    BY <2>2 DEF Commit, TypeOK
  <2> QED BY <2>1, <2>2
<1>8. UNCHANGED <<state, requests, changes>>
  BY DEF Commit
<1> QED BY <1>2, <1>3, <1>4, <1>5, <1>6, <1>7, <1>8 DEF TypeOK, Shaped

LEMMA TypeModeration ==
    ASSUME TypeOK, Moderation
    PROVE  TypeOK'
<1>1. PICK t \in Targets, to \in {"public", "quarantined", "deleted"} : Moderate(t, to)
  BY DEF Moderation
<1>2. changes' \in 0 .. MaxChanges
  BY <1>1, BoundAssumption DEF Moderate, TypeOK
<1>3. state' \in [Targets -> {"public", "quarantined", "deleted"}]
  BY <1>1 DEF Moderate, TypeOK
<1> QED BY <1>1, <1>2, <1>3 DEF Moderate, TypeOK

LEMMA TypeInit == ASSUME Init PROVE TypeOK
<1>1. \A w \in Writers : tx[w] \in Transactions /\ tx[w].pc = "idle"
  BY IdleShaped DEF Init, Shaped
<1>2. tx \in [Writers -> Transactions]
  BY <1>1 DEF Init
<1>3. votes \in [Targets -> [Everybody -> Ballot]]
  BY DEF Init, Ballot
<1>4. requests \in 0 .. MaxRequests /\ changes \in 0 .. MaxChanges
  BY BoundAssumption DEF Init
<1> QED BY <1>1, <1>2, <1>3, <1>4 DEF Init, TypeOK

\* Every reachable state is well typed: an open transaction has a target and a
\* voter of its kind, and a stored score is a number (repository/vote.go).
THEOREM TypeCorrect == Spec => []TypeOK
<1>1. TypeOK /\ [Next]_vars => TypeOK'
  <2> SUFFICES ASSUME TypeOK, [Next]_vars PROVE TypeOK'
    OBVIOUS
  <2>1. CASE UNCHANGED vars
    BY <2>1 DEF vars, TypeOK
  <2> QED BY <2>1, StepKinds, TypePrivate, TypeCommit, TypeModeration
<1> QED BY <1>1, TypeInit, PTL DEF Spec

-----------------------------------------------------------------------------
(* What each statement makes of its transaction's row.                     *)

Goes(w, from, to) == tx[w].pc = from /\ tx'[w].pc = to

Keeps(w) ==
    /\ tx'[w].kind = tx[w].kind
    /\ tx'[w].target = tx[w].target
    /\ tx'[w].voter = tx[w].voter
    /\ tx'[w].direction = tx[w].direction
    /\ tx'[w].known = tx[w].known
    /\ tx'[w].missed = tx[w].missed

KeepsFound(w) == Keeps(w) /\ tx'[w].was = tx[w].was

KeepsSeen(w) == KeepsFound(w) /\ tx'[w].seen = tx[w].seen

Began(w) ==
    /\ tx[w].pc = "idle"
    /\ \/ tx'[w].pc = "lookup" /\ tx'[w].kind = "vote"
       \/ tx'[w].pc = "lock" /\ tx'[w].kind = "like"
    /\ tx'[w].was = "none"
    /\ tx'[w].missed = {}

Quit(w) == tx[w].pc # "commit" /\ tx'[w] = Idle

Own(w) == votes[tx[w].target][tx[w].voter]

VoteFree(w, t, v) == \A x \in Writers \ {w} : ~HoldsVote(x, t, v)

Writable(w, t) == \A x \in Writers \ {w} : ~HoldsTarget(x, t) /\ ~SharesPost(x, t)

OwnFree(w) == VoteFree(w, tx[w].target, tx[w].voter)

\* What a statement needs is free when it proceeds.
LEMMA ProceedsFreely ==
    ASSUME NEW w \in Writers, Proceeds(w)
    PROVE  /\ tx[w].pc = "lookup" /\ Own(w) # "none" => OwnFree(w)
           /\ tx[w].pc = "mutate" /\ (tx[w].kind = "vote" => tx[w].was = "none") => OwnFree(w)
           /\ tx[w].pc \in {"lock", "store"} => Writable(w, tx[w].target)
BY DEF Proceeds, WaitsFor, WaitsForVote, WaitsForTarget, Own, OwnFree, VoteFree, Writable

LookedUp(w) ==
    /\ Goes(w, "lookup", "mutate")
    /\ Keeps(w)
    /\ tx'[w].was = Own(w)
    /\ Own(w) # "none" => OwnFree(w)

Locked(w) ==
    Goes(w, "lock", "mutate") /\ KeepsFound(w) /\ Writable(w, tx[w].target)

Changed(w) ==
    /\ Goes(w, "mutate", "count")
    /\ Keeps(w)
    /\ tx'[w].was = Own(w) \/ (tx[w].was # "none" /\ tx'[w].was = tx[w].was)
    /\ OwnFree(w) \/ tx[w].was # "none"

Counted(w) ==
    Goes(w, "count", "store") /\ KeepsFound(w) /\ tx'[w].seen = Sum(After(w))

Wrote(w) ==
    LET t == tx[w].target IN
    /\ tx[w].pc = "store"
    /\ tx'[w].pc = IF tx[w].kind = "like" THEN "commit"
                   ELSE IF Home[t] = t THEN "credit" ELSE "gate"
    /\ KeepsSeen(w)
    /\ Writable(w, t)
    /\ tx'[w].public <=> state[t] = "public"

Gated(w) ==
    /\ Goes(w, "gate", "credit")
    /\ KeepsSeen(w)
    /\ tx'[w].public <=> tx[w].public /\ state[Home[tx[w].target]] = "public"

Credited(w) ==
    Goes(w, "credit", "commit") /\ KeepsSeen(w) /\ (tx'[w].public <=> tx[w].public)

RowMoves(w) ==
    \/ Began(w) \/ Quit(w) \/ LookedUp(w) \/ Locked(w) \/ Changed(w) \/ Counted(w)
    \/ Wrote(w) \/ Gated(w) \/ Credited(w)

LEMMA Rows ==
    ASSUME TypeOK, NEW w \in Writers, Private(w)
    PROVE  RowMoves(w)
<1> DEFINE r == tx[w]
<1>1. /\ tx \in [Writers -> Transactions]
      /\ r \in Transactions
  BY DEF TypeOK
<1>2. CASE Begins(w)
  <2>1. Idle \in Transactions /\ Idle.kind = "vote" /\ Idle.was = "none" /\ Idle.missed = {}
    BY IdleShaped DEF Shaped, Idle
  <2>2. ASSUME NEW t \in Targets, NEW v \in Voters, NEW direction \in Directions,
               Request(w, t, v, direction)
        PROVE  Began(w)
    BY <1>1, <2>1, <2>2 DEF Request, Began, Transactions
  <2>3. ASSUME NEW t \in Targets, NEW a \in Actors, RequestLike(w, t, a)
        PROVE  Began(w)
    BY <1>1, <2>1, <2>3 DEF RequestLike, Began, Transactions
  <2> QED BY <1>2, <2>2, <2>3 DEF Begins, RowMoves
<1>3. CASE Rollback(w)
  BY <1>1, <1>3 DEF Rollback, Ended, Quit, RowMoves
<1>4. CASE Lookup(w)
  <2>1. LookedUp(w)
    BY <1>1, <1>4, ProceedsFreely DEF Lookup, LookedUp, Goes, Keeps, Own, OwnFree, Transactions
  <2> QED BY <2>1 DEF RowMoves
<1>5. CASE LockTarget(w)
  <2>1. CASE state[r.target] = "deleted"
    BY <1>1, <1>5, <2>1 DEF LockTarget, Quit, RowMoves
  <2>2. CASE state[r.target] # "deleted"
    <3>1. Locked(w)
      BY <1>1, <1>5, <2>2, ProceedsFreely DEF LockTarget, Locked, Goes, KeepsFound, Keeps, Transactions
    <3> QED BY <3>1 DEF RowMoves
  <2> QED BY <2>1, <2>2
<1>6. CASE Mutate(w)
  <2>1. CASE r.was = "none" /\ Own(w) # "none"
    BY <1>1, <1>6, <2>1 DEF Mutate, Ended, Own, Quit, RowMoves
  <2>2. CASE ~(r.was = "none" /\ Own(w) # "none")
    <3>1. tx' = [tx EXCEPT ![w].pc = "count"] /\ r.pc = "mutate"
          /\ (r.was = "none" => OwnFree(w))
      BY <1>6, <2>2, ProceedsFreely DEF Mutate, Own
    <3>2. Changed(w)
      BY <1>1, <2>2, <3>1 DEF Changed, Goes, Keeps, Transactions
    <3> QED BY <3>2 DEF RowMoves
  <2> QED BY <2>1, <2>2
<1>7. CASE InsertLike(w)
  <2>1. Changed(w)
    BY <1>1, <1>7, ProceedsFreely DEF InsertLike, Changed, Own, Goes, Keeps, Transactions
  <2> QED BY <2>1 DEF RowMoves
<1>8. CASE Count(w)
  <2>1. Counted(w)
    BY <1>1, <1>8 DEF Count, Recount, Counted, Goes, KeepsFound, Keeps, Transactions
  <2> QED BY <2>1 DEF RowMoves
<1>9. CASE Store(w)
  <2>1. Wrote(w)
    BY <1>1, <1>9, ProceedsFreely DEF Store, Wrote, KeepsSeen, KeepsFound, Keeps, Transactions
  <2> QED BY <2>1 DEF RowMoves
<1>10. CASE Gate(w)
  <2>1. Gated(w)
    BY <1>1, <1>10 DEF Gate, Gated, Goes, KeepsSeen, KeepsFound, Keeps, Transactions
  <2> QED BY <2>1 DEF RowMoves
<1>11. CASE Credit(w)
  <2>1. Credited(w)
    BY <1>1, <1>11 DEF Credit, Credited, Goes, KeepsSeen, KeepsFound, Keeps, Transactions
  <2> QED BY <2>1 DEF RowMoves
<1> QED
  BY <1>2, <1>3, <1>4, <1>5, <1>6, <1>7, <1>8, <1>9, <1>10, <1>11 DEF Private

-----------------------------------------------------------------------------
(* Locks.                                                                  *)

\* A row a statement takes was free, or already its transaction's own.
LEMMA TakesFreeVotes ==
    ASSUME TypeOK, Paths, NEW w \in Writers, Private(w), NEW t, NEW v, HoldsVote(w, t, v)'
    PROVE  HoldsVote(w, t, v) \/ VoteFree(w, t, v)
<1>1. RowMoves(w)
  BY Rows
<1>2. CASE Began(w) \/ Quit(w)
  BY <1>2, IdleShaped DEF Began, Quit, HoldsVote
<1>3. CASE LookedUp(w)
  BY <1>3 DEF LookedUp, Goes, Keeps, OwnFree, HoldsVote
<1>4. CASE Locked(w)
  BY <1>4 DEF Locked, Goes, KeepsFound, HoldsVote, Paths
<1>5. CASE Changed(w)
  BY <1>5 DEF Changed, Goes, Keeps, OwnFree, HoldsVote
<1>6. CASE Counted(w) \/ Wrote(w) \/ Gated(w) \/ Credited(w)
  BY <1>6 DEF Counted, Wrote, Gated, Credited, Goes, KeepsSeen, KeepsFound, Keeps, HoldsVote
<1> QED BY <1>1, <1>2, <1>3, <1>4, <1>5, <1>6 DEF RowMoves

LEMMA TakesFreeTargets ==
    ASSUME TypeOK, Paths, NEW w \in Writers, Private(w), NEW t, HoldsTarget(w, t)'
    PROVE  HoldsTarget(w, t) \/ Writable(w, t)
<1>1. RowMoves(w)
  BY Rows
<1>2. CASE Began(w) \/ Quit(w)
  BY <1>2, IdleShaped DEF Began, Quit, HoldsTarget, LockedByLike
<1>3. CASE LookedUp(w)
  BY <1>3 DEF LookedUp, Goes, Keeps, HoldsTarget, LockedByLike, Paths
<1>4. CASE Locked(w)
  BY <1>4 DEF Locked, Goes, KeepsFound, Keeps, HoldsTarget, LockedByLike
<1>5. CASE Changed(w) \/ Counted(w)
  BY <1>5 DEF Changed, Counted, Goes, KeepsFound, Keeps, HoldsTarget, LockedByLike
<1>6. CASE Wrote(w)
  BY <1>6 DEF Wrote, KeepsSeen, KeepsFound, Keeps, HoldsTarget, LockedByLike
<1>7. CASE Gated(w) \/ Credited(w)
  BY <1>7 DEF Gated, Credited, Goes, KeepsSeen, KeepsFound, Keeps, HoldsTarget, LockedByLike
<1> QED BY <1>1, <1>2, <1>3, <1>4, <1>5, <1>6, <1>7 DEF RowMoves

\* What a commit leaves the other transactions: all they hold.
LEMMA CommitReleases ==
    ASSUME TypeOK, NEW w \in Writers, Commit(w)
    PROVE  /\ tx'[w] = Idle
           /\ \A x \in Writers \ {w} :
                /\ tx'[x].pc = tx[x].pc
                /\ tx'[x].kind = tx[x].kind
                /\ tx'[x].target = tx[x].target
                /\ tx'[x].voter = tx[x].voter
                /\ tx'[x].direction = tx[x].direction
                /\ tx'[x].was = tx[x].was
                /\ tx'[x].seen = tx[x].seen
                /\ tx'[x].public = tx[x].public
                /\ tx'[x].missed = IF tx[x].pc = "store" /\ tx[x].target = tx[w].target
                                   THEN tx[x].missed \cup {tx[w].voter} ELSE tx[x].missed
<1>1. tx' = Committed(w)
  BY DEF Commit
<1>2. tx'[w] = Idle
  BY <1>1 DEF Committed
<1>3. ASSUME NEW x \in Writers \ {w}
      PROVE  tx'[x] = IF tx[x].pc = "store" /\ tx[x].target = tx[w].target
                      THEN [tx[x] EXCEPT !.missed = @ \cup {tx[w].voter}] ELSE tx[x]
  BY <1>1 DEF Committed
<1>4. \A x \in Writers : tx[x] \in Transactions
  BY DEF TypeOK
<1> QED BY <1>2, <1>3, <1>4 DEF Transactions

LEMMA PathsStep ==
    ASSUME TypeOK, Paths, [Next]_vars
    PROVE  Paths'
<1> SUFFICES ASSUME NEW w \in Writers
             PROVE  /\ tx'[w].pc = "lock" => tx'[w].kind = "like"
                    /\ tx'[w].pc \in {"lookup", "gate", "credit"} => tx'[w].kind = "vote"
                    /\ tx'[w].pc \notin Stored => tx'[w].missed = {}
                    /\ tx'[w].pc \in {"idle", "lookup", "lock"} => tx'[w].was = "none"
  BY DEF Paths
<1>1. /\ Idle.was = "none" /\ Idle.pc = "idle" /\ Idle.missed = {}
      /\ tx[w].kind \in {"vote", "like"}
  BY DEF Idle, TypeOK, Transactions
<1>2. CASE Private(w)
  <2>1. RowMoves(w)
    BY <1>2, Rows
  <2>2. CASE Began(w) \/ Quit(w)
    BY <1>1, <2>2 DEF Began, Quit
  <2>3. CASE LookedUp(w) \/ Locked(w) \/ Changed(w)
    BY <2>3 DEF LookedUp, Locked, Changed, Goes, KeepsFound, Keeps, Paths, Stored
  <2>4. CASE Counted(w) \/ Gated(w) \/ Credited(w)
    BY <2>4 DEF Counted, Gated, Credited, Goes, KeepsSeen, KeepsFound, Keeps, Paths, Stored
  <2>5. CASE Wrote(w)
    BY <1>1, <2>5 DEF Wrote, KeepsSeen, KeepsFound, Keeps, Paths, Stored
  <2> QED BY <2>1, <2>2, <2>3, <2>4, <2>5 DEF RowMoves
<1>3. CASE tx'[w] = tx[w]
  BY <1>3 DEF Paths
<1>4. ASSUME NEW x \in Writers, Private(x) PROVE x = w \/ tx'[w] = tx[w]
  BY <1>4, PrivateMoves DEF Moves
<1>5. ASSUME NEW x \in Writers, Commit(x)
      PROVE  \/ tx'[w] = Idle
             \/ /\ tx'[w].pc = tx[w].pc /\ tx'[w].kind = tx[w].kind /\ tx'[w].was = tx[w].was
                /\ tx[w].pc = "store" \/ tx'[w].missed = tx[w].missed
  BY <1>5, CommitReleases
<1>6. CASE \E x \in Writers : Commit(x)
  BY <1>1, <1>5, <1>6 DEF Paths, Stored
<1>7. CASE Moderation \/ UNCHANGED vars
  BY <1>3, <1>7 DEF Moderation, Moderate, vars
<1> QED
  BY <1>2, <1>3, <1>4, <1>6, <1>7, StepKinds

LEMMA KeysExclusiveStep ==
    ASSUME TypeOK, Paths, KeysExclusive, [Next]_vars
    PROVE  KeysExclusive'
<1> SUFFICES ASSUME NEW w \in Writers, NEW x \in Writers, NEW t \in Targets, NEW v \in Everybody,
                    HoldsVote(w, t, v)', HoldsVote(x, t, v)', w # x
             PROVE  FALSE
  BY DEF KeysExclusive
<1>1. ASSUME NEW y \in Writers, NEW z \in Writers \ {y}, Private(y), HoldsVote(z, t, v)'
      PROVE  HoldsVote(z, t, v)
  BY <1>1, PrivateMoves DEF Moves, HoldsVote
<1>2. ASSUME NEW y \in Writers, NEW z \in Writers \ {y}, Private(y),
             HoldsVote(y, t, v)', HoldsVote(z, t, v)'
      PROVE  FALSE
  BY <1>1, <1>2, TakesFreeVotes DEF VoteFree, KeysExclusive
<1>3. ASSUME NEW y \in Writers, Private(y) PROVE FALSE
  <2>1. CASE y = w \/ y = x
    BY <1>2, <1>3, <2>1
  <2>2. CASE y # w /\ y # x
    BY <1>1, <1>3, <2>2 DEF KeysExclusive
  <2> QED BY <2>1, <2>2
<1>4. ASSUME NEW y \in Writers, Commit(y), NEW z \in Writers, HoldsVote(z, t, v)'
      PROVE  HoldsVote(z, t, v)
  BY <1>4, CommitReleases, IdleShaped DEF HoldsVote
<1>5. CASE Moderation \/ UNCHANGED vars
  BY <1>5 DEF Moderation, Moderate, vars, HoldsVote, KeysExclusive
<1> QED BY <1>3, <1>4, <1>5, StepKinds DEF KeysExclusive

LEMMA TargetsExclusiveStep ==
    ASSUME TypeOK, Paths, TargetsExclusive, [Next]_vars
    PROVE  TargetsExclusive'
<1> SUFFICES ASSUME NEW w \in Writers, NEW x \in Writers, NEW t \in Targets,
                    HoldsTarget(w, t)', HoldsTarget(x, t)', w # x
             PROVE  FALSE
  BY DEF TargetsExclusive
<1>1. ASSUME NEW y \in Writers, NEW z \in Writers \ {y}, Private(y), HoldsTarget(z, t)'
      PROVE  HoldsTarget(z, t)
  BY <1>1, PrivateMoves DEF Moves, HoldsTarget, LockedByLike
<1>2. ASSUME NEW y \in Writers, NEW z \in Writers \ {y}, Private(y),
             HoldsTarget(y, t)', HoldsTarget(z, t)'
      PROVE  FALSE
  BY <1>1, <1>2, TakesFreeTargets DEF Writable, TargetsExclusive
<1>3. ASSUME NEW y \in Writers, Private(y) PROVE FALSE
  <2>1. CASE y = w \/ y = x
    BY <1>2, <1>3, <2>1
  <2>2. CASE y # w /\ y # x
    BY <1>1, <1>3, <2>2 DEF TargetsExclusive
  <2> QED BY <2>1, <2>2
<1>4. ASSUME NEW y \in Writers, Commit(y), NEW z \in Writers, HoldsTarget(z, t)'
      PROVE  HoldsTarget(z, t)
  BY <1>4, CommitReleases, IdleShaped DEF HoldsTarget, LockedByLike
<1>5. CASE Moderation \/ UNCHANGED vars
  BY <1>5 DEF Moderation, Moderate, vars, HoldsTarget, LockedByLike, TargetsExclusive
<1> QED BY <1>3, <1>4, <1>5, StepKinds DEF TargetsExclusive

\* A commit changes one vote, whose row its transaction holds.
LEMMA CommitWrites ==
    ASSUME TypeOK, NEW w \in Writers, Commit(w)
    PROVE  /\ tx[w].target \in Targets /\ tx[w].voter \in Everybody
           /\ HoldsVote(w, tx[w].target, tx[w].voter)
           /\ HoldsTarget(w, tx[w].target)
           /\ votes'[tx[w].target] = After(w)
           /\ score'[tx[w].target] = tx[w].seen
           /\ lost'[tx[w].target] = tx[w].missed
           /\ \A t \in Targets : t # tx[w].target =>
                votes'[t] = votes[t] /\ score'[t] = score[t] /\ lost'[t] = lost[t]
           /\ \A t \in Targets, v \in Everybody :
                t # tx[w].target \/ v # tx[w].voter => votes'[t][v] = votes[t][v]
<1>1. tx[w].pc = "commit" /\ tx[w].target \in Targets /\ tx[w].voter \in Everybody
  BY DEF Commit, TypeOK, Everybody
<1>2. HoldsVote(w, tx[w].target, tx[w].voter) /\ HoldsTarget(w, tx[w].target)
  BY <1>1 DEF HoldsVote, HoldsTarget
<1>3. votes \in [Targets -> [Everybody -> Ballot]]
  BY DEF TypeOK
<1>4. votes' = [votes EXCEPT ![tx[w].target][tx[w].voter] = Mutated(w)]
  BY DEF Commit
<1>5. votes'[tx[w].target] = After(w)
  BY <1>1, <1>3, <1>4 DEF After
<1>6. \A t \in Targets : t # tx[w].target => votes'[t] = votes[t]
  BY <1>1, <1>3, <1>4
<1>7. \A v \in Everybody : v # tx[w].voter => votes'[tx[w].target][v] = votes[tx[w].target][v]
  BY <1>1, <1>3, <1>5 DEF After
<1>8. /\ score'[tx[w].target] = tx[w].seen
      /\ lost'[tx[w].target] = tx[w].missed
      /\ \A t \in Targets : t # tx[w].target => score'[t] = score[t] /\ lost'[t] = lost[t]
  BY <1>1 DEF Commit, TypeOK
<1> QED BY <1>1, <1>2, <1>5, <1>6, <1>7, <1>8

LEMMA FoundIsCurrentStep ==
    ASSUME TypeOK, Paths, KeysExclusive, FoundIsCurrent, [Next]_vars
    PROVE  FoundIsCurrent'
<1> DEFINE Found(r) == r.pc \in Stored \cup {"count"} \/ (r.pc = "mutate" /\ r.was # "none")
<1> SUFFICES ASSUME NEW w \in Writers, Found(tx'[w])
             PROVE  tx'[w].was = votes'[tx'[w].target][tx'[w].voter]
  BY DEF FoundIsCurrent
<1>1. CASE Private(w)
  <2>1. RowMoves(w) /\ votes' = votes
    BY <1>1, Rows, PrivateMoves DEF Moves
  <2>2. CASE Began(w) \/ Quit(w)
    BY <2>2, IdleShaped DEF Began, Quit, Stored
  <2>3. CASE LookedUp(w) \/ Locked(w)
    BY <2>1, <2>3 DEF LookedUp, Locked, Goes, KeepsFound, Keeps, Own, Stored, Paths
  <2>4. CASE Changed(w)
    BY <2>1, <2>4 DEF Changed, Goes, Keeps, Own, Stored, FoundIsCurrent
  <2>5. CASE Counted(w) \/ Wrote(w) \/ Gated(w) \/ Credited(w)
    BY <2>1, <2>5 DEF Counted, Wrote, Gated, Credited, Goes, KeepsSeen, KeepsFound, Keeps,
                      Stored, FoundIsCurrent
  <2> QED BY <2>1, <2>2, <2>3, <2>4, <2>5 DEF RowMoves
<1>2. CASE tx'[w] = tx[w] /\ votes' = votes
  BY <1>2 DEF FoundIsCurrent
<1>3. ASSUME NEW x \in Writers, Private(x) PROVE x = w \/ (tx'[w] = tx[w] /\ votes' = votes)
  BY <1>3, PrivateMoves DEF Moves
<1>4. ASSUME NEW x \in Writers, Commit(x)
      PROVE  tx'[w].was = votes'[tx'[w].target][tx'[w].voter]
  <2>1. x # w
    BY <1>4, CommitReleases, IdleShaped DEF Stored
  <2>2. /\ tx'[w].pc = tx[w].pc /\ tx'[w].target = tx[w].target
        /\ tx'[w].voter = tx[w].voter /\ tx'[w].was = tx[w].was
    <3> HIDE DEF Found
    <3>1. w \in Writers \ {x}
      BY <2>1
    <3> QED BY <1>4, <3>1, CommitReleases
  <2>3. tx[w].was = votes[tx[w].target][tx[w].voter]
    <3>1. tx[w].pc \in Stored \cup {"count"} \/ (tx[w].pc = "mutate" /\ tx[w].was # "none")
      BY <2>2
    <3> QED BY <3>1 DEF FoundIsCurrent
  <2>4. tx[w].target \in Targets /\ tx[w].voter \in Everybody
    BY <2>2 DEF TypeOK, Stored, Everybody
  <2>5. HoldsVote(w, tx[w].target, tx[w].voter)
    BY <2>2 DEF HoldsVote, Stored
  <2>6. tx[w].target # tx[x].target \/ tx[w].voter # tx[x].voter
    BY <1>4, <2>1, <2>4, <2>5, CommitWrites DEF KeysExclusive
  <2> QED BY <1>4, <2>2, <2>3, <2>4, <2>6, CommitWrites
<1>5. CASE Moderation \/ UNCHANGED vars
  BY <1>2, <1>5 DEF Moderation, Moderate, vars
<1> QED BY <1>1, <1>2, <1>3, <1>4, <1>5, StepKinds

LEMMA LockInvStep ==
    ASSUME LockInv, [Next]_vars
    PROVE  LockInv'
<1>1. TypeOK'
  <2>1. CASE UNCHANGED vars
    BY <2>1 DEF vars, TypeOK, LockInv
  <2> QED BY <2>1, StepKinds, TypePrivate, TypeCommit, TypeModeration DEF LockInv
<1> QED
  BY <1>1, PathsStep, KeysExclusiveStep, TargetsExclusiveStep, FoundIsCurrentStep DEF LockInv

LEMMA LockInvInit == ASSUME Init PROVE LockInv
<1>1. \A w \in Writers : tx[w] = Idle
  BY DEF Init
<1>2. Idle.pc = "idle" /\ Idle.was = "none" /\ Idle.missed = {}
  BY DEF Idle
<1>3. Paths
  BY <1>1, <1>2 DEF Paths
<1>4. KeysExclusive /\ TargetsExclusive
  BY <1>1, <1>2 DEF KeysExclusive, TargetsExclusive, HoldsVote, HoldsTarget, LockedByLike
<1>5. FoundIsCurrent
  BY <1>1, <1>2 DEF FoundIsCurrent, Stored
<1> QED BY <1>3, <1>4, <1>5, TypeInit DEF LockInv

\* Only its own commit ends a transaction that is ready to commit.
LEMMA CommitsByCommit ==
    ASSUME TypeOK, [Next]_vars, NEW w \in Writers, Commits(w)
    PROVE  Commit(w)
<1>1. tx[w].pc = "commit" /\ tx'[w].pc = "idle"
  BY IdleShaped DEF Commits
<1>2. ~Private(w)
  BY <1>1, Rows DEF RowMoves, Began, Quit, LookedUp, Locked, Changed, Counted, Wrote, Gated,
                    Credited, Goes
<1>3. ASSUME NEW x \in Writers, Private(x) PROVE x = w
  BY <1>1, <1>3, PrivateMoves DEF Moves
<1>4. ASSUME NEW x \in Writers, Commit(x) PROVE x = w
  BY <1>1, <1>4, CommitReleases
<1>5. ~(Moderation \/ UNCHANGED vars)
  BY <1>1 DEF Moderation, Moderate, vars
<1> QED BY <1>2, <1>3, <1>4, <1>5, StepKinds

LEMMA CommitToggles ==
    ASSUME LockInv, [Next]_vars, NEW w \in Writers, Commits(w), tx[w].kind = "vote"
    PROVE  votes'[tx[w].target][tx[w].voter]
             = Toggled(votes[tx[w].target][tx[w].voter], tx[w].direction)
<1>1. Commit(w) /\ tx[w].pc = "commit"
  BY CommitsByCommit DEF Commits, LockInv
<1>2. tx[w].was = votes[tx[w].target][tx[w].voter]
  BY <1>1 DEF LockInv, FoundIsCurrent, Stored
<1>3. votes[tx[w].target] \in [Everybody -> Ballot] /\ tx[w].voter \in Everybody
  BY <1>1, CommitWrites DEF LockInv, TypeOK
<1>4. votes'[tx[w].target][tx[w].voter] = Mutated(w)
  BY <1>1, <1>3, CommitWrites DEF LockInv, After
<1> QED BY <1>2, <1>4 DEF Mutated

\* Overlapping clicks of one voter on one target act one after the other: each
\* that commits toggles the vote committed before it (vote.go, FOR UPDATE on the
\* vote row and the unique key of votes).
THEOREM ClicksSerial == Spec => ClicksAreSerial
<1>1. LockInv /\ [Next]_vars =>
        \A w \in Writers : Commits(w) /\ tx[w].kind = "vote" =>
          LET t == tx[w].target
              v == tx[w].voter
          IN  votes'[t][v] = Toggled(votes[t][v], tx[w].direction)
  BY CommitToggles
<1> QED BY <1>1, LockInvInit, LockInvStep, PTL DEF Spec, ClicksAreSerial

-----------------------------------------------------------------------------
(* Visibility.                                                             *)

LEMMA VisibilityStep ==
    ASSUME LockInv, VisibilityIsCurrent, [Next]_vars
    PROVE  VisibilityIsCurrent'
<1> SUFFICES ASSUME NEW w \in Writers, tx'[w].kind = "vote"
             PROVE  /\ tx'[w].pc = "gate" =>
                         /\ tx'[w].public <=> state'[tx'[w].target] = "public"
                         /\ Home[tx'[w].target] # tx'[w].target
                    /\ tx'[w].pc \in {"credit", "commit"} =>
                         (tx'[w].public <=> /\ state'[tx'[w].target] = "public"
                                            /\ state'[Home[tx'[w].target]] = "public")
  BY DEF VisibilityIsCurrent, Public
<1>1. CASE Private(w)
  <2>1. RowMoves(w) /\ state' = state
    BY <1>1, Rows, PrivateMoves DEF Moves, LockInv
  <2>2. CASE Began(w) \/ Quit(w)
    BY <2>2, IdleShaped DEF Began, Quit
  <2>3. CASE LookedUp(w) \/ Locked(w) \/ Changed(w) \/ Counted(w)
    BY <2>3 DEF LookedUp, Locked, Changed, Counted, Goes
  <2>4. CASE Wrote(w)
    BY <2>1, <2>4 DEF Wrote, KeepsSeen, KeepsFound, Keeps
  <2>5. CASE Gated(w) \/ Credited(w)
    BY <2>1, <2>5 DEF Gated, Credited, Goes, KeepsSeen, KeepsFound, Keeps,
                      VisibilityIsCurrent, Public
  <2> QED BY <2>1, <2>2, <2>3, <2>4, <2>5 DEF RowMoves
<1>2. CASE tx'[w] = tx[w] /\ state' = state
  BY <1>2 DEF VisibilityIsCurrent, Public
<1>3. ASSUME NEW x \in Writers, Private(x) PROVE x = w \/ (tx'[w] = tx[w] /\ state' = state)
  BY <1>3, PrivateMoves DEF Moves, LockInv
<1>4. CASE \E x \in Writers : Commit(x)
  <2>1. PICK x \in Writers : Commit(x)
    BY <1>4
  <2>2. CASE x = w
    BY <2>1, <2>2, CommitReleases, IdleShaped DEF LockInv
  <2>3. CASE x # w
    <3>1. w \in Writers \ {x} /\ state' = state
      BY <2>1, <2>3 DEF Commit
    <3>2. /\ tx'[w].pc = tx[w].pc /\ tx'[w].kind = tx[w].kind
          /\ tx'[w].target = tx[w].target /\ tx'[w].public = tx[w].public
      BY <2>1, <3>1, CommitReleases DEF LockInv
    <3> QED BY <3>1, <3>2 DEF VisibilityIsCurrent, Public
  <2> QED BY <2>2, <2>3
<1>5. CASE Moderation
  <2>1. PICK t \in Targets, to \in {"public", "quarantined", "deleted"} : Moderate(t, to)
    BY <1>5 DEF Moderation
  <2>2. tx' = tx /\ \A u \in Targets : u # t => state'[u] = state[u]
    BY <2>1 DEF Moderate, LockInv, TypeOK
  <2>3. SUFFICES ASSUME tx[w].pc \in {"gate", "credit", "commit"}
                 PROVE  /\ state'[tx[w].target] = state[tx[w].target]
                        /\ tx[w].pc # "gate" =>
                             state'[Home[tx[w].target]] = state[Home[tx[w].target]]
    BY <2>2 DEF VisibilityIsCurrent, Public
  <2>4. tx[w].target \in Targets /\ Home[tx[w].target] \in Targets
    BY <2>3, HomeAssumption DEF LockInv, TypeOK
  <2>5. HoldsTarget(w, tx[w].target)
    BY <2>3 DEF HoldsTarget
  <2>6. tx[w].target # t
    BY <2>1, <2>5 DEF Moderate
  <2>7. ASSUME tx[w].pc # "gate", Home[tx[w].target] # tx[w].target
        PROVE  SharesPost(w, Home[tx[w].target])
    BY <2>2, <2>3, <2>7 DEF SharesPost
  <2>8. tx[w].pc # "gate" => Home[tx[w].target] # t
    BY <2>1, <2>6, <2>7 DEF Moderate
  <2> QED BY <2>2, <2>4, <2>6, <2>8
<1>6. CASE UNCHANGED vars
  BY <1>2, <1>6 DEF vars
<1> QED BY <1>1, <1>2, <1>3, <1>4, <1>5, <1>6, StepKinds

LEMMA CommitAnnounces ==
    ASSUME LockInv, VisibilityIsCurrent, [Next]_vars,
           NEW w \in Writers, Commits(w), tx[w].kind = "vote"
    PROVE  announced'[tx[w].target][tx[w].voter] = announced[tx[w].target][tx[w].voter] +
             IF votes'[tx[w].target][tx[w].voter] = "up" /\ Rewards(w) /\ Public(tx[w].target)
             THEN 1 ELSE 0
<1> DEFINE t == tx[w].target
           v == tx[w].voter
<1>1. Commit(w) /\ tx[w].pc = "commit"
  BY CommitsByCommit DEF Commits, LockInv
<1>2. t \in Targets /\ v \in Voters /\ v \in Everybody
  BY <1>1 DEF LockInv, TypeOK, Everybody
<1>3. tx[w].public <=> Public(t)
  BY <1>1 DEF VisibilityIsCurrent
<1>4. votes'[t][v] = Mutated(w)
  BY <1>1, <1>2 DEF Commit, LockInv, TypeOK
<1>5. announced[t][v] \in Nat /\ announced \in [Targets -> [Voters -> Nat]]
  BY <1>2 DEF LockInv, TypeOK
<1>6. CASE Announces(w)
  <2>1. announced' = [announced EXCEPT ![t][v] = @ + 1]
    BY <1>1, <1>6 DEF Commit
  <2>2. announced'[t][v] = announced[t][v] + 1
    BY <1>2, <1>5, <2>1
  <2> QED BY <1>3, <1>4, <1>6, <2>2 DEF Announces
<1>7. CASE ~Announces(w)
  <2>1. announced'[t][v] = announced[t][v]
    BY <1>1, <1>7 DEF Commit
  <2> QED BY <1>3, <1>4, <1>5, <1>7, <2>1 DEF Announces
<1> QED BY <1>6, <1>7

LEMMA VisibilityInit == ASSUME Init PROVE VisibilityIsCurrent
<1>1. Idle.pc = "idle"
  BY IdleShaped
<1> QED BY <1>1 DEF Init, VisibilityIsCurrent

\* vote.received goes out for exactly the upvotes of others on content that is
\* public when they commit: the locks on the target and, FOR SHARE, on a comment's
\* post keep what was read true until then (vote.go, the visibility check).
THEOREM AnnouncedRight == Spec => AnnouncedIffPublic
<1>1. LockInv /\ VisibilityIsCurrent /\ [Next]_vars =>
        \A w \in Writers : Commits(w) /\ tx[w].kind = "vote" =>
          LET t == tx[w].target
              v == tx[w].voter
          IN  announced'[t][v] = announced[t][v] +
                IF votes'[t][v] = "up" /\ Rewards(w) /\ Public(t) THEN 1 ELSE 0
  BY CommitAnnounces
<1> QED
  BY <1>1, LockInvInit, LockInvStep, VisibilityInit, VisibilityStep, PTL DEF Spec, AnnouncedIffPublic

-----------------------------------------------------------------------------
(* Waiting.                                                                *)

\* Open transactions each of which waits for another of them.
Stuck(W) == W \in SUBSET Writers /\ W # {} /\ \A w \in W : \E x \in W : WaitsFor(w, x)

\* If all of W waited for each other, nobody in it would be at a statement that
\* waits for nothing, so nobody at one that waits only for those who are, and
\* so on down the order in which the rows are locked.
LEMMA NobodyWaitsInTurn ==
    ASSUME LockInv, VisibilityIsCurrent, NEW W, Stuck(W)
    PROVE  FALSE
<1> W \in SUBSET Writers /\ W # {} /\ \A w \in W : \E x \in W : WaitsFor(w, x)
  BY DEF Stuck
<1>0. \A w \in W :
        /\ tx[w] \in Transactions /\ tx[w].kind \in {"vote", "like"}
        /\ tx[w].pc # "idle" => tx[w].target \in Targets /\ tx[w].voter \in Everybody
  BY DEF LockInv, TypeOK, Everybody, Transactions
<1>1. \A w \in W : tx[w].pc \in {"lookup", "mutate", "lock", "store", "gate", "credit"}
  BY DEF WaitsFor, WaitsForVote, WaitsForTarget, WaitsForPost, WaitsForAuthor
<1>2. \A w \in W : tx[w].pc # "credit"
  BY <1>1 DEF WaitsFor, WaitsForVote, WaitsForTarget, WaitsForPost, WaitsForAuthor, HoldsAuthor
<1>3. \A x \in W : \A t : ~SharesPost(x, t)
  BY <1>1, <1>2 DEF SharesPost
<1>4. \A w \in W : ~LockedByLike(w)
  <2> SUFFICES ASSUME NEW w \in W, LockedByLike(w) PROVE FALSE
    OBVIOUS
  <2>1. HoldsTarget(w, tx[w].target) /\ tx[w].target \in Targets /\ tx[w].kind = "like"
    <3>1. tx[w].pc # "idle" /\ tx[w].kind = "like"
      BY DEF LockedByLike
    <3> QED BY <1>0, <3>1 DEF HoldsTarget
  <2>2. PICK x \in W : WaitsFor(w, x)
    OBVIOUS
  <2>3. x # w
    BY <2>2 DEF WaitsFor
  <2>4. ~HoldsTarget(x, tx[w].target)
    BY <2>1, <2>3 DEF LockInv, TargetsExclusive
  <2>5. WaitsForVote(w, x)
    BY <1>3, <2>2, <2>4 DEF WaitsFor, WaitsForTarget, WaitsForPost, WaitsForAuthor, LockedByLike
  <2>6. /\ tx[x].target = tx[w].target /\ tx[x].voter = tx[w].voter
        /\ tx[x].pc \in {"mutate", "store", "gate"}
    BY <1>1, <1>2, <2>5 DEF WaitsForVote, HoldsVote
  <2>7. tx[x].kind = "like"
    BY <2>1, <2>6, <1>0, VoterAssumption DEF LockInv, TypeOK, Transactions, LockedByLike
  <2>8. tx[x].pc \in {"mutate", "store"}
    BY <2>6, <2>7 DEF LockInv, Paths
  <2> QED BY <2>4, <2>6, <2>7, <2>8 DEF HoldsTarget, LockedByLike
<1>5. \A w \in W : tx[w].pc # "gate"
  <2> SUFFICES ASSUME NEW w \in W, tx[w].pc = "gate" PROVE FALSE
    OBVIOUS
  <2>1. PICK x \in W : HoldsTarget(x, Home[tx[w].target])
    BY DEF WaitsFor, WaitsForVote, WaitsForTarget, WaitsForPost, WaitsForAuthor
  <2>2. tx[x].pc = "gate" /\ tx[x].target = Home[tx[w].target]
    BY <1>1, <1>2, <1>4, <2>1 DEF HoldsTarget
  <2>3. Home[tx[x].target] # tx[x].target
    BY <2>2 DEF VisibilityIsCurrent, LockInv, Paths
  <2>4. tx[w].target \in Targets
    BY <1>0
  <2>5. Home[Home[tx[w].target]] = Home[tx[w].target]
    BY <2>4, HomeAssumption
  <2> QED BY <2>2, <2>3, <2>5
<1>6. \A x \in W : \A t : ~HoldsTarget(x, t)
  BY <1>1, <1>2, <1>4, <1>5 DEF HoldsTarget
<1>7. \A w \in W : tx[w].pc \in {"lookup", "mutate"}
  BY <1>1, <1>2, <1>3, <1>5, <1>6
     DEF WaitsFor, WaitsForVote, WaitsForTarget, WaitsForPost, WaitsForAuthor
<1>8. \A w \in W : \E x \in W : WaitsForVote(w, x)
  BY <1>7 DEF WaitsFor, WaitsForTarget, WaitsForPost, WaitsForAuthor
<1>9. PICK x \in W : tx[x].pc = "mutate" /\ tx[x].was # "none"
  BY <1>7, <1>8 DEF WaitsForVote, HoldsVote
<1>10. tx[x].kind = "vote"
  BY <1>0, <1>4, <1>9 DEF LockedByLike
<1> QED BY <1>8, <1>9, <1>10 DEF WaitsForVote

\* The order in which vote rows, targets, posts and authors are locked closes no
\* cycle, however many transactions are open (vote.go, CastWithReputation;
\* inbound.go, IngestLike).
THEOREM LocksCloseNoCycle == Spec => []NoLockCycle
<1>1. LockInv /\ VisibilityIsCurrent => NoLockCycle
  <2>1. ASSUME NEW W \in (SUBSET Writers) \ {{}}, ~ \E w \in W : \A x \in W : ~WaitsFor(w, x)
        PROVE  Stuck(W)
    BY <2>1 DEF Stuck
  <2> QED BY <2>1, NobodyWaitsInTurn DEF NoLockCycle
<1> QED BY <1>1, LockInvInit, LockInvStep, VisibilityInit, VisibilityStep, PTL DEF Spec

-----------------------------------------------------------------------------
(* Sums.                                                                   *)

\* Ballots that agree outside a set differ in their sum by twice its size.
LEMMA GivenDiffers ==
    ASSUME NEW f, NEW g, NEW D \in SUBSET Everybody, NEW direction,
           \A v \in Everybody \ D : f[v] = g[v]
    PROVE  Cardinality(Given(f, direction)) <= Cardinality(Given(g, direction)) + Cardinality(D)
<1> DEFINE F == Given(f, direction)
           G == Given(g, direction)
<1>1. IsFiniteSet(F) /\ IsFiniteSet(G) /\ Cardinality(F) \in Nat /\ Cardinality(G) \in Nat
  BY SumType
<1>2. IsFiniteSet(D) /\ Cardinality(D) \in Nat
  BY VoterAssumption, FS_Subset, FS_CardinalityType
<1>3. F \subseteq G \cup D
  BY DEF Given
<1> HIDE DEF F, G
<1>4. /\ IsFiniteSet(G \cup D)
      /\ Cardinality(G \cup D) = Cardinality(G) + Cardinality(D) - Cardinality(G \cap D)
  BY <1>1, <1>2, FS_Union
<1>5. Cardinality(F) <= Cardinality(G \cup D)
  BY <1>3, <1>4, FS_Subset
<1>6. Cardinality(G \cap D) \in Nat
  BY <1>1, FS_Subset, FS_CardinalityType
<1>7. Cardinality(F) <= Cardinality(G) + Cardinality(D)
  BY <1>1, <1>2, <1>4, <1>5, <1>6
<1> QED BY <1>7 DEF F, G

LEMMA CountedWithin ==
    ASSUME NEW sum, NEW ballots, NEW D \in SUBSET Everybody, Counts(sum, ballots, D)
    PROVE  Distance(sum, Sum(ballots)) <= 2 * Cardinality(D)
<1>1. PICK f \in [Everybody -> Ballot] :
        sum = Sum(f) /\ \A v \in Everybody \ D : f[v] = ballots[v]
  BY DEF Counts
<1> DEFINE fu == Cardinality(Given(f, "up"))
           fd == Cardinality(Given(f, "down"))
           bu == Cardinality(Given(ballots, "up"))
           bd == Cardinality(Given(ballots, "down"))
           n == Cardinality(D)
<1>2. fu <= bu + n /\ fd <= bd + n
  BY <1>1, GivenDiffers
<1>3. bu <= fu + n /\ bd <= fd + n
  BY <1>1, GivenDiffers
<1>4. fu \in Nat /\ fd \in Nat /\ bu \in Nat /\ bd \in Nat
  BY SumType
<1>5. n \in Nat
  BY VoterAssumption, FS_Subset, FS_CardinalityType
<1>6. sum = fu - fd /\ Sum(ballots) = bu - bd
  BY <1>1 DEF Sum
<1> HIDE DEF fu, fd, bu, bd, n
<1>7. Distance(sum, Sum(ballots)) <= 2 * n
  BY <1>2, <1>3, <1>4, <1>5, <1>6 DEF Distance
<1> QED BY <1>7 DEF n

\* A transaction that lacks nobody has the sum.
LEMMA CountedAll ==
    ASSUME NEW sum, NEW ballots \in [Everybody -> Ballot], Counts(sum, ballots, {})
    PROVE  sum = Sum(ballots)
<1>1. PICK f \in [Everybody -> Ballot] :
        sum = Sum(f) /\ \A v \in Everybody \ {} : f[v] = ballots[v]
  BY DEF Counts
<1>2. f = ballots
  BY <1>1
<1> QED BY <1>1, <1>2

LEMMA LikesMissNobodyStep ==
    ASSUME LockInv, LikesMissNobody, [Next]_vars
    PROVE  LikesMissNobody'
<1> SUFFICES ASSUME NEW w \in Writers, tx'[w].kind = "like"
             PROVE  tx'[w].missed = {}
  BY DEF LikesMissNobody
<1>1. CASE Private(w)
  <2>1. RowMoves(w)
    BY <1>1, Rows DEF LockInv
  <2>2. CASE Began(w) \/ Quit(w)
    BY <2>2, IdleShaped DEF Began, Quit
  <2>3. CASE Keeps(w)
    BY <2>3 DEF Keeps, LikesMissNobody
  <2> QED BY <2>1, <2>2, <2>3 DEF RowMoves, LookedUp, Locked, Changed, Counted, Wrote, Gated,
                                   Credited, KeepsFound, KeepsSeen
<1>2. CASE tx'[w] = tx[w]
  BY <1>2 DEF LikesMissNobody
<1>3. ASSUME NEW x \in Writers, Private(x) PROVE x = w \/ tx'[w] = tx[w]
  BY <1>3, PrivateMoves DEF Moves, LockInv
<1>4. CASE \E x \in Writers : Commit(x)
  <2>1. PICK x \in Writers : Commit(x)
    BY <1>4
  <2>2. CASE x = w
    BY <2>1, <2>2, CommitReleases, IdleShaped DEF LockInv
  <2>3. CASE x # w
    <3>1. w \in Writers \ {x}
      BY <2>3
    <3>2. tx'[w].kind = tx[w].kind
          /\ tx'[w].missed = IF tx[w].pc = "store" /\ tx[w].target = tx[x].target
                             THEN tx[w].missed \cup {tx[x].voter} ELSE tx[w].missed
      BY <2>1, <3>1, CommitReleases DEF LockInv
    <3>3. ~(tx[w].pc = "store" /\ tx[w].target = tx[x].target)
      <4>1. HoldsTarget(x, tx[x].target) /\ tx[x].target \in Targets
        BY <2>1, CommitWrites DEF LockInv
      <4> QED BY <2>3, <3>2, <4>1 DEF LockInv, TargetsExclusive, HoldsTarget, LockedByLike
    <3> QED BY <3>2, <3>3 DEF LikesMissNobody
  <2> QED BY <2>2, <2>3
<1>5. CASE Moderation \/ UNCHANGED vars
  BY <1>2, <1>5 DEF Moderation, Moderate, vars
<1> QED BY <1>1, <1>2, <1>3, <1>4, <1>5, StepKinds

LEMMA SeenExplainedStep ==
    ASSUME LockInv, SeenExplained, [Next]_vars
    PROVE  SeenExplained'
<1> SUFFICES ASSUME NEW w \in Writers, tx'[w].pc \in Stored
             PROVE  Counts(tx[w].seen, After(w), tx[w].missed)'
  BY DEF SeenExplained
<1>0. votes \in [Targets -> [Everybody -> Ballot]]
  BY DEF LockInv, TypeOK
<1>1. CASE Private(w)
  <2>1. RowMoves(w) /\ votes' = votes
    BY <1>1, Rows, PrivateMoves DEF Moves, LockInv
  <2>2. CASE Began(w) \/ Quit(w) \/ LookedUp(w) \/ Locked(w) \/ Changed(w)
    BY <2>2, IdleShaped DEF Began, Quit, LookedUp, Locked, Changed, Goes, Stored
  <2>3. ASSUME KeepsFound(w) PROVE After(w)' = After(w)
    BY <2>1, <2>3 DEF KeepsFound, Keeps, After, Mutated, Toggled
  <2>4. CASE Counted(w)
    <3>1. After(w)' = After(w) /\ tx'[w].seen = Sum(After(w)) /\ tx[w].pc = "count"
      BY <2>3, <2>4 DEF Counted, Goes
    <3>2. After(w) \in [Everybody -> Ballot]
      BY <3>1, AfterType DEF LockInv
    <3>3. Counts(tx'[w].seen, After(w), tx'[w].missed)
      BY <3>1, <3>2 DEF Counts
    <3> QED BY <3>1, <3>3 DEF Counts
  <2>5. CASE Wrote(w) \/ Gated(w) \/ Credited(w)
    <3>1. /\ After(w)' = After(w) /\ tx'[w].seen = tx[w].seen /\ tx'[w].missed = tx[w].missed
          /\ tx[w].pc \in Stored
      BY <2>3, <2>5 DEF Wrote, Gated, Credited, Goes, KeepsSeen, KeepsFound, Keeps, Stored
    <3> QED BY <3>1 DEF SeenExplained, Counts
  <2> QED BY <2>1, <2>2, <2>4, <2>5 DEF RowMoves
<1>2. CASE tx'[w] = tx[w] /\ votes' = votes
  <2>1. After(w)' = After(w)
    BY <1>2 DEF After, Mutated, Toggled
  <2> QED BY <1>2, <2>1 DEF SeenExplained, Counts
<1>3. ASSUME NEW x \in Writers, Private(x) PROVE x = w \/ (tx'[w] = tx[w] /\ votes' = votes)
  BY <1>3, PrivateMoves DEF Moves, LockInv
<1>4. CASE \E x \in Writers : Commit(x)
  <2>1. PICK x \in Writers : Commit(x)
    BY <1>4
  <2>2. x # w
    BY <2>1, CommitReleases, IdleShaped DEF LockInv, Stored
  <2>3. w \in Writers \ {x}
    BY <2>2
  <2>4. /\ tx'[w].pc = tx[w].pc /\ tx'[w].kind = tx[w].kind
        /\ tx'[w].target = tx[w].target /\ tx'[w].voter = tx[w].voter
        /\ tx'[w].direction = tx[w].direction /\ tx'[w].was = tx[w].was
        /\ tx'[w].seen = tx[w].seen
        /\ tx'[w].missed = IF tx[w].pc = "store" /\ tx[w].target = tx[x].target
                           THEN tx[w].missed \cup {tx[x].voter} ELSE tx[w].missed
    BY <2>1, <2>3, CommitReleases DEF LockInv
  <2>5. tx[w].target \in Targets /\ tx[w].voter \in Everybody
    BY <2>4 DEF LockInv, TypeOK, Stored, Everybody
  <2>6. Mutated(w)' = Mutated(w)
    BY <2>4 DEF Mutated, Toggled
  <2>7. PICK f \in [Everybody -> Ballot] :
          tx[w].seen = Sum(f) /\ \A v \in Everybody \ tx[w].missed : f[v] = After(w)[v]
    BY <2>4 DEF SeenExplained, Counts
  <2>8. ASSUME tx[w].target = tx[x].target PROVE tx[w].pc = "store"
    <3>1. HoldsTarget(x, tx[w].target)
      BY <2>1, <2>8, CommitWrites DEF LockInv
    <3>2. ~HoldsTarget(w, tx[w].target)
      BY <2>2, <2>5, <3>1 DEF LockInv, TargetsExclusive
    <3> QED BY <2>4, <3>2 DEF HoldsTarget, Stored
  <2>9. \A v \in Everybody \ tx'[w].missed :
          votes'[tx[w].target][v] = votes[tx[w].target][v]
    BY <2>1, <2>4, <2>5, <2>8, CommitWrites DEF LockInv
  <2>10. votes' \in [Targets -> [Everybody -> Ballot]]
    BY <2>1, TypeCommit DEF LockInv, TypeOK
  <2>11. After(w)' = [votes'[tx[w].target] EXCEPT ![tx[w].voter] = Mutated(w)]
    BY <2>4, <2>6 DEF After
  <2>12. \A v \in Everybody \ tx'[w].missed : After(w)'[v] = After(w)[v]
    BY <1>0, <2>5, <2>9, <2>10, <2>11 DEF After
  <2>13. \A v \in Everybody \ tx'[w].missed : f[v] = After(w)'[v]
    BY <2>4, <2>7, <2>12
  <2> QED BY <2>4, <2>7, <2>13 DEF Counts, Sum, Given
<1>5. CASE Moderation \/ UNCHANGED vars
  BY <1>2, <1>5 DEF Moderation, Moderate, vars
<1> QED BY <1>1, <1>2, <1>3, <1>4, <1>5, StepKinds

LEMMA StoredExplainedStep ==
    ASSUME LockInv, SeenExplained, StoredExplained, [Next]_vars
    PROVE  StoredExplained'
<1> SUFFICES ASSUME NEW t \in Targets
             PROVE  Counts(score[t], votes[t], lost[t])'
  BY DEF StoredExplained
<1>1. CASE score'[t] = score[t] /\ votes'[t] = votes[t] /\ lost'[t] = lost[t]
  BY <1>1 DEF StoredExplained, Counts
<1>2. ASSUME NEW w \in Writers, Private(w)
      PROVE  score'[t] = score[t] /\ votes'[t] = votes[t] /\ lost'[t] = lost[t]
  BY <1>2, PrivateMoves DEF Moves, LockInv
<1>3. CASE \E w \in Writers : Commit(w)
  <2>1. PICK w \in Writers : Commit(w)
    BY <1>3
  <2>2. CASE t # tx[w].target
    BY <1>1, <2>1, <2>2, CommitWrites DEF LockInv
  <2>3. CASE t = tx[w].target
    <3>1. Counts(tx[w].seen, After(w), tx[w].missed)
      BY <2>1 DEF Commit, SeenExplained, Stored
    <3>2. score'[t] = tx[w].seen /\ votes'[t] = After(w) /\ lost'[t] = tx[w].missed
      BY <2>1, <2>3, CommitWrites DEF LockInv
    <3> QED BY <3>1, <3>2 DEF Counts
  <2> QED BY <2>2, <2>3
<1>4. CASE Moderation \/ UNCHANGED vars
  BY <1>1, <1>4 DEF Moderation, Moderate, vars
<1> QED BY <1>1, <1>2, <1>3, <1>4, StepKinds

LEMMA CountInvInit == ASSUME Init PROVE CountInv
<1>1. \A w \in Writers : tx[w] = Idle
  BY DEF Init
<1>2. LikesMissNobody /\ SeenExplained
  BY <1>1, IdleShaped DEF LikesMissNobody, SeenExplained, Stored, Idle
<1>3. StoredExplained
  <2> SUFFICES ASSUME NEW t \in Targets PROVE Counts(score[t], votes[t], lost[t])
    BY DEF StoredExplained
  <2>1. votes[t] = [v \in Everybody |-> "none"] /\ score[t] = 0
    BY DEF Init
  <2>2. Given(votes[t], "up") = {} /\ Given(votes[t], "down") = {}
    BY <2>1 DEF Given
  <2>3. Sum(votes[t]) = 0
    BY <2>2, FS_EmptySet DEF Sum
  <2>4. votes[t] \in [Everybody -> Ballot]
    BY <2>1 DEF Ballot
  <2> QED BY <2>1, <2>3, <2>4 DEF Counts
<1> QED BY <1>2, <1>3, LockInvInit DEF CountInv

LEMMA CountInvStep == ASSUME CountInv, [Next]_vars PROVE CountInv'
BY LockInvStep, LikesMissNobodyStep, SeenExplainedStep, StoredExplainedStep DEF CountInv

\* A stored score is off by at most twice the number of voters whose vote was
\* committed while its writer, its sum taken, waited for the target's row
\* (vote.go, the UPDATE of vote_score).
THEOREM ScoreAccounted == Spec => []ScoreExplained
<1>1. CountInv => ScoreExplained
  <2> SUFFICES ASSUME CountInv, NEW t \in Targets
               PROVE  Distance(score[t], Sum(votes[t])) <= 2 * Cardinality(lost[t])
    BY DEF ScoreExplained
  <2>1. lost[t] \in SUBSET Everybody /\ Counts(score[t], votes[t], lost[t])
    BY DEF CountInv, StoredExplained, LockInv, TypeOK
  <2> QED BY <2>1, CountedWithin
<1> QED BY <1>1, CountInvInit, CountInvStep, PTL DEF Spec

LEMMA LikeCounts ==
    ASSUME CountInv, [Next]_vars, NEW w \in Writers, Commits(w), tx[w].kind = "like"
    PROVE  score'[tx[w].target] = Sum(votes'[tx[w].target])
<1>1. Commit(w) /\ tx[w].pc = "commit"
  BY CommitsByCommit DEF Commits, CountInv, LockInv
<1>2. Counts(tx[w].seen, After(w), {})
  BY <1>1 DEF CountInv, SeenExplained, LikesMissNobody, Stored
<1>3. After(w) \in [Everybody -> Ballot]
  BY <1>1, AfterType DEF CountInv, LockInv
<1>4. tx[w].seen = Sum(After(w))
  BY <1>2, <1>3, CountedAll
<1> QED BY <1>1, <1>4, CommitWrites DEF CountInv, LockInv

\* A Like, which holds its target from its first statement, leaves the score
\* right whatever the local votes before it left (inbound.go, "Serialize score
\* aggregation").
THEOREM LikesCountAll == Spec => LikeCountsAll
<1>1. CountInv /\ [Next]_vars =>
        \A w \in Writers : Commits(w) /\ tx[w].kind = "like" =>
          score'[tx[w].target] = Sum(votes'[tx[w].target])
  BY LikeCounts
<1> QED BY <1>1, CountInvInit, CountInvStep, PTL DEF Spec, LikeCountsAll
=============================================================================
