------------------------------ MODULE VoteScore ------------------------------
(***************************************************************************)
(* Votes on posts and comments: CastWithReputation of                      *)
(* internal/repository/vote.go, and the federated Likes of                 *)
(* internal/activitypub/inbound.go that write the same rows.               *)
(*                                                                         *)
(* A request is one READ COMMITTED transaction and each of its statements  *)
(* a step.  Row locks last to its end.  The UPDATE of vote_score takes two *)
(* steps: its subquery sums the votes its snapshot holds, and the row is   *)
(* then waited for; a wait does not make PostgreSQL sum again.             *)
(*                                                                         *)
(* Every vote weighs 1.  The author's reputation event is a wait for the   *)
(* author's row here; its arithmetic is ReputationLedger.  The counts of   *)
(* up and down votes are written with vote_score and are left out, and so  *)
(* is the trust of remote authors.                                         *)
(***************************************************************************)
EXTENDS Integers, FiniteSets

CONSTANTS
    Targets,      \* posts and comments
    Home,         \* [Targets -> Targets]: a comment's post, a post itself
    Author,       \* [Targets -> Voters]
    Voters,       \* local participants
    Actors,       \* remote participants, who can only like
    Writers,      \* transactions open at a time
    None,
    MaxRequests,  \* bound: votes and Likes
    MaxChanges    \* bound: deletions, quarantines and publications

Everybody == Voters \cup Actors
Directions == {"up", "down"}
Ballot == Directions \cup {"none"}

ASSUME HomeAssumption ==
    Home \in [Targets -> Targets] /\ \A t \in Targets : Home[Home[t]] = Home[t]
ASSUME VoterAssumption == IsFiniteSet(Everybody) /\ Voters \cap Actors = {}
ASSUME AuthorAssumption == Author \in [Targets -> Voters]
ASSUME NoneAssumption == None \notin Targets \cup Everybody
ASSUME BoundAssumption == MaxRequests \in Nat /\ MaxChanges \in Nat

VARIABLES
    votes,      \* committed votes
    score,      \* committed vote_score
    state,      \* deleted_at and quarantined
    tx,         \* the open transactions
    requests, changes,
    announced,  \* history: vote.received events for each target and voter
    lost        \* history: voters whose last change the stored score may lack

vars == <<votes, score, state, tx, requests, changes, announced, lost>>

Idle == [pc |-> "idle", kind |-> "vote", target |-> None, voter |-> None,
         direction |-> "up", known |-> FALSE, was |-> "none", seen |-> 0,
         public |-> FALSE, missed |-> {}]

Transactions ==
    [pc : {"idle", "lookup", "lock", "mutate", "count", "store", "gate", "credit", "commit"},
     kind : {"vote", "like"}, target : Targets \cup {None}, voter : Everybody \cup {None},
     direction : Directions, known : BOOLEAN, was : Ballot,
     seen : Int, public : BOOLEAN, missed : SUBSET Everybody]

TypeOK ==
    /\ votes \in [Targets -> [Everybody -> Ballot]]
    /\ score \in [Targets -> Int]
    /\ state \in [Targets -> {"public", "quarantined", "deleted"}]
    /\ tx \in [Writers -> Transactions]
    /\ \A w \in Writers : tx[w].pc # "idle" =>
         /\ tx[w].target \in Targets
         /\ tx[w].voter \in IF tx[w].kind = "vote" THEN Voters ELSE Actors
    /\ requests \in 0 .. MaxRequests
    /\ changes \in 0 .. MaxChanges
    /\ announced \in [Targets -> [Voters -> Nat]]
    /\ lost \in [Targets -> SUBSET Everybody]

Init ==
    /\ votes = [t \in Targets |-> [v \in Everybody |-> "none"]]
    /\ score = [t \in Targets |-> 0]
    /\ state \in [Targets -> {"public", "quarantined"}]
    /\ \A t \in Targets : state[t] = "quarantined" => Home[t] = t
    /\ tx = [w \in Writers |-> Idle]
    /\ requests = 0
    /\ changes = 0
    /\ announced = [t \in Targets |-> [v \in Voters |-> 0]]
    /\ lost = [t \in Targets |-> {}]

-----------------------------------------------------------------------------
(* Rows and locks.                                                         *)

Given(ballots, direction) == {v \in Everybody : ballots[v] = direction}

Sum(ballots) == Cardinality(Given(ballots, "up")) - Cardinality(Given(ballots, "down"))

\* Mutant: a vote is taken back by a direction the table does not know.
Toggled_Off(was, direction) == IF was = direction THEN "off" ELSE direction

\* The same direction again takes the vote back.
Toggled(was, direction) == IF was = direction THEN "none" ELSE direction

\* A Like finds any vote of its actor in the way and leaves it.
Mutated(w) ==
    IF tx[w].kind = "vote" THEN Toggled(tx[w].was, tx[w].direction)
    ELSE IF tx[w].was = "none" THEN "up" ELSE tx[w].was

\* A vote row is held once it was found FOR UPDATE, or inserted.
HoldsVote(w, t, v) ==
    /\ tx[w].target = t /\ tx[w].voter = v
    /\ \/ tx[w].pc \in {"count", "store", "gate", "credit", "commit"}
       \/ tx[w].pc = "mutate" /\ tx[w].was # "none"

\* Mutant: the Like selects its target without a lock.
LockedByLike_Never(w) == FALSE

\* A Like selects its target FOR UPDATE before anything else.
LockedByLike(w) == tx[w].kind = "like" /\ tx[w].pc \in {"mutate", "count", "store", "commit"}

\* The score's UPDATE locks the target.
HoldsTarget(w, t) ==
    /\ tx[w].target = t
    /\ LockedByLike(w) \/ tx[w].pc \in {"gate", "credit", "commit"}

\* Mutant: the post of a comment is read without FOR SHARE.
SharesPost_Never(w, p) == FALSE

\* SELECT ... FOR SHARE OF p: a vote on a comment keeps its post as it is.
SharesPost(w, p) ==
    /\ tx[w].pc \in {"credit", "commit"} /\ tx[w].kind = "vote"
    /\ tx[w].target # p /\ Home[tx[w].target] = p

\* Somebody else's vote on content whose author is known.
Rewards(w) == tx[w].kind = "vote" /\ tx[w].known /\ tx[w].voter # Author[tx[w].target]

\* Mutant: the author's row is updated before the post is looked at.
HoldsAuthor_Early(w, a) ==
    tx[w].pc \in {"gate", "credit", "commit"} /\ Rewards(w) /\ Author[tx[w].target] = a

HoldsAuthor(w, a) == tx[w].pc = "commit" /\ Rewards(w) /\ Author[tx[w].target] = a

\* Mutant: the vote is read without FOR UPDATE.
WaitsForVote_Unlocked(w, x) == FALSE

\* A missing row is not waited for, and nobody is kept from inserting it: the
\* insert waits for whoever else inserts or deletes that key.
WaitsForVote(w, x) ==
    /\ HoldsVote(x, tx[w].target, tx[w].voter)
    /\ \/ tx[w].pc = "lookup" /\ votes[tx[w].target][tx[w].voter] # "none"
       \/ tx[w].pc = "mutate" /\ (tx[w].kind = "vote" => tx[w].was = "none")

WaitsForTarget(w, x) ==
    /\ tx[w].pc \in {"lock", "store"}
    /\ HoldsTarget(x, tx[w].target) \/ SharesPost(x, tx[w].target)

WaitsForPost(w, x) == tx[w].pc = "gate" /\ HoldsTarget(x, Home[tx[w].target])

WaitsForAuthor(w, x) ==
    tx[w].pc = "credit" /\ Rewards(w) /\ HoldsAuthor(x, Author[tx[w].target])

\* The next statement of w needs a row that x holds.
WaitsFor(w, x) ==
    /\ x # w
    /\ WaitsForVote(w, x) \/ WaitsForTarget(w, x) \/ WaitsForPost(w, x) \/ WaitsForAuthor(w, x)

Proceeds(w) == \A x \in Writers : ~WaitsFor(w, x)

-----------------------------------------------------------------------------
(* The statements of a vote and of a Like.                                 *)

\* The handler reads the author first.  A deleted post, or a read that fails,
\* leaves it unknown and the vote goes on without.
Request(w, t, v, direction) ==
    /\ tx[w].pc = "idle"
    /\ requests < MaxRequests
    /\ requests' = requests + 1
    /\ \E known \in BOOLEAN :
         /\ known => Home[t] # t \/ state[t] # "deleted"
         /\ tx' = [tx EXCEPT ![w] = [Idle EXCEPT !.pc = "lookup", !.target = t, !.voter = v,
                                                 !.direction = direction, !.known = known]]
    /\ UNCHANGED <<votes, score, state, changes, announced, lost>>

RequestLike(w, t, a) ==
    /\ tx[w].pc = "idle"
    /\ requests < MaxRequests
    /\ requests' = requests + 1
    /\ tx' = [tx EXCEPT ![w] = [Idle EXCEPT !.pc = "lock", !.kind = "like", !.target = t,
                                            !.voter = a]]
    /\ UNCHANGED <<votes, score, state, changes, announced, lost>>

Reads == UNCHANGED <<votes, score, state, requests, changes, announced, lost>>

Lookup(w) ==
    /\ tx[w].pc = "lookup"
    /\ Proceeds(w)
    /\ tx' = [tx EXCEPT ![w].pc = "mutate", ![w].was = votes[tx[w].target][tx[w].voter]]
    /\ Reads

LockTarget(w) ==
    /\ tx[w].pc = "lock"
    /\ Proceeds(w)
    /\ tx' = [tx EXCEPT ![w] = IF state[tx[w].target] = "deleted" THEN Idle
                               ELSE [@ EXCEPT !.pc = "mutate"]]
    /\ Reads

\* Deferred, so it follows every error.
Ended(w) == [tx EXCEPT ![w] = Idle]

\* DELETE or UPDATE of a row already held, or INSERT, which fails on the unique
\* key if there is a row after all.
Mutate(w) ==
    /\ tx[w].pc = "mutate"
    /\ tx[w].kind = "vote"
    /\ Proceeds(w)
    /\ tx' = IF tx[w].was = "none" /\ votes[tx[w].target][tx[w].voter] # "none" THEN Ended(w)
             ELSE [tx EXCEPT ![w].pc = "count"]
    /\ Reads

\* ON CONFLICT DO NOTHING.
InsertLike(w) ==
    /\ tx[w].pc = "mutate"
    /\ tx[w].kind = "like"
    /\ Proceeds(w)
    /\ tx' = [tx EXCEPT ![w].pc = "count", ![w].was = votes[tx[w].target][tx[w].voter]]
    /\ Reads

\* What a transaction makes of the votes it can see: the committed ones and its own.
After(w) == [votes[tx[w].target] EXCEPT ![tx[w].voter] = Mutated(w)]

\* Mutant: the sum is taken before the vote is written.
Recount_Before(w) == Sum(votes[tx[w].target])

Recount(w) == Sum(After(w))

Count(w) ==
    /\ tx[w].pc = "count"
    /\ tx' = [tx EXCEPT ![w].pc = "store", ![w].seen = Recount(w)]
    /\ Reads

\* A post's row says at once whether it is public.
Store(w) ==
    LET t == tx[w].target IN
    /\ tx[w].pc = "store"
    /\ Proceeds(w)
    /\ tx' = [tx EXCEPT ![w].pc = IF tx[w].kind = "like" THEN "commit"
                                  ELSE IF Home[t] = t THEN "credit" ELSE "gate",
                        ![w].public = state[t] = "public"]
    /\ Reads

\* A comment needs its post for that.
Gate(w) ==
    LET p == Home[tx[w].target] IN
    /\ tx[w].pc = "gate"
    /\ Proceeds(w)
    /\ tx' = [tx EXCEPT ![w].pc = "credit", ![w].public = @ /\ state[p] = "public"]
    /\ Reads

Credit(w) ==
    /\ tx[w].pc = "credit"
    /\ Proceeds(w)
    /\ tx' = [tx EXCEPT ![w].pc = "commit"]
    /\ Reads

\* enqueueWebhookEvent for an upvote of somebody else's public content.
Announces(w) == Rewards(w) /\ tx[w].public /\ Mutated(w) = "up"

\* Those who counted before and store later miss this vote.
Committed(w) ==
    [x \in Writers |->
        IF x = w THEN Idle
        ELSE IF tx[x].pc = "store" /\ tx[x].target = tx[w].target
        THEN [tx[x] EXCEPT !.missed = @ \cup {tx[w].voter}]
        ELSE tx[x]]

Commit(w) ==
    LET t == tx[w].target
        v == tx[w].voter
    IN  /\ tx[w].pc = "commit"
        /\ votes' = [votes EXCEPT ![t][v] = Mutated(w)]
        /\ score' = [score EXCEPT ![t] = tx[w].seen]
        /\ announced' = IF Announces(w) THEN [announced EXCEPT ![t][v] = @ + 1] ELSE announced
        /\ lost' = [lost EXCEPT ![t] = tx[w].missed]
        /\ tx' = Committed(w)
        /\ UNCHANGED <<state, requests, changes>>

\* Any statement may fail.
Rollback(w) ==
    /\ tx[w].pc \notin {"idle", "commit"}
    /\ tx' = Ended(w)
    /\ Reads

-----------------------------------------------------------------------------
(* Moderation: one UPDATE each, which waits for the row.                   *)

Moderate(t, to) ==
    /\ changes < MaxChanges
    /\ \A w \in Writers : ~HoldsTarget(w, t) /\ ~SharesPost(w, t)
    /\ state[t] \notin {to, "deleted"}
    /\ to # "deleted" => Home[t] = t
    /\ state' = [state EXCEPT ![t] = to]
    /\ changes' = changes + 1
    /\ UNCHANGED <<votes, score, tx, requests, announced, lost>>

-----------------------------------------------------------------------------
Statement(w) ==
    \/ Lookup(w) \/ LockTarget(w) \/ Mutate(w) \/ InsertLike(w) \/ Count(w)
    \/ Store(w) \/ Gate(w) \/ Credit(w) \/ Commit(w)

Next ==
    \/ \E w \in Writers, t \in Targets :
          \/ \E v \in Voters, direction \in Directions : Request(w, t, v, direction)
          \/ \E a \in Actors : RequestLike(w, t, a)
    \/ \E w \in Writers : Statement(w) \/ Rollback(w)
    \/ \E t \in Targets, to \in {"public", "quarantined", "deleted"} : Moderate(t, to)

Spec == Init /\ [][Next]_vars

-----------------------------------------------------------------------------
(* What must hold.                                                         *)

Commits(w) == tx[w].pc = "commit" /\ tx'[w] = Idle

\* Clicks of one voter on one target, however they overlap, act one after the
\* other: each that commits toggles the vote that is there when it commits.
\* (vote.go, step 1: FOR UPDATE "to prevent races", and the unique key.)
ClicksAreSerial ==
    [][\A w \in Writers : Commits(w) /\ tx[w].kind = "vote" =>
         LET t == tx[w].target
             v == tx[w].voter
         IN  votes'[t][v] = Toggled(votes[t][v], tx[w].direction)]_vars

Distance(m, n) == IF m > n THEN m - n ELSE n - m

\* A stored score is off by the votes that were committed while its writer
\* waited for the target's row, and by nothing else: without such an overlap it
\* is the sum of the votes, and the next undisturbed vote makes it so again.
ScoreExplained ==
    \A t \in Targets : Distance(score[t], Sum(votes[t])) <= 2 * Cardinality(lost[t])

\* inbound.go: a Like locks its target to "serialize score aggregation".  After
\* it the score is right, whatever local votes, which take no such lock, left.
LikeCountsAll ==
    [][\A w \in Writers : Commits(w) /\ tx[w].kind = "like" =>
         score'[tx[w].target] = Sum(votes'[tx[w].target])]_vars

Public(t) == state[t] = "public" /\ state[Home[t]] = "public"

\* vote.received goes out for exactly the upvotes of others, on what is public
\* when they commit and whose author could be read: no deletion or quarantine
\* slips between the check and the commit.  (vote.go: "preventing a concurrent quarantine transition from racing
\* webhook visibility decisions".)
AnnouncedIffPublic ==
    [][\A w \in Writers : Commits(w) /\ tx[w].kind = "vote" =>
         LET t == tx[w].target
             v == tx[w].voter
         IN  announced'[t][v] = announced[t][v] +
               IF votes'[t][v] = "up" /\ Rewards(w) /\ Public(t) THEN 1 ELSE 0]_vars

\* The locks of vote rows, targets, posts and authors close no cycle: among any
\* open transactions one waits for none of the others.  (PostgreSQL would end a
\* cycle by failing one of them; the handler answers that with a 500.)
NoLockCycle ==
    \A W \in (SUBSET Writers) \ {{}} : \E w \in W : \A x \in W : ~WaitsFor(w, x)
=============================================================================
