-------------------------- MODULE PredictionLedger --------------------------
(***************************************************************************)
(* The one ledger of forecasts: predictions and prediction_stats.          *)
(*                                                                         *)
(* A forecast is about a match (internal/repository/sports.go, graded by   *)
(* the pollers of internal/sports/poller.go when the feed has the result)  *)
(* or about its author's own post (internal/repository/prediction.go,      *)
(* graded by the author after the deadline).                               *)
(*                                                                         *)
(* Every process polls.  A settlement locks the match, grades and counts   *)
(* in one transaction and is one step.  A forecast is a request whose      *)
(* NOW() is the time at which it began.  Of a forecast only the pick is    *)
(* kept: probabilities and brier_sum, a sum like n, are left out.          *)
(***************************************************************************)
EXTENDS Integers, Sequences, SequencesExt, FiniteSets

CONSTANTS
    Matches, Posts, People,
    Author,     \* of each post
    Picks,      \* what can be forecast, and what can come true
    Unknown,    \* a score, resolution or forecast that is not there
    Replicas,   \* processes of the API, each with one poller
    Requests,   \* requests served at one time
    MaxTime,    \* bound: the clock; kickoffs and deadlines come before it
    MaxFixes    \* bound: corrections of a final score

ASSUME AuthorAssumption == Author \in [Posts -> People]
ASSUME UnknownAssumption == Unknown \notin Picks \cup Matches
ASSUME BoundAssumption == MaxTime \in Nat \ {0} /\ MaxFixes \in Nat

VARIABLES
    now,
    feed,    \* external: what football-data says of each match
    match,   \* sports_matches
    row,     \* predictions
    stats,   \* prediction_stats
    poll,    \* the poller of each process
    req,     \* requests being served
    graded,  \* history: for each person the rows graded, in order
    fixes

forecastVars == <<now, feed, match, row, stats, poll, req, graded, fixes>>

Keys == (People \X Matches) \cup {<<Author[q], q>> : q \in Posts}
Owner(k) == k[1]
Subject(k) == k[2]
OnMatch(k) == Subject(k) \in Matches

\* There is something to forecast.
ASSUME KeysAssumption == Keys # {}

Fixtures == [kickoff : 0 .. MaxTime, score : Picks \cup {Unknown}]
Forecasts == [pick : Picks \cup {Unknown}, due : 0 .. MaxTime,
              resolution : Picks \cup {Unknown},
              outcome : {"none", "correct", "wrong"}]
Tallies == [n : Nat, correct : Nat, streak : Int]

NoForecast == [pick |-> Unknown, due |-> 0, resolution |-> Unknown, outcome |-> "none"]
NoSnap == [m \in Matches |-> [kickoff |-> 0, score |-> Unknown]]
NoRequest == [op |-> "idle", key |-> CHOOSE k \in Keys : TRUE, kickoff |-> 0, at |-> 0]
Resting == [pc |-> "sleep", todo |-> {}, match |-> Unknown, snap |-> NoSnap]

ForecastTypeOK ==
    /\ now \in 0 .. MaxTime
    /\ feed \in [Matches -> Fixtures] /\ match \in [Matches -> Fixtures]
    /\ row \in [Keys -> Forecasts]
    /\ stats \in [People -> Tallies]
    /\ poll \in [Replicas -> [pc : {"sleep", "upsert", "settle"}, todo : SUBSET Matches,
                              match : Matches \cup {Unknown}, snap : [Matches -> Fixtures]]]
    /\ req \in [Requests -> [op : {"idle", "forecast", "resolve"}, key : Keys,
                             kickoff : 0 .. MaxTime, at : 0 .. MaxTime]]
    /\ graded \in [People -> Seq(Keys)]
    /\ fixes \in 0 .. MaxFixes

ForecastInit ==
    /\ now = 0
    /\ feed = [m \in Matches |-> [kickoff |-> 1, score |-> Unknown]]
    /\ match = feed
    /\ row = [k \in Keys |-> NoForecast]
    /\ stats = [p \in People |-> [n |-> 0, correct |-> 0, streak |-> 0]]
    /\ poll = [r \in Replicas |-> Resting]
    /\ req = [r \in Requests |-> NoRequest]
    /\ graded = [p \in People |-> <<>>]
    /\ fixes = 0

-----------------------------------------------------------------------------
(* Time and the feed. *)

\* A unit is long against a tick of a poller and shorter than a match.  A
\* forecast begun before a deadline may be written after it.
Tick ==
    /\ now < MaxTime
    /\ \A r \in Requests : req[r].op = "idle" \/ (req[r].op = "forecast" /\ req[r].at = now)
    /\ \A r \in Replicas : poll[r].pc = "sleep"
    /\ now' = now + 1
    /\ UNCHANGED <<feed, match, row, stats, poll, req, graded, fixes>>

\* External: a match that has not begun is postponed.
Postpone(m) ==
    /\ feed[m].score = Unknown /\ now < feed[m].kickoff
    /\ \E t \in feed[m].kickoff + 1 .. MaxTime - 1 : feed' = [feed EXCEPT ![m].kickoff = t]
    /\ UNCHANGED <<now, match, row, stats, poll, req, graded, fixes>>

\* External: full time.
Finish(m, s) ==
    /\ feed[m].score = Unknown /\ feed[m].kickoff < now
    /\ feed' = [feed EXCEPT ![m].score = s]
    /\ UNCHANGED <<now, match, row, stats, poll, req, graded, fixes>>

\* External: a final score is corrected.
Correct(m, s) ==
    /\ feed[m].score \notin {Unknown, s} /\ fixes < MaxFixes
    /\ feed' = [feed EXCEPT ![m].score = s]
    /\ fixes' = fixes + 1
    /\ UNCHANGED <<now, match, row, stats, poll, req, graded>>

-----------------------------------------------------------------------------
(* Grading. *)

Graded(k, resolution) ==
    [row[k] EXCEPT !.resolution = resolution,
                   !.outcome = IF row[k].pick = resolution THEN "correct" ELSE "wrong"]

\* INSERT ... ON CONFLICT DO UPDATE of prediction_stats.
Counted(tally, outcome) ==
    LET more(a, b) == IF a > b THEN a ELSE b
        less(a, b) == IF a < b THEN a ELSE b
    IN [n |-> tally.n + 1,
        correct |-> tally.correct + IF outcome = "correct" THEN 1 ELSE 0,
        streak |-> IF outcome = "correct" THEN more(tally.streak, 0) + 1
                                          ELSE less(tally.streak, 0) - 1]

\* The rows of ks, at most one of a person, are graded and counted.
Grade(ks, resolution) ==
    LET mine(p) == {k \in ks : Owner(k) = p} IN
    /\ row' = [k \in Keys |-> IF k \in ks THEN Graded(k, resolution) ELSE row[k]]
    /\ stats' = [p \in People |->
         IF mine(p) = {} THEN stats[p]
         ELSE Counted(stats[p], Graded(CHOOSE k \in mine(p) : TRUE, resolution).outcome)]
    /\ graded' = [p \in People |-> graded[p] \o SetToSeq(mine(p))]

Locked(k) == \E r \in Requests : req[r].op = "resolve" /\ req[r].key = k

Ungraded(k) == row[k].pick # Unknown /\ row[k].outcome = "none"

-----------------------------------------------------------------------------
(* The poller. *)

Fetch(r) ==
    /\ poll[r].pc = "sleep"
    /\ poll' = [poll EXCEPT ![r] = [pc |-> "upsert", todo |-> Matches, match |-> Unknown,
                                    snap |-> feed]]
    /\ UNCHANGED <<now, feed, match, row, stats, req, graded, fixes>>

\* The loop of a tick: on to the next match, or to sleep.
Advanced(r) ==
    IF poll[r].todo = {} THEN Resting
    ELSE [poll[r] EXCEPT !.pc = "upsert", !.match = Unknown]

\* The fetched fixture replaces the stored one; a finished one is settled next.
UpsertMatch(r, m) ==
    LET rest == poll[r].todo \ {m} IN
    /\ poll[r].pc = "upsert" /\ m \in poll[r].todo
    /\ match' = [match EXCEPT ![m] = poll[r].snap[m]]
    /\ poll' = [poll EXCEPT ![r] =
         IF poll[r].snap[m].score # Unknown
           THEN [poll[r] EXCEPT !.pc = "settle", !.todo = rest, !.match = m]
         ELSE IF rest = {} THEN Resting ELSE [poll[r] EXCEPT !.todo = rest]]
    /\ UNCHANGED <<now, feed, row, stats, req, graded, fixes>>

\* SettleMatchParticipants.  The stored score decides, not the fetched one;
\* another process may have put an unfinished match back in its place.
SettleMatch(r) ==
    LET m == poll[r].match
        open == {k \in Keys : Subject(k) = m /\ Ungraded(k)}
    IN
    /\ poll[r].pc = "settle"
    /\ \A k \in open : ~Locked(k)
    /\ IF match[m].score # Unknown
         THEN Grade(open, match[m].score) ELSE UNCHANGED <<row, stats, graded>>
    /\ poll' = [poll EXCEPT ![r] = Advanced(r)]
    /\ UNCHANGED <<now, feed, match, req, fixes>>

\* A failed fetch or statement: the error is logged, the next tick does it all
\* again.  Also a deadlock of two settlements, or a restart.
PollFails(r) ==
    /\ poll[r].pc # "sleep"
    /\ poll' = [poll EXCEPT ![r] = Resting]
    /\ UNCHANGED <<now, feed, match, row, stats, req, graded, fixes>>

-----------------------------------------------------------------------------
(* Requests. *)

\* The statement's snapshot has the match unstarted; for another the answer is
\* an error.
BeginForecast(r, k) ==
    /\ req[r].op = "idle" /\ OnMatch(k)
    /\ match[Subject(k)].kickoff > now
    /\ req' = [req EXCEPT ![r] = [op |-> "forecast", key |-> k,
                                  kickoff |-> match[Subject(k)].kickoff, at |-> now]]
    /\ UNCHANGED <<now, feed, match, row, stats, poll, graded, fixes>>

\* The author's post; its deletion would only take forecasts away and is left
\* out.
BeginPostForecast(r, k) ==
    /\ req[r].op = "idle" /\ ~OnMatch(k)
    /\ req' = [req EXCEPT ![r] = [op |-> "forecast", key |-> k, kickoff |-> 0, at |-> now]]
    /\ UNCHANGED <<now, feed, match, row, stats, poll, graded, fixes>>

Written(k, pick, due) == row' = [row EXCEPT ![k].pick = pick, ![k].due = due]

\* The conflict clause reads the match again in the same snapshot, so the
\* answer is that of the beginning.
UpsertPrediction(r, pick) ==
    LET k == req[r].key IN
    /\ req[r].op = "forecast" /\ OnMatch(k) /\ ~Locked(k)
    /\ Written(k, pick, req[r].kickoff)
    /\ req' = [req EXCEPT ![r] = NoRequest]
    /\ UNCHANGED <<now, feed, match, stats, poll, graded, fixes>>

\* Mutant: the update does not look whether the row is resolved.
Revisable_Resolved(k, at) == row[k].pick = Unknown \/ row[k].due > at

\* The conflict clause sees the row as it is now, under the request's NOW().
Revisable(k, at) ==
    row[k].pick = Unknown \/ (row[k].due > at /\ row[k].resolution = Unknown)

UpsertPostPrediction(r, pick, due) ==
    LET k == req[r].key IN
    /\ req[r].op = "forecast" /\ ~OnMatch(k) /\ ~Locked(k)
    /\ due > req[r].at
    /\ IF Revisable(k, req[r].at) THEN Written(k, pick, due) ELSE UNCHANGED row
    /\ req' = [req EXCEPT ![r] = NoRequest]
    /\ UNCHANGED <<now, feed, match, stats, poll, graded, fixes>>

\* Mutant: the row is read without FOR UPDATE.
ResolveLock_Unlocked(r, k) ==
    /\ req[r].op = "idle" /\ Ungraded(k) /\ row[k].due <= now
    /\ req' = [req EXCEPT ![r] = [op |-> "resolve", key |-> k, kickoff |-> 0, at |-> 0]]
    /\ UNCHANGED <<now, feed, match, row, stats, poll, graded, fixes>>

\* SELECT ... FOR UPDATE of a row of the caller's own, and the checks that
\* follow; a resolved row, or one not due, is answered and nothing changes.
\* Nothing asks whether the row is about a post.
ResolveLock(r, k) ==
    /\ req[r].op = "idle" /\ ~Locked(k) /\ Ungraded(k) /\ row[k].due <= now
    /\ req' = [req EXCEPT ![r] = [op |-> "resolve", key |-> k, kickoff |-> 0, at |-> 0]]
    /\ UNCHANGED <<now, feed, match, row, stats, poll, graded, fixes>>

ResolveCommit(r, resolution) ==
    /\ req[r].op = "resolve"
    /\ Grade({req[r].key}, resolution)
    /\ req' = [req EXCEPT ![r] = NoRequest]
    /\ UNCHANGED <<now, feed, match, poll, fixes>>

\* A request fails or is canceled: its transaction is rolled back.
RequestFails(r) ==
    /\ req[r].op # "idle"
    /\ req' = [req EXCEPT ![r] = NoRequest]
    /\ UNCHANGED <<now, feed, match, row, stats, poll, graded, fixes>>

-----------------------------------------------------------------------------

Outside ==
    \/ Tick
    \/ \E m \in Matches : Postpone(m) \/ \E s \in Picks : Finish(m, s) \/ Correct(m, s)

Polling(r) == Fetch(r) \/ SettleMatch(r) \/ \E m \in Matches : UpsertMatch(r, m)

Serving(r) ==
    \E pick \in Picks :
        \/ UpsertPrediction(r, pick)
        \/ \E due \in 1 .. MaxTime - 1 : UpsertPostPrediction(r, pick, due)
        \/ ResolveCommit(r, pick)

Asking(r) ==
    \E k \in Keys : BeginForecast(r, k) \/ BeginPostForecast(r, k) \/ ResolveLock(r, k)

ForecastNext ==
    \/ Outside
    \/ \E r \in Replicas : Polling(r) \/ PollFails(r)
    \/ \E r \in Requests : Asking(r) \/ Serving(r) \/ RequestFails(r)

ForecastSpec == ForecastInit /\ [][ForecastNext]_forecastVars

-----------------------------------------------------------------------------
(* Properties. *)

NoTally == [n |-> 0, correct |-> 0, streak |-> 0]

\* What the rows of ks, graded in this order, come to.
TallyOf(rows, ks) ==
    FoldLeft(LAMBDA tally, k : Counted(tally, rows[k].outcome), NoTally, ks)

\* A record counts every graded forecast of its owner once and by the outcome
\* the ledger shows, in the order of grading, however many pollers and
\* resolutions met: no forecast is counted twice, skipped or changed after.
StatsExplained ==
    \A p \in People :
        /\ IsInjective(graded[p])
        /\ ToSet(graded[p]) = {k \in Keys : Owner(k) = p /\ row[k].outcome # "none"}
        /\ stats[p] = TallyOf(row, graded[p])

\* A graded forecast is history: its pick, resolution and outcome stay as they
\* were graded, also under a revision that began before the deadline.  A match
\* forecast that its author resolved is left out until full time.
GradedStands ==
    [][\A k \in Keys :
          row[k].outcome # "none" /\ (OnMatch(k) => feed[Subject(k)].score # Unknown)
          => row'[k] = row[k]]_forecastVars

\* Does not hold.  docs/PREDICTIONS.md: "An update cannot extend or replace
\* that first deadline", of the forecast on a post.
FirstDeadlineStands ==
    [][\A k \in Keys : ~OnMatch(k) /\ row[k].pick # Unknown => row'[k].due = row[k].due]_forecastVars

=============================================================================
