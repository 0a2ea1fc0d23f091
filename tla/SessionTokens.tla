---------------------------- MODULE SessionTokens ----------------------------
(***************************************************************************)
(* Password, lockout, refresh tokens and deletion of one human account:    *)
(* Login, Refresh, Logout and ChangePassword of                            *)
(* internal/api/handlers/auth.go over the rows of                          *)
(* internal/repository/refresh_token.go, Delete and CancelDelete of        *)
(* internal/api/handlers/account.go, and the sweep that erases accounts.   *)
(*                                                                         *)
(* No handler uses a transaction: each statement is a step, and requests   *)
(* of several devices, tabs and replicas are between any two.  Time is a   *)
(* choice: a token may expire and a lock may end at any moment, and a      *)
(* revoked token may be presented within the grace window, which is only   *)
(* refused, or after it.  One replica sweeps: an account erased twice is   *)
(* as erased once.                                                         *)
(*                                                                         *)
(* Access tokens, which nothing stores, and the request limiters are left  *)
(* out.                                                                    *)
(***************************************************************************)
EXTENDS Integers, FiniteSets

CONSTANTS
    Slots,        \* requests served at one time
    MaxFailures,  \* wrong passwords that lock the account: 5 in the code
    MaxTokens,    \* bound: rows of refresh_tokens
    MaxChanges,   \* bound: password changes
    MaxGuesses,   \* bound: failed_login_count, and the wrong passwords
    MaxRequests   \* bound: requests

ASSUME BoundAssumption ==
    /\ MaxFailures \in Nat \ {0} /\ MaxTokens \in Nat \ {0}
    /\ MaxChanges \in Nat /\ MaxGuesses \in Nat /\ MaxRequests \in Nat
ASSUME SlotsAssumption == IsFiniteSet(Slots)

Tokens == 1 .. MaxTokens

VARIABLES
    token,     \* refresh_tokens, and of each row the history of its session
    hash,      \* password_hash, as the number of the password
    failed,    \* failed_login_count
    locked,    \* locked_until is in the future
    account,   \* pending_deletion_at, and whether Anonymize has blanked the row
    sweep,     \* whether the sweep has listed the account and not reached it yet
    request,   \* what each slot is serving
    wanted,    \* history: deletion is asked for, or was when the sweep listed it
    requests,  \* requests so far
    spared,    \* history: what a RevokeAll that failed should have ended
    guesses,   \* history: wrong passwords since a login, or the end of a lock
    uncounted  \* history: those of them that failed_login_count has missed

vars == <<token, hash, failed, locked, account, sweep, request, requests, wanted, spared,
          guesses, uncounted>>

\* What deletion and the sweep are about, and what sign-in is about.
erasure == <<account, sweep, wanted>>
signin == <<failed, locked, guesses, uncounted>>

\* The row a session began with is its login.  A reuse was detected while the
\* session went on (exposed); RevokeAll has ended it, or ran during its login or
\* a refresh of it (raced).  It is forked once two refreshes of one of its tokens
\* overlapped, or one was cut short.
NoToken == [state |-> "none", login |-> 0, hash |-> 0, exposed |-> FALSE,
            ended |-> FALSE, raced |-> FALSE, forked |-> FALSE]
Idle == [pc |-> "idle", token |-> 0, hash |-> 0, raced |-> FALSE]

\* password_hash = '!' of an erased account, which no password matches.
NoPassword == -1

TypeOK ==
    /\ token \in [Tokens -> [state : {"none", "live", "expired", "revoked"},
                             login : 0 .. MaxTokens, hash : 0 .. MaxChanges,
                             exposed : BOOLEAN,
                             ended : BOOLEAN, raced : BOOLEAN, forked : BOOLEAN]]
    /\ hash \in 0 .. MaxChanges
    /\ failed \in 0 .. MaxGuesses
    /\ locked \in BOOLEAN
    /\ account \in [deletion : {"none", "pending", "due"},
                    erased : BOOLEAN, barred : BOOLEAN]
    /\ sweep \in {"idle", "listed"}
    /\ wanted \in {"no", "yes", "late"}
    /\ request \in [Slots -> [pc : {"idle", "check", "keep", "mint", "rotate", "retire",
                                    "reuse", "change", "end", "delete"},
                              token : 0 .. MaxTokens, hash : NoPassword .. MaxChanges,
                              raced : BOOLEAN]]
    /\ requests \in 0 .. MaxRequests
    /\ spared \subseteq {"reuse", "end"}
    /\ guesses \in 0 .. MaxGuesses /\ uncounted \in 0 .. MaxGuesses

\* A registered account, without a session.
Init ==
    /\ token = [t \in Tokens |-> NoToken]
    /\ hash = 0 /\ failed = 0 /\ locked = FALSE
    /\ account = [deletion |-> "none", erased |-> FALSE, barred |-> FALSE]
    /\ sweep = "idle" /\ wanted = "no"
    /\ request = [s \in Slots |-> Idle]
    /\ spared = {} /\ guesses = 0 /\ uncounted = 0 /\ requests = 0

-----------------------------------------------------------------------------

Live(t) == token[t].state = "live"
Sessions(login) == {t \in Tokens : token[t].state # "none" /\ token[t].login = login}

Goto(s, pc) == request' = [request EXCEPT ![s].pc = pc] /\ UNCHANGED requests
Answer(s) == request' = [request EXCEPT ![s] = Idle] /\ UNCHANGED requests
Counted == requests < MaxRequests /\ requests' = requests + 1
Password == IF account.barred THEN NoPassword ELSE hash
Begin(s, pc, t) ==
    /\ request[s].pc = "idle"
    /\ Counted
    /\ request' = [request EXCEPT ![s] = [pc |-> pc, token |-> t, hash |-> Password, raced |-> FALSE]]

\* The next row of refresh_tokens.
Create(t, row) ==
    /\ token[t].state = "none" /\ \A u \in 1 .. t - 1 : token[u].state # "none"
    /\ token' = [token EXCEPT ![t] = row]

\* Of every token of the account, where it is not revoked yet.  The caller is
\* the slot s.
RevokeAll(s) ==
    /\ token' = [t \in Tokens |->
         IF token[t].state = "none" THEN NoToken
         ELSE [token[t] EXCEPT !.state = "revoked", !.ended = TRUE, !.raced = FALSE]]
    /\ request' = [r \in Slots |->
         IF r = s \/ request[r].pc = "idle" THEN Idle ELSE [request[r] EXCEPT !.raced = TRUE]]
    /\ spared' = {}

-----------------------------------------------------------------------------
(* Login. *)

\* GetHumanByEmail; a locked account is refused.
LoginRead(s) ==
    /\ ~locked
    /\ Begin(s, "check", 0)
    /\ UNCHANGED <<token, hash, spared, signin, erasure>>

\* Mutant: the count is compared as if it were the new one.
Locks_Late(count) == count >= MaxFailures

\* failed_login_count >= 4, of the count before the increment.
Locks(count) == count >= MaxFailures - 1

Guess == guesses < MaxGuesses /\ guesses' = guesses + 1

\* The caller is told so whether or not the count was stored.
Uncounted == uncounted' = uncounted + 1 /\ UNCHANGED <<failed, locked>>

\* The count and the lock, in one statement whose error is ignored.
WrongPassword(s) ==
    /\ request[s].pc = "check" /\ Guess
    /\ \/ failed < MaxGuesses /\ failed' = failed + 1
          /\ locked' = (locked \/ Locks(failed)) /\ UNCHANGED uncounted
       \/ Uncounted
    /\ Answer(s)
    /\ UNCHANGED <<token, hash, spared, erasure>>

\* ChangePassword and Delete ask for the password too, and count nothing.
WrongElsewhere(s) ==
    /\ request[s].pc = "idle" /\ Counted /\ Guess
    /\ Uncounted
    /\ UNCHANGED <<token, hash, request, spared, erasure>>

\* The reset of the count and the lock, whose error is ignored.
RightPassword(s) ==
    /\ request[s].pc = "check" /\ request[s].hash # NoPassword
    /\ \/ failed' = 0 /\ locked' = FALSE /\ guesses' = 0 /\ uncounted' = 0
       \/ UNCHANGED signin
    /\ Goto(s, "keep")
    /\ UNCHANGED <<token, hash, spared, erasure>>

\* pending_deletion_at = NULL, which comes too late for a sweep under way.
Withdrawn ==
    /\ account' = [account EXCEPT !.deletion = "none"]
    /\ wanted' = IF wanted = "yes" /\ sweep = "listed" THEN "late"
                 ELSE IF wanted = "yes" THEN "no" ELSE wanted

\* Mutant: a login leaves a pending deletion alone.
KeepAccount_Deleted(s) ==
    /\ request[s].pc = "keep"
    /\ wanted' = IF wanted = "yes" THEN "no" ELSE wanted
    /\ Goto(s, "mint")
    /\ UNCHANGED <<token, hash, spared, signin, account, sweep>>

\* A login cancels a pending deletion; the error of this one is ignored too.
KeepAccount(s) ==
    /\ request[s].pc = "keep"
    /\ Withdrawn \/ UNCHANGED <<account, wanted>>
    /\ Goto(s, "mint")
    /\ UNCHANGED <<token, hash, spared, signin, sweep>>

Mint(s, t) ==
    /\ request[s].pc = "mint"
    /\ Create(t, [state |-> "live", login |-> t, hash |-> request[s].hash,
                  exposed |-> FALSE, ended |-> FALSE,
                  raced |-> request[s].raced, forked |-> FALSE])
    /\ Answer(s)
    /\ UNCHANGED <<hash, spared, signin, erasure>>

-----------------------------------------------------------------------------
(* Refresh. *)

Rotating(t) == \E s \in Slots : request[s].pc \in {"rotate", "retire"} /\ request[s].token = t

\* Every row of the session of t, marked.
Forked(t) ==
    [u \in Tokens |-> IF u \in Sessions(token[t].login) THEN [token[u] EXCEPT !.forked = TRUE]
                                                        ELSE token[u]]

\* FindByLookupHash of a live token.
RefreshRead(s, t) ==
    /\ Live(t)
    /\ Begin(s, "rotate", t)
    /\ token' = IF Rotating(t) THEN Forked(t) ELSE token
    /\ UNCHANGED <<hash, spared, signin, erasure>>

\* Mutant: a revoked token is told by its expiry alone.
ReuseRead_Rotated(s, t) ==
    /\ token[t].state = "revoked"
    /\ Begin(s, "rotate", t)
    /\ UNCHANGED <<token, hash, spared, signin, erasure>>

\* A revoked token after the grace window: every session is to be ended.
ReuseRead(s, t) ==
    /\ token[t].state = "revoked"
    /\ Begin(s, "reuse", 0)
    /\ token' = [u \in Tokens |-> IF token[u].state = "none" THEN NoToken
                                  ELSE [token[u] EXCEPT !.exposed = TRUE]]
    /\ UNCHANGED <<hash, spared, signin, erasure>>

Rotate(s, t) ==
    LET old == token[request[s].token] IN
    /\ request[s].pc = "rotate"
    /\ Create(t, [old EXCEPT !.state = "live",
                             !.raced = @ \/ request[s].raced])
    /\ Goto(s, "retire")
    /\ UNCHANGED <<hash, spared, signin, erasure>>

\* Mutant: the old token is left to expire.
Retire_Left(s) ==
    /\ request[s].pc = "retire"
    /\ Answer(s)
    /\ UNCHANGED <<token, hash, spared, signin, erasure>>

\* Revoke by id, whatever the row has become.
Retire(s) ==
    /\ request[s].pc = "retire"
    /\ token' = [token EXCEPT ![request[s].token].state = "revoked"]
    /\ Answer(s)
    /\ UNCHANGED <<hash, spared, signin, erasure>>

-----------------------------------------------------------------------------
(* Logout and ChangePassword. *)

Logout(s) ==
    /\ request[s].pc = "idle" /\ Counted
    /\ RevokeAll(s)
    /\ UNCHANGED <<hash, signin, erasure>>

\* The current password is right by the row that was read.
ChangeRead(s) ==
    /\ Password # NoPassword /\ Begin(s, "change", 0)
    /\ UNCHANGED <<token, hash, spared, signin, erasure>>

UpdatePassword(s) ==
    /\ request[s].pc = "change" /\ hash < MaxChanges
    /\ hash' = hash + 1
    /\ account' = [account EXCEPT !.barred = FALSE]
    /\ Goto(s, "end")
    /\ UNCHANGED <<token, spared, signin, sweep, wanted>>

EndSessions(s) ==
    /\ request[s].pc \in {"reuse", "end"}
    /\ RevokeAll(s) /\ UNCHANGED requests
    /\ UNCHANGED <<hash, signin, erasure>>

-----------------------------------------------------------------------------
(* Deletion, its seven days of grace, and the sweep. *)

DeleteRead(s) ==
    /\ Password # NoPassword /\ Begin(s, "delete", 0)
    /\ UNCHANGED <<token, hash, spared, signin, erasure>>

\* The clock of an earlier request goes on.
Schedule(s) ==
    /\ request[s].pc = "delete"
    /\ account' = [account EXCEPT !.deletion = IF @ = "none" THEN "pending" ELSE @]
    /\ wanted' = "yes"
    /\ Answer(s)
    /\ UNCHANGED <<token, hash, spared, signin, sweep>>

CancelDelete ==
    /\ account.deletion # "none"
    /\ Withdrawn
    /\ UNCHANGED <<token, hash, request, requests, spared, signin, sweep>>

GraceEnds ==
    /\ account.deletion = "pending"
    /\ account' = [account EXCEPT !.deletion = "due"]
    /\ UNCHANGED <<token, hash, request, requests, spared, signin, sweep, wanted>>

SweepList ==
    /\ sweep = "idle" /\ account.deletion = "due"
    /\ sweep' = "listed"
    /\ UNCHANGED <<token, hash, request, requests, spared, signin, account, wanted>>

\* Anonymize, in one transaction, of an account on the list, whatever has
\* become of its deletion.  Its sessions go on.
Erase ==
    /\ sweep = "listed"
    /\ account' = [deletion |-> "none", erased |-> TRUE, barred |-> TRUE]
    /\ failed' = 0 /\ locked' = FALSE /\ guesses' = 0 /\ uncounted' = 0
    /\ sweep' = "idle" /\ wanted' = "no"
    /\ UNCHANGED <<token, hash, request, requests, spared>>

\* The statement failed or the process died: the next day's sweep lists anew.
SweepFails ==
    /\ sweep = "listed"
    /\ sweep' = "idle"
    /\ wanted' = IF wanted = "late" THEN "no" ELSE wanted
    /\ UNCHANGED <<token, hash, request, requests, spared, signin, account>>

-----------------------------------------------------------------------------

\* A statement fails, the client leaves or the process dies.  A failed Revoke,
\* or RevokeAll of a password change, is logged and the answer is that of a
\* success; the error of a RevokeAll after a reuse is dropped, and the log says
\* that all sessions were revoked.
Fault(s) ==
    /\ request[s].pc # "idle"
    /\ token' = IF request[s].pc = "retire" THEN Forked(request[s].token) ELSE token
    /\ spared' = spared \cup ({request[s].pc} \cap {"reuse", "end"})
    /\ Answer(s)
    /\ UNCHANGED <<hash, signin, erasure>>

Expire(t) ==
    /\ Live(t)
    /\ token' = [token EXCEPT ![t].state = "expired"]
    /\ UNCHANGED <<hash, request, requests, spared, signin, erasure>>

LockEnds ==
    /\ locked
    /\ locked' = FALSE /\ guesses' = 0 /\ uncounted' = 0
    /\ UNCHANGED <<token, hash, failed, request, requests, spared, erasure>>

Next ==
    \/ \E s \in Slots :
         \/ LoginRead(s) \/ WrongPassword(s) \/ RightPassword(s) \/ KeepAccount(s)
         \/ WrongElsewhere(s) \/ Retire(s)
         \/ Logout(s) \/ ChangeRead(s) \/ UpdatePassword(s) \/ EndSessions(s)
         \/ DeleteRead(s) \/ Schedule(s)
         \/ Fault(s)
         \/ \E t \in Tokens : Mint(s, t) \/ RefreshRead(s, t) \/ ReuseRead(s, t) \/ Rotate(s, t)
    \/ \E t \in Tokens : Expire(t)
    \/ LockEnds
    \/ CancelDelete \/ GraceEnds \/ SweepList \/ Erase \/ SweepFails

Spec == Init /\ [][Next]_vars

-----------------------------------------------------------------------------
(* Properties. *)

\* A RevokeAll that a detected reuse or a password change calls for is still to
\* come, or has failed, and none has succeeded since.
Owed(cause) == (\E s \in Slots : request[s].pc = cause) \/ cause \in spared

\* After a logout, a detected reuse or a password change no session of before
\* goes on, however often it is rotated, and none of the old password.  There are
\* two exceptions: a login or a refresh of the session overlapped the end of the
\* sessions (raced), or the RevokeAll of the reuse or of the password change was
\* cut off or failed, which the caller is not told (spared).
NoSurvivor ==
    \A t \in Tokens : Live(t) /\ ~token[t].raced =>
        /\ ~token[t].ended
        /\ token[t].exposed => Owed("reuse")
        /\ token[t].hash = hash \/ Owed("end")

\* A session has one token that can be refreshed, except while a refresh is
\* replacing it, once two refreshes of one token overlapped, or one was cut
\* short after the new token was stored.
OneHeir ==
    \A t, u \in Tokens :
        Live(t) /\ Live(u) /\ t # u /\ token[t].login = token[u].login =>
            token[t].forked \/ Rotating(t) \/ Rotating(u)

\* No account is erased whose owner has logged in, or cancelled, since asking
\* for it, unless that came after the sweep had listed the account, or the
\* login's cancellation failed, which nobody is told.
ErasureWanted == [][account'.erased /\ ~account.erased => wanted # "no"]_vars

\* The lock bounds the guesses it hears of: wrong passwords between two logins,
\* or after a lock has ended, exceed the limit by no more than the requests that
\* are past the check of the lock, and those that nobody counted: an UPDATE that
\* failed, and every wrong password given to ChangePassword or Delete.
GuessesBounded == guesses <= MaxFailures + Cardinality(Slots) - 1 + uncounted

-----------------------------------------------------------------------------
(* What the code says and does not do. *)

\* Does not hold: "revoked all sessions" is logged of a detected reuse whether
\* or not they were (auth.go:377-378).
ReuseEndsAll ==
    \A t \in Tokens : Live(t) /\ ~token[t].raced /\ token[t].exposed =>
        \E s \in Slots : request[s].pc = "reuse"

\* Does not hold: "lock after 5 failures" (auth.go:274), of every wrong password.
GuessesLimited == guesses <= MaxFailures + Cardinality(Slots) - 1

=============================================================================
