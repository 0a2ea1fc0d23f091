------------------------- MODULE SessionTokensProofs -------------------------
(***************************************************************************)
(* Theorems about SessionTokens for every number of requests served at one *)
(* time, every lockout limit and every bound of the model.                 *)
(***************************************************************************)
EXTENDS SessionTokens, FiniteSetTheorems, TLAPS

RotatePcs == {"rotate", "retire"}

\* A refresh works on a row that exists; past the password check the hash that
\* was read is one a password can match; the row counts the guesses it hears of.
RequestsKnown ==
    /\ \A s \in Slots :
         /\ request[s].pc \in RotatePcs =>
              request[s].token \in Tokens /\ token[request[s].token].state # "none"
         /\ request[s].pc \in {"keep", "mint"} => request[s].hash # NoPassword
    /\ uncounted <= guesses /\ guesses <= failed + uncounted

\* The account to be erased was asked to be, or was when the sweep listed it.
SweepIsWanted ==
    /\ account.deletion # "none" => wanted = "yes"
    /\ sweep = "listed" => wanted # "no"

Checking == {s \in Slots : request[s].pc = "check"}

\* Past the limit nobody enters the password check, so each further guess that
\* counts uses up one of the requests inside it.
GuessesLeft ==
    /\ ~locked => guesses <= MaxFailures - 1 + uncounted
    /\ locked => guesses + Cardinality(Checking)
                   <= MaxFailures + Cardinality(Slots) - 1 + uncounted

\* What a session may go on with: the current password, or one whose sessions
\* are still to be ended, or were spared; and no reuse other than such a one.
Honest(password) == password = hash \/ Owed("end")
Untouched(row) ==
    row.raced \/ (~row.ended /\ (row.exposed => Owed("reuse")) /\ Honest(row.hash))

\* What a request that no RevokeAll overlapped is about to store: a session of
\* the current password, or the continuation of one that has not been ended.
PendingSessions ==
    \A s \in Slots : ~request[s].raced =>
        /\ request[s].pc \in {"check", "keep", "mint"} =>
             request[s].hash = NoPassword \/ Honest(request[s].hash)
        /\ request[s].pc = "rotate" => Untouched(token[request[s].token])

\* The rows of a session name its first row, and fork together.
SessionRows ==
    /\ \A t \in Tokens : token[t].state # "none" =>
         token[t].login \in Tokens /\ token[token[t].login].state # "none"
    /\ \A t, u \in Tokens :
         token[t].state # "none" /\ token[u].state # "none" /\ token[t].login = token[u].login
           => token[t].forked = token[u].forked

\* In a session that never forked there is at most one heir: a live token that
\* nobody refreshes, or a refresh that has not stored its token yet.  No two
\* refreshes share a token.
HeirsToCome ==
    /\ \A s \in Slots, u \in Tokens :
         /\ request[s].pc = "rotate"
         /\ Live(u)
         /\ token[u].login = token[request[s].token].login
         => token[u].forked \/ Rotating(u)
    /\ \A s, r \in Slots :
         /\ s # r
         /\ request[s].pc \in RotatePcs /\ request[r].pc \in RotatePcs
         /\ \/ request[s].token = request[r].token
            \/ /\ request[s].pc = "rotate" /\ request[r].pc = "rotate"
               /\ token[request[s].token].login = token[request[r].token].login
         => token[request[s].token].forked

SessionInv ==
    /\ TypeOK
    /\ RequestsKnown
    /\ SweepIsWanted
    /\ GuessesLeft
    /\ NoSurvivor
    /\ PendingSessions
    /\ SessionRows
    /\ OneHeir
    /\ HeirsToCome

-----------------------------------------------------------------------------
(* What the steps write, row by row.                                       *)

Pcs == {"idle", "check", "keep", "mint", "rotate", "retire", "reuse", "change", "end", "delete"}
TokenRows == [state : {"none", "live", "expired", "revoked"},
              login : 0 .. MaxTokens, hash : 0 .. MaxChanges, exposed : BOOLEAN,
              ended : BOOLEAN, raced : BOOLEAN, forked : BOOLEAN]
RequestRows == [pc : Pcs, token : 0 .. MaxTokens, hash : NoPassword .. MaxChanges,
                raced : BOOLEAN]

LEMMA Limits ==
    /\ MaxTokens \in Nat \ {0} /\ MaxChanges \in Nat /\ MaxGuesses \in Nat
    /\ MaxFailures \in Nat \ {0} /\ MaxRequests \in Nat
    /\ Tokens \subseteq 0 .. MaxTokens
    /\ 0 \in 0 .. MaxTokens /\ 0 \in 0 .. MaxChanges /\ 0 \in 0 .. MaxGuesses
    /\ NoPassword \in NoPassword .. MaxChanges
    /\ 0 .. MaxChanges \subseteq NoPassword .. MaxChanges
    /\ \A n \in NoPassword .. MaxChanges : n # NoPassword => n \in 0 .. MaxChanges
    /\ NoToken \in TokenRows
    /\ Idle \in RequestRows /\ Idle.pc = "idle"
  BY BoundAssumption DEF Tokens, NoPassword, NoToken, TokenRows, Idle, RequestRows, Pcs

LEMMA Begins ==
    ASSUME TypeOK, NEW s \in Slots, NEW pc \in Pcs, NEW t \in 0 .. MaxTokens, Begin(s, pc, t)
    PROVE  /\ request' \in [Slots -> RequestRows] /\ requests' \in 0 .. MaxRequests
           /\ request[s].pc = "idle"
           /\ request'[s].pc = pc /\ request'[s].token = t /\ request'[s].hash = Password
           /\ request'[s].raced = FALSE
           /\ \A r \in Slots : r # s => request'[r] = request[r]
<1>1. Password \in NoPassword .. MaxChanges
  BY Limits DEF Password, TypeOK
<1> DEFINE q == [pc |-> pc, token |-> t, hash |-> Password, raced |-> FALSE]
<1>2. /\ q \in RequestRows /\ q.pc = pc /\ q.token = t /\ q.hash = Password /\ q.raced = FALSE
  BY <1>1 DEF RequestRows
<1>3. request' = [request EXCEPT ![s] = q] /\ request[s].pc = "idle"
  BY DEF Begin
<1>4. requests' \in 0 .. MaxRequests
  BY Limits DEF Begin, Counted, TypeOK
<1> HIDE DEF q
<1> QED
  BY <1>2, <1>3, <1>4 DEF TypeOK, RequestRows, Pcs

LEMMA Goes ==
    ASSUME TypeOK, NEW s \in Slots, NEW pc \in Pcs, Goto(s, pc)
    PROVE  /\ request' \in [Slots -> RequestRows] /\ requests' \in 0 .. MaxRequests
           /\ request'[s].pc = pc /\ request'[s].token = request[s].token
           /\ request'[s].hash = request[s].hash /\ request'[s].raced = request[s].raced
           /\ \A r \in Slots : r # s => request'[r] = request[r]
<1>1. request \in [Slots -> RequestRows]
  BY DEF TypeOK, RequestRows, Pcs
<1> QED
  BY <1>1 DEF Goto, TypeOK, RequestRows

LEMMA Answers ==
    ASSUME TypeOK, NEW s \in Slots, Answer(s)
    PROVE  /\ request' \in [Slots -> RequestRows] /\ requests' \in 0 .. MaxRequests
           /\ \A r \in Slots : request'[r] = IF r = s THEN Idle ELSE request[r]
<1>1. request \in [Slots -> RequestRows]
  BY DEF TypeOK, RequestRows, Pcs
<1> QED
  BY <1>1, Limits DEF Answer, TypeOK

LEMMA Creates ==
    ASSUME TypeOK, NEW t \in Tokens, NEW row \in TokenRows, Create(t, row)
    PROVE  /\ token' \in [Tokens -> TokenRows]
           /\ token[t].state = "none"
           /\ token'[t] = row
           /\ \A u \in Tokens : u # t => token'[u] = token[u]
  BY DEF Create, TypeOK, TokenRows

\* Revoke and Expire change the state of one row and nothing else of it.
LEMMA StateChanges ==
    ASSUME TypeOK, NEW t \in Tokens, NEW state \in {"expired", "revoked"},
           token' = [token EXCEPT ![t].state = state]
    PROVE  /\ token' \in [Tokens -> TokenRows]
           /\ token'[t].state = state
           /\ \A u \in Tokens :
                /\ u # t => token'[u] = token[u]
                /\ token'[u].login = token[u].login /\ token'[u].hash = token[u].hash
                /\ token'[u].ended = token[u].ended /\ token'[u].raced = token[u].raced
                /\ token'[u].exposed = token[u].exposed /\ token'[u].forked = token[u].forked
<1>1. token \in [Tokens -> TokenRows]
  BY DEF TypeOK, TokenRows
<1> QED
  BY <1>1 DEF TokenRows

LEMMA Forks ==
    ASSUME TypeOK, NEW t \in Tokens, token' = Forked(t)
    PROVE  /\ token' \in [Tokens -> TokenRows]
           /\ \A u \in Tokens :
                /\ token'[u].state = token[u].state /\ token'[u].login = token[u].login
                /\ token'[u].hash = token[u].hash /\ token'[u].ended = token[u].ended
                /\ token'[u].raced = token[u].raced /\ token'[u].exposed = token[u].exposed
                /\ token'[u].forked =
                     IF token[u].state # "none" /\ token[u].login = token[t].login
                     THEN TRUE ELSE token[u].forked
<1>1. token \in [Tokens -> TokenRows]
  BY DEF TypeOK, TokenRows
<1>2. \A u \in Tokens :
        token'[u] = IF token[u].state # "none" /\ token[u].login = token[t].login
                    THEN [token[u] EXCEPT !.forked = TRUE] ELSE token[u]
  BY DEF Forked, Sessions
<1>3. \A row \in TokenRows :
        LET marked == [row EXCEPT !.forked = TRUE]
        IN  /\ marked \in TokenRows /\ marked.state = row.state /\ marked.login = row.login
            /\ marked.hash = row.hash /\ marked.ended = row.ended /\ marked.raced = row.raced
            /\ marked.exposed = row.exposed /\ marked.forked = TRUE
  BY DEF TokenRows
<1> QED
  BY <1>1, <1>2, <1>3 DEF Forked

\* A detected reuse marks every row and changes nothing else of it.
LEMMA Exposes ==
    ASSUME TypeOK, NEW s \in Slots, NEW t \in Tokens, ReuseRead(s, t)
    PROVE  /\ token' \in [Tokens -> TokenRows]
           /\ \A u \in Tokens :
                /\ (token[u].state = "none") <=> (token'[u].state = "none")
                /\ token[u].state # "none" =>
                     /\ token'[u].state = token[u].state /\ token'[u].login = token[u].login
                     /\ token'[u].hash = token[u].hash /\ token'[u].ended = token[u].ended
                     /\ token'[u].raced = token[u].raced /\ token'[u].forked = token[u].forked
           /\ request' \in [Slots -> RequestRows] /\ requests' \in 0 .. MaxRequests
           /\ request[s].pc = "idle" /\ request'[s].pc = "reuse"
           /\ \A r \in Slots : r # s => request'[r] = request[r]
           /\ UNCHANGED <<hash, spared>>
<1>1. token \in [Tokens -> TokenRows]
  BY DEF TypeOK, TokenRows
<1>2. \A row \in TokenRows :
        LET marked == [row EXCEPT !.exposed = TRUE]
        IN  /\ marked \in TokenRows /\ marked.state = row.state /\ marked.login = row.login
            /\ marked.hash = row.hash /\ marked.ended = row.ended /\ marked.raced = row.raced
            /\ marked.forked = row.forked
  BY DEF TokenRows
<1>3. NoToken.state = "none"
  BY DEF NoToken
<1>4. token' = [u \in Tokens |-> IF token[u].state = "none" THEN NoToken
                                  ELSE [token[u] EXCEPT !.exposed = TRUE]]
  BY DEF ReuseRead
<1>5. \A u \in Tokens : token'[u] = IF token[u].state = "none" THEN NoToken
                                     ELSE [token[u] EXCEPT !.exposed = TRUE]
  BY <1>4
<1>6. token' \in [Tokens -> TokenRows]
  BY <1>1, <1>2, <1>4, Limits
<1>7. Begin(s, "reuse", 0) /\ "reuse" \in Pcs /\ 0 \in 0 .. MaxTokens
  BY Limits DEF ReuseRead, Pcs
<1>8. UNCHANGED <<hash, spared>>
  BY DEF ReuseRead
<1>9. ASSUME NEW u \in Tokens
      PROVE  /\ (token[u].state = "none") <=> (token'[u].state = "none")
             /\ token[u].state # "none" =>
                  /\ token'[u].state = token[u].state /\ token'[u].login = token[u].login
                  /\ token'[u].hash = token[u].hash /\ token'[u].ended = token[u].ended
                  /\ token'[u].raced = token[u].raced /\ token'[u].forked = token[u].forked
  <2>1. token[u] \in TokenRows
    BY <1>1
  <2>2. CASE token[u].state = "none"
    BY <1>3, <1>5, <2>2
  <2>3. CASE token[u].state # "none"
    <3>1. token'[u] = [token[u] EXCEPT !.exposed = TRUE]
      BY <1>5, <2>3
    <3> QED BY <1>2, <2>1, <2>3, <3>1
  <2> QED BY <2>2, <2>3
<1>10. /\ request' \in [Slots -> RequestRows] /\ requests' \in 0 .. MaxRequests
       /\ request[s].pc = "idle" /\ request'[s].pc = "reuse"
       /\ \A r \in Slots : r # s => request'[r] = request[r]
  BY <1>7, Begins
<1> QED
  BY <1>6, <1>8, <1>9, <1>10

LEMMA Revokes ==
    ASSUME TypeOK, NEW s \in Slots, RevokeAll(s)
    PROVE  /\ token' \in [Tokens -> TokenRows] /\ request' \in [Slots -> RequestRows]
           /\ \A t \in Tokens :
                /\ (token[t].state = "none") <=> (token'[t].state = "none")
                /\ token'[t].state # "live"
                /\ token[t].state # "none" => /\ token'[t].login = token[t].login
                                              /\ token'[t].forked = token[t].forked
           /\ request'[s] = Idle
           /\ \A r \in Slots : r # s =>
                \/ request'[r] = Idle /\ request[r].pc = "idle"
                \/ /\ request'[r].raced /\ request'[r].pc = request[r].pc
                   /\ request'[r].token = request[r].token
                   /\ request'[r].hash = request[r].hash
           /\ spared' = {}
<1>1. token \in [Tokens -> TokenRows] /\ request \in [Slots -> RequestRows]
  BY DEF TypeOK, TokenRows, RequestRows, Pcs
<1>2. \A row \in TokenRows :
        LET over == [row EXCEPT !.state = "revoked", !.ended = TRUE, !.raced = FALSE]
        IN  /\ over \in TokenRows /\ over.state = "revoked" /\ over.login = row.login
            /\ over.forked = row.forked
  BY DEF TokenRows
<1>3. \A q \in RequestRows :
        LET late == [q EXCEPT !.raced = TRUE]
        IN  /\ late \in RequestRows /\ late.raced /\ late.pc = q.pc /\ late.token = q.token
            /\ late.hash = q.hash
  BY DEF RequestRows
<1>4. NoToken.state = "none"
  BY DEF NoToken
<1>5. \A t \in Tokens :
        token'[t] = IF token[t].state = "none" THEN NoToken
                    ELSE [token[t] EXCEPT !.state = "revoked", !.ended = TRUE, !.raced = FALSE]
  BY DEF RevokeAll
<1>6. \A r \in Slots : request'[r] = IF r = s \/ request[r].pc = "idle" THEN Idle
                                     ELSE [request[r] EXCEPT !.raced = TRUE]
  BY DEF RevokeAll
<1>7. token' \in [Tokens -> TokenRows]
  BY <1>1, <1>2, <1>5, Limits DEF RevokeAll
<1>8. request' \in [Slots -> RequestRows]
  BY <1>1, <1>3, <1>6, Limits DEF RevokeAll
<1> QED
  BY <1>1, <1>2, <1>3, <1>4, <1>5, <1>6, <1>7, <1>8 DEF RevokeAll

-----------------------------------------------------------------------------
(* Type correctness, of the tables and requests, the account, and sign-in.  *)

RowsTyped ==
    /\ token \in [Tokens -> TokenRows] /\ request \in [Slots -> RequestRows]
    /\ requests \in 0 .. MaxRequests

AccountTyped ==
    /\ account \in [deletion : {"none", "pending", "due"}, erased : BOOLEAN, barred : BOOLEAN]
    /\ sweep \in {"idle", "listed"}
    /\ wanted \in {"no", "yes", "late"}

SigninTyped ==
    /\ hash \in 0 .. MaxChanges /\ failed \in 0 .. MaxGuesses /\ locked \in BOOLEAN
    /\ spared \subseteq {"reuse", "end"}
    /\ guesses \in 0 .. MaxGuesses /\ uncounted \in 0 .. MaxGuesses

LEMMA TypesSplit == TypeOK <=> RowsTyped /\ AccountTyped /\ SigninTyped
  BY DEF TypeOK, RowsTyped, AccountTyped, SigninTyped, TokenRows, RequestRows, Pcs

LEMMA RowsStayTyped ==
    ASSUME TypeOK, RequestsKnown, [Next]_vars
    PROVE  RowsTyped'
<1>0. RowsTyped
  BY TypesSplit
<1>1. ASSUME NEW s \in Slots,
             LoginRead(s) \/ ChangeRead(s) \/ DeleteRead(s)
      PROVE  RowsTyped'
  <2>1. UNCHANGED token
    BY <1>1 DEF LoginRead, ChangeRead, DeleteRead
  <2>2. PICK pc \in Pcs : Begin(s, pc, 0)
    BY <1>1 DEF LoginRead, ChangeRead, DeleteRead, Pcs
  <2> QED BY <1>0, <2>1, <2>2, Begins, Limits DEF RowsTyped
<1>2. ASSUME NEW s \in Slots, WrongPassword(s) \/ Schedule(s) PROVE RowsTyped'
  BY <1>0, <1>2, Answers DEF RowsTyped, WrongPassword, Schedule
<1>3. ASSUME NEW s \in Slots, RightPassword(s) \/ KeepAccount(s) \/ UpdatePassword(s)
      PROVE  RowsTyped'
  <2>1. UNCHANGED token
    BY <1>3 DEF RightPassword, KeepAccount, UpdatePassword
  <2>2. PICK pc \in Pcs : Goto(s, pc)
    BY <1>3 DEF RightPassword, KeepAccount, UpdatePassword, Pcs
  <2> QED BY <1>0, <2>1, <2>2, Goes DEF RowsTyped
<1>4. ASSUME NEW s \in Slots, NEW t \in Tokens, Mint(s, t) PROVE RowsTyped'
  <2> DEFINE row == [state |-> "live", login |-> t, hash |-> request[s].hash,
                     exposed |-> FALSE, ended |-> FALSE,
                     raced |-> request[s].raced, forked |-> FALSE]
  <2>1. request[s] \in RequestRows /\ request[s].hash # NoPassword
    BY <1>0, <1>4 DEF RowsTyped, Mint, RequestsKnown
  <2>2. request[s].hash \in 0 .. MaxChanges /\ request[s].raced \in BOOLEAN
    BY <2>1, Limits DEF RequestRows
  <2>3. row \in TokenRows
    BY <2>2, Limits DEF TokenRows
  <2>4. Create(t, row) /\ Answer(s)
    BY <1>4 DEF Mint
  <2> HIDE DEF row
  <2> QED BY <2>3, <2>4, Creates, Answers DEF RowsTyped
<1>5. ASSUME NEW s \in Slots, NEW t \in Tokens, RefreshRead(s, t) PROVE RowsTyped'
  <2>1. Begin(s, "rotate", t) /\ (token' = Forked(t) \/ token' = token)
    BY <1>5 DEF RefreshRead
  <2>2. "rotate" \in Pcs /\ t \in 0 .. MaxTokens
    BY Limits DEF Pcs
  <2> QED BY <1>0, <2>1, <2>2, Begins, Forks DEF RowsTyped
<1>6. ASSUME NEW s \in Slots, NEW t \in Tokens, Rotate(s, t) PROVE RowsTyped'
  <2> DEFINE old == token[request[s].token]
             row == [old EXCEPT !.state = "live", !.raced = old.raced \/ request[s].raced]
  <2>1. old \in TokenRows /\ request[s] \in RequestRows
    BY <1>0, <1>6 DEF RowsTyped, Rotate, RequestsKnown, RotatePcs
  <2>2. (old.raced \/ request[s].raced) \in BOOLEAN
    BY <2>1 DEF RequestRows, TokenRows
  <2>3. row \in TokenRows
    BY <2>1, <2>2 DEF TokenRows
  <2>4. Create(t, row) /\ Goto(s, "retire")
    BY <1>6 DEF Rotate
  <2>5. "retire" \in Pcs
    BY DEF Pcs
  <2> HIDE DEF row, old
  <2> QED BY <2>3, <2>4, <2>5, Creates, Goes DEF RowsTyped
<1>7. ASSUME NEW s \in Slots, Retire(s) PROVE RowsTyped'
  <2>1. request[s].token \in Tokens
    BY <1>7 DEF Retire, RequestsKnown, RotatePcs
  <2>2. token' = [token EXCEPT ![request[s].token].state = "revoked"] /\ Answer(s)
    BY <1>7 DEF Retire
  <2> QED BY <2>1, <2>2, StateChanges, Answers DEF RowsTyped
<1>8. ASSUME NEW s \in Slots, Logout(s) \/ EndSessions(s) PROVE RowsTyped'
  <2>1. RevokeAll(s) /\ requests' \in 0 .. MaxRequests
    BY <1>0, <1>8, Limits DEF RowsTyped, Logout, EndSessions, Counted
  <2> QED BY <2>1, Revokes DEF RowsTyped
<1>9. ASSUME NEW s \in Slots, Fault(s) PROVE RowsTyped'
  <2>1. Answer(s) /\ token' = IF request[s].pc = "retire" THEN Forked(request[s].token) ELSE token
    BY <1>9 DEF Fault
  <2>2. request[s].pc = "retire" => request[s].token \in Tokens
    BY DEF RequestsKnown, RotatePcs
  <2> QED BY <1>0, <2>1, <2>2, Forks, Answers DEF RowsTyped
<1>10. ASSUME NEW t \in Tokens, Expire(t) PROVE RowsTyped'
  BY <1>0, <1>10, StateChanges DEF RowsTyped, Expire
<1>11. CASE LockEnds \/ CancelDelete \/ GraceEnds \/ SweepList \/ Erase \/ SweepFails
            \/ UNCHANGED vars
  BY <1>0, <1>11 DEF RowsTyped, LockEnds, CancelDelete, GraceEnds, SweepList, Erase, SweepFails,
     vars
<1>12. ASSUME NEW s \in Slots, NEW t \in Tokens, ReuseRead(s, t) PROVE RowsTyped'
  BY <1>12, Exposes DEF RowsTyped
<1>13. ASSUME NEW s \in Slots, WrongElsewhere(s) PROVE RowsTyped'
  BY <1>0, <1>13, Limits DEF RowsTyped, WrongElsewhere, Counted
<1> QED
  BY <1>1, <1>2, <1>3, <1>4, <1>5, <1>6, <1>7, <1>8, <1>9, <1>10, <1>11, <1>12, <1>13 DEF Next

\* Steps that leave the account row, the sweep and the wish alone.
LEMMA AccountAlone ==
    ASSUME [Next]_vars,
           ~\E s \in Slots : KeepAccount(s) \/ UpdatePassword(s) \/ Schedule(s),
           ~CancelDelete, ~GraceEnds, ~SweepList, ~Erase, ~SweepFails
    PROVE  UNCHANGED erasure
  BY DEF Next, vars, erasure, LoginRead, WrongPassword, WrongElsewhere, RightPassword, Retire, Logout, ChangeRead,
     EndSessions, DeleteRead, Fault, Mint, RefreshRead, ReuseRead, Rotate, Expire, LockEnds

LEMMA AccountStaysTyped ==
    ASSUME TypeOK, [Next]_vars
    PROVE  AccountTyped'
<1>0. AccountTyped
  BY TypesSplit
<1>1. ASSUME NEW deletion \in {"none", "pending", "due"},
             account' = [account EXCEPT !.deletion = deletion],
             sweep' = sweep, wanted' \in {"no", "yes", "late"}
      PROVE  AccountTyped'
  BY <1>0, <1>1 DEF AccountTyped
<1>2. CASE Withdrawn /\ sweep' = sweep
  BY <1>0, <1>1, <1>2 DEF Withdrawn, AccountTyped
<1>3. ASSUME NEW s \in Slots, KeepAccount(s) PROVE AccountTyped'
  BY <1>0, <1>2, <1>3 DEF KeepAccount, AccountTyped
<1>4. ASSUME NEW s \in Slots, UpdatePassword(s) PROVE AccountTyped'
  BY <1>0, <1>4 DEF UpdatePassword, AccountTyped
<1>5. ASSUME NEW s \in Slots, Schedule(s) PROVE AccountTyped'
  <2>1. account.deletion \in {"none", "pending", "due"}
    BY <1>0 DEF AccountTyped
  <2>2. PICK deletion \in {"none", "pending", "due"} :
          account' = [account EXCEPT !.deletion = deletion]
    BY <1>5, <2>1 DEF Schedule
  <2> QED BY <1>1, <1>5, <2>2 DEF Schedule
<1>6. CASE CancelDelete
  BY <1>2, <1>6 DEF CancelDelete
<1>7. CASE GraceEnds
  BY <1>0, <1>1, <1>7 DEF GraceEnds, AccountTyped
<1>8. CASE SweepList \/ SweepFails
  BY <1>0, <1>8 DEF SweepList, SweepFails, AccountTyped
<1>10. CASE Erase
  <2>1. [deletion |-> "none", erased |-> TRUE, barred |-> TRUE]
          \in [deletion : {"none", "pending", "due"}, erased : BOOLEAN, barred : BOOLEAN]
    OBVIOUS
  <2> QED BY <1>10, <2>1 DEF Erase, AccountTyped
<1>9. CASE UNCHANGED erasure
  BY <1>0, <1>9 DEF AccountTyped, erasure
<1> QED
  BY <1>3, <1>4, <1>5, <1>6, <1>7, <1>8, <1>9, <1>10, AccountAlone

\* Steps that leave the count, the lock and the guesses alone.
LEMMA SigninAlone ==
    ASSUME [Next]_vars,
           ~\E s \in Slots : WrongPassword(s) \/ WrongElsewhere(s) \/ RightPassword(s),
           ~LockEnds, ~Erase
    PROVE  UNCHANGED signin
  BY DEF Next, vars, signin, LoginRead, KeepAccount, Retire, Logout, ChangeRead, UpdatePassword,
     EndSessions, DeleteRead, Schedule, Fault, Mint, RefreshRead, ReuseRead, Rotate, Expire,
     CancelDelete, GraceEnds, SweepList, SweepFails

LEMMA SigninStaysTyped ==
    ASSUME TypeOK, RequestsKnown, [Next]_vars
    PROVE  SigninTyped' /\ uncounted' <= guesses' /\ guesses' <= failed' + uncounted'
<1>0. SigninTyped /\ uncounted <= guesses /\ guesses <= failed + uncounted
  BY TypesSplit DEF RequestsKnown
<1>1. hash' \in 0 .. MaxChanges
  <2>1. CASE UNCHANGED hash
    BY <1>0, <2>1 DEF SigninTyped
  <2>2. ASSUME NEW s \in Slots, UpdatePassword(s) PROVE hash' \in 0 .. MaxChanges
    BY <1>0, <2>2, Limits DEF UpdatePassword, SigninTyped
  <2> QED
    BY <2>1, <2>2 DEF Next, vars, LoginRead, WrongPassword, WrongElsewhere, RightPassword,
       KeepAccount, Retire,
       Logout, ChangeRead, EndSessions, DeleteRead, Schedule, Fault, Mint, RefreshRead, ReuseRead,
       Rotate, Expire, LockEnds, CancelDelete, GraceEnds, SweepList, Erase, SweepFails
<1>2. spared' \subseteq {"reuse", "end"}
  <2>1. CASE UNCHANGED spared
    BY <1>0, <2>1 DEF SigninTyped
  <2>2. ASSUME NEW s \in Slots, Logout(s) \/ EndSessions(s) \/ Fault(s) PROVE spared' \subseteq {"reuse", "end"}
    BY <1>0, <2>2 DEF Logout, EndSessions, RevokeAll, Fault, SigninTyped
  <2> QED
    BY <2>1, <2>2 DEF Next, vars, LoginRead, WrongPassword, WrongElsewhere, RightPassword,
       KeepAccount, Retire,
       ChangeRead, UpdatePassword, DeleteRead, Schedule, Mint, RefreshRead, ReuseRead,
       Rotate, Expire, LockEnds, CancelDelete, GraceEnds, SweepList, Erase, SweepFails
<1>3. /\ failed' \in 0 .. MaxGuesses /\ guesses' \in 0 .. MaxGuesses
      /\ uncounted' \in 0 .. MaxGuesses
      /\ uncounted' <= guesses' /\ guesses' <= failed' + uncounted'
  <2>0. /\ failed \in 0 .. MaxGuesses /\ guesses \in 0 .. MaxGuesses
        /\ uncounted \in 0 .. MaxGuesses
    BY <1>0 DEF SigninTyped
  <2>1. CASE UNCHANGED signin
    BY <1>0, <2>0, <2>1 DEF signin
  <2>2. ASSUME NEW s \in Slots, WrongPassword(s) \/ WrongElsewhere(s)
        PROVE  /\ guesses < MaxGuesses /\ guesses' = guesses + 1
               /\ \/ failed < MaxGuesses /\ failed' = failed + 1 /\ uncounted' = uncounted
                  \/ failed' = failed /\ uncounted' = uncounted + 1
    BY <2>2 DEF WrongPassword, WrongElsewhere, Guess, Uncounted
  <2>3. ASSUME NEW s \in Slots, RightPassword(s)
        PROVE  (failed' = 0 /\ guesses' = 0 /\ uncounted' = 0) \/ UNCHANGED signin
    BY <2>3 DEF RightPassword
  <2>4. CASE Erase \/ LockEnds
    BY <2>0, <2>4, Limits DEF Erase, LockEnds
  <2> QED BY <1>0, <2>0, <2>1, <2>2, <2>3, <2>4, SigninAlone, Limits
<1>4. locked' \in BOOLEAN
  <2>1. CASE UNCHANGED signin
    BY <1>0, <2>1 DEF signin, SigninTyped
  <2>2. ASSUME NEW s \in Slots, WrongPassword(s) \/ WrongElsewhere(s)
        PROVE  locked' \in BOOLEAN
    <3>1. locked' = (locked \/ Locks(failed)) \/ locked' = locked
      BY <2>2 DEF WrongPassword, WrongElsewhere, Uncounted
    <3> QED BY <1>0, <3>1 DEF SigninTyped
  <2>3. ASSUME NEW s \in Slots, RightPassword(s) PROVE locked' = FALSE \/ UNCHANGED signin
    BY <2>3 DEF RightPassword
  <2>4. CASE LockEnds \/ Erase
    BY <2>4 DEF LockEnds, Erase
  <2> QED BY <2>1, <2>2, <2>3, <2>4, SigninAlone
<1> QED
  BY <1>1, <1>2, <1>3, <1>4 DEF SigninTyped

-----------------------------------------------------------------------------
(* The steps that touch no token and no refresh.                           *)

NoRefresh ==
    \/ \E s \in Slots :
         \/ LoginRead(s) \/ WrongPassword(s) \/ WrongElsewhere(s) \/ RightPassword(s)
         \/ KeepAccount(s) \/ ChangeRead(s) \/ UpdatePassword(s) \/ DeleteRead(s)
         \/ Schedule(s)
    \/ LockEnds \/ CancelDelete \/ GraceEnds \/ SweepList \/ Erase \/ SweepFails
    \/ UNCHANGED vars

LEMMA StepKinds ==
    ASSUME [Next]_vars
    PROVE  \/ NoRefresh
           \/ \E s \in Slots :
                \/ Logout(s) \/ EndSessions(s) \/ Retire(s) \/ Fault(s)
                \/ \E t \in Tokens :
                     Mint(s, t) \/ RefreshRead(s, t) \/ ReuseRead(s, t) \/ Rotate(s, t)
           \/ \E t \in Tokens : Expire(t)
  BY DEF Next, NoRefresh

\* How such a step moves the request q to n: it begins one, passes the password
\* check, comes nearer to the mint, has written the new password, or is over.
Moved(q, n) ==
    /\ q.pc \notin RotatePcs \cup {"reuse", "end"}
    /\ \/ n = Idle
       \/ /\ n.pc \in {"check", "change", "delete"}
          /\ n.hash = Password /\ ~n.raced
       \/ /\ <<q.pc, n.pc>> \in {<<"check", "keep">>, <<"keep", "mint">>}
          /\ n.hash = q.hash /\ n.raced = q.raced
          /\ q.pc = "check" => q.hash # NoPassword
       \/ n.pc = "end"

LEMMA NoRefreshWrites ==
    ASSUME TypeOK, NoRefresh
    PROVE  /\ UNCHANGED <<token, spared>>
           /\ \A r \in Slots : request'[r] = request[r] \/ Moved(request[r], request'[r])
           /\ hash' = hash \/ Owed("end")'
<1>1. ASSUME NEW s \in Slots, LoginRead(s) \/ ChangeRead(s) \/ DeleteRead(s)
      PROVE  /\ UNCHANGED <<token, spared, hash>>
             /\ \A r \in Slots : request'[r] = request[r] \/ Moved(request[r], request'[r])
  <2>1. PICK pc \in {"check", "change", "delete"} : Begin(s, pc, 0)
    BY <1>1 DEF LoginRead, ChangeRead, DeleteRead
  <2>2. pc \in Pcs /\ 0 \in 0 .. MaxTokens
    BY Limits DEF Pcs
  <2>3. /\ request[s].pc = "idle"
        /\ request'[s].pc = pc /\ request'[s].hash = Password /\ request'[s].raced = FALSE
        /\ \A r \in Slots : r # s => request'[r] = request[r]
    BY <2>1, <2>2, Begins
  <2> QED BY <1>1, <2>3 DEF Moved, RotatePcs, LoginRead, ChangeRead, DeleteRead
<1>2. ASSUME NEW s \in Slots, WrongPassword(s) \/ Schedule(s)
      PROVE  /\ UNCHANGED <<token, spared, hash>>
             /\ \A r \in Slots : request'[r] = request[r] \/ Moved(request[r], request'[r])
  <2>1. Answer(s) /\ request[s].pc \in {"check", "delete"}
    BY <1>2 DEF WrongPassword, Schedule
  <2>2. \A r \in Slots : request'[r] = IF r = s THEN Idle ELSE request[r]
    BY <2>1, Answers
  <2> QED BY <1>2, <2>1, <2>2 DEF Moved, RotatePcs, WrongPassword, Schedule
<1>3. ASSUME NEW s \in Slots, RightPassword(s) \/ KeepAccount(s)
      PROVE  /\ UNCHANGED <<token, spared, hash>>
             /\ \A r \in Slots : request'[r] = request[r] \/ Moved(request[r], request'[r])
  <2>1. PICK pc \in Pcs : /\ Goto(s, pc)
                          /\ <<request[s].pc, pc>> \in {<<"check", "keep">>, <<"keep", "mint">>}
                          /\ request[s].pc = "check" => request[s].hash # NoPassword
    BY <1>3 DEF RightPassword, KeepAccount, Pcs
  <2>2. /\ request'[s].pc = pc /\ request'[s].hash = request[s].hash
        /\ request'[s].raced = request[s].raced
        /\ \A r \in Slots : r # s => request'[r] = request[r]
    BY <2>1, Goes
  <2>3. request[s].pc \notin RotatePcs \cup {"reuse", "end"}
    BY <2>1 DEF RotatePcs
  <2>4. Moved(request[s], request'[s])
    BY <2>1, <2>2, <2>3 DEF Moved
  <2> QED BY <1>3, <2>2, <2>4 DEF RightPassword, KeepAccount
<1>4. ASSUME NEW s \in Slots, UpdatePassword(s)
      PROVE  /\ UNCHANGED <<token, spared>> /\ Owed("end")'
             /\ \A r \in Slots : request'[r] = request[r] \/ Moved(request[r], request'[r])
  <2>1. Goto(s, "end") /\ "end" \in Pcs /\ request[s].pc = "change"
    BY <1>4 DEF UpdatePassword, Pcs
  <2>2. request'[s].pc = "end" /\ \A r \in Slots : r # s => request'[r] = request[r]
    BY <2>1, Goes
  <2>3. Moved(request[s], request'[s])
    BY <2>1, <2>2 DEF Moved, RotatePcs
  <2> QED BY <1>4, <2>2, <2>3 DEF Owed, UpdatePassword
<1>5. CASE LockEnds \/ CancelDelete \/ GraceEnds \/ SweepList \/ Erase \/ SweepFails
           \/ UNCHANGED vars
  BY <1>5 DEF LockEnds, CancelDelete, GraceEnds, SweepList, Erase, SweepFails, vars
<1>6. ASSUME NEW s \in Slots, WrongElsewhere(s) PROVE UNCHANGED <<token, spared, hash, request>>
  BY <1>6 DEF WrongElsewhere
<1> QED
  BY <1>1, <1>2, <1>3, <1>4, <1>5, <1>6 DEF NoRefresh

\* Rows are never taken away, and a request keeps what it has learnt.
LEMMA RequestsKept ==
    ASSUME TypeOK, RequestsKnown, [Next]_vars
    PROVE  RequestsKnown'
<1> DEFINE Known(q) == /\ q.pc \in RotatePcs => q.token \in Tokens /\ token[q.token].state # "none"
                       /\ q.pc \in {"keep", "mint"} => q.hash # NoPassword
           KnownAfter(n) ==
              /\ n.pc \in RotatePcs => n.token \in Tokens /\ token'[n.token].state # "none"
              /\ n.pc \in {"keep", "mint"} => n.hash # NoPassword
<1>0. (\A s \in Slots : Known(request[s])) /\ KnownAfter(Idle)
  BY DEF RequestsKnown, RotatePcs, Idle
<1>k. ASSUME NEW q, Known(q), \A t \in Tokens : token[t].state # "none" => token'[t].state # "none"
      PROVE  KnownAfter(q)
  BY <1>k
<1> SUFFICES \A s \in Slots : KnownAfter(request'[s])
  BY SigninStaysTyped DEF RequestsKnown
<1>1. CASE NoRefresh
  <2>1. /\ UNCHANGED token
        /\ \A r \in Slots : request'[r] = request[r] \/ Moved(request[r], request'[r])
    BY <1>1, NoRefreshWrites
  <2>2. ASSUME NEW r \in Slots, Moved(request[r], request'[r]) PROVE KnownAfter(request'[r])
    BY <1>0, <2>2 DEF Moved, RotatePcs, Idle
  <2> QED BY <1>0, <2>1, <2>2
<1>2. ASSUME NEW s \in Slots, Logout(s) \/ EndSessions(s)
      PROVE  \A r \in Slots : KnownAfter(request'[r])
  <2>1. RevokeAll(s)
    BY <1>2 DEF Logout, EndSessions
  <2>2. /\ \A t \in Tokens : (token[t].state = "none") <=> (token'[t].state = "none")
        /\ request'[s] = Idle
        /\ \A r \in Slots : r # s =>
                \/ request'[r] = Idle
                \/ /\ request'[r].pc = request[r].pc
                   /\ request'[r].token = request[r].token
                   /\ request'[r].hash = request[r].hash
    BY <2>1, Revokes
  <2> QED BY <1>0, <2>2
<1>3. ASSUME NEW s \in Slots, NEW t \in Tokens, Mint(s, t)
      PROVE  \A r \in Slots : KnownAfter(request'[r])
  <2>1. token[t].state = "none" /\ Answer(s) /\ token' = [token EXCEPT ![t] =
                 [state |-> "live", login |-> t, hash |-> request[s].hash,
                  exposed |-> FALSE, ended |-> FALSE,
                  raced |-> request[s].raced, forked |-> FALSE]]
    BY <1>3 DEF Mint, Create
  <2>2. \A u \in Tokens : token[u].state # "none" => token'[u].state # "none"
    BY <2>1 DEF TypeOK
  <2>3. \A r \in Slots : request'[r] = IF r = s THEN Idle ELSE request[r]
    BY <2>1, Answers
  <2> QED BY <1>0, <1>k, <2>2, <2>3
<1>4. ASSUME NEW s \in Slots, NEW t \in Tokens, RefreshRead(s, t)
      PROVE  \A r \in Slots : KnownAfter(request'[r])
  <2>1. Begin(s, "rotate", t) /\ (token' = Forked(t) \/ token' = token) /\ token[t].state = "live"
    BY <1>4 DEF RefreshRead, Live
  <2>2. \A u \in Tokens : token'[u].state = token[u].state
    BY <2>1, Forks
  <2>3. /\ request'[s].pc = "rotate" /\ request'[s].token = t
        /\ \A r \in Slots : r # s => request'[r] = request[r]
    BY <2>1, Begins, Limits DEF Pcs
  <2> QED BY <1>0, <1>k, <2>1, <2>2, <2>3
<1>5. ASSUME NEW s \in Slots, NEW t \in Tokens, Rotate(s, t)
      PROVE  \A r \in Slots : KnownAfter(request'[r])
  <2>1. /\ Goto(s, "retire") /\ request[s].pc = "rotate"
        /\ token[t].state = "none" /\ \A u \in Tokens : u # t => token'[u] = token[u]
    BY <1>5 DEF Rotate, Create, TypeOK
  <2>2. \A u \in Tokens : token[u].state # "none" => token'[u].state # "none"
    BY <2>1
  <2>3. /\ request'[s].pc = "retire" /\ request'[s].token = request[s].token
        /\ \A r \in Slots : r # s => request'[r] = request[r]
    BY <2>1, Goes DEF Pcs
  <2>4. KnownAfter(request'[s])
    BY <1>0, <2>1, <2>2, <2>3 DEF RotatePcs
  <2> QED BY <1>0, <1>k, <2>2, <2>3, <2>4
<1>6. ASSUME NEW s \in Slots, Retire(s) PROVE \A r \in Slots : KnownAfter(request'[r])
  <2>1. /\ Answer(s) /\ request[s].token \in Tokens
        /\ token' = [token EXCEPT ![request[s].token].state = "revoked"]
    BY <1>0, <1>6 DEF Retire, RotatePcs
  <2>2. \A u \in Tokens : token[u].state # "none" => token'[u].state # "none"
    BY <2>1, StateChanges
  <2>3. \A r \in Slots : request'[r] = IF r = s THEN Idle ELSE request[r]
    BY <2>1, Answers
  <2> QED BY <1>0, <1>k, <2>2, <2>3
<1>7. ASSUME NEW s \in Slots, Fault(s) PROVE \A r \in Slots : KnownAfter(request'[r])
  <2>1. /\ Answer(s)
        /\ token' = IF request[s].pc = "retire" THEN Forked(request[s].token) ELSE token
        /\ request[s].pc = "retire" => request[s].token \in Tokens
    BY <1>0, <1>7 DEF Fault, RotatePcs
  <2>2. \A u \in Tokens : token'[u].state = token[u].state
    BY <2>1, Forks
  <2>3. \A r \in Slots : request'[r] = IF r = s THEN Idle ELSE request[r]
    BY <2>1, Answers
  <2> QED BY <1>0, <1>k, <2>2, <2>3
<1>8. ASSUME NEW t \in Tokens, Expire(t) PROVE \A r \in Slots : KnownAfter(request'[r])
  <2>1. token' = [token EXCEPT ![t].state = "expired"] /\ UNCHANGED request
    BY <1>8 DEF Expire
  <2>2. \A u \in Tokens : token[u].state # "none" => token'[u].state # "none"
    BY <2>1, StateChanges
  <2> QED BY <1>0, <1>k, <2>1, <2>2
<1>9. ASSUME NEW s \in Slots, NEW t \in Tokens, ReuseRead(s, t)
      PROVE  \A r \in Slots : KnownAfter(request'[r])
  <2>1. /\ \A u \in Tokens : token[u].state # "none" => token'[u].state # "none"
        /\ request'[s].pc = "reuse" /\ \A r \in Slots : r # s => request'[r] = request[r]
    BY <1>9, Exposes
  <2>2. KnownAfter(request'[s])
    BY <2>1 DEF RotatePcs
  <2> QED BY <1>0, <1>k, <2>1, <2>2
<1> QED
  BY <1>1, <1>2, <1>3, <1>4, <1>5, <1>6, <1>7, <1>8, <1>9, StepKinds

LEMMA TypeInvariance == TypeOK /\ RequestsKnown /\ [Next]_vars => TypeOK' /\ RequestsKnown'
<1> SUFFICES ASSUME TypeOK, RequestsKnown, [Next]_vars PROVE TypeOK' /\ RequestsKnown'
  OBVIOUS
<1>1. RowsTyped' /\ AccountTyped' /\ SigninTyped'
  BY RowsStayTyped, AccountStaysTyped, SigninStaysTyped
<1>2. RowsTyped' /\ AccountTyped' /\ SigninTyped' => TypeOK'
  BY TypesSplit, PTL
<1> QED
  BY <1>1, <1>2, RequestsKept

-----------------------------------------------------------------------------
(* Deletion.                                                               *)

\* A withdrawal that finds the sweep past its list only makes the wish late.
LEMMA SweepStaysWanted ==
    ASSUME TypeOK, SweepIsWanted, [Next]_vars
    PROVE  SweepIsWanted'
<1>0. account \in [deletion : {"none", "pending", "due"}, erased : BOOLEAN, barred : BOOLEAN]
  BY DEF TypeOK
<1>1. CASE Withdrawn /\ sweep' = sweep
  BY <1>0, <1>1 DEF Withdrawn, SweepIsWanted
<1>2. ASSUME NEW s \in Slots, KeepAccount(s) PROVE SweepIsWanted'
  BY <1>1, <1>2 DEF KeepAccount, SweepIsWanted
<1>3. ASSUME NEW s \in Slots, UpdatePassword(s) PROVE SweepIsWanted'
  BY <1>0, <1>3 DEF UpdatePassword, SweepIsWanted
<1>4. ASSUME NEW s \in Slots, Schedule(s) PROVE SweepIsWanted'
  BY <1>4 DEF Schedule, SweepIsWanted
<1>5. CASE CancelDelete
  BY <1>1, <1>5 DEF CancelDelete
<1>6. CASE GraceEnds
  BY <1>0, <1>6 DEF GraceEnds, SweepIsWanted
<1>7. CASE SweepList
  BY <1>7 DEF SweepList, SweepIsWanted
<1>8. CASE Erase \/ SweepFails
  BY <1>8 DEF Erase, SweepFails, SweepIsWanted
<1>9. CASE UNCHANGED erasure
  BY <1>9 DEF SweepIsWanted, erasure
<1> QED
  BY <1>2, <1>3, <1>4, <1>5, <1>6, <1>7, <1>8, <1>9, AccountAlone

\* Only Anonymize erases, of an account on the list.
LEMMA OnlyTheSweepErases ==
    ASSUME TypeOK, [Next]_vars, account'.erased, ~account.erased
    PROVE  sweep = "listed"
<1>0. account \in [deletion : {"none", "pending", "due"}, erased : BOOLEAN, barred : BOOLEAN]
  BY DEF TypeOK
<1>1. ASSUME NEW s \in Slots, KeepAccount(s) \/ UpdatePassword(s) \/ Schedule(s)
      PROVE  account'.erased = account.erased
  BY <1>0, <1>1 DEF KeepAccount, Withdrawn, UpdatePassword, Schedule
<1>2. CASE CancelDelete \/ GraceEnds \/ SweepList \/ SweepFails
  BY <1>0, <1>2 DEF CancelDelete, Withdrawn, GraceEnds, SweepList, SweepFails
<1>3. CASE Erase
  BY <1>3 DEF Erase
<1>4. CASE UNCHANGED erasure
  BY <1>4 DEF erasure
<1> QED
  BY <1>1, <1>2, <1>3, <1>4, AccountAlone

-----------------------------------------------------------------------------
(* Guessing.                                                               *)

LEMMA CheckingIsFinite ==
    ASSUME NEW C \in SUBSET Slots
    PROVE  /\ IsFiniteSet(C) /\ Cardinality(C) \in Nat
           /\ Cardinality(Slots) \in Nat /\ Cardinality(C) <= Cardinality(Slots)
           /\ \A s \in C : /\ Cardinality(C \ {s}) = Cardinality(C) - 1
                           /\ Cardinality(C) >= 1
                           /\ Cardinality(C \ {s}) \in Nat
           /\ \A D \in SUBSET C : Cardinality(D) \in Nat /\ Cardinality(D) <= Cardinality(C)
<1>1. IsFiniteSet(Slots)
  BY SlotsAssumption
<1>2. IsFiniteSet(C)
  BY <1>1, FS_Subset
<1>3. \A D \in SUBSET C : IsFiniteSet(D) /\ Cardinality(D) <= Cardinality(C)
  BY <1>2, FS_Subset
<1>4. ASSUME NEW s \in C
      PROVE  /\ Cardinality(C \ {s}) = Cardinality(C) - 1
             /\ Cardinality(C \ {s}) \in Nat
  <2>1. Cardinality(C \ {s}) = Cardinality(C) - 1
    BY <1>2, FS_RemoveElement
  <2>2. IsFiniteSet(C \ {s})
    BY <1>2, FS_RemoveElement
  <2> QED BY <2>1, <2>2, FS_CardinalityType
<1>5. Cardinality(C) \in Nat /\ Cardinality(Slots) \in Nat
  BY <1>1, <1>2, FS_CardinalityType
<1>6. Cardinality(C) <= Cardinality(Slots)
  BY <1>1, FS_Subset
<1>7. \A D \in SUBSET C : Cardinality(D) \in Nat
  BY <1>3, FS_CardinalityType
<1> QED
  BY <1>2, <1>3, <1>4, <1>5, <1>6, <1>7

\* While the account is locked LoginRead is refused, so nothing but a login
\* that read an open account enters the check.
LEMMA CheckIsClosed ==
    ASSUME TypeOK, locked, [Next]_vars
    PROVE  Checking' \subseteq Checking
<1>1. ASSUME NEW s \in Slots, request'[s].pc = "check" PROVE request[s].pc = "check"
  <2>0. Idle.pc # "check"
    BY DEF Idle
  <2>1. CASE NoRefresh
    <3>1. \A r \in Slots : ~LoginRead(r)
      BY DEF LoginRead
    <3>2. ASSUME NEW r \in Slots, ChangeRead(r) \/ DeleteRead(r)
          PROVE  request'[s].pc # "check" \/ request'[s] = request[s]
      <4>1. PICK pc \in {"change", "delete"} : Begin(r, pc, 0)
        BY <3>2 DEF ChangeRead, DeleteRead
      <4>2. pc \in Pcs /\ 0 \in 0 .. MaxTokens
        BY Limits DEF Pcs
      <4>3. request'[r].pc = pc /\ \A x \in Slots : x # r => request'[x] = request[x]
        BY <4>1, <4>2, Begins
      <4> QED BY <4>1, <4>3
    <3>3. ASSUME NEW r \in Slots, RightPassword(r) \/ KeepAccount(r) \/ UpdatePassword(r)
          PROVE  request'[s].pc # "check" \/ request'[s] = request[s]
      <4>1. PICK pc \in {"keep", "mint", "end"} : Goto(r, pc)
        BY <3>3 DEF RightPassword, KeepAccount, UpdatePassword
      <4>2. request'[r].pc = pc /\ \A x \in Slots : x # r => request'[x] = request[x]
        BY <4>1, Goes DEF Pcs
      <4> QED BY <4>1, <4>2
    <3>4. ASSUME NEW r \in Slots, WrongPassword(r) \/ Schedule(r)
          PROVE  request'[s].pc # "check" \/ request'[s] = request[s]
      <4>1. Answer(r)
        BY <3>4 DEF WrongPassword, Schedule
      <4> QED BY <2>0, <4>1, Answers
    <3>5. CASE LockEnds \/ CancelDelete \/ GraceEnds \/ SweepList \/ Erase \/ SweepFails
               \/ UNCHANGED vars
      BY <1>1, <3>5 DEF LockEnds, CancelDelete, GraceEnds, SweepList, Erase, SweepFails, vars
    <3>6. ASSUME NEW r \in Slots, WrongElsewhere(r) PROVE request'[s] = request[s]
      BY <3>6 DEF WrongElsewhere
    <3> QED
      BY <1>1, <2>1, <3>1, <3>2, <3>3, <3>4, <3>5, <3>6 DEF NoRefresh
  <2>2. ASSUME NEW r \in Slots, Logout(r) \/ EndSessions(r) PROVE request[s].pc = "check"
    <3>1. RevokeAll(r)
      BY <2>2 DEF Logout, EndSessions
    <3> QED BY <1>1, <2>0, <3>1, Revokes
  <2>3. ASSUME NEW r \in Slots, Retire(r) \/ Fault(r) \/ \E t \in Tokens : Mint(r, t)
        PROVE  request[s].pc = "check"
    <3>1. Answer(r)
      BY <2>3 DEF Retire, Fault, Mint
    <3> QED BY <1>1, <2>0, <3>1, Answers
  <2>4. ASSUME NEW r \in Slots, NEW t \in Tokens, RefreshRead(r, t)
        PROVE  request[s].pc = "check"
    <3>1. Begin(r, "rotate", t)
      BY <2>4 DEF RefreshRead
    <3> QED BY <1>1, <3>1, Begins, Limits DEF Pcs
  <2>5. ASSUME NEW r \in Slots, NEW t \in Tokens, Rotate(r, t) PROVE request[s].pc = "check"
    <3>1. Goto(r, "retire")
      BY <2>5 DEF Rotate
    <3> QED BY <1>1, <3>1, Goes DEF Pcs
  <2>6. ASSUME NEW t \in Tokens, Expire(t) PROVE request[s].pc = "check"
    BY <1>1, <2>6 DEF Expire
  <2>7. ASSUME NEW r \in Slots, NEW t \in Tokens, ReuseRead(r, t) PROVE request[s].pc = "check"
    BY <1>1, <2>7, Exposes
  <2> QED BY <2>1, <2>2, <2>3, <2>4, <2>5, <2>6, <2>7, StepKinds
<1> QED
  BY <1>1 DEF Checking

\* A guess that counts is made from inside the check, and leaves it.
LEMMA GuessesStayBounded ==
    ASSUME TypeOK, RequestsKnown, GuessesLeft, [Next]_vars
    PROVE  GuessesLeft'
<1> DEFINE C == Cardinality(Checking)
           N == Cardinality(Slots)
           after == Cardinality(Checking')
<1>0. /\ guesses \in Nat /\ failed \in Nat /\ uncounted \in Nat /\ MaxFailures \in Nat \ {0}
      /\ guesses <= failed + uncounted
  BY Limits DEF TypeOK, RequestsKnown
<1>1. /\ Checking \in SUBSET Slots /\ Checking' \in SUBSET Slots
      /\ C \in Nat /\ N \in Nat /\ after \in Nat
      /\ C <= N /\ after <= N
  <2>1. Checking \in SUBSET Slots /\ Checking' \in SUBSET Slots
    BY DEF Checking
  <2> QED BY <2>1, CheckingIsFinite
<1>2. locked => after <= C
  BY <1>1, CheckIsClosed, CheckingIsFinite
<1> SUFFICES /\ ~locked' => guesses' <= MaxFailures - 1 + uncounted'
             /\ locked' => guesses' + after <= MaxFailures + N - 1 + uncounted'
  BY DEF GuessesLeft
<1>3. /\ ~locked => guesses <= MaxFailures - 1 + uncounted
      /\ locked => guesses + C <= MaxFailures + N - 1 + uncounted
  BY DEF GuessesLeft
<1>4. CASE UNCHANGED signin
  <2>1. guesses' = guesses /\ locked' = locked /\ uncounted' = uncounted
    BY <1>4 DEF signin
  <2> HIDE DEF C, N, after
  <2> QED BY <1>0, <1>1, <1>2, <1>3, <2>1
<1>5. ASSUME NEW s \in Slots, WrongPassword(s)
      PROVE  /\ ~locked' => guesses' <= MaxFailures - 1 + uncounted'
             /\ locked' => guesses' + after <= MaxFailures + N - 1 + uncounted'
  <2>1. /\ s \in Checking /\ s \notin Checking'
        /\ guesses' = guesses + 1
    <3>1. Answer(s) /\ request[s].pc = "check" /\ guesses' = guesses + 1
      BY <1>5 DEF WrongPassword, Guess
    <3> QED BY <3>1, Answers DEF Checking, Idle
  <2>2. after <= C - 1 /\ after <= N - 1
    <3>1. Answer(s) /\ request[s].pc = "check"
      BY <1>5 DEF WrongPassword
    <3>2. Checking' \subseteq Checking \ {s}
      BY <3>1, Answers DEF Checking, Idle
    <3>3. Checking' \in SUBSET (Checking \ {s}) /\ Checking \ {s} \in SUBSET Slots
      BY <1>1, <3>2
    <3>4. after <= Cardinality(Checking \ {s})
      BY <3>3, CheckingIsFinite
    <3>5. Cardinality(Checking \ {s}) = C - 1
      BY <1>1, <2>1, CheckingIsFinite
    <3> QED BY <1>1, <3>4, <3>5
  <2>3. \/ (locked' <=> locked \/ Locks(failed)) /\ uncounted' = uncounted
        \/ locked' = locked /\ uncounted' = uncounted + 1
    BY <1>5 DEF WrongPassword, Uncounted
  <2>4. Locks(failed) <=> failed >= MaxFailures - 1
    BY DEF Locks
  <2> HIDE DEF C, N, after
  <2>5. CASE locked' = locked /\ uncounted' = uncounted + 1
    BY <1>0, <1>1, <1>3, <2>1, <2>2, <2>5
  <2>6. CASE locked /\ locked' /\ uncounted' = uncounted
    BY <1>0, <1>1, <1>3, <2>1, <2>2, <2>6
  <2>7. CASE ~locked /\ locked' /\ uncounted' = uncounted
    BY <1>0, <1>1, <1>3, <2>1, <2>2, <2>7
  <2>8. CASE ~locked' /\ failed < MaxFailures - 1 /\ uncounted' = uncounted
    BY <1>0, <2>1, <2>8
  <2>9. failed >= MaxFailures - 1 \/ failed < MaxFailures - 1
    BY <1>0
  <2> QED BY <2>3, <2>4, <2>5, <2>6, <2>7, <2>8, <2>9
<1>6. ASSUME NEW s \in Slots, RightPassword(s) 
      PROVE  UNCHANGED signin \/ (guesses' = 0 /\ uncounted' = 0 /\ ~locked')
  BY <1>6 DEF RightPassword
<1>7. CASE LockEnds \/ Erase
  BY <1>0, <1>7 DEF LockEnds, Erase
<1>8. ASSUME NEW s \in Slots, WrongElsewhere(s)
      PROVE  /\ ~locked' => guesses' <= MaxFailures - 1 + uncounted'
             /\ locked' => guesses' + after <= MaxFailures + N - 1 + uncounted'
  <2>1. locked' = locked /\ guesses' = guesses + 1 /\ uncounted' = uncounted + 1
    BY <1>8 DEF WrongElsewhere, Guess, Uncounted
  <2> HIDE DEF C, N, after
  <2> QED BY <1>0, <1>1, <1>2, <1>3, <2>1
<1> QED
  BY <1>0, <1>4, <1>5, <1>6, <1>7, <1>8, SigninAlone

-----------------------------------------------------------------------------
(* Ending sessions.                                                        *)

\* The same of the next state, and what a request is about to store.
HonestNext(password) == password = hash' \/ Owed("end")'
UntouchedNext(row) ==
    row.raced \/ (~row.ended /\ (row.exposed => Owed("reuse")') /\ HonestNext(row.hash))

Pending(q) ==
    ~q.raced =>
      /\ q.pc \in {"check", "keep", "mint"} => q.hash = NoPassword \/ Honest(q.hash)
      /\ q.pc = "rotate" => Untouched(token[q.token])

PendingNext(q) ==
    ~q.raced =>
      /\ q.pc \in {"check", "keep", "mint"} => q.hash = NoPassword \/ HonestNext(q.hash)
      /\ q.pc = "rotate" => UntouchedNext(token'[q.token])

LEMMA Survivors ==
    /\ NoSurvivor <=> \A t \in Tokens : token[t].state = "live" => Untouched(token[t])
    /\ PendingSessions <=> \A r \in Slots : Pending(request[r])
  BY DEF NoSurvivor, PendingSessions, Pending, Untouched, Honest, Live

LEMMA SurvivorsNext ==
    /\ NoSurvivor' <=> \A t \in Tokens : token'[t].state = "live" => UntouchedNext(token'[t])
    /\ PendingSessions' <=> \A r \in Slots : PendingNext(request'[r])
  BY DEF NoSurvivor, PendingSessions, PendingNext, Untouched, UntouchedNext, HonestNext, Honest,
     Live

\* A password that was honest stays so while it is the current one, and from
\* its change until every session has ended; so does a session after a reuse.
HonestyLasts ==
    /\ hash' = hash \/ Owed("end")'
    /\ \A cause \in {"reuse", "end"} : Owed(cause) => Owed(cause)'

LEMMA HonestStays == HonestyLasts => \A password : Honest(password) => HonestNext(password)
  BY DEF HonestyLasts, Honest, HonestNext

\* What is pending stays so while its row keeps its history.
LEMMA PendingStays ==
    ASSUME HonestyLasts, NEW q, Pending(q),
           q.pc = "rotate" => LET old == token[q.token]
                                  new == token'[q.token]
                              IN  /\ new.hash = old.hash /\ new.ended = old.ended
                                  /\ new.raced = old.raced /\ new.exposed = old.exposed
    PROVE  PendingNext(q)
  BY HonestStays DEF HonestyLasts, Pending, PendingNext, Untouched, UntouchedNext

\* A step that leaves the password alone, and spares what the one request that
\* it moves should have ended, keeps the passwords honest.
LEMMA HonestyOfOne ==
    ASSUME hash' = hash, spared \subseteq spared', NEW s \in Slots,
           \A r \in Slots : r # s => request'[r] = request[r],
           request[s].pc \in {"reuse", "end"} => request[s].pc \in spared'
    PROVE  HonestyLasts
  BY DEF HonestyLasts, Owed

\* No step lets a session outlive its end: RevokeAll marks the requests it
\* overlaps, and a rotation hands on what its row has become.
LEMMA SurvivorsKept ==
    ASSUME TypeOK, RequestsKnown, NoSurvivor, PendingSessions, [Next]_vars
    PROVE  NoSurvivor' /\ PendingSessions'
<1>0. /\ \A t \in Tokens : token[t].state = "live" => Untouched(token[t])
      /\ \A r \in Slots : Pending(request[r])
  BY Survivors
<1>i. PendingNext(Idle)
  BY DEF PendingNext, Idle
<1>k. \A r \in Slots : request[r].pc \in RotatePcs =>
        request[r].token \in Tokens /\ token[request[r].token].state # "none"
  BY DEF RequestsKnown
<1> DEFINE Kept(t) == LET old == token[t]
                          new == token'[t]
                      IN  /\ new.hash = old.hash /\ new.ended = old.ended
                          /\ new.raced = old.raced /\ new.exposed = old.exposed
<1>r. ASSUME HonestyLasts, NEW r \in Slots, request'[r] = request[r],
             \A t \in Tokens : token[t].state # "none" => Kept(t)
      PROVE  PendingNext(request'[r])
  BY <1>0, <1>k, <1>r, PendingStays DEF RotatePcs
<1>t. ASSUME HonestyLasts, NEW t \in Tokens, token[t].state = "live", Kept(t)
      PROVE  UntouchedNext(token'[t])
  BY <1>0, <1>t, HonestStays DEF HonestyLasts, Untouched, UntouchedNext
<1> SUFFICES /\ \A t \in Tokens : token'[t].state = "live" => UntouchedNext(token'[t])
             /\ \A r \in Slots : PendingNext(request'[r])
  BY SurvivorsNext
<1>1. CASE NoRefresh
  <2>1. /\ UNCHANGED <<token, spared>>
        /\ \A r \in Slots : request'[r] = request[r] \/ Moved(request[r], request'[r])
        /\ hash' = hash \/ Owed("end")'
    BY <1>1, NoRefreshWrites
  <2>2. \A cause \in {"reuse", "end"} : Owed(cause) => Owed(cause)'
    BY <2>1 DEF Owed, Moved
  <2>3. HonestyLasts
    BY <2>1, <2>2 DEF HonestyLasts
  <2>4. \A t \in Tokens : Kept(t)
    BY <2>1
  <2>5. Password = NoPassword \/ HonestNext(Password)
    BY <2>3, HonestStays DEF Password, Honest
  <2>6. ASSUME NEW r \in Slots, Moved(request[r], request'[r]) PROVE PendingNext(request'[r])
    <3>1. CASE request'[r] = Idle
      BY <1>i, <3>1
    <3>2. CASE request'[r].pc \in {"check", "change", "delete", "end"}
               /\ (request'[r].pc # "end" => request'[r].hash = Password)
      BY <2>5, <3>2 DEF PendingNext
    <3>3. CASE /\ <<request[r].pc, request'[r].pc>> \in {<<"check", "keep">>, <<"keep", "mint">>}
               /\ request'[r].hash = request[r].hash /\ request'[r].raced = request[r].raced
      <4>1. ~request'[r].raced => request[r].hash = NoPassword \/ Honest(request[r].hash)
        BY <1>0, <3>3 DEF Pending
      <4> QED BY <2>3, <3>3, <4>1, HonestStays DEF PendingNext
    <3> QED BY <2>6, <3>1, <3>2, <3>3 DEF Moved
  <2> QED BY <1>r, <1>t, <2>1, <2>3, <2>4, <2>6
<1>2. ASSUME NEW s \in Slots, Logout(s) \/ EndSessions(s)
      PROVE  /\ \A t \in Tokens : token'[t].state = "live" => UntouchedNext(token'[t])
             /\ \A r \in Slots : PendingNext(request'[r])
  <2>1. RevokeAll(s)
    BY <1>2 DEF Logout, EndSessions
  <2>2. \A t \in Tokens : token'[t].state # "live"
    BY <2>1, Revokes
  <2>3. \A r \in Slots : request'[r] = Idle \/ request'[r].raced
    BY <2>1, Revokes
  <2> QED BY <1>i, <2>2, <2>3 DEF PendingNext
<1>3. ASSUME NEW s \in Slots, NEW t \in Tokens, Mint(s, t)
      PROVE  /\ \A u \in Tokens : token'[u].state = "live" => UntouchedNext(token'[u])
             /\ \A r \in Slots : PendingNext(request'[r])
  <2> DEFINE row == [state |-> "live", login |-> t, hash |-> request[s].hash,
                     exposed |-> FALSE, ended |-> FALSE,
                     raced |-> request[s].raced, forked |-> FALSE]
  <2>1. /\ Create(t, row) /\ Answer(s) /\ request[s].pc = "mint" /\ request[s].hash # NoPassword
        /\ UNCHANGED <<hash, spared>>
    BY <1>3 DEF Mint, RequestsKnown
  <2>2. /\ token[t].state = "none" /\ token'[t] = row
        /\ \A u \in Tokens : u # t => token'[u] = token[u]
    BY <2>1 DEF Create, TypeOK
  <2>3. \A r \in Slots : request'[r] = IF r = s THEN Idle ELSE request[r]
    BY <2>1, Answers
  <2>4. HonestyLasts
    BY <2>1, <2>3, HonestyOfOne
  <2>5. request[s].raced \/ Honest(request[s].hash)
    BY <1>0, <2>1 DEF Pending
  <2>6. /\ row.raced = request[s].raced /\ row.ended = FALSE /\ row.hash = request[s].hash
        /\ row.exposed = FALSE
    OBVIOUS
  <2> HIDE DEF row
  <2>7. UntouchedNext(token'[t])
    BY <2>2, <2>4, <2>5, <2>6, HonestStays DEF UntouchedNext
  <2>8. \A u \in Tokens : token[u].state # "none" => Kept(u)
    BY <2>2
  <2> QED BY <1>i, <1>r, <1>t, <2>2, <2>3, <2>4, <2>7, <2>8
<1>4. ASSUME NEW s \in Slots, NEW t \in Tokens, RefreshRead(s, t)
      PROVE  /\ \A u \in Tokens : token'[u].state = "live" => UntouchedNext(token'[u])
             /\ \A r \in Slots : PendingNext(request'[r])
  <2>1. /\ Begin(s, "rotate", t) /\ (token' = Forked(t) \/ token' = token)
        /\ token[t].state = "live" /\ UNCHANGED <<hash, spared>>
    BY <1>4 DEF RefreshRead, Live
  <2>2. \A u \in Tokens : token'[u].state = token[u].state /\ Kept(u)
    BY <2>1, Forks
  <2>3. /\ request'[s].pc = "rotate" /\ request'[s].token = t /\ request[s].pc = "idle"
        /\ \A r \in Slots : r # s => request'[r] = request[r]
    BY <2>1, Begins, Limits DEF Pcs
  <2>4. HonestyLasts
    BY <2>1, <2>3, HonestyOfOne
  <2>5. PendingNext(request'[s])
    BY <1>t, <2>1, <2>2, <2>3, <2>4 DEF PendingNext
  <2> QED BY <1>r, <1>t, <2>2, <2>3, <2>4, <2>5
<1>5. ASSUME NEW s \in Slots, NEW t \in Tokens, Rotate(s, t)
      PROVE  /\ \A u \in Tokens : token'[u].state = "live" => UntouchedNext(token'[u])
             /\ \A r \in Slots : PendingNext(request'[r])
  <2> DEFINE old == token[request[s].token]
             row == [old EXCEPT !.state = "live", !.raced = old.raced \/ request[s].raced]
  <2>1. /\ Create(t, row) /\ Goto(s, "retire") /\ request[s].pc = "rotate"
        /\ UNCHANGED <<hash, spared>>
    BY <1>5 DEF Rotate
  <2>2. /\ token[t].state = "none" /\ token'[t] = row
        /\ \A u \in Tokens : u # t => token'[u] = token[u]
    BY <2>1 DEF Create, TypeOK
  <2>3. /\ request'[s].pc = "retire" /\ \A r \in Slots : r # s => request'[r] = request[r]
    BY <2>1, Goes DEF Pcs
  <2>4. HonestyLasts
    BY <2>1, <2>3, HonestyOfOne
  <2>5. request[s].raced \/ Untouched(old)
    BY <1>0, <2>1 DEF Pending
  <2>6. old \in TokenRows
    BY <1>k, <2>1 DEF TypeOK, TokenRows, RotatePcs
  <2>7. /\ row.raced <=> old.raced \/ request[s].raced
        /\ row.ended = old.ended /\ row.hash = old.hash /\ row.exposed = old.exposed
    <3>1. row.raced = (old.raced \/ request[s].raced)
      BY <2>6 DEF TokenRows
    <3>2. row.ended = old.ended /\ row.hash = old.hash /\ row.exposed = old.exposed
      BY <2>6 DEF TokenRows
    <3> HIDE DEF row, old
    <3> QED BY <3>1, <3>2
  <2> HIDE DEF row, old
  <2>8. UntouchedNext(token'[t])
    BY <2>2, <2>4, <2>5, <2>7, HonestStays DEF HonestyLasts, Untouched, UntouchedNext
  <2>9. \A u \in Tokens : token[u].state # "none" => Kept(u)
    BY <2>2
  <2>10. PendingNext(request'[s])
    BY <2>3 DEF PendingNext
  <2> QED BY <1>r, <1>t, <2>2, <2>3, <2>4, <2>8, <2>9, <2>10
<1>6. ASSUME NEW s \in Slots, Retire(s) \/ Fault(s)
      PROVE  /\ \A t \in Tokens : token'[t].state = "live" => UntouchedNext(token'[t])
             /\ \A r \in Slots : PendingNext(request'[r])
  <2>1. /\ Answer(s) /\ hash' = hash /\ spared \subseteq spared'
        /\ request[s].pc \in {"reuse", "end"} => request[s].pc \in spared'
    <3>1. CASE Retire(s)
      BY <3>1 DEF Retire
    <3>2. CASE Fault(s)
      BY <3>2 DEF Fault
    <3> QED BY <1>6, <3>1, <3>2
  <2>2. \A t \in Tokens : Kept(t) /\ (token'[t].state = "live" => token[t].state = "live")
    <3>1. CASE Retire(s)
      <4>1. request[s].token \in Tokens /\ token' = [token EXCEPT ![request[s].token].state = "revoked"]
        BY <1>k, <3>1 DEF Retire, RotatePcs
      <4>2. /\ token'[request[s].token].state = "revoked"
            /\ \A t \in Tokens : t # request[s].token => token'[t] = token[t]
        BY <4>1, StateChanges
      <4>3. \A t \in Tokens : Kept(t)
        BY <4>1, StateChanges
      <4> QED BY <4>2, <4>3
    <3>2. CASE Fault(s)
      <4>1. /\ token' = IF request[s].pc = "retire" THEN Forked(request[s].token) ELSE token
            /\ request[s].pc = "retire" => request[s].token \in Tokens
        BY <1>k, <3>2 DEF Fault, RotatePcs
      <4> QED BY <4>1, Forks
    <3> QED BY <1>6, <3>1, <3>2
  <2>3. \A r \in Slots : request'[r] = IF r = s THEN Idle ELSE request[r]
    BY <2>1, Answers
  <2>4. HonestyLasts
    BY <2>1, <2>3, HonestyOfOne
  <2> QED BY <1>i, <1>r, <1>t, <2>2, <2>3, <2>4
<1>7. ASSUME NEW t \in Tokens, Expire(t)
      PROVE  /\ \A u \in Tokens : token'[u].state = "live" => UntouchedNext(token'[u])
             /\ \A r \in Slots : PendingNext(request'[r])
  <2>1. token' = [token EXCEPT ![t].state = "expired"] /\ UNCHANGED <<request, hash, spared>>
    BY <1>7 DEF Expire
  <2>2. \A u \in Tokens : Kept(u)
    BY <2>1, StateChanges
  <2>3. token'[t].state = "expired" /\ \A u \in Tokens : u # t => token'[u] = token[u]
    BY <2>1, StateChanges
  <2>4. HonestyLasts
    BY <2>1 DEF HonestyLasts, Owed
  <2> QED BY <1>r, <1>t, <2>1, <2>2, <2>3, <2>4
<1>8. ASSUME NEW s \in Slots, NEW t \in Tokens, ReuseRead(s, t)
      PROVE  /\ \A u \in Tokens : token'[u].state = "live" => UntouchedNext(token'[u])
             /\ \A r \in Slots : PendingNext(request'[r])
  <2>1. /\ UNCHANGED <<hash, spared>>
        /\ \A u \in Tokens :
             /\ (token[u].state = "none") <=> (token'[u].state = "none")
             /\ token[u].state # "none" =>
                  /\ token'[u].state = token[u].state /\ token'[u].hash = token[u].hash
                  /\ token'[u].ended = token[u].ended /\ token'[u].raced = token[u].raced
        /\ request[s].pc = "idle" /\ request'[s].pc = "reuse"
        /\ \A r \in Slots : r # s => request'[r] = request[r]
    BY <1>8, Exposes
  <2>2. HonestyLasts
    BY <2>1, HonestyOfOne
  <2>3. Owed("reuse")'
    BY <2>1 DEF Owed
  <2>4. ASSUME NEW u \in Tokens, token[u].state # "none", Untouched(token[u])
        PROVE  UntouchedNext(token'[u])
    BY <2>1, <2>2, <2>3, <2>4, HonestStays DEF Untouched, UntouchedNext
  <2>5. ASSUME NEW r \in Slots PROVE PendingNext(request'[r])
    <3>1. CASE r = s
      BY <2>1, <3>1 DEF PendingNext
    <3>2. CASE r # s
      <4>1. request'[r] = request[r] /\ Pending(request[r])
        BY <1>0, <2>1, <3>2
      <4> QED BY <1>k, <2>2, <2>4, <4>1, HonestStays DEF Pending, PendingNext, RotatePcs
    <3> QED BY <3>1, <3>2
  <2> QED BY <1>0, <2>1, <2>4, <2>5
<1> QED
  BY <1>1, <1>2, <1>3, <1>4, <1>5, <1>6, <1>7, <1>8, StepKinds

-----------------------------------------------------------------------------
(* One heir.                                                               *)

Heirs == RequestsKnown /\ SessionRows /\ OneHeir /\ HeirsToCome

Refreshes(s) == request[s].pc \in RotatePcs
Origin(s) == request[s].token
Taken(t) == \E s \in Slots : Refreshes(s) /\ Origin(s) = t

\* OneHeir and HeirsToCome, slot by slot: what a pair of live tokens, a live
\* token and a refresh to come, or two refreshes of one session say of it.
LEMMA HeirsUse ==
    ASSUME Heirs
    PROVE  /\ \A s \in Slots : Refreshes(s) =>
                Origin(s) \in Tokens /\ token[Origin(s)].state # "none"
           /\ \A t \in Tokens : token[t].state # "none" =>
                token[t].login \in Tokens /\ token[token[t].login].state # "none"
           /\ \A t, u \in Tokens :
                token[t].state # "none" /\ token[u].state # "none"
                  /\ token[t].login = token[u].login => token[t].forked = token[u].forked
           /\ \A t, u \in Tokens :
                token[t].state = "live" /\ token[u].state = "live" /\ t # u
                  /\ token[t].login = token[u].login => token[t].forked \/ Taken(t) \/ Taken(u)
           /\ \A s \in Slots, u \in Tokens :
                request[s].pc = "rotate" /\ token[u].state = "live"
                  /\ token[u].login = token[Origin(s)].login => token[u].forked \/ Taken(u)
           /\ \A s, r \in Slots :
                s # r /\ Refreshes(s) /\ Refreshes(r) /\ Origin(s) = Origin(r)
                  => token[Origin(s)].forked
           /\ \A s, r \in Slots :
                s # r /\ request[s].pc = "rotate" /\ request[r].pc = "rotate"
                  /\ token[Origin(s)].login = token[Origin(r)].login => token[Origin(s)].forked
  BY DEF Heirs, RequestsKnown, SessionRows, OneHeir, HeirsToCome, Refreshes, Origin, Taken,
     Rotating, Live, RotatePcs

\* The invariant of the next state, in the same words.
LEMMA HeirsProve ==
    ASSUME RequestsKnown',
           \A t \in Tokens : token'[t].state # "none" =>
             token'[t].login \in Tokens /\ token'[token'[t].login].state # "none",
           \A t, u \in Tokens :
             token'[t].state # "none" /\ token'[u].state # "none"
               /\ token'[t].login = token'[u].login => token'[t].forked = token'[u].forked,
           \A t, u \in Tokens :
             token'[t].state = "live" /\ token'[u].state = "live" /\ t # u
               /\ token'[t].login = token'[u].login => token'[t].forked \/ Taken(t)' \/ Taken(u)',
           \A s \in Slots, u \in Tokens :
             request'[s].pc = "rotate" /\ token'[u].state = "live"
               /\ token'[u].login = token'[request'[s].token].login
                 => token'[u].forked \/ Taken(u)',
           \A s, r \in Slots :
             s # r /\ Refreshes(s)' /\ Refreshes(r)' /\ request'[s].token = request'[r].token
               => token'[request'[s].token].forked,
           \A s, r \in Slots :
             s # r /\ request'[s].pc = "rotate" /\ request'[r].pc = "rotate"
               /\ token'[request'[s].token].login = token'[request'[r].token].login
                 => token'[request'[s].token].forked
    PROVE  Heirs'
<1>1. SessionRows'
  BY DEF SessionRows
<1>2. OneHeir'
  BY DEF OneHeir, Refreshes, Origin, Taken, Rotating, Live, RotatePcs
<1>3. HeirsToCome'
  BY DEF HeirsToCome, Refreshes, Origin, Taken, Rotating, Live, RotatePcs
<1> QED
  BY <1>1, <1>2, <1>3 DEF Heirs

\* Steps that make no token live and leave the refreshes alone.
LEMMA HeirsUndisturbed ==
    ASSUME Heirs, RequestsKnown',
           \A t \in Tokens :
             /\ (token[t].state = "none") <=> (token'[t].state = "none")
             /\ token[t].state # "none" =>
                  token'[t].login = token[t].login /\ token'[t].forked = token[t].forked
             /\ token'[t].state = "live" => token[t].state = "live",
           \A r \in Slots : Refreshes(r) \/ Refreshes(r)' =>
             request'[r].pc = request[r].pc /\ request'[r].token = request[r].token
    PROVE  Heirs'
<1>1. \A r \in Slots : request'[r].pc = "rotate" => Refreshes(r) /\ request[r].pc = "rotate"
  BY DEF Refreshes, RotatePcs
<1>2. \A r \in Slots : Refreshes(r)' => Refreshes(r) /\ request'[r].token = Origin(r)
  BY DEF Refreshes, Origin
<1>3. \A t \in Tokens : Taken(t) => Taken(t)'
  BY DEF Taken, Refreshes, Origin
<1>4. \A r \in Slots : Refreshes(r) =>
        Origin(r) \in Tokens /\ token[Origin(r)].state # "none"
  BY HeirsUse
<1>5. \A t \in Tokens : token'[t].state # "none" =>
        token'[t].login \in Tokens /\ token'[token'[t].login].state # "none"
  BY HeirsUse
<1>6. \A t, u \in Tokens :
        token'[t].state # "none" /\ token'[u].state # "none"
          /\ token'[t].login = token'[u].login => token'[t].forked = token'[u].forked
  BY HeirsUse
<1>7. \A t, u \in Tokens :
        token'[t].state = "live" /\ token'[u].state = "live" /\ t # u
          /\ token'[t].login = token'[u].login => token'[t].forked \/ Taken(t)' \/ Taken(u)'
  BY <1>3, HeirsUse
<1>8. \A s \in Slots, u \in Tokens :
        request'[s].pc = "rotate" /\ token'[u].state = "live"
          /\ token'[u].login = token'[request'[s].token].login
            => token'[u].forked \/ Taken(u)'
  BY <1>1, <1>2, <1>3, <1>4, HeirsUse DEF Origin
<1>9. \A s, r \in Slots :
        s # r /\ Refreshes(s)' /\ Refreshes(r)' /\ request'[s].token = request'[r].token
          => token'[request'[s].token].forked
  BY <1>2, <1>4, HeirsUse
<1>10. \A s, r \in Slots :
        s # r /\ request'[s].pc = "rotate" /\ request'[r].pc = "rotate"
          /\ token'[request'[s].token].login = token'[request'[r].token].login
            => token'[request'[s].token].forked
  <2> SUFFICES ASSUME NEW s \in Slots, NEW r \in Slots, s # r,
                      request'[s].pc = "rotate", request'[r].pc = "rotate",
                      token'[request'[s].token].login = token'[request'[r].token].login
               PROVE  token'[request'[s].token].forked
    OBVIOUS
  <2>1. /\ request[s].pc = "rotate" /\ request[r].pc = "rotate" /\ Refreshes(s) /\ Refreshes(r)
        /\ request'[s].token = Origin(s) /\ request'[r].token = Origin(r)
    BY <1>1 DEF Origin
  <2>2. /\ Origin(s) \in Tokens /\ token[Origin(s)].state # "none"
        /\ Origin(r) \in Tokens /\ token[Origin(r)].state # "none"
    BY <1>4, <2>1
  <2>3. token[Origin(s)].login = token[Origin(r)].login
    BY <2>1, <2>2
  <2> QED BY <2>1, <2>2, <2>3, HeirsUse
<1> QED
  BY <1>5, <1>6, <1>7, <1>8, <1>9, <1>10, HeirsProve

\* A login is the first row of a session of its own.
LEMMA MintKeepsHeirs ==
    ASSUME TypeOK, Heirs, RequestsKnown', NEW s \in Slots, NEW t \in Tokens, Mint(s, t)
    PROVE  Heirs'
<1> DEFINE row == [state |-> "live", login |-> t, hash |-> request[s].hash,
                   exposed |-> FALSE, ended |-> FALSE,
                   raced |-> request[s].raced, forked |-> FALSE]
<1>1. /\ Create(t, row) /\ Answer(s) /\ request[s].pc = "mint"
  BY DEF Mint
<1>2. /\ token[t].state = "none" /\ token'[t] = row
      /\ \A u \in Tokens : u # t => token'[u] = token[u]
  BY <1>1 DEF Create, TypeOK
<1>3. token'[t].state = "live" /\ token'[t].login = t
  BY <1>2
<1> HIDE DEF row
<1>4. \A r \in Slots : request'[r] = IF r = s THEN Idle ELSE request[r]
  BY <1>1, Answers
<1>5. \A r \in Slots : Refreshes(r)' => Refreshes(r) /\ request'[r] = request[r]
  BY <1>4 DEF Refreshes, Idle, RotatePcs
<1>6. \A r \in Slots : Refreshes(r) => request'[r] = request[r]
  BY <1>1, <1>4 DEF Refreshes, RotatePcs
<1>7. \A u \in Tokens : Taken(u) => Taken(u)'
  BY <1>6 DEF Taken, Refreshes, Origin
<1>8. \A u \in Tokens : u # t /\ token[u].state # "none" => token[u].login # t
  BY <1>2, HeirsUse
<1>9. \A r \in Slots : Refreshes(r) =>
        Origin(r) \in Tokens /\ token[Origin(r)].state # "none" /\ Origin(r) # t
  BY <1>2, HeirsUse
<1>10. \A u \in Tokens : token'[u].state # "none" =>
         token'[u].login \in Tokens /\ token'[token'[u].login].state # "none"
  <2>1. CASE token[t].login # t
    BY <1>2, <1>3, HeirsUse
  <2> QED BY <1>2, <1>3, <1>8, HeirsUse
<1>11. \A u, v \in Tokens :
         token'[v].state # "none" /\ token'[u].state # "none"
           /\ token'[v].login = token'[u].login => token'[v].forked = token'[u].forked
  BY <1>2, <1>3, <1>8, HeirsUse
<1>12. \A u, v \in Tokens :
         token'[u].state = "live" /\ token'[v].state = "live" /\ u # v
           /\ token'[u].login = token'[v].login => token'[u].forked \/ Taken(u)' \/ Taken(v)'
  BY <1>2, <1>3, <1>7, <1>8, HeirsUse
<1>13. \A r \in Slots : request'[r].pc = "rotate" =>
         /\ Refreshes(r) /\ request[r].pc = "rotate" /\ request'[r].token = Origin(r)
         /\ token'[Origin(r)] = token[Origin(r)] /\ token[Origin(r)].login # t
  BY <1>2, <1>5, <1>8, <1>9 DEF Refreshes, Origin, RotatePcs
<1>14. \A r \in Slots, u \in Tokens :
         request'[r].pc = "rotate" /\ token'[u].state = "live"
           /\ token'[u].login = token'[request'[r].token].login
             => token'[u].forked \/ Taken(u)'
  BY <1>2, <1>3, <1>7, <1>13, HeirsUse
<1>15. \A q, r \in Slots :
         q # r /\ Refreshes(q)' /\ Refreshes(r)' /\ request'[q].token = request'[r].token
           => token'[request'[q].token].forked
  BY <1>2, <1>5, <1>9, HeirsUse DEF Origin
<1>16. \A q, r \in Slots :
         q # r /\ request'[q].pc = "rotate" /\ request'[r].pc = "rotate"
           /\ token'[request'[q].token].login = token'[request'[r].token].login
             => token'[request'[q].token].forked
  BY <1>13, HeirsUse
<1> QED
  BY <1>10, <1>11, <1>12, <1>14, <1>15, <1>16, HeirsProve

\* A refresh of a token somebody refreshes forks the session; of one that
\* nobody refreshes it is the one heir.
LEMMA RefreshReadKeepsHeirs ==
    ASSUME TypeOK, Heirs, RequestsKnown', NEW s \in Slots, NEW t \in Tokens, RefreshRead(s, t)
    PROVE  Heirs'
<1>1. /\ Begin(s, "rotate", t) /\ token[t].state = "live"
      /\ token' = IF Rotating(t) THEN Forked(t) ELSE token
  BY DEF RefreshRead, Live
<1>2. Rotating(t) <=> Taken(t)
  BY DEF Rotating, Taken, Refreshes, Origin, RotatePcs
<1>3. \A u \in Tokens : /\ token'[u].state = token[u].state /\ token'[u].login = token[u].login
                        /\ token'[u].forked = IF /\ Taken(t) /\ token[u].state # "none"
                                                 /\ token[u].login = token[t].login
                                              THEN TRUE ELSE token[u].forked
  <2>1. CASE Taken(t)
    BY <1>1, <1>2, <2>1, Forks
  <2>2. CASE ~Taken(t)
    BY <1>1, <1>2, <2>2
  <2> QED BY <2>1, <2>2
<1>4. /\ request'[s].pc = "rotate" /\ request'[s].token = t /\ request[s].pc = "idle"
      /\ \A r \in Slots : r # s => request'[r] = request[r]
  BY <1>1, Begins, Limits DEF Pcs
<1>5. \A u \in Tokens : Taken(u) => Taken(u)'
  BY <1>4 DEF Taken, Refreshes, Origin, RotatePcs
<1>6. Taken(t)'
  BY <1>4 DEF Taken, Refreshes, Origin, RotatePcs
<1>7. \A r \in Slots : Refreshes(r) =>
        Origin(r) \in Tokens /\ token[Origin(r)].state # "none"
  BY HeirsUse
<1>8. \A r \in Slots : /\ Refreshes(r)' => r = s \/ (Refreshes(r) /\ request'[r].token = Origin(r))
                       /\ request'[r].pc = "rotate" =>
                            r = s \/ (Refreshes(r) /\ request[r].pc = "rotate"
                                      /\ request'[r].token = Origin(r))
  BY <1>4 DEF Refreshes, Origin, RotatePcs
<1>9. \A u \in Tokens : token'[u].state # "none" =>
        token'[u].login \in Tokens /\ token'[token'[u].login].state # "none"
  BY <1>3, HeirsUse
<1>10. \A u, v \in Tokens :
         token'[v].state # "none" /\ token'[u].state # "none"
           /\ token'[v].login = token'[u].login => token'[v].forked = token'[u].forked
  <2> SUFFICES ASSUME NEW u \in Tokens, NEW v \in Tokens, token'[v].state # "none",
                      token'[u].state # "none", token'[v].login = token'[u].login
               PROVE  token'[v].forked = token'[u].forked
    OBVIOUS
  <2>0. /\ token[v].state # "none" /\ token[u].state # "none"
        /\ token[v].login = token[u].login
    BY <1>3
  <2>1. CASE Taken(t) /\ token[u].login = token[t].login
    BY <1>3, <2>0, <2>1
  <2>2. CASE ~(Taken(t) /\ token[u].login = token[t].login)
    <3>1. token'[v].forked = token[v].forked /\ token'[u].forked = token[u].forked
      BY <1>3, <2>2
    <3> QED BY <2>0, <3>1, HeirsUse
  <2> QED BY <2>1, <2>2
<1>11. \A u, v \in Tokens :
         token'[u].state = "live" /\ token'[v].state = "live" /\ u # v
           /\ token'[u].login = token'[v].login => token'[u].forked \/ Taken(u)' \/ Taken(v)'
  <2> SUFFICES ASSUME NEW u \in Tokens, NEW v \in Tokens, u # v,
                      token[u].state = "live", token[v].state = "live",
                      token[u].login = token[v].login
               PROVE  token'[u].forked \/ Taken(u)' \/ Taken(v)'
    BY <1>3
  <2>1. token[u].forked \/ Taken(u) \/ Taken(v)
    BY HeirsUse
  <2>2. token[u].forked => token'[u].forked
    BY <1>3
  <2> QED BY <1>5, <2>1, <2>2
<1>12. ASSUME NEW u \in Tokens, u # t, token[u].state = "live", token[u].login = token[t].login
       PROVE  token'[u].forked \/ Taken(u)'
  BY <1>1, <1>3, <1>5, <1>12, HeirsUse
<1>13. \A r \in Slots, u \in Tokens :
         request'[r].pc = "rotate" /\ token'[u].state = "live"
           /\ token'[u].login = token'[request'[r].token].login
             => token'[u].forked \/ Taken(u)'
  <2> SUFFICES ASSUME NEW r \in Slots, NEW u \in Tokens,
                      request'[r].pc = "rotate", token[u].state = "live",
                      token[u].login = token'[request'[r].token].login
               PROVE  token'[u].forked \/ Taken(u)'
    BY <1>3
  <2>1. CASE r = s
    BY <1>3, <1>4, <1>6, <1>12, <2>1
  <2>2. CASE r # s
    <3>1. request[r].pc = "rotate" /\ Refreshes(r) /\ token[u].login = token[Origin(r)].login
      BY <1>3, <1>7, <1>8, <2>2
    <3>2. token[u].forked \/ Taken(u)
      BY <3>1, HeirsUse
    <3> QED BY <1>3, <1>5, <3>2
  <2> QED BY <2>1, <2>2
<1>14. \* A refresh of t that is under way forks the session of t.
       ASSUME NEW r \in Slots, Refreshes(r), Origin(r) = t
       PROVE  token'[t].forked
  BY <1>1, <1>3, <1>14 DEF Taken
<1>15. \* A rotation of the session that is under way forked it, or forks it now.
       ASSUME NEW r \in Slots, request[r].pc = "rotate", Refreshes(r),
              token[Origin(r)].login = token[t].login
       PROVE  token'[t].forked /\ token'[Origin(r)].forked
  <2>1. token[t].forked \/ Taken(t)
    BY <1>1, <1>15, HeirsUse
  <2>2. token[Origin(r)].forked = token[t].forked
    BY <1>1, <1>7, <1>15, HeirsUse
  <2> QED BY <1>1, <1>3, <1>7, <1>15, <2>1, <2>2
<1>16. \A q, r \in Slots :
         q # r /\ Refreshes(q)' /\ Refreshes(r)' /\ request'[q].token = request'[r].token
           => token'[request'[q].token].forked
  <2> SUFFICES ASSUME NEW q \in Slots, NEW r \in Slots, q # r, Refreshes(q)', Refreshes(r)',
                      request'[q].token = request'[r].token
               PROVE  token'[request'[q].token].forked
    OBVIOUS
  <2>1. CASE q = s \/ r = s
    BY <1>4, <1>8, <1>14, <2>1
  <2>2. CASE q # s /\ r # s
    <3>1. Refreshes(q) /\ Refreshes(r) /\ Origin(q) = Origin(r) /\ request'[q].token = Origin(q)
      BY <1>8, <2>2
    <3>2. token[Origin(q)].forked
      BY <2>2, <3>1, HeirsUse
    <3> QED BY <1>3, <1>7, <3>1, <3>2
  <2> QED BY <2>1, <2>2
<1>17. \A q, r \in Slots :
         q # r /\ request'[q].pc = "rotate" /\ request'[r].pc = "rotate"
           /\ token'[request'[q].token].login = token'[request'[r].token].login
             => token'[request'[q].token].forked
  <2> SUFFICES ASSUME NEW q \in Slots, NEW r \in Slots, q # r,
                      request'[q].pc = "rotate", request'[r].pc = "rotate",
                      token'[request'[q].token].login = token'[request'[r].token].login
               PROVE  token'[request'[q].token].forked
    OBVIOUS
  <2>1. CASE q = s
    <3>1. Refreshes(r) /\ request[r].pc = "rotate" /\ request'[r].token = Origin(r)
      BY <1>8, <2>1
    <3>2. token[Origin(r)].login = token[t].login
      BY <1>3, <1>4, <1>7, <2>1, <3>1
    <3> QED BY <1>4, <1>15, <2>1, <3>1, <3>2
  <2>2. CASE r = s
    <3>1. q # s /\ Refreshes(q) /\ request[q].pc = "rotate" /\ request'[q].token = Origin(q)
      BY <1>8, <2>2
    <3>2. token[Origin(q)].login = token[t].login
      BY <1>3, <1>4, <1>7, <2>2, <3>1
    <3> QED BY <1>15, <3>1, <3>2
  <2>3. CASE q # s /\ r # s
    <3>1. /\ Refreshes(q) /\ Refreshes(r) /\ request[q].pc = "rotate" /\ request[r].pc = "rotate"
          /\ request'[q].token = Origin(q) /\ request'[r].token = Origin(r)
      BY <1>8, <2>3
    <3>2. token[Origin(q)].login = token[Origin(r)].login
      BY <1>3, <1>7, <3>1
    <3>3. token[Origin(q)].forked
      BY <3>1, <3>2, HeirsUse
    <3> QED BY <1>3, <1>7, <3>1, <3>3
  <2> QED BY <2>1, <2>2, <2>3
<1> QED
  BY <1>9, <1>10, <1>11, <1>13, <1>16, <1>17, HeirsProve

\* The token a rotation stores is the heir its refresh stood for.
LEMMA RotateKeepsHeirs ==
    ASSUME TypeOK, Heirs, RequestsKnown', NEW s \in Slots, NEW t \in Tokens, Rotate(s, t)
    PROVE  Heirs'
<1> DEFINE o == Origin(s)
<1>1. /\ request[s].pc = "rotate" /\ Refreshes(s)
      /\ o \in Tokens /\ token[o].state # "none"
  BY HeirsUse DEF Rotate, Refreshes, RotatePcs
<1>2. /\ token[t].state = "none" /\ o # t
      /\ \A u \in Tokens : u # t => token'[u] = token[u]
  BY <1>1 DEF Rotate, Create, TypeOK
<1>3. /\ token'[t].state = "live" /\ token'[t].login = token[o].login
      /\ token'[t].forked = token[o].forked
  <2> DEFINE row == [token[o] EXCEPT !.state = "live", !.raced = @ \/ request[s].raced]
  <2>1. token' = [token EXCEPT ![t] = row] /\ token[o] \in TokenRows
    BY <1>1 DEF Rotate, Create, Origin, TypeOK, TokenRows
  <2>2. row.state = "live" /\ row.login = token[o].login /\ row.forked = token[o].forked
    BY <2>1 DEF TokenRows
  <2> HIDE DEF row
  <2> QED BY <2>1, <2>2 DEF TypeOK
<1>4. /\ request'[s].pc = "retire" /\ request'[s].token = o
      /\ \A r \in Slots : r # s => request'[r] = request[r]
  BY Goes DEF Rotate, Origin, Pcs
<1> HIDE DEF o
<1>5. \A r \in Slots : /\ Refreshes(r)' <=> Refreshes(r)
                       /\ request'[r].token = Origin(r)
                       /\ request'[r].pc = "rotate" => r # s /\ request[r].pc = "rotate" /\ Refreshes(r)
  BY <1>1, <1>4 DEF Refreshes, Origin, RotatePcs, o
<1>6. \A u \in Tokens : Taken(u) => Taken(u)'
  BY <1>5 DEF Taken, Origin
<1>7. \A r \in Slots : Refreshes(r) =>
        /\ Origin(r) \in Tokens /\ token[Origin(r)].state # "none" /\ Origin(r) # t
        /\ token'[Origin(r)] = token[Origin(r)]
  BY <1>2, HeirsUse
<1>8. \A u \in Tokens : token'[u].state # "none" =>
        token'[u].login \in Tokens /\ token'[token'[u].login].state # "none"
  <2>1. \A u \in Tokens : token[u].state # "none" =>
          token[u].login \in Tokens /\ token'[token[u].login].state # "none"
    BY <1>2, HeirsUse
  <2> QED BY <1>1, <1>2, <1>3, <2>1
<1>9. \A v \in Tokens : token[v].state # "none" /\ token[v].login = token[o].login
        => token[v].forked = token[o].forked
  BY <1>1, HeirsUse
<1>10. \A u, v \in Tokens :
         token'[v].state # "none" /\ token'[u].state # "none"
           /\ token'[v].login = token'[u].login => token'[v].forked = token'[u].forked
  <2> SUFFICES ASSUME NEW u \in Tokens, NEW v \in Tokens, token'[v].state # "none",
                      token'[u].state # "none", token'[v].login = token'[u].login
               PROVE  token'[v].forked = token'[u].forked
    OBVIOUS
  <2>1. CASE u # t /\ v # t
    BY <1>2, <2>1, HeirsUse
  <2>2. CASE u = t \/ v = t
    BY <1>2, <1>3, <1>9, <2>2
  <2> QED BY <2>1, <2>2
<1>11. ASSUME NEW v \in Tokens, v # t, token'[v].state = "live", token'[v].login = token'[t].login
       PROVE  (token'[t].forked /\ token'[v].forked) \/ Taken(v)'
  <2>1. token[v].forked \/ Taken(v)
    BY <1>1, <1>2, <1>3, <1>11, HeirsUse DEF o
  <2> QED BY <1>2, <1>3, <1>6, <1>9, <1>11, <2>1
<1>12. \A u, v \in Tokens :
         token'[u].state = "live" /\ token'[v].state = "live" /\ u # v
           /\ token'[u].login = token'[v].login => token'[u].forked \/ Taken(u)' \/ Taken(v)'
  <2> SUFFICES ASSUME NEW u \in Tokens, NEW v \in Tokens, u # v, token'[u].state = "live",
                      token'[v].state = "live", token'[u].login = token'[v].login
               PROVE  token'[u].forked \/ Taken(u)' \/ Taken(v)'
    OBVIOUS
  <2>1. CASE u # t /\ v # t
    BY <1>2, <1>6, <2>1, HeirsUse
  <2>2. CASE u = t \/ v = t
    BY <1>11, <2>2
  <2> QED BY <2>1, <2>2
<1>13. \A r \in Slots, u \in Tokens :
         request'[r].pc = "rotate" /\ token'[u].state = "live"
           /\ token'[u].login = token'[request'[r].token].login
             => token'[u].forked \/ Taken(u)'
  <2> SUFFICES ASSUME NEW r \in Slots, NEW u \in Tokens, request'[r].pc = "rotate",
                      token'[u].state = "live",
                      token'[u].login = token'[request'[r].token].login
               PROVE  token'[u].forked \/ Taken(u)'
    OBVIOUS
  <2>1. /\ r # s /\ request[r].pc = "rotate" /\ Refreshes(r)
        /\ token'[u].login = token[Origin(r)].login
    BY <1>5, <1>7
  <2>2. CASE u = t
    <3>1. token[Origin(s)].forked
      BY <1>1, <1>3, <2>1, <2>2, HeirsUse DEF o
    <3> QED BY <1>3, <2>2, <3>1 DEF o
  <2>3. CASE u # t
    BY <1>2, <1>6, <2>1, <2>3, HeirsUse
  <2> QED BY <2>2, <2>3
<1>14. \A q, r \in Slots :
         q # r /\ Refreshes(q)' /\ Refreshes(r)' /\ request'[q].token = request'[r].token
           => token'[request'[q].token].forked
  BY <1>5, <1>7, HeirsUse
<1>15. \A q, r \in Slots :
         q # r /\ request'[q].pc = "rotate" /\ request'[r].pc = "rotate"
           /\ token'[request'[q].token].login = token'[request'[r].token].login
             => token'[request'[q].token].forked
  BY <1>5, <1>7, HeirsUse
<1> QED
  BY <1>8, <1>10, <1>12, <1>13, <1>14, <1>15, HeirsProve

\* A refresh that is over: its token is retired, or it was cut short, with the
\* session forked if the new token was stored.
Retired(s, o) ==
    \/ token'[o].state = "revoked"
    \/ request[s].pc = "rotate" /\ token'[o].state = token[o].state
    \/ \A u \in Tokens : /\ token'[u].state # "none" /\ token'[u].login = token[o].login
                         => token'[u].forked

LEMMA RefreshEnds ==
    ASSUME TypeOK, Heirs, RequestsKnown', NEW s \in Slots, NEW o \in Tokens,
           Refreshes(s), Origin(s) = o,
           Answer(s), Retired(s, o),
           \A u \in Tokens :
             /\ (token[u].state = "none") <=> (token'[u].state = "none")
             /\ token'[u].state = "live" => token[u].state = "live"
             /\ token'[u].login = token[u].login
             /\ token[u].forked => token'[u].forked,
           \A t, u \in Tokens :
             token[t].state # "none" /\ token[u].state # "none" /\ token[t].login = token[u].login
               => token'[t].forked = token'[u].forked
    PROVE  Heirs'
<1>1. \A r \in Slots : request'[r] = IF r = s THEN Idle ELSE request[r]
  BY Answers
<1>2. \A r \in Slots : /\ Refreshes(r)' => r # s /\ Refreshes(r)
                       /\ Refreshes(r)' => request'[r].token = Origin(r)
                       /\ request'[r].pc = "rotate" => Refreshes(r)' /\ request[r].pc = "rotate"
  BY <1>1 DEF Refreshes, Origin, RotatePcs, Idle
<1>3. \A u \in Tokens : Taken(u) /\ u # o => Taken(u)'
  BY <1>1 DEF Taken, Refreshes, Origin
<1>4. \A r \in Slots : Refreshes(r) =>
        Origin(r) \in Tokens /\ token[Origin(r)].state # "none"
  BY HeirsUse
<1>5. \A u \in Tokens : token'[u].state # "none" =>
        token'[u].login \in Tokens /\ token'[token'[u].login].state # "none"
  BY HeirsUse
<1>6. \A u, v \in Tokens :
        token'[v].state # "none" /\ token'[u].state # "none"
          /\ token'[v].login = token'[u].login => token'[v].forked = token'[u].forked
  OBVIOUS
<1>7. \A u, v \in Tokens :
        token'[u].state = "live" /\ token'[v].state = "live" /\ u # v
          /\ token'[u].login = token'[v].login => token'[u].forked \/ Taken(u)' \/ Taken(v)'
  <2> SUFFICES ASSUME NEW u \in Tokens, NEW v \in Tokens, u # v, token'[u].state = "live",
                      token'[v].state = "live", token'[u].login = token'[v].login
               PROVE  token'[u].forked \/ Taken(u)' \/ Taken(v)'
    OBVIOUS
  <2>0. /\ token[u].state = "live" /\ token[v].state = "live" /\ token[u].login = token[v].login
    OBVIOUS
  <2>1. token[u].forked \/ Taken(u) \/ Taken(v)
    BY <2>0, HeirsUse
  <2>2. CASE u # o /\ v # o
    BY <1>3, <2>1, <2>2
  <2>3. CASE /\ u = o \/ v = o
             /\ request[s].pc = "rotate"
    <3>1. /\ token[u].login = token[Origin(s)].login /\ token[v].login = token[Origin(s)].login
      BY <2>0, <2>3
    <3>2. (token[u].forked \/ Taken(u)) /\ (token[v].forked \/ Taken(v))
      BY <2>0, <2>3, <3>1, HeirsUse
    <3>3. token[v].forked = token[u].forked
      BY <2>0, HeirsUse
    <3> QED BY <1>3, <2>3, <3>2, <3>3
  <2>4. CASE /\ u = o \/ v = o
             /\ \A w \in Tokens : token'[w].state # "none" /\ token'[w].login = token[o].login
                  => token'[w].forked
    BY <2>4
  <2> QED BY <2>2, <2>3, <2>4 DEF Retired
<1>8. \A r \in Slots, u \in Tokens :
        request'[r].pc = "rotate" /\ token'[u].state = "live"
          /\ token'[u].login = token'[request'[r].token].login
            => token'[u].forked \/ Taken(u)'
  <2> SUFFICES ASSUME NEW r \in Slots, NEW u \in Tokens, request'[r].pc = "rotate",
                      token'[u].state = "live",
                      token'[u].login = token'[request'[r].token].login
               PROVE  token'[u].forked \/ Taken(u)'
    OBVIOUS
  <2>1. /\ r # s /\ request[r].pc = "rotate" /\ Refreshes(r) /\ token[u].state = "live"
        /\ token[u].login = token[Origin(r)].login
    BY <1>2, <1>4
  <2>2. token[u].forked \/ Taken(u)
    BY <2>1, HeirsUse
  <2>3. CASE u # o
    BY <1>3, <2>2, <2>3
  <2>4. CASE u = o /\ request[s].pc = "rotate"
    <3>1. token[Origin(s)].forked
      BY <2>1, <2>4, HeirsUse
    <3> QED BY <2>4, <3>1
  <2>5. CASE /\ u = o
             /\ \A w \in Tokens : token'[w].state # "none" /\ token'[w].login = token[o].login
                  => token'[w].forked
    BY <2>5
  <2> QED BY <2>3, <2>4, <2>5 DEF Retired
<1>9. \A q, r \in Slots :
        q # r /\ Refreshes(q)' /\ Refreshes(r)' /\ request'[q].token = request'[r].token
          => token'[request'[q].token].forked
  BY <1>2, <1>4, HeirsUse
<1>10. \A q, r \in Slots :
         q # r /\ request'[q].pc = "rotate" /\ request'[r].pc = "rotate"
           /\ token'[request'[q].token].login = token'[request'[r].token].login
             => token'[request'[q].token].forked
  BY <1>2, <1>4, HeirsUse
<1> QED
  BY <1>5, <1>6, <1>7, <1>8, <1>9, <1>10, HeirsProve

LEMMA HeirsKept ==
    ASSUME TypeOK, Heirs, [Next]_vars
    PROVE  Heirs'
<1>0. RequestsKnown'
  BY RequestsKept DEF Heirs
<1>1. CASE NoRefresh
  <2>1. /\ UNCHANGED token
        /\ \A r \in Slots : request'[r] = request[r] \/ Moved(request[r], request'[r])
    BY <1>1, NoRefreshWrites
  <2>2. \A r \in Slots : Refreshes(r) \/ Refreshes(r)' => request'[r] = request[r]
    BY <2>1 DEF Refreshes, Moved, RotatePcs, Idle
  <2> QED BY <1>0, <2>1, <2>2, HeirsUndisturbed
<1>2. ASSUME NEW s \in Slots, Logout(s) \/ EndSessions(s) PROVE Heirs'
  <2>1. RevokeAll(s) /\ request[s].pc \notin RotatePcs
    BY <1>2 DEF Logout, EndSessions, RotatePcs
  <2>2. \A t \in Tokens :
          /\ (token[t].state = "none") <=> (token'[t].state = "none")
          /\ token[t].state # "none" =>
               token'[t].login = token[t].login /\ token'[t].forked = token[t].forked
          /\ token'[t].state # "live"
    BY <2>1, Revokes
  <2>3. /\ request'[s] = Idle
        /\ \A r \in Slots : r # s =>
             \/ request'[r] = Idle /\ request[r].pc = "idle"
             \/ request'[r].pc = request[r].pc /\ request'[r].token = request[r].token
    BY <2>1, Revokes
  <2>4. \A r \in Slots : Refreshes(r) \/ Refreshes(r)' =>
          request'[r].pc = request[r].pc /\ request'[r].token = request[r].token
    BY <2>1, <2>3 DEF Refreshes, RotatePcs, Idle
  <2> QED BY <1>0, <2>2, <2>4, HeirsUndisturbed
<1>3. ASSUME NEW s \in Slots, Retire(s) PROVE Heirs'
  <2>1. /\ Refreshes(s) /\ Answer(s) /\ Origin(s) \in Tokens /\ token[Origin(s)].state # "none"
        /\ token' = [token EXCEPT ![Origin(s)].state = "revoked"]
    BY <1>3, HeirsUse DEF Retire, Refreshes, Origin, RotatePcs
  <2>2. /\ token'[Origin(s)].state = "revoked"
        /\ \A u \in Tokens : /\ u # Origin(s) => token'[u] = token[u]
                             /\ token'[u].login = token[u].login
                             /\ token'[u].forked = token[u].forked
    BY <2>1, StateChanges
  <2>3. Retired(s, Origin(s))
    BY <2>2 DEF Retired
  <2>4. \A t, u \in Tokens :
          token[t].state # "none" /\ token[u].state # "none" /\ token[t].login = token[u].login
            => token'[t].forked = token'[u].forked
    BY <2>2, HeirsUse
  <2> QED BY <1>0, <2>1, <2>2, <2>3, <2>4, RefreshEnds
<1>4. ASSUME NEW s \in Slots, Fault(s) PROVE Heirs'
  <2>1. Answer(s) /\ token' = IF request[s].pc = "retire" THEN Forked(Origin(s)) ELSE token
    BY <1>4 DEF Fault, Origin
  <2>2. CASE request[s].pc = "retire"
    <3>1. Refreshes(s) /\ Origin(s) \in Tokens /\ token' = Forked(Origin(s))
      BY <2>1, <2>2, HeirsUse DEF Refreshes, RotatePcs
    <3>2. \A u \in Tokens :
            /\ token'[u].state = token[u].state /\ token'[u].login = token[u].login
            /\ token'[u].forked =
                 IF token[u].state # "none" /\ token[u].login = token[Origin(s)].login
                 THEN TRUE ELSE token[u].forked
      BY <3>1, Forks
    <3>3. Retired(s, Origin(s))
      BY <3>2 DEF Retired
    <3>4. \A t, u \in Tokens :
            token[t].state # "none" /\ token[u].state # "none" /\ token[t].login = token[u].login
              => token'[t].forked = token'[u].forked
      <4> SUFFICES ASSUME NEW t \in Tokens, NEW u \in Tokens, token[t].state # "none",
                          token[u].state # "none", token[t].login = token[u].login
                   PROVE  token'[t].forked = token'[u].forked
        OBVIOUS
      <4>1. CASE token[t].login = token[Origin(s)].login
        BY <3>2, <4>1
      <4>2. CASE token[t].login # token[Origin(s)].login
        <5>1. token'[t].forked = token[t].forked /\ token'[u].forked = token[u].forked
          BY <3>2, <4>2
        <5> QED BY <5>1, HeirsUse
      <4> QED BY <4>1, <4>2
    <3>5. \A u \in Tokens : token[u].forked => token'[u].forked
      BY <3>2
    <3> QED BY <1>0, <2>1, <3>1, <3>2, <3>3, <3>4, <3>5, RefreshEnds
  <2>3. CASE request[s].pc = "rotate"
    <3>1. Refreshes(s) /\ Origin(s) \in Tokens /\ token' = token
      BY <2>1, <2>3, HeirsUse DEF Refreshes, RotatePcs
    <3>2. Retired(s, Origin(s))
      BY <2>3, <3>1 DEF Retired
    <3>3. \A t, u \in Tokens :
            token[t].state # "none" /\ token[u].state # "none" /\ token[t].login = token[u].login
              => token'[t].forked = token'[u].forked
      BY <3>1, HeirsUse
    <3> QED BY <1>0, <2>1, <3>1, <3>2, <3>3, RefreshEnds
  <2>4. CASE request[s].pc \notin RotatePcs
    <3>1. \A r \in Slots : request'[r] = IF r = s THEN Idle ELSE request[r]
      BY <2>1, Answers
    <3>2. UNCHANGED token
      BY <2>1, <2>4 DEF RotatePcs
    <3>3. \A r \in Slots : Refreshes(r) \/ Refreshes(r)' => request'[r] = request[r]
      BY <2>4, <3>1 DEF Refreshes, RotatePcs, Idle
    <3> QED BY <1>0, <3>2, <3>3, HeirsUndisturbed
  <2> QED BY <2>2, <2>3, <2>4 DEF RotatePcs
<1>5. ASSUME NEW s \in Slots, NEW t \in Tokens, Mint(s, t) \/ RefreshRead(s, t) \/ Rotate(s, t)
      PROVE  Heirs'
  BY <1>0, <1>5, MintKeepsHeirs, RefreshReadKeepsHeirs, RotateKeepsHeirs
<1>6. ASSUME NEW t \in Tokens, Expire(t) PROVE Heirs'
  <2>1. token' = [token EXCEPT ![t].state = "expired"] /\ UNCHANGED request /\ token[t].state = "live"
    BY <1>6 DEF Expire, Live
  <2>2. /\ token'[t].state = "expired"
        /\ \A u \in Tokens : /\ u # t => token'[u] = token[u]
                             /\ token'[u].login = token[u].login
                             /\ token'[u].forked = token[u].forked
    BY <2>1, StateChanges
  <2> QED BY <1>0, <2>1, <2>2, HeirsUndisturbed
<1>7. ASSUME NEW s \in Slots, NEW t \in Tokens, ReuseRead(s, t) PROVE Heirs'
  <2>1. /\ \A u \in Tokens :
             /\ (token[u].state = "none") <=> (token'[u].state = "none")
             /\ token[u].state # "none" =>
                  /\ token'[u].state = token[u].state
                  /\ token'[u].login = token[u].login /\ token'[u].forked = token[u].forked
        /\ request[s].pc = "idle" /\ request'[s].pc = "reuse"
        /\ \A r \in Slots : r # s => request'[r] = request[r]
    BY <1>7, Exposes
  <2>2. \A r \in Slots : Refreshes(r) \/ Refreshes(r)' => request'[r] = request[r]
    BY <2>1 DEF Refreshes, RotatePcs
  <2>3. \A u \in Tokens : token'[u].state = "live" => token[u].state = "live"
    BY <2>1
  <2> QED BY <1>0, <2>1, <2>2, <2>3, HeirsUndisturbed
<1> QED
  BY <1>1, <1>2, <1>3, <1>4, <1>5, <1>6, <1>7, StepKinds

-----------------------------------------------------------------------------
(* The invariant, and what it gives.                                       *)

LEMMA SessionInvInitially == Init => SessionInv
<1> SUFFICES ASSUME Init PROVE SessionInv
  OBVIOUS
<1>1. /\ \A t \in Tokens : token[t].state = "none"
      /\ \A s \in Slots : request[s].pc = "idle"
      /\ failed = 0 /\ guesses = 0 /\ uncounted = 0 /\ locked = FALSE
      /\ account.deletion = "none" /\ sweep = "idle"
  BY DEF Init, NoToken, Idle
<1>2. TypeOK
  <2>1. RowsTyped
    BY Limits DEF Init, RowsTyped
  <2>2. AccountTyped
    BY DEF Init, AccountTyped
  <2>3. SigninTyped
    BY Limits DEF Init, SigninTyped
  <2> QED BY <2>1, <2>2, <2>3, TypesSplit
<1>3. RequestsKnown /\ SweepIsWanted /\ NoSurvivor /\ PendingSessions
  BY <1>1 DEF RequestsKnown, SweepIsWanted, NoSurvivor, PendingSessions, Live, RotatePcs
<1>4. GuessesLeft
  BY <1>1, Limits DEF GuessesLeft
<1>5. SessionRows /\ OneHeir /\ HeirsToCome
  BY <1>1 DEF SessionRows, OneHeir, HeirsToCome, Live, RotatePcs
<1> QED
  BY <1>2, <1>3, <1>4, <1>5 DEF SessionInv

LEMMA SessionInvariance == Spec => []SessionInv
<1>1. SessionInv /\ [Next]_vars => SessionInv'
  <2> SUFFICES ASSUME SessionInv, [Next]_vars PROVE SessionInv'
    OBVIOUS
  <2>1. /\ TypeOK /\ RequestsKnown /\ SweepIsWanted /\ GuessesLeft
        /\ NoSurvivor /\ PendingSessions /\ Heirs
    BY DEF SessionInv, Heirs
  <2>2. TypeOK' /\ SweepIsWanted' /\ GuessesLeft' /\ NoSurvivor' /\ PendingSessions'
    BY <2>1, TypeInvariance, SweepStaysWanted, GuessesStayBounded, SurvivorsKept
  <2>3. RequestsKnown' /\ SessionRows' /\ OneHeir' /\ HeirsToCome'
    BY <2>1, HeirsKept DEF Heirs
  <2> QED BY <2>2, <2>3 DEF SessionInv
<1> QED
  BY <1>1, SessionInvInitially, PTL DEF Spec

\* The types of the rows, the account and the requests hold in every state.
THEOREM TypeCorrect == Spec => []TypeOK
<1>1. SessionInv => TypeOK
  BY DEF SessionInv
<1> QED
  BY <1>1, SessionInvariance, PTL

\* However many devices and however the requests interleave: after a logout, a
\* detected reuse or a password change no earlier session goes on, unless its
\* login or a refresh of it overlapped the end of the sessions, or the RevokeAll
\* of the reuse or of the change has failed and none has succeeded since.
THEOREM SessionsEnd == Spec => []NoSurvivor
<1>1. SessionInv => NoSurvivor
  BY DEF SessionInv
<1> QED
  BY <1>1, SessionInvariance, PTL

\* However often a session is refreshed, it has one token to refresh it with,
\* except while one is being replaced and once the session has forked.
THEOREM SessionsHaveOneHeir == Spec => []OneHeir
<1>1. SessionInv => OneHeir
  BY DEF SessionInv
<1> QED
  BY <1>1, SessionInvariance, PTL

\* For every limit and every number of requests at one time: of the wrong guesses
\* between two logins those that were counted exceed the limit by less than that
\* number.  Nothing bounds the others.
THEOREM GuessingIsBounded == Spec => []GuessesBounded
<1>1. SessionInv => GuessesBounded
  <2> SUFFICES ASSUME SessionInv PROVE GuessesBounded
    OBVIOUS
  <2>1. /\ guesses \in Nat /\ uncounted \in Nat /\ MaxFailures \in Nat
        /\ Checking \in SUBSET Slots
    BY Limits DEF SessionInv, TypeOK, Checking
  <2>2. Cardinality(Checking) \in Nat /\ Cardinality(Slots) \in Nat
    BY <2>1, CheckingIsFinite
  <2>3. CASE locked
    BY <2>1, <2>2, <2>3 DEF SessionInv, GuessesLeft, GuessesBounded
  <2>4. CASE ~locked
    BY <2>1, <2>2, <2>4 DEF SessionInv, GuessesLeft, GuessesBounded
  <2> QED BY <2>3, <2>4
<1> QED
  BY <1>1, SessionInvariance, PTL

\* A step that erases the account erases one whose owner wants it, or wanted it
\* when the sweep listed the account.
THEOREM ErasureIsWanted == Spec => ErasureWanted
<1>1. SessionInv /\ [Next]_vars => [account'.erased /\ ~account.erased => wanted # "no"]_vars
  BY OnlyTheSweepErases DEF SessionInv, SweepIsWanted
<1> QED
  BY <1>1, SessionInvariance, PTL DEF Spec, ErasureWanted
=============================================================================
