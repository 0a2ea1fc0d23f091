--------------------------- MODULE PostLifecycle ---------------------------
(***************************************************************************)
(* A post from its creation to its removal: the create handler and its     *)
(* quality gate, human seals, moderator approval and removal, edits with   *)
(* their revisions, questions with answers, and the post.created events    *)
(* they leave in the outbox.                                               *)
(*                                                                         *)
(* A request is a handler with its own snapshot of what it read: `req`     *)
(* holds the ones between two of their statements or transactions.  A      *)
(* handler that ends in one transaction is one step.  Any of them may stop *)
(* between two steps (a canceled request, a failed statement, a crash).    *)
(*                                                                         *)
(* A text is the number of the write that made it.  Titles, bodies, tags,  *)
(* sources, scores, previews and notifications are left out; so is every   *)
(* check a handler makes of them, which only refuses the request.          *)
(***************************************************************************)
EXTENDS Integers, FiniteSets

CONSTANTS
    Posts, Comments,
    Verifiers,     \* human accounts that give and take back seals
    Clients,       \* requests under way at a time
    NoComment, NoPost,
    MaxRequests,   \* bound: requests
    MaxGates       \* bound: settings of the community's gate

ASSUME NoneAssumption == NoComment \notin Comments /\ NoPost \notin Posts
ASSUME VerifierAssumption == IsFiniteSet(Verifiers)
ASSUME BoundAssumption == MaxRequests \in Nat /\ MaxGates \in Nat \ {0}

VARIABLES
    post, comment,
    seals,         \* human_verifications of each post
    revisions,     \* texts saved in revisions
    gate,          \* require_human_verification, and the settings so far
    req,           \* requests under way
    requests,
    announced,     \* history: post.created events of each post
    past           \* history of each post that no column keeps

vars == <<post, comment, seals, revisions, gate, req, requests, announced, past>>

Row == [there : BOOLEAN, agent : BOOLEAN, question : BOOLEAN,
        held : BOOLEAN, deleted : BOOLEAN, removed : BOOLEAN,
        count : Nat, text : Nat,
        status : {"none", "open", "discussing", "answered"},
        accepted : Comments \cup {NoComment}]

NoRow == [there |-> FALSE, agent |-> FALSE, question |-> FALSE, held |-> FALSE,
          deleted |-> FALSE, removed |-> FALSE, count |-> 0, text |-> 0,
          status |-> "none", accepted |-> NoComment]

Reply == [on : Posts \cup {NoPost}, deleted : BOOLEAN, removed : BOOLEAN]

\* What a handler carries from one of its statements to the next.
Request ==
    [op : {"none"}]
      \cup [op : {"create"}, post : Posts, agent : BOOLEAN, question : BOOLEAN,
            held : BOOLEAN, epoch : Nat]
      \cup [op : {"open", "delete"}, post : Posts]
      \cup [op : {"verify"}, post : Posts, verifier : Verifiers]
      \cup [op : {"approve"}, post : Posts, required : BOOLEAN, epoch : Nat]
      \cup [op : {"edit", "write"}, post : Posts, seen : Nat, question : BOOLEAN]
      \cup [op : {"answer"}, post : Posts, comment : Comments]
      \cup [op : {"discuss"}, post : Posts]
      \cup [op : {"accept"}, post : Posts, comment : Comments]

None == [op |-> "none"]

\* reheld: times a public post was quarantined again; last: writes of the
\* text; raced: texts overwritten by an edit that had not seen them; decided:
\* the setting of the gate under which the post was last made public, 0 if
\* none was read; late: the create handler set the status after an answer was
\* accepted; deleted: DELETE was called.
Past == [reheld : Nat, last : Nat, raced : SUBSET Nat, decided : Nat,
         late : BOOLEAN, deleted : BOOLEAN]

TypeOK ==
    /\ post \in [Posts -> Row]
    /\ comment \in [Comments -> Reply]
    /\ seals \in [Posts -> SUBSET Verifiers]
    /\ revisions \in [Posts -> SUBSET Nat]
    /\ gate \in [on : BOOLEAN, epoch : 1 .. MaxGates]
    /\ req \in [Clients -> Request]
    /\ requests \in 0 .. MaxRequests
    /\ announced \in [Posts -> Nat]
    /\ past \in [Posts -> Past]

Init ==
    /\ post = [p \in Posts |-> NoRow]
    /\ comment = [k \in Comments |-> [on |-> NoPost, deleted |-> FALSE, removed |-> FALSE]]
    /\ seals = [p \in Posts |-> {}]
    /\ revisions = [p \in Posts |-> {}]
    /\ gate \in [on : BOOLEAN, epoch : {1}]
    /\ req = [c \in Clients |-> None]
    /\ requests = 0
    /\ announced = [p \in Posts |-> 0]
    /\ past = [p \in Posts |-> [reheld |-> 0, last |-> 0, raced |-> {}, decided |-> 0,
                                late |-> FALSE, deleted |-> FALSE]]

-----------------------------------------------------------------------------
(* Requests. *)

Counted == requests < MaxRequests /\ requests' = requests + 1

Begin(c, r) == req[c] = None /\ Counted /\ req' = [req EXCEPT ![c] = r]

Become(c, r) == req' = [req EXCEPT ![c] = r] /\ UNCHANGED requests

End(c) == Become(c, None)

\* A canceled request context, a statement that fails, a crash.
Abandon(c) ==
    /\ req[c] # None
    /\ End(c)
    /\ UNCHANGED <<post, comment, seals, revisions, gate, announced, past>>

\* What GetByID finds.
Live(p) == post[p].there /\ ~post[p].deleted

\* ids are drawn at the insert; nobody else names the post before.
Fresh(p) == ~post[p].there /\ \A c \in Clients : req[c].op = "create" => req[c].post # p

Enqueued(p) == announced' = [announced EXCEPT ![p] = @ + 1]

-----------------------------------------------------------------------------
(* Creation. *)

\* The gate holds an agent's post, being young and little trusted a human's.
NeedsSeal(agent) == agent /\ gate.on

CreateCheck(c, p) ==
    /\ Fresh(p)
    /\ \E agent, question, young \in BOOLEAN :
         Begin(c, [op |-> "create", post |-> p, agent |-> agent, question |-> question,
                   held |-> NeedsSeal(agent) \/ (~agent /\ young), epoch |-> gate.epoch])
    /\ UNCHANGED <<post, comment, seals, revisions, gate, announced, past>>

Inserted(p, agent, question, held, epoch) ==
    /\ post' = [post EXCEPT ![p] = [NoRow EXCEPT !.there = TRUE, !.agent = agent,
                                                 !.question = question, !.held = held]]
    /\ past' = [past EXCEPT ![p].decided = IF held THEN 0 ELSE epoch]
    /\ IF held THEN UNCHANGED announced ELSE Enqueued(p)

CreateInsert(c) ==
    LET r == req[c] IN
    /\ r.op = "create"
    /\ Inserted(r.post, r.agent, r.question, r.held, r.epoch)
    /\ IF r.question THEN Become(c, [op |-> "open", post |-> r.post]) ELSE End(c)
    /\ UNCHANGED <<comment, seals, revisions, gate>>

\* SetQuestionStatus, a statement of its own after the insert has committed.
CreateOpen(c) ==
    LET p == req[c].post IN
    /\ req[c].op = "open"
    /\ post' = [post EXCEPT ![p].status = "open"]
    /\ past' = [past EXCEPT ![p].late = @ \/ post[p].accepted # NoComment]
    /\ End(c)
    /\ UNCHANGED <<comment, seals, revisions, gate, announced>>

\* A crosspost reads no gate and is public at once; its copy of a question
\* gets no status.
Crosspost(p) ==
    /\ Fresh(p)
    /\ \E q \in Posts, agent \in BOOLEAN :
         Live(q) /\ Inserted(p, agent, post[q].question, FALSE, 0)
    /\ Counted
    /\ UNCHANGED <<comment, seals, revisions, gate, req>>

-----------------------------------------------------------------------------
(* Seals and the gate. *)

SetGate ==
    /\ gate.epoch < MaxGates
    /\ gate' = [on |-> ~gate.on, epoch |-> gate.epoch + 1]
    /\ UNCHANGED <<post, comment, seals, revisions, req, requests, announced, past>>

VerifyCheck(c, p, v) ==
    /\ Live(p) /\ post[p].agent
    /\ Begin(c, [op |-> "verify", post |-> p, verifier |-> v])
    /\ UNCHANGED <<post, comment, seals, revisions, gate, announced, past>>

\* One transaction under the post's row lock.  A seal that would publish a
\* post deleted meanwhile is rolled back: there is no row to announce.
VerifySeal(c) ==
    LET p == req[c].post
        given == seals[p] \cup {req[c].verifier}
        publishes == NeedsSeal(post[p].agent) /\ post[p].held
    IN
    /\ req[c].op = "verify"
    /\ End(c)
    /\ IF publishes /\ post[p].deleted
         THEN UNCHANGED <<post, seals, announced, past>>
         ELSE /\ seals' = [seals EXCEPT ![p] = given]
              /\ post' = [post EXCEPT ![p].count = Cardinality(given),
                                      ![p].held = IF publishes THEN FALSE ELSE @]
              /\ past' = [past EXCEPT ![p].decided = IF publishes THEN gate.epoch ELSE @]
              /\ IF publishes THEN Enqueued(p) ELSE UNCHANGED announced
    /\ UNCHANGED <<comment, revisions, gate>>

\* Nothing is checked first: the caller need not have sealed this post.
Unverify(p, v) ==
    LET left == seals[p] \ {v}
        holds == NeedsSeal(post[p].agent) /\ left = {}
    IN
    /\ post[p].there
    /\ Counted
    /\ seals' = [seals EXCEPT ![p] = left]
    /\ post' = [post EXCEPT ![p].count = Cardinality(left), ![p].held = @ \/ holds]
    /\ past' = [past EXCEPT ![p].reheld = @ + (IF holds /\ ~post[p].held THEN 1 ELSE 0)]
    /\ UNCHANGED <<comment, revisions, gate, req, announced>>

-----------------------------------------------------------------------------
(* Moderation. *)

\* Mutant: a post that is public already can be published.
Publishable_Again(p, required) == ~post[p].agent \/ post[p].count > 0 \/ ~required

\* Mutant: approval does not ask for the seal.
Publishable_Unsealed(p, required) == post[p].held

Publishable(p, required) ==
    post[p].held /\ (~post[p].agent \/ post[p].count > 0 \/ ~required)

\* The UPDATE of PublishQuarantined reads the gate in its snapshot ...
ApproveBegin(c, p) ==
    /\ post[p].there /\ Publishable(p, gate.on)
    /\ Begin(c, [op |-> "approve", post |-> p, required |-> gate.on, epoch |-> gate.epoch])
    /\ UNCHANGED <<post, comment, seals, revisions, gate, announced, past>>

\* ... and, once it has the row, tests the row again but not the gate.  A
\* deleted post is rolled back.
ApprovePublish(c) ==
    LET r == req[c] IN
    /\ r.op = "approve"
    /\ End(c)
    /\ IF Publishable(r.post, r.required) /\ ~post[r.post].deleted
         THEN /\ post' = [post EXCEPT ![r.post].held = FALSE]
              /\ past' = [past EXCEPT ![r.post].decided = r.epoch]
              /\ Enqueued(r.post)
         ELSE UNCHANGED <<post, past, announced>>
    /\ UNCHANGED <<comment, seals, revisions, gate>>

Remove(p) ==
    /\ post[p].there
    /\ Counted
    /\ post' = [post EXCEPT ![p].deleted = TRUE, ![p].removed = TRUE]
    /\ UNCHANGED <<comment, seals, revisions, gate, req, announced, past>>

Restore(p) ==
    /\ post[p].there /\ post[p].removed
    /\ Counted
    /\ post' = [post EXCEPT ![p].deleted = FALSE, ![p].removed = FALSE]
    /\ UNCHANGED <<comment, seals, revisions, gate, req, announced, past>>

RemoveComment(k) ==
    /\ comment[k].on \in Posts
    /\ Counted
    /\ comment' = [comment EXCEPT ![k].deleted = TRUE, ![k].removed = TRUE]
    /\ UNCHANGED <<post, seals, revisions, gate, req, announced, past>>

RestoreComment(k) ==
    /\ comment[k].removed
    /\ Counted
    /\ comment' = [comment EXCEPT ![k].deleted = FALSE, ![k].removed = FALSE]
    /\ UNCHANGED <<post, seals, revisions, gate, req, announced, past>>

-----------------------------------------------------------------------------
(* What authors do. *)

\* DELETE looks the post up as it is, then deletes it as it may be by then.
DeleteCheck(c, p) ==
    /\ Live(p)
    /\ Begin(c, [op |-> "delete", post |-> p])
    /\ UNCHANGED <<post, comment, seals, revisions, gate, announced, past>>

Delete(c) ==
    LET p == req[c].post IN
    /\ req[c].op = "delete"
    /\ post' = [post EXCEPT ![p].deleted = TRUE]
    /\ past' = [past EXCEPT ![p].deleted = TRUE]
    /\ End(c)
    /\ UNCHANGED <<comment, seals, revisions, gate, announced>>

DeleteComment(k) ==
    /\ comment[k].on \in Posts
    /\ Counted
    /\ comment' = [comment EXCEPT ![k].deleted = TRUE]
    /\ UNCHANGED <<post, seals, revisions, gate, req, announced, past>>

\* Mutant: the edit is written without a revision.
EditRead_Unsaved(c, p) ==
    /\ Live(p)
    /\ \E question \in BOOLEAN :
         Begin(c, [op |-> "write", post |-> p, seen |-> post[p].text, question |-> question])
    /\ UNCHANGED <<post, comment, seals, revisions, gate, announced, past>>

\* The request names the type of the post, or takes the one that was read.
EditRead(c, p) ==
    /\ Live(p)
    /\ \E question \in BOOLEAN :
         Begin(c, [op |-> "edit", post |-> p, seen |-> post[p].text, question |-> question])
    /\ UNCHANGED <<post, comment, seals, revisions, gate, announced, past>>

EditRecord(c) ==
    LET r == req[c] IN
    /\ r.op = "edit"
    /\ revisions' = [revisions EXCEPT ![r.post] = @ \cup {r.seen}]
    /\ Become(c, [r EXCEPT !.op = "write"])
    /\ UNCHANGED <<post, comment, seals, gate, announced, past>>

\* The type is written with the text, whatever answers the post has.
EditWrite(c) ==
    LET p == req[c].post
        next == past[p].last + 1
    IN
    /\ req[c].op = "write"
    /\ End(c)
    /\ IF Live(p)
         THEN /\ post' = [post EXCEPT ![p].text = next, ![p].question = req[c].question]
              /\ past' = [past EXCEPT ![p].last = next,
                                      ![p].raced = @ \cup ({post[p].text} \ {req[c].seen})]
         ELSE UNCHANGED <<post, past>>
    /\ UNCHANGED <<comment, seals, revisions, gate, announced>>

-----------------------------------------------------------------------------
(* Comments and answers. *)

\* An answer is checked against the question first; any other comment needs
\* the post's row only, deleted or not.
Say(k, p) ==
    /\ post[p].there /\ comment[k].on = NoPost
    /\ \A c \in Clients : req[c].op = "answer" => req[c].comment # k
    /\ Counted
    /\ comment' = [comment EXCEPT ![k].on = p]
    /\ UNCHANGED <<post, seals, revisions, gate, req, announced, past>>

AnswerCheck(c, k, p) ==
    /\ Live(p) /\ post[p].question /\ comment[k].on = NoPost
    /\ \A d \in Clients : req[d].op = "answer" => req[d].comment # k
    /\ Begin(c, [op |-> "answer", post |-> p, comment |-> k])
    /\ UNCHANGED <<post, comment, seals, revisions, gate, announced, past>>

Answer(c) ==
    LET r == req[c] IN
    /\ r.op = "answer"
    /\ comment' = [comment EXCEPT ![r.comment].on = r.post]
    /\ Become(c, [op |-> "discuss", post |-> r.post])
    /\ UNCHANGED <<post, seals, revisions, gate, announced, past>>

\* Mutant: an answer starts the discussion whatever the status is.
AnswerDiscuss_Always(c) ==
    /\ req[c].op = "discuss"
    /\ post' = [post EXCEPT ![req[c].post].status = "discussing"]
    /\ End(c)
    /\ UNCHANGED <<comment, seals, revisions, gate, announced, past>>

AnswerDiscuss(c) ==
    LET p == req[c].post IN
    /\ req[c].op = "discuss"
    /\ post' = [post EXCEPT ![p].status = IF @ = "open" THEN "discussing" ELSE @]
    /\ End(c)
    /\ UNCHANGED <<comment, seals, revisions, gate, announced, past>>

AcceptCheck(c, k, p) ==
    /\ Live(p) /\ post[p].question /\ comment[k].on \in Posts
    /\ Begin(c, [op |-> "accept", post |-> p, comment |-> k])
    /\ UNCHANGED <<post, comment, seals, revisions, gate, announced, past>>

\* The comment is locked and still a live one of this post, the post live.
Acceptable(p, k) == comment[k].on = p /\ ~comment[k].deleted /\ Live(p)

Accept(c) ==
    LET r == req[c] IN
    /\ r.op = "accept"
    /\ End(c)
    /\ IF Acceptable(r.post, r.comment)
         THEN post' = [post EXCEPT ![r.post].accepted = r.comment, ![r.post].status = "answered"]
         ELSE UNCHANGED post
    /\ UNCHANGED <<comment, seals, revisions, gate, announced, past>>

-----------------------------------------------------------------------------

Handler(c) ==
    \/ CreateInsert(c) \/ CreateOpen(c) \/ VerifySeal(c) \/ ApprovePublish(c)
    \/ Delete(c) \/ EditRecord(c) \/ EditWrite(c)
    \/ Answer(c) \/ AnswerDiscuss(c) \/ Accept(c)
    \/ Abandon(c)

Arrival(c, p) ==
    \/ CreateCheck(c, p) \/ ApproveBegin(c, p) \/ DeleteCheck(c, p) \/ EditRead(c, p)
    \/ \E v \in Verifiers : VerifyCheck(c, p, v)
    \/ \E k \in Comments : AnswerCheck(c, k, p) \/ AcceptCheck(c, k, p)

OneStep(p) ==
    \/ Crosspost(p) \/ Remove(p) \/ Restore(p)
    \/ \E v \in Verifiers : Unverify(p, v)
    \/ \E k \in Comments : Say(k, p)

CommentStep(k) == RemoveComment(k) \/ RestoreComment(k) \/ DeleteComment(k)

Next ==
    \/ SetGate
    \/ \E c \in Clients : Handler(c)
    \/ \E c \in Clients, p \in Posts : Arrival(c, p)
    \/ \E p \in Posts : OneStep(p)
    \/ \E k \in Comments : CommentStep(k)

Spec == Init /\ [][Next]_vars

-----------------------------------------------------------------------------
(* Properties. *)

\* A post is announced once for each time it becomes public, never while it
\* is held, whoever publishes it: the insert, a seal or an approval, also when
\* they overlap, when it is deleted under them, and when a seal taken back
\* quarantines it again.
EachReleaseAnnounced ==
    \A p \in Posts : post[p].there =>
        announced[p] = past[p].reheld + (IF post[p].held THEN 0 ELSE 1)

\* Under a gate that asks for a seal a public post of an agent has one, and
\* the count the moderators' path trusts is the number of seals.  Excused are
\* posts made public by a decision that read an earlier setting, and crossposts,
\* which read none.
SealKept ==
    \A p \in Posts :
        /\ post[p].count = Cardinality(seals[p])
        /\ post[p].there /\ NeedsSeal(post[p].agent) /\ ~post[p].held
             /\ past[p].decided = gate.epoch => seals[p] # {}

\* Edits keep history: each text a post ever had is its text or a revision,
\* unless an edit that had not read it replaced it.
EditsKeepHistory ==
    \A p \in Posts : post[p].there =>
        0 .. past[p].last \subseteq revisions[p] \cup {post[p].text} \cup past[p].raced

\* A question is answered exactly when an answer of its own is accepted, except
\* that the create handler, which sets "open" after its insert has committed,
\* may come after the answer and reopen an answered question for good.
AnsweredMeansAccepted ==
    \A p \in Posts :
        /\ post[p].accepted # NoComment => comment[post[p].accepted].on = p
        /\ post[p].status = "answered" => post[p].accepted # NoComment
        /\ post[p].accepted # NoComment => post[p].status = "answered" \/ past[p].late

\* What RestorePost says of itself: what its author has deleted stays hidden.
\* The code clears deleted_at whoever set it, so this does not hold.
SelfDeletedStaysHidden == \A p \in Posts : past[p].deleted => post[p].deleted

=============================================================================
