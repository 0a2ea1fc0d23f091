-------------------------- MODULE PostLifecycleProofs --------------------------
(***************************************************************************)
(* Theorems about PostLifecycle for every set of posts, comments and       *)
(* verifiers, every number of requests under way and every bound of the    *)
(* model.                                                                  *)
(***************************************************************************)
EXTENDS PostLifecycle, FiniteSetTheorems, TLAPS

\* What a request may rely on although others have run since it read: only its
\* own insert makes a post that is being created, rows and revisions are never
\* taken away, a decision taken under the present setting of the gate is what
\* that setting asks for, and the comment of an answer is stored by nobody else.
Sound(r) ==
    /\ r.op = "create" =>
         /\ ~post[r.post].there /\ r.epoch <= gate.epoch
         /\ r.agent /\ ~r.held /\ r.epoch = gate.epoch => ~gate.on
    /\ r.op \notin {"none", "create"} => post[r.post].there
    /\ r.op = "approve" =>
         r.epoch <= gate.epoch /\ (r.epoch = gate.epoch => r.required = gate.on)
    /\ r.op = "write" => r.seen \in revisions[r.post]
    /\ r.op = "answer" => comment[r.comment].on = NoPost

\* Two requests never create the same post, nor the same comment.
Apart(r, q) ==
    /\ r.op = "create" /\ q.op = "create" => r.post # q.post
    /\ r.op = "answer" /\ q.op = "answer" => r.comment # q.comment

RequestsSound ==
    /\ \A c \in Clients : Sound(req[c])
    /\ \A c, d \in Clients : c # d => Apart(req[c], req[d])

\* A post that is not there has left no trace yet, and no decision is of a
\* setting to come.
Unborn ==
    \A p \in Posts :
        /\ ~post[p].there =>
             announced[p] = 0 /\ seals[p] = {} /\ past[p].reheld = 0 /\ past[p].last = 0
        /\ past[p].decided <= gate.epoch

PostInv ==
    /\ TypeOK
    /\ RequestsSound
    /\ Unborn
    /\ EachReleaseAnnounced
    /\ SealKept
    /\ EditsKeepHistory
    /\ AnsweredMeansAccepted

-----------------------------------------------------------------------------
(* Requests.                                                               *)

LEMMA Limits ==
    /\ MaxRequests \in Nat /\ MaxGates \in Nat \ {0}
    /\ NoComment \notin Comments /\ NoPost \notin Posts
    /\ None \in Request /\ None.op = "none"
  BY BoundAssumption, NoneAssumption DEF None, Request

LEMMA RequestFields ==
    ASSUME NEW r \in Request
    PROVE  /\ r.op # "none" => r.post \in Posts
           /\ r.op = "create" => /\ r.agent \in BOOLEAN /\ r.question \in BOOLEAN
                                 /\ r.held \in BOOLEAN /\ r.epoch \in Nat
           /\ r.op = "verify" => r.verifier \in Verifiers
           /\ r.op = "approve" => r.required \in BOOLEAN /\ r.epoch \in Nat
           /\ r.op \in {"edit", "write"} => r.seen \in Nat /\ r.question \in BOOLEAN
           /\ r.op \in {"answer", "accept"} => r.comment \in Comments
  BY DEF Request

LEMMA Begins ==
    ASSUME TypeOK, NEW c \in Clients, NEW r \in Request, Begin(c, r)
    PROVE  /\ req' \in [Clients -> Request] /\ requests' \in 0 .. MaxRequests
           /\ req[c] = None
           /\ \A d \in Clients : req'[d] = IF d = c THEN r ELSE req[d]
  BY Limits DEF TypeOK, Begin, Counted

LEMMA Becomes ==
    ASSUME TypeOK, NEW c \in Clients, NEW r \in Request, Become(c, r)
    PROVE  /\ req' \in [Clients -> Request] /\ requests' \in 0 .. MaxRequests
           /\ \A d \in Clients : req'[d] = IF d = c THEN r ELSE req[d]
  BY DEF TypeOK, Become

LEMMA Ends ==
    ASSUME TypeOK, NEW c \in Clients, End(c)
    PROVE  /\ req' \in [Clients -> Request] /\ requests' \in 0 .. MaxRequests
           /\ \A d \in Clients : req'[d] = IF d = c THEN None ELSE req[d]
  BY Becomes, Limits DEF End

\* What is between the client and its next step.
tables == <<post, comment, seals, revisions, gate, announced, past>>

\* An arriving request knows what it read: its post is there, unless it is to
\* create one nobody else creates; the setting of the gate is the present one.
Fit(r) ==
    /\ r.op \in {"create", "open", "delete", "verify", "approve", "edit", "answer", "accept"}
    /\ Sound(r)
    /\ \A d \in Clients : Apart(r, req[d]) /\ Apart(req[d], r)

LEMMA Arrives ==
    ASSUME TypeOK, NEW c \in Clients, NEW p \in Posts, Arrival(c, p)
    PROVE  UNCHANGED tables /\ \E r \in Request : Begin(c, r) /\ Fit(r)
<1>0. /\ gate.on \in BOOLEAN /\ gate.epoch \in Nat /\ post[p] \in Row
      /\ post[p].text \in Nat
  BY DEF TypeOK, Row
<1>1. CASE CreateCheck(c, p)
  <2>1. PICK agent \in BOOLEAN, question \in BOOLEAN, held \in BOOLEAN :
          /\ Begin(c, [op |-> "create", post |-> p, agent |-> agent, question |-> question,
                       held |-> held, epoch |-> gate.epoch])
          /\ agent /\ gate.on => held
    <3>1. PICK agent \in BOOLEAN, question \in BOOLEAN, young \in BOOLEAN :
            Begin(c, [op |-> "create", post |-> p, agent |-> agent, question |-> question,
                      held |-> NeedsSeal(agent) \/ (~agent /\ young), epoch |-> gate.epoch])
      BY <1>1 DEF CreateCheck
    <3>2. (NeedsSeal(agent) \/ (~agent /\ young)) \in BOOLEAN
      BY DEF NeedsSeal
    <3> QED BY <3>1, <3>2 DEF NeedsSeal
  <2> DEFINE r == [op |-> "create", post |-> p, agent |-> agent, question |-> question,
                   held |-> held, epoch |-> gate.epoch]
  <2>2. /\ r \in Request /\ r.op = "create" /\ r.post = p /\ r.epoch = gate.epoch
        /\ r.agent = agent /\ r.held = held
    BY <1>0 DEF Request
  <2>3. Begin(c, r)
    BY <2>1
  <2> HIDE DEF r
  <2>4. Fit(r)
    BY <1>0, <1>1, <2>1, <2>2 DEF Fit, Sound, Apart, CreateCheck, Fresh
  <2> QED BY <1>1, <2>2, <2>3, <2>4 DEF CreateCheck, tables
<1>2. CASE ApproveBegin(c, p)
  <2> DEFINE r == [op |-> "approve", post |-> p, required |-> gate.on, epoch |-> gate.epoch]
  <2>1. /\ r \in Request /\ r.op = "approve" /\ r.post = p /\ r.epoch = gate.epoch
        /\ r.required = gate.on
    BY <1>0 DEF Request
  <2>2. Begin(c, r) /\ post[p].there
    BY <1>2 DEF ApproveBegin
  <2> HIDE DEF r
  <2>3. Fit(r)
    BY <1>0, <2>1, <2>2 DEF Fit, Sound, Apart
  <2> QED BY <1>2, <2>1, <2>2, <2>3 DEF ApproveBegin, tables
<1>3. CASE DeleteCheck(c, p)
  <2> DEFINE r == [op |-> "delete", post |-> p]
  <2>1. r \in Request /\ r.op = "delete" /\ r.post = p
    BY DEF Request
  <2>2. Begin(c, r) /\ post[p].there
    BY <1>3 DEF DeleteCheck, Live
  <2> HIDE DEF r
  <2>3. Fit(r)
    BY <2>1, <2>2 DEF Fit, Sound, Apart
  <2> QED BY <1>3, <2>1, <2>2, <2>3 DEF DeleteCheck, tables
<1>4. CASE EditRead(c, p)
  <2>0. PICK question \in BOOLEAN :
          Begin(c, [op |-> "edit", post |-> p, seen |-> post[p].text, question |-> question])
    BY <1>4 DEF EditRead
  <2> DEFINE r == [op |-> "edit", post |-> p, seen |-> post[p].text, question |-> question]
  <2>1. r \in Request /\ r.op = "edit" /\ r.post = p
    BY <1>0 DEF Request
  <2>2. Begin(c, r) /\ post[p].there
    BY <1>4, <2>0 DEF EditRead, Live
  <2> HIDE DEF r
  <2>3. Fit(r)
    BY <2>1, <2>2 DEF Fit, Sound, Apart
  <2> QED BY <1>4, <2>1, <2>2, <2>3 DEF EditRead, tables
<1>5. ASSUME NEW v \in Verifiers, VerifyCheck(c, p, v)
      PROVE  UNCHANGED tables /\ \E r \in Request : Begin(c, r) /\ Fit(r)
  <2> DEFINE r == [op |-> "verify", post |-> p, verifier |-> v]
  <2>1. r \in Request /\ r.op = "verify" /\ r.post = p
    BY DEF Request
  <2>2. Begin(c, r) /\ post[p].there
    BY <1>5 DEF VerifyCheck, Live
  <2> HIDE DEF r
  <2>3. Fit(r)
    BY <2>1, <2>2 DEF Fit, Sound, Apart
  <2> QED BY <1>5, <2>1, <2>2, <2>3 DEF VerifyCheck, tables
<1>6. ASSUME NEW k \in Comments, AnswerCheck(c, k, p)
      PROVE  UNCHANGED tables /\ \E r \in Request : Begin(c, r) /\ Fit(r)
  <2> DEFINE r == [op |-> "answer", post |-> p, comment |-> k]
  <2>1. r \in Request /\ r.op = "answer" /\ r.post = p /\ r.comment = k
    BY DEF Request
  <2>2. /\ Begin(c, r) /\ post[p].there /\ comment[k].on = NoPost
        /\ \A d \in Clients : req[d].op = "answer" => req[d].comment # k
    BY <1>6 DEF AnswerCheck, Live
  <2> HIDE DEF r
  <2>3. Fit(r)
    BY <2>1, <2>2 DEF Fit, Sound, Apart
  <2> QED BY <1>6, <2>1, <2>2, <2>3 DEF AnswerCheck, tables
<1>7. ASSUME NEW k \in Comments, AcceptCheck(c, k, p)
      PROVE  UNCHANGED tables /\ \E r \in Request : Begin(c, r) /\ Fit(r)
  <2> DEFINE r == [op |-> "accept", post |-> p, comment |-> k]
  <2>1. r \in Request /\ r.op = "accept" /\ r.post = p
    BY DEF Request
  <2>2. Begin(c, r) /\ post[p].there
    BY <1>7 DEF AcceptCheck, Live
  <2> HIDE DEF r
  <2>3. Fit(r)
    BY <2>1, <2>2 DEF Fit, Sound, Apart
  <2> QED BY <1>7, <2>1, <2>2, <2>3 DEF AcceptCheck, tables
<1> QED
  BY <1>1, <1>2, <1>3, <1>4, <1>5, <1>6, <1>7 DEF Arrival

\* Steps that begin no request keep the others sound: they take no row away,
\* and no step but theirs makes their post or stores their comment.
LEMMA RequestsLast ==
    ASSUME TypeOK, RequestsSound, gate' = gate,
           \A p \in Posts : /\ post[p].there => post'[p].there
                            /\ post'[p].there /\ ~post[p].there =>
                                 \A d \in Clients : req'[d].op = "create" => req'[d].post # p
                            /\ revisions[p] \subseteq revisions'[p],
           \A k \in Comments :
             comment[k].on = NoPost /\ comment'[k].on # NoPost =>
               \A d \in Clients : req'[d].op = "answer" => req'[d].comment # k,
           \A d \in Clients :
             \/ req'[d] = req[d]
             \/ req'[d] = None
             \/ /\ req'[d].op \in {"open", "discuss", "write"}
                /\ req'[d].post \in Posts /\ post'[req'[d].post].there
                /\ req'[d].op = "write" => req'[d].seen \in revisions'[req'[d].post]
    PROVE  RequestsSound'
<1>1. \A d \in Clients : /\ req[d] \in Request /\ Sound(req[d])
                         /\ req[d].op # "none" => req[d].post \in Posts
                         /\ req[d].op = "answer" => req[d].comment \in Comments
  BY RequestFields DEF TypeOK, RequestsSound
<1>2. ASSUME NEW d \in Clients PROVE Sound(req[d])'
  <2>1. CASE req'[d] = req[d]
    BY <1>1, <2>1 DEF Sound
  <2>2. CASE req'[d] # req[d]
    BY <1>1, <2>2, Limits DEF Sound
  <2> QED BY <2>1, <2>2
<1>3. ASSUME NEW c \in Clients, NEW d \in Clients, c # d PROVE Apart(req[c], req[d])'
  BY <1>3, Limits DEF RequestsSound, Apart
<1> QED
  BY <1>2, <1>3 DEF RequestsSound

-----------------------------------------------------------------------------
(* Posts, one by one.                                                      *)

TablesTyped ==
    /\ post \in [Posts -> Row] /\ comment \in [Comments -> Reply]
    /\ seals \in [Posts -> SUBSET Verifiers] /\ revisions \in [Posts -> SUBSET Nat]
    /\ gate \in [on : BOOLEAN, epoch : 1 .. MaxGates]
    /\ announced \in [Posts -> Nat] /\ past \in [Posts -> Past]

RequestsTyped == req \in [Clients -> Request] /\ requests \in 0 .. MaxRequests

LEMMA TypesSplit == TypeOK <=> TablesTyped /\ RequestsTyped
  BY DEF TypeOK, TablesTyped, RequestsTyped

Whole(p) ==
    /\ ~post[p].there =>
         announced[p] = 0 /\ seals[p] = {} /\ past[p].reheld = 0 /\ past[p].last = 0
    /\ past[p].decided <= gate.epoch
    /\ post[p].there => announced[p] = past[p].reheld + (IF post[p].held THEN 0 ELSE 1)
    /\ post[p].count = Cardinality(seals[p])
    /\ post[p].there /\ NeedsSeal(post[p].agent) /\ ~post[p].held
         /\ past[p].decided = gate.epoch => seals[p] # {}
    /\ post[p].there =>
         0 .. past[p].last \subseteq revisions[p] \cup {post[p].text} \cup past[p].raced
    /\ post[p].accepted # NoComment => comment[post[p].accepted].on = p
    /\ post[p].status = "answered" => post[p].accepted # NoComment
    /\ post[p].accepted # NoComment => post[p].status = "answered" \/ past[p].late

LEMMA InvSplit ==
    PostInv <=> TablesTyped /\ RequestsTyped /\ RequestsSound /\ \A p \in Posts : Whole(p)
  BY TypesSplit DEF PostInv, Unborn, EachReleaseAnnounced, SealKept, EditsKeepHistory,
     AnsweredMeansAccepted, Whole

\* A comment stays where it was written.
CommentsStay == \A k \in Comments : comment[k].on # NoPost => comment'[k].on = comment[k].on

LEMMA Untouched ==
    ASSUME TablesTyped, NEW p \in Posts, Whole(p), gate' = gate, CommentsStay,
           post'[p] = post[p], seals'[p] = seals[p], revisions[p] \subseteq revisions'[p],
           announced'[p] = announced[p], past'[p] = past[p]
    PROVE  Whole(p)'
<1>1. post[p].accepted \in Comments \cup {NoComment} /\ p # NoPost
  BY Limits DEF TablesTyped, Row
<1>2. post[p].accepted # NoComment => comment'[post[p].accepted].on = p
  BY <1>1 DEF Whole, CommentsStay
<1> QED
  BY <1>2 DEF Whole, NeedsSeal

LEMMA Fields ==
    ASSUME TablesTyped, NEW p \in Posts
    PROVE  /\ post[p].there \in BOOLEAN /\ post[p].agent \in BOOLEAN
           /\ post[p].question \in BOOLEAN /\ post[p].held \in BOOLEAN
           /\ post[p].deleted \in BOOLEAN /\ post[p].removed \in BOOLEAN
           /\ post[p].count \in Nat /\ post[p].text \in Nat
           /\ post[p].status \in {"none", "open", "discussing", "answered"}
           /\ post[p].accepted \in Comments \cup {NoComment}
           /\ past[p].reheld \in Nat /\ past[p].last \in Nat /\ past[p].raced \subseteq Nat
           /\ past[p].decided \in Nat /\ past[p].late \in BOOLEAN /\ past[p].deleted \in BOOLEAN
           /\ announced[p] \in Nat /\ seals[p] \subseteq Verifiers /\ revisions[p] \subseteq Nat
           /\ gate.on \in BOOLEAN /\ gate.epoch \in Nat /\ gate.epoch >= 1
           /\ post[p] \in Row /\ past[p] \in Past
  BY Limits DEF TablesTyped, Row, Past

\* Rows and histories with one column written are rows and histories.
LEMMA RowWrites ==
    ASSUME NEW row \in Row
    PROVE  /\ \A b \in BOOLEAN : /\ [row EXCEPT !.held = b] \in Row
                                 /\ [row EXCEPT !.deleted = b] \in Row
                                 /\ [row EXCEPT !.deleted = b, !.removed = b] \in Row
           /\ \A n \in Nat : [row EXCEPT !.text = n] \in Row
           /\ \A n \in Nat, b \in BOOLEAN : [row EXCEPT !.count = n, !.held = b] \in Row
           /\ \A s \in {"none", "open", "discussing", "answered"} :
                /\ [row EXCEPT !.status = s] \in Row
                /\ \A k \in Comments : [row EXCEPT !.accepted = k, !.status = s] \in Row
  BY DEF Row

LEMMA PastWrites ==
    ASSUME NEW h \in Past
    PROVE  /\ \A n \in Nat : /\ [h EXCEPT !.decided = n] \in Past
                             /\ [h EXCEPT !.reheld = n] \in Past
           /\ \A b \in BOOLEAN : [h EXCEPT !.late = b] \in Past /\ [h EXCEPT !.deleted = b] \in Past
           /\ \A n \in Nat, raced \in SUBSET Nat : [h EXCEPT !.last = n, !.raced = raced] \in Past
  BY DEF Past

\* Seals of finitely many verifiers can be counted.
LEMMA SealsAreCounted ==
    ASSUME NEW S \in SUBSET Verifiers
    PROVE  /\ Cardinality(S) \in Nat /\ Cardinality({}) = 0
           /\ Cardinality(S) > 0 => S # {}
<1>1. IsFiniteSet(S)
  BY VerifierAssumption, FS_Subset
<1>2. Cardinality(S) \in Nat /\ Cardinality({}) = 0
  BY <1>1, FS_CardinalityType, FS_EmptySet
<1> QED
  BY <1>2

-----------------------------------------------------------------------------
(* The steps, one by one: each writes one post, if any.                    *)

Inv == TypeOK /\ RequestsSound /\ \A p \in Posts : Whole(p)

\* What a step does to the tables, the post p being the one it may write.
OnlyPost(p) ==
    /\ gate' = gate /\ CommentsStay
    /\ \A q \in Posts : q # p =>
         /\ post'[q] = post[q] /\ seals'[q] = seals[q] /\ revisions'[q] = revisions[q]
         /\ announced'[q] = announced[q] /\ past'[q] = past[q]

LEMMA OnePostKept ==
    ASSUME Inv, NEW p \in Posts, OnlyPost(p), Whole(p)'
    PROVE  \A q \in Posts : Whole(q)'
<1>1. TablesTyped
  BY TypesSplit DEF Inv
<1>2. ASSUME NEW q \in Posts, q # p PROVE Whole(q)'
  BY <1>1, <1>2, Untouched DEF Inv, OnlyPost
<1> QED
  BY <1>2

\* The insert, of a create handler or a crosspost.
LEMMA InsertedIsWhole ==
    ASSUME Inv, NEW p \in Posts, ~post[p].there,
           NEW agent \in BOOLEAN, NEW question \in BOOLEAN, NEW held \in BOOLEAN,
           NEW epoch \in Nat, epoch <= gate.epoch,
           agent /\ ~held /\ epoch = gate.epoch => ~gate.on,
           Inserted(p, agent, question, held, epoch),
           UNCHANGED <<comment, seals, revisions, gate>>
    PROVE  TablesTyped' /\ OnlyPost(p) /\ Whole(p)' /\ post'[p].there
<1> DEFINE row == [NoRow EXCEPT !.there = TRUE, !.agent = agent,
                                !.question = question, !.held = held]
<1>1. TablesTyped
  BY TypesSplit DEF Inv
<1>2. /\ row \in Row /\ row.there /\ row.agent = agent /\ row.held = held
      /\ row.count = 0 /\ row.text = 0 /\ row.status = "none" /\ row.accepted = NoComment
  BY DEF NoRow, Row
<1>3. /\ post' = [post EXCEPT ![p] = row]
      /\ past' = [past EXCEPT ![p].decided = IF held THEN 0 ELSE epoch]
      /\ announced' = IF held THEN announced ELSE [announced EXCEPT ![p] = announced[p] + 1]
  BY DEF Inserted, Enqueued
<1> HIDE DEF row
<1>4. /\ announced[p] = 0 /\ seals[p] = {} /\ past[p].reheld = 0 /\ past[p].last = 0
      /\ Cardinality({}) = 0
  BY SealsAreCounted DEF Inv, Whole
<1>5. PICK decided \in Nat : decided = IF held THEN 0 ELSE epoch
  OBVIOUS
<1>6. /\ past' \in [Posts -> Past]
      /\ past'[p].decided = decided /\ past'[p].reheld = 0 /\ past'[p].last = 0
  <2> DEFINE h == [past[p] EXCEPT !.decided = decided]
  <2>1. past' = [past EXCEPT ![p] = h]
    BY <1>3, <1>5
  <2>2. past[p] \in Past
    BY <1>1, Fields
  <2>3. /\ h \in Past /\ h.decided = decided /\ h.reheld = past[p].reheld
        /\ h.last = past[p].last
    BY <2>2 DEF Past
  <2> HIDE DEF h
  <2> QED BY <1>1, <1>4, <2>1, <2>3 DEF TablesTyped
<1>7. announced' \in [Posts -> Nat] /\ announced'[p] = IF held THEN 0 ELSE 1
  BY <1>1, <1>3, <1>4 DEF TablesTyped
<1>8. post' \in [Posts -> Row] /\ post'[p] = row
  BY <1>1, <1>2, <1>3 DEF TablesTyped
<1>9. TablesTyped'
  BY <1>1, <1>6, <1>7, <1>8 DEF TablesTyped
<1>10. OnlyPost(p)
  BY <1>1, <1>3 DEF OnlyPost, CommentsStay, TablesTyped
<1>11. gate.epoch \in Nat /\ gate.epoch >= 1
  BY <1>1, Fields
<1>12. Whole(p)'
  BY <1>2, <1>4, <1>5, <1>6, <1>7, <1>8, <1>11 DEF Whole, NeedsSeal
<1> QED
  BY <1>2, <1>8, <1>9, <1>10, <1>12

\* A step of one post that makes none: the requests that go on stay sound, and
\* the one that is answered or goes to its next statement is as before it.
LEMMA PostStep ==
    ASSUME Inv, TablesTyped', NEW p \in Posts, OnlyPost(p), Whole(p)',
           post[p].there, post'[p].there, revisions[p] \subseteq revisions'[p],
           UNCHANGED comment, req' \in [Clients -> Request], requests' \in 0 .. MaxRequests,
           \A d \in Clients :
             \/ req'[d] = req[d]
             \/ req'[d] = None
             \/ /\ req'[d].op = "write" /\ req'[d].post = p
                /\ req'[d].seen \in revisions'[p]
    PROVE  Inv'
<1>1. \A q \in Posts : /\ post[q].there <=> post'[q].there
                       /\ revisions[q] \subseteq revisions'[q]
  BY DEF OnlyPost
<1>2. RequestsSound'
  BY <1>1, RequestsLast DEF Inv, OnlyPost
<1>3. \A q \in Posts : Whole(q)'
  BY OnePostKept
<1>4. TypeOK'
  <2>1. RequestsTyped'
    BY DEF RequestsTyped
  <2>2. TablesTyped' /\ RequestsTyped' => TypeOK'
    BY TypesSplit, PTL
  <2> QED BY <2>1, <2>2
<1> QED
  BY <1>2, <1>3, <1>4 DEF Inv

\* The request of a handler names a post that is there.
LEMMA Handled ==
    ASSUME Inv, NEW c \in Clients, req[c].op \notin {"none", "create"}
    PROVE  /\ req[c].post \in Posts /\ post[req[c].post].there
           /\ req[c] \in Request
  BY RequestFields DEF Inv, RequestsSound, Sound, TypeOK

\* A client is answered.
LEMMA Over ==
    ASSUME Inv, NEW c \in Clients, End(c)
    PROVE  /\ req' \in [Clients -> Request] /\ requests' \in 0 .. MaxRequests
           /\ \A d \in Clients : req'[d] = req[d] \/ req'[d] = None
  BY Ends DEF Inv

\* A step without a request of its own.
LEMMA NoClient ==
    ASSUME Inv, Counted, UNCHANGED req
    PROVE  /\ req' \in [Clients -> Request] /\ requests' \in 0 .. MaxRequests
           /\ \A d \in Clients : req'[d] = req[d] \/ req'[d] = None
  BY Limits DEF Inv, Counted, TypeOK

LEMMA InvTyped == Inv => TablesTyped
  BY TypesSplit DEF Inv

\* Writing one row, its history, its seals or its count of announcements.
LEMMA RowWritten ==
    ASSUME TablesTyped, NEW p \in Posts, NEW row \in Row, post' = [post EXCEPT ![p] = row]
    PROVE  /\ post' \in [Posts -> Row] /\ post'[p] = row
           /\ \A q \in Posts : q # p => post'[q] = post[q]
  BY DEF TablesTyped

LEMMA PastWritten ==
    ASSUME TablesTyped, NEW p \in Posts, NEW h \in Past, past' = [past EXCEPT ![p] = h]
    PROVE  /\ past' \in [Posts -> Past] /\ past'[p] = h
           /\ \A q \in Posts : q # p => past'[q] = past[q]
  BY DEF TablesTyped

LEMMA CreateOpenKeeps ==
    ASSUME Inv, NEW c \in Clients, CreateOpen(c)
    PROVE  Inv'
<1>1. PICK p \in Posts : p = req[c].post /\ post[p].there /\ TablesTyped
  BY Handled, InvTyped DEF CreateOpen
<1>2. PICK late \in BOOLEAN : late = (past[p].late \/ post[p].accepted # NoComment)
  OBVIOUS
<1> DEFINE row == [post[p] EXCEPT !.status = "open"]
           h == [past[p] EXCEPT !.late = late]
<1>3. /\ row \in Row /\ row.status = "open" /\ row.there /\ row.accepted = post[p].accepted
      /\ row.agent = post[p].agent /\ row.held = post[p].held /\ row.count = post[p].count
      /\ row.text = post[p].text
  BY <1>1, Fields DEF Row
<1>4. /\ h \in Past /\ h.late = late /\ h.reheld = past[p].reheld /\ h.last = past[p].last
      /\ h.raced = past[p].raced /\ h.decided = past[p].decided
  BY <1>1, Fields DEF Past
<1>5. /\ post' = [post EXCEPT ![p] = row] /\ past' = [past EXCEPT ![p] = h]
      /\ UNCHANGED <<comment, seals, revisions, gate, announced>> /\ End(c)
  BY <1>1, <1>2 DEF CreateOpen
<1> HIDE DEF row, h
<1>6. /\ post' \in [Posts -> Row] /\ post'[p] = row
      /\ past' \in [Posts -> Past] /\ past'[p] = h
      /\ \A q \in Posts : q # p => post'[q] = post[q] /\ past'[q] = past[q]
  BY <1>1, <1>3, <1>4, <1>5, RowWritten, PastWritten
<1>7. TablesTyped' /\ OnlyPost(p)
  BY <1>1, <1>5, <1>6 DEF TablesTyped, OnlyPost, CommentsStay
<1>8. Whole(p)
  BY <1>1 DEF Inv
<1>9. Whole(p)'
  BY <1>1, <1>2, <1>3, <1>4, <1>5, <1>6, <1>8 DEF Whole, NeedsSeal
<1> QED
  BY <1>1, <1>3, <1>5, <1>6, <1>7, <1>9, Over, PostStep

\* Steps that write flags of the row no invariant reads.
LEMMA FlagStep ==
    ASSUME Inv, NEW p \in Posts, post[p].there, NEW row \in Row,
           row.there, row.agent = post[p].agent, row.held = post[p].held,
           row.count = post[p].count, row.text = post[p].text,
           row.accepted = post[p].accepted,
           row.status = post[p].status \/ ("answered" \notin {row.status, post[p].status}),
           post' = [post EXCEPT ![p] = row],
           NEW h \in Past, h.late = past[p].late, h.reheld = past[p].reheld,
           h.last = past[p].last, h.raced = past[p].raced, h.decided = past[p].decided,
           past' = [past EXCEPT ![p] = h],
           UNCHANGED <<comment, seals, revisions, gate, announced>>,
           req' \in [Clients -> Request], requests' \in 0 .. MaxRequests,
           \A d \in Clients : req'[d] = req[d] \/ req'[d] = None
    PROVE  Inv'
<1>1. TablesTyped /\ Whole(p)
  BY InvTyped DEF Inv
<1>2. /\ post' \in [Posts -> Row] /\ post'[p] = row
      /\ past' \in [Posts -> Past] /\ past'[p] = h
      /\ \A q \in Posts : q # p => post'[q] = post[q] /\ past'[q] = past[q]
  BY <1>1, RowWritten, PastWritten
<1>3. TablesTyped' /\ OnlyPost(p)
  BY <1>1, <1>2 DEF TablesTyped, OnlyPost, CommentsStay
<1>4. Whole(p)'
  BY <1>1, <1>2 DEF Whole, NeedsSeal
<1> QED
  BY <1>2, <1>3, <1>4, PostStep

\* A history written with what it is.
LEMMA PastAsItWas ==
    ASSUME TablesTyped, NEW p \in Posts
    PROVE  past[p] \in Past /\ [past EXCEPT ![p] = past[p]] = past
  BY DEF TablesTyped

LEMMA FlagsKeep ==
    ASSUME Inv,
           \/ \E p \in Posts : Remove(p) \/ Restore(p)
           \/ \E c \in Clients : Delete(c) \/ AnswerDiscuss(c)
    PROVE  Inv'
<1>0. TablesTyped
  BY InvTyped
<1>1. ASSUME NEW p \in Posts, NEW b \in BOOLEAN,
             Remove(p) \/ Restore(p),
             post' = [post EXCEPT ![p].deleted = b, ![p].removed = b]
      PROVE  Inv'
  <2> DEFINE row == [post[p] EXCEPT !.deleted = b, !.removed = b]
  <2>1. /\ row \in Row /\ row.there = post[p].there /\ row.agent = post[p].agent
        /\ row.held = post[p].held /\ row.count = post[p].count /\ row.text = post[p].text
        /\ row.accepted = post[p].accepted /\ row.status = post[p].status
    BY <1>0, Fields DEF Row
  <2>2. post' = [post EXCEPT ![p] = row]
    BY <1>1
  <2>3. /\ post[p].there /\ Counted
        /\ UNCHANGED <<comment, seals, revisions, gate, req, announced, past>>
    BY <1>1 DEF Remove, Restore
  <2> HIDE DEF row
  <2>4. past' = [past EXCEPT ![p] = past[p]] /\ past[p] \in Past
    BY <1>0, <2>3, PastAsItWas
  <2> QED BY <2>1, <2>2, <2>3, <2>4, NoClient, FlagStep
<1>2. ASSUME NEW c \in Clients, Delete(c) PROVE Inv'
  <2> DEFINE p == req[c].post
             row == [post[p] EXCEPT !.deleted = TRUE]
             h == [past[p] EXCEPT !.deleted = TRUE]
  <2>1. p \in Posts /\ post[p].there
    BY <1>2, Handled DEF Delete
  <2>2. /\ row \in Row /\ row.there = post[p].there /\ row.agent = post[p].agent
        /\ row.held = post[p].held /\ row.count = post[p].count /\ row.text = post[p].text
        /\ row.accepted = post[p].accepted /\ row.status = post[p].status
    BY <1>0, <2>1, Fields DEF Row
  <2>3. /\ h \in Past /\ h.late = past[p].late /\ h.reheld = past[p].reheld
        /\ h.last = past[p].last /\ h.raced = past[p].raced /\ h.decided = past[p].decided
    BY <1>0, <2>1, Fields DEF Past
  <2>4. /\ post' = [post EXCEPT ![p] = row] /\ past' = [past EXCEPT ![p] = h]
        /\ UNCHANGED <<comment, seals, revisions, gate, announced>> /\ End(c)
    BY <1>2 DEF Delete
  <2> HIDE DEF p, row, h
  <2> QED BY <2>1, <2>2, <2>3, <2>4, Over, FlagStep
<1>3. ASSUME NEW c \in Clients, AnswerDiscuss(c) PROVE Inv'
  <2> DEFINE p == req[c].post
  <2>1. p \in Posts /\ post[p].there
    BY <1>3, Handled DEF AnswerDiscuss
  <2>2. PICK status \in {"none", "open", "discussing", "answered"} :
          status = IF post[p].status = "open" THEN "discussing" ELSE post[p].status
    BY <1>0, <2>1, Fields
  <2> DEFINE row == [post[p] EXCEPT !.status = status]
  <2>3. /\ row \in Row /\ row.there = post[p].there /\ row.agent = post[p].agent
        /\ row.held = post[p].held /\ row.count = post[p].count /\ row.text = post[p].text
        /\ row.accepted = post[p].accepted /\ row.status = status
    BY <1>0, <2>1, Fields DEF Row
  <2>4. /\ post' = [post EXCEPT ![p] = row]
        /\ UNCHANGED <<comment, seals, revisions, gate, announced, past>> /\ End(c)
    BY <1>3, <2>2 DEF AnswerDiscuss
  <2> HIDE DEF p, row
  <2>5. past' = [past EXCEPT ![p] = past[p]] /\ past[p] \in Past
    BY <1>0, <2>1, <2>4, PastAsItWas
  <2> QED BY <2>1, <2>2, <2>3, <2>4, <2>5, Over, FlagStep
<1> QED
  BY <1>1, <1>2, <1>3 DEF Remove, Restore

-----------------------------------------------------------------------------
(* Creation.                                                               *)

\* Nobody else creates the post that is made.
LEMMA CreateKeeps ==
    ASSUME Inv,
           \/ \E c \in Clients : CreateInsert(c)
           \/ \E p \in Posts : Crosspost(p)
    PROVE  Inv'
<1>0. TablesTyped /\ gate.epoch \in Nat /\ gate.epoch >= 1
  BY InvTyped DEF TablesTyped
<1>t. TablesTyped' /\ req' \in [Clients -> Request] /\ requests' \in 0 .. MaxRequests => TypeOK'
  BY DEF TypeOK, TablesTyped
<1>1. ASSUME NEW c \in Clients, CreateInsert(c) PROVE Inv'
  <2>1. req[c].op = "create" /\ req[c] \in Request /\ Sound(req[c])
    BY <1>1 DEF CreateInsert, Inv, RequestsSound, TypeOK
  <2>2. /\ req[c].post \in Posts /\ req[c].agent \in BOOLEAN /\ req[c].question \in BOOLEAN
        /\ req[c].held \in BOOLEAN /\ req[c].epoch \in Nat
    BY <2>1, RequestFields
  <2>3. PICK p \in Posts, agent \in BOOLEAN, question \in BOOLEAN, held \in BOOLEAN, epoch \in Nat :
          /\ p = req[c].post /\ agent = req[c].agent /\ question = req[c].question
          /\ held = req[c].held /\ epoch = req[c].epoch
    BY <2>2
  <2>4. /\ ~post[p].there /\ epoch <= gate.epoch
        /\ agent /\ ~held /\ epoch = gate.epoch => ~gate.on
    BY <2>1, <2>3 DEF Sound
  <2>5. /\ Inserted(p, agent, question, held, epoch)
        /\ UNCHANGED <<comment, seals, revisions, gate>>
        /\ IF question THEN Become(c, [op |-> "open", post |-> p]) ELSE End(c)
    BY <1>1, <2>3 DEF CreateInsert
  <2>6. TablesTyped' /\ OnlyPost(p) /\ Whole(p)' /\ post'[p].there
    BY <2>4, <2>5, InsertedIsWhole
  <2>7. /\ req' \in [Clients -> Request] /\ requests' \in 0 .. MaxRequests
        /\ \A d \in Clients : d # c => req'[d] = req[d]
        /\ req'[c] = None \/ (req'[c].op = "open" /\ req'[c].post = p)
    <3> DEFINE r == [op |-> "open", post |-> p]
    <3>1. r \in Request /\ r.op = "open" /\ r.post = p
      BY DEF Request
    <3>2. Become(c, r) \/ End(c)
      BY <2>5
    <3> HIDE DEF r
    <3> QED BY <3>1, <3>2, Becomes, Ends DEF Inv
  <2>8. \A d \in Clients : req'[d].op = "create" => req'[d].post # p
    BY <2>1, <2>3, <2>7, Limits DEF Inv, RequestsSound, Apart
  <2>9. RequestsSound'
    BY <2>4, <2>5, <2>6, <2>7, <2>8, RequestsLast DEF Inv, OnlyPost
  <2> QED BY <1>t, <2>6, <2>7, <2>9, OnePostKept DEF Inv
<1>2. ASSUME NEW p \in Posts, Crosspost(p) PROVE Inv'
  <2>1. PICK q \in Posts, agent \in BOOLEAN :
          Live(q) /\ Inserted(p, agent, post[q].question, FALSE, 0)
    BY <1>2 DEF Crosspost
  <2>2. PICK question \in BOOLEAN : question = post[q].question
    BY <1>0, Fields
  <2>3. /\ Inserted(p, agent, question, FALSE, 0) /\ Fresh(p) /\ Counted
        /\ UNCHANGED <<comment, seals, revisions, gate, req>>
    BY <1>2, <2>1, <2>2 DEF Crosspost
  <2>4. TablesTyped' /\ OnlyPost(p) /\ Whole(p)' /\ post'[p].there
    <3>1. /\ ~post[p].there /\ FALSE \in BOOLEAN /\ 0 \in Nat /\ 0 <= gate.epoch
          /\ agent /\ ~FALSE /\ 0 = gate.epoch => ~gate.on
      BY <1>0, <2>3 DEF Fresh
    <3> QED BY <2>3, <3>1, InsertedIsWhole
  <2>5. req' \in [Clients -> Request] /\ requests' \in 0 .. MaxRequests
    BY <2>3, NoClient
  <2>6. RequestsSound'
    BY <2>3, <2>4, RequestsLast DEF Inv, OnlyPost, Fresh
  <2> QED BY <1>t, <2>4, <2>5, <2>6, OnePostKept DEF Inv
<1> QED
  BY <1>1, <1>2

-----------------------------------------------------------------------------
(* Seals and approval.                                                     *)

LEMMA VerifySealKeeps ==
    ASSUME Inv, NEW c \in Clients, VerifySeal(c)
    PROVE  Inv'
<1>1. PICK p \in Posts : p = req[c].post /\ post[p].there /\ TablesTyped /\ Whole(p)
  BY Handled, InvTyped DEF VerifySeal, Inv
<1>2. PICK v \in Verifiers : v = req[c].verifier
  BY Handled, RequestFields DEF VerifySeal
<1>3. PICK given \in SUBSET Verifiers : given = seals[p] \cup {v}
  BY <1>1, Fields
<1>4. PICK publishes \in BOOLEAN : publishes = (NeedsSeal(post[p].agent) /\ post[p].held)
  OBVIOUS
<1>5. PICK n \in Nat : n = Cardinality(given)
  BY SealsAreCounted
<1>6. PICK held \in BOOLEAN : held = IF publishes THEN FALSE ELSE post[p].held
  BY <1>1, Fields
<1>7. PICK decided \in Nat : decided = IF publishes THEN gate.epoch ELSE past[p].decided
  BY <1>1, Fields
<1>8. /\ End(c) /\ UNCHANGED <<comment, revisions, gate>>
      /\ IF publishes /\ post[p].deleted
           THEN UNCHANGED <<post, seals, announced, past>>
           ELSE /\ seals' = [seals EXCEPT ![p] = given]
                /\ post' = [post EXCEPT ![p].count = n, ![p].held = held]
                /\ past' = [past EXCEPT ![p].decided = decided]
                /\ IF publishes THEN Enqueued(p) ELSE UNCHANGED announced
  BY <1>1, <1>2, <1>3, <1>4, <1>5, <1>6, <1>7 DEF VerifySeal
<1>9. CASE publishes /\ post[p].deleted
  <2>1. UNCHANGED <<post, seals, announced, past, comment, revisions, gate>>
    BY <1>8, <1>9
  <2>2. TablesTyped' /\ OnlyPost(p)
    BY <1>1, <2>1 DEF TablesTyped, OnlyPost, CommentsStay
  <2>3. Whole(p)'
    BY <1>1, <2>1, Untouched DEF CommentsStay
  <2> QED BY <1>1, <1>8, <2>1, <2>2, <2>3, Over, PostStep
<1>10. CASE ~(publishes /\ post[p].deleted)
  <2> DEFINE row == [post[p] EXCEPT !.count = n, !.held = held]
             h == [past[p] EXCEPT !.decided = decided]
  <2>1. /\ row \in Row /\ row.there /\ row.count = n /\ row.held = held
        /\ row.agent = post[p].agent /\ row.text = post[p].text
        /\ row.status = post[p].status /\ row.accepted = post[p].accepted
    BY <1>1, Fields DEF Row
  <2>2. /\ h \in Past /\ h.decided = decided /\ h.reheld = past[p].reheld
        /\ h.last = past[p].last /\ h.raced = past[p].raced /\ h.late = past[p].late
    BY <1>1, Fields DEF Past
  <2>3. /\ seals' = [seals EXCEPT ![p] = given]
        /\ post' = [post EXCEPT ![p] = row] /\ past' = [past EXCEPT ![p] = h]
        /\ announced' = IF publishes THEN [announced EXCEPT ![p] = announced[p] + 1] ELSE announced
        /\ UNCHANGED <<comment, revisions, gate>>
    BY <1>8, <1>10 DEF Enqueued
  <2> HIDE DEF row, h
  <2>4. /\ post' \in [Posts -> Row] /\ post'[p] = row
        /\ past' \in [Posts -> Past] /\ past'[p] = h
        /\ \A q \in Posts : q # p => post'[q] = post[q] /\ past'[q] = past[q]
    BY <1>1, <2>1, <2>2, <2>3, RowWritten, PastWritten
  <2>5. /\ seals' \in [Posts -> SUBSET Verifiers] /\ seals'[p] = given
        /\ announced' \in [Posts -> Nat]
        /\ announced'[p] = IF publishes THEN announced[p] + 1 ELSE announced[p]
        /\ \A q \in Posts : q # p => seals'[q] = seals[q] /\ announced'[q] = announced[q]
    BY <1>1, <2>3 DEF TablesTyped
  <2>6. TablesTyped' /\ OnlyPost(p)
    BY <1>1, <2>3, <2>4, <2>5 DEF TablesTyped, OnlyPost, CommentsStay
  <2>7. Whole(p)'
    <3>1. /\ announced[p] = past[p].reheld + (IF post[p].held THEN 0 ELSE 1)
          /\ announced[p] \in Nat /\ past[p].reheld \in Nat
          /\ past[p].decided <= gate.epoch /\ gate.epoch \in Nat /\ past[p].decided \in Nat
          /\ post[p].held \in BOOLEAN
      BY <1>1, Fields DEF Whole
    <3>2. publishes => post[p].held
      BY <1>4
    <3>3. announced'[p] = past'[p].reheld + (IF post'[p].held THEN 0 ELSE 1)
      <4>1. CASE publishes
        <5>1. ~post'[p].held /\ post[p].held
          BY <1>6, <2>1, <2>4, <3>2, <4>1
        <5>2. announced'[p] = announced[p] + 1 /\ past'[p].reheld = past[p].reheld
          BY <2>2, <2>4, <2>5, <4>1
        <5> QED BY <3>1, <5>1, <5>2
      <4>2. CASE ~publishes
        <5>1. post'[p].held = post[p].held
          BY <1>6, <2>1, <2>4, <4>2
        <5>2. announced'[p] = announced[p] /\ past'[p].reheld = past[p].reheld
          BY <2>2, <2>4, <2>5, <4>2
        <5> QED BY <3>1, <5>1, <5>2
      <4> QED BY <4>1, <4>2
    <3>4. past'[p].decided <= gate.epoch
      BY <1>7, <2>2, <2>4, <3>1
    <3>5. /\ post'[p].count = Cardinality(seals'[p]) /\ seals'[p] # {}
          /\ gate' = gate /\ post'[p].there
      BY <1>3, <1>5, <2>1, <2>3, <2>4, <2>5
    <3>6. post'[p].there =>
            0 .. past'[p].last \subseteq revisions'[p] \cup {post'[p].text} \cup past'[p].raced
      BY <1>1, <2>1, <2>2, <2>3, <2>4 DEF Whole
    <3>7. /\ post'[p].accepted # NoComment => comment'[post'[p].accepted].on = p
          /\ post'[p].status = "answered" => post'[p].accepted # NoComment
          /\ post'[p].accepted # NoComment => post'[p].status = "answered" \/ past'[p].late
      BY <1>1, <2>1, <2>2, <2>3, <2>4 DEF Whole
    <3> QED BY <3>3, <3>4, <3>5, <3>6, <3>7 DEF Whole
  <2> QED BY <1>1, <1>8, <2>1, <2>3, <2>4, <2>6, <2>7, Over, PostStep
<1> QED
  BY <1>9, <1>10

LEMMA UnverifyKeeps ==
    ASSUME Inv, NEW p \in Posts, NEW v \in Verifiers, Unverify(p, v)
    PROVE  Inv'
<1>1. post[p].there /\ TablesTyped /\ Whole(p)
  BY InvTyped DEF Unverify, Inv
<1>2. PICK left \in SUBSET Verifiers : left = seals[p] \ {v}
  BY <1>1, Fields
<1>3. PICK holds \in BOOLEAN : holds = (NeedsSeal(post[p].agent) /\ left = {})
  OBVIOUS
<1>4. PICK n \in Nat : n = Cardinality(left)
  BY SealsAreCounted
<1>5. PICK held \in BOOLEAN : held = (post[p].held \/ holds)
  OBVIOUS
<1>6. PICK reheld \in Nat : reheld = past[p].reheld + (IF holds /\ ~post[p].held THEN 1 ELSE 0)
  <2>1. past[p].reheld \in Nat
    BY <1>1, Fields
  <2> QED BY <2>1
<1> DEFINE row == [post[p] EXCEPT !.count = n, !.held = held]
           h == [past[p] EXCEPT !.reheld = reheld]
<1>7. /\ seals' = [seals EXCEPT ![p] = left] /\ Counted
      /\ post' = [post EXCEPT ![p] = row] /\ past' = [past EXCEPT ![p] = h]
      /\ UNCHANGED <<comment, revisions, gate, req, announced>>
  BY <1>2, <1>3, <1>4, <1>5, <1>6 DEF Unverify
<1>8. /\ row \in Row /\ row.there /\ row.count = n /\ row.held = held
      /\ row.agent = post[p].agent /\ row.text = post[p].text
      /\ row.status = post[p].status /\ row.accepted = post[p].accepted
  BY <1>1, Fields DEF Row
<1>9. /\ h \in Past /\ h.decided = past[p].decided /\ h.reheld = reheld
      /\ h.last = past[p].last /\ h.raced = past[p].raced /\ h.late = past[p].late
  BY <1>1, Fields DEF Past
<1> HIDE DEF row, h
<1>10. /\ post' \in [Posts -> Row] /\ post'[p] = row
       /\ past' \in [Posts -> Past] /\ past'[p] = h
       /\ \A q \in Posts : q # p => post'[q] = post[q] /\ past'[q] = past[q]
  BY <1>1, <1>7, <1>8, <1>9, RowWritten, PastWritten
<1>11. /\ seals' \in [Posts -> SUBSET Verifiers] /\ seals'[p] = left
       /\ \A q \in Posts : q # p => seals'[q] = seals[q]
  BY <1>1, <1>7 DEF TablesTyped
<1>12. TablesTyped' /\ OnlyPost(p)
  BY <1>1, <1>7, <1>10, <1>11 DEF TablesTyped, OnlyPost, CommentsStay
<1>13. announced'[p] = past'[p].reheld + (IF post'[p].held THEN 0 ELSE 1)
  <2>1. /\ announced[p] = past[p].reheld + (IF post[p].held THEN 0 ELSE 1)
        /\ announced[p] \in Nat /\ past[p].reheld \in Nat /\ announced' = announced
    BY <1>1, <1>7, Fields DEF Whole
  <2>2. post'[p].held = (post[p].held \/ holds) /\ past'[p].reheld = reheld
    BY <1>5, <1>8, <1>9, <1>10
  <2>3. CASE post[p].held
    <3>1. post'[p].held /\ past'[p].reheld = past[p].reheld
      <4>1. reheld = past[p].reheld
        BY <1>6, <2>1, <2>3
      <4> QED BY <2>2, <2>3, <4>1
    <3> QED BY <2>1, <2>3, <3>1
  <2>4. CASE ~post[p].held /\ holds
    <3>1. post'[p].held /\ past'[p].reheld = past[p].reheld + 1
      <4>1. reheld = past[p].reheld + 1
        BY <1>6, <2>1, <2>4
      <4> QED BY <2>2, <2>4, <4>1
    <3> QED BY <2>1, <2>4, <3>1
  <2>5. CASE ~post[p].held /\ ~holds
    <3>1. ~post'[p].held /\ past'[p].reheld = past[p].reheld
      <4>1. reheld = past[p].reheld
        BY <1>6, <2>1, <2>5
      <4> QED BY <2>2, <2>5, <4>1
    <3> QED BY <2>1, <2>5, <3>1
  <2> QED BY <2>3, <2>4, <2>5
<1>14. NeedsSeal(post[p].agent) /\ ~post'[p].held => seals'[p] # {}
  BY <1>3, <1>5, <1>8, <1>10, <1>11
<1>15. Whole(p)'
  <2>1. /\ post'[p].there /\ post'[p].agent = post[p].agent /\ gate' = gate
        /\ post'[p].count = Cardinality(seals'[p]) /\ past'[p].decided <= gate'.epoch
    BY <1>1, <1>4, <1>7, <1>8, <1>9, <1>10, <1>11 DEF Whole
  <2>2. post'[p].there =>
          0 .. past'[p].last \subseteq revisions'[p] \cup {post'[p].text} \cup past'[p].raced
    BY <1>1, <1>7, <1>8, <1>9, <1>10 DEF Whole
  <2>3. /\ post'[p].accepted # NoComment => comment'[post'[p].accepted].on = p
        /\ post'[p].status = "answered" => post'[p].accepted # NoComment
        /\ post'[p].accepted # NoComment => post'[p].status = "answered" \/ past'[p].late
    BY <1>1, <1>7, <1>8, <1>9, <1>10 DEF Whole
  <2> QED BY <1>13, <1>14, <2>1, <2>2, <2>3 DEF Whole, NeedsSeal
<1> QED
  BY <1>1, <1>7, <1>8, <1>10, <1>12, <1>15, NoClient, PostStep

\* The gate may have changed since the approval read it, the row may not have.
LEMMA ApproveKeeps ==
    ASSUME Inv, NEW c \in Clients, ApprovePublish(c)
    PROVE  Inv'
<1>1. PICK p \in Posts : p = req[c].post /\ post[p].there /\ TablesTyped /\ Whole(p)
  BY Handled, InvTyped DEF ApprovePublish, Inv
<1>2. /\ req[c].op = "approve" /\ req[c] \in Request /\ Sound(req[c])
  BY Handled DEF ApprovePublish, Inv, RequestsSound
<1>3. PICK required \in BOOLEAN, epoch \in Nat :
        /\ required = req[c].required /\ epoch = req[c].epoch
        /\ epoch <= gate.epoch /\ (epoch = gate.epoch => required = gate.on)
  BY <1>2, RequestFields DEF Sound
<1>4. /\ End(c) /\ UNCHANGED <<comment, seals, revisions, gate>>
  BY DEF ApprovePublish
<1>5. CASE UNCHANGED <<post, past, announced>>
  <2>1. TablesTyped' /\ OnlyPost(p)
    BY <1>1, <1>4, <1>5 DEF TablesTyped, OnlyPost, CommentsStay
  <2>2. Whole(p)'
    BY <1>1, <1>4, <1>5, Untouched DEF CommentsStay
  <2> QED BY <1>1, <1>4, <1>5, <2>1, <2>2, Over, PostStep
<1>6. CASE /\ Publishable(p, required)
           /\ post' = [post EXCEPT ![p].held = FALSE]
           /\ past' = [past EXCEPT ![p].decided = epoch]
           /\ Enqueued(p)
  <2> DEFINE row == [post[p] EXCEPT !.held = FALSE]
             h == [past[p] EXCEPT !.decided = epoch]
  <2>1. /\ row \in Row /\ row.there /\ row.count = post[p].count /\ row.held = FALSE
        /\ row.agent = post[p].agent /\ row.text = post[p].text
        /\ row.status = post[p].status /\ row.accepted = post[p].accepted
    BY <1>1, Fields DEF Row
  <2>2. /\ h \in Past /\ h.decided = epoch /\ h.reheld = past[p].reheld
        /\ h.last = past[p].last /\ h.raced = past[p].raced /\ h.late = past[p].late
    BY <1>1, Fields DEF Past
  <2>3. /\ post' = [post EXCEPT ![p] = row] /\ past' = [past EXCEPT ![p] = h]
        /\ announced' = [announced EXCEPT ![p] = announced[p] + 1]
    BY <1>6 DEF Enqueued
  <2> HIDE DEF row, h
  <2>4. /\ post' \in [Posts -> Row] /\ post'[p] = row
        /\ past' \in [Posts -> Past] /\ past'[p] = h
        /\ \A q \in Posts : q # p => post'[q] = post[q] /\ past'[q] = past[q]
    BY <1>1, <2>1, <2>2, <2>3, RowWritten, PastWritten
  <2>5. announced' \in [Posts -> Nat] /\ announced'[p] = announced[p] + 1
    BY <1>1, <2>3 DEF TablesTyped
  <2>6. TablesTyped' /\ OnlyPost(p)
    BY <1>1, <1>4, <2>3, <2>4, <2>5 DEF TablesTyped, OnlyPost, CommentsStay
  <2>7. /\ post[p].held
        /\ NeedsSeal(post[p].agent) /\ epoch = gate.epoch => seals[p] # {}
    <3>1. post[p].held /\ (~post[p].agent \/ post[p].count > 0 \/ ~required)
      BY <1>6 DEF Publishable
    <3>2. seals[p] \subseteq Verifiers /\ post[p].count = Cardinality(seals[p])
      BY <1>1, Fields DEF Whole
    <3>3. post[p].count > 0 => seals[p] # {}
      BY <3>2, SealsAreCounted
    <3> QED BY <1>3, <3>1, <3>3 DEF NeedsSeal
  <2>8. announced'[p] = past'[p].reheld + (IF post'[p].held THEN 0 ELSE 1)
    <3>1. announced[p] = past[p].reheld /\ announced[p] \in Nat
      BY <1>1, <2>7, Fields DEF Whole
    <3> QED BY <2>1, <2>2, <2>4, <2>5, <3>1
  <2>9. Whole(p)'
    <3>1. /\ post'[p].there /\ post'[p].agent = post[p].agent /\ gate' = gate /\ seals' = seals
          /\ post'[p].count = Cardinality(seals'[p]) /\ past'[p].decided = epoch
          /\ past'[p].decided <= gate'.epoch
      BY <1>1, <1>3, <1>4, <2>1, <2>2, <2>4 DEF Whole
    <3>2. post'[p].there =>
            0 .. past'[p].last \subseteq revisions'[p] \cup {post'[p].text} \cup past'[p].raced
      BY <1>1, <1>4, <2>1, <2>2, <2>4 DEF Whole
    <3>3. /\ post'[p].accepted # NoComment => comment'[post'[p].accepted].on = p
          /\ post'[p].status = "answered" => post'[p].accepted # NoComment
          /\ post'[p].accepted # NoComment => post'[p].status = "answered" \/ past'[p].late
      BY <1>1, <1>4, <2>1, <2>2, <2>4 DEF Whole
    <3> QED BY <2>7, <2>8, <3>1, <3>2, <3>3 DEF Whole, NeedsSeal
  <2> QED BY <1>1, <1>4, <2>1, <2>4, <2>6, <2>9, Over, PostStep
<1> QED
  BY <1>1, <1>3, <1>5, <1>6 DEF ApprovePublish

-----------------------------------------------------------------------------
(* Edits.                                                                  *)

\* The text an edit replaces is the one it saved, or is known to be lost.
LEMMA EditKeeps ==
    ASSUME Inv, NEW c \in Clients, EditRecord(c) \/ EditWrite(c)
    PROVE  Inv'
<1>1. PICK p \in Posts : p = req[c].post /\ post[p].there /\ TablesTyped /\ Whole(p)
  BY Handled, InvTyped DEF EditRecord, EditWrite, Inv
<1>2. PICK seen \in Nat, question \in BOOLEAN :
        seen = req[c].seen /\ question = req[c].question
  BY Handled, RequestFields DEF EditRecord, EditWrite
<1>3. CASE EditRecord(c)
  <2>1. req[c].op = "edit" /\ req[c] \in Request
    BY <1>3, Handled DEF EditRecord
  <2> DEFINE r == [req[c] EXCEPT !.op = "write"]
  <2>2. r \in Request /\ r.op = "write" /\ r.post = p /\ r.seen = seen
    BY <1>1, <1>2, <2>1 DEF Request
  <2>3. /\ revisions' = [revisions EXCEPT ![p] = revisions[p] \cup {seen}]
        /\ Become(c, r) /\ UNCHANGED <<post, comment, seals, gate, announced, past>>
    BY <1>1, <1>2, <1>3 DEF EditRecord
  <2> HIDE DEF r
  <2>4. /\ revisions' \in [Posts -> SUBSET Nat] /\ revisions'[p] = revisions[p] \cup {seen}
        /\ \A q \in Posts : q # p => revisions'[q] = revisions[q]
    BY <1>1, <2>3 DEF TablesTyped
  <2>5. TablesTyped' /\ OnlyPost(p)
    BY <1>1, <2>3, <2>4 DEF TablesTyped, OnlyPost, CommentsStay
  <2>6. Whole(p)'
    BY <1>1, <2>3, <2>4, Untouched DEF CommentsStay
  <2>7. /\ req' \in [Clients -> Request] /\ requests' \in 0 .. MaxRequests
        /\ \A d \in Clients : req'[d] = IF d = c THEN r ELSE req[d]
    BY <2>2, <2>3, Becomes DEF Inv
  <2> QED BY <1>1, <2>2, <2>3, <2>4, <2>5, <2>6, <2>7, PostStep
<1>4. CASE EditWrite(c)
  <2>1. /\ req[c].op = "write" /\ seen \in revisions[p]
        /\ End(c) /\ UNCHANGED <<comment, seals, revisions, gate, announced>>
    BY <1>1, <1>2, <1>4 DEF EditWrite, Inv, RequestsSound, Sound
  <2>2. CASE UNCHANGED <<post, past>>
    <3>1. TablesTyped' /\ OnlyPost(p)
      BY <1>1, <2>1, <2>2 DEF TablesTyped, OnlyPost, CommentsStay
    <3>2. Whole(p)'
      BY <1>1, <2>1, <2>2, Untouched DEF CommentsStay
    <3> QED BY <1>1, <2>1, <2>2, <3>1, <3>2, Over, PostStep
  <2>3. CASE ~UNCHANGED <<post, past>>
    <3>1. PICK next \in Nat, raced \in SUBSET Nat :
            /\ next = past[p].last + 1
            /\ raced = past[p].raced \cup ({post[p].text} \ {seen})
      <4>1. /\ past[p].last \in Nat /\ past[p].raced \subseteq Nat /\ post[p].text \in Nat
        BY <1>1, Fields
      <4>2. past[p].last + 1 \in Nat /\ past[p].raced \cup ({post[p].text} \ {seen}) \in SUBSET Nat
        BY <4>1
      <4> QED BY <4>2
    <3> DEFINE row == [post[p] EXCEPT !.text = next, !.question = question]
               h == [past[p] EXCEPT !.last = next, !.raced = raced]
    <3>2. /\ row \in Row /\ row.there /\ row.count = post[p].count /\ row.held = post[p].held
          /\ row.agent = post[p].agent /\ row.text = next
          /\ row.status = post[p].status /\ row.accepted = post[p].accepted
      BY <1>1, Fields DEF Row
    <3>3. /\ h \in Past /\ h.decided = past[p].decided /\ h.reheld = past[p].reheld
          /\ h.last = next /\ h.raced = raced /\ h.late = past[p].late
      BY <1>1, Fields DEF Past
    <3>4. post' = [post EXCEPT ![p] = row] /\ past' = [past EXCEPT ![p] = h]
      BY <1>1, <1>2, <1>4, <2>3, <3>1 DEF EditWrite
    <3> HIDE DEF row, h
    <3>5. /\ post' \in [Posts -> Row] /\ post'[p] = row
          /\ past' \in [Posts -> Past] /\ past'[p] = h
          /\ \A q \in Posts : q # p => post'[q] = post[q] /\ past'[q] = past[q]
      BY <1>1, <3>2, <3>3, <3>4, RowWritten, PastWritten
    <3>6. TablesTyped' /\ OnlyPost(p)
      BY <1>1, <2>1, <3>5 DEF TablesTyped, OnlyPost, CommentsStay
    <3>7. 0 .. next \subseteq revisions[p] \cup {next} \cup raced
      <4>1. /\ 0 .. past[p].last \subseteq revisions[p] \cup {post[p].text} \cup past[p].raced
            /\ past[p].last \in Nat
        BY <1>1, Fields DEF Whole
      <4>2. ASSUME NEW n \in 0 .. next, n # next PROVE n \in 0 .. past[p].last
        BY <3>1, <4>1, <4>2
      <4>3. post[p].text \in revisions[p] \cup raced
        BY <2>1, <3>1
      <4> QED BY <3>1, <4>1, <4>2, <4>3
    <3>8. Whole(p)'
      <4>1. 0 .. past'[p].last \subseteq revisions'[p] \cup {post'[p].text} \cup past'[p].raced
        BY <2>1, <3>2, <3>3, <3>5, <3>7
      <4>2. /\ gate' = gate /\ seals' = seals /\ announced' = announced /\ comment' = comment
            /\ post'[p].there
        BY <2>1, <3>2, <3>5
      <4> QED BY <1>1, <3>2, <3>3, <3>5, <4>1, <4>2 DEF Whole, NeedsSeal
    <3> QED BY <1>1, <2>1, <3>2, <3>5, <3>6, <3>8, Over, PostStep
  <2> QED BY <2>2, <2>3
<1> QED
  BY <1>3, <1>4

-----------------------------------------------------------------------------
(* Comments and answers.                                                   *)

LEMMA AcceptKeeps ==
    ASSUME Inv, NEW c \in Clients, Accept(c)
    PROVE  Inv'
<1>1. PICK p \in Posts : p = req[c].post /\ post[p].there /\ TablesTyped /\ Whole(p)
  BY Handled, InvTyped DEF Accept, Inv
<1>2. PICK k \in Comments : k = req[c].comment
  BY Handled, RequestFields DEF Accept
<1>3. End(c) /\ UNCHANGED <<comment, seals, revisions, gate, announced, past>>
  BY DEF Accept
<1>4. CASE UNCHANGED post
  <2>1. TablesTyped' /\ OnlyPost(p)
    BY <1>1, <1>3, <1>4 DEF TablesTyped, OnlyPost, CommentsStay
  <2>2. Whole(p)'
    BY <1>1, <1>3, <1>4, Untouched DEF CommentsStay
  <2> QED BY <1>1, <1>3, <1>4, <2>1, <2>2, Over, PostStep
<1>5. CASE /\ Acceptable(p, k)
           /\ post' = [post EXCEPT ![p].accepted = k, ![p].status = "answered"]
  <2> DEFINE row == [post[p] EXCEPT !.accepted = k, !.status = "answered"]
  <2>1. /\ row \in Row /\ row.there /\ row.count = post[p].count /\ row.held = post[p].held
        /\ row.agent = post[p].agent /\ row.text = post[p].text
        /\ row.status = "answered" /\ row.accepted = k
    BY <1>1, Fields DEF Row
  <2>2. post' = [post EXCEPT ![p] = row]
    BY <1>5
  <2> HIDE DEF row
  <2>3. /\ post' \in [Posts -> Row] /\ post'[p] = row
        /\ \A q \in Posts : q # p => post'[q] = post[q]
    BY <1>1, <2>1, <2>2, RowWritten
  <2>4. TablesTyped' /\ OnlyPost(p)
    BY <1>1, <1>3, <2>3 DEF TablesTyped, OnlyPost, CommentsStay
  <2>5. comment[k].on = p /\ k # NoComment
    BY <1>5, Limits DEF Acceptable
  <2>6. Whole(p)'
    BY <1>1, <1>3, <2>1, <2>3, <2>5 DEF Whole, NeedsSeal
  <2> QED BY <1>1, <1>3, <2>1, <2>3, <2>4, <2>6, Over, PostStep
<1> QED
  BY <1>1, <1>2, <1>4, <1>5 DEF Accept

\* Steps that write comments only.
LEMMA CommentStepKeeps ==
    ASSUME Inv, UNCHANGED <<post, seals, revisions, gate, announced, past>>,
           comment' \in [Comments -> Reply], CommentsStay,
           req' \in [Clients -> Request], requests' \in 0 .. MaxRequests,
           RequestsSound'
    PROVE  Inv'
<1>1. TablesTyped
  BY InvTyped
<1>2. \A q \in Posts : Whole(q)'
  BY <1>1, Untouched DEF Inv
<1>3. TypeOK'
  BY <1>1 DEF TypeOK, TablesTyped
<1> QED
  BY <1>2, <1>3 DEF Inv

\* Nobody else stores the comment of an answer, so each is stored once.
LEMMA SaidKeeps ==
    ASSUME Inv, NEW k \in Comments, NEW p \in Posts,
           comment[k].on = NoPost, comment' = [comment EXCEPT ![k].on = p],
           UNCHANGED <<post, seals, revisions, gate, announced, past>>,
           req' \in [Clients -> Request], requests' \in 0 .. MaxRequests,
           \A d \in Clients : req'[d].op = "answer" => req'[d].comment # k,
           \A d \in Clients :
             \/ req'[d] = req[d]
             \/ req'[d].op = "discuss" /\ req'[d].post = p /\ post[p].there
    PROVE  Inv'
<1>1. TablesTyped
  BY InvTyped
<1> DEFINE reply == [comment[k] EXCEPT !.on = p]
<1>2. reply \in Reply /\ comment' = [comment EXCEPT ![k] = reply]
  BY <1>1 DEF TablesTyped, Reply
<1> HIDE DEF reply
<1>3. /\ comment' \in [Comments -> Reply]
      /\ \A j \in Comments : j # k => comment'[j] = comment[j]
  BY <1>1, <1>2 DEF TablesTyped
<1>4. CommentsStay
  BY <1>3 DEF CommentsStay
<1>5. RequestsSound'
  BY <1>3, RequestsLast DEF Inv
<1> QED
  BY <1>3, <1>4, <1>5, CommentStepKeeps

LEMMA CommentsKeep ==
    ASSUME Inv,
           \/ \E c \in Clients : Answer(c)
           \/ \E k \in Comments : CommentStep(k) \/ \E p \in Posts : Say(k, p)
    PROVE  Inv'
<1>0. TablesTyped
  BY InvTyped
<1>1. ASSUME NEW c \in Clients, Answer(c) PROVE Inv'
  <2>1. PICK p \in Posts : p = req[c].post /\ post[p].there
    BY <1>1, Handled DEF Answer
  <2>2. PICK k \in Comments : k = req[c].comment
    BY <1>1, Handled, RequestFields DEF Answer
  <2>3. /\ req[c].op = "answer" /\ comment[k].on = NoPost
        /\ \A d \in Clients : d # c /\ req[d].op = "answer" => req[d].comment # k
    BY <1>1, <2>2 DEF Answer, Inv, RequestsSound, Sound, Apart
  <2> DEFINE r == [op |-> "discuss", post |-> p]
  <2>4. r \in Request /\ r.op = "discuss" /\ r.post = p
    BY DEF Request
  <2>5. /\ comment' = [comment EXCEPT ![k].on = p] /\ Become(c, r)
        /\ UNCHANGED <<post, seals, revisions, gate, announced, past>>
    BY <1>1, <2>1, <2>2 DEF Answer
  <2> HIDE DEF r
  <2>6. /\ req' \in [Clients -> Request] /\ requests' \in 0 .. MaxRequests
        /\ \A d \in Clients : req'[d] = IF d = c THEN r ELSE req[d]
    BY <2>4, <2>5, Becomes DEF Inv
  <2>7. \A d \in Clients : req'[d].op = "answer" => req'[d].comment # k
    BY <2>3, <2>4, <2>6
  <2>8. \A d \in Clients :
          \/ req'[d] = req[d]
          \/ req'[d].op = "discuss" /\ req'[d].post = p /\ post[p].there
    BY <2>1, <2>4, <2>6
  <2> QED BY <2>3, <2>5, <2>6, <2>7, <2>8, SaidKeeps
<1>2. ASSUME NEW k \in Comments, NEW p \in Posts, Say(k, p) PROVE Inv'
  <2>1. /\ comment[k].on = NoPost /\ Counted
        /\ \A d \in Clients : req[d].op = "answer" => req[d].comment # k
        /\ comment' = [comment EXCEPT ![k].on = p]
        /\ UNCHANGED <<post, seals, revisions, gate, req, announced, past>>
    BY <1>2 DEF Say
  <2> QED BY <2>1, NoClient, SaidKeeps
<1>3. ASSUME NEW k \in Comments, CommentStep(k) PROVE Inv'
  <2>1. /\ Counted /\ UNCHANGED <<post, seals, revisions, gate, req, announced, past>>
    BY <1>3 DEF CommentStep, RemoveComment, RestoreComment, DeleteComment
  <2>2. PICK deleted \in BOOLEAN, removed \in BOOLEAN :
          comment' = [comment EXCEPT ![k].deleted = deleted, ![k].removed = removed]
    <3>1. CASE RemoveComment(k) \/ RestoreComment(k)
      BY <3>1 DEF RemoveComment, RestoreComment
    <3>2. CASE DeleteComment(k)
      <4>1. PICK removed \in BOOLEAN : removed = comment[k].removed
        BY <1>0 DEF TablesTyped, Reply
      <4>2. [comment[k] EXCEPT !.deleted = TRUE]
              = [comment[k] EXCEPT !.deleted = TRUE, !.removed = removed]
        BY <1>0, <4>1 DEF TablesTyped, Reply
      <4> QED BY <3>2, <4>2 DEF DeleteComment
    <3> QED BY <1>3, <3>1, <3>2 DEF CommentStep
  <2> DEFINE reply == [comment[k] EXCEPT !.deleted = deleted, !.removed = removed]
  <2>3. /\ reply \in Reply /\ reply.on = comment[k].on
        /\ comment' = [comment EXCEPT ![k] = reply]
    BY <1>0, <2>2 DEF TablesTyped, Reply
  <2> HIDE DEF reply
  <2>4. /\ comment' \in [Comments -> Reply]
        /\ \A j \in Comments : comment'[j].on = comment[j].on
    BY <1>0, <2>3 DEF TablesTyped
  <2>5. RequestsSound'
    BY <2>1, <2>4, NoClient, RequestsLast DEF Inv
  <2> QED BY <2>1, <2>4, <2>5, NoClient, CommentStepKeeps DEF CommentsStay
<1> QED
  BY <1>1, <1>2, <1>3

-----------------------------------------------------------------------------
(* The gate, arrivals and cancellations.                                   *)

\* A new setting is of a later epoch than every decision so far.
LEMMA SetGateKeeps ==
    ASSUME Inv, SetGate
    PROVE  Inv'
<1>1. TablesTyped /\ TablesTyped'
  <2>1. TablesTyped /\ gate \in [on : BOOLEAN, epoch : 1 .. MaxGates]
    BY InvTyped DEF TablesTyped
  <2>2. gate' \in [on : BOOLEAN, epoch : 1 .. MaxGates]
    BY <2>1, Limits DEF SetGate
  <2> QED BY <2>1, <2>2 DEF SetGate, TablesTyped
<1>2. gate'.epoch = gate.epoch + 1 /\ gate.epoch \in Nat
  BY <1>1, Limits DEF SetGate, TablesTyped
<1>3. ASSUME NEW p \in Posts PROVE Whole(p)'
  <2>1. past[p].decided <= gate.epoch /\ past[p].decided \in Nat
    BY <1>1, Fields DEF Inv, Whole
  <2>2. past'[p].decided <= gate'.epoch /\ past'[p].decided # gate'.epoch
    BY <1>2, <2>1 DEF SetGate
  <2> QED BY <2>2 DEF Inv, Whole, SetGate
<1>4. ASSUME NEW c \in Clients PROVE Sound(req[c])'
  <2>1. Sound(req[c]) /\ req[c] \in Request
    BY DEF Inv, RequestsSound, TypeOK
  <2>2. req[c].op \in {"create", "approve"} =>
          req[c].epoch <= gate'.epoch /\ req[c].epoch # gate'.epoch
    BY <1>2, <2>1, RequestFields DEF Sound
  <2> QED BY <2>1, <2>2 DEF Sound, SetGate
<1>5. \A c, d \in Clients : c # d => Apart(req[c], req[d])'
  BY DEF Inv, RequestsSound, Apart, SetGate
<1>6. RequestsSound'
  BY <1>4, <1>5 DEF RequestsSound
<1>7. TypeOK'
  BY <1>1 DEF Inv, TypeOK, TablesTyped, SetGate
<1> QED
  BY <1>3, <1>6, <1>7 DEF Inv

LEMMA ClientsKeep ==
    ASSUME Inv,
           \/ \E c \in Clients, p \in Posts : Arrival(c, p)
           \/ \E c \in Clients : Abandon(c)
           \/ UNCHANGED vars
    PROVE  Inv'
<1>0. TablesTyped
  BY InvTyped
<1>1. ASSUME NEW c \in Clients, NEW p \in Posts, Arrival(c, p) PROVE Inv'
  <2>1. UNCHANGED tables
    BY <1>1, Arrives DEF Inv
  <2>2. PICK r \in Request : Begin(c, r) /\ Fit(r)
    BY <1>1, Arrives DEF Inv
  <2>3. /\ req' \in [Clients -> Request] /\ requests' \in 0 .. MaxRequests
        /\ \A d \in Clients : req'[d] = IF d = c THEN r ELSE req[d]
    BY <2>2, Begins DEF Inv
  <2>4. \A d \in Clients : Sound(req[d])'
    <3> SUFFICES ASSUME NEW d \in Clients PROVE Sound(req[d])'
      OBVIOUS
    <3>1. CASE d = c
      BY <2>1, <2>2, <2>3, <3>1 DEF Fit, Sound, tables
    <3>2. CASE d # c
      BY <2>1, <2>3, <3>2 DEF Inv, RequestsSound, Sound, tables
    <3> QED BY <3>1, <3>2
  <2>5. \A d, e \in Clients : d # e => Apart(req[d], req[e])'
    BY <2>2, <2>3 DEF Fit, Apart, Inv, RequestsSound
  <2>6. RequestsSound'
    BY <2>4, <2>5 DEF RequestsSound
  <2>7. CommentsStay /\ comment' \in [Comments -> Reply]
    BY <1>0, <2>1 DEF CommentsStay, tables, TablesTyped
  <2> QED BY <2>1, <2>3, <2>6, <2>7, CommentStepKeeps DEF tables
<1>2. ASSUME NEW c \in Clients, Abandon(c) PROVE Inv'
  <2>1. End(c) /\ UNCHANGED <<post, comment, seals, revisions, gate, announced, past>>
    BY <1>2 DEF Abandon
  <2>2. CommentsStay /\ comment' \in [Comments -> Reply]
    BY <1>0, <2>1 DEF CommentsStay, TablesTyped
  <2>3. RequestsSound'
    BY <2>1, Over, RequestsLast DEF Inv
  <2> QED BY <2>1, <2>2, <2>3, Over, CommentStepKeeps
<1>3. CASE UNCHANGED vars
  BY <1>3 DEF vars, Inv, TypeOK, RequestsSound, Sound, Apart, Whole, NeedsSeal
<1> QED
  BY <1>1, <1>2, <1>3

-----------------------------------------------------------------------------
(* The theorems.                                                           *)

LEMMA PostInvInitially == Init => PostInv
<1> SUFFICES ASSUME Init PROVE PostInv
  OBVIOUS
<1>1. TypeOK
  <2>1. NoRow \in Row
    BY DEF NoRow, Row
  <2>2. [reheld |-> 0, last |-> 0, raced |-> {}, decided |-> 0,
         late |-> FALSE, deleted |-> FALSE] \in Past
    BY DEF Past
  <2>3. [on |-> NoPost, deleted |-> FALSE, removed |-> FALSE] \in Reply
    BY DEF Reply
  <2> QED BY <2>1, <2>2, <2>3, Limits DEF Init, TypeOK
<1>2. RequestsSound
  BY DEF Init, RequestsSound, Sound, Apart, None
<1>3. \A p \in Posts : Whole(p)
  BY SealsAreCounted, Limits DEF Init, Whole, NoRow, NeedsSeal
<1> QED
  BY <1>1, <1>2, <1>3, InvSplit, TypesSplit

LEMMA PostInvariance == Spec => []PostInv
<1>1. PostInv /\ [Next]_vars => PostInv'
  <2>1. PostInv <=> Inv
    BY InvSplit, TypesSplit DEF Inv
  <2>2. PostInv' <=> Inv'
    BY <2>1, PTL
  <2> SUFFICES ASSUME Inv, [Next]_vars PROVE Inv'
    BY <2>1, <2>2
  <2> QED
    BY CreateKeeps, CreateOpenKeeps, VerifySealKeeps, UnverifyKeeps, ApproveKeeps, FlagsKeep,
       EditKeeps, AcceptKeeps, CommentsKeep, SetGateKeeps, ClientsKeep
       DEF Next, Handler, OneStep
<1> QED
  BY <1>1, PostInvInitially, PTL DEF Spec

\* Posts, comments, seals, revisions and requests keep their types.
THEOREM TypeCorrect == Spec => []TypeOK
<1>1. PostInv => TypeOK
  BY DEF PostInv
<1> QED
  BY <1>1, PostInvariance, PTL

\* Whoever publishes a post, and however inserts, seals, approvals, deletions
\* and seals taken back overlap: it is announced once for each time it becomes
\* public.
THEOREM ReleasesAnnounced == Spec => []EachReleaseAnnounced
<1>1. PostInv => EachReleaseAnnounced
  BY DEF PostInv
<1> QED
  BY <1>1, PostInvariance, PTL

\* Under a gate that asks for a seal no agent's post is public without one,
\* unless the decision that published it read an earlier setting or none; the
\* count is the number of seals.
THEOREM SealsKept == Spec => []SealKept
<1>1. PostInv => SealKept
  BY DEF PostInv
<1> QED
  BY <1>1, PostInvariance, PTL

\* No text of a post is lost by edits that read it, however they overlap.
THEOREM HistoryKept == Spec => []EditsKeepHistory
<1>1. PostInv => EditsKeepHistory
  BY DEF PostInv
<1> QED
  BY <1>1, PostInvariance, PTL

\* A question is answered exactly when a comment written on it is accepted,
\* unless the create handler's last statement came after the answer.
THEOREM AnswersAccepted == Spec => []AnsweredMeansAccepted
<1>1. PostInv => AnsweredMeansAccepted
  BY DEF PostInv
<1> QED
  BY <1>1, PostInvariance, PTL
=============================================================================
