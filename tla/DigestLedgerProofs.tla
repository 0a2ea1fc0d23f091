-------------------------- MODULE DigestLedgerProofs --------------------------
(***************************************************************************)
(* Theorems about DigestLedger for every number of replicas, recipients,   *)
(* texts and tries, every tick, and every bound on faults and changes.     *)
(***************************************************************************)
EXTENDS DigestLedger, FiniteSetTheorems, TLAPS

HoldPcs == {"check", "cancel", "send", "mark"}
LoopPcs == {"loop", "claim"} \cup HoldPcs
Closed == {"sent", "canceled"}

Rows == [status : Open \cup Closed \cup {"none"}, attempts : Nat,
         expired : BOOLEAN, text : Texts \cup {NoText}]
Runs == [pc : {"waiting", "elected"} \cup LoopPcs, due : Seq(Cadences), tries : Nat,
         fresh : Texts \cup {NoText}, todo : SUBSET Recipients, at : Recipients \cup {Free},
         text : Texts \cup {NoText}, outcome : Outcomes, failed : BOOLEAN]

Typed ==
    /\ pref \in [Recipients -> Frequencies]
    /\ hidden \subseteq Texts
    /\ lock \in [Cadences -> Runners \cup {Free}]
    /\ row \in [Deliveries -> Rows]
    /\ run \in [Runners -> Runs]
    /\ faults \in Nat /\ changes \in Nat
    /\ mailed \in [Deliveries -> SUBSET Texts]
    /\ accepted \in [Deliveries -> Nat]
    /\ doubt \in [Deliveries -> SUBSET {"lost", "unrecorded", "late"}]
    /\ stray \in [Deliveries -> Nat]

\* A run that is under way has a cadence and, in its loop, what it rendered.
Sensible(q) ==
    /\ q.pc # "waiting" => q.due # <<>>
    /\ q.pc \in LoopPcs => q.fresh \in Texts
    /\ q.pc \in {"claim"} \cup HoldPcs => q.at \in Recipients
    /\ q.pc \in HoldPcs => q.text \in Texts
    /\ q.tries < MaxTries

RowsSensible(r) ==
    /\ r.status \in Open <=> r.text \in Texts
    /\ r.expired => r.status = "sending"

Holder(w, d) == run[w].pc \in HoldPcs /\ <<Head(run[w].due), run[w].at>> = d
Senders(d) == {w \in Runners : run[w].pc = "send" /\ <<Head(run[w].due), run[w].at>> = d}

\* Nothing has happened to a delivery without a row.
Unopened(d) ==
    row[d].status = "none" =>
        mailed[d] = {} /\ accepted[d] = 0 /\ \A w \in Runners : ~Holder(w, d)

\* The row, every holder of a claim and the mails have the same text.
OnePayload(d) ==
    /\ \A x, y \in mailed[d] : x = y
    /\ row[d].status \in Open => \A x \in mailed[d] : x = row[d].text
    /\ \A w \in Runners : Holder(w, d) =>
         /\ \A x \in mailed[d] : x = run[w].text
         /\ row[d].status \in Open => run[w].text = row[d].text
         /\ \A v \in Runners : Holder(v, d) => run[v].text = run[w].text

\* A claim that does not run out under its holder is its alone; no row but one
\* that has been canceled is taken from it.
Exclusive(d) ==
    "late" \notin doubt[d] =>
        /\ \A w, v \in Runners : Holder(w, d) /\ Holder(v, d) => w = v
        /\ \A w \in Runners : Holder(w, d) =>
             row[d].status = "canceled" \/ (row[d].status = "sending" /\ ~row[d].expired)

\* Of a mail the ledger knows, or is about to.
OneMail(d) ==
    doubt[d] = {} =>
        /\ accepted[d] <= 1
        /\ accepted[d] # 0 =>
             \/ row[d].status \in Closed
             \/ \E w \in Runners : Holder(w, d) /\ run[w].pc = "mark" /\ run[w].outcome = "ok"
        /\ \A w \in Runners : Holder(w, d) /\ (run[w].pc # "mark" \/ run[w].outcome = "failed") =>
             accepted[d] = 0

Accepted(d) ==
    /\ row[d].status = "sent" => accepted[d] > 0
    /\ \A w \in Runners : Holder(w, d) /\ run[w].pc = "mark" /\ run[w].outcome # "failed" =>
         accepted[d] > 0
    /\ \A w \in Runners : Holder(w, d) /\ run[w].pc = "mark" /\ run[w].outcome = "lost" =>
         "lost" \in doubt[d]

\* After an opt-out nobody passes the recheck any more.
OptOut(d) ==
    /\ pref[d[2]] = d[1] => stray[d] = 0
    /\ stray[d] + Cardinality(Senders(d)) <= Cardinality(Runners)
    /\ "late" \notin doubt[d] => stray[d] = 0 \/ (stray[d] = 1 /\ Senders(d) = {})

DeliverySound(d) ==
    /\ Unopened(d) /\ OnePayload(d) /\ Exclusive(d) /\ OneMail(d) /\ Accepted(d) /\ OptOut(d)

-----------------------------------------------------------------------------

Quiet == faults = 0 /\ changes = 0
Wants(r, c) == pref[r] = c
Sent(c, r) == row[<<c, r>>].status = "sent"

\* While nothing fails and nobody changes anything, a run holds its lock,
RunHolds(w) ==
    run[w].pc # "waiting" => lock[Head(run[w].due)] = w /\ run[w].pc # "cancel"

\* a lock is held for a run,
LockIsHeld(c) ==
    lock[c] # Free => run[lock[c]].pc # "waiting" /\ Head(run[lock[c]].due) = c

\* only wanted deliveries are made,
MailIsWanted(w) ==
    run[w].pc \in LoopPcs =>
        /\ \A r \in run[w].todo : Wants(r, Head(run[w].due))
        /\ run[w].pc # "loop" => Wants(run[w].at, Head(run[w].due))
        /\ run[w].pc = "claim" => row[<<Head(run[w].due), run[w].at>>].status # "none"

\* and no claim is left behind.
RowIsWanted(d) ==
    /\ row[d].status # "none" => Wants(d[2], d[1])
    /\ row[d].status # "canceled" /\ "late" \notin doubt[d]
    /\ row[d].status = "sending" => \E w \in Runners : Holder(w, d)

\* Each try of a run makes an attempt at every delivery of its cadence that is
\* not sent, and finds that one failed.
Tried(w, r) ==
    run[w].due # <<>> /\ Wants(r, Head(run[w].due)) =>
        \/ Sent(Head(run[w].due), r)
        \/ /\ row[<<Head(run[w].due), r>>].attempts >= run[w].tries
           /\ run[w].pc \in LoopPcs =>
                \/ r \in run[w].todo
                \/ r = run[w].at /\ run[w].pc = "claim"
                \/ /\ row[<<Head(run[w].due), r>>].attempts > run[w].tries
                   /\ run[w].failed \/ (r = run[w].at /\ run[w].pc \in HoldPcs)

\* A cadence of the tick is still to be run by somebody, or has been.
Served(c) == \A r \in Recipients : Wants(r, c) =>
                 Sent(c, r) \/ row[<<c, r>>].attempts >= MaxTries
Awaits(w, c) == \E i \in DOMAIN run[w].due : run[w].due[i] = c
Covered(c) == Served(c) \/ \E w \in Runners : Awaits(w, c)

QuietTick ==
    /\ hidden = {}
    /\ \A w \in Runners : RunHolds(w) /\ MailIsWanted(w)
    /\ \A c \in Cadences : LockIsHeld(c) /\ Covered(c)
    /\ \A d \in Deliveries : RowIsWanted(d)
    /\ \A w \in Runners, r \in Recipients : Tried(w, r)

Tidy ==
    /\ Typed
    /\ \A w \in Runners : Sensible(run[w])
    /\ \A d \in Deliveries : RowsSensible(row[d])

AllSound == \A d \in Deliveries : DeliverySound(d)

DigestInv == Tidy /\ AllSound /\ (Quiet => QuietTick)

\* A step leaves the settled rows alone and settles none as sent that was not
\* accepted.
Steady ==
    \A d \in Deliveries :
        /\ row[d].status \in Closed => row'[d] = row[d]
        /\ row'[d].status = "sent" => row[d].status = "sent" \/ accepted[d] > 0

-----------------------------------------------------------------------------
(* Deliveries, rows and runs.                                              *)

LEMMA Limits ==
    /\ MaxTries \in Nat \ {0} /\ MaxFaults \in Nat /\ MaxChanges \in Nat
    /\ Free \notin Runners /\ NoText \notin Texts
    /\ Open \cap Closed = {} /\ "none" \notin Open \cup Closed
    /\ LoopPcs \cap {"waiting", "elected"} = {} /\ HoldPcs \subseteq LoopPcs
    /\ "claim" \notin HoldPcs /\ "loop" \notin HoldPcs
    /\ Absent \in Rows /\ Absent.status = "none" /\ Absent.text = NoText /\ Absent.expired = FALSE
  BY BoundAssumption, NobodyAssumption DEF Open, Closed, LoopPcs, HoldPcs, Absent, Rows

LEMMA DueIsOfCadences == Due \in Seq(Cadences)
  BY DueAssumption DEF Cadences

LEMMA Pairs ==
    /\ \A d \in Deliveries : d[1] \in Cadences /\ d[2] \in Recipients /\ d = <<d[1], d[2]>>
    /\ \A c \in Cadences, r \in Recipients :
         <<c, r>> \in Deliveries /\ <<c, r>>[1] = c /\ <<c, r>>[2] = r
  BY DEF Deliveries

LEMMA Periods ==
    ASSUME NEW due \in Seq(Cadences), due # <<>>
    PROVE  /\ Head(due) \in Cadences /\ Tail(due) \in Seq(Cadences)
           /\ \A i \in DOMAIN due : due[i] = Head(due) \/ \E j \in DOMAIN Tail(due) : Tail(due)[j] = due[i]
           /\ \E i \in DOMAIN due : due[i] = Head(due)
<1>1. Len(due) \in Nat /\ Len(due) > 0 /\ DOMAIN due = 1 .. Len(due) /\ Head(due) = due[1]
  OBVIOUS
<1>2. Tail(due) \in Seq(Cadences) /\ Len(Tail(due)) = Len(due) - 1
  BY <1>1
<1>3. ASSUME NEW i \in DOMAIN due, i # 1
      PROVE  \E j \in DOMAIN Tail(due) : Tail(due)[j] = due[i]
  <2>1. i - 1 \in 1 .. Len(Tail(due)) /\ Tail(due)[i - 1] = due[(i - 1) + 1]
    BY <1>1, <1>2, <1>3
  <2>2. i - 1 \in DOMAIN Tail(due) /\ (i - 1) + 1 = i
    BY <1>1, <1>2, <2>1
  <2> QED BY <2>1, <2>2
<1> QED
  BY <1>1, <1>2, <1>3

LEMMA Starts ==
    ASSUME NEW due \in Seq(Cadences)
    PROVE  /\ Start(due) \in Runs /\ Start(due).pc = "waiting" /\ Start(due).due = due
           /\ Start(due).tries = 0 /\ Sensible(Start(due))
<1>1. /\ Start(due) \in Runs /\ Start(due).pc = "waiting" /\ Start(due).due = due
      /\ Start(due).tries = 0
  BY DEF Start, Runs, Outcomes
<1> QED
  BY <1>1, Limits DEF Sensible, LoopPcs, HoldPcs

\* The cadence and the delivery of a run that has them.
LEMMA RunFields ==
    ASSUME Typed, \A w \in Runners : Sensible(run[w]), NEW w \in Runners
    PROVE  /\ run[w] \in Runs /\ run[w].due \in Seq(Cadences) /\ run[w].tries \in Nat
           /\ run[w].todo \subseteq Recipients /\ run[w].failed \in BOOLEAN
           /\ run[w].due # <<>> => Cadence(w) \in Cadences
           /\ run[w].pc # "waiting" => run[w].due # <<>>
           /\ run[w].pc \in {"claim"} \cup HoldPcs =>
                Delivery(w) \in Deliveries /\ run[w].at \in Recipients
           /\ run[w].pc \in HoldPcs => run[w].text \in Texts
           /\ run[w].pc \in LoopPcs => run[w].fresh \in Texts
           /\ \A d : Holder(w, d) <=> run[w].pc \in HoldPcs /\ Delivery(w) = d
<1>1. run[w] \in Runs /\ Sensible(run[w])
  BY DEF Typed
<1>2. run[w].due \in Seq(Cadences) /\ run[w].tries \in Nat
      /\ run[w].todo \subseteq Recipients /\ run[w].failed \in BOOLEAN
  BY <1>1 DEF Runs
<1>3. run[w].due # <<>> => Cadence(w) \in Cadences
  BY <1>2, Periods DEF Cadence
<1>4. run[w].pc \in {"claim"} \cup HoldPcs => run[w].pc # "waiting" /\ run[w].at \in Recipients
  BY <1>1 DEF Sensible, HoldPcs
<1> QED
  BY <1>1, <1>2, <1>3, <1>4, Pairs DEF Sensible, Delivery, Cadence, Holder

LEMMA RunWritten ==
    ASSUME Typed, NEW w \in Runners, NEW n \in Runs, run' = [run EXCEPT ![w] = n]
    PROVE  /\ run' \in [Runners -> Runs] /\ run'[w] = n
           /\ \A v \in Runners : v # w => run'[v] = run[v]
  BY DEF Typed

LEMMA RowWritten ==
    ASSUME Typed, NEW d \in Deliveries, NEW n \in Rows, row' = [row EXCEPT ![d] = n]
    PROVE  /\ row' \in [Deliveries -> Rows] /\ row'[d] = n
           /\ \A e \in Deliveries : e # d => row'[e] = row[e]
  BY DEF Typed

\* The parts of a run that go from one recipient to the next.
SameRun(n, q) == n.due = q.due /\ n.tries = q.tries /\ n.fresh = q.fresh /\ n.todo = q.todo

LEMMA Continues ==
    ASSUME Typed, NEW w \in Runners, NEW error \in BOOLEAN, Continue(w, error)
    PROVE  /\ run' \in [Runners -> Runs]
           /\ \A v \in Runners : v # w => run'[v] = run[v]
           /\ SameRun(run'[w], run[w]) /\ run'[w].pc = "loop"
           /\ run'[w].failed <=> (run[w].failed \/ error)
<1>1. PICK failed \in BOOLEAN : failed = (run[w].failed \/ error)
  OBVIOUS
<1> DEFINE n == [run[w] EXCEPT !.pc = "loop", !.at = Free, !.text = NoText,
                               !.outcome = "ok", !.failed = failed]
<1>2. /\ n \in Runs /\ SameRun(n, run[w]) /\ n.pc = "loop" /\ n.failed = failed
  BY DEF Typed, Runs, SameRun, LoopPcs, HoldPcs, Outcomes
<1>3. run' = [run EXCEPT ![w] = n]
  BY <1>1 DEF Continue
<1> HIDE DEF n
<1> QED
  BY <1>1, <1>2, <1>3, RunWritten

LEMMA Moves ==
    ASSUME Typed, NEW w \in Runners, NEW pc \in {"elected"} \cup LoopPcs, Move(w, pc)
    PROVE  /\ run' \in [Runners -> Runs]
           /\ \A v \in Runners : v # w => run'[v] = run[v]
           /\ SameRun(run'[w], run[w]) /\ run'[w].pc = pc
           /\ run'[w].at = run[w].at /\ run'[w].text = run[w].text
           /\ run'[w].outcome = run[w].outcome /\ run'[w].failed = run[w].failed
<1> DEFINE n == [run[w] EXCEPT !.pc = pc]
<1>1. /\ n \in Runs /\ SameRun(n, run[w]) /\ n.pc = pc /\ n.at = run[w].at
      /\ n.text = run[w].text /\ n.outcome = run[w].outcome /\ n.failed = run[w].failed
  BY DEF Typed, Runs, SameRun
<1>2. run' = [run EXCEPT ![w] = n]
  BY DEF Move
<1> HIDE DEF n
<1> QED
  BY <1>1, <1>2, RunWritten

\* A run that is over: on to the next period, or the same again, or never.
LEMMA NextPeriods ==
    ASSUME Typed, NEW w \in Runners, run[w].due # <<>>, run' = NextPeriod(w)
    PROVE  /\ run' \in [Runners -> Runs]
           /\ \A v \in Runners : v # w => run'[v] = run[v]
           /\ run'[w].pc = "waiting" /\ Sensible(run'[w])
           /\ run'[w].due = Tail(run[w].due) /\ run'[w].tries = 0
<1>1. run[w].due \in Seq(Cadences)
  BY DEF Typed, Runs
<1>2. PICK due \in Seq(Cadences) : due = Tail(run[w].due)
  BY <1>1, Periods
<1>3. run' = [run EXCEPT ![w] = Start(due)]
  BY <1>2 DEF NextPeriod
<1>4. run' \in [Runners -> Runs] /\ run'[w] = Start(due)
      /\ \A v \in Runners : v # w => run'[v] = run[v]
  BY <1>3, Starts, RunWritten
<1> QED
  BY <1>2, <1>4, Starts

LEMMA Stops ==
    ASSUME Typed, NEW w \in Runners, run' = [run EXCEPT ![w] = Start(<<>>)]
    PROVE  /\ run' \in [Runners -> Runs]
           /\ \A v \in Runners : v # w => run'[v] = run[v]
           /\ run'[w].pc = "waiting" /\ Sensible(run'[w])
<1>1. <<>> \in Seq(Cadences)
  OBVIOUS
<1>2. run' \in [Runners -> Runs] /\ run'[w] = Start(<<>>)
      /\ \A v \in Runners : v # w => run'[v] = run[v]
  BY <1>1, Starts, RunWritten
<1> QED
  BY <1>1, <1>2, Starts

LEMMA Retries ==
    ASSUME Typed, NEW w \in Runners, run[w].due # <<>>, run' = Retry(w)
    PROVE  /\ run' \in [Runners -> Runs]
           /\ \A v \in Runners : v # w => run'[v] = run[v]
           /\ run'[w].pc = "waiting" /\ Sensible(run'[w])
           /\ \/ /\ run'[w].due = run[w].due /\ run'[w].tries = run[w].tries + 1
              \/ /\ run'[w].due = Tail(run[w].due) /\ run'[w].tries = 0
                 /\ run[w].tries + 1 >= MaxTries
<1>1. run[w].due \in Seq(Cadences) /\ run[w].tries \in Nat
  BY DEF Typed, Runs
<1>2. CASE run[w].tries + 1 < MaxTries
  <2>0. PICK due \in Seq(Cadences), tries \in Nat : due = run[w].due /\ tries = run[w].tries + 1
    BY <1>1
  <2> DEFINE n == [Start(due) EXCEPT !.tries = tries]
  <2>1. n \in Runs /\ n.pc = "waiting" /\ n.due = due /\ n.tries = tries
    <3>1. Start(due) \in Runs /\ Start(due).pc = "waiting" /\ Start(due).due = due
      BY Starts
    <3> QED BY <3>1 DEF Runs
  <2>2. run' = [run EXCEPT ![w] = n]
    BY <1>2, <2>0 DEF Retry
  <2> HIDE DEF n
  <2>3. Sensible(n)
    BY <1>2, <2>0, <2>1 DEF Sensible, LoopPcs, HoldPcs
  <2> QED BY <2>0, <2>1, <2>2, <2>3, RunWritten
<1>3. CASE ~(run[w].tries + 1 < MaxTries)
  <2>1. run' = NextPeriod(w)
    BY <1>3 DEF Retry
  <2> QED BY <1>1, <1>3, <2>1, NextPeriods, Limits
<1> QED
  BY <1>2, <1>3

-----------------------------------------------------------------------------
(* One delivery: what the steps do to it.                                  *)

LEMMA HoldersAndSenders ==
    ASSUME NEW d
    PROVE  /\ \A v \in Runners : v \in Senders(d) <=> Holder(v, d) /\ run[v].pc = "send"
           /\ Senders(d) \subseteq Runners
  BY DEF Senders, Holder, HoldPcs

LEMMA SendersNext ==
    ASSUME NEW d
    PROVE  /\ \A v \in Runners : v \in Senders(d)' <=> Holder(v, d)' /\ run'[v].pc = "send"
           /\ Senders(d)' \subseteq Runners
  BY DEF Senders, Holder, HoldPcs

LEMMA RunnersAreCounted ==
    ASSUME NEW S \in SUBSET Runners
    PROVE  /\ Cardinality(S) \in Nat /\ Cardinality(Runners) \in Nat
           /\ Cardinality(S) <= Cardinality(Runners)
           /\ \A w \in S : Cardinality(S \ {w}) = Cardinality(S) - 1
           /\ \A T \in SUBSET S : Cardinality(T) \in Nat /\ Cardinality(T) <= Cardinality(S)
<1>1. IsFiniteSet(Runners)
  BY SomeAssumption
<1>2. IsFiniteSet(S) /\ Cardinality(S) <= Cardinality(Runners)
  BY <1>1, FS_Subset
<1>3. \A T \in SUBSET S : IsFiniteSet(T) /\ Cardinality(T) <= Cardinality(S)
  BY <1>2, FS_Subset
<1>4. \A w \in S : Cardinality(S \ {w}) = Cardinality(S) - 1
  BY <1>2, FS_RemoveElement
<1>5. \A T \in SUBSET S : Cardinality(T) \in Nat
  BY <1>3, FS_CardinalityType
<1>6. Cardinality(S) \in Nat /\ Cardinality(Runners) \in Nat
  BY <1>1, <1>2, FS_CardinalityType
<1> QED
  BY <1>2, <1>3, <1>4, <1>5, <1>6

\* A step that is not about the delivery d.
Alone(d) ==
    /\ row'[d] = row[d] /\ mailed'[d] = mailed[d] /\ accepted'[d] = accepted[d]
    /\ doubt'[d] = doubt[d] /\ stray'[d] = stray[d] /\ pref'[d[2]] = pref[d[2]]
    /\ \A v \in Runners : Holder(v, d) \/ Holder(v, d)' => run'[v] = run[v]

LEMMA AloneKeeps ==
    ASSUME NEW d \in Deliveries, DeliverySound(d), Alone(d)
    PROVE  DeliverySound(d)'
<1>1. \A v \in Runners : /\ Holder(v, d)' <=> Holder(v, d)
                         /\ Holder(v, d) => run'[v] = run[v]
  BY DEF Alone, Holder
<1>2. Senders(d)' = Senders(d)
  <2>1. \A v : v \in Senders(d)' <=> v \in Senders(d)
    BY <1>1, HoldersAndSenders, SendersNext
  <2> QED BY <2>1
<1>3. Unopened(d)'
  BY <1>1 DEF Alone, DeliverySound, Unopened
<1>4. OnePayload(d)'
  BY <1>1 DEF Alone, DeliverySound, OnePayload
<1>5. Exclusive(d)'
  BY <1>1 DEF Alone, DeliverySound, Exclusive
<1>6. OneMail(d)'
  BY <1>1 DEF Alone, DeliverySound, OneMail
<1>7. Accepted(d)'
  BY <1>1 DEF Alone, DeliverySound, Accepted
<1>8. OptOut(d)'
  BY <1>2 DEF Alone, DeliverySound, OptOut
<1> QED
  BY <1>3, <1>4, <1>5, <1>6, <1>7, <1>8 DEF DeliverySound

\* A step of the replica w that is about one delivery at most.
OnlyAt(e, w) ==
    /\ UNCHANGED pref
    /\ \A v \in Runners : v # w => run'[v] = run[v]
    /\ \A d \in Deliveries : d # e =>
         /\ row'[d] = row[d] /\ mailed'[d] = mailed[d] /\ accepted'[d] = accepted[d]
         /\ doubt'[d] = doubt[d] /\ stray'[d] = stray[d]
         /\ ~Holder(w, d) /\ ~Holder(w, d)'

LEMMA OnlyAtKeeps ==
    ASSUME \A d \in Deliveries : DeliverySound(d), NEW w \in Runners,
           NEW e \in Deliveries, OnlyAt(e, w), DeliverySound(e)'
    PROVE  \A d \in Deliveries : DeliverySound(d)'
<1>1. ASSUME NEW d \in Deliveries, d # e PROVE Alone(d)
  BY <1>1 DEF OnlyAt, Alone
<1> QED
  BY <1>1, AloneKeeps

\* A step about no delivery: the replica holds no claim before it nor after.
LEMMA NoneHeld ==
    ASSUME \A d \in Deliveries : DeliverySound(d), NEW w \in Runners,
           \A v \in Runners : v # w => run'[v] = run[v],
           run[w].pc \notin HoldPcs, run'[w].pc \notin HoldPcs,
           UNCHANGED <<pref, row, mailed, accepted, doubt, stray>>
    PROVE  \A d \in Deliveries : DeliverySound(d)'
<1>1. ASSUME NEW d \in Deliveries PROVE Alone(d)
  BY DEF Alone, Holder
<1> QED
  BY <1>1, AloneKeeps

\* A claim is left, whatever has become of it.
LEMMA HolderLeaves ==
    ASSUME NEW d \in Deliveries, DeliverySound(d), NEW w \in Runners, Holder(w, d),
           accepted[d] \in Nat, stray[d] \in Nat,
           \A v \in Runners : v # w => run'[v] = run[v], run'[w].pc \notin HoldPcs,
           UNCHANGED <<pref, mailed, accepted, stray>>, doubt[d] \subseteq doubt'[d],
           \/ row'[d] = row[d]
           \/ row[d].status \in Open /\ row'[d].status \in Closed
           \/ /\ row[d].status \in Open /\ row'[d].status = "failed"
              /\ row'[d].text = row[d].text,
           row'[d].status = "sent" => row[d].status = "sent" \/ accepted[d] > 0,
           doubt'[d] = {} /\ accepted[d] # 0 => row'[d].status \in Closed
    PROVE  DeliverySound(d)'
<1>1. \A v \in Runners : /\ Holder(v, d)' => Holder(v, d) /\ v # w
                         /\ Holder(v, d)' => run'[v] = run[v]
  BY DEF Holder
<1>2. row[d].status # "none" /\ row'[d].status # "none"
  BY DEF DeliverySound, Unopened, Open, Closed
<1>3. row'[d].status \in Open => row[d].status \in Open /\ row'[d].text = row[d].text
  BY DEF Open, Closed
<1>4. "late" \notin doubt'[d] => \A v \in Runners : ~Holder(v, d)'
  BY <1>1 DEF DeliverySound, Exclusive
<1>5. Unopened(d)'
  BY <1>2 DEF Unopened
<1>6. OnePayload(d)'
  BY <1>1, <1>3 DEF DeliverySound, OnePayload
<1>7. Exclusive(d)'
  BY <1>4 DEF Exclusive
<1>8. OneMail(d)'
  BY <1>4 DEF DeliverySound, OneMail
<1>9. Accepted(d)'
  BY <1>1 DEF DeliverySound, Accepted
<1>10. OptOut(d)'
  <2>1. Senders(d)' \subseteq Senders(d) /\ Senders(d) \subseteq Runners
    BY <1>1, HoldersAndSenders, SendersNext
  <2>2. /\ Cardinality(Senders(d)) \in Nat /\ Cardinality(Senders(d)') \in Nat
        /\ Cardinality(Runners) \in Nat /\ Cardinality(Senders(d)') <= Cardinality(Senders(d))
    BY <2>1, RunnersAreCounted
  <2>3. "late" \notin doubt'[d] => stray'[d] = 0 \/ (stray'[d] = 1 /\ Senders(d)' = {})
    BY <2>1 DEF DeliverySound, OptOut
  <2>4. stray'[d] + Cardinality(Senders(d)') <= Cardinality(Runners)
    <3>1. stray[d] + Cardinality(Senders(d)) <= Cardinality(Runners) /\ stray' = stray
      BY DEF DeliverySound, OptOut
    <3> QED BY <2>2, <3>1
  <2>5. pref'[d[2]] = d[1] => stray'[d] = 0
    BY DEF DeliverySound, OptOut
  <2> QED BY <2>3, <2>4, <2>5 DEF OptOut
<1> QED
  BY <1>5, <1>6, <1>7, <1>8, <1>9, <1>10 DEF DeliverySound

\* A claim is taken: by nobody while another has it, unless it ran out.
LEMMA HolderComes ==
    ASSUME NEW d \in Deliveries, DeliverySound(d), NEW w \in Runners, ~Holder(w, d),
           \A v \in Runners : v # w => run'[v] = run[v], Holder(w, d)',
           run'[w].pc = "check", run'[w].text = row[d].text,
           UNCHANGED <<pref, mailed, accepted, doubt, stray>>, Claimable(d),
           row'[d].status = "sending", ~row'[d].expired, row'[d].text = row[d].text
    PROVE  DeliverySound(d)'
<1>1. \A v \in Runners : /\ v # w /\ Holder(v, d)' => Holder(v, d) /\ run'[v] = run[v]
  BY DEF Holder
<1>2. /\ row[d].status \in Open /\ row[d].status \notin Closed
      /\ row[d].status = "sending" => row[d].expired
  BY DEF Claimable, Open, Closed
<1>3. "late" \notin doubt[d] => \A v \in Runners : ~Holder(v, d)
  BY <1>2 DEF DeliverySound, Exclusive, Closed
<1>4. Unopened(d)'
  BY DEF Unopened
<1>5. OnePayload(d)'
  BY <1>1, <1>2 DEF DeliverySound, OnePayload
<1>6. Exclusive(d)'
  BY <1>1, <1>3 DEF Exclusive
<1>7. OneMail(d)'
  BY <1>1, <1>2, <1>3 DEF DeliverySound, OneMail
<1>8. Accepted(d)'
  BY <1>1 DEF DeliverySound, Accepted
<1>9. OptOut(d)'
  <2>1. Senders(d)' = Senders(d)
    <3>1. \A v : v \in Senders(d)' <=> v \in Senders(d)
      BY <1>1, HoldersAndSenders, SendersNext DEF Holder
    <3> QED BY <3>1
  <2> QED BY <2>1 DEF DeliverySound, OptOut
<1> QED
  BY <1>4, <1>5, <1>6, <1>7, <1>8, <1>9 DEF DeliverySound

-----------------------------------------------------------------------------
(* The steps, one delivery at a time: Tidy, AllSound and Steady.           *)

LEMMA Records ==
    ASSUME Tidy, NEW d \in Deliveries, NEW status \in {"sent", "failed", "canceled"}
    PROVE  /\ Record(d, status) \in Rows /\ RowsSensible(Record(d, status))
           /\ row[d].status \notin Open => Record(d, status) = row[d]
           /\ row[d].status \in Open =>
                /\ Record(d, status).status = status
                /\ status = "failed" => Record(d, status).text = row[d].text
           /\ Record(d, status).attempts = row[d].attempts
<1>1. row[d] \in Rows /\ RowsSensible(row[d])
  BY DEF Tidy, Typed
<1>2. CASE row[d].status \notin Open
  <2>1. Record(d, status) = row[d]
    BY <1>2 DEF Record
  <2> QED BY <1>1, <1>2, <2>1
<1>3. CASE row[d].status \in Open
  <2> DEFINE text == IF status = "failed" THEN row[d].text ELSE NoText
             n == [row[d] EXCEPT !.status = status, !.expired = FALSE, !.text = text]
  <2>1. Record(d, status) = n
    BY <1>3 DEF Record
  <2>2. text \in Texts \cup {NoText} /\ (status = "failed" => text = row[d].text)
        /\ (text \in Texts <=> status = "failed")
    BY <1>1, <1>3, Limits DEF Rows, RowsSensible
  <2> HIDE DEF text
  <2>3. /\ n \in Rows /\ n.status = status /\ n.text = text /\ n.expired = FALSE
        /\ n.attempts = row[d].attempts
    BY <1>1, <2>2 DEF Rows, Open, Closed
  <2> HIDE DEF n
  <2>4. RowsSensible(n)
    BY <2>2, <2>3 DEF RowsSensible, Open
  <2> QED BY <1>3, <2>1, <2>2, <2>3, <2>4
<1> QED
  BY <1>2, <1>3

\* A step of one replica that leaves the rows alone.
LEMMA TidyRun ==
    ASSUME Tidy, NEW w \in Runners, run' \in [Runners -> Runs], Sensible(run'[w]),
           \A v \in Runners : v # w => run'[v] = run[v],
           lock' \in [Cadences -> Runners \cup {Free}], faults' \in Nat,
           mailed' \in [Deliveries -> SUBSET Texts], accepted' \in [Deliveries -> Nat],
           doubt' \in [Deliveries -> SUBSET {"lost", "unrecorded", "late"}],
           stray' \in [Deliveries -> Nat],
           row' \in [Deliveries -> Rows], \A d \in Deliveries : RowsSensible(row'[d]),
           UNCHANGED world
    PROVE  Tidy'
<1>1. Typed'
  BY DEF Tidy, Typed, world
<1>2. \A v \in Runners : Sensible(run'[v])
  BY DEF Tidy
<1> QED
  BY <1>1, <1>2 DEF Tidy

\* What the premises of TidyRun ask of the variables a step leaves alone.
LEMMA TidyFacts ==
    ASSUME Tidy
    PROVE  /\ lock \in [Cadences -> Runners \cup {Free}] /\ faults \in Nat /\ changes \in Nat
           /\ mailed \in [Deliveries -> SUBSET Texts] /\ accepted \in [Deliveries -> Nat]
           /\ doubt \in [Deliveries -> SUBSET {"lost", "unrecorded", "late"}]
           /\ stray \in [Deliveries -> Nat]
           /\ row \in [Deliveries -> Rows] /\ \A d \in Deliveries : RowsSensible(row[d])
           /\ run \in [Runners -> Runs] /\ \A w \in Runners : Sensible(run[w])
           /\ pref \in [Recipients -> Frequencies] /\ hidden \subseteq Texts
           /\ Typed
  BY DEF Tidy, Typed

LEMMA SameRows ==
    ASSUME row' = row
    PROVE  Steady
  BY DEF Steady

LEMMA Unlocks ==
    ASSUME Tidy, NEW w \in Runners
    PROVE  Unlock(w) \in [Cadences -> Runners \cup {Free}]
  BY TidyFacts DEF Unlock

\* A step of a replica that has no claim, before or after: its own run, the lock
\* and the faults are all that changes.
LEMMA Unclaimed ==
    ASSUME Tidy, AllSound, NEW w \in Runners, run' \in [Runners -> Runs], Sensible(run'[w]),
           \A v \in Runners : v # w => run'[v] = run[v],
           run[w].pc \notin HoldPcs, run'[w].pc \notin HoldPcs,
           lock' \in [Cadences -> Runners \cup {Free}], faults' \in Nat,
           UNCHANGED <<row, world, history>>
    PROVE  Tidy' /\ AllSound' /\ Steady
<1>1. Tidy'
  BY TidyFacts, TidyRun DEF history
<1>2. UNCHANGED <<pref, row, mailed, accepted, doubt, stray>>
  BY DEF world, history
<1>3. \A d \in Deliveries : DeliverySound(d)
  BY DEF AllSound
<1>4. \A d \in Deliveries : DeliverySound(d)'
  BY <1>2, <1>3, NoneHeld
<1> QED
  BY <1>1, <1>4, SameRows DEF AllSound

LEMMA PrepareSound ==
    ASSUME Tidy, AllSound, NEW w \in Runners, Prepare(w)
    PROVE  Tidy' /\ AllSound' /\ Steady
<1>1. PICK text \in Texts \ hidden :
        run' = [run EXCEPT ![w].pc = "loop", ![w].fresh = text, ![w].failed = FALSE,
                           ![w].todo = {r \in Recipients : pref[r] = Cadence(w)}]
  BY DEF Prepare
<1>2. PICK todo \in SUBSET Recipients : todo = {r \in Recipients : pref[r] = Cadence(w)}
  OBVIOUS
<1> DEFINE n == [run[w] EXCEPT !.pc = "loop", !.fresh = text, !.failed = FALSE, !.todo = todo]
<1>3. run[w] \in Runs /\ Sensible(run[w]) /\ run[w].pc = "elected"
  BY TidyFacts DEF Prepare
<1>4. n \in Runs /\ n.pc = "loop" /\ n.fresh \in Texts /\ n.due = run[w].due /\ n.tries = run[w].tries
  BY <1>3 DEF Runs, LoopPcs, HoldPcs
<1>5. run' = [run EXCEPT ![w] = n]
  BY <1>1, <1>2, TidyFacts
<1> HIDE DEF n
<1>6. Sensible(n)
  BY <1>3, <1>4 DEF Sensible, HoldPcs
<1>7. /\ run' \in [Runners -> Runs] /\ run'[w] = n
      /\ \A v \in Runners : v # w => run'[v] = run[v]
  BY <1>4, <1>5, TidyFacts, RunWritten
<1> QED
  BY <1>3, <1>4, <1>6, <1>7, TidyFacts, Unclaimed DEF Prepare, HoldPcs

LEMMA NotElectedSound ==
    ASSUME Tidy, AllSound, NEW w \in Runners, NotElected(w)
    PROVE  Tidy' /\ AllSound' /\ Steady
<1>1. /\ run' \in [Runners -> Runs] /\ Sensible(run'[w]) /\ run'[w].pc = "waiting"
      /\ \A v \in Runners : v # w => run'[v] = run[v]
  BY TidyFacts, NextPeriods DEF NotElected
<1> QED
  BY <1>1, TidyFacts, Unclaimed DEF NotElected, HoldPcs

LEMMA NoPostsSound ==
    ASSUME Tidy, AllSound, NEW w \in Runners, NoPosts(w)
    PROVE  Tidy' /\ AllSound' /\ Steady
<1>1. run[w].pc = "elected" /\ run[w].due # <<>>
  BY TidyFacts DEF NoPosts, Sensible
<1>2. /\ run' \in [Runners -> Runs] /\ Sensible(run'[w]) /\ run'[w].pc = "waiting"
      /\ \A v \in Runners : v # w => run'[v] = run[v]
  BY <1>1, TidyFacts, NextPeriods DEF NoPosts
<1> QED
  BY <1>1, <1>2, TidyFacts, Unlocks, Unclaimed DEF NoPosts, HoldPcs

LEMMA EndRunSound ==
    ASSUME Tidy, AllSound, NEW w \in Runners, EndRun(w)
    PROVE  Tidy' /\ AllSound' /\ Steady
<1>1. run[w].pc = "loop" /\ run[w].due # <<>>
  BY TidyFacts DEF EndRun, Sensible
<1>2. run' = Retry(w) \/ run' = NextPeriod(w)
  BY DEF EndRun
<1>3. /\ run' \in [Runners -> Runs] /\ Sensible(run'[w]) /\ run'[w].pc = "waiting"
      /\ \A v \in Runners : v # w => run'[v] = run[v]
  BY <1>1, <1>2, TidyFacts, NextPeriods, Retries
<1> QED
  BY <1>1, <1>3, TidyFacts, Unlocks, Unclaimed DEF EndRun, HoldPcs

LEMMA RunFailsSound ==
    ASSUME Tidy, AllSound, NEW w \in Runners, RunFails(w)
    PROVE  Tidy' /\ AllSound' /\ Steady
<1>1. run[w].pc = "elected" /\ run[w].due # <<>>
  BY TidyFacts DEF RunFails, Sensible
<1>2. /\ run' \in [Runners -> Runs] /\ Sensible(run'[w]) /\ run'[w].pc = "waiting"
      /\ \A v \in Runners : v # w => run'[v] = run[v]
  BY <1>1, TidyFacts, Retries DEF RunFails
<1>3. faults' \in Nat
  BY TidyFacts DEF RunFails
<1> QED
  BY <1>1, <1>2, <1>3, TidyFacts, Unlocks, Unclaimed DEF RunFails, HoldPcs

LEMMA InsertFailsSound ==
    ASSUME Tidy, AllSound, NEW w \in Runners, NEW r \in Recipients, InsertFails(w, r)
    PROVE  Tidy' /\ AllSound' /\ Steady
<1>1. run[w] \in Runs /\ Sensible(run[w]) /\ run[w].pc = "loop"
  BY TidyFacts DEF InsertFails
<1> DEFINE n == [run[w] EXCEPT !.todo = run[w].todo \ {r}, !.failed = TRUE]
<1>2. /\ n \in Runs /\ n.pc = "loop" /\ n.fresh = run[w].fresh /\ n.due = run[w].due
      /\ n.tries = run[w].tries
  BY <1>1 DEF Runs
<1>3. run' = [run EXCEPT ![w] = n]
  BY TidyFacts DEF InsertFails
<1> HIDE DEF n
<1>4. Sensible(n)
  BY <1>1, <1>2 DEF Sensible, HoldPcs, LoopPcs
<1>5. /\ run' \in [Runners -> Runs] /\ run'[w] = n
      /\ \A v \in Runners : v # w => run'[v] = run[v]
  BY <1>2, <1>3, TidyFacts, RunWritten
<1>6. faults' \in Nat
  BY TidyFacts DEF InsertFails
<1> QED
  BY <1>1, <1>2, <1>4, <1>5, <1>6, TidyFacts, Unclaimed DEF InsertFails, HoldPcs

LEMMA LoseLockSound ==
    ASSUME Tidy, AllSound, NEW w \in Runners, LoseLock(w)
    PROVE  Tidy' /\ AllSound' /\ Steady
<1>1. faults' \in Nat /\ run' = run /\ row' = row
  BY TidyFacts DEF LoseLock
<1>2. UNCHANGED <<pref, mailed, accepted, doubt, stray>>
  BY DEF LoseLock, world, history
<1>3. ASSUME NEW d \in Deliveries PROVE DeliverySound(d)'
  <2>1. Alone(d)
    BY <1>1, <1>2 DEF Alone
  <2> QED BY <2>1, AloneKeeps DEF AllSound
<1>4. Tidy'
  BY <1>1, TidyFacts, Unlocks, TidyRun DEF LoseLock, history
<1> QED
  BY <1>1, <1>3, <1>4, SameRows DEF AllSound

\* The delivery of a replica that is past its loop's head, and no other.
LEMMA Its ==
    ASSUME NEW w \in Runners, NEW e \in Deliveries, e = Delivery(w),
           \/ run'[w].pc \notin HoldPcs
           \/ run'[w].due = run[w].due /\ run'[w].at = run[w].at
    PROVE  \A d : d # e => ~Holder(w, d) /\ ~Holder(w, d)'
  BY DEF Holder, Delivery, Cadence

LEMMA InsertSound ==
    ASSUME Tidy, AllSound, NEW w \in Runners, NEW r \in Recipients, Insert(w, r)
    PROVE  Tidy' /\ AllSound' /\ Steady
<1>1. run[w] \in Runs /\ Sensible(run[w]) /\ run[w].pc = "loop" /\ run[w].fresh \in Texts
  BY TidyFacts DEF Insert, Sensible, LoopPcs
<1>2. run[w].due # <<>>
  BY <1>1 DEF Sensible
<1>3. PICK e \in Deliveries : e = <<Cadence(w), r>>
  BY <1>1, <1>2, Periods, Pairs DEF Runs, Cadence
<1> DEFINE n == [run[w] EXCEPT !.pc = "claim", !.at = r, !.todo = run[w].todo \ {r}]
<1>4. /\ n \in Runs /\ n.pc = "claim" /\ n.fresh = run[w].fresh /\ n.due = run[w].due
      /\ n.tries = run[w].tries /\ n.at = r
  BY <1>1 DEF Runs, LoopPcs
<1>5. run' = [run EXCEPT ![w] = n]
  BY TidyFacts DEF Insert
<1> HIDE DEF n
<1>6. Sensible(n)
  BY <1>1, <1>2, <1>4 DEF Sensible, HoldPcs, LoopPcs
<1>7. /\ run' \in [Runners -> Runs] /\ run'[w] = n
      /\ \A v \in Runners : v # w => run'[v] = run[v]
  BY <1>4, <1>5, TidyFacts, RunWritten
<1>8. /\ UNCHANGED <<lock, faults, world, history>>
      /\ UNCHANGED <<pref, mailed, accepted, doubt, stray>>
  BY DEF Insert, world, history
<1>9. row' = IF row[e].status = "none"
             THEN [row EXCEPT ![e].status = "pending", ![e].text = run[w].fresh] ELSE row
  BY <1>3 DEF Insert
<1>10. CASE row[e].status # "none"
  <2>1. row' = row
    BY <1>9, <1>10
  <2> QED BY <1>1, <1>4, <1>6, <1>7, <1>8, <2>1, TidyFacts, Unclaimed DEF HoldPcs
<1>11. CASE row[e].status = "none"
  <2> DEFINE m == [row[e] EXCEPT !.status = "pending", !.text = run[w].fresh]
  <2>1. row[e] \in Rows /\ RowsSensible(row[e])
    BY TidyFacts
  <2>2. m \in Rows /\ m.status = "pending" /\ m.text = run[w].fresh /\ m.expired = row[e].expired
    BY <1>1, <2>1 DEF Rows, Open
  <2>3. row' = [row EXCEPT ![e] = m]
    BY <1>9, <1>11, TidyFacts
  <2> HIDE DEF m
  <2>4. /\ row' \in [Deliveries -> Rows] /\ row'[e] = m
        /\ \A d \in Deliveries : d # e => row'[d] = row[d]
    BY <2>2, <2>3, TidyFacts, RowWritten
  <2>5. RowsSensible(m)
    BY <1>1, <1>11, <2>1, <2>2 DEF RowsSensible, Open
  <2>6. \A d \in Deliveries : RowsSensible(row'[d])
    BY <2>4, <2>5, TidyFacts
  <2>7. Tidy'
    BY <1>4, <1>6, <1>7, <1>8, <2>4, <2>6, TidyFacts, TidyRun
  <2>8. \A v \in Runners : \A d : Holder(v, d)' => Holder(v, d)
    BY <1>4, <1>7 DEF Holder, HoldPcs
  <2>9. DeliverySound(e)
    BY DEF AllSound
  <2>10. /\ mailed'[e] = {} /\ accepted'[e] = 0 /\ \A v \in Runners : ~Holder(v, e)'
    BY <1>8, <1>11, <2>8, <2>9 DEF DeliverySound, Unopened
  <2>11. DeliverySound(e)'
    <3>1. Unopened(e)' /\ OnePayload(e)' /\ Exclusive(e)' /\ OneMail(e)' /\ Accepted(e)'
      BY <2>2, <2>4, <2>10 DEF Unopened, OnePayload, Exclusive, OneMail, Accepted
    <3>2. Senders(e)' = Senders(e)
      <4>1. \A v : v \in Senders(e)' <=> v \in Senders(e)
        BY <1>11, <2>8, <2>9, <2>10, HoldersAndSenders, SendersNext DEF DeliverySound, Unopened
      <4> QED BY <4>1
    <3>3. OptOut(e)'
      BY <1>8, <2>9, <3>2 DEF DeliverySound, OptOut
    <3> QED BY <3>1, <3>3 DEF DeliverySound
  <2>12. OnlyAt(e, w)
    BY <1>1, <1>4, <1>7, <1>8, <2>4 DEF OnlyAt, Holder, HoldPcs
  <2>13. AllSound'
    BY <2>11, <2>12, OnlyAtKeeps DEF AllSound
  <2>14. Steady
    BY <1>11, <2>2, <2>4 DEF Steady, Closed
  <2> QED BY <2>7, <2>13, <2>14
<1> QED
  BY <1>10, <1>11

LEMMA ClaimSound ==
    ASSUME Tidy, AllSound, NEW w \in Runners, Claim(w)
    PROVE  Tidy' /\ AllSound' /\ Steady
<1>1. run[w] \in Runs /\ Sensible(run[w]) /\ run[w].pc = "claim" /\ run[w].due # <<>>
  BY TidyFacts DEF Claim, Sensible
<1>2. PICK e \in Deliveries : e = Delivery(w)
  BY <1>1, TidyFacts, RunFields
<1>3. /\ UNCHANGED <<lock, faults, world, history>>
      /\ UNCHANGED <<pref, mailed, accepted, doubt, stray>>
  BY DEF Claim, world, history
<1>4. row[e] \in Rows /\ RowsSensible(row[e])
  BY TidyFacts
<1>5. CASE ~Claimable(e)
  <2>1. row' = row /\ Continue(w, FALSE)
    BY <1>2, <1>5 DEF Claim
  <2>2. /\ run' \in [Runners -> Runs] /\ SameRun(run'[w], run[w]) /\ run'[w].pc = "loop"
        /\ \A v \in Runners : v # w => run'[v] = run[v]
    BY <2>1, TidyFacts, Continues
  <2>3. Sensible(run'[w])
    BY <1>1, <2>2 DEF Sensible, SameRun, LoopPcs, HoldPcs
  <2> QED BY <1>1, <1>3, <2>1, <2>2, <2>3, TidyFacts, Unclaimed DEF HoldPcs
<1>6. CASE Claimable(e)
  <2>1. /\ row' = [row EXCEPT ![e].status = "sending", ![e].expired = FALSE, ![e].attempts = @ + 1]
        /\ run' = [run EXCEPT ![w].pc = "check", ![w].text = row[e].text]
    BY <1>2, <1>6 DEF Claim, Payload
  <2>2. row[e].status \in Open /\ row[e].text \in Texts /\ row[e].attempts + 1 \in Nat
    BY <1>4, <1>6 DEF Claimable, Open, RowsSensible, Rows
  <2> DEFINE m == [row[e] EXCEPT !.status = "sending", !.expired = FALSE,
                                 !.attempts = row[e].attempts + 1]
             n == [run[w] EXCEPT !.pc = "check", !.text = row[e].text]
  <2>3. m \in Rows /\ m.status = "sending" /\ m.text = row[e].text /\ m.expired = FALSE
    BY <1>4, <2>2 DEF Rows, Open
  <2>4. /\ n \in Runs /\ n.pc = "check" /\ n.fresh = run[w].fresh /\ n.due = run[w].due
        /\ n.tries = run[w].tries /\ n.at = run[w].at /\ n.text = row[e].text
    BY <1>1, <2>2 DEF Runs, LoopPcs, HoldPcs
  <2>5. row' = [row EXCEPT ![e] = m] /\ run' = [run EXCEPT ![w] = n]
    BY <2>1, TidyFacts
  <2> HIDE DEF m, n
  <2>6. Sensible(n)
    BY <1>1, <2>2, <2>4 DEF Sensible, HoldPcs, LoopPcs
  <2>7. /\ run' \in [Runners -> Runs] /\ run'[w] = n
        /\ \A v \in Runners : v # w => run'[v] = run[v]
    BY <2>4, <2>5, TidyFacts, RunWritten
  <2>8. /\ row' \in [Deliveries -> Rows] /\ row'[e] = m
        /\ \A d \in Deliveries : d # e => row'[d] = row[d]
    BY <2>3, <2>5, TidyFacts, RowWritten
  <2>9. RowsSensible(m)
    BY <2>2, <2>3 DEF RowsSensible, Open
  <2>10. \A d \in Deliveries : RowsSensible(row'[d])
    BY <2>8, <2>9, TidyFacts
  <2>11. Tidy'
    BY <1>3, <2>6, <2>7, <2>8, <2>10, TidyFacts, TidyRun
  <2>12. Holder(w, e)' /\ ~Holder(w, e)
    BY <1>1, <1>2, <2>4, <2>7 DEF Holder, HoldPcs, Delivery, Cadence
  <2>13. DeliverySound(e)
    BY DEF AllSound
  <2>14. DeliverySound(e)'
    BY <1>3, <1>6, <2>3, <2>4, <2>7, <2>8, <2>12, <2>13, HolderComes
  <2>15. OnlyAt(e, w)
    <3>1. \A d : d # e => ~Holder(w, d) /\ ~Holder(w, d)'
      BY <1>2, <2>4, <2>7, Its
    <3> QED BY <1>3, <2>7, <2>8, <3>1 DEF OnlyAt
  <2>16. AllSound'
    BY <2>14, <2>15, OnlyAtKeeps DEF AllSound
  <2>17. Steady
    BY <2>2, <2>3, <2>8, Limits DEF Steady
  <2> QED BY <2>11, <2>16, <2>17
<1> QED
  BY <1>5, <1>6

LEMMA RecheckSound ==
    ASSUME Tidy, AllSound, NEW w \in Runners, Recheck(w)
    PROVE  Tidy' /\ AllSound' /\ Steady
<1>1. run[w] \in Runs /\ Sensible(run[w]) /\ run[w].pc = "check" /\ run[w].due # <<>>
  BY TidyFacts DEF Recheck, Sensible
<1>2. PICK e \in Deliveries : e = Delivery(w)
  BY <1>1, TidyFacts, RunFields DEF HoldPcs
<1>3. /\ UNCHANGED <<row, lock, faults, world, history>>
      /\ UNCHANGED <<pref, mailed, accepted, doubt, stray>>
  BY DEF Recheck, world, history
<1>4. PICK pc \in {"send", "cancel"} :
        /\ pc = IF Eligible(e, run[w].text) THEN "send" ELSE "cancel"
        /\ Move(w, pc)
  BY <1>2 DEF Recheck
<1>5. /\ run' \in [Runners -> Runs]
      /\ \A v \in Runners : v # w => run'[v] = run[v]
      /\ SameRun(run'[w], run[w]) /\ run'[w].pc = pc
      /\ run'[w].at = run[w].at /\ run'[w].text = run[w].text
  BY <1>4, TidyFacts, Moves DEF LoopPcs, HoldPcs
<1>6. Sensible(run'[w])
  BY <1>1, <1>5 DEF Sensible, SameRun, LoopPcs, HoldPcs
<1>7. Tidy'
  BY <1>3, <1>5, <1>6, TidyFacts, TidyRun DEF history
<1>8. \A v \in Runners : /\ Holder(v, e)' <=> Holder(v, e)
                         /\ Holder(v, e) => run'[v].text = run[v].text
                         /\ v # w => run'[v] = run[v]
  BY <1>1, <1>5 DEF Holder, HoldPcs, SameRun
<1>9. Holder(w, e) /\ run[w].pc # "mark" /\ run'[w].pc # "mark" /\ DeliverySound(e)
  BY <1>1, <1>2, <1>5 DEF Holder, Delivery, Cadence, HoldPcs, AllSound
<1>10. Unopened(e)' /\ OnePayload(e)' /\ Exclusive(e)'
  BY <1>3, <1>8, <1>9 DEF DeliverySound, Unopened, OnePayload, Exclusive
<1>11. OneMail(e)' /\ Accepted(e)'
  BY <1>3, <1>8, <1>9 DEF DeliverySound, OneMail, Accepted
<1>12. OptOut(e)'
  <2>1. Senders(e)' \subseteq Runners /\ Cardinality(Senders(e)') <= Cardinality(Runners)
        /\ Cardinality(Senders(e)') \in Nat /\ Cardinality(Runners) \in Nat
    BY SendersNext, RunnersAreCounted
  <2>2. CASE pc = "send"
    <3>1. stray'[e] = 0
      BY <1>3, <1>4, <1>9, <2>2 DEF DeliverySound, OptOut, Eligible
    <3>2. stray'[e] + Cardinality(Senders(e)') <= Cardinality(Runners)
      BY <2>1, <3>1
    <3> QED BY <3>1, <3>2 DEF OptOut
  <2>3. CASE pc = "cancel"
    <3>1. Senders(e)' = Senders(e)
      <4>1. \A v : v \in Senders(e)' <=> v \in Senders(e)
        BY <1>1, <1>5, <1>8, <2>3, HoldersAndSenders, SendersNext
      <4> QED BY <4>1
    <3> QED BY <1>3, <1>9, <3>1 DEF DeliverySound, OptOut
  <2> QED BY <2>2, <2>3
<1>13. DeliverySound(e)'
  BY <1>10, <1>11, <1>12 DEF DeliverySound
<1>14. OnlyAt(e, w)
  <2>1. \A d : d # e => ~Holder(w, d) /\ ~Holder(w, d)'
    BY <1>2, <1>5, Its DEF SameRun
  <2> QED BY <1>3, <1>5, <2>1 DEF OnlyAt
<1> QED
  BY <1>3, <1>7, <1>13, <1>14, OnlyAtKeeps, SameRows DEF AllSound

\* An entry of the ledger in its row.
LEMMA RecordWritten ==
    ASSUME Tidy, NEW e \in Deliveries, NEW status \in {"sent", "failed", "canceled"},
           \/ row' = row
           \/ row' = [row EXCEPT ![e] = Record(e, status)]
    PROVE  /\ row' \in [Deliveries -> Rows] /\ \A d \in Deliveries : RowsSensible(row'[d])
           /\ \A d \in Deliveries : d # e => row'[d] = row[d]
           /\ \/ row'[e] = row[e]
              \/ row[e].status \in Open /\ row'[e] = Record(e, status)
                 /\ row'[e].status = status /\ (status = "failed" => row'[e].text = row[e].text)
           /\ row[e].status \in Closed => row'[e] = row[e]
<1>1. CASE row' = row
  BY <1>1, TidyFacts
<1>2. CASE row' = [row EXCEPT ![e] = Record(e, status)]
  <2>1. PICK n \in Rows : n = Record(e, status) /\ RowsSensible(n)
    BY Records
  <2>2. /\ row' \in [Deliveries -> Rows] /\ row'[e] = n
        /\ \A d \in Deliveries : d # e => row'[d] = row[d]
    BY <1>2, <2>1, TidyFacts, RowWritten
  <2>3. \/ n = row[e]
        \/ row[e].status \in Open /\ n.status = status /\ (status = "failed" => n.text = row[e].text)
    BY <2>1, Records
  <2>4. row[e].status \in Closed => n = row[e]
    BY <2>1, Records, Limits
  <2>5. \A d \in Deliveries : RowsSensible(row'[d])
    BY <2>1, <2>2, TidyFacts
  <2> QED BY <2>1, <2>2, <2>3, <2>4, <2>5
<1> QED
  BY <1>1, <1>2

LEMMA CancelClaimSound ==
    ASSUME Tidy, AllSound, NEW w \in Runners, CancelClaim(w)
    PROVE  Tidy' /\ AllSound' /\ Steady
<1>1. run[w] \in Runs /\ Sensible(run[w]) /\ run[w].pc = "cancel" /\ run[w].due # <<>>
  BY TidyFacts DEF CancelClaim, Sensible
<1>2. PICK e \in Deliveries : e = Delivery(w)
  BY <1>1, TidyFacts, RunFields DEF HoldPcs
<1>3. /\ UNCHANGED <<lock, faults, world, history>>
      /\ UNCHANGED <<pref, mailed, accepted, doubt, stray>>
  BY DEF CancelClaim, world, history
<1>4. row' = [row EXCEPT ![e] = Record(e, "canceled")]
  BY <1>2 DEF CancelClaim
<1>5. /\ row' \in [Deliveries -> Rows] /\ \A d \in Deliveries : RowsSensible(row'[d])
      /\ \A d \in Deliveries : d # e => row'[d] = row[d]
      /\ row'[e] = row[e] \/ (row[e].status \in Open /\ row'[e].status = "canceled")
      /\ row[e].status \in Closed => row'[e] = row[e]
  BY <1>4, RecordWritten
<1>6. Continue(w, FALSE)
  BY DEF CancelClaim
<1>7. /\ run' \in [Runners -> Runs] /\ SameRun(run'[w], run[w]) /\ run'[w].pc = "loop"
      /\ \A v \in Runners : v # w => run'[v] = run[v]
  BY <1>6, TidyFacts, Continues
<1>8. Sensible(run'[w])
  BY <1>1, <1>7 DEF Sensible, SameRun, LoopPcs, HoldPcs
<1>9. Tidy'
  BY <1>3, <1>5, <1>7, <1>8, TidyFacts, TidyRun DEF history
<1>10. Holder(w, e) /\ run[w].pc # "mark" /\ run'[w].pc \notin HoldPcs /\ DeliverySound(e)
  BY <1>1, <1>2, <1>7 DEF Holder, Delivery, Cadence, HoldPcs, AllSound
<1>11. accepted[e] \in Nat /\ stray[e] \in Nat /\ (doubt[e] = {} => accepted[e] = 0)
  BY <1>10, TidyFacts DEF DeliverySound, OneMail
<1>12. DeliverySound(e)'
  <2>1. \/ row'[e] = row[e]
        \/ row[e].status \in Open /\ row'[e].status \in Closed
    BY <1>5 DEF Closed
  <2>2. row'[e].status = "sent" => row[e].status = "sent" \/ accepted[e] > 0
    BY <1>5
  <2>3. doubt'[e] = {} /\ accepted[e] # 0 => row'[e].status \in Closed
    BY <1>3, <1>11
  <2> QED BY <1>3, <1>7, <1>10, <1>11, <2>1, <2>2, <2>3, HolderLeaves
<1>13. OnlyAt(e, w)
  <2>1. \A d : d # e => ~Holder(w, d) /\ ~Holder(w, d)'
    BY <1>2, <1>10, Its
  <2> QED BY <1>3, <1>5, <1>7, <2>1 DEF OnlyAt
<1>14. AllSound'
  BY <1>12, <1>13, OnlyAtKeeps DEF AllSound
<1>15. Steady
  BY <1>5 DEF Steady, Closed
<1> QED
  BY <1>9, <1>14, <1>15

LEMMA SendSound ==
    ASSUME Tidy, AllSound, NEW w \in Runners, Send(w)
    PROVE  Tidy' /\ AllSound' /\ Steady
<1>1. run[w] \in Runs /\ Sensible(run[w]) /\ run[w].pc = "send" /\ run[w].due # <<>>
      /\ run[w].text \in Texts
  BY TidyFacts DEF Send, Sensible, HoldPcs
<1>2. PICK e \in Deliveries : e = Delivery(w)
  BY <1>1, TidyFacts, RunFields DEF HoldPcs
<1>3. PICK outcome \in Outcomes :
        /\ run' = [run EXCEPT ![w].pc = "mark", ![w].outcome = outcome]
        /\ accepted' = [accepted EXCEPT ![e] = IF outcome = "failed" THEN @ ELSE @ + 1]
        /\ doubt' = [doubt EXCEPT ![e] = IF outcome = "lost" THEN @ \cup {"lost"} ELSE @]
  BY <1>2 DEF Send
<1>4. /\ mailed' = [mailed EXCEPT ![e] = @ \cup {run[w].text}]
      /\ stray' = [stray EXCEPT ![e] = IF pref[e[2]] = e[1] THEN 0 ELSE @ + 1]
      /\ UNCHANGED <<lock, row, faults, world, pref>>
  BY <1>2 DEF Send, world
<1> DEFINE n == [run[w] EXCEPT !.pc = "mark", !.outcome = outcome]
<1>5. /\ n \in Runs /\ SameRun(n, run[w]) /\ n.pc = "mark" /\ n.outcome = outcome
      /\ n.at = run[w].at /\ n.text = run[w].text
  BY <1>1 DEF Runs, LoopPcs, HoldPcs, SameRun
<1>6. run' = [run EXCEPT ![w] = n]
  BY <1>3, TidyFacts
<1> HIDE DEF n
<1>7. /\ run' \in [Runners -> Runs] /\ run'[w] = n
      /\ \A v \in Runners : v # w => run'[v] = run[v]
  BY <1>5, <1>6, TidyFacts, RunWritten
<1>8. Sensible(n)
  BY <1>1, <1>5 DEF Sensible, SameRun, HoldPcs, LoopPcs
<1>9. /\ mailed' \in [Deliveries -> SUBSET Texts] /\ mailed'[e] = mailed[e] \cup {run[w].text}
      /\ \A d \in Deliveries : d # e => mailed'[d] = mailed[d]
  BY <1>1, <1>4, TidyFacts
<1>10. /\ accepted' \in [Deliveries -> Nat] /\ accepted[e] \in Nat
       /\ accepted'[e] = IF outcome = "failed" THEN accepted[e] ELSE accepted[e] + 1
       /\ \A d \in Deliveries : d # e => accepted'[d] = accepted[d]
  BY <1>3, TidyFacts
<1>11. /\ doubt' \in [Deliveries -> SUBSET {"lost", "unrecorded", "late"}]
       /\ doubt'[e] = IF outcome = "lost" THEN doubt[e] \cup {"lost"} ELSE doubt[e]
       /\ \A d \in Deliveries : d # e => doubt'[d] = doubt[d]
  BY <1>3, TidyFacts
<1>12. /\ stray' \in [Deliveries -> Nat] /\ stray[e] \in Nat
       /\ stray'[e] = IF pref[e[2]] = e[1] THEN 0 ELSE stray[e] + 1
       /\ \A d \in Deliveries : d # e => stray'[d] = stray[d]
  BY <1>4, TidyFacts
<1>13. Tidy'
  BY <1>4, <1>7, <1>8, <1>9, <1>10, <1>11, <1>12, TidyFacts, TidyRun
<1>14. \A v \in Runners : /\ Holder(v, e)' <=> Holder(v, e)
                          /\ run'[v].text = run[v].text
                          /\ v # w => run'[v] = run[v]
  BY <1>1, <1>5, <1>7 DEF Holder, HoldPcs, SameRun
<1>15. Holder(w, e) /\ run[w].pc # "mark" /\ DeliverySound(e)
  BY <1>1, <1>2 DEF Holder, Delivery, Cadence, HoldPcs, AllSound
<1>16. run'[w].pc = "mark" /\ run'[w].outcome = outcome
  BY <1>5, <1>7
<1>17. /\ doubt[e] \subseteq doubt'[e] /\ ("late" \in doubt'[e] <=> "late" \in doubt[e])
       /\ outcome = "lost" => "lost" \in doubt'[e] /\ doubt'[e] # {}
  BY <1>11
<1>18. Unopened(e)' /\ OnePayload(e)'
  BY <1>4, <1>9, <1>14, <1>15 DEF DeliverySound, Unopened, OnePayload
<1>19. Exclusive(e)'
  BY <1>4, <1>14, <1>15, <1>17 DEF DeliverySound, Exclusive
<1>20. OneMail(e)'
  <2> SUFFICES ASSUME doubt'[e] = {} PROVE OneMail(e)'
    BY DEF OneMail
  <2>1. doubt[e] = {} /\ outcome # "lost" /\ accepted[e] = 0
    BY <1>15, <1>17 DEF DeliverySound, OneMail
  <2>2. \A v \in Runners : Holder(v, e)' => v = w
    BY <1>14, <1>15, <2>1 DEF DeliverySound, Exclusive
  <2>3. accepted'[e] <= 1 /\ (outcome = "failed" => accepted'[e] = 0)
        /\ (accepted'[e] # 0 => outcome = "ok")
    BY <1>10, <2>1 DEF Outcomes
  <2>4. Holder(w, e)'
    BY <1>14, <1>15
  <2> QED BY <1>16, <2>2, <2>3, <2>4 DEF OneMail
<1>21. Accepted(e)'
  <2>1. outcome # "failed" => accepted'[e] > 0
    BY <1>10
  <2>2. accepted[e] > 0 => accepted'[e] > 0
    BY <1>10
  <2> QED BY <1>4, <1>14, <1>15, <1>16, <1>17, <2>1, <2>2 DEF DeliverySound, Accepted
<1>22. OptOut(e)'
  <2>1. Senders(e)' = Senders(e) \ {w} /\ w \in Senders(e)
    <3>1. \A v : v \in Senders(e)' <=> v \in Senders(e) \ {w}
      BY <1>14, <1>16, HoldersAndSenders, SendersNext
    <3>2. w \in Senders(e)
      BY <1>1, <1>15, HoldersAndSenders
    <3> QED BY <3>1, <3>2
  <2>2. /\ Cardinality(Senders(e)) \in Nat /\ Cardinality(Runners) \in Nat
        /\ Cardinality(Senders(e)') = Cardinality(Senders(e)) - 1
    BY <2>1, HoldersAndSenders, RunnersAreCounted
  <2>3. stray[e] + Cardinality(Senders(e)) <= Cardinality(Runners)
    BY <1>15 DEF DeliverySound, OptOut
  <2>4. stray'[e] + Cardinality(Senders(e)') <= Cardinality(Runners)
    BY <1>12, <2>2, <2>3
  <2>5. ASSUME "late" \notin doubt'[e]
        PROVE  stray'[e] = 0 \/ (stray'[e] = 1 /\ Senders(e)' = {})
    <3>1. "late" \notin doubt[e] /\ \A v \in Senders(e) : v = w
      BY <1>15, <1>17, <2>5, HoldersAndSenders DEF DeliverySound, Exclusive
    <3>2. Senders(e)' = {}
      BY <2>1, <3>1
    <3>3. stray[e] = 0
      BY <1>15, <2>1, <3>1 DEF DeliverySound, OptOut
    <3> QED BY <1>12, <3>2, <3>3
  <2>6. pref'[e[2]] = e[1] => stray'[e] = 0
    BY <1>4, <1>12
  <2> QED BY <2>4, <2>5, <2>6 DEF OptOut
<1>23. DeliverySound(e)'
  BY <1>18, <1>19, <1>20, <1>21, <1>22 DEF DeliverySound
<1>24. OnlyAt(e, w)
  <2>1. \A d : d # e => ~Holder(w, d) /\ ~Holder(w, d)'
    BY <1>2, <1>5, <1>7, Its DEF SameRun
  <2> QED BY <1>4, <1>7, <1>9, <1>10, <1>11, <1>12, <2>1 DEF OnlyAt
<1> QED
  BY <1>4, <1>13, <1>23, <1>24, OnlyAtKeeps, SameRows DEF AllSound

LEMMA MarkSound ==
    ASSUME Tidy, AllSound, NEW w \in Runners, Mark(w)
    PROVE  Tidy' /\ AllSound' /\ Steady
<1>1. run[w] \in Runs /\ Sensible(run[w]) /\ run[w].pc = "mark" /\ run[w].due # <<>>
      /\ run[w].outcome \in Outcomes
  BY TidyFacts DEF Mark, Sensible, Runs
<1>2. PICK e \in Deliveries : e = Delivery(w)
  BY <1>1, TidyFacts, RunFields DEF HoldPcs
<1>3. /\ UNCHANGED <<lock, faults, world, history>>
      /\ UNCHANGED <<pref, mailed, accepted, doubt, stray>>
  BY DEF Mark, world, history
<1>4. PICK status \in {"sent", "failed"}, claimed \in BOOLEAN :
        /\ claimed = (row[e].status = "sending")
        /\ status = "sent" <=> run[w].outcome = "ok"
        /\ row' = IF claimed THEN [row EXCEPT ![e] = Record(e, status)] ELSE row
        /\ Continue(w, status = "failed" \/ ~claimed)
  <2> DEFINE claimed == row[e].status = "sending"
             status == IF run[w].outcome = "ok" THEN "sent" ELSE "failed"
  <2>1. /\ row' = IF claimed THEN [row EXCEPT ![e] = Record(e, status)] ELSE row
        /\ Continue(w, status = "failed" \/ ~claimed)
    BY <1>2 DEF Mark
  <2>2. status \in {"sent", "failed"} /\ claimed \in BOOLEAN
    OBVIOUS
  <2>3. status = "sent" <=> run[w].outcome = "ok"
    OBVIOUS
  <2>4. claimed = (row[e].status = "sending")
    OBVIOUS
  <2> HIDE DEF claimed, status
  <2> QED BY <2>1, <2>2, <2>3, <2>4
<1>5. /\ row' \in [Deliveries -> Rows] /\ \A d \in Deliveries : RowsSensible(row'[d])
      /\ \A d \in Deliveries : d # e => row'[d] = row[d]
      /\ \/ row'[e] = row[e]
         \/ row[e].status \in Open /\ row'[e].status = status
            /\ (status = "failed" => row'[e].text = row[e].text)
      /\ row[e].status \in Closed => row'[e] = row[e]
  BY <1>4, RecordWritten
<1>6. row[e].status = "sending" => row'[e].status = status
  <2>1. ASSUME row[e].status = "sending" PROVE row'[e] = Record(e, status)
    <3>1. row' = [row EXCEPT ![e] = Record(e, status)]
      BY <1>4, <2>1
    <3> QED BY <3>1, TidyFacts
  <2>2. row[e].status = "sending" => row[e].status \in Open
    BY DEF Open
  <2>3. row[e].status = "sending" => Record(e, status).status = status
    BY <2>2, Records
  <2> QED BY <2>1, <2>3
<1>7. PICK error \in BOOLEAN : Continue(w, error)
  <2>1. (status = "failed" \/ ~claimed) \in BOOLEAN
    OBVIOUS
  <2> QED BY <1>4, <2>1
<1>8. /\ run' \in [Runners -> Runs] /\ SameRun(run'[w], run[w]) /\ run'[w].pc = "loop"
      /\ \A v \in Runners : v # w => run'[v] = run[v]
  BY <1>7, TidyFacts, Continues
<1>9. Sensible(run'[w])
  BY <1>1, <1>8 DEF Sensible, SameRun, LoopPcs, HoldPcs
<1>10. Tidy'
  BY <1>3, <1>5, <1>8, <1>9, TidyFacts, TidyRun DEF history
<1>11. Holder(w, e) /\ run'[w].pc \notin HoldPcs /\ DeliverySound(e)
  BY <1>1, <1>2, <1>8 DEF Holder, Delivery, Cadence, HoldPcs, AllSound
<1>12. accepted[e] \in Nat /\ stray[e] \in Nat
  BY TidyFacts
<1>13. status = "sent" => accepted[e] > 0
  BY <1>1, <1>4, <1>11 DEF DeliverySound, Accepted
<1>14. doubt[e] = {} /\ accepted[e] # 0 => row'[e].status \in Closed
  <2> SUFFICES ASSUME doubt[e] = {}, accepted[e] # 0 PROVE row'[e].status \in Closed
    OBVIOUS
  <2>1. run[w].outcome # "lost"
    BY <1>1, <1>11 DEF DeliverySound, Accepted
  <2>2. run[w].outcome # "failed"
    BY <1>11 DEF DeliverySound, OneMail
  <2>3. status = "sent"
    BY <1>1, <1>4, <2>1, <2>2 DEF Outcomes
  <2>4. row[e].status = "canceled" \/ row[e].status = "sending"
    BY <1>11 DEF DeliverySound, Exclusive
  <2> QED BY <1>5, <1>6, <2>3, <2>4 DEF Closed
<1>15. DeliverySound(e)'
  <2>1. \/ row'[e] = row[e]
        \/ row[e].status \in Open /\ row'[e].status \in Closed
        \/ row[e].status \in Open /\ row'[e].status = "failed" /\ row'[e].text = row[e].text
    BY <1>5 DEF Closed
  <2>2. row'[e].status = "sent" => row[e].status = "sent" \/ accepted[e] > 0
    BY <1>5, <1>13
  <2>3. doubt'[e] = {} /\ accepted[e] # 0 => row'[e].status \in Closed
    BY <1>3, <1>14
  <2> QED BY <1>3, <1>8, <1>11, <1>12, <2>1, <2>2, <2>3, HolderLeaves
<1>16. OnlyAt(e, w)
  <2>1. \A d : d # e => ~Holder(w, d) /\ ~Holder(w, d)'
    BY <1>2, <1>11, Its
  <2> QED BY <1>3, <1>5, <1>8, <2>1 DEF OnlyAt
<1>17. AllSound'
  BY <1>15, <1>16, OnlyAtKeeps DEF AllSound
<1>18. Steady
  BY <1>5, <1>13 DEF Steady, Closed
<1> QED
  BY <1>10, <1>17, <1>18

\* What a replica that stops or goes on leaves unrecorded.
LEMMA Unrecordeds ==
    ASSUME Tidy, NEW w \in Runners, Unrecorded(w)
    PROVE  /\ doubt' \in [Deliveries -> SUBSET {"lost", "unrecorded", "late"}]
           /\ \A d \in Deliveries : doubt[d] \subseteq doubt'[d]
           /\ \A d \in Deliveries : d # Delivery(w) => doubt'[d] = doubt[d]
           /\ run[w].pc = "mark" /\ run[w].outcome = "ok" =>
                \A d \in Deliveries : d = Delivery(w) => doubt'[d] # {}
           /\ run[w].pc # "mark" => doubt' = doubt
<1>1. doubt \in [Deliveries -> SUBSET {"lost", "unrecorded", "late"}]
  BY TidyFacts
<1>2. CASE run[w].pc = "mark" /\ run[w].outcome = "ok"
  <2>1. PICK e \in Deliveries : e = Delivery(w)
    BY <1>2, TidyFacts, RunFields DEF HoldPcs
  <2>2. doubt' = [doubt EXCEPT ![e] = @ \cup {"unrecorded"}]
    BY <1>2, <2>1 DEF Unrecorded
  <2> QED BY <1>1, <1>2, <2>1, <2>2
<1>3. CASE ~(run[w].pc = "mark" /\ run[w].outcome = "ok")
  <2>1. doubt' = doubt
    BY <1>3 DEF Unrecorded
  <2> QED BY <1>1, <1>3, <2>1
<1> QED
  BY <1>2, <1>3

\* A replica drops its claim without a word to the ledger.
LEMMA Drops ==
    ASSUME Tidy, AllSound, NEW w \in Runners, run[w].pc \in HoldPcs, run'[w].pc \notin HoldPcs,
           \A v \in Runners : v # w => run'[v] = run[v], Unrecorded(w),
           UNCHANGED <<pref, row, mailed, accepted, stray>>
    PROVE  AllSound'
<1>1. PICK e \in Deliveries : e = Delivery(w)
  BY TidyFacts, RunFields
<1>2. Holder(w, e) /\ DeliverySound(e) /\ accepted[e] \in Nat /\ stray[e] \in Nat
  BY <1>1, TidyFacts DEF Holder, Delivery, Cadence, AllSound
<1>3. /\ doubt[e] \subseteq doubt'[e]
      /\ run[w].pc = "mark" /\ run[w].outcome = "ok" => doubt'[e] # {}
      /\ \A d \in Deliveries : d # e => doubt'[d] = doubt[d]
  BY <1>1, Unrecordeds
<1>4. doubt'[e] = {} /\ accepted[e] # 0 => row'[e].status \in Closed
  BY <1>2, <1>3 DEF DeliverySound, OneMail, Exclusive
<1>5. DeliverySound(e)'
  <2>1. row'[e] = row[e]
    OBVIOUS
  <2>2. row'[e].status = "sent" => row[e].status = "sent" \/ accepted[e] > 0
    OBVIOUS
  <2> QED BY <1>2, <1>3, <1>4, <2>1, <2>2, HolderLeaves
<1>6. OnlyAt(e, w)
  <2>1. \A d : d # e => ~Holder(w, d) /\ ~Holder(w, d)'
    BY <1>1, Its
  <2> QED BY <1>3, <2>1 DEF OnlyAt
<1> QED
  BY <1>5, <1>6, OnlyAtKeeps DEF AllSound

\* The same of one that has no claim.
LEMMA DropsNone ==
    ASSUME Tidy, AllSound, NEW w \in Runners, run[w].pc \notin HoldPcs, run'[w].pc \notin HoldPcs,
           \A v \in Runners : v # w => run'[v] = run[v], Unrecorded(w),
           UNCHANGED <<pref, row, mailed, accepted, stray>>
    PROVE  AllSound'
<1>1. doubt' = doubt
  BY Unrecordeds DEF HoldPcs
<1> QED
  BY <1>1, NoneHeld DEF AllSound

LEMMA StatementFailsSound ==
    ASSUME Tidy, AllSound, NEW w \in Runners, StatementFails(w)
    PROVE  Tidy' /\ AllSound' /\ Steady
<1>1. run[w] \in Runs /\ Sensible(run[w]) /\ run[w].pc \in {"claim"} \cup HoldPcs
      /\ run[w].due # <<>>
  BY TidyFacts DEF StatementFails, Sensible, HoldPcs
<1>2. /\ UNCHANGED <<lock, row, world, pref, mailed, accepted, stray>> /\ faults' \in Nat
      /\ Continue(w, TRUE) /\ Unrecorded(w)
  <2>1. UNCHANGED <<lock, row, world, pref, mailed, accepted, stray>> /\ faults' \in Nat
    BY TidyFacts DEF StatementFails, world
  <2>2. Continue(w, TRUE) /\ Unrecorded(w)
    BY DEF StatementFails
  <2> QED BY <2>1, <2>2
<1>3. /\ run' \in [Runners -> Runs] /\ SameRun(run'[w], run[w]) /\ run'[w].pc = "loop"
      /\ \A v \in Runners : v # w => run'[v] = run[v]
  BY <1>2, TidyFacts, Continues
<1>4. Sensible(run'[w]) /\ run'[w].pc \notin HoldPcs
  BY <1>1, <1>3 DEF Sensible, SameRun, LoopPcs, HoldPcs
<1>5. Tidy'
  BY <1>2, <1>3, <1>4, TidyFacts, Unrecordeds, TidyRun
<1>6. AllSound'
  BY <1>2, <1>3, <1>4, Drops, DropsNone
<1> QED
  BY <1>2, <1>5, <1>6, SameRows

LEMMA CrashSound ==
    ASSUME Tidy, AllSound, NEW w \in Runners, Crash(w)
    PROVE  Tidy' /\ AllSound' /\ Steady
<1>1. UNCHANGED <<row, world, pref, mailed, accepted, stray>> /\ Unrecorded(w)
      /\ run' = [run EXCEPT ![w] = Start(<<>>)] /\ lock' = Unlock(w) /\ faults' \in Nat
  BY TidyFacts DEF Crash, world
<1>2. /\ run' \in [Runners -> Runs] /\ run'[w].pc = "waiting" /\ Sensible(run'[w])
      /\ \A v \in Runners : v # w => run'[v] = run[v]
  BY <1>1, TidyFacts, Stops
<1>3. Tidy'
  BY <1>1, <1>2, TidyFacts, Unlocks, Unrecordeds, TidyRun
<1>4. run'[w].pc \notin HoldPcs
  BY <1>2 DEF HoldPcs
<1>5. AllSound'
  BY <1>1, <1>2, <1>4, Drops, DropsNone
<1> QED
  BY <1>1, <1>3, <1>5, SameRows

\* A row changes under whoever holds its claim.
LEMMA RowTurns ==
    ASSUME NEW d \in Deliveries, DeliverySound(d), run' = run \/
             (\A v \in Runners : Holder(v, d) \/ Holder(v, d)' => run'[v] = run[v]),
           UNCHANGED <<pref, mailed, accepted, stray>>, doubt[d] \subseteq doubt'[d],
           row[d].status \in Open,
           \/ row'[d].status = "canceled" /\ doubt'[d] = doubt[d]
           \/ /\ row'[d].status = "sending" /\ row'[d].text = row[d].text
              /\ "late" \in doubt'[d] \/ \A v \in Runners : ~Holder(v, d)
    PROVE  DeliverySound(d)'
<1>1. \A v \in Runners : /\ Holder(v, d)' <=> Holder(v, d)
                         /\ Holder(v, d) => run'[v] = run[v]
  BY DEF Holder
<1>2. Senders(d)' = Senders(d)
  <2>1. \A v : v \in Senders(d)' <=> v \in Senders(d)
    BY <1>1, HoldersAndSenders, SendersNext
  <2> QED BY <2>1
<1>3. Unopened(d)' /\ OnePayload(d)'
  BY <1>1, Limits DEF DeliverySound, Unopened, OnePayload, Open
<1>4. Exclusive(d)'
  BY <1>1 DEF DeliverySound, Exclusive
<1>5. OneMail(d)'
  BY <1>1, Limits DEF DeliverySound, OneMail, Closed
<1>6. Accepted(d)'
  BY <1>1 DEF DeliverySound, Accepted
<1>7. OptOut(d)'
  BY <1>2 DEF DeliverySound, OptOut
<1> QED
  BY <1>3, <1>4, <1>5, <1>6, <1>7 DEF DeliverySound

LEMMA ElectSound ==
    ASSUME Tidy, AllSound, NEW w \in Runners, Elect(w)
    PROVE  Tidy' /\ AllSound' /\ Steady
<1>1. run[w] \in Runs /\ Sensible(run[w]) /\ run[w].pc = "waiting" /\ run[w].due # <<>>
  BY TidyFacts DEF Elect
<1>2. /\ UNCHANGED <<faults, world, history>>
      /\ UNCHANGED <<pref, mailed, accepted, doubt, stray>>
  BY DEF Elect, world, history
<1>3. Move(w, "elected")
  BY DEF Elect
<1>4. /\ run' \in [Runners -> Runs] /\ SameRun(run'[w], run[w]) /\ run'[w].pc = "elected"
      /\ \A v \in Runners : v # w => run'[v] = run[v]
  BY <1>3, TidyFacts, Moves
<1>5. Sensible(run'[w])
  BY <1>1, <1>4 DEF Sensible, SameRun, LoopPcs, HoldPcs
<1>6. lock' \in [Cadences -> Runners \cup {Free}]
  BY TidyFacts DEF Elect
<1>7. row' = [d \in Deliveries |->
                IF row[d].status \in Open /\ ~Eligible(d, row[d].text)
                THEN Record(d, "canceled") ELSE row[d]]
  BY DEF Elect
<1>8. ASSUME NEW d \in Deliveries
      PROVE  /\ row'[d] \in Rows /\ RowsSensible(row'[d])
             /\ \/ row'[d] = row[d]
                \/ row[d].status \in Open /\ row'[d].status = "canceled"
  <2>1. CASE row[d].status \in Open /\ ~Eligible(d, row[d].text)
    <3>1. row'[d] = Record(d, "canceled")
      BY <1>7, <2>1
    <3> QED BY <2>1, <3>1, Records
  <2>2. CASE ~(row[d].status \in Open /\ ~Eligible(d, row[d].text))
    <3>1. row'[d] = row[d]
      BY <1>7, <2>2
    <3> QED BY <3>1, TidyFacts
  <2> QED BY <2>1, <2>2
<1>9. row' \in [Deliveries -> Rows]
  BY <1>7, <1>8
<1>10. Tidy'
  BY <1>2, <1>4, <1>5, <1>6, <1>8, <1>9, TidyFacts, TidyRun DEF history
<1>11. \A v \in Runners : \A d : Holder(v, d) \/ Holder(v, d)' => run'[v] = run[v]
  BY <1>1, <1>4 DEF Holder, HoldPcs
<1>12. ASSUME NEW d \in Deliveries PROVE DeliverySound(d)'
  <2>1. DeliverySound(d)
    BY DEF AllSound
  <2>2. CASE row'[d] = row[d]
    <3>1. Alone(d)
      BY <1>2, <1>11, <2>2 DEF Alone
    <3> QED BY <2>1, <3>1, AloneKeeps
  <2>3. CASE row[d].status \in Open /\ row'[d].status = "canceled"
    BY <1>2, <1>11, <2>1, <2>3, RowTurns
  <2> QED BY <1>8, <2>2, <2>3
<1>13. Steady
  BY <1>8, Limits DEF Steady
<1> QED
  BY <1>10, <1>12, <1>13 DEF AllSound

\* Steps of no replica.
LEMMA TidyElsewhere ==
    ASSUME Tidy, UNCHANGED <<lock, run, mailed, accepted>>,
           pref' \in [Recipients -> Frequencies], hidden' \subseteq Texts,
           faults' \in Nat, changes' \in Nat, stray' \in [Deliveries -> Nat],
           doubt' \in [Deliveries -> SUBSET {"lost", "unrecorded", "late"}],
           row' \in [Deliveries -> Rows], \A d \in Deliveries : RowsSensible(row'[d])
    PROVE  Tidy'
<1>1. Typed'
  BY DEF Tidy, Typed
<1>2. \A v \in Runners : Sensible(run'[v])
  BY DEF Tidy
<1> QED
  BY <1>1, <1>2 DEF Tidy

LEMMA Expires ==
    ASSUME Tidy, NEW d \in Deliveries, Expire(d)
    PROVE  /\ row' \in [Deliveries -> Rows] /\ \A e \in Deliveries : RowsSensible(row'[e])
           /\ \A e \in Deliveries : e # d => row'[e] = row[e]
           /\ row[d].status = "sending" /\ row'[d].status = "sending"
           /\ row'[d].text = row[d].text /\ row'[d].attempts = row[d].attempts
           /\ Steady
<1>1. row[d] \in Rows /\ RowsSensible(row[d]) /\ row[d].status = "sending"
  BY TidyFacts DEF Expire
<1> DEFINE n == [row[d] EXCEPT !.expired = TRUE]
<1>2. /\ n \in Rows /\ n.status = "sending" /\ n.text = row[d].text
      /\ n.attempts = row[d].attempts
  BY <1>1 DEF Rows
<1>3. row' = [row EXCEPT ![d] = n]
  BY TidyFacts DEF Expire
<1> HIDE DEF n
<1>4. /\ row' \in [Deliveries -> Rows] /\ row'[d] = n
      /\ \A e \in Deliveries : e # d => row'[e] = row[e]
  BY <1>2, <1>3, TidyFacts, RowWritten
<1>5. RowsSensible(n)
  BY <1>1, <1>2 DEF RowsSensible
<1> QED
  BY <1>1, <1>2, <1>4, <1>5, TidyFacts DEF Steady, Closed

LEMMA ExpirySound ==
    ASSUME Tidy, AllSound, NEW d \in Deliveries, ClaimExpires(d) \/ ClaimOverrun(d)
    PROVE  Tidy' /\ AllSound' /\ Steady
<1>1. Expire(d) /\ UNCHANGED <<lock, run, world, pref, mailed, accepted, stray>> /\ faults' \in Nat
  BY TidyFacts DEF ClaimExpires, ClaimOverrun, world, history
<1>2. /\ doubt' \in [Deliveries -> SUBSET {"lost", "unrecorded", "late"}]
      /\ doubt[d] \subseteq doubt'[d] /\ \A e \in Deliveries : e # d => doubt'[e] = doubt[e]
      /\ "late" \in doubt'[d] \/ \A v \in Runners : ~Holder(v, d)
  <2>1. CASE ClaimExpires(d)
    BY <2>1, TidyFacts DEF ClaimExpires, history, Busy, Holding, Holder, HoldPcs, Delivery, Cadence
  <2>2. CASE ClaimOverrun(d)
    BY <2>2, TidyFacts DEF ClaimOverrun
  <2> QED BY <2>1, <2>2
<1>3. Tidy'
  BY <1>1, <1>2, TidyFacts, Expires, TidyElsewhere DEF world
<1>4. ASSUME NEW e \in Deliveries PROVE DeliverySound(e)'
  <2>1. DeliverySound(e)
    BY DEF AllSound
  <2>2. CASE e # d
    <3>1. Alone(e)
      BY <1>1, <1>2, <2>2, Expires DEF Alone
    <3> QED BY <2>1, <3>1, AloneKeeps
  <2>3. CASE e = d
    <3>1. DeliverySound(d) /\ row[d].status \in Open
      BY <1>1, <2>1, <2>3, Expires DEF Open
    <3> QED BY <1>1, <1>2, <2>3, <3>1, Expires, RowTurns
  <2> QED BY <2>2, <2>3
<1> QED
  BY <1>1, <1>3, <1>4, Expires DEF AllSound

LEMMA ChangePreferenceSound ==
    ASSUME Tidy, AllSound, NEW r \in Recipients, NEW frequency \in Frequencies,
           ChangePreference(r, frequency)
    PROVE  Tidy' /\ AllSound' /\ Steady
<1>1. /\ pref' = [pref EXCEPT ![r] = frequency] /\ changes' \in Nat
      /\ stray' = [d \in Deliveries |-> IF d = <<frequency, r>> THEN 0 ELSE stray[d]]
      /\ UNCHANGED <<hidden, lock, row, run, faults, mailed, accepted, doubt>>
  BY TidyFacts DEF ChangePreference
<1>2. /\ pref' \in [Recipients -> Frequencies] /\ pref'[r] = frequency
      /\ \A q \in Recipients : q # r => pref'[q] = pref[q]
  BY <1>1, TidyFacts
<1>3. stray' \in [Deliveries -> Nat]
  BY <1>1, TidyFacts
<1>4. Tidy'
  BY <1>1, <1>2, <1>3, TidyFacts, TidyElsewhere
<1>5. ASSUME NEW d \in Deliveries PROVE DeliverySound(d)'
  <2>1. DeliverySound(d) /\ d[2] \in Recipients /\ d = <<d[1], d[2]>>
    BY Pairs DEF AllSound
  <2>2. Unopened(d)' /\ OnePayload(d)' /\ Exclusive(d)' /\ OneMail(d)' /\ Accepted(d)'
    BY <1>1, <2>1 DEF DeliverySound, Unopened, OnePayload, Exclusive, OneMail, Accepted, Holder
  <2>3. stray'[d] = IF d = <<frequency, r>> THEN 0 ELSE stray[d]
    BY <1>1
  <2>4. pref'[d[2]] = d[1] => stray'[d] = 0
    <3>1. CASE d[2] = r
      BY <1>2, <2>1, <2>3, <3>1
    <3>2. CASE d[2] # r
      BY <1>2, <2>1, <2>3, <3>2 DEF DeliverySound, OptOut
    <3> QED BY <3>1, <3>2
  <2>5. Senders(d)' = Senders(d)
    BY <1>1 DEF Senders
  <2>6. /\ Cardinality(Senders(d)) \in Nat /\ Cardinality(Runners) \in Nat
        /\ Cardinality(Senders(d)) <= Cardinality(Runners)
    BY HoldersAndSenders, RunnersAreCounted
  <2>7. OptOut(d)'
    <3>1. stray'[d] = 0 \/ stray'[d] = stray[d]
      BY <2>3
    <3>2. stray'[d] + Cardinality(Senders(d)') <= Cardinality(Runners)
      <4>1. stray[d] + Cardinality(Senders(d)) <= Cardinality(Runners) /\ stray[d] \in Nat
        BY <2>1, TidyFacts DEF DeliverySound, OptOut
      <4>2. stray'[d] + Cardinality(Senders(d)) <= Cardinality(Runners)
        BY <2>6, <3>1, <4>1
      <4> QED BY <2>5, <4>2
    <3>3. "late" \notin doubt'[d] => stray'[d] = 0 \/ (stray'[d] = 1 /\ Senders(d)' = {})
      BY <1>1, <2>1, <2>5, <3>1 DEF DeliverySound, OptOut
    <3> QED BY <2>4, <3>2, <3>3 DEF OptOut
  <2> QED BY <2>2, <2>7 DEF DeliverySound
<1> QED
  BY <1>1, <1>4, <1>5, SameRows DEF AllSound

LEMMA ModerateSound ==
    ASSUME Tidy, AllSound, NEW texts \in SUBSET Texts, Moderate(texts)
    PROVE  Tidy' /\ AllSound' /\ Steady
<1>1. hidden' \subseteq Texts /\ changes' \in Nat
      /\ UNCHANGED <<pref, lock, row, run, faults, mailed, accepted, doubt, stray>>
  BY TidyFacts DEF Moderate, history
<1>2. Tidy'
  BY <1>1, TidyFacts, TidyElsewhere
<1>3. ASSUME NEW d \in Deliveries PROVE DeliverySound(d)'
  <2>1. Alone(d)
    BY <1>1 DEF Alone
  <2> QED BY <2>1, AloneKeeps DEF AllSound
<1> QED
  BY <1>1, <1>2, <1>3, SameRows DEF AllSound

\* A step of a replica, by the action it is.
Steps(w) ==
    \/ Elect(w) \/ NotElected(w) \/ Prepare(w) \/ NoPosts(w) \/ EndRun(w)
    \/ \E r \in Recipients : Insert(w, r) \/ InsertFails(w, r)
    \/ Claim(w) \/ Recheck(w) \/ CancelClaim(w) \/ Send(w) \/ Mark(w)
    \/ StatementFails(w) \/ RunFails(w) \/ LoseLock(w) \/ Crash(w)

LEMMA StepSound ==
    ASSUME Tidy, AllSound, [Next]_vars
    PROVE  Tidy' /\ AllSound' /\ Steady
<1>1. ASSUME NEW w \in Runners, Steps(w) PROVE Tidy' /\ AllSound' /\ Steady
  BY <1>1, ElectSound, NotElectedSound, PrepareSound, NoPostsSound, EndRunSound, InsertSound,
     InsertFailsSound, ClaimSound, RecheckSound, CancelClaimSound, SendSound, MarkSound,
     StatementFailsSound, RunFailsSound, LoseLockSound, CrashSound DEF Steps
<1>2. ASSUME NEW d \in Deliveries, ClaimExpires(d) \/ ClaimOverrun(d)
      PROVE  Tidy' /\ AllSound' /\ Steady
  BY <1>2, ExpirySound
<1>3. CASE UNCHANGED vars
  <2>1. UNCHANGED <<pref, hidden, lock, row, run, faults, changes, mailed, accepted, doubt, stray>>
    BY <1>3 DEF vars
  <2>2. Tidy'
    BY <2>1, TidyFacts, TidyElsewhere
  <2>3. ASSUME NEW d \in Deliveries PROVE DeliverySound(d)'
    <3>1. Alone(d)
      BY <2>1 DEF Alone
    <3> QED BY <3>1, AloneKeeps DEF AllSound
  <2> QED BY <2>1, <2>2, <2>3, SameRows DEF AllSound
<1> QED
  BY <1>1, <1>2, <1>3, ChangePreferenceSound, ModerateSound DEF Next, Steps

LEMMA InitSound == Init => Tidy /\ AllSound
<1> SUFFICES ASSUME Init PROVE Tidy /\ AllSound
  OBVIOUS
<1>1. /\ \A w \in Runners : run[w] = Start(Due) /\ run[w] \in Runs /\ Sensible(run[w])
      /\ \A w \in Runners : run[w].pc = "waiting"
  BY DueIsOfCadences, Starts DEF Init
<1>2. \A d \in Deliveries : /\ row[d] = Absent /\ row[d] \in Rows /\ RowsSensible(row[d])
                            /\ row[d].status = "none"
  BY Limits DEF Init, RowsSensible
<1>3. Typed
  BY <1>1, <1>2 DEF Init, Typed
<1>4. ASSUME NEW d \in Deliveries PROVE DeliverySound(d)
  <2>1. mailed[d] = {} /\ accepted[d] = 0 /\ doubt[d] = {} /\ stray[d] = 0
    BY DEF Init
  <2>2. \A w \in Runners : ~Holder(w, d)
    BY <1>1 DEF Holder, HoldPcs
  <2>3. Unopened(d) /\ OnePayload(d) /\ Exclusive(d) /\ OneMail(d) /\ Accepted(d)
    BY <1>2, <2>1, <2>2, Limits DEF Unopened, OnePayload, Exclusive, OneMail, Accepted
  <2>4. /\ Cardinality(Senders(d)) \in Nat /\ Cardinality(Runners) \in Nat
        /\ Cardinality(Senders(d)) <= Cardinality(Runners)
    BY HoldersAndSenders, RunnersAreCounted
  <2>5. stray[d] + Cardinality(Senders(d)) <= Cardinality(Runners)
    BY <2>1, <2>4
  <2> QED BY <2>1, <2>3, <2>5 DEF DeliverySound, OptOut
<1> QED
  BY <1>1, <1>2, <1>3, <1>4 DEF Tidy, AllSound

-----------------------------------------------------------------------------
(* The steps of a tick in which nothing fails and nothing changes.         *)

\* Rows are neither removed nor taken back.
Grown ==
    \A d \in Deliveries :
        /\ row[d].status = "sent" => row'[d].status = "sent"
        /\ row[d].status # "none" => row'[d].status # "none"
        /\ row'[d].attempts >= row[d].attempts

LEMMA TheSameHasGrown ==
    ASSUME Tidy, row' = row
    PROVE  Grown
<1>1. \A d \in Deliveries : row[d].attempts \in Nat
  BY TidyFacts DEF Rows
<1> QED
  BY <1>1 DEF Grown

\* What holds of a run that does not move.
LEMMA Others ==
    ASSUME Tidy, Tidy', QuietTick, Grown, UNCHANGED pref, NEW v \in Runners, run'[v] = run[v],
           run[v].pc # "waiting" => lock'[Head(run[v].due)] = lock[Head(run[v].due)]
    PROVE  RunHolds(v)' /\ MailIsWanted(v)' /\ \A r \in Recipients : Tried(v, r)'
<1>1. run[v].due # <<>> => Head(run[v].due) \in Cadences
  BY TidyFacts, RunFields DEF Cadence
<1>2. run[v] \in Runs /\ Sensible(run[v]) /\ run[v].tries \in Nat
  BY TidyFacts DEF Runs
<1>3. RunHolds(v)' /\ MailIsWanted(v)'
  <2>1. RunHolds(v) /\ MailIsWanted(v)
    BY DEF QuietTick
  <2>2. RunHolds(v)'
    BY <2>1 DEF RunHolds
  <2>3. run[v].pc = "claim" => <<Head(run[v].due), run[v].at>> \in Deliveries
    BY <1>1, <1>2, Pairs DEF Sensible
  <2>4. MailIsWanted(v)'
    BY <2>1, <2>3 DEF MailIsWanted, Wants, Grown
  <2> QED BY <2>2, <2>4
<1>4. ASSUME NEW r \in Recipients PROVE Tried(v, r)'
  <2>1. CASE run[v].due = <<>>
    BY <2>1 DEF Tried
  <2>2. CASE run[v].due # <<>>
    <3>1. PICK d \in Deliveries : d = <<Head(run[v].due), r>>
      BY <1>1, <2>2, Pairs
    <3>2. row[d].attempts \in Nat /\ row'[d].attempts \in Nat
      BY TidyFacts DEF Tidy, Typed, Rows
    <3>3. /\ row[d].status = "sent" => row'[d].status = "sent"
          /\ row[d].attempts >= run[v].tries => row'[d].attempts >= run[v].tries
          /\ row[d].attempts > run[v].tries => row'[d].attempts > run[v].tries
      BY <1>2, <3>2 DEF Grown
    <3>4. Tried(v, r)
      BY DEF QuietTick
    <3> QED BY <3>1, <3>3, <3>4 DEF Tried, Sent, Wants
  <2> QED BY <2>1, <2>2
<1> QED
  BY <1>3, <1>4

LEMMA ServedStays ==
    ASSUME Tidy, Tidy', Grown, UNCHANGED pref, NEW c \in Cadences, Served(c)
    PROVE  Served(c)'
<1> SUFFICES ASSUME NEW r \in Recipients, Wants(r, c)'
             PROVE  Sent(c, r)' \/ row'[<<c, r>>].attempts >= MaxTries
  BY DEF Served
<1>1. PICK d \in Deliveries : d = <<c, r>>
  BY Pairs
<1>2. row[d].status = "sent" \/ row[d].attempts >= MaxTries
  BY <1>1 DEF Served, Wants, Sent
<1>3. row[d].attempts \in Nat /\ row'[d].attempts \in Nat /\ row'[d].attempts >= row[d].attempts
  BY TidyFacts DEF Tidy, Typed, Rows, Grown
<1>4. row'[d].status = "sent" \/ row'[d].attempts >= MaxTries
  BY <1>2, <1>3, Limits DEF Grown
<1> QED
  BY <1>1, <1>4 DEF Sent

\* A run that keeps its cadence keeps it covered.
LEMMA CoveredStays ==
    ASSUME Tidy, Tidy', QuietTick, Grown, UNCHANGED pref, \A v \in Runners : run'[v].due = run[v].due,
           NEW c \in Cadences
    PROVE  Covered(c)'
<1>1. Covered(c)
  BY DEF QuietTick
<1>2. CASE Served(c)
  BY <1>2, ServedStays DEF Covered
<1>3. CASE \E v \in Runners : Awaits(v, c)
  BY <1>3 DEF Covered, Awaits
<1> QED
  BY <1>1, <1>2, <1>3 DEF Covered

\* A step of a run that is under way and goes on.
LEMMA GoesOn ==
    ASSUME Tidy, Tidy', QuietTick, Grown, UNCHANGED <<pref, hidden, lock>>, NEW w \in Runners,
           \A v \in Runners : v # w => run'[v] = run[v],
           run[w].pc # "waiting", run'[w].pc \notin {"waiting", "cancel"},
           run'[w].due = run[w].due,
           MailIsWanted(w)', \A r \in Recipients : Tried(w, r)',
           \A d \in Deliveries : RowIsWanted(d)'
    PROVE  QuietTick'
<1>1. \A v \in Runners : v # w =>
        RunHolds(v)' /\ MailIsWanted(v)' /\ \A r \in Recipients : Tried(v, r)'
  BY Others
<1>2. RunHolds(w)'
  BY DEF QuietTick, RunHolds
<1>3. ASSUME NEW c \in Cadences PROVE LockIsHeld(c)'
  <2>1. lock[c] \in Runners \cup {Free} /\ Free \notin Runners
    BY TidyFacts, Limits
  <2>2. LockIsHeld(c)
    BY DEF QuietTick
  <2> QED BY <2>1, <2>2 DEF LockIsHeld
<1>4. \A v \in Runners : run'[v].due = run[v].due
  OBVIOUS
<1>5. \A c \in Cadences : Covered(c)'
  BY <1>4, CoveredStays
<1>6. hidden' = {}
  BY DEF QuietTick
<1> QED
  BY <1>1, <1>2, <1>3, <1>5, <1>6 DEF QuietTick

\* The rows of a step that makes no claim and ends none.
LEMMA RowsWanted ==
    ASSUME QuietTick, UNCHANGED <<pref, row>>,
           \A v \in Runners : \A d \in Deliveries : Holder(v, d) => Holder(v, d)',
           \A d \in Deliveries : "late" \in doubt'[d] => "late" \in doubt[d]
    PROVE  \A d \in Deliveries : RowIsWanted(d)'
<1> SUFFICES ASSUME NEW d \in Deliveries PROVE RowIsWanted(d)'
  OBVIOUS
<1>1. RowIsWanted(d)
  BY DEF QuietTick
<1> QED
  BY <1>1 DEF RowIsWanted, Wants

LEMMA PrepareQuiet ==
    ASSUME Tidy, Tidy', QuietTick, NEW w \in Runners, Prepare(w)
    PROVE  QuietTick'
<1>1. run[w] \in Runs /\ Sensible(run[w]) /\ run[w].pc = "elected" /\ run[w].due # <<>>
  BY TidyFacts DEF Prepare, Sensible
<1>2. PICK text \in Texts \ hidden :
        run' = [run EXCEPT ![w].pc = "loop", ![w].fresh = text, ![w].failed = FALSE,
                           ![w].todo = {r \in Recipients : pref[r] = Cadence(w)}]
  BY DEF Prepare
<1>3. /\ run'[w].pc = "loop" /\ run'[w].due = run[w].due /\ run'[w].tries = run[w].tries
      /\ run'[w].todo = {r \in Recipients : pref[r] = Cadence(w)}
      /\ \A v \in Runners : v # w => run'[v] = run[v]
  BY <1>1, <1>2, TidyFacts DEF Runs
<1>4. UNCHANGED <<pref, hidden, lock, row, doubt>> /\ Grown
  BY TheSameHasGrown DEF Prepare, world, history
<1>5. MailIsWanted(w)'
  BY <1>3, <1>4 DEF MailIsWanted, Wants, Cadence
<1>6. ASSUME NEW r \in Recipients PROVE Tried(w, r)'
  <2>1. Tried(w, r)
    BY DEF QuietTick
  <2>2. run'[w].due # <<>> /\ pref'[r] = Head(run'[w].due) => r \in run'[w].todo
    BY <1>3, <1>4 DEF Wants, Cadence
  <2> QED BY <1>1, <1>3, <1>4, <2>1, <2>2 DEF Tried, Wants, Sent
<1>7. \A d \in Deliveries : RowIsWanted(d)'
  <2>1. \A v \in Runners : \A d \in Deliveries : Holder(v, d) => Holder(v, d)'
    BY <1>1, <1>3 DEF Holder, HoldPcs
  <2> QED BY <1>4, <2>1, RowsWanted
<1> QED
  BY <1>1, <1>3, <1>4, <1>5, <1>6, <1>7, GoesOn

LEMMA ItsDelivery ==
    ASSUME Tidy, NEW w \in Runners, run[w].pc \in {"claim"} \cup HoldPcs
    PROVE  \E e \in Deliveries : /\ e = Delivery(w) /\ e = <<Head(run[w].due), run[w].at>>
                                 /\ e[1] = Head(run[w].due) /\ e[2] = run[w].at
<1>1. PICK c \in Cadences, r \in Recipients : c = Head(run[w].due) /\ r = run[w].at
  BY TidyFacts, RunFields DEF HoldPcs, Cadence, Sensible
<1>2. <<c, r>> \in Deliveries /\ <<c, r>>[1] = c /\ <<c, r>>[2] = r
  BY Pairs
<1>3. Delivery(w) = <<c, r>>
  BY <1>1 DEF Delivery, Cadence
<1> QED
  BY <1>1, <1>2, <1>3

LEMMA RecheckQuiet ==
    ASSUME Tidy, Tidy', QuietTick, NEW w \in Runners, Recheck(w)
    PROVE  QuietTick'
<1>1. run[w] \in Runs /\ Sensible(run[w]) /\ run[w].pc = "check" /\ run[w].due # <<>>
      /\ run[w].pc \in LoopPcs
  BY TidyFacts DEF Recheck, Sensible, HoldPcs, LoopPcs
<1>2. UNCHANGED <<pref, hidden, lock, row, doubt>> /\ Grown
  BY TheSameHasGrown DEF Recheck, world, history
<1>3. PICK e \in Deliveries : e = Delivery(w) /\ e[1] = Head(run[w].due) /\ e[2] = run[w].at
  BY <1>1, ItsDelivery DEF HoldPcs
<1>4. MailIsWanted(w) /\ hidden = {}
  BY DEF QuietTick
<1>5. Eligible(e, run[w].text)
  BY <1>1, <1>3, <1>4 DEF MailIsWanted, Wants, Eligible
<1>6. Move(w, "send")
  BY <1>3, <1>5 DEF Recheck
<1>7. /\ SameRun(run'[w], run[w]) /\ run'[w].pc = "send"
      /\ \A v \in Runners : v # w => run'[v] = run[v]
      /\ run'[w].at = run[w].at /\ run'[w].failed = run[w].failed
  BY <1>6, TidyFacts, Moves DEF LoopPcs, HoldPcs
<1>8. MailIsWanted(w)'
  BY <1>1, <1>2, <1>4, <1>7 DEF MailIsWanted, Wants, SameRun
<1>9. ASSUME NEW r \in Recipients PROVE Tried(w, r)'
  <2>1. Tried(w, r)
    BY DEF QuietTick
  <2> QED BY <1>1, <1>2, <1>7, <2>1 DEF Tried, Wants, Sent, SameRun, HoldPcs
<1>10. \A d \in Deliveries : RowIsWanted(d)'
  <2>1. \A v \in Runners : \A d \in Deliveries : Holder(v, d) => Holder(v, d)'
    BY <1>1, <1>7 DEF Holder, HoldPcs, SameRun
  <2> QED BY <1>2, <2>1, RowsWanted
<1> QED
  BY <1>1, <1>2, <1>7, <1>8, <1>9, <1>10, GoesOn DEF SameRun

LEMMA SendQuiet ==
    ASSUME Tidy, Tidy', QuietTick, NEW w \in Runners, Send(w)
    PROVE  QuietTick'
<1>1. run[w] \in Runs /\ Sensible(run[w]) /\ run[w].pc = "send" /\ run[w].due # <<>>
      /\ run[w].pc \in LoopPcs
  BY TidyFacts DEF Send, Sensible, HoldPcs, LoopPcs
<1>2. UNCHANGED <<pref, hidden, lock, row>> /\ Grown
  BY TheSameHasGrown DEF Send, world
<1>3. PICK outcome \in Outcomes :
        /\ run' = [run EXCEPT ![w].pc = "mark", ![w].outcome = outcome]
        /\ doubt' = [doubt EXCEPT ![Delivery(w)] = IF outcome = "lost" THEN @ \cup {"lost"} ELSE @]
  BY DEF Send
<1>4. /\ SameRun(run'[w], run[w]) /\ run'[w].pc = "mark"
      /\ \A v \in Runners : v # w => run'[v] = run[v]
      /\ run'[w].at = run[w].at /\ run'[w].failed = run[w].failed
  BY <1>1, <1>3, TidyFacts DEF Runs, SameRun
<1>5. \A d \in Deliveries : "late" \in doubt'[d] => "late" \in doubt[d]
  BY <1>3, TidyFacts
<1>6. MailIsWanted(w)'
  <2>1. MailIsWanted(w)
    BY DEF QuietTick
  <2> QED BY <1>1, <1>2, <1>4, <2>1 DEF MailIsWanted, Wants, SameRun
<1>7. ASSUME NEW r \in Recipients PROVE Tried(w, r)'
  <2>1. Tried(w, r)
    BY DEF QuietTick
  <2> QED BY <1>1, <1>2, <1>4, <2>1 DEF Tried, Wants, Sent, SameRun, HoldPcs
<1>8. \A d \in Deliveries : RowIsWanted(d)'
  <2>1. \A v \in Runners : \A d \in Deliveries : Holder(v, d) => Holder(v, d)'
    BY <1>1, <1>4 DEF Holder, HoldPcs, SameRun
  <2> QED BY <1>2, <1>5, <2>1, RowsWanted
<1> QED
  BY <1>1, <1>2, <1>4, <1>6, <1>7, <1>8, GoesOn DEF SameRun

LEMMA InsertQuiet ==
    ASSUME Tidy, Tidy', QuietTick, NEW w \in Runners, NEW r \in Recipients, Insert(w, r)
    PROVE  QuietTick'
<1>1. run[w] \in Runs /\ Sensible(run[w]) /\ run[w].pc = "loop" /\ run[w].due # <<>>
      /\ r \in run[w].todo
  BY TidyFacts DEF Insert, Sensible
<1>2. PICK c \in Cadences : c = Head(run[w].due)
  BY <1>1, TidyFacts, RunFields DEF Cadence
<1>3. PICK e \in Deliveries : e = <<c, r>> /\ e[1] = c /\ e[2] = r
  BY Pairs
<1>4. UNCHANGED <<pref, hidden, lock, doubt>>
  BY DEF Insert, world, history
<1>5. /\ run'[w].pc = "claim" /\ run'[w].due = run[w].due /\ run'[w].tries = run[w].tries
      /\ run'[w].todo = run[w].todo \ {r} /\ run'[w].at = r /\ run'[w].failed = run[w].failed
      /\ \A v \in Runners : v # w => run'[v] = run[v]
  BY <1>1, TidyFacts DEF Insert, Runs
<1>6. row' = IF row[e].status = "none"
             THEN [row EXCEPT ![e].status = "pending", ![e].text = run[w].fresh] ELSE row
  BY <1>2, <1>3 DEF Insert, Cadence
<1>7. /\ \A d \in Deliveries : d # e => row'[d] = row[d]
      /\ row'[e].attempts = row[e].attempts
      /\ row[e].status = "none" => row'[e].status = "pending"
      /\ row[e].status # "none" => row'[e] = row[e]
  BY <1>6, TidyFacts DEF Rows
<1>8. \A d \in Deliveries : /\ row'[d].attempts = row[d].attempts
                            /\ row'[d].status = "sent" <=> row[d].status = "sent"
                            /\ row'[d].status = "sending" => row[d].status = "sending"
                            /\ row'[d].status = "canceled" => row[d].status = "canceled"
                            /\ row[d].status # "none" => row'[d].status # "none"
                            /\ row'[d].status # "none" => row[d].status # "none" \/ d = e
  BY <1>7
<1>9. Grown
  <2>1. \A d \in Deliveries : row[d].attempts \in Nat
    BY TidyFacts DEF Rows
  <2> QED BY <1>8, <2>1 DEF Grown
<1>10. Wants(r, c)
  BY <1>1, <1>2 DEF QuietTick, MailIsWanted, LoopPcs
<1>11. MailIsWanted(w)'
  <2>1. MailIsWanted(w)
    BY DEF QuietTick
  <2>2. row'[e].status # "none"
    BY <1>7
  <2> QED BY <1>1, <1>2, <1>3, <1>4, <1>5, <1>10, <2>1, <2>2 DEF MailIsWanted, Wants, LoopPcs
<1>12. ASSUME NEW q \in Recipients PROVE Tried(w, q)'
  <2>1. PICK d \in Deliveries : d = <<c, q>>
    BY Pairs
  <2>2. Tried(w, q) /\ run[w].pc \in LoopPcs /\ run[w].pc # "claim" /\ run[w].pc \notin HoldPcs
    BY <1>1 DEF QuietTick, LoopPcs, HoldPcs
  <2>3. /\ row'[<<c, q>>].attempts = row[<<c, q>>].attempts
        /\ row'[<<c, q>>].status = "sent" <=> row[<<c, q>>].status = "sent"
    BY <1>8, <2>1
  <2> QED BY <1>2, <1>4, <1>5, <2>2, <2>3 DEF Tried, Wants, Sent
<1>13. ASSUME NEW d \in Deliveries PROVE RowIsWanted(d)'
  <2>1. RowIsWanted(d)
    BY DEF QuietTick
  <2>2. \A v \in Runners : Holder(v, d) => Holder(v, d)'
    BY <1>1, <1>5 DEF Holder, HoldPcs
  <2>3. row[d].status # "none" \/ d = e => Wants(d[2], d[1])
    BY <1>3, <1>10, <2>1 DEF RowIsWanted
  <2> QED BY <1>4, <1>8, <2>1, <2>2, <2>3 DEF RowIsWanted, Wants
<1> QED
  BY <1>1, <1>4, <1>5, <1>9, <1>11, <1>12, <1>13, GoesOn

LEMMA ClaimQuiet ==
    ASSUME Tidy, Tidy', AllSound, QuietTick, NEW w \in Runners, Claim(w)
    PROVE  QuietTick'
<1>1. run[w] \in Runs /\ Sensible(run[w]) /\ run[w].pc = "claim" /\ run[w].due # <<>>
      /\ run[w].tries \in Nat /\ run[w].failed \in BOOLEAN
  BY TidyFacts DEF Claim, Sensible, Runs
<1>2. PICK e \in Deliveries : /\ e = Delivery(w) /\ e = <<Head(run[w].due), run[w].at>>
                              /\ e[1] = Head(run[w].due) /\ e[2] = run[w].at
  BY <1>1, ItsDelivery
<1>3. UNCHANGED <<pref, hidden, lock, doubt>>
  BY DEF Claim, world, history
<1>4. /\ MailIsWanted(w) /\ RowIsWanted(e) /\ row[e].status # "none"
      /\ \A q \in Recipients : Tried(w, q)
  BY <1>1, <1>2 DEF QuietTick, MailIsWanted, LoopPcs
<1>5. row[e] \in Rows /\ row[e].attempts \in Nat
  BY TidyFacts DEF Rows
<1>6. PICK c \in Cadences, x \in Recipients :
        c = Head(run[w].due) /\ x = run[w].at /\ e = <<c, x>>
  BY <1>1, <1>2, Pairs DEF Sensible
<1>7. CASE ~Claimable(e)
  <2>1. row' = row /\ Continue(w, FALSE)
    BY <1>2, <1>7 DEF Claim
  <2>2. /\ SameRun(run'[w], run[w]) /\ run'[w].pc = "loop"
        /\ run'[w].failed <=> run[w].failed
        /\ \A v \in Runners : v # w => run'[v] = run[v]
    BY <2>1, TidyFacts, Continues
  <2>3. row[e].status = "sent"
    <3>1. row[e].status # "sending" \/ ~row[e].expired
      BY <1>7 DEF Claimable
    <3>2. ASSUME row[e].status = "sending" PROVE FALSE
      <4>1. PICK v \in Runners : Holder(v, e)
        BY <1>4, <3>2 DEF RowIsWanted
      <4>2. run[v].pc \in HoldPcs /\ Head(run[v].due) = Head(run[w].due)
        BY <1>2, <4>1, Pairs DEF Holder
      <4>3. lock[Head(run[v].due)] = v /\ lock[Head(run[w].due)] = w
        BY <1>1, <4>2 DEF QuietTick, RunHolds, HoldPcs
      <4> QED BY <1>1, <4>2, <4>3 DEF HoldPcs
    <3> QED BY <1>4, <1>5, <1>7, <3>2 DEF RowIsWanted, Claimable, Rows, Open, Closed
  <2>4. Grown
    BY <2>1, TheSameHasGrown
  <2>5. MailIsWanted(w)'
    BY <1>1, <1>3, <1>4, <2>1, <2>2 DEF MailIsWanted, Wants, SameRun, LoopPcs
  <2>6. ASSUME NEW q \in Recipients PROVE Tried(w, q)'
    <3>1. Tried(w, q) /\ run[w].pc \in LoopPcs /\ run[w].pc \notin HoldPcs
      BY <1>1, <1>4 DEF LoopPcs, HoldPcs
    <3>2. q = run[w].at => Sent(Head(run[w].due), q)
      BY <1>6, <2>3 DEF Sent
    <3> QED BY <1>3, <2>1, <2>2, <3>1, <3>2 DEF Tried, Wants, Sent, SameRun
  <2>7. \A d \in Deliveries : RowIsWanted(d)'
    <3>1. \A v \in Runners : \A d \in Deliveries : Holder(v, d) => Holder(v, d)'
      BY <1>1, <2>2 DEF Holder, HoldPcs
    <3> QED BY <1>3, <2>1, <3>1, RowsWanted
  <2> QED BY <1>1, <1>3, <2>2, <2>4, <2>5, <2>6, <2>7, GoesOn DEF SameRun
<1>8. CASE Claimable(e)
  <2>1. /\ row' = [row EXCEPT ![e].status = "sending", ![e].expired = FALSE, ![e].attempts = @ + 1]
        /\ run' = [run EXCEPT ![w].pc = "check", ![w].text = row[e].text]
    BY <1>2, <1>8 DEF Claim, Payload
  <2>2. /\ row'[e].status = "sending" /\ row'[e].attempts = row[e].attempts + 1
        /\ \A d \in Deliveries : d # e => row'[d] = row[d]
    BY <1>5, <2>1, TidyFacts DEF Rows
  <2>3. /\ SameRun(run'[w], run[w]) /\ run'[w].pc = "check" /\ run'[w].at = run[w].at
        /\ run'[w].failed = run[w].failed
        /\ \A v \in Runners : v # w => run'[v] = run[v]
    BY <1>1, <2>1, TidyFacts DEF Runs, SameRun
  <2>4. row[e].status # "sent"
    BY <1>8 DEF Claimable
  <2>5. \A d \in Deliveries : row[d].attempts \in Nat
    BY TidyFacts DEF Rows
  <2>6. Grown
    BY <2>2, <2>4, <2>5 DEF Grown
  <2>7. MailIsWanted(w)'
    BY <1>1, <1>3, <1>4, <2>3 DEF MailIsWanted, Wants, SameRun, LoopPcs
  <2>8. ASSUME NEW q \in Recipients PROVE Tried(w, q)'
    <3>1. Tried(w, q) /\ run[w].pc \in LoopPcs /\ run[w].pc \notin HoldPcs
      BY <1>1, <1>4 DEF LoopPcs, HoldPcs
    <3>2. CASE q = run[w].at
      <4>1. ~Sent(c, q) /\ (Wants(q, c) => row[e].attempts >= run[w].tries)
        BY <1>1, <1>6, <2>4, <3>1, <3>2 DEF Tried, Sent
      <4>2. Wants(q, c) => row'[e].attempts > run[w].tries /\ row'[e].attempts >= run[w].tries
        BY <1>1, <1>5, <2>2, <4>1
      <4> QED BY <1>3, <1>6, <2>3, <3>2, <4>2 DEF Tried, Wants, SameRun, HoldPcs
    <3>3. CASE q # run[w].at
      <4>1. PICK d \in Deliveries : d = <<c, q>> /\ d[2] = q
        BY Pairs
      <4>2. d # e
        BY <1>2, <3>3, <4>1
      <4>3. row'[<<c, q>>] = row[<<c, q>>]
        BY <2>2, <4>1, <4>2
      <4> QED BY <1>3, <1>6, <2>3, <3>1, <3>3, <4>3 DEF Tried, Wants, Sent, SameRun
    <3> QED BY <3>2, <3>3
  <2>9. ASSUME NEW d \in Deliveries PROVE RowIsWanted(d)'
    <3>1. RowIsWanted(d)
      BY DEF QuietTick
    <3>2. \A v \in Runners : Holder(v, d) => Holder(v, d)'
      BY <1>1, <2>3 DEF Holder, HoldPcs
    <3>3. CASE d # e
      BY <1>3, <2>2, <3>1, <3>2, <3>3 DEF RowIsWanted, Wants
    <3>4. CASE d = e
      <4>1. Holder(w, e)'
        BY <1>2, <2>3 DEF Holder, HoldPcs, SameRun
      <4> QED BY <1>3, <1>4, <2>2, <3>4, <4>1 DEF RowIsWanted, Wants
    <3> QED BY <3>3, <3>4
  <2> QED BY <1>1, <1>3, <2>3, <2>6, <2>7, <2>8, <2>9, GoesOn DEF SameRun
<1> QED
  BY <1>7, <1>8

LEMMA MarkQuiet ==
    ASSUME Tidy, Tidy', AllSound, QuietTick, NEW w \in Runners, Mark(w)
    PROVE  QuietTick'
<1>1. run[w] \in Runs /\ Sensible(run[w]) /\ run[w].pc = "mark" /\ run[w].due # <<>>
      /\ run[w].tries \in Nat /\ run[w].failed \in BOOLEAN /\ run[w].pc \in LoopPcs
  BY TidyFacts DEF Mark, Sensible, Runs, LoopPcs, HoldPcs
<1>2. PICK e \in Deliveries : /\ e = Delivery(w) /\ e = <<Head(run[w].due), run[w].at>>
                              /\ e[1] = Head(run[w].due) /\ e[2] = run[w].at
  BY <1>1, ItsDelivery DEF HoldPcs
<1>3. UNCHANGED <<pref, hidden, lock, doubt>>
  BY DEF Mark, world, history
<1>4. /\ MailIsWanted(w) /\ RowIsWanted(e) /\ DeliverySound(e) /\ Holder(w, e)
      /\ \A q \in Recipients : Tried(w, q)
  BY <1>1, <1>2 DEF QuietTick, AllSound, Holder, HoldPcs
<1>5. row[e].status = "sending" /\ row[e].status \in Open
  BY <1>4 DEF RowIsWanted, DeliverySound, Exclusive, Open
<1>6. PICK c \in Cadences, x \in Recipients :
        c = Head(run[w].due) /\ x = run[w].at /\ e = <<c, x>>
  BY <1>1, <1>2, Pairs DEF Sensible, HoldPcs
<1>7. PICK status \in {"sent", "failed"} : status = IF run[w].outcome = "ok" THEN "sent" ELSE "failed"
  OBVIOUS
<1>8. row' = [row EXCEPT ![e] = Record(e, status)] /\ Continue(w, status = "failed" \/ FALSE)
  <2>1. /\ row' = IF row[e].status = "sending" THEN [row EXCEPT ![e] = Record(e, status)] ELSE row
        /\ Continue(w, status = "failed" \/ ~(row[e].status = "sending"))
    BY <1>2, <1>7 DEF Mark
  <2>2. (status = "failed" \/ ~(row[e].status = "sending")) = (status = "failed" \/ FALSE)
    BY <1>5
  <2>3. row' = [row EXCEPT ![e] = Record(e, status)]
    BY <1>5, <2>1
  <2>4. Continue(w, status = "failed" \/ FALSE)
    BY <2>1, <2>2
  <2> QED BY <2>3, <2>4
<1>9. /\ row'[e].status = status /\ row'[e].attempts = row[e].attempts
      /\ \A d \in Deliveries : d # e => row'[d] = row[d]
  <2>1. Record(e, status).status = status /\ Record(e, status).attempts = row[e].attempts
    BY <1>5, Records
  <2> QED BY <1>8, <2>1, TidyFacts
<1>10. /\ SameRun(run'[w], run[w]) /\ run'[w].pc = "loop"
       /\ run'[w].failed <=> (run[w].failed \/ status = "failed")
       /\ \A v \in Runners : v # w => run'[v] = run[v]
  <2>1. PICK error \in BOOLEAN : error = (status = "failed" \/ FALSE)
    OBVIOUS
  <2>2. Continue(w, error)
    BY <1>8, <2>1
  <2> QED BY <2>1, <2>2, TidyFacts, Continues
<1>11. Grown
  <2>1. \A d \in Deliveries : row[d].attempts \in Nat
    BY TidyFacts DEF Rows
  <2> QED BY <1>5, <1>9, <2>1 DEF Grown
<1>12. MailIsWanted(w)'
  BY <1>1, <1>3, <1>4, <1>10 DEF MailIsWanted, Wants, SameRun
<1>13. ASSUME NEW q \in Recipients PROVE Tried(w, q)'
  <2>1. Tried(w, q)
    BY <1>4
  <2>2. CASE q = run[w].at
    <3>1. ~Sent(c, q)
      BY <1>5, <1>6, <2>2 DEF Sent
    <3>2. Wants(q, c) => /\ row[e].attempts >= run[w].tries
                         /\ q \in run[w].todo \/ row[e].attempts > run[w].tries
      BY <1>1, <1>6, <2>1, <2>2, <3>1 DEF Tried
    <3>3. status = "sent" => Sent(c, q)'
      BY <1>6, <1>9, <2>2 DEF Sent
    <3>4. status = "failed" => run'[w].failed
      BY <1>10
    <3> QED BY <1>3, <1>6, <1>7, <1>9, <1>10, <2>2, <3>2, <3>3, <3>4 DEF Tried, Wants, SameRun
  <2>3. CASE q # run[w].at
    <3>1. PICK d \in Deliveries : d = <<c, q>> /\ d[2] = q
      BY Pairs
    <3>2. d # e
      BY <1>2, <2>3, <3>1
    <3>3. row'[<<c, q>>] = row[<<c, q>>]
      BY <1>9, <3>1, <3>2
    <3>4. Wants(q, c) => \/ Sent(c, q)
                         \/ /\ row[<<c, q>>].attempts >= run[w].tries
                            /\ \/ q \in run[w].todo
                               \/ row[<<c, q>>].attempts > run[w].tries /\ run[w].failed
      BY <1>1, <1>6, <2>1, <2>3 DEF Tried
    <3>5. run[w].failed => run'[w].failed
      BY <1>10
    <3> QED BY <1>3, <1>6, <1>10, <3>3, <3>4, <3>5 DEF Tried, Wants, Sent, SameRun
  <2> QED BY <2>2, <2>3
<1>14. ASSUME NEW d \in Deliveries PROVE RowIsWanted(d)'
  <2>1. RowIsWanted(d)
    BY DEF QuietTick
  <2>2. CASE d # e
    <3>1. \A v \in Runners : Holder(v, d) => Holder(v, d)'
      BY <1>2, <1>10, <2>2 DEF Holder
    <3> QED BY <1>3, <1>9, <2>1, <2>2, <3>1 DEF RowIsWanted, Wants
  <2>3. CASE d = e
    BY <1>3, <1>4, <1>5, <1>9, <2>3 DEF RowIsWanted, Wants
  <2> QED BY <2>2, <2>3
<1> QED
  BY <1>1, <1>3, <1>10, <1>11, <1>12, <1>13, <1>14, GoesOn DEF SameRun

LEMMA ElectQuiet ==
    ASSUME Tidy, Tidy', QuietTick, NEW w \in Runners, Elect(w)
    PROVE  QuietTick'
<1>1. run[w] \in Runs /\ run[w].pc = "waiting" /\ run[w].due # <<>>
  BY TidyFacts DEF Elect
<1>2. PICK c \in Cadences : c = Cadence(w) /\ c = Head(run[w].due)
  BY <1>1, TidyFacts, RunFields DEF Cadence
<1>3. UNCHANGED <<pref, hidden, doubt>> /\ hidden = {}
  BY DEF Elect, world, history, QuietTick
<1>4. lock[c] = Free /\ lock' = [lock EXCEPT ![c] = w]
  BY <1>2 DEF Elect
<1>5. Move(w, "elected")
  BY DEF Elect
<1>6. /\ SameRun(run'[w], run[w]) /\ run'[w].pc = "elected"
      /\ \A v \in Runners : v # w => run'[v] = run[v]
  BY <1>5, TidyFacts, Moves
<1>7. ASSUME NEW d \in Deliveries PROVE row'[d] = row[d]
  <2>1. row[d].status \in Open => Eligible(d, row[d].text)
    BY <1>3 DEF QuietTick, RowIsWanted, Wants, Eligible, Open
  <2> QED BY <2>1 DEF Elect
<1>8. Grown
  <2>1. \A d \in Deliveries : row[d].attempts \in Nat
    BY TidyFacts DEF Rows
  <2> QED BY <1>7, <2>1 DEF Grown
<1>9. ASSUME NEW v \in Runners, v # w
      PROVE  RunHolds(v)' /\ MailIsWanted(v)' /\ \A r \in Recipients : Tried(v, r)'
  <2>1. run[v].pc # "waiting" => Head(run[v].due) # c /\ Head(run[v].due) \in Cadences
    <3>1. run[v].pc # "waiting" => lock[Head(run[v].due)] = v
      BY DEF QuietTick, RunHolds
    <3>2. run[v].pc # "waiting" => Head(run[v].due) \in Cadences
      BY TidyFacts, RunFields DEF Cadence
    <3> QED BY <1>4, <3>1, <3>2, Limits
  <2>2. run[v].pc # "waiting" => lock'[Head(run[v].due)] = lock[Head(run[v].due)]
    BY <1>4, <2>1, TidyFacts
  <2> QED BY <1>3, <1>6, <1>8, <1>9, <2>2, Others
<1>10. RunHolds(w)' /\ MailIsWanted(w)' /\ \A r \in Recipients : Tried(w, r)'
  <2>1. lock'[c] = w
    BY <1>4, TidyFacts
  <2>2. ASSUME NEW r \in Recipients PROVE Tried(w, r)'
    <3>1. Tried(w, r)
      BY DEF QuietTick
    <3>2. PICK d \in Deliveries : d = <<c, r>>
      BY Pairs
    <3>3. row'[<<c, r>>] = row[<<c, r>>]
      BY <1>7, <3>2
    <3> QED BY <1>1, <1>2, <1>3, <1>6, <3>1, <3>3 DEF Tried, Wants, Sent, SameRun, LoopPcs, HoldPcs
  <2> QED BY <1>2, <1>6, <2>1, <2>2 DEF RunHolds, MailIsWanted, SameRun, LoopPcs, HoldPcs
<1>11. ASSUME NEW k \in Cadences PROVE LockIsHeld(k)'
  <2>1. LockIsHeld(k) /\ lock[k] \in Runners \cup {Free}
    BY TidyFacts DEF QuietTick
  <2>2. CASE k = c
    <3>1. lock'[k] = w
      BY <1>4, <2>2, TidyFacts
    <3> QED BY <1>2, <1>6, <2>2, <3>1 DEF LockIsHeld, SameRun
  <2>3. CASE k # c
    <3>1. lock'[k] = lock[k]
      BY <1>4, <2>3, TidyFacts
    <3>2. lock[k] # Free => lock[k] # w
      BY <1>1, <2>1 DEF LockIsHeld
    <3> QED BY <1>6, <2>1, <3>1, <3>2, Limits DEF LockIsHeld
  <2> QED BY <2>2, <2>3
<1>12. \A k \in Cadences : Covered(k)'
  <2>1. \A v \in Runners : run'[v].due = run[v].due
    BY <1>6 DEF SameRun
  <2> QED BY <1>3, <1>8, <2>1, CoveredStays
<1>13. ASSUME NEW d \in Deliveries PROVE RowIsWanted(d)'
  <2>1. \A v \in Runners : Holder(v, d) => Holder(v, d)'
    BY <1>1, <1>6 DEF Holder, HoldPcs
  <2> QED BY <1>3, <1>7, <2>1 DEF QuietTick, RowIsWanted, Wants
<1> QED
  BY <1>3, <1>9, <1>10, <1>11, <1>12, <1>13 DEF QuietTick

\* A run leaves its cadence, and its lock if it has it, to nobody.
LEMMA Leaves ==
    ASSUME Tidy, Tidy', QuietTick, UNCHANGED <<pref, hidden, row, doubt>>, NEW w \in Runners,
           \A v \in Runners : v # w => run'[v] = run[v],
           run[w].due # <<>>, run[w].pc \notin HoldPcs, run'[w].pc = "waiting",
           \/ run[w].pc = "waiting" /\ lock' = lock
           \/ run[w].pc # "waiting" /\ lock' = Unlock(w),
           \A r \in Recipients : Tried(w, r)',
           \A c \in Cadences : Covered(c)'
    PROVE  QuietTick'
<1>1. PICK c \in Cadences : c = Head(run[w].due) /\ c = Cadence(w)
  BY TidyFacts, RunFields DEF Cadence
<1>2. Grown
  BY TheSameHasGrown
<1>3. \A k \in Cadences : lock'[k] = IF k = c /\ run[w].pc # "waiting" THEN Free ELSE lock[k]
  <2>1. run[w].pc # "waiting" => lock[c] = w
    BY <1>1 DEF QuietTick, RunHolds
  <2> QED BY <1>1, <2>1, TidyFacts DEF Unlock
<1>4. ASSUME NEW v \in Runners, v # w
      PROVE  RunHolds(v)' /\ MailIsWanted(v)' /\ \A r \in Recipients : Tried(v, r)'
  <2>1. run[v].pc # "waiting" => lock[Head(run[v].due)] = v /\ Head(run[v].due) \in Cadences
    BY TidyFacts, RunFields DEF Cadence, QuietTick, RunHolds
  <2>2. run[w].pc # "waiting" => lock[c] = w
    BY <1>1 DEF QuietTick, RunHolds
  <2>3. run[v].pc # "waiting" => lock'[Head(run[v].due)] = lock[Head(run[v].due)]
    BY <1>3, <1>4, <2>1, <2>2
  <2> QED BY <1>2, <1>4, <2>3, Others
<1>5. RunHolds(w)' /\ MailIsWanted(w)'
  BY DEF RunHolds, MailIsWanted, LoopPcs, HoldPcs
<1>6. ASSUME NEW k \in Cadences PROVE LockIsHeld(k)'
  <2>1. LockIsHeld(k) /\ lock[k] \in Runners \cup {Free}
    BY TidyFacts DEF QuietTick
  <2>2. lock'[k] # Free => lock'[k] = lock[k] /\ lock[k] # w
    BY <1>1, <1>3, <2>1 DEF LockIsHeld
  <2> QED BY <2>1, <2>2 DEF LockIsHeld
<1>7. \A d \in Deliveries : RowIsWanted(d)'
  <2>1. \A v \in Runners : \A d \in Deliveries : Holder(v, d) => Holder(v, d)'
    BY DEF Holder, HoldPcs
  <2> QED BY <2>1, RowsWanted
<1>8. hidden' = {}
  BY DEF QuietTick
<1> QED
  BY <1>4, <1>5, <1>6, <1>7, <1>8 DEF QuietTick

\* The first try of a cadence asks nothing of the rows.
LEMMA FirstTry ==
    ASSUME Tidy', NEW w \in Runners, run'[w].pc = "waiting", run'[w].tries = 0
    PROVE  \A r \in Recipients : Tried(w, r)'
<1> SUFFICES ASSUME NEW r \in Recipients PROVE Tried(w, r)'
  OBVIOUS
<1>1. run'[w] \in Runs
  BY DEF Tidy, Typed
<1>2. CASE run'[w].due = <<>>
  BY <1>2 DEF Tried
<1>3. CASE run'[w].due # <<>>
  <2>1. PICK due \in Seq(Cadences) : due = run'[w].due /\ due # <<>>
    BY <1>1, <1>3 DEF Runs
  <2>2. Head(due) \in Cadences
    BY <2>1, Periods
  <2>3. PICK d \in Deliveries : d = <<Head(due), r>>
    BY <2>2, Pairs
  <2>4. row'[d].attempts \in Nat
    BY DEF Tidy, Typed, Rows
  <2>5. row'[d].attempts >= 0
    BY <2>4
  <2> QED BY <2>1, <2>3, <2>5 DEF Tried, LoopPcs, HoldPcs
<1> QED
  BY <1>2, <1>3

\* The next period: the one that is over has been served, or another runs it.
LEMMA PeriodCovered ==
    ASSUME Tidy, Tidy', QuietTick, UNCHANGED <<pref, row>>, NEW w \in Runners,
           \A v \in Runners : v # w => run'[v] = run[v],
           run[w].due # <<>>, run'[w].due = Tail(run[w].due),
           \/ Served(Head(run[w].due))
           \/ \E v \in Runners : v # w /\ Awaits(v, Head(run[w].due)),
           NEW c \in Cadences
    PROVE  Covered(c)'
<1>1. Covered(c) /\ Grown /\ run[w].due \in Seq(Cadences)
  BY TheSameHasGrown, TidyFacts DEF QuietTick, Runs
<1>2. CASE Served(c)
  BY <1>1, <1>2, ServedStays DEF Covered
<1>3. CASE \E v \in Runners : v # w /\ Awaits(v, c)
  BY <1>3 DEF Covered, Awaits
<1>4. CASE Awaits(w, c) /\ c # Head(run[w].due)
  <2>1. PICK i \in DOMAIN run[w].due : run[w].due[i] = c
    BY <1>4 DEF Awaits
  <2>2. \E j \in DOMAIN Tail(run[w].due) : Tail(run[w].due)[j] = c
    BY <1>1, <1>4, <2>1, Periods
  <2> QED BY <2>2 DEF Covered, Awaits
<1>5. CASE c = Head(run[w].due)
  BY <1>2, <1>3, <1>5
<1> QED
  BY <1>1, <1>2, <1>3, <1>4, <1>5 DEF Covered

LEMMA NotElectedQuiet ==
    ASSUME Tidy, Tidy', QuietTick, NEW w \in Runners, NotElected(w)
    PROVE  QuietTick'
<1>1. run[w].pc = "waiting" /\ run[w].due # <<>> /\ run' = NextPeriod(w)
  BY DEF NotElected
<1>2. UNCHANGED <<pref, hidden, row, doubt, lock>>
  BY DEF NotElected, world, history
<1>3. /\ run'[w].pc = "waiting" /\ run'[w].due = Tail(run[w].due) /\ run'[w].tries = 0
      /\ \A v \in Runners : v # w => run'[v] = run[v]
  BY <1>1, TidyFacts, NextPeriods
<1>4. PICK c \in Cadences : c = Head(run[w].due) /\ c = Cadence(w)
  BY <1>1, TidyFacts, RunFields DEF Cadence
<1>5. \E v \in Runners : v # w /\ Awaits(v, Head(run[w].due))
  <2>1. PICK v \in Runners : v = lock[c]
    BY <1>4, TidyFacts DEF NotElected
  <2>2. run[v].pc # "waiting" /\ Head(run[v].due) = c
    BY <1>4, <2>1, Limits DEF QuietTick, LockIsHeld
  <2>3. run[v].due # <<>> /\ run[v].due \in Seq(Cadences)
    BY <2>2, TidyFacts, RunFields
  <2>4. \E i \in DOMAIN run[v].due : run[v].due[i] = c
    BY <2>2, <2>3, Periods
  <2> QED BY <1>1, <1>4, <2>2, <2>4 DEF Awaits
<1>6. \A k \in Cadences : Covered(k)'
  BY <1>1, <1>2, <1>3, <1>5, PeriodCovered
<1>7. \A r \in Recipients : Tried(w, r)'
  BY <1>3, FirstTry
<1>8. run[w].pc \notin HoldPcs
  BY <1>1 DEF HoldPcs
<1> QED
  BY <1>1, <1>2, <1>3, <1>6, <1>7, <1>8, Leaves

LEMMA EndRunQuiet ==
    ASSUME Tidy, Tidy', QuietTick, NEW w \in Runners, EndRun(w)
    PROVE  QuietTick'
<1>1. /\ run[w].pc = "loop" /\ run[w].due # <<>> /\ run[w].todo = {} /\ run[w].tries \in Nat
      /\ run[w].pc \in LoopPcs /\ run[w].pc \notin HoldPcs
  BY TidyFacts DEF EndRun, Sensible, Runs, LoopPcs, HoldPcs
<1>2. UNCHANGED <<pref, hidden, row, doubt>> /\ lock' = Unlock(w)
  BY DEF EndRun, world, history
<1>3. PICK c \in Cadences : c = Head(run[w].due)
  BY <1>1, TidyFacts, RunFields DEF Cadence
<1>4. ASSUME NEW r \in Recipients, Wants(r, c)
      PROVE  \/ Sent(c, r)
             \/ row[<<c, r>>].attempts > run[w].tries /\ run[w].failed
  <2>1. Tried(w, r)
    BY DEF QuietTick
  <2> QED BY <1>1, <1>3, <1>4, <2>1 DEF Tried
<1>5. \A r \in Recipients : row[<<c, r>>].attempts \in Nat
  BY Pairs, TidyFacts DEF Rows
<1>6. ASSUME run' = NextPeriod(w), Served(c) PROVE QuietTick'
  <2>1. /\ run'[w].pc = "waiting" /\ run'[w].due = Tail(run[w].due) /\ run'[w].tries = 0
        /\ \A v \in Runners : v # w => run'[v] = run[v]
    BY <1>1, <1>6, TidyFacts, NextPeriods
  <2>2. \A k \in Cadences : Covered(k)'
    BY <1>1, <1>2, <1>3, <1>6, <2>1, PeriodCovered
  <2>3. \A r \in Recipients : Tried(w, r)'
    BY <2>1, FirstTry
  <2> QED BY <1>1, <1>2, <2>1, <2>2, <2>3, Leaves
<1>7. CASE ~run[w].failed
  <2>1. run' = NextPeriod(w)
    BY <1>7 DEF EndRun
  <2>2. Served(c)
    BY <1>4, <1>7 DEF Served
  <2> QED BY <1>6, <2>1, <2>2
<1>8. CASE run[w].failed /\ run[w].tries + 1 >= MaxTries
  <2>1. run' = NextPeriod(w)
    BY <1>1, <1>8, Limits DEF EndRun, Retry
  <2>2. ASSUME NEW r \in Recipients, Wants(r, c)
        PROVE  Sent(c, r) \/ row[<<c, r>>].attempts >= MaxTries
    <3>1. PICK n \in Nat : n = row[<<c, r>>].attempts
      BY <1>5
    <3>2. n > run[w].tries => n >= MaxTries
      BY <1>1, <1>8, Limits
    <3> QED BY <1>4, <2>2, <3>1, <3>2
  <2>3. Served(c)
    BY <2>2 DEF Served
  <2> QED BY <1>6, <2>1, <2>3
<1>9. CASE run[w].failed /\ run[w].tries + 1 < MaxTries
  <2>1. run' = Retry(w)
    BY <1>9 DEF EndRun
  <2>2. /\ run'[w].pc = "waiting"
        /\ \A v \in Runners : v # w => run'[v] = run[v]
        /\ run'[w].due = run[w].due /\ run'[w].tries = run[w].tries + 1
    <3>1. ~(run[w].tries + 1 >= MaxTries)
      BY <1>1, <1>9, Limits
    <3> QED BY <1>1, <2>1, <3>1, TidyFacts, Retries
  <2>3. \A k \in Cadences : Covered(k)'
    <3>1. \A v \in Runners : run'[v].due = run[v].due
      BY <2>2
    <3> QED BY <1>2, <3>1, TheSameHasGrown, CoveredStays
  <2>4. ASSUME NEW r \in Recipients PROVE Tried(w, r)'
    <3>1. PICK n \in Nat : n = row[<<c, r>>].attempts
      BY <1>5
    <3>2. n > run[w].tries => n >= run[w].tries + 1
      BY <1>1
    <3>3. Wants(r, c) => Sent(c, r) \/ row[<<c, r>>].attempts >= run[w].tries + 1
      BY <1>4, <3>1, <3>2
    <3> QED BY <1>2, <1>3, <2>2, <3>3 DEF Tried, Wants, Sent, LoopPcs, HoldPcs
  <2> QED BY <1>1, <1>2, <2>2, <2>3, <2>4, Leaves
<1>10. (run[w].tries + 1 >= MaxTries) \/ (run[w].tries + 1 < MaxTries)
  BY <1>1, Limits
<1> QED
  BY <1>7, <1>8, <1>9, <1>10

\* What a tick in which nothing fails and nothing changes does not see.
LEMMA NotQuiet ==
    ASSUME Tidy, QuietTick, Next, Quiet'
    PROVE  \/ \E w \in Runners :
                \/ Elect(w) \/ NotElected(w) \/ Prepare(w) \/ EndRun(w)
                \/ (\E r \in Recipients : Insert(w, r))
                \/ Claim(w) \/ Recheck(w) \/ Send(w) \/ Mark(w)
<1>1. faults' = 0 /\ changes' = 0 /\ faults \in Nat /\ changes \in Nat
  BY TidyFacts DEF Quiet
<1>2. ASSUME NEW w \in Runners, NEW r \in Recipients PROVE ~InsertFails(w, r)
  BY <1>1 DEF InsertFails
<1>3. ASSUME NEW w \in Runners
      PROVE  ~StatementFails(w) /\ ~RunFails(w) /\ ~LoseLock(w) /\ ~Crash(w)
  <2>1. faults' # faults + 1
    BY <1>1
  <2>2. ~StatementFails(w) /\ ~RunFails(w)
    BY <2>1 DEF StatementFails, RunFails
  <2>3. ~LoseLock(w) /\ ~Crash(w)
    BY <2>1 DEF LoseLock, Crash
  <2> QED BY <2>2, <2>3
<1>4. ASSUME NEW w \in Runners PROVE ~NoPosts(w) /\ ~CancelClaim(w)
  <2>1. hidden = {} /\ Texts # {}
    BY SomeAssumption DEF QuietTick
  <2>2. run[w].pc # "cancel"
    BY DEF QuietTick, RunHolds
  <2> QED BY <2>1, <2>2 DEF NoPosts, CancelClaim
<1>5. ASSUME NEW d \in Deliveries PROVE ~ClaimExpires(d) /\ ~ClaimOverrun(d)
  <2>1. row[d].status = "sending" => Busy(d)
    BY DEF QuietTick, RowIsWanted, Busy, Holder, Holding, HoldPcs, Delivery, Cadence
  <2> QED BY <1>1, <2>1 DEF ClaimExpires, ClaimOverrun, Expire
<1>6. ASSUME NEW r \in Recipients, NEW frequency \in Frequencies
      PROVE  ~ChangePreference(r, frequency)
  BY <1>1 DEF ChangePreference
<1>7. ASSUME NEW texts \in SUBSET Texts PROVE ~Moderate(texts)
  BY <1>1 DEF Moderate
<1> QED
  BY <1>2, <1>3, <1>4, <1>5, <1>6, <1>7 DEF Next

\* Faults and changes are not undone.
LEMMA WasQuiet ==
    ASSUME Tidy, [Next]_vars, Quiet'
    PROVE  Quiet
<1>1. faults' = 0 /\ changes' = 0 /\ faults \in Nat /\ changes \in Nat
  BY TidyFacts DEF Quiet
<1>2. ASSUME NEW w \in Runners, Steps(w) PROVE faults' >= faults /\ changes' = changes
  <2>1. Elect(w) \/ NotElected(w) \/ Prepare(w) \/ NoPosts(w) => UNCHANGED <<faults, changes>>
    BY DEF Elect, NotElected, Prepare, NoPosts, world
  <2>2. EndRun(w) \/ Claim(w) \/ Recheck(w) => UNCHANGED <<faults, changes>>
    BY DEF EndRun, Claim, Recheck, world
  <2>3. CancelClaim(w) \/ Send(w) \/ Mark(w) => UNCHANGED <<faults, changes>>
    BY DEF CancelClaim, Send, Mark, world
  <2>4. \A r \in Recipients : Insert(w, r) => UNCHANGED <<faults, changes>>
    BY DEF Insert, world
  <2>5. \A r \in Recipients : InsertFails(w, r) => faults' = faults + 1 /\ changes' = changes
    BY DEF InsertFails, world
  <2>6. StatementFails(w) \/ RunFails(w) => faults' = faults + 1 /\ changes' = changes
    BY DEF StatementFails, RunFails, world
  <2>7. LoseLock(w) \/ Crash(w) => faults' = faults + 1 /\ changes' = changes
    BY DEF LoseLock, Crash, world
  <2>8. \/ UNCHANGED <<faults, changes>>
        \/ faults' = faults + 1 /\ changes' = changes
    BY <1>2, <2>1, <2>2, <2>3, <2>4, <2>5, <2>6, <2>7 DEF Steps
  <2> QED BY <1>1, <2>8
<1>3. ASSUME NEW d \in Deliveries, ClaimExpires(d) \/ ClaimOverrun(d)
      PROVE  faults' >= faults /\ changes' = changes
  BY <1>1, <1>3 DEF ClaimExpires, ClaimOverrun, world
<1>4. ASSUME NEW r \in Recipients, NEW frequency \in Frequencies, ChangePreference(r, frequency)
      PROVE  FALSE
  BY <1>1, <1>4 DEF ChangePreference
<1>5. ASSUME NEW texts \in SUBSET Texts, Moderate(texts) PROVE FALSE
  BY <1>1, <1>5 DEF Moderate
<1>6. CASE UNCHANGED vars
  BY <1>1, <1>6 DEF vars, Quiet
<1> QED
  BY <1>1, <1>2, <1>3, <1>4, <1>5, <1>6 DEF Next, Steps, Quiet

LEMMA StaysQuiet ==
    ASSUME DigestInv, [Next]_vars, Tidy', Quiet'
    PROVE  QuietTick'
<1>1. Tidy /\ AllSound /\ QuietTick
  BY WasQuiet DEF DigestInv
<1>2. CASE UNCHANGED vars
  BY <1>1, <1>2 DEF vars, QuietTick, RunHolds, MailIsWanted, LockIsHeld, Covered, Served, Awaits,
     RowIsWanted, Tried, Wants, Sent, Holder
<1>3. CASE Next
  BY <1>1, <1>3, NotQuiet, ElectQuiet, NotElectedQuiet, PrepareQuiet, EndRunQuiet, InsertQuiet,
     ClaimQuiet, RecheckQuiet, SendQuiet, MarkQuiet
<1> QED
  BY <1>2, <1>3

LEMMA InitQuiet == Init => QuietTick
<1> SUFFICES ASSUME Init PROVE QuietTick
  OBVIOUS
<1>1. /\ \A w \in Runners : run[w] = Start(Due) /\ run[w].pc = "waiting" /\ run[w].due = Due
      /\ \A w \in Runners : run[w].tries = 0
  BY DueIsOfCadences, Starts DEF Init
<1>2. \A d \in Deliveries : row[d].status = "none" /\ doubt[d] = {} /\ row[d].attempts = 0
  BY DEF Init, Absent
<1>3. \A w \in Runners : RunHolds(w) /\ MailIsWanted(w)
  BY <1>1 DEF RunHolds, MailIsWanted, LoopPcs, HoldPcs
<1>4. \A d \in Deliveries : RowIsWanted(d)
  BY <1>2 DEF RowIsWanted
<1>5. \A c \in Cadences : LockIsHeld(c)
  BY DEF Init, LockIsHeld
<1>6. ASSUME NEW c \in Cadences PROVE Covered(c)
  <2>1. PICK w \in Runners : TRUE
    BY SomeAssumption
  <2>2. Awaits(w, c)
    BY <1>1 DEF Awaits, Cadences
  <2> QED BY <2>2 DEF Covered
<1>7. ASSUME NEW w \in Runners, NEW r \in Recipients PROVE Tried(w, r)
  <2>1. CASE Due = <<>>
    BY <1>1, <2>1 DEF Tried
  <2>2. CASE Due # <<>>
    <3>1. Head(Due) \in Cadences
      BY <2>2, DueIsOfCadences, Periods
    <3>2. row[<<Head(Due), r>>].attempts = 0
      BY <1>2, <3>1, Pairs
    <3> QED BY <1>1, <3>2 DEF Tried, LoopPcs, HoldPcs
  <2> QED BY <2>1, <2>2
<1> QED
  BY <1>3, <1>4, <1>5, <1>6, <1>7 DEF Init, QuietTick

-----------------------------------------------------------------------------
(* The theorems.                                                           *)

\* The inductive invariant: every step of the loop, of its failures and of the
\* world around it keeps each delivery sound, and the first tick that nothing
\* disturbs keeps the promise of trying everybody.
THEOREM DigestInvariance == Spec => []DigestInv
<1>1. Init => DigestInv
  BY InitSound, InitQuiet DEF DigestInv
<1>2. DigestInv /\ [Next]_vars => DigestInv'
  <2> SUFFICES ASSUME DigestInv, [Next]_vars PROVE DigestInv'
    OBVIOUS
  <2>1. Tidy' /\ AllSound'
    BY StepSound DEF DigestInv
  <2>2. Quiet' => QuietTick'
    BY <2>1, StaysQuiet
  <2> QED BY <2>1, <2>2 DEF DigestInv
<1> QED
  BY <1>1, <1>2, PTL DEF Spec

\* The variables keep their types.
THEOREM TypeCorrect == Spec => []TypeOK
<1>1. DigestInv => TypeOK
  <2> SUFFICES ASSUME DigestInv PROVE TypeOK
    OBVIOUS
  <2>1. Tidy
    BY DEF DigestInv
  <2>2. \A d \in Deliveries : row[d] \in Rows /\ RowsSensible(row[d])
    BY <2>1, TidyFacts
  <2>3. \A w \in Runners : run[w] \in Runs /\ Sensible(run[w])
    BY <2>1, TidyFacts
  <2> QED BY <2>1, <2>2, <2>3, TidyFacts DEF TypeOK, Rows, RowsSensible, Runs, Sensible, Closed, HoldPcs
<1> QED
  BY <1>1, DigestInvariance, PTL

\* A recipient gets one mail per period at most, unless the ledger could not know
\* of the first, whatever runs, retries, lost locks and crashes there are.
THEOREM OneMailPerPeriod == Spec => []AtMostOneMail
<1>1. DigestInv => AtMostOneMail
  BY DEF DigestInv, AllSound, DeliverySound, OneMail, AtMostOneMail
<1> QED
  BY <1>1, DigestInvariance, PTL

\* All attempts of a delivery carry one payload.
THEOREM OnePayloadPerPeriod == Spec => []SamePayload
<1>1. DigestInv => SamePayload
  <2> SUFFICES ASSUME DigestInv, NEW d \in Deliveries PROVE Cardinality(mailed[d]) <= 1
    BY DEF SamePayload
  <2>1. \A x, y \in mailed[d] : x = y
    BY DEF DigestInv, AllSound, DeliverySound, OnePayload
  <2>2. CASE mailed[d] = {}
    <3>1. Cardinality(mailed[d]) = 0
      BY <2>2, FS_EmptySet
    <3> QED BY <3>1
  <2>3. CASE mailed[d] # {}
    <3>1. PICK x : x \in mailed[d]
      BY <2>3
    <3>2. mailed[d] = {x}
      BY <2>1, <3>1
    <3>3. Cardinality(mailed[d]) = 1
      BY <3>2, FS_Singleton
    <3> QED BY <3>3
  <2> QED BY <2>2, <2>3
<1> QED
  BY <1>1, DigestInvariance, PTL

\* After an opt-out at most the mails that were past their recheck go out.
THEOREM OptOutIsHonoured == Spec => []OptOutHonoured
<1>1. DigestInv => OptOutHonoured
  <2> SUFFICES ASSUME DigestInv, NEW d \in Deliveries
               PROVE  stray[d] <= IF "late" \in doubt[d] THEN Cardinality(Runners) ELSE 1
    BY DEF OptOutHonoured
  <2>1. OptOut(d) /\ stray[d] \in Nat
    BY TidyFacts DEF DigestInv, AllSound, DeliverySound
  <2>2. CASE "late" \in doubt[d]
    <3>1. Cardinality(Senders(d)) \in Nat /\ Cardinality(Runners) \in Nat
      BY HoldersAndSenders, RunnersAreCounted
    <3>2. stray[d] + Cardinality(Senders(d)) <= Cardinality(Runners)
      BY <2>1 DEF OptOut
    <3>3. stray[d] <= Cardinality(Runners)
      BY <2>1, <3>1, <3>2
    <3> QED BY <2>2, <3>3
  <2>3. CASE "late" \notin doubt[d]
    <3>1. stray[d] <= 1
      BY <2>1, <2>3 DEF OptOut
    <3> QED BY <2>3, <3>1
  <2> QED BY <2>2, <2>3
<1> QED
  BY <1>1, DigestInvariance, PTL

\* A tick that nothing disturbs serves every recipient of its cadences.
THEOREM TickServesEveryone == Spec => []EveryoneServed
<1>1. DigestInv => EveryoneServed
  <2> SUFFICES ASSUME DigestInv, Quiet, \A w \in Runners : run[w].due = <<>>,
                      NEW d \in Deliveries, pref[d[2]] = d[1]
               PROVE  row[d].status = "sent" \/ row[d].attempts >= MaxTries
    BY DEF EveryoneServed, Quiet
  <2>1. d[1] \in Cadences /\ d[2] \in Recipients /\ d = <<d[1], d[2]>>
    BY Pairs
  <2>2. Covered(d[1])
    BY <2>1 DEF DigestInv, QuietTick
  <2>3. \A w \in Runners : ~Awaits(w, d[1])
    BY DEF Awaits
  <2>4. Served(d[1])
    BY <2>2, <2>3 DEF Covered
  <2>5. Sent(d[1], d[2]) \/ row[<<d[1], d[2]>>].attempts >= MaxTries
    BY <2>1, <2>4 DEF Served, Wants
  <2> QED BY <2>1, <2>5 DEF Sent
<1> QED
  BY <1>1, DigestInvariance, PTL

\* What is recorded as sent or canceled stays so, and what is recorded as sent
\* was accepted.
THEOREM RecordIsFinal == Spec => LedgerIsFinal
<1>1. DigestInv /\ [Next]_vars =>
        [\A d \in Deliveries :
           /\ row[d].status \in {"sent", "canceled"} => row'[d] = row[d]
           /\ row'[d].status = "sent" => accepted[d] > 0]_vars
  <2> SUFFICES ASSUME DigestInv, [Next]_vars, NEW d \in Deliveries
               PROVE  /\ row[d].status \in {"sent", "canceled"} => row'[d] = row[d]
                      /\ row'[d].status = "sent" => accepted[d] > 0
    OBVIOUS
  <2>1. Steady
    BY StepSound DEF DigestInv
  <2>2. row[d].status = "sent" => accepted[d] > 0
    BY DEF DigestInv, AllSound, DeliverySound, Accepted
  <2> QED BY <2>1, <2>2 DEF Steady, Closed
<1> QED
  BY <1>1, DigestInvariance, PTL DEF Spec, LedgerIsFinal
=============================================================================
