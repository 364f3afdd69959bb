-------------------------- MODULE SledStoreProofs --------------------------
(***************************************************************************)
(* Proofs about SledStore, for every number of letters and of concurrent   *)
(* calls, every attempt limit and capacity.                                *)
(***************************************************************************)
EXTENDS SledStore, LetterStoreProofs

(* A copy that is about to be inserted is consistent, and counts no more    *)
(* claims than were won on its letter, the one it may bring included.       *)
Sound(m, n) == Consistent(m) /\ m.attempts <= n

CallOK(c) ==
  call[c].pc = "write" =>
    /\ call[c].key \in Letters
    /\ Sound(call[c].copy, wins[call[c].key] + IF call[c].won THEN 1 ELSE 0)

(* Stale inserts bring old records back, so what is kept must hold of the   *)
(* copies as well as of the database.                                       *)
IInv ==
  /\ TypeOK
  /\ \A l \in Letters : Sound(db[l], wins[l])
  /\ \A c \in Callers : CallOK(c)
-----------------------------------------------------------------------------
(* The closures keep a record consistent.                                   *)

(* A record with nothing in its books is consistent on the shelf and off it. *)
LEMMA EmptyIsSound ==
  ASSUME NEW m \in Message, m.status \in {"queued", "unsent", "deleted"},
         m.attempts = 0, m.deadReason = "none",
         ~m.deliveredAt, ~m.readAt, ~m.ackedAt
  PROVE  Sound(m, 0)
BY DEF Sound, Consistent, HandedOver

LEMMA NewIsSound ==
  ASSUME NEW r \in Agents, NEW status \in {"queued", "unsent", "deleted"}
  PROVE  LET m == [NewMessage(r) EXCEPT !.status = status]
         IN m \in Message /\ Sound(m, 0) /\ m.status = status /\ m.attempts = 0
<1> DEFINE m == [NewMessage(r) EXCEPT !.status = status]
<1>1. NewMessage(r) \in Message
  BY MaxAttemptsAssumption DEF NewMessage, Message, Status
<1>2. status \in Status \cup NoLetter
  BY DEF Status, NoLetter
<1>3. m \in Message
  BY <1>1, <1>2 DEF Message
<1>4. /\ m.status = status /\ m.attempts = 0 /\ m.deadReason = "none"
      /\ m.deliveredAt = FALSE /\ m.readAt = FALSE /\ m.ackedAt = FALSE
  BY DEF NewMessage
<1> HIDE DEF m
<1>5. Sound(m, 0)
  BY <1>3, <1>4, EmptyIsSound
<1> QED BY <1>3, <1>4, <1>5 DEF m

LEMMA BlankOK == Blank \in Message /\ Sound(Blank, 0)
<1>1. (CHOOSE a \in Agents : TRUE) \in Agents
  BY KeysAssumption
<1> QED BY <1>1, NewIsSound DEF Blank

LEMMA QuietOK == Quiet \in CallState /\ Quiet.pc = "idle" /\ ~Quiet.won
BY BlankOK DEF Quiet, CallState

LEMMA UpdatedIsSound ==
  ASSUME NEW m \in Message, NEW n \in Nat, Sound(m, n), Stored(m),
         NEW op \in Calls, Accepts(op, m)
  PROVE  LET k == IF op = "mark_pushing" /\ ClaimWins(m) THEN n + 1 ELSE n
         IN Updated(op, m) \in Message /\ Sound(Updated(op, m), k)
<1> USE DEF Sound
<1>1. CASE op = "mark_delivered"
  BY <1>1, MarkDeliveredEffect
     DEF Updated, MarkDelivered, PollClaim, Consistent, Message, HandedOver
<1>2. CASE op = "mark_pushing"
  <2>1. CASE ClaimWins(m)
    <3>1. /\ MarkPushing(m) \in Message
          /\ m.status = "queued"
          /\ MarkPushing(m).status = "pushing"
          /\ MarkPushing(m).deadReason = m.deadReason
      BY <2>1, MarkPushingEffect
    <3>2. /\ MarkPushing(m).deliveredAt = m.deliveredAt
          /\ MarkPushing(m).readAt = m.readAt
          /\ MarkPushing(m).ackedAt = m.ackedAt
          /\ MarkPushing(m).attempts <= n + 1
      BY DEF MarkPushing, Message
    <3> QED BY <1>2, <2>1, <3>1, <3>2 DEF Updated, Claimed, Consistent, HandedOver
  <2>2. CASE ~ClaimWins(m)
    BY <1>2, <2>2 DEF Updated, Claimed
  <2> QED BY <2>1, <2>2
<1>3. CASE op = "mark_push_ok"
  <2>1. /\ MarkPushOk(m) \in Message
        /\ MarkPushOk(m).status = IF m.status = "pushing" THEN "delivered" ELSE m.status
        /\ MarkPushOk(m).attempts = m.attempts
        /\ MarkPushOk(m).deadReason = m.deadReason
    BY MarkPushOkEffect
  <2>2. /\ MarkPushOk(m).deliveredAt = (m.deliveredAt \/ m.status = "pushing")
        /\ MarkPushOk(m).readAt = m.readAt
        /\ MarkPushOk(m).ackedAt = m.ackedAt
    BY OkRow DEF MarkPushOk, Message
  <2> QED BY <1>3, <2>1, <2>2 DEF Updated, Consistent, HandedOver
<1>4. ASSUME NEW reason \in Reason, Updated(op, m) = MarkPushFailed(m, reason),
             op # "mark_pushing"
      PROVE  Updated(op, m) \in Message /\ Sound(Updated(op, m), n)
  <2> DEFINE u == MarkPushFailed(m, reason)
             givesUp == m.attempts = MaxAttempts /\ reason # "auth"
  <2>1. /\ u \in Message
        /\ u.attempts = m.attempts
        /\ u.status = CASE givesUp /\ m.status \in {"queued", "pushing"} -> "dead"
                        [] ~givesUp /\ m.status = "pushing" -> "queued"
                        [] OTHER -> m.status
        /\ u.deadReason \in {m.deadReason, "error"}
        /\ givesUp /\ m.status \in {"queued", "pushing"} => u.deadReason = "error"
        /\ u.status # "dead" => u.deadReason = m.deadReason
    BY MarkPushFailedEffect, SledAssumption
  <2>2. /\ u.deliveredAt = m.deliveredAt
        /\ u.readAt = m.readAt
        /\ u.ackedAt = m.ackedAt
    BY DEF MarkPushFailed, Message
  <2> HIDE DEF u
  <2>3. Consistent(u)
    BY <2>1, <2>2 DEF Consistent, HandedOver
  <2> QED BY <1>4, <2>1, <2>3 DEF u
<1>5. CASE op = "refused"
  BY <1>4, <1>5 DEF Updated, Reason
<1>6. CASE op = "unauthorized"
  BY <1>4, <1>6 DEF Updated, Reason
<1>7. CASE op = "reclaim"
  <2>1. /\ ReclaimStalePushing(m, "error") \in Message
        /\ ReclaimStalePushing(m, "error").status =
             IF m.status = "pushing" THEN "queued" ELSE m.status
        /\ ReclaimStalePushing(m, "error").attempts = m.attempts
        /\ ReclaimStalePushing(m, "error").deadReason = m.deadReason
    BY ReclaimEffect DEF Reason
  <2>2. /\ ReclaimStalePushing(m, "error").deliveredAt = m.deliveredAt
        /\ ReclaimStalePushing(m, "error").readAt = m.readAt
        /\ ReclaimStalePushing(m, "error").ackedAt = m.ackedAt
    BY DEF ReclaimStalePushing, Message
  <2> QED BY <1>7, <2>1, <2>2 DEF Updated, Consistent, HandedOver
<1>8. CASE op = "mark_read"
  BY <1>8, RecipientEffect
     DEF Updated, Accepts, CanRead, MarkRead, Consistent, Message, HandedOver
<1>9. CASE op = "ack"
  BY <1>9, RecipientEffect
     DEF Updated, Accepts, CanAck, Ack, Consistent, Message, HandedOver
<1> QED BY <1>1, <1>2, <1>3, <1>5, <1>6, <1>7, <1>8, <1>9 DEF Calls
-----------------------------------------------------------------------------
(* A call makes its copy, or turns the page; the database stays.            *)
LEMMA OneCall ==
  ASSUME IInv, NEW c \in Callers, NEW s \in CallState,
         call' = [call EXCEPT ![c] = s], UNCHANGED <<db, wins>>,
         s.pc = "write" =>
           /\ s.key \in Letters
           /\ Sound(s.copy, wins[s.key] + IF s.won THEN 1 ELSE 0)
  PROVE  IInv'
<1>1. call' \in [Callers -> CallState]
  BY DEF IInv, TypeOK
<1>2. ASSUME NEW d \in Callers PROVE CallOK(d)'
  BY DEF IInv, TypeOK, CallOK
<1> QED BY <1>1, <1>2 DEF IInv, TypeOK

LEMMA ScanStep ==
  ASSUME IInv, NEW c \in Callers, NEW op \in Calls, NEW l \in Letters, Scan(c, op, l)
  PROVE  IInv'
<1> DEFINE u == Updated(op, db[l])
           w == (op = "mark_pushing" /\ ClaimWins(db[l]))
           s == [Quiet EXCEPT !.pc = "write", !.key = l, !.copy = u, !.won = w]
<1>1. db[l] \in Message /\ wins[l] \in Nat /\ Sound(db[l], wins[l])
  BY MaxAttemptsAssumption DEF IInv, TypeOK
<1>2. Stored(db[l]) /\ Accepts(op, db[l])
  BY DEF Scan
<1>3. u \in Message /\ Sound(u, IF w THEN wins[l] + 1 ELSE wins[l])
  BY <1>1, <1>2, UpdatedIsSound
<1>4. w \in BOOLEAN
  OBVIOUS
<1>5. call' = [call EXCEPT ![c] = s] /\ UNCHANGED <<db, wins>>
  BY DEF Scan
<1> HIDE DEF u, w
<1>6. /\ s \in CallState
      /\ s.key = l /\ s.copy = u /\ s.won = w
  BY <1>3, <1>4, QuietOK DEF CallState
<1>7. Sound(s.copy, wins[s.key] + IF s.won THEN 1 ELSE 0)
  BY <1>1, <1>3, <1>6
<1> HIDE DEF s
<1> QED BY <1>5, <1>6, <1>7, OneCall

LEMMA CountStep ==
  ASSUME IInv, NEW c \in Callers, NEW l \in Letters, NEW r \in Agents, Count(c, l, r)
  PROVE  IInv'
<1> DEFINE s == [Quiet EXCEPT !.pc = "write", !.key = l, !.copy = NewMessage(r)]
<1>1. wins[l] \in Nat
  BY MaxAttemptsAssumption DEF IInv, TypeOK
<1>2. NewMessage(r) \in Message /\ Sound(NewMessage(r), wins[l] + 0)
  <2> DEFINE m == NewMessage(r)
  <2>1. m \in Message
    BY MaxAttemptsAssumption DEF NewMessage, Message, Status
  <2>2. /\ m.status = "queued" /\ m.attempts = 0 /\ m.deadReason = "none"
        /\ m.deliveredAt = FALSE /\ m.readAt = FALSE /\ m.ackedAt = FALSE
    BY DEF NewMessage
  <2> HIDE DEF m
  <2>3. Sound(m, 0)
    BY <2>1, <2>2, EmptyIsSound
  <2> QED BY <1>1, <2>1, <2>2, <2>3 DEF Sound, m
<1>3. /\ s \in CallState
      /\ s.key = l /\ s.copy = NewMessage(r) /\ ~s.won
  BY <1>2, QuietOK DEF CallState
<1>4. call' = [call EXCEPT ![c] = s] /\ UNCHANGED <<db, wins>>
  BY DEF Count
<1> HIDE DEF s
<1> QED BY <1>2, <1>3, <1>4, OneCall

LEMMA PollReadStep ==
  ASSUME IInv, NEW c \in Callers, NEW a \in Agents, PollRead(c, a)
  PROVE  IInv'
<1>1. PICK l \in Ahead(c, a) :
        call' = [call EXCEPT ![c] =
          IF db[l].status = "queued"
          THEN [Quiet EXCEPT !.pc = "write", !.key = l, !.agent = a,
                             !.copy = PollClaim(db[l])]
          ELSE [Quiet EXCEPT !.pc = "scan", !.key = l, !.agent = a]]
  BY DEF PollRead
<1>2. l \in Letters /\ UNCHANGED <<db, wins>>
  BY DEF Ahead, Mailbox, PollRead
<1>3. db[l] \in Message /\ wins[l] \in Nat /\ Sound(db[l], wins[l])
  BY <1>2, MaxAttemptsAssumption DEF IInv, TypeOK
<1>4. CASE db[l].status = "queued"
  <2> DEFINE s == [Quiet EXCEPT !.pc = "write", !.key = l, !.agent = a,
                                !.copy = PollClaim(db[l])]
             u == PollClaim(db[l])
  <2>1. PollClaim(db[l]) \in Message /\ Sound(PollClaim(db[l]), wins[l] + 0)
    <3>1. u \in Message /\ u.status = "delivered"
      BY <1>3, PollClaimEffect
    <3>2. /\ u.deliveredAt = TRUE /\ u.readAt = db[l].readAt /\ u.ackedAt = db[l].ackedAt
          /\ u.attempts = db[l].attempts /\ u.deadReason = db[l].deadReason
      BY <1>3 DEF PollClaim, Message
    <3> HIDE DEF u
    <3>3. Consistent(u) /\ u.attempts <= wins[l] + 0
      BY <1>3, <1>4, <3>1, <3>2 DEF Sound, Consistent, Message, HandedOver
    <3> QED BY <3>1, <3>3 DEF Sound, u
  <2>2. /\ s \in CallState
        /\ s.key = l /\ s.copy = PollClaim(db[l]) /\ ~s.won
    BY <1>2, <2>1, QuietOK DEF CallState
  <2>3. call' = [call EXCEPT ![c] = s]
    BY <1>1, <1>4
  <2> HIDE DEF s
  <2> QED BY <1>2, <2>1, <2>2, <2>3, OneCall
<1>5. CASE db[l].status # "queued"
  <2> DEFINE s == [Quiet EXCEPT !.pc = "scan", !.key = l, !.agent = a]
  <2>1. s \in CallState /\ s.pc = "scan"
    BY <1>2, QuietOK DEF CallState
  <2>2. call' = [call EXCEPT ![c] = s]
    BY <1>1, <1>5
  <2> HIDE DEF s
  <2> QED BY <1>2, <2>1, <2>2, OneCall
<1> QED BY <1>4, <1>5

LEMMA PollDoneStep ==
  ASSUME IInv, NEW c \in Callers, PollDone(c)
  PROVE  IInv'
BY QuietOK, OneCall DEF PollDone

(* The only step that writes a copy back.                                   *)
LEMMA InsertStep ==
  ASSUME IInv, NEW c \in Callers, Insert(c)
  PROVE  IInv'
<1> DEFINE l == call[c].key
           m == call[c].copy
           won == call[c].won
<1>1. /\ l \in Letters /\ m \in Message /\ won \in BOOLEAN
      /\ Sound(m, wins[l] + IF won THEN 1 ELSE 0)
  BY DEF Insert, IInv, TypeOK, CallOK, CallState
<1>2. PICK next \in AfterInsert(c) : call' = [call EXCEPT ![c] = next]
  BY DEF Insert
<1>3. next \in CallState /\ next.pc # "write"
  BY QuietOK, BlankOK DEF AfterInsert, IInv, TypeOK, CallState
<1>4. call' \in [Callers -> CallState]
  BY <1>2, <1>3 DEF IInv, TypeOK
<1>5. db' = [db EXCEPT ![l] = m] /\ db' \in [Letters -> Message]
  BY <1>1 DEF Insert, IInv, TypeOK
<1>6. wins' = [wins EXCEPT ![l] = IF won /\ @ < MaxAttempts THEN @ + 1 ELSE @]
  BY DEF Insert
<1>7. wins[l] \in 0..MaxAttempts /\ m.attempts \in 0..MaxAttempts
  BY <1>1 DEF IInv, TypeOK, Message
<1>8. wins' \in [Letters -> 0..MaxAttempts]
  BY <1>1, <1>6, <1>7, MaxAttemptsAssumption DEF IInv, TypeOK
<1> HIDE DEF l, m, won
<1>9. \A k \in Letters : /\ wins[k] \in 0..MaxAttempts
                         /\ wins'[k] \in 0..MaxAttempts
                         /\ wins[k] <= wins'[k]
  BY <1>1, <1>6, <1>7, <1>8, MaxAttemptsAssumption DEF IInv, TypeOK
<1>10. Sound(m, wins'[l])
  <2>1. wins'[l] = IF won /\ wins[l] < MaxAttempts THEN wins[l] + 1 ELSE wins[l]
    BY <1>1, <1>6 DEF IInv, TypeOK
  <2> QED BY <1>1, <1>7, <2>1, MaxAttemptsAssumption DEF Sound
<1>11. ASSUME NEW k \in Letters PROVE Sound(db'[k], wins'[k])
  <2>1. CASE k = l
    BY <1>1, <1>5, <1>10, <2>1 DEF IInv, TypeOK
  <2>2. CASE k # l
    <3>1. db'[k] = db[k] /\ Sound(db[k], wins[k]) /\ db[k].attempts \in 0..MaxAttempts
      BY <1>5, <2>2 DEF IInv, TypeOK, Message
    <3> QED BY <1>9, <3>1, MaxAttemptsAssumption DEF Sound
  <2> QED BY <2>1, <2>2
<1>12. ASSUME NEW d \in Callers PROVE CallOK(d)'
  <2>1. CASE d = c
    BY <1>2, <1>3, <2>1 DEF IInv, TypeOK, CallOK
  <2>2. CASE d # c
    <3>1. call'[d] = call[d] /\ call[d] \in CallState /\ CallOK(d)
      BY <1>2, <2>2 DEF IInv, TypeOK
    <3>2. call[d].copy.attempts \in 0..MaxAttempts
      BY <3>1 DEF CallState, Message
    <3> QED BY <1>9, <3>1, <3>2, MaxAttemptsAssumption DEF CallOK, Sound
  <2> QED BY <2>1, <2>2
<1> QED BY <1>4, <1>5, <1>8, <1>11, <1>12 DEF IInv, TypeOK

LEMMA DeleteStep ==
  ASSUME IInv, NEW l \in Letters, Delete(l)
  PROVE  IInv'
<1> DEFINE g == Remove(NewMessage(db[l].receiver))
<1>1. g \in Message /\ g.attempts = 0 /\ Sound(g, 0)
  <2>1. db[l].receiver \in Agents
    BY DEF IInv, TypeOK, Message
  <2> QED BY <2>1, NewIsSound DEF Remove
<1>2. db' = [db EXCEPT ![l] = g] /\ UNCHANGED <<call, wins>>
  BY DEF Delete, IInv, TypeOK
<1> HIDE DEF g
<1>3. ASSUME NEW k \in Letters PROVE Sound(db'[k], wins'[k])
  BY <1>1, <1>2, MaxAttemptsAssumption DEF IInv, TypeOK, Sound
<1>4. ASSUME NEW c \in Callers PROVE CallOK(c)'
  BY <1>2 DEF IInv, CallOK
<1> QED BY <1>1, <1>2, <1>3, <1>4 DEF IInv, TypeOK
-----------------------------------------------------------------------------
LEMMA SledInit == Init => IInv
<1> SUFFICES ASSUME Init PROVE IInv
  OBVIOUS
<1> USE BlankOK, QuietOK
<1>1. TypeOK
  BY MaxAttemptsAssumption DEF Init, TypeOK
<1>2. ASSUME NEW l \in Letters PROVE Sound(db[l], wins[l])
  BY DEF Init
<1>3. ASSUME NEW c \in Callers PROVE CallOK(c)
  BY DEF Init, CallOK
<1> QED BY <1>1, <1>2, <1>3 DEF IInv

LEMMA SledNext ==
  ASSUME IInv, [Next]_vars
  PROVE  IInv'
<1>1. CASE UNCHANGED vars
  BY <1>1 DEF vars, IInv, TypeOK, CallOK
<1>2. ASSUME NEW c \in Callers, NEW op \in Calls, NEW l \in Letters, Scan(c, op, l)
      PROVE  IInv'
  BY <1>2, ScanStep
<1>3. ASSUME NEW c \in Callers, NEW l \in Letters, NEW r \in Agents, Count(c, l, r)
      PROVE  IInv'
  BY <1>3, CountStep
<1>4. ASSUME NEW c \in Callers, NEW a \in Agents, PollRead(c, a) PROVE IInv'
  BY <1>4, PollReadStep
<1>5. ASSUME NEW c \in Callers, PollDone(c) PROVE IInv'
  BY <1>5, PollDoneStep
<1>6. ASSUME NEW c \in Callers, Insert(c) PROVE IInv'
  BY <1>6, InsertStep
<1>7. ASSUME NEW l \in Letters, Delete(l) PROVE IInv'
  BY <1>7, DeleteStep
<1> QED BY <1>1, <1>2, <1>3, <1>4, <1>5, <1>6, <1>7 DEF Next

LEMMA SledInvariance == Spec => []IInv
BY SledInit, SledNext, PTL DEF Spec

(* Records, copies and counts of claims keep their types in every race.     *)
THEOREM SledTypeCorrect == Spec => []TypeOK
<1>1. IInv => TypeOK
  BY DEF IInv
<1> QED BY SledInvariance, <1>1, PTL

(* A stale insert never mixes two versions of a record: dates, reason and   *)
(* status go together, however the calls overtake each other.               *)
THEOREM BooksSurviveRaces == Spec => []BooksAgree
<1>1. IInv => BooksAgree
  BY DEF IInv, Sound, BooksAgree
<1> QED BY SledInvariance, <1>1, PTL

(* Lost updates lose attempts and never invent one.                         *)
THEOREM DeathsTakeClaims == Spec => []DeathNeedsClaims
<1>1. IInv => DeathNeedsClaims
  <2> SUFFICES ASSUME IInv, NEW l \in Letters, db[l].status = "dead"
               PROVE  wins[l] = MaxAttempts
    BY DEF DeathNeedsClaims
  <2>1. db[l].attempts = MaxAttempts /\ db[l].attempts <= wins[l]
    BY DEF IInv, Sound, Consistent
  <2> QED BY <2>1, MaxAttemptsAssumption DEF IInv, TypeOK
<1> QED BY SledInvariance, <1>1, PTL
-----------------------------------------------------------------------------
(* One lock per letter.  The code has none.  What follows says that one, held *)
(* from the read of a letter to its insert, would be enough to make SledStore *)
(* a store of atomic operations, as InMemoryStore is and as PushDispatch      *)
(* takes both to be.  Calls on different letters still interleave, and        *)
(* a poll holds only the lock of the letter it is at.                         *)

InHands(c, l) == call[c].pc = "write" /\ call[c].key = l

Exclusive ==
  \A c, d \in Callers, l \in Letters : InHands(c, l) /\ InHands(d, l) => c = d

LockedNext ==
  /\ Next
  /\ Exclusive'
  /\ \A l \in Letters : Delete(l) => \A c \in Callers : ~InHands(c, l)

LockedSpec == Init /\ [][LockedNext]_vars

(* A store whose operations are atomic: each takes the record from what is *)
(* stored to what the operation makes of it.                               *)
Operation(l, m) ==
  \/ m.status = "unsent" /\ \E r \in Agents : db'[l] = NewMessage(r)
  \/ \E op \in Calls : Stored(m) /\ Accepts(op, m) /\ db'[l] = Updated(op, m)
  \/ m.status = "queued" /\ db'[l] = PollClaim(m)
  \/ Stored(m) /\ db'[l] = Remove(NewMessage(m.receiver))

AtomicStep ==
  \E l \in Letters :
    /\ Operation(l, db[l])
    /\ \A k \in Letters \ {l} : db'[k] = db[k]

AtomicStore == [][AtomicStep]_db

(* What a call is about to insert is what its operation makes of the record *)
(* that lies there now, and a claim it won is one that would be won now.    *)
Made(m, copy, won) ==
  \/ m.status = "unsent" /\ ~won /\ \E r \in Agents : copy = NewMessage(r)
  \/ \E op \in Calls :
       /\ Stored(m) /\ Accepts(op, m) /\ copy = Updated(op, m)
       /\ won = (op = "mark_pushing" /\ ClaimWins(m))
  \/ m.status = "queued" /\ ~won /\ copy = PollClaim(m)

Fresh == \A c \in Callers, l \in Letters :
           InHands(c, l) => Made(db[l], call[c].copy, call[c].won)

WonInHand ==
  \A c \in Callers : call[c].won => call[c].pc = "write" /\ call[c].agent = "none"

LockInv == IInv /\ Exclusive /\ Fresh /\ WonInHand

(* A call takes a letter in hand, or none; the database stays.              *)
LEMMA FreshCall ==
  ASSUME IInv, Fresh, WonInHand, NEW c \in Callers, NEW s \in CallState,
         call' = [call EXCEPT ![c] = s], UNCHANGED db,
         s.pc = "write" => s.key \in Letters /\ Made(db[s.key], s.copy, s.won),
         s.won => s.pc = "write" /\ s.agent = "none"
  PROVE  Fresh' /\ WonInHand'
<1>1. \A d \in Callers : call'[d] = IF d = c THEN s ELSE call[d]
  BY DEF IInv, TypeOK
<1>2. ASSUME NEW d \in Callers, NEW l \in Letters, InHands(d, l)'
      PROVE  Made(db'[l], call'[d].copy, call'[d].won)
  BY <1>1, <1>2 DEF Fresh, InHands
<1>3. WonInHand'
  BY <1>1 DEF WonInHand
<1>4. Fresh'
  <2> SUFFICES ASSUME NEW d \in Callers, NEW l \in Letters, InHands(d, l)'
               PROVE  Made(db[l], call[d].copy, call[d].won)'
    BY DEF Fresh
  <2> QED BY <1>2 DEF Made
<1> QED BY <1>3, <1>4

LEMMA ScanFresh ==
  ASSUME LockInv, NEW c \in Callers, NEW op \in Calls, NEW l \in Letters, Scan(c, op, l)
  PROVE  Fresh' /\ WonInHand' /\ UNCHANGED db
<1> DEFINE u == Updated(op, db[l])
           w == (op = "mark_pushing" /\ ClaimWins(db[l]))
           s == [Quiet EXCEPT !.pc = "write", !.key = l, !.copy = u, !.won = w]
<1>1. db[l] \in Message /\ Sound(db[l], wins[l]) /\ wins[l] \in Nat
  BY MaxAttemptsAssumption DEF LockInv, IInv, TypeOK
<1>2. Stored(db[l]) /\ Accepts(op, db[l])
  BY DEF Scan
<1>3. u \in Message
  BY <1>1, <1>2, UpdatedIsSound
<1>4. Made(db[l], u, w)
  BY <1>2 DEF Made
<1>5. w \in BOOLEAN
  OBVIOUS
<1>6. call' = [call EXCEPT ![c] = s] /\ UNCHANGED db
  BY DEF Scan
<1> HIDE DEF u, w
<1>7. s \in CallState /\ s.pc = "write" /\ s.key = l /\ s.copy = u /\ s.won = w
      /\ s.agent = "none"
  BY <1>3, <1>5, QuietOK DEF CallState, Quiet
<1> HIDE DEF s
<1> QED BY <1>4, <1>6, <1>7, FreshCall DEF LockInv

LEMMA CountFresh ==
  ASSUME LockInv, NEW c \in Callers, NEW l \in Letters, NEW r \in Agents, Count(c, l, r)
  PROVE  Fresh' /\ WonInHand' /\ UNCHANGED db
<1> DEFINE s == [Quiet EXCEPT !.pc = "write", !.key = l, !.copy = NewMessage(r)]
<1>1. NewMessage(r) \in Message
  BY MaxAttemptsAssumption DEF NewMessage, Message, Status
<1>2. call' = [call EXCEPT ![c] = s] /\ UNCHANGED db /\ db[l].status = "unsent"
  BY DEF Count
<1>3. s \in CallState /\ s.pc = "write" /\ s.key = l /\ s.copy = NewMessage(r) /\ ~s.won
  BY <1>1, QuietOK DEF CallState
<1> HIDE DEF s
<1>4. Made(db[s.key], s.copy, s.won)
  BY <1>2, <1>3 DEF Made
<1> QED BY <1>2, <1>3, <1>4, FreshCall DEF LockInv

LEMMA PollReadFresh ==
  ASSUME LockInv, NEW c \in Callers, NEW a \in Agents, PollRead(c, a)
  PROVE  Fresh' /\ WonInHand' /\ UNCHANGED db
<1>1. PICK l \in Ahead(c, a) :
        call' = [call EXCEPT ![c] =
          IF db[l].status = "queued"
          THEN [Quiet EXCEPT !.pc = "write", !.key = l, !.agent = a,
                             !.copy = PollClaim(db[l])]
          ELSE [Quiet EXCEPT !.pc = "scan", !.key = l, !.agent = a]]
  BY DEF PollRead
<1>2. l \in Letters /\ UNCHANGED db
  BY DEF Ahead, Mailbox, PollRead
<1>3. db[l] \in Message
  BY <1>2 DEF LockInv, IInv, TypeOK
<1>4. CASE db[l].status = "queued"
  <2> DEFINE s == [Quiet EXCEPT !.pc = "write", !.key = l, !.agent = a,
                                !.copy = PollClaim(db[l])]
  <2>1. PollClaim(db[l]) \in Message
    BY <1>3, PollClaimEffect
  <2>2. /\ s \in CallState /\ s.pc = "write"
        /\ s.key = l /\ s.copy = PollClaim(db[l]) /\ ~s.won
    BY <1>2, <2>1, QuietOK DEF CallState
  <2>3. call' = [call EXCEPT ![c] = s]
    BY <1>1, <1>4
  <2> HIDE DEF s
  <2>4. Made(db[s.key], s.copy, s.won)
    BY <1>4, <2>2 DEF Made
  <2> QED BY <1>2, <2>2, <2>3, <2>4, FreshCall DEF LockInv
<1>5. CASE db[l].status # "queued"
  <2> DEFINE s == [Quiet EXCEPT !.pc = "scan", !.key = l, !.agent = a]
  <2>1. s \in CallState /\ s.pc = "scan" /\ ~s.won
    BY <1>2, QuietOK DEF CallState
  <2>2. call' = [call EXCEPT ![c] = s]
    BY <1>1, <1>5
  <2> HIDE DEF s
  <2> QED BY <1>2, <2>1, <2>2, FreshCall DEF LockInv
<1> QED BY <1>2, <1>4, <1>5

LEMMA PollDoneFresh ==
  ASSUME LockInv, NEW c \in Callers, PollDone(c)
  PROVE  Fresh' /\ WonInHand' /\ UNCHANGED db
BY QuietOK, FreshCall DEF PollDone, LockInv

(* The operation takes effect at its insert.                                *)
LEMMA InsertIsAtomic ==
  ASSUME LockInv, NEW c \in Callers, Insert(c)
  PROVE  Fresh' /\ WonInHand' /\ AtomicStep
<1> DEFINE l == call[c].key
           m == call[c].copy
<1>1. InHands(c, l) /\ l \in Letters /\ m \in Message
  BY DEF Insert, InHands, LockInv, IInv, TypeOK, CallOK, CallState
<1>2. Made(db[l], m, call[c].won)
  BY <1>1 DEF LockInv, Fresh
<1>3. db'[l] = m /\ \A k \in Letters \ {l} : db'[k] = db[k]
  BY <1>1 DEF Insert, LockInv, IInv, TypeOK
<1>4. PICK next \in AfterInsert(c) : call' = [call EXCEPT ![c] = next]
  BY DEF Insert
<1>5. /\ next.pc # "write"
      /\ ~next.won
  BY QuietOK DEF AfterInsert, LockInv, WonInHand, IInv, TypeOK, CallState
<1>6. \A d \in Callers : call'[d] = IF d = c THEN next ELSE call[d]
  BY <1>4 DEF LockInv, IInv, TypeOK
<1> HIDE DEF l, m
<1>7. AtomicStep
  BY <1>1, <1>2, <1>3 DEF AtomicStep, Operation, Made
<1>8. Fresh'
  <2> SUFFICES ASSUME NEW d \in Callers, NEW k \in Letters, InHands(d, k)'
               PROVE  Made(db[k], call[d].copy, call[d].won)'
    BY DEF Fresh
  <2>1. d # c /\ call'[d] = call[d] /\ InHands(d, k)
    BY <1>5, <1>6 DEF InHands
  <2>2. k # l
    BY <1>1, <2>1 DEF LockInv, Exclusive
  <2>3. db'[k] = db[k] /\ Made(db[k], call[d].copy, call[d].won)
    BY <1>3, <2>1, <2>2 DEF LockInv, Fresh
  <2> QED BY <2>1, <2>3 DEF Made
<1>9. WonInHand'
  BY <1>5, <1>6 DEF LockInv, WonInHand
<1> QED BY <1>7, <1>8, <1>9

LEMMA DeleteIsAtomic ==
  ASSUME LockInv, NEW l \in Letters, Delete(l), \A c \in Callers : ~InHands(c, l)
  PROVE  Fresh' /\ WonInHand' /\ AtomicStep
<1>1. /\ Stored(db[l]) /\ db'[l] = Remove(NewMessage(db[l].receiver))
      /\ \A k \in Letters \ {l} : db'[k] = db[k]
      /\ UNCHANGED call
  BY DEF Delete, LockInv, IInv, TypeOK
<1>2. AtomicStep
  BY <1>1 DEF AtomicStep, Operation
<1>3. Fresh'
  <2> SUFFICES ASSUME NEW d \in Callers, NEW k \in Letters, InHands(d, k)'
               PROVE  Made(db[k], call[d].copy, call[d].won)'
    BY DEF Fresh
  <2>1. InHands(d, k) /\ k # l
    BY <1>1 DEF InHands
  <2> QED BY <1>1, <2>1 DEF Made, LockInv, Fresh
<1> QED BY <1>1, <1>2, <1>3 DEF LockInv, WonInHand

LEMMA LockedStep ==
  ASSUME LockInv, [LockedNext]_vars
  PROVE  LockInv' /\ [AtomicStep]_db
<1>1. IInv'
  BY SledNext DEF LockInv, LockedNext
<1>2. CASE UNCHANGED vars
  BY <1>1, <1>2 DEF vars, LockInv, Exclusive, Fresh, Made, InHands, WonInHand
<1>3. CASE LockedNext
  <2>1. Exclusive'
    BY <1>3 DEF LockedNext
  <2>2. ASSUME NEW c \in Callers, NEW op \in Calls, NEW l \in Letters, Scan(c, op, l)
        PROVE  Fresh' /\ WonInHand' /\ [AtomicStep]_db
    BY <2>2, ScanFresh
  <2>3. ASSUME NEW c \in Callers, NEW l \in Letters, NEW r \in Agents, Count(c, l, r)
        PROVE  Fresh' /\ WonInHand' /\ [AtomicStep]_db
    BY <2>3, CountFresh
  <2>4. ASSUME NEW c \in Callers, NEW a \in Agents, PollRead(c, a)
        PROVE  Fresh' /\ WonInHand' /\ [AtomicStep]_db
    BY <2>4, PollReadFresh
  <2>5. ASSUME NEW c \in Callers, PollDone(c)
        PROVE  Fresh' /\ WonInHand' /\ [AtomicStep]_db
    BY <2>5, PollDoneFresh
  <2>6. ASSUME NEW c \in Callers, Insert(c)
        PROVE  Fresh' /\ WonInHand' /\ [AtomicStep]_db
    BY <2>6, InsertIsAtomic
  <2>7. ASSUME NEW l \in Letters, Delete(l)
        PROVE  Fresh' /\ WonInHand' /\ [AtomicStep]_db
    BY <1>3, <2>7, DeleteIsAtomic DEF LockedNext
  <2>8. Fresh' /\ WonInHand' /\ [AtomicStep]_db
    BY <1>3, <2>2, <2>3, <2>4, <2>5, <2>6, <2>7 DEF LockedNext, Next
  <2> QED BY <1>1, <2>1, <2>8 DEF LockInv
<1> QED BY <1>2, <1>3

LEMMA LockedInit == Init => LockInv
<1> SUFFICES ASSUME Init PROVE LockInv
  OBVIOUS
<1>1. \A c \in Callers : call[c].pc # "write" /\ ~call[c].won
  BY QuietOK DEF Init
<1> QED BY <1>1, SledInit DEF LockInv, Exclusive, Fresh, WonInHand, InHands

LEMMA LockedInvariance == LockedSpec => []LockInv
BY LockedInit, LockedStep, PTL DEF LockedSpec

(* With a lock per letter SledStore is a store of atomic operations: no     *)
(* update is lost, and a deleted letter never comes back (update_one,       *)
(* sled_store.rs:40-58).                                                    *)
THEOREM LocksMakeStoreAtomic == LockedSpec => AtomicStore
BY LockedInit, LockedStep, PTL DEF LockedSpec, AtomicStore

(* With a lock per letter mark_pushing is the CAS that store/mod.rs:36      *)
(* calls it; without, the run double_claim shows two winners.               *)
THEOREM LocksMakeClaimsExclusive == LockedSpec => ClaimIsExclusive
<1>1. ASSUME LockInv, [LockedNext]_vars,
             NEW c \in Callers, call[c].won, call'[c] = Quiet, call' # call
      PROVE  db[call[c].key].status # "pushing"
  <2>1. InHands(c, call[c].key) /\ call[c].key \in Letters
    BY <1>1 DEF LockInv, WonInHand, InHands, IInv, CallOK
  <2>2. Made(db[call[c].key], call[c].copy, call[c].won)
    BY <1>1, <2>1 DEF LockInv, Fresh
  <2>3. ClaimWins(db[call[c].key])
    BY <1>1, <2>2 DEF Made
  <2> QED BY <2>3, StartRow DEF ClaimWins
<1>2. ASSUME LockInv, [LockedNext]_vars
      PROVE  [\A c \in Callers : call[c].won /\ call'[c] = Quiet
                => db[call[c].key].status # "pushing"]_vars
  <2> SUFFICES ASSUME NEW c \in Callers, call[c].won, call'[c] = Quiet
               PROVE  db[call[c].key].status # "pushing"
    OBVIOUS
  <2>1. call'[c] # call[c]
    BY QuietOK
  <2> QED BY <1>1, <1>2, <2>1
<1> QED BY LockedInvariance, <1>2, PTL DEF LockedSpec, ClaimIsExclusive
=============================================================================
