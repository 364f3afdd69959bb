------------------------- MODULE LetterStoreProofs -------------------------
(* Lemmas about the letter state machine and the store's operations.        *)
EXTENDS LetterStore, TLAPS

(* "One row per legal (from, event) -> to" (state.rs:75): the table is a    *)
(* function, so the order in which apply scans it does not matter.          *)
THEOREM TableIsAFunction ==
  ASSUME NEW t \in TRANSITIONS, NEW u \in TRANSITIONS, t[1] = u[1], t[2] = u[2]
  PROVE  t = u
BY DEF TRANSITIONS

(* A row of the table is what apply answers for its state and event.        *)
LEMMA RowDecides ==
  ASSUME NEW s, NEW e, NEW to \in Status, <<s, e, to>> \in TRANSITIONS
  PROVE  Legal(s, e) /\ Target(s, e) = to
<1>1. Legal(s, e)
  BY DEF Legal
<1>2. \A x \in Status : <<s, e, x>> \in TRANSITIONS => x = to
  BY TableIsAFunction
<1>3. Target(s, e) = to
  BY <1>2 DEF Target
<1> QED BY <1>1, <1>3

(* The five events the operations raise, by the status they find.           *)
LEMMA StartRow ==
  ASSUME NEW s
  PROVE  /\ Legal(s, "push_started") <=> s = "queued"
         /\ Target("queued", "push_started") = "pushing"
<1>1. Legal(s, "push_started") <=> s = "queued"
  BY DEF Legal, TRANSITIONS
<1>2. <<"queued", "push_started", "pushing">> \in TRANSITIONS /\ "pushing" \in Status
  BY DEF TRANSITIONS, Status
<1> QED BY <1>1, <1>2, RowDecides

LEMMA OkRow ==
  ASSUME NEW s
  PROVE  /\ Legal(s, "push_ok") <=> s = "pushing"
         /\ Target("pushing", "push_ok") = "delivered"
<1>1. Legal(s, "push_ok") <=> s = "pushing"
  BY DEF Legal, TRANSITIONS
<1>2. <<"pushing", "push_ok", "delivered">> \in TRANSITIONS /\ "delivered" \in Status
  BY DEF TRANSITIONS, Status
<1> QED BY <1>1, <1>2, RowDecides

LEMMA RejectRow ==
  ASSUME NEW s
  PROVE  /\ Legal(s, "push_rejected") <=> s = "pushing"
         /\ Target("pushing", "push_rejected") = "queued"
<1>1. Legal(s, "push_rejected") <=> s = "pushing"
  BY DEF Legal, TRANSITIONS
<1>2. <<"pushing", "push_rejected", "queued">> \in TRANSITIONS /\ "queued" \in Status
  BY DEF TRANSITIONS, Status
<1> QED BY <1>1, <1>2, RowDecides

LEMMA GiveUpRow ==
  ASSUME NEW s
  PROVE  /\ Legal(s, "give_up") <=> s \in {"queued", "pushing"}
         /\ Target("queued", "give_up") = "dead"
         /\ Target("pushing", "give_up") = "dead"
<1>1. Legal(s, "give_up") <=> s \in {"queued", "pushing"}
  BY DEF Legal, TRANSITIONS
<1>2. /\ <<"queued", "give_up", "dead">> \in TRANSITIONS
      /\ <<"pushing", "give_up", "dead">> \in TRANSITIONS
      /\ "dead" \in Status
  BY DEF TRANSITIONS, Status
<1> QED BY <1>1, <1>2, RowDecides

LEMMA ReviveRow ==
  ASSUME NEW s
  PROVE  /\ Legal(s, "revive_auth") <=> s = "dead"
         /\ Target("dead", "revive_auth") = "queued"
<1>1. Legal(s, "revive_auth") <=> s = "dead"
  BY DEF Legal, TRANSITIONS
<1>2. <<"dead", "revive_auth", "queued">> \in TRANSITIONS /\ "queued" \in Status
  BY DEF TRANSITIONS, Status
<1> QED BY <1>1, <1>2, RowDecides
-----------------------------------------------------------------------------
(* What each operation makes of a letter.                                   *)

LEMMA MarkPushingEffect ==
  ASSUME NEW m \in Message, ClaimWins(m)
  PROVE  /\ MarkPushing(m) \in Message
         /\ m.status = "queued"
         /\ MarkPushing(m).status = "pushing"
         /\ MarkPushing(m).receiver = m.receiver
         /\ MarkPushing(m).attempts > 0
         /\ MarkPushing(m).deadReason = m.deadReason
<1>1. m.status = "queued" /\ Moved(m, "push_started") = "pushing"
  BY StartRow DEF ClaimWins, Moved
<1>2. (IF m.attempts < MaxAttempts THEN m.attempts + 1 ELSE m.attempts) \in 1..MaxAttempts
  BY MaxAttemptsAssumption DEF Message
<1> DEFINE counted == IF m.attempts < MaxAttempts THEN m.attempts + 1 ELSE m.attempts
<1>3. MarkPushing(m) = [m EXCEPT !.status = "pushing", !.attempts = counted,
                                 !.recentPush = TRUE]
  BY <1>1 DEF MarkPushing
<1>4. counted \in 0..MaxAttempts /\ counted > 0
  BY <1>2, MaxAttemptsAssumption
<1> HIDE DEF counted
<1> QED BY <1>1, <1>3, <1>4 DEF Message, Status

LEMMA MarkPushOkEffect ==
  ASSUME NEW m \in Message
  PROVE  /\ MarkPushOk(m) \in Message
         /\ MarkPushOk(m).status = IF m.status = "pushing" THEN "delivered" ELSE m.status
         /\ MarkPushOk(m).receiver = m.receiver
         /\ MarkPushOk(m).attempts = m.attempts
         /\ MarkPushOk(m).deadReason = m.deadReason
<1>1. Moved(m, "push_ok") = IF m.status = "pushing" THEN "delivered" ELSE m.status
  BY OkRow DEF Moved
<1>2. Moved(m, "push_ok") \in Status \cup NoLetter
  BY <1>1 DEF Message, Status
<1>3. (m.deliveredAt \/ Legal(m.status, "push_ok")) \in BOOLEAN
  OBVIOUS
<1> QED BY <1>1, <1>2, <1>3 DEF MarkPushOk, Message

LEMMA MarkPushFailedEffect ==
  ASSUME NEW m \in Message, NEW reason \in Reason
  PROVE  LET n == MarkPushFailed(m, reason)
             givesUp == m.attempts = MaxAttempts /\ reason # "auth"
         IN /\ n \in Message
            /\ n.receiver = m.receiver
            /\ n.attempts = m.attempts
            /\ n.status = CASE givesUp /\ m.status \in {"queued", "pushing"} -> "dead"
                          [] ~givesUp /\ m.status = "pushing" -> "queued"
                          [] OTHER -> m.status
            /\ n.deadReason \in {m.deadReason, "error"}
            /\ n.deadReason # m.deadReason => givesUp
            /\ givesUp /\ m.status \in {"queued", "pushing"} => n.deadReason = "error"
            /\ Durable /\ n.status # "dead" => n.deadReason = m.deadReason
<1> DEFINE givesUp == ShouldGiveUp(m.attempts) /\ reason # "auth"
           event   == IF givesUp THEN "give_up" ELSE "push_rejected"
<1>1. ShouldGiveUp(m.attempts) <=> m.attempts = MaxAttempts
  BY MaxAttemptsAssumption DEF ShouldGiveUp, Message
<1>2. CASE givesUp
  <2>1. Moved(m, "give_up") = IF m.status \in {"queued", "pushing"} THEN "dead" ELSE m.status
    BY GiveUpRow DEF Moved
  <2>2. Moved(m, "give_up") \in Status \cup NoLetter
    BY <2>1 DEF Message, Status
  <2>3. reason = "error"
    BY <1>2 DEF Reason
  <2>4. m.status \in {"queued", "pushing"} <=> Legal(m.status, "give_up")
    BY GiveUpRow
  <2> QED BY <1>1, <1>2, <2>1, <2>2, <2>3, <2>4 DEF MarkPushFailed, Message, Reason
<1>3. CASE ~givesUp
  <2>1. Moved(m, "push_rejected") = IF m.status = "pushing" THEN "queued" ELSE m.status
    BY RejectRow DEF Moved
  <2>2. Moved(m, "push_rejected") \in Status \cup NoLetter
    BY <2>1 DEF Message, Status
  <2> QED BY <1>1, <1>3, <2>1, <2>2 DEF MarkPushFailed, Message, Reason
<1> QED BY <1>2, <1>3

LEMMA ReclaimEffect ==
  ASSUME NEW m \in Message, NEW reason \in Reason
  PROVE  /\ ReclaimStalePushing(m, reason) \in Message
         /\ ReclaimStalePushing(m, reason).status =
              IF m.status = "pushing" THEN "queued" ELSE m.status
         /\ ReclaimStalePushing(m, reason).receiver = m.receiver
         /\ ReclaimStalePushing(m, reason).attempts = m.attempts
         /\ ReclaimStalePushing(m, reason).deadReason = m.deadReason
<1>1. Moved(m, "push_rejected") = IF m.status = "pushing" THEN "queued" ELSE m.status
  BY RejectRow DEF Moved
<1>2. Moved(m, "push_rejected") \in Status \cup NoLetter
  BY <1>1 DEF Message, Status
<1> QED BY <1>1, <1>2 DEF ReclaimStalePushing, Message, Reason

LEMMA ReviveEffect ==
  ASSUME NEW m \in Message
  PROVE  /\ ReviveAuthDead(m) \in Message
         /\ ReviveAuthDead(m).receiver = m.receiver
         /\ ~AuthDead(m) => ReviveAuthDead(m) = m
         /\ AuthDead(m) => ReviveAuthDead(m).status = "queued"
<1>1. CASE AuthDead(m)
  <2>1. Moved(m, "revive_auth") = "queued"
    BY <1>1, ReviveRow DEF Moved, AuthDead
  <2>2. ReviveAuthDead(m) = [m EXCEPT !.status = "queued", !.attempts = 0,
                                      !.lastError = "none", !.deadReason = "none"]
    BY <1>1, <2>1 DEF ReviveAuthDead
  <2>3. 0 \in 0..MaxAttempts /\ "queued" \in Status \cup NoLetter
    BY MaxAttemptsAssumption DEF Status
  <2>4. ReviveAuthDead(m) \in Message
    BY <2>2, <2>3 DEF Message
  <2> QED BY <1>1, <2>2, <2>4 DEF Message
<1>2. CASE ~AuthDead(m)
  BY <1>2 DEF ReviveAuthDead
<1> QED BY <1>1, <1>2

LEMMA PollClaimEffect ==
  ASSUME NEW m \in Message
  PROVE  /\ PollClaim(m) \in Message
         /\ PollClaim(m).status = "delivered"
         /\ PollClaim(m).receiver = m.receiver
BY DEF PollClaim, Message, Status

LEMMA MarkDeliveredEffect ==
  ASSUME NEW m \in Message
  PROVE  /\ MarkDelivered(m) \in Message
         /\ MarkDelivered(m).status = IF m.status = "queued" THEN "delivered" ELSE m.status
         /\ MarkDelivered(m).receiver = m.receiver
         /\ m.status # "queued" => MarkDelivered(m) = m
BY PollClaimEffect DEF MarkDelivered

LEMMA RecipientEffect ==
  ASSUME NEW m \in Message
  PROVE  /\ MarkRead(m) \in Message /\ MarkRead(m).status = "read"
         /\ Ack(m) \in Message /\ Ack(m).status = "acked"
         /\ Remove(m) \in Message /\ Remove(m).status = "deleted"
BY DEF MarkRead, Ack, Remove, Message, Status, NoLetter
=============================================================================
