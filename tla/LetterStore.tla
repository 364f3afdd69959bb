---------------------------- MODULE LetterStore ----------------------------
(***************************************************************************)
(* What each BusStore operation does to the letter it is called on, for    *)
(* both backends: store/memory.rs (Durable = FALSE) and                    *)
(* store/sled_store.rs (Durable = TRUE).  An operator maps the stored      *)
(* record to the record written back.  InMemoryStore runs an operation     *)
(* under one write lock; how SledStore's scan-modify-insert interleaves is *)
(* not the concern of these operators.                                     *)
(*                                                                         *)
(* Abstractions: timestamps are flags (stamped or not), except created_at  *)
(* and last_push_at, of which only "older than MIN_BACKOFF" and "within    *)
(* PUSHING_TIMEOUT_SECS" are ever read; an error text is what the code     *)
(* greps it for: "auth" if it has 401, 403 or Unauthorized anywhere (in a  *)
(* URL, in a number of seconds), "error" if not; attempts saturates at     *)
(* MaxAttempts, since the only test on it is attempts >= MAX_ATTEMPTS.     *)
(***************************************************************************)
EXTENDS Naturals, LetterState

CONSTANTS Agents,       \* names letters are addressed to
          MaxAttempts,  \* state::MAX_ATTEMPTS
          Durable       \* TRUE: SledStore, FALSE: InMemoryStore

ASSUME MaxAttemptsAssumption == MaxAttempts \in Nat \ {0}
ASSUME DurableAssumption == Durable \in BOOLEAN

(* A slot no letter was written to yet, and one whose letter was deleted.   *)
NoLetter == {"unsent", "deleted"}

Reason == {"auth", "error"}

Message == [ receiver    : Agents,
             status      : Status \cup NoLetter,
             attempts    : 0..MaxAttempts,
             old         : BOOLEAN,   \* created_at is MIN_BACKOFF ago or more
             recentPush  : BOOLEAN,   \* last_push_at is less than 150 s old
             lastError   : Reason \cup {"none"},
             deadReason  : Reason \cup {"none"},
             deliveredAt : BOOLEAN,
             readAt      : BOOLEAN,
             ackedAt     : BOOLEAN ]

-----------------------------------------------------------------------------
(* Names ending in _Mutant are faulty variants of the operator that follows *)
(* them.  No operator uses them: a check substitutes one to see that a      *)
(* property notices the fault.                                              *)

(* Message::new *)
NewMessage(r) == [ receiver |-> r, status |-> "queued", attempts |-> 0,
                   old |-> FALSE, recentPush |-> FALSE, lastError |-> "none",
                   deadReason |-> "none", deliveredAt |-> FALSE,
                   readAt |-> FALSE, ackedAt |-> FALSE ]

(* The part every operation shares: move along the table or stay.          *)
Moved(m, e) == IF Legal(m.status, e) THEN Target(m.status, e) ELSE m.status

PollClaim(m) == [m EXCEPT !.status = "delivered", !.deliveredAt = TRUE]

(* Silently a no-op on anything that is not Queued. *)
MarkDelivered(m) == IF m.status = "queued" THEN PollClaim(m) ELSE m

ClaimWins_Mutant(m) == m.status \in {"queued", "pushing"}   \* no CAS gate
ClaimWins(m) == Legal(m.status, "push_started")

MarkPushing_Mutant(m) ==                                    \* does not count
  [m EXCEPT !.status = Moved(m, "push_started"), !.recentPush = TRUE]
MarkPushing(m) ==
  [m EXCEPT !.status = Moved(m, "push_started"),
            !.attempts = IF @ < MaxAttempts THEN @ + 1 ELSE @,
            !.recentPush = TRUE]

MarkPushOk_Mutant(m) ==                                     \* does not ask apply
  [m EXCEPT !.status = "delivered", !.deliveredAt = TRUE]
MarkPushOk(m) ==
  [m EXCEPT !.status = Moved(m, "push_ok"),
            !.deliveredAt = @ \/ Legal(m.status, "push_ok")]

ShouldGiveUp_Mutant(attempts) == attempts >= MaxAttempts - 1  \* off by one
ShouldGiveUp(attempts) == attempts >= MaxAttempts

(* The two backends keep different books: InMemoryStore writes dead_reason *)
(* before it knows whether the move is legal and leaves last_error alone   *)
(* on a give-up; SledStore writes last_error always and dead_reason only   *)
(* with the move.                                                          *)
MarkPushFailed_Mutant(m, reason) ==                         \* does not ask apply
  [m EXCEPT !.status = "queued", !.lastError = reason]
MarkPushFailedEager_Mutant(m, reason) ==                    \* reason before the move
  LET givesUp == ShouldGiveUp(m.attempts) /\ reason # "auth"
  IN [m EXCEPT !.status = Moved(m, IF givesUp THEN "give_up" ELSE "push_rejected"),
               !.lastError = reason,
               !.deadReason = IF givesUp THEN reason ELSE @]
MarkPushFailed(m, reason) ==
  LET givesUp == ShouldGiveUp(m.attempts) /\ reason # "auth"
      event   == IF givesUp THEN "give_up" ELSE "push_rejected"
      buried  == givesUp /\ (Legal(m.status, event) \/ ~Durable)
  IN [m EXCEPT !.status = Moved(m, event),
               !.lastError = IF givesUp /\ ~Durable THEN @ ELSE reason,
               !.deadReason = IF buried THEN reason ELSE @]

ReclaimStalePushing_Mutant(m, reason) ==                    \* gives the attempt back
  [m EXCEPT !.status = Moved(m, "push_rejected"), !.lastError = reason,
            !.attempts = @ - 1]
ReclaimStalePushing(m, reason) ==
  [m EXCEPT !.status = Moved(m, "push_rejected"), !.lastError = reason]

AuthDead(m) == m.status = "dead" /\ m.deadReason = "auth"

ReviveAuthDead(m) ==
  IF AuthDead(m)
  THEN [m EXCEPT !.status = Moved(m, "revive_auth"), !.attempts = 0,
                 !.lastError = "none", !.deadReason = "none"]
  ELSE m

CanRead(m) == m.status = "delivered"

MarkRead(m) == [m EXCEPT !.status = "read", !.readAt = TRUE]

(* validate_ack *)
CanAck_Mutant(m) == m.status \in Status \ {"dead"}           \* accepts any live letter
CanAck(m) == m.status \in {"delivered", "read"}

Ack(m) == [m EXCEPT !.status = "acked", !.readAt = TRUE, !.ackedAt = TRUE]

Remove(m) == [m EXCEPT !.status = "deleted"]

(* sweep_once: dispatcher died mid-push. *)
StalePushing_Mutant(m) == m.status = "pushing" /\ m.recentPush  \* test reversed
StalePushing(m) == m.status = "pushing" /\ ~m.recentPush

(* sweep_once: age >= retry_window. *)
Due_Mutant(m) == m.status = "queued" /\ ~m.old               \* test reversed
Due(m) == m.status = "queued" /\ m.old

Stored(m) == m.status \notin NoLetter
=============================================================================
