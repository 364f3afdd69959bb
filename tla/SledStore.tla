----------------------------- MODULE SledStore -----------------------------
(***************************************************************************)
(* store/sled_store.rs under several threads.  sled makes one read and one *)
(* insert of a key atomic; the store builds its operations on them with no *)
(* lock and no compare_and_swap.  update_one scans to the letter, applies  *)
(* its closure to a copy and inserts the copy; between the two any other   *)
(* call of the runtime's worker threads may read, insert or remove.  What  *)
(* the closures do is LetterStore's business.                              *)
(*                                                                         *)
(* Left out: mark_dead, which no handler calls; revive_auth_dead, whose    *)
(* candidates died of a credential error, which none does (BooksAgree);    *)
(* the agent markers.                                                      *)
(***************************************************************************)
EXTENDS LetterStore, FiniteSets

CONSTANTS Letters,   \* letter ids, in key order within a receiver
          Callers,   \* calls of the store that may be under way at once
          Capacity   \* SledStore::capacity

ASSUME SledAssumption == Durable
ASSUME KeysAssumption == Agents # {} /\ Letters \subseteq Nat \ {0}

VARIABLES db,      \* the record under each letter's key
          call,    \* the call each caller is in
          wins     \* history: claims won on each letter (saturates)

vars == <<db, call, wins>>

(* pc    idle, scan (poll, between two keys) or write (the copy is made)    *)
(* key   the letter read (0: none yet)                                      *)
(* copy  what will be inserted under its key                                *)
(* agent whose mailbox a poll goes through, "none" in other calls           *)
(* won   the call will return Ok(true): a claim that was won                *)
CallState ==
  [ pc : {"idle", "scan", "write"}, key : Letters \cup {0}, copy : Message,
    agent : Agents \cup {"none"}, won : BOOLEAN ]

Blank == [NewMessage(CHOOSE a \in Agents : TRUE) EXCEPT !.status = "unsent"]

Quiet == [pc |-> "idle", key |-> 0, copy |-> Blank, agent |-> "none", won |-> FALSE]

TypeOK ==
  /\ db \in [Letters -> Message]
  /\ call \in [Callers -> CallState]
  /\ wins \in [Letters -> 0..MaxAttempts]

Init ==
  /\ db = [l \in Letters |-> Blank]
  /\ call = [c \in Callers |-> Quiet]
  /\ wins = [l \in Letters |-> 0]
-----------------------------------------------------------------------------
(* The closures update_one is called with, by the operation's name.  Each   *)
(* is the record it leaves in the copy.  A claim that loses, an outcome     *)
(* that is illegal and a second ack leave the copy as it was read, and it   *)
(* is inserted all the same.                                                *)
Calls == {"mark_delivered", "mark_pushing", "mark_push_ok", "refused",
          "unauthorized", "reclaim", "mark_read", "ack"}

Claimed_Mutant(m) == MarkPushing(m)          \* a lost claim counts, too
Claimed(m) == IF ClaimWins(m) THEN MarkPushing(m) ELSE m

Accepts(op, m) ==
  /\ op = "mark_read" => CanRead(m)
  /\ op = "ack" => CanAck(m) \/ m.status = "acked"

Updated(op, m) ==
  CASE op = "mark_delivered" -> MarkDelivered(m)
    [] op = "mark_pushing"   -> Claimed(m)
    [] op = "mark_push_ok"   -> MarkPushOk(m)
    [] op = "refused"        -> MarkPushFailed(m, "error")
    [] op = "unauthorized"   -> MarkPushFailed(m, "auth")
    [] op = "reclaim"        -> ReclaimStalePushing(m, "error")
    [] op = "mark_read"      -> MarkRead(m)
    [] op = "ack"            -> IF m.status = "acked" THEN m ELSE Ack(m)

(* update_one, up to the insert.  A letter that is not found, or a closure  *)
(* that returns an error, ends the call with nothing done.                  *)
Scan(c, op, l) ==
  /\ call[c] = Quiet
  /\ Stored(db[l])
  /\ Accepts(op, db[l])
  /\ call' = [call EXCEPT ![c] =
       [Quiet EXCEPT !.pc = "write", !.key = l, !.copy = Updated(op, db[l]),
                     !.won = (op = "mark_pushing" /\ ClaimWins(db[l]))]]
  /\ UNCHANGED <<db, wins>>

Mailbox(a) == {l \in Letters : db[l].receiver = a /\ Stored(db[l])}

(* push, up to the insert: the letters under the receiver's prefix are      *)
(* counted.  Ids are used once.                                             *)
Count(c, l, r) ==
  /\ call[c] = Quiet
  /\ db[l].status = "unsent"
  /\ \A d \in Callers : call[d].pc = "write" => call[d].key # l
  /\ Cardinality(Mailbox(r)) < Capacity
  /\ call' = [call EXCEPT ![c] =
       [Quiet EXCEPT !.pc = "write", !.key = l, !.copy = NewMessage(r)]]
  /\ UNCHANGED <<db, wins>>

(* poll goes through the receiver's keys in order and reads each when its   *)
(* iterator gets there, passing over those that are not queued then.        *)
Ahead(c, a) == {l \in Mailbox(a) : call[c].key < l}

PollRead(c, a) ==
  /\ call[c] = Quiet \/ (call[c].pc = "scan" /\ call[c].agent = a)
  /\ \E l \in Ahead(c, a) :
       /\ \A k \in Ahead(c, a) : l <= k
       /\ call' = [call EXCEPT ![c] =
            IF db[l].status = "queued"
            THEN [Quiet EXCEPT !.pc = "write", !.key = l, !.agent = a,
                               !.copy = PollClaim(db[l])]
            ELSE [Quiet EXCEPT !.pc = "scan", !.key = l, !.agent = a]]
  /\ UNCHANGED <<db, wins>>

PollDone(c) ==
  /\ call[c].pc = "scan"
  /\ Ahead(c, call[c].agent) = {}
  /\ call' = [call EXCEPT ![c] = Quiet]
  /\ UNCHANGED <<db, wins>>

(* The insert, whatever the key holds by now.  A poll ends here when it has *)
(* reached its limit.                                                       *)
AfterInsert(c) ==
  {Quiet} \cup IF call[c].agent = "none" THEN {}
             ELSE {[call[c] EXCEPT !.pc = "scan", !.copy = Blank]}

Insert(c) ==
  LET l == call[c].key IN
  /\ call[c].pc = "write"
  /\ db' = [db EXCEPT ![l] = call[c].copy]
  /\ wins' = [wins EXCEPT ![l] =
                IF call[c].won /\ @ < MaxAttempts THEN @ + 1 ELSE @]
  /\ \E next \in AfterInsert(c) : call' = [call EXCEPT ![c] = next]

(* delete_one, and every single removal of delete_all.  The scan before it  *)
(* decides only whether the key is there.                                   *)
Delete(l) ==
  /\ Stored(db[l])
  /\ db' = [db EXCEPT ![l] = Remove(NewMessage(@.receiver))]
  /\ UNCHANGED <<call, wins>>

Next ==
  \/ \E c \in Callers :
       \/ \E op \in Calls, l \in Letters : Scan(c, op, l)
       \/ \E l \in Letters, r \in Agents : Count(c, l, r)
       \/ \E a \in Agents : PollRead(c, a)
       \/ PollDone(c) \/ Insert(c)
  \/ \E l \in Letters : Delete(l)

Spec == Init /\ [][Next]_vars
-----------------------------------------------------------------------------
(* Properties.                                                              *)

(* The dates and the reason of a record go with its status: what is handed  *)
(* over says when, what is read or acked was marked read (the station       *)
(* sled_store.rs:335 never skips), and exactly the dead carry a reason,     *)
(* never a credential error.  A stale insert brings back an old record, but *)
(* never a mixture of two.                                                  *)
Consistent(m) ==
  /\ m.deliveredAt <=> m.status \in HandedOver
  /\ m.readAt <=> m.status \in {"read", "acked"}
  /\ m.ackedAt <=> m.status = "acked"
  /\ IF m.status = "dead"
     THEN m.deadReason = "error" /\ m.attempts = MaxAttempts
     ELSE m.deadReason = "none"

BooksAgree == \A l \in Letters : Consistent(db[l])

(* However inserts overtake each other, a letter is dead only after         *)
(* MAX_ATTEMPTS claims on it were won: races lose attempts and invent none. *)
DeathNeedsClaims ==
  \A l \in Letters : db[l].status = "dead" => wins[l] = MaxAttempts

(* mark_pushing (store/mod.rs:36-40): "Returns Ok(true) if this caller won  *)
(* the right to push, Ok(false) if another dispatcher/sweeper already holds *)
(* the letter (Pushing)": no claim is won on a letter that is in Pushing.   *)
ClaimIsExclusive ==
  [][\A c \in Callers :
       call[c].won /\ call'[c] = Quiet => db[call[c].key].status # "pushing"]_vars
=============================================================================
