---------------------------- MODULE LetterState ----------------------------
(***************************************************************************)
(* The letter state machine of src/state.rs: one table of legal moves and  *)
(* the pure function that consults it.  Everything here is a constant;     *)
(* LetterStore builds the store's operations on it.                        *)
(***************************************************************************)

(* MessageStatus, by its serialised names. *)
Status == {"queued", "pushing", "delivered", "read", "acked", "dead"}

(* Event, by Event::name.  Payloads (a reason, a note) are left out: the   *)
(* table never looks at them.                                              *)
Event == {"push_started", "push_ok", "push_rejected", "push_errored",
          "poll_claimed", "read_receipt", "ack", "give_up", "revive_auth"}

TRANSITIONS ==
  { <<"queued",    "push_started",  "pushing">>,
    <<"pushing",   "push_ok",       "delivered">>,
    <<"pushing",   "push_rejected", "queued">>,
    <<"pushing",   "push_errored",  "queued">>,
    <<"queued",    "poll_claimed",  "delivered">>,
    <<"delivered", "read_receipt",  "read">>,
    <<"delivered", "ack",           "acked">>,
    <<"read",      "ack",           "acked">>,
    <<"queued",    "give_up",       "dead">>,
    <<"pushing",   "give_up",       "dead">>,
    <<"dead",      "revive_auth",   "queued">> }

(* apply: To(target) when the table has a row.  NoOp (a duplicate           *)
(* push_started on a Pushing letter) and Illegal both leave the status      *)
(* alone, and no caller treats them differently, so one predicate tells     *)
(* To from the rest.                                                        *)
Legal(s, e)  == \E t \in TRANSITIONS : t[1] = s /\ t[2] = e
Target(s, e) == CHOOSE to \in Status : <<s, e, to>> \in TRANSITIONS

(* Letters the receiver has been given: no row leads back out of these.     *)
HandedOver == {"delivered", "read", "acked"}
=============================================================================
