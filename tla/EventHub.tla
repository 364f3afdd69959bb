------------------------------- MODULE EventHub -------------------------------
(***************************************************************************)
(* The WebSocket feed.  A handler or a dispatch task changes a letter in    *)
(* the store and then, with no lock held, emits an event into a bounded     *)
(* broadcast channel.  GET /ws subscribes, counts the letters for a hello   *)
(* frame, and then streams events, and a new count now and again.           *)
(* A client that falls Capacity events behind loses the oldest and gets a   *)
(* note; nobody waits for it.                                               *)
(*                                                                         *)
(* Of a letter only its status is modelled, and any call may come at any    *)
(* status that its guard allows: PushDispatch says which really do.         *)
(***************************************************************************)
EXTENDS Naturals, Sequences, FiniteSets, LetterState

CONSTANTS Letters, Handlers, Clients,
          Reading,   \* the clients that keep reading from their socket
          Capacity,  \* of the broadcast channel, 256 in the code
          Ghost      \* an id that is no letter's

ASSUME ReadingAssumption == Reading \subseteq Clients
ASSUME HubAssumption == Capacity \in Nat \ {0} /\ Ghost \notin Letters

VARIABLES status,   \* of each letter in the store
          hand,     \* what each handler has yet to do
          client

vars == <<status, hand, client>>
-----------------------------------------------------------------------------
(* An event shows the id and the status of a letter as the store returned   *)
(* it; a deleted letter is shown as it was.                                 *)
BusEvent == [id : Letters \cup {Ghost}, status : Status]

(* sent: letters just stored, to be looked up; todo: events to emit.        *)
Hand == [sent : SUBSET Letters, todo : SUBSET BusEvent]

(* unread  what the channel holds for the client, oldest first              *)
(* lost    something was dropped that the client has not been told of       *)
(* gap     it was told so and has seen no count since                       *)
(* knows   the letters and statuses it has been shown                       *)
Client == [pc : {"off", "subscribed", "greeted", "streaming"},
           unread : Seq(BusEvent), lost : BOOLEAN, gap : BOOLEAN,
           knows : SUBSET BusEvent]

(* The channel never holds more than it has room for. *)
TypeOK ==
  /\ status \in [Letters -> Status \cup {"unsent", "deleted"}]
  /\ hand \in [Handlers -> Hand]
  /\ client \in [Clients -> Client]
  /\ \A c \in Clients : Len(client[c].unread) <= Capacity

Shown(l, s) == [id |-> l, status |-> s]
Free == [sent |-> {}, todo |-> {}]
Away == [pc |-> "off", unread |-> <<>>, lost |-> FALSE, gap |-> FALSE, knows |-> {}]

Init == /\ status = [l \in Letters |-> "unsent"]
        /\ hand = [h \in Handlers |-> Free]
        /\ client = [c \in Clients |-> Away]

Stored(l) == status[l] \in Status
-----------------------------------------------------------------------------
(* A free handler writes s as the status of l, and will emit the events.    *)
Write(h, l, s, events) ==
  /\ hand[h] = Free
  /\ status' = [status EXCEPT ![l] = s]
  /\ hand' = [hand EXCEPT ![h].todo = events]
  /\ UNCHANGED client

(* message/send to one receiver of this pool, from here or from a peer. *)
Send(h, l) ==
  /\ hand[h] = Free
  /\ status[l] = "unsent"
  /\ status' = [status EXCEPT ![l] = "queued"]
  /\ hand' = [hand EXCEPT ![h].sent = {l}]
  /\ UNCHANGED client

(* It looks its letter up among the queued ones.  If it is there no more,   *)
(* the local path makes a letter up, under a new id, and the inbound path   *)
(* says nothing.                                                            *)
LookUp(h) == \E l \in hand[h].sent :
  /\ \E events \in IF status[l] = "queued" THEN {{Shown(l, "queued")}}
                                          ELSE {{Shown(Ghost, "queued")}, {}} :
       hand' = [hand EXCEPT ![h] = [sent |-> {}, todo |-> events]]
  /\ UNCHANGED <<status, client>>

(* message/poll *)
Poll(h) == \E S \in SUBSET {l \in Letters : status[l] = "queued"} \ {{}} :
  /\ hand[h] = Free
  /\ status' = [l \in Letters |-> IF l \in S THEN "delivered" ELSE status[l]]
  /\ hand' = [hand EXCEPT ![h].todo = {Shown(l, "delivered") : l \in S}]
  /\ UNCHANGED client

(* push_succeeded and mark_delivered return a letter that they did not      *)
(* move just as well, and the callers emit "delivered" for it.              *)
Receipt(h, l) ==
  /\ Stored(l)
  /\ \E from \in {"pushing", "queued"} :
       LET s == IF status[l] = from THEN "delivered" ELSE status[l]
       IN Write(h, l, s, {Shown(l, s)})

Read(h, l) == /\ Legal(status[l], "read_receipt")
              /\ Write(h, l, "read", {Shown(l, "read")})

(* Acking once more returns the letter, and is emitted once more. *)
Ack(h, l) == /\ Legal(status[l], "ack") \/ status[l] = "acked"
             /\ Write(h, l, "acked", {Shown(l, "acked")})

Delete(h, l) == Stored(l) /\ Write(h, l, "deleted", {Shown(l, status[l])})

(* What emits nothing: claims, failed and reclaimed pushes, dead letters.   *)
PushQuietly(l) == \E e \in {"push_started", "push_rejected", "give_up"} :
  /\ Legal(status[l], e)
  /\ status' = [status EXCEPT ![l] = Target(status[l], e)]
  /\ UNCHANGED <<hand, client>>

(* The copies of a broadcast, outbound letters, welcome letters, notices. *)
SendQuietly(l) == /\ status[l] = "unsent"
                  /\ status' = [status EXCEPT ![l] = "queued"]
                  /\ UNCHANGED <<hand, client>>

DeleteAll == /\ \E l \in Letters : Stored(l)
             /\ status' = [l \in Letters |-> IF Stored(l) THEN "deleted" ELSE status[l]]
             /\ UNCHANGED <<hand, client>>
-----------------------------------------------------------------------------
(* What a client has once e is sent: the oldest event makes room. *)
Buffered_Mutant(c, e) == [c EXCEPT !.unread = Append(@, e)]      \* never trimmed
Buffered(c, e) ==
  IF Len(c.unread) < Capacity THEN [c EXCEPT !.unread = Append(@, e)]
  ELSE [c EXCEPT !.unread = Append(Tail(@), e), !.lost = TRUE]

(* EventHub::emit.  The letters of one poll come in some order. *)
Emit(h) == \E e \in hand[h].todo :
  /\ hand' = [hand EXCEPT ![h].todo = @ \ {e}]
  /\ client' = [c \in Clients |-> IF client[c].pc = "off" THEN client[c]
                                  ELSE Buffered(client[c], e)]
  /\ UNCHANGED status
-----------------------------------------------------------------------------
(* The counts of a hello or heartbeat frame: letters queued, unread and     *)
(* acked.  No count is kept of those in flight, read or dead.               *)
Counted == {Shown(l, status[l]) : l \in {k \in Letters :
                                      status[k] \in {"queued", "delivered", "acked"}}}

(* stream: hub.tx.subscribe() *)
Open(c) == /\ client[c].pc = "off"
           /\ client' = [client EXCEPT ![c].pc = "subscribed"]
           /\ UNCHANGED <<status, hand>>

(* list_all for the hello *)
Hello(c) == /\ client[c].pc = "subscribed"
            /\ client' = [client EXCEPT ![c].pc = "greeted", ![c].knows = Counted]
            /\ UNCHANGED <<status, hand>>

StartFresh_Mutant(c) ==                              \* subscribes after the count
  /\ client[c].pc = "greeted"
  /\ client' = [client EXCEPT ![c].pc = "streaming", ![c].unread = <<>>,
                              ![c].lost = FALSE]
  /\ UNCHANGED <<status, hand>>
(* The hello is sent, the loop begins. *)
Start(c) == /\ client[c].pc = "greeted"
            /\ client' = [client EXCEPT ![c].pc = "streaming"]
            /\ UNCHANGED <<status, hand>>

(* events.next(), Some(Ok) *)
Pump(c) == /\ client[c].pc = "streaming"
           /\ ~client[c].lost
           /\ client[c].unread # <<>>
           /\ client' = [client EXCEPT ![c].knows = @ \cup {Head(client[c].unread)},
                                       ![c].unread = Tail(@)]
           /\ UNCHANGED <<status, hand>>

(* events.next(), Some(Err): the note comes before the oldest event kept. *)
Lagged(c) == /\ client[c].pc = "streaming"
             /\ client[c].lost
             /\ client' = [client EXCEPT ![c].lost = FALSE, ![c].gap = TRUE]
             /\ UNCHANGED <<status, hand>>

BeatOld_Mutant(c) ==                             \* repeats what the hello said
  /\ client[c].pc = "streaming"
  /\ client' = [client EXCEPT ![c].gap = FALSE]
  /\ UNCHANGED <<status, hand>>
(* heartbeat.tick() *)
Beat(c) == /\ client[c].pc = "streaming"
           /\ client' = [client EXCEPT ![c].knows = @ \cup Counted, ![c].gap = FALSE]
           /\ UNCHANGED <<status, hand>>

(* The client leaves, or a frame cannot be sent. *)
Close(c) == /\ client[c].pc # "off"
            /\ client' = [client EXCEPT ![c] = Away]
            /\ UNCHANGED <<status, hand>>
-----------------------------------------------------------------------------
Calls == \/ \E h \in Handlers : Poll(h) \/ LookUp(h) \/ Emit(h)
         \/ \E h \in Handlers, l \in Letters :
              Send(h, l) \/ Receipt(h, l) \/ Read(h, l) \/ Ack(h, l) \/ Delete(h, l)
         \/ \E l \in Letters : PushQuietly(l) \/ SendQuietly(l)
         \/ DeleteAll

Feed == \E c \in Clients : \/ Open(c) \/ Hello(c) \/ Start(c) \/ Pump(c)
                           \/ Lagged(c) \/ Beat(c) \/ Close(c)

Next == Calls \/ Feed

Spec == Init /\ [][Next]_vars

(* Handlers run to their end whoever listens.  A client that reads is       *)
(* served; the others may leave the stream hanging in a send.  select!      *)
(* picks among what is ready at random, so the heartbeat gets its turn.     *)
Fairness ==
  /\ \A h \in Handlers : WF_vars(LookUp(h) \/ Emit(h))
  /\ \A c \in Reading : /\ WF_vars(Hello(c) \/ Start(c) \/ Pump(c) \/ Lagged(c))
                        /\ WF_vars(Beat(c))

FairSpec == Spec /\ Fairness
-----------------------------------------------------------------------------
InHand == UNION {hand[h].todo : h \in Handlers}
Waiting(c) == {client[c].unread[i] : i \in 1..Len(client[c].unread)}

(* A client that was not told of a gap knows of every letter handed over    *)
(* or acked, from the count it was greeted with or from an event, or the    *)
(* event is on its way.  The events of one letter may come in any order,    *)
(* and the count and an event may tell the same twice; what cannot be is    *)
(* that a change falls between the count and the first event.               *)
NothingSlipsBy == \A c \in Clients, l \in Letters :
  /\ client[c].pc \in {"greeted", "streaming"}
  /\ ~client[c].lost /\ ~client[c].gap
  /\ status[l] \in {"delivered", "acked"}
  => Shown(l, status[l]) \in client[c].knows \cup Waiting(c) \cup InHand

(* A client that reads learns that a letter was acked, whatever it lost on  *)
(* the way, unless the letter is deleted first or the client leaves.        *)
ObserversCatchUp == \A c \in Reading, l \in Letters :
  (client[c].pc = "streaming" /\ status[l] = "acked") ~>
     \/ client[c].pc = "off"
     \/ status[l] = "deleted"
     \/ Shown(l, "acked") \in client[c].knows
=============================================================================
