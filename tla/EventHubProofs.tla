---------------------------- MODULE EventHubProofs ----------------------------
(***************************************************************************)
(* Proofs about EventHub, for any letters, handlers, clients and capacity.  *)
(***************************************************************************)
EXTENDS EventHub, TLAPS

(* A handler that has a letter to look up has nothing to emit yet.          *)
HandsOK == \A h \in Handlers : hand[h].sent = {} \/ hand[h].todo = {}

HubInv == TypeOK /\ HandsOK /\ NothingSlipsBy

(* What a client knows or will learn, of the events sent so far.            *)
Told(c) == client[c].knows \cup Waiting(c)

(* A client of which NothingSlipsBy says something.                         *)
Whole(c) == /\ client[c].pc \in {"greeted", "streaming"}
            /\ ~client[c].lost /\ ~client[c].gap
-----------------------------------------------------------------------------
(* Sequences as sets of their elements.                                     *)
LEMMA AppendElements ==
  ASSUME NEW S, NEW s \in Seq(S), NEW e \in S
  PROVE  /\ Append(s, e) \in Seq(S) /\ Len(Append(s, e)) = Len(s) + 1
         /\ {Append(s, e)[i] : i \in 1..Len(Append(s, e))} = {s[i] : i \in 1..Len(s)} \cup {e}
<1>1. Append(s, e) \in Seq(S) /\ Len(Append(s, e)) = Len(s) + 1 /\ Len(s) \in Nat
  OBVIOUS
<1>2. \A i \in 1..Len(s) : Append(s, e)[i] = s[i]
  OBVIOUS
<1>3. Append(s, e)[Len(s) + 1] = e
  OBVIOUS
<1>4. 1..(Len(s) + 1) = 1..Len(s) \cup {Len(s) + 1}
  BY <1>1
<1> QED BY <1>1, <1>2, <1>3, <1>4

LEMMA TailElements ==
  ASSUME NEW S, NEW s \in Seq(S), s # <<>>
  PROVE  /\ Head(s) \in S /\ Tail(s) \in Seq(S) /\ Len(Tail(s)) = Len(s) - 1
         /\ {s[i] : i \in 1..Len(s)} = {Head(s)} \cup {Tail(s)[i] : i \in 1..Len(Tail(s))}
<1>1. /\ Head(s) \in S /\ Tail(s) \in Seq(S) /\ Len(Tail(s)) = Len(s) - 1
      /\ Len(s) \in Nat \ {0} /\ Head(s) = s[1]
  OBVIOUS
<1>2. \A i \in 1..(Len(s) - 1) : Tail(s)[i] = s[i + 1]
  OBVIOUS
<1>3. \A i \in 1..Len(s) : i = 1 \/ (i - 1 \in 1..(Len(s) - 1) /\ i = (i - 1) + 1)
  BY <1>1
<1>4. \A i \in 1..(Len(s) - 1) : i + 1 \in 1..Len(s)
  BY <1>1
<1>5. ASSUME NEW i \in 1..Len(s)
      PROVE  s[i] = Head(s) \/ \E j \in 1..Len(Tail(s)) : s[i] = Tail(s)[j]
  <2>1. CASE i = 1
    BY <1>1, <2>1
  <2>2. CASE i - 1 \in 1..(Len(s) - 1) /\ i = (i - 1) + 1
    <3>1. s[i] = Tail(s)[i - 1] /\ i - 1 \in 1..Len(Tail(s))
      BY <1>1, <1>2, <2>2
    <3> QED BY <3>1
  <2> QED BY <1>3, <2>1, <2>2
<1>6. \A j \in 1..Len(Tail(s)) : \E i \in 1..Len(s) : Tail(s)[j] = s[i]
  BY <1>1, <1>2, <1>4
<1>7. \E i \in 1..Len(s) : Head(s) = s[i]
  BY <1>1
<1> QED BY <1>1, <1>5, <1>6, <1>7

LEMMA ClientType ==
  ASSUME TypeOK, NEW c \in Clients
  PROVE  /\ client[c] \in Client /\ client[c].unread \in Seq(BusEvent)
         /\ client[c].knows \in SUBSET BusEvent /\ Len(client[c].unread) \in 0..Capacity
         /\ client[c].lost \in BOOLEAN /\ client[c].gap \in BOOLEAN
         /\ client[c].pc \in {"off", "subscribed", "greeted", "streaming"}
<1>1. client[c] \in Client
  BY DEF TypeOK
<1>2. client[c].unread \in Seq(BusEvent)
  BY <1>1 DEF Client
<1>3. Len(client[c].unread) \in Nat /\ Len(client[c].unread) <= Capacity
  BY <1>2 DEF TypeOK
<1> QED BY <1>1, <1>2, <1>3, HubAssumption DEF Client

LEMMA InitialHub == Init => HubInv
<1> SUFFICES ASSUME Init PROVE HubInv
  OBVIOUS
<1>1. Free \in Hand
  BY DEF Free, Hand
<1>2. Away \in Client /\ Len(Away.unread) = 0 /\ Away.pc = "off"
  BY DEF Away, Client
<1>3. TypeOK
  BY <1>1, <1>2, HubAssumption DEF Init, TypeOK
<1>4. NothingSlipsBy
  BY <1>2 DEF Init, NothingSlipsBy
<1>5. HandsOK
  BY DEF Init, HandsOK, Free
<1> QED BY <1>3, <1>4, <1>5 DEF HubInv

LEMMA HubStutter ==
  ASSUME HubInv, UNCHANGED vars
  PROVE  HubInv'
BY DEF HubInv, vars, TypeOK, HandsOK, NothingSlipsBy, Waiting, InHand
-----------------------------------------------------------------------------
(* The calls.  One that hands a letter over or acks it has the event in     *)
(* hand; the others leave what a client must know as it is.                 *)
Announced == \A l \in Letters :
  status'[l] \in {"delivered", "acked"} =>
    status'[l] = status[l] \/ Shown(l, status'[l]) \in InHand'

LEMMA CallKeeps ==
  ASSUME HubInv, client' = client, InHand \subseteq InHand', Announced,
         status' \in [Letters -> Status \cup {"unsent", "deleted"}],
         hand' \in [Handlers -> Hand], HandsOK'
  PROVE  HubInv'
<1>1. TypeOK'
  BY DEF HubInv, TypeOK
<1>2. NothingSlipsBy'
  <2> SUFFICES ASSUME NEW c \in Clients, NEW l \in Letters, Whole(c),
                      status'[l] \in {"delivered", "acked"}
               PROVE  Shown(l, status'[l]) \in Told(c) \cup InHand'
    BY DEF NothingSlipsBy, Whole, Told, Waiting
  <2>1. CASE status'[l] = status[l]
    BY <2>1 DEF HubInv, NothingSlipsBy, Whole, Told
  <2>2. CASE Shown(l, status'[l]) \in InHand'
    BY <2>2
  <2> QED BY <2>1, <2>2 DEF Announced
<1> QED BY <1>1, <1>2 DEF HubInv

(* What Write does, under its guard.                                        *)
LEMMA WriteKeeps ==
  ASSUME HubInv, NEW h \in Handlers, NEW l \in Letters,
         NEW s \in Status \cup {"deleted"}, NEW e \in SUBSET BusEvent,
         Write(h, l, s, e), s \in {"delivered", "acked"} => Shown(l, s) \in e
  PROVE  HubInv'
<1>1. status' \in [Letters -> Status \cup {"unsent", "deleted"}]
  BY DEF HubInv, TypeOK, Write
<1> DEFINE w == [hand[h] EXCEPT !.todo = e]
<1>2. /\ hand[h] \in Hand /\ hand[h].todo = {} /\ w \in Hand /\ w.todo = e
      /\ w.sent = {}
  BY DEF HubInv, TypeOK, Write, Hand, Free
<1>3. hand' = [hand EXCEPT ![h] = w]
  BY DEF Write
<1> HIDE DEF w
<1>4. /\ hand' \in [Handlers -> Hand] /\ hand'[h].todo = e /\ HandsOK'
      /\ \A k \in Handlers \ {h} : hand'[k] = hand[k]
  BY <1>2, <1>3 DEF HubInv, TypeOK, HandsOK
<1>5. InHand \subseteq InHand' /\ e \subseteq InHand'
  BY <1>2, <1>4 DEF InHand
<1>6. Announced
  BY <1>5 DEF Announced, Write, HubInv, TypeOK
<1> QED BY <1>1, <1>4, <1>5, <1>6, CallKeeps DEF Write

LEMMA SendKeeps ==
  ASSUME HubInv, NEW h \in Handlers, NEW l \in Letters, Send(h, l)
  PROVE  HubInv'
<1>1. status' \in [Letters -> Status \cup {"unsent", "deleted"}]
  BY DEF HubInv, TypeOK, Send, Status
<1> DEFINE w == [hand[h] EXCEPT !.sent = {l}]
<1>2. w \in Hand /\ w.todo = hand[h].todo /\ w.todo = {}
  BY DEF HubInv, TypeOK, Hand, Send, Free
<1>3. hand' = [hand EXCEPT ![h] = w]
  BY DEF Send
<1> HIDE DEF w
<1>4. /\ hand' \in [Handlers -> Hand] /\ HandsOK'
      /\ \A k \in Handlers : hand'[k].todo = hand[k].todo
  BY <1>2, <1>3 DEF HubInv, TypeOK, HandsOK
<1>5. InHand' = InHand
  BY <1>4 DEF InHand
<1>6. Announced
  BY DEF Announced, Send, HubInv, TypeOK
<1> QED BY <1>1, <1>4, <1>5, <1>6, CallKeeps DEF Send

LEMMA QuietKeeps ==
  ASSUME HubInv, \/ \E l \in Letters : PushQuietly(l) \/ SendQuietly(l)
                 \/ DeleteAll
  PROVE  HubInv'
<1>1. hand' = hand /\ client' = client
  BY DEF PushQuietly, SendQuietly, DeleteAll
<1>2. InHand' = InHand
  BY <1>1 DEF InHand
<1>3. status' \in [Letters -> Status \cup {"unsent", "deleted"}] /\ Announced
  <2>1. CASE \E l \in Letters : PushQuietly(l)
    <3>1. PICK l \in Letters, e \in {"push_started", "push_rejected", "give_up"} :
             Legal(status[l], e) /\ status' = [status EXCEPT ![l] = Target(status[l], e)]
      BY <2>1 DEF PushQuietly
    <3>2. Target(status[l], e) \in {"queued", "pushing", "dead"}
      BY <3>1 DEF Legal, Target, TRANSITIONS, Status
    <3> QED BY <3>1, <3>2 DEF HubInv, TypeOK, Announced, Status
  <2>2. CASE \E l \in Letters : SendQuietly(l)
    BY <2>2 DEF SendQuietly, HubInv, TypeOK, Announced, Status
  <2>3. CASE DeleteAll
    BY <2>3 DEF DeleteAll, HubInv, TypeOK, Announced
  <2> QED BY <2>1, <2>2, <2>3
<1> QED BY <1>1, <1>2, <1>3, CallKeeps DEF HubInv, TypeOK, HandsOK

LEMMA PollKeeps ==
  ASSUME HubInv, NEW h \in Handlers, Poll(h)
  PROVE  HubInv'
<1>1. PICK S \in SUBSET Letters :
         /\ hand[h] = Free
         /\ status' = [l \in Letters |-> IF l \in S THEN "delivered" ELSE status[l]]
         /\ hand' = [hand EXCEPT ![h].todo = {Shown(l, "delivered") : l \in S}]
         /\ UNCHANGED client
  BY DEF Poll
<1>2. status' \in [Letters -> Status \cup {"unsent", "deleted"}]
  BY <1>1 DEF HubInv, TypeOK, Status
<1> DEFINE e == {Shown(l, "delivered") : l \in S}
           w == [hand[h] EXCEPT !.todo = e]
<1>3. e \in SUBSET BusEvent
  BY DEF Shown, BusEvent, Status
<1> HIDE DEF e
<1>4. hand[h].todo = {} /\ w \in Hand /\ w.todo = e /\ w.sent = {}
  BY <1>1, <1>3 DEF HubInv, TypeOK, Hand, Free
<1>5. hand' = [hand EXCEPT ![h] = w]
  BY <1>1 DEF e
<1> HIDE DEF w
<1>6. /\ hand' \in [Handlers -> Hand] /\ hand'[h].todo = e /\ HandsOK'
      /\ \A k \in Handlers \ {h} : hand'[k] = hand[k]
  BY <1>4, <1>5 DEF HubInv, TypeOK, HandsOK
<1>7. InHand \subseteq InHand' /\ e \subseteq InHand'
  BY <1>4, <1>6 DEF InHand
<1>8. Announced
  BY <1>1, <1>7 DEF Announced, e
<1> QED BY <1>1, <1>2, <1>6, <1>7, <1>8, CallKeeps

LEMMA LookUpKeeps ==
  ASSUME HubInv, NEW h \in Handlers, LookUp(h)
  PROVE  HubInv'
<1>1. PICK l \in hand[h].sent, e \in {{Shown(k, "queued")} : k \in Letters \cup {Ghost}} \cup {{}} :
         hand' = [hand EXCEPT ![h] = [sent |-> {}, todo |-> e]]
  <2>1. PICK l \in hand[h].sent :
          \E e \in IF status[l] = "queued" THEN {{Shown(l, "queued")}}
                                           ELSE {{Shown(Ghost, "queued")}, {}} :
            hand' = [hand EXCEPT ![h] = [sent |-> {}, todo |-> e]]
    BY DEF LookUp
  <2>2. l \in Letters
    BY <2>1 DEF HubInv, TypeOK, Hand
  <2> QED BY <2>1, <2>2
<1> DEFINE w == [sent |-> {}, todo |-> e]
<1>2. w \in Hand /\ w.sent = {}
  BY DEF Hand, Shown, BusEvent, Status
<1>3. hand[h].todo = {}
  BY <1>1 DEF HubInv, HandsOK
<1> HIDE DEF w
<1>4. /\ hand' \in [Handlers -> Hand] /\ HandsOK'
      /\ \A k \in Handlers \ {h} : hand'[k] = hand[k]
  BY <1>1, <1>2 DEF HubInv, TypeOK, HandsOK, w
<1>5. InHand \subseteq InHand'
  BY <1>3, <1>4 DEF InHand
<1>6. Announced /\ status' = status /\ client' = client
  BY DEF LookUp, Announced
<1> QED BY <1>4, <1>5, <1>6, CallKeeps DEF HubInv, TypeOK
-----------------------------------------------------------------------------
(* What becomes of an event that is sent.                                   *)
LEMMA BufferedKeeps ==
  ASSUME TypeOK, NEW c \in Clients, NEW e \in BusEvent,
         NEW r, r = Buffered(client[c], e)
  PROVE  /\ r \in Client /\ Len(r.unread) <= Capacity
         /\ r.pc = client[c].pc /\ r.gap = client[c].gap /\ r.knows = client[c].knows
         /\ ~r.lost => /\ ~client[c].lost
                       /\ {r.unread[i] : i \in 1..Len(r.unread)} = Waiting(c) \cup {e}
<1> DEFINE u == client[c].unread
<1>1. /\ client[c] \in Client /\ u \in Seq(BusEvent) /\ Len(u) \in 0..Capacity
      /\ Waiting(c) = {u[i] : i \in 1..Len(u)}
  BY ClientType DEF Waiting
<1>2. CASE Len(u) < Capacity
  <2> DEFINE v == Append(u, e)
  <2> HIDE DEF u
  <2>1. /\ v \in Seq(BusEvent) /\ Len(v) = Len(u) + 1
        /\ {v[i] : i \in 1..Len(v)} = Waiting(c) \cup {e}
    BY <1>1, AppendElements
  <2>2. r = [client[c] EXCEPT !.unread = v]
    BY <1>2, <1>1 DEF Buffered, Client, u
  <2> HIDE DEF u, v
  <2>3. Len(v) <= Capacity
    BY <1>1, <1>2, <2>1, HubAssumption
  <2>4. /\ r \in Client /\ r.unread = v /\ r.lost = client[c].lost
        /\ r.pc = client[c].pc /\ r.gap = client[c].gap /\ r.knows = client[c].knows
    BY <1>1, <2>1, <2>2 DEF Client
  <2> QED BY <2>1, <2>3, <2>4
<1>3. CASE ~(Len(u) < Capacity)
  <2> DEFINE v == Append(Tail(u), e)
  <2>1. u # <<>> /\ Len(u) = Capacity
    BY <1>1, <1>3, HubAssumption
  <2>2. Tail(u) \in Seq(BusEvent) /\ Len(Tail(u)) = Len(u) - 1
    BY <1>1, <2>1
  <2>3. v \in Seq(BusEvent) /\ Len(v) = Capacity
    BY <1>1, <2>1, <2>2, AppendElements, HubAssumption
  <2>4. r = [client[c] EXCEPT !.unread = v, !.lost = TRUE]
    BY <1>3, <1>1 DEF Buffered, Client
  <2> HIDE DEF u, v
  <2>5. /\ r \in Client /\ r.unread = v /\ r.lost = TRUE
        /\ r.pc = client[c].pc /\ r.gap = client[c].gap /\ r.knows = client[c].knows
    BY <1>1, <2>3, <2>4 DEF Client
  <2> QED BY <2>3, <2>5, HubAssumption
<1> QED BY <1>2, <1>3

LEMMA EmitKeeps ==
  ASSUME HubInv, NEW h \in Handlers, Emit(h)
  PROVE  HubInv'
<1>1. PICK e \in hand[h].todo :
         /\ hand' = [hand EXCEPT ![h].todo = @ \ {e}]
         /\ client' = [c \in Clients |-> IF client[c].pc = "off" THEN client[c]
                                         ELSE Buffered(client[c], e)]
         /\ status' = status
  BY DEF Emit
<1>2. e \in BusEvent /\ hand[h].sent = {}
  BY <1>1 DEF HubInv, HandsOK, TypeOK, Hand
<1>3. hand' \in [Handlers -> Hand] /\ HandsOK' /\ InHand \subseteq InHand' \cup {e}
  <2> DEFINE w == [hand[h] EXCEPT !.todo = @ \ {e}]
  <2>1. w \in Hand /\ w.todo = hand[h].todo \ {e} /\ w.sent = {}
    BY <1>2 DEF HubInv, TypeOK, Hand
  <2>2. hand' = [hand EXCEPT ![h] = w]
    BY <1>1
  <2> HIDE DEF w
  <2>3. /\ hand' \in [Handlers -> Hand] /\ HandsOK' /\ hand'[h].todo = hand[h].todo \ {e}
        /\ \A k \in Handlers \ {h} : hand'[k] = hand[k]
    BY <2>1, <2>2 DEF HubInv, TypeOK, HandsOK
  <2>4. InHand \subseteq InHand' \cup {e}
    BY <2>3 DEF InHand
  <2> QED BY <2>3, <2>4
<1>4. ASSUME NEW c \in Clients
      PROVE  /\ client'[c] \in Client /\ Len(client'[c].unread) <= Capacity
             /\ Whole(c)' => Whole(c) /\ Told(c)' = Told(c) \cup {e}
  <2>1. CASE client[c].pc = "off"
    <3>1. client'[c] = client[c]
      BY <1>1, <2>1
    <3> QED BY <3>1, <2>1 DEF HubInv, TypeOK, Whole
  <2>2. CASE client[c].pc # "off"
    <3> DEFINE r == Buffered(client[c], e)
    <3>1. client'[c] = r
      BY <1>1, <2>2
    <3>2. /\ r \in Client /\ Len(r.unread) <= Capacity
          /\ r.pc = client[c].pc /\ r.gap = client[c].gap /\ r.knows = client[c].knows
          /\ ~r.lost => /\ ~client[c].lost
                        /\ {r.unread[i] : i \in 1..Len(r.unread)} = Waiting(c) \cup {e}
      BY <1>2, BufferedKeeps DEF HubInv
    <3> HIDE DEF r
    <3>3. ASSUME Whole(c)' PROVE Whole(c) /\ Told(c)' = Told(c) \cup {e}
      <4>1. Whole(c) /\ Waiting(c)' = Waiting(c) \cup {e}
        BY <3>1, <3>2, <3>3 DEF Whole, Waiting
      <4>2. client'[c].knows = client[c].knows
        BY <3>1, <3>2
      <4> QED BY <4>1, <4>2 DEF Told
    <3> QED BY <3>1, <3>2, <3>3
  <2> QED BY <2>1, <2>2
<1>5. TypeOK'
  BY <1>1, <1>3, <1>4 DEF HubInv, TypeOK
<1>6. NothingSlipsBy'
  <2> SUFFICES ASSUME NEW c \in Clients, NEW l \in Letters, Whole(c)',
                      status[l] \in {"delivered", "acked"}
               PROVE  Shown(l, status[l]) \in Told(c)' \cup InHand'
    BY <1>1 DEF NothingSlipsBy, Whole, Told
  <2>1. Shown(l, status[l]) \in Told(c) \cup InHand
    BY <1>4 DEF HubInv, NothingSlipsBy, Whole, Told
  <2> QED BY <1>3, <1>4, <2>1
<1> QED BY <1>3, <1>5, <1>6 DEF HubInv
-----------------------------------------------------------------------------
(* The feed.  A client is shown what it missed by a count, or by the event  *)
(* it takes; otherwise it is told of a gap.                                 *)
LEMMA FeedKeeps ==
  ASSUME HubInv, NEW c \in Clients, NEW r \in Client,
         client' = [client EXCEPT ![c] = r], UNCHANGED <<status, hand>>,
         Len(r.unread) <= Capacity,
         r.pc \in {"greeted", "streaming"} /\ ~r.lost /\ ~r.gap =>
           \/ Counted \subseteq r.knows
           \/ /\ Whole(c)
              /\ Told(c) \subseteq r.knows \cup {r.unread[i] : i \in 1..Len(r.unread)}
  PROVE  HubInv'
<1>1. client'[c] = r /\ \A d \in Clients \ {c} : client'[d] = client[d]
  BY DEF HubInv, TypeOK
<1>2. InHand' = InHand /\ HandsOK'
  BY DEF InHand, HandsOK, HubInv
<1>3. TypeOK'
  BY <1>1 DEF HubInv, TypeOK
<1>4. NothingSlipsBy'
  <2> SUFFICES ASSUME NEW d \in Clients, NEW l \in Letters, Whole(d)',
                      status[l] \in {"delivered", "acked"}
               PROVE  Shown(l, status[l]) \in Told(d)' \cup InHand
    BY <1>2 DEF NothingSlipsBy, Whole, Told
  <2>1. CASE d # c
    <3>1. Whole(d) /\ Told(d)' = Told(d)
      BY <1>1, <2>1 DEF Whole, Told, Waiting
    <3> QED BY <3>1 DEF HubInv, NothingSlipsBy, Whole, Told
  <2>2. CASE d = c /\ Counted \subseteq r.knows
    <3>1. Shown(l, status[l]) \in Counted
      BY DEF Counted
    <3> QED BY <1>1, <2>2, <3>1 DEF Told
  <2>3. CASE d = c /\ Whole(c)
             /\ Told(c) \subseteq r.knows \cup {r.unread[i] : i \in 1..Len(r.unread)}
    <3>1. Told(c) \subseteq Told(c)'
      BY <1>1, <2>3 DEF Told, Waiting
    <3> QED BY <2>3, <3>1 DEF HubInv, NothingSlipsBy, Whole, Told
  <2> QED BY <1>1, <2>1, <2>2, <2>3 DEF Whole
<1> QED BY <1>2, <1>3, <1>4 DEF HubInv

LEMMA CountedType ==
  ASSUME TypeOK PROVE Counted \in SUBSET BusEvent
BY DEF Counted, Shown, BusEvent, Status

LEMMA ComingAndGoing ==
  ASSUME HubInv, NEW c \in Clients, Open(c) \/ Hello(c) \/ Start(c) \/ Close(c)
  PROVE  HubInv'
<1>1. client[c] \in Client /\ Len(client[c].unread) <= Capacity
  BY ClientType DEF HubInv, TypeOK
<1>2. CASE Open(c)
  <2> DEFINE r == [client[c] EXCEPT !.pc = "subscribed"]
  <2>1. r \in Client /\ r.pc = "subscribed" /\ r.unread = client[c].unread
    BY <1>1 DEF Client
  <2>2. client' = [client EXCEPT ![c] = r] /\ UNCHANGED <<status, hand>>
    BY <1>2 DEF Open
  <2> HIDE DEF r
  <2> QED BY <1>1, <2>1, <2>2, FeedKeeps
<1>3. CASE Hello(c)
  <2> DEFINE r == [client[c] EXCEPT !.pc = "greeted", !.knows = Counted]
  <2>1. r \in Client /\ r.knows = Counted /\ r.unread = client[c].unread
    BY <1>1, CountedType DEF Client, HubInv
  <2>2. client' = [client EXCEPT ![c] = r] /\ UNCHANGED <<status, hand>>
    BY <1>3 DEF Hello
  <2> HIDE DEF r
  <2> QED BY <1>1, <2>1, <2>2, FeedKeeps
<1>4. CASE Start(c)
  <2> DEFINE r == [client[c] EXCEPT !.pc = "streaming"]
  <2>1. /\ r \in Client /\ r.unread = client[c].unread /\ r.knows = client[c].knows
        /\ r.lost = client[c].lost /\ r.gap = client[c].gap
    BY <1>1 DEF Client
  <2>2. client' = [client EXCEPT ![c] = r] /\ UNCHANGED <<status, hand>>
        /\ client[c].pc = "greeted"
    BY <1>4 DEF Start
  <2> HIDE DEF r
  <2> QED BY <1>1, <2>1, <2>2, FeedKeeps DEF Whole, Told, Waiting
<1>5. CASE Close(c)
  <2>1. Away \in Client /\ Len(Away.unread) <= Capacity /\ Away.pc = "off"
    BY HubAssumption DEF Away, Client
  <2> QED BY <1>5, <2>1, FeedKeeps DEF Close
<1> QED BY <1>2, <1>3, <1>4, <1>5

LEMMA StreamKeeps ==
  ASSUME HubInv, NEW c \in Clients, Pump(c) \/ Lagged(c) \/ Beat(c)
  PROVE  HubInv'
<1> DEFINE u == client[c].unread
<1>1. /\ client[c] \in Client /\ u \in Seq(BusEvent) /\ Len(u) \in 0..Capacity
      /\ client[c].knows \in SUBSET BusEvent
  BY ClientType DEF HubInv
<1>2. CASE Pump(c)
  <2> DEFINE k == client[c].knows \cup {Head(u)}
             v == Tail(u)
             r == [client[c] EXCEPT !.knows = k, !.unread = v]
  <2>1. u # <<>> /\ ~client[c].lost /\ client[c].pc = "streaming"
    BY <1>2 DEF Pump
  <2>2. /\ Head(u) \in BusEvent /\ v \in Seq(BusEvent) /\ Len(v) = Len(u) - 1
        /\ Waiting(c) = {Head(u)} \cup {v[i] : i \in 1..Len(v)}
    BY <1>1, <2>1, TailElements DEF Waiting
  <2>3. client' = [client EXCEPT ![c] = r] /\ UNCHANGED <<status, hand>>
    BY <1>2 DEF Pump
  <2>4. k \in SUBSET BusEvent /\ Told(c) \subseteq k \cup {v[i] : i \in 1..Len(v)}
    BY <1>1, <2>2 DEF Told
  <2>5. Len(v) <= Capacity
    BY <1>1, <2>2, HubAssumption
  <2> HIDE DEF k, v, u
  <2>6. /\ r \in Client /\ r.knows = k /\ r.unread = v
        /\ r.gap = client[c].gap /\ r.pc = client[c].pc /\ r.lost = client[c].lost
    BY <1>1, <2>2, <2>4 DEF Client
  <2> HIDE DEF r
  <2>7. r.pc \in {"greeted", "streaming"} /\ ~r.lost /\ ~r.gap => Whole(c)
    BY <2>6 DEF Whole
  <2>8. Told(c) \subseteq r.knows \cup {r.unread[i] : i \in 1..Len(r.unread)}
    BY <2>4, <2>6
  <2>9. Len(r.unread) <= Capacity
    BY <2>5, <2>6
  <2> QED BY <2>3, <2>6, <2>7, <2>8, <2>9, FeedKeeps
<1>3. CASE Lagged(c)
  <2> DEFINE r == [client[c] EXCEPT !.lost = FALSE, !.gap = TRUE]
  <2>1. r \in Client /\ r.gap /\ r.unread = client[c].unread
    BY <1>1 DEF Client
  <2>2. client' = [client EXCEPT ![c] = r] /\ UNCHANGED <<status, hand>>
    BY <1>3 DEF Lagged
  <2> HIDE DEF r
  <2> QED BY <1>1, <2>1, <2>2, FeedKeeps DEF HubInv, TypeOK
<1>4. CASE Beat(c)
  <2> DEFINE k == client[c].knows \cup Counted
             r == [client[c] EXCEPT !.knows = k, !.gap = FALSE]
  <2>1. k \in SUBSET BusEvent /\ Counted \subseteq k
    BY <1>1, CountedType DEF HubInv
  <2>2. client' = [client EXCEPT ![c] = r] /\ UNCHANGED <<status, hand>>
    BY <1>4 DEF Beat
  <2> HIDE DEF k
  <2>3. r \in Client /\ r.knows = k /\ r.unread = client[c].unread
    BY <1>1, <2>1 DEF Client
  <2> HIDE DEF r
  <2> QED BY <1>1, <2>1, <2>2, <2>3, FeedKeeps DEF HubInv, TypeOK
<1> QED BY <1>2, <1>3, <1>4
-----------------------------------------------------------------------------
LEMMA HubNext ==
  ASSUME HubInv, Next
  PROVE  HubInv'
<1>1. CASE \E h \in Handlers : Poll(h) \/ LookUp(h) \/ Emit(h)
  BY <1>1, PollKeeps, LookUpKeeps, EmitKeeps
<1>2. ASSUME NEW h \in Handlers, NEW l \in Letters,
             Send(h, l) \/ Receipt(h, l) \/ Read(h, l) \/ Ack(h, l) \/ Delete(h, l)
      PROVE  HubInv'
  <2>1. CASE Send(h, l)
    BY <2>1, SendKeeps
  <2>2. CASE Receipt(h, l)
    <3>1. PICK from \in {"pushing", "queued"} :
            Write(h, l, IF status[l] = from THEN "delivered" ELSE status[l],
                  {Shown(l, IF status[l] = from THEN "delivered" ELSE status[l])})
      BY <2>2 DEF Receipt
    <3> DEFINE s == IF status[l] = from THEN "delivered" ELSE status[l]
    <3>2. s \in Status
      BY <2>2 DEF Receipt, Stored, Status
    <3>3. Write(h, l, s, {Shown(l, s)})
      BY <3>1
    <3> HIDE DEF s
    <3>4. {Shown(l, s)} \in SUBSET BusEvent
      BY <3>2 DEF Shown, BusEvent
    <3> QED BY <3>2, <3>3, <3>4, WriteKeeps
  <2>3. CASE Read(h, l)
    <3>1. {Shown(l, "read")} \in SUBSET BusEvent /\ "read" \in Status
      BY DEF Shown, BusEvent, Status
    <3>2. Write(h, l, "read", {Shown(l, "read")})
      BY <2>3 DEF Read
    <3> QED BY <3>1, <3>2, WriteKeeps
  <2>4. CASE Ack(h, l)
    <3>1. {Shown(l, "acked")} \in SUBSET BusEvent /\ "acked" \in Status
      BY DEF Shown, BusEvent, Status
    <3>2. Write(h, l, "acked", {Shown(l, "acked")})
      BY <2>4 DEF Ack
    <3> QED BY <3>1, <3>2, WriteKeeps
  <2>5. CASE Delete(h, l)
    <3>1. {Shown(l, status[l])} \in SUBSET BusEvent
      BY <2>5 DEF Delete, Stored, Shown, BusEvent
    <3>2. Write(h, l, "deleted", {Shown(l, status[l])})
      BY <2>5 DEF Delete
    <3>3. "deleted" \in Status \cup {"deleted"} /\ "deleted" \notin {"delivered", "acked"}
      OBVIOUS
    <3> QED BY <3>1, <3>2, <3>3, WriteKeeps
  <2> QED BY <1>2, <2>1, <2>2, <2>3, <2>4, <2>5
<1>3. CASE (\E l \in Letters : PushQuietly(l) \/ SendQuietly(l)) \/ DeleteAll
  BY <1>3, QuietKeeps
<1>4. CASE Feed
  BY <1>4, ComingAndGoing, StreamKeeps DEF Feed
<1> QED BY <1>1, <1>2, <1>3, <1>4 DEF Next, Calls

LEMMA HubInvariant == Spec => []HubInv
<1>1. HubInv /\ [Next]_vars => HubInv'
  BY HubNext, HubStutter
<1> QED BY InitialHub, <1>1, PTL DEF Spec
-----------------------------------------------------------------------------
(* The hub keeps its types, and the channel its size.                       *)
THEOREM HubTypeCorrect == Spec => []TypeOK
<1>1. HubInv => TypeOK
  BY DEF HubInv
<1> QED BY HubInvariant, <1>1, PTL

(* stream subscribes before it counts, so that no hand-over and no ack      *)
(* falls between the count and the first event, and a client that lost      *)
(* events is told so.                                                       *)
THEOREM FeedsAreWhole == Spec => []NothingSlipsBy
<1>1. HubInv => NothingSlipsBy
  BY DEF HubInv
<1> QED BY HubInvariant, <1>1, PTL
=============================================================================
