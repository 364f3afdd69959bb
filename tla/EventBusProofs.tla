---------------------------- MODULE EventBusProofs ----------------------------
(***************************************************************************)
(* Proofs about EventBus, for any agents, calls, capacity and restarts.     *)
(***************************************************************************)
EXTENDS EventBus, FiniteSetTheorems, TLAPS

(* Where a call is in its work, and what it still holds.                    *)
ProgressOK(c) ==
  /\ call[c].pc \in {"check", "count", "insert"} => call[c].todo # {}
  /\ call[c].pc \in {"check", "count", "insert"} => call[c].kind \in {"send", "cast", "broadcast"}
  /\ call[c].pc \in {"idle", "roles"} => call[c].made = {}
  /\ call[c].pc = "idle" => call[c].kind = "none"
  /\ call[c].pc = "announce" => call[c].made # {} /\ call[c].todo = {}
  /\ call[c].pc = "roles" => call[c].kind \in {"register", "unregister"}

(* Whoever is to hear a broadcast has a letter or is still on its list.     *)
AudienceOK(c) ==
  call[c].kind = "broadcast" /\ call[c].pc \notin {"failed", "died"} =>
    /\ call[c].pc = "done" => call[c].todo = {}
    /\ \A a \in call[c].audience \ tangled :
         a \in call[c].todo \/ mail[c][a].at # "unsent"

(* An agent about to get a role has its marker, or lost it to a call of     *)
(* agent/unregister that ran beside it.                                     *)
MarkerOK(c) ==
  call[c].pc = "roles" =>
    /\ call[c].kind = "register" => call[c].agent \in known \cup tangled
    /\ call[c].kind = "unregister" => call[c].role = "none"

CallOK(c) == ProgressOK(c) /\ AudienceOK(c) /\ MarkerOK(c)

(* A mailbox nobody crowded has room for the one letter on its way there.   *)
BoxOK(a) ==
  /\ IsFiniteSet(Box(a))
  /\ a \notin crowded =>
       \/ Inserting(a) = {} /\ Cardinality(Box(a)) <= Capacity
       \/ /\ \E c \in Calls : Inserting(a) = {c}
          /\ Cardinality(Box(a)) < Capacity

EInv ==
  /\ TypeOK
  /\ \A c \in Calls : CallOK(c)
  /\ RolesAreKnown
  /\ LettersAreAnnounced
  /\ \A a \in Agents : BoxOK(a)
-----------------------------------------------------------------------------
LEMMA CallType ==
  ASSUME TypeOK, NEW c \in Calls
  PROVE  /\ call[c] \in Call /\ call[c].agent \in Agents
         /\ call[c].todo \in SUBSET Agents /\ call[c].made \in SUBSET Agents
         /\ call[c].audience \in SUBSET Agents
BY DEF TypeOK, Call

LEMMA MailUpdate ==
  ASSUME mail \in [Calls -> [Agents -> Letter]],
         NEW c \in Calls, NEW a \in Agents, NEW m \in Letter
  PROVE  [mail EXCEPT ![c][a] = m] \in [Calls -> [Agents -> Letter]]
OBVIOUS

LEMMA EInitial == Init => EInv
<1> SUFFICES ASSUME Init PROVE EInv
  OBVIOUS
<1>1. (CHOOSE a \in Agents : TRUE) \in Agents
  BY AgentsAssumption
<1>2. TypeOK
  <2>1. call \in [Calls -> Call]
    BY <1>1 DEF Init, Call
  <2>2. mail \in [Calls -> [Agents -> Letter]]
    BY DEF Init, Letter
  <2>3. /\ known \in SUBSET Agents
        /\ roles \in [Agents -> {"none", "pm", "worker"}]
        /\ restarts \in 0..MaxRestarts
    BY SeedRoleAssumption, BusBoundsAssumption DEF Init, Seeded
  <2> QED BY <2>1, <2>2, <2>3 DEF TypeOK, Init
<1>3. \A c \in Calls : CallOK(c)
  BY DEF Init, CallOK, ProgressOK, AudienceOK, MarkerOK
<1>4. RolesAreKnown
  BY DEF Init, RolesAreKnown, Registered, Seeded
<1>5. LettersAreAnnounced
  BY DEF Init, LettersAreAnnounced
<1>6. \A a \in Agents : BoxOK(a)
  <2> SUFFICES ASSUME NEW a \in Agents PROVE BoxOK(a)
    OBVIOUS
  <2>1. Box(a) = {} /\ Inserting(a) = {}
    BY DEF Init, Box, Stored, Inserting
  <2> QED BY <2>1, FS_EmptySet, BusBoundsAssumption DEF BoxOK
<1> QED BY <1>2, <1>3, <1>4, <1>5, <1>6 DEF EInv
-----------------------------------------------------------------------------
(* Mailboxes: a step that inserts nothing and lets nobody in keeps them.    *)
LEMMA BoxesShrink ==
  ASSUME EInv, UNCHANGED crowded,
         \A a \in Agents : Box(a)' \subseteq Box(a),
         \A a \in Agents : Inserting(a)' = Inserting(a) \/ Inserting(a)' = {}
  PROVE  \A a \in Agents : BoxOK(a)'
<1> SUFFICES ASSUME NEW a \in Agents PROVE BoxOK(a)'
  OBVIOUS
<1>1. BoxOK(a) /\ IsFiniteSet(Box(a))
  BY DEF EInv, BoxOK
<1>2. /\ IsFiniteSet(Box(a)') /\ Cardinality(Box(a)') <= Cardinality(Box(a))
      /\ Cardinality(Box(a)) \in Nat /\ Cardinality(Box(a)') \in Nat
  BY <1>1, FS_Subset, FS_CardinalityType
<1> QED BY <1>1, <1>2, BusBoundsAssumption DEF BoxOK

(* A step of call c alone that leaves the mailboxes and the door to them.   *)
LEMMA OneCallStep ==
  ASSUME EInv, NEW c \in Calls, NEW n \in Call, call' = [call EXCEPT ![c] = n],
         UNCHANGED <<mail, restarts, crowded>>, call[c].pc # "insert", n.pc # "insert",
         known' \in SUBSET Agents, roles' \in [Agents -> {"none", "pm", "worker"}],
         tangled' \in SUBSET Agents, tangled \subseteq tangled',
         \A k \in Calls \ {c} : MarkerOK(k)',
         n.kind = "broadcast" => n.agent \notin n.todo,
         CallOK(c)', RolesAreKnown',
         \A a \in Agents : mail[c][a].at = "queued" /\ ~mail[c][a].announced =>
           \/ n.pc \in {"failed", "died"}
           \/ n.pc # "done" /\ a \in n.made
  PROVE  EInv'
<1>1. /\ call' \in [Calls -> Call] /\ call'[c] = n
      /\ \A k \in Calls \ {c} : call'[k] = call[k]
  BY DEF EInv, TypeOK
<1>2. TypeOK'
  BY <1>1 DEF EInv, TypeOK
<1>3. \A k \in Calls \ {c} : CallOK(k)'
  <2> SUFFICES ASSUME NEW k \in Calls \ {c} PROVE CallOK(k)'
    OBVIOUS
  <2>1. CallOK(k) /\ call'[k] = call[k] /\ mail' = mail
    BY <1>1 DEF EInv
  <2> QED BY <2>1 DEF CallOK, ProgressOK, AudienceOK
<1>4. LettersAreAnnounced'
  BY <1>1 DEF EInv, LettersAreAnnounced
<1>5. \A a \in Agents : BoxOK(a)'
  <2>1. \A a \in Agents : Box(a)' = Box(a)
    BY DEF Box, Stored
  <2>2. \A a \in Agents : Inserting(a)' = Inserting(a)
    BY <1>1 DEF Inserting
  <2> QED BY <2>1, <2>2, BoxesShrink
<1> QED BY <1>2, <1>3, <1>4, <1>5 DEF EInv

(* What the rest of an idle call is known to be.                            *)
LEMMA IdleCall ==
  ASSUME EInv, NEW c \in Calls, call[c].pc = "idle"
  PROVE  /\ call[c] \in Call /\ call[c].made = {} /\ call[c].kind = "none"
         /\ \A a \in Agents : ~(mail[c][a].at = "queued" /\ ~mail[c][a].announced)
BY CallType DEF EInv, CallOK, ProgressOK, LettersAreAnnounced
-----------------------------------------------------------------------------
(* The roster.                                                              *)

LEMMA RegisterKeeps ==
  ASSUME EInv, NEW c \in Calls, NEW a \in Agents, NEW role \in {"pm", "worker"},
         Register(c, a, role)
  PROVE  EInv'
<1> DEFINE n == [call[c] EXCEPT !.kind = "register", !.agent = a, !.role = role,
                                !.pc = "roles"]
<1>1. call[c].pc = "idle" /\ call' = [call EXCEPT ![c] = n]
  BY DEF Register, Rewrite
<1>2. /\ n \in Call /\ n.kind = "register" /\ n.agent = a /\ n.role = role
      /\ n.pc = "roles" /\ n.made = {}
  BY <1>1, IdleCall DEF Call
<1> HIDE DEF n
<1>3. call'[c] = n /\ \A k \in Calls \ {c} : call'[k] = call[k]
  BY <1>1 DEF EInv, TypeOK
<1>4. /\ known' = known \cup {a} /\ UNCHANGED <<roles, mail, restarts, crowded>>
      /\ tangled \subseteq tangled' /\ tangled' \in SUBSET Agents
  <2>1. CASE Rewriting(a, "unregister")
    BY <2>1 DEF Register, Rewrite, EInv, TypeOK
  <2>2. CASE ~Rewriting(a, "unregister")
    BY <2>2 DEF Register, Rewrite, EInv, TypeOK
  <2> QED BY <2>1, <2>2
<1>5. \A k \in Calls \ {c} : MarkerOK(k)'
  BY <1>3, <1>4 DEF EInv, CallOK, MarkerOK
<1>6. CallOK(c)'
  BY <1>2, <1>3, <1>4 DEF CallOK, ProgressOK, AudienceOK, MarkerOK
<1>7. RolesAreKnown'
  BY <1>1, <1>3, <1>4 DEF EInv, RolesAreKnown, Registered, Rewriting
<1>8. known' \in SUBSET Agents /\ roles' \in [Agents -> {"none", "pm", "worker"}]
  BY <1>4 DEF EInv, TypeOK
<1> QED BY <1>1, <1>2, <1>4, <1>5, <1>6, <1>7, <1>8, IdleCall, OneCallStep

LEMMA UnregisterKeeps ==
  ASSUME EInv, NEW c \in Calls, NEW a \in Agents, Unregister(c, a)
  PROVE  EInv'
<1> DEFINE n == [call[c] EXCEPT !.kind = "unregister", !.agent = a, !.role = "none",
                                !.pc = "roles"]
<1>1. call[c].pc = "idle" /\ call' = [call EXCEPT ![c] = n]
  BY DEF Unregister, Rewrite
<1>2. /\ n \in Call /\ n.kind = "unregister" /\ n.agent = a /\ n.role = "none"
      /\ n.pc = "roles" /\ n.made = {}
  BY <1>1, IdleCall DEF Call
<1> HIDE DEF n
<1>3. call'[c] = n /\ \A k \in Calls \ {c} : call'[k] = call[k]
  BY <1>1 DEF EInv, TypeOK
<1>4. /\ known' = known \ {a} /\ UNCHANGED <<roles, mail, restarts, crowded>>
      /\ tangled \subseteq tangled' /\ tangled' \in SUBSET Agents
      /\ Rewriting(a, "register") => a \in tangled'
  <2>1. CASE Rewriting(a, "register")
    BY <2>1 DEF Unregister, Rewrite, EInv, TypeOK
  <2>2. CASE ~Rewriting(a, "register")
    BY <2>2 DEF Unregister, Rewrite, EInv, TypeOK
  <2> QED BY <2>1, <2>2
<1>5. \A k \in Calls \ {c} : MarkerOK(k)'
  BY <1>3, <1>4 DEF EInv, CallOK, MarkerOK, Rewriting
<1>6. CallOK(c)'
  BY <1>2, <1>3, <1>4 DEF CallOK, ProgressOK, AudienceOK, MarkerOK
<1>7. RolesAreKnown'
  <2> SUFFICES ASSUME NEW b \in Agents, Registered(b)
               PROVE  b \in known' \/ b \in tangled' \/ Rewriting(b, "unregister")'
    BY <1>4 DEF RolesAreKnown, Registered
  <2>1. CASE b = a
    BY <1>2, <1>3, <2>1 DEF Rewriting
  <2>2. CASE b # a
    BY <1>1, <1>3, <1>4, <2>2 DEF EInv, RolesAreKnown, Rewriting
  <2> QED BY <2>1, <2>2
<1>8. known' \in SUBSET Agents /\ roles' \in [Agents -> {"none", "pm", "worker"}]
  BY <1>4 DEF EInv, TypeOK
<1> QED BY <1>1, <1>2, <1>4, <1>5, <1>6, <1>7, <1>8, IdleCall, OneCallStep

LEMMA SetRoleKeeps ==
  ASSUME EInv, NEW c \in Calls, SetRole(c)
  PROVE  EInv'
<1> DEFINE n == [call[c] EXCEPT !.pc = "done"]
           a == call[c].agent
<1>1. /\ call[c].pc = "roles" /\ call' = [call EXCEPT ![c] = n]
      /\ roles' = [roles EXCEPT ![a] = call[c].role]
      /\ UNCHANGED <<known, mail, restarts, tangled, crowded>>
  BY DEF SetRole
<1>2. /\ call[c] \in Call /\ a \in Agents /\ call[c].role \in {"none", "pm", "worker"}
      /\ call[c].made = {} /\ call[c].kind \in {"register", "unregister"}
      /\ MarkerOK(c)
  BY <1>1, CallType DEF EInv, CallOK, ProgressOK, Call
<1>3. /\ n \in Call /\ n.kind = call[c].kind /\ n.pc = "done" /\ n.made = {}
  BY <1>2 DEF Call
<1> HIDE DEF n
<1>4. call'[c] = n /\ \A k \in Calls \ {c} : call'[k] = call[k]
  BY <1>1 DEF EInv, TypeOK
<1>5. \A k \in Calls \ {c} : MarkerOK(k)'
  BY <1>1, <1>4 DEF EInv, CallOK, MarkerOK
<1>6. CallOK(c)'
  BY <1>2, <1>3, <1>4 DEF CallOK, ProgressOK, AudienceOK, MarkerOK
<1>7. /\ roles' \in [Agents -> {"none", "pm", "worker"}]
      /\ roles'[a] = call[c].role
      /\ \A b \in Agents \ {a} : roles'[b] = roles[b]
  BY <1>1, <1>2 DEF EInv, TypeOK
<1>8. RolesAreKnown'
  <2> SUFFICES ASSUME NEW b \in Agents, roles'[b] # "none"
               PROVE  b \in known' \/ b \in tangled' \/ Rewriting(b, "unregister")'
    BY DEF RolesAreKnown, Registered
  <2>1. CASE b = a
    BY <1>1, <1>2, <1>7, <2>1 DEF MarkerOK
  <2>2. CASE b # a
    BY <1>1, <1>4, <1>7, <2>2 DEF EInv, RolesAreKnown, Registered, Rewriting
  <2> QED BY <2>1, <2>2
<1>9. \A b \in Agents : ~(mail[c][b].at = "queued" /\ ~mail[c][b].announced)
  BY <1>1, <1>2 DEF EInv, LettersAreAnnounced
<1>10. /\ known' \in SUBSET Agents /\ tangled' \in SUBSET Agents
       /\ tangled \subseteq tangled' /\ UNCHANGED <<mail, restarts, crowded>>
  BY <1>1 DEF EInv, TypeOK
<1> QED BY <1>1, <1>2, <1>3, <1>5, <1>6, <1>7, <1>8, <1>9, <1>10, OneCallStep
-----------------------------------------------------------------------------
(* Letters on their way.                                                    *)

(* A step that leaves the roster alone.                                     *)
LEMMA RosterStays ==
  ASSUME EInv, NEW c \in Calls, UNCHANGED <<known, roles, tangled>>,
         call[c].pc # "roles", \A k \in Calls \ {c} : call'[k] = call[k]
  PROVE  /\ \A k \in Calls \ {c} : MarkerOK(k)'
         /\ RolesAreKnown'
BY DEF EInv, CallOK, MarkerOK, RolesAreKnown, Registered, Rewriting

LEMMA SendKeeps ==
  ASSUME EInv, NEW c \in Calls, NEW s \in Agents, NEW r \in Agents,
         NEW kind \in {"send", "cast"}, Send(c, s, r, kind)
  PROVE  EInv'
<1> DEFINE n == [call[c] EXCEPT !.kind = kind, !.agent = s, !.todo = {r}, !.pc = "check"]
<1>1. /\ call[c].pc = "idle" /\ call' = [call EXCEPT ![c] = n]
      /\ UNCHANGED <<known, roles, mail, restarts, tangled, crowded>>
  BY DEF Send
<1>2. /\ n \in Call /\ n.kind = kind /\ n.todo = {r} /\ n.pc = "check"
  BY <1>1, IdleCall DEF Call
<1> HIDE DEF n
<1>3. call'[c] = n /\ \A k \in Calls \ {c} : call'[k] = call[k]
  BY <1>1 DEF EInv, TypeOK
<1>4. CallOK(c)'
  BY <1>2, <1>3 DEF CallOK, ProgressOK, AudienceOK, MarkerOK
<1>5. /\ known' \in SUBSET Agents /\ tangled' \in SUBSET Agents
      /\ roles' \in [Agents -> {"none", "pm", "worker"}] /\ tangled \subseteq tangled'
  BY <1>1 DEF EInv, TypeOK
<1> QED BY <1>1, <1>2, <1>3, <1>4, <1>5, RosterStays, IdleCall, OneCallStep

(* The roles know of nobody the store does not.                             *)
LEMMA BroadcastKeeps ==
  ASSUME EInv, NEW c \in Calls, NEW s \in Agents, Broadcast(c, s)
  PROVE  EInv'
<1> DEFINE aud == {a \in Agents \ {s} : Registered(a) /\ ~Rewriting(a, "unregister")}
           pc == IF known \subseteq {s} THEN "done" ELSE "check"
           n == [call[c] EXCEPT !.kind = "broadcast", !.agent = s, !.todo = known \ {s},
                                !.pc = pc, !.audience = aud]
<1>1. /\ call[c].pc = "idle" /\ call' = [call EXCEPT ![c] = n]
      /\ UNCHANGED <<known, roles, mail, restarts, tangled, crowded>>
  BY DEF Broadcast
<1>2. aud \ tangled \subseteq known \ {s} /\ aud \in SUBSET Agents
  BY DEF EInv, RolesAreKnown
<1>3. /\ known \ {s} \in SUBSET Agents
      /\ pc \in {"done", "check"} /\ (pc = "done" <=> known \ {s} = {})
  BY DEF EInv, TypeOK
<1> HIDE DEF aud, pc
<1>4. /\ n \in Call /\ n.kind = "broadcast" /\ n.agent = s /\ n.todo = known \ {s}
      /\ n.pc = pc /\ n.audience = aud /\ n.made = {}
  BY <1>1, <1>2, <1>3, IdleCall DEF Call
<1> HIDE DEF n
<1>5. call'[c] = n /\ \A k \in Calls \ {c} : call'[k] = call[k]
  BY <1>1 DEF EInv, TypeOK
<1>6. ProgressOK(c)' /\ MarkerOK(c)'
  BY <1>3, <1>4, <1>5 DEF ProgressOK, MarkerOK
<1>7. AudienceOK(c)'
  BY <1>1, <1>2, <1>3, <1>4, <1>5 DEF AudienceOK
<1>8. /\ known' \in SUBSET Agents /\ tangled' \in SUBSET Agents
      /\ roles' \in [Agents -> {"none", "pm", "worker"}] /\ tangled \subseteq tangled'
  BY <1>1 DEF EInv, TypeOK
<1>9. n.pc # "insert" /\ n.agent \notin n.todo
  BY <1>3, <1>4
<1> QED BY <1>1, <1>4, <1>5, <1>6, <1>7, <1>8, <1>9, RosterStays, IdleCall, OneCallStep
           DEF CallOK

(* The gates, whichever way they let the call.                              *)
LEMMA CheckKeeps ==
  ASSUME EInv, NEW c \in Calls, NEW r \in Agents, Check(c, r)
  PROVE  EInv'
<1> DEFINE pc == IF MaySend(c, r) THEN "count" ELSE "failed"
           n == [call[c] EXCEPT !.pc = pc]
<1>1. /\ call[c].pc = "check" /\ call' = [call EXCEPT ![c] = n]
      /\ UNCHANGED <<known, roles, mail, restarts, tangled, crowded>>
  BY DEF Check
<1>2. pc \in {"count", "failed"}
  OBVIOUS
<1> HIDE DEF pc
<1>3. /\ n \in Call /\ n.pc = pc /\ n.kind = call[c].kind /\ n.agent = call[c].agent
      /\ n.todo = call[c].todo /\ n.made = call[c].made /\ n.audience = call[c].audience
  BY <1>2, CallType DEF EInv, Call
<1> HIDE DEF n
<1>4. call'[c] = n /\ \A k \in Calls \ {c} : call'[k] = call[k]
  BY <1>1 DEF EInv, TypeOK
<1>5. CallOK(c)'
  BY <1>1, <1>2, <1>3, <1>4 DEF EInv, CallOK, ProgressOK, AudienceOK, MarkerOK
<1>6. /\ known' \in SUBSET Agents /\ tangled' \in SUBSET Agents
      /\ roles' \in [Agents -> {"none", "pm", "worker"}] /\ tangled \subseteq tangled'
      /\ n.kind = "broadcast" => n.agent \notin n.todo
  BY <1>1, <1>3 DEF EInv, TypeOK
<1>7. \A a \in Agents : mail[c][a].at = "queued" /\ ~mail[c][a].announced => a \in n.made
  BY <1>1, <1>3 DEF EInv, LettersAreAnnounced
<1> QED BY <1>1, <1>2, <1>3, <1>4, <1>5, <1>6, <1>7, RosterStays, OneCallStep

LEMMA FirstIsOne ==
  ASSUME NEW S, NEW a \in Agents, NEW b \in Agents, First(a, S), First(b, S)
  PROVE  a = b
BY AgentsAssumption DEF First

LEMMA CountKeeps ==
  ASSUME EInv, NEW c \in Calls, NEW r \in Agents, Count(c, r)
  PROVE  EInv'
<1> DEFINE pc == IF Full(r) THEN "failed" ELSE "insert"
           n == [call[c] EXCEPT !.pc = pc]
<1>1. /\ call[c].pc = "count" /\ First(r, call[c].todo) /\ call' = [call EXCEPT ![c] = n]
      /\ UNCHANGED <<known, roles, mail, restarts, tangled>>
  BY DEF Count
<1>2. pc \in {"failed", "insert"} /\ (pc = "insert" <=> ~Full(r))
  OBVIOUS
<1> HIDE DEF pc
<1>3. /\ n \in Call /\ n.pc = pc /\ n.kind = call[c].kind /\ n.agent = call[c].agent
      /\ n.todo = call[c].todo /\ n.made = call[c].made /\ n.audience = call[c].audience
  BY <1>2, CallType DEF EInv, Call
<1> HIDE DEF n
<1>4. /\ call' \in [Calls -> Call] /\ call'[c] = n
      /\ \A k \in Calls \ {c} : call'[k] = call[k]
  BY <1>1, <1>3 DEF EInv, TypeOK
<1>5. /\ crowded \subseteq crowded' /\ crowded' \subseteq crowded \cup {r}
      /\ Inserting(r) # {} => r \in crowded'
  <2>1. CASE Inserting(r) # {}
    BY <2>1 DEF Count
  <2>2. CASE Inserting(r) = {}
    BY <2>2 DEF Count
  <2> QED BY <2>1, <2>2
<1>6. TypeOK'
  BY <1>1, <1>3, <1>4, <1>5 DEF EInv, TypeOK
<1>7. CallOK(c)'
  BY <1>1, <1>2, <1>3, <1>4 DEF EInv, CallOK, ProgressOK, AudienceOK, MarkerOK
<1>8. \A k \in Calls \ {c} : CallOK(k)'
  BY <1>1, <1>4, RosterStays DEF EInv, CallOK, ProgressOK, AudienceOK
<1>9. LettersAreAnnounced'
  BY <1>1, <1>2, <1>3, <1>4 DEF EInv, LettersAreAnnounced
<1>10. ASSUME NEW a \in Agents PROVE BoxOK(a)'
  <2>1. Box(a)' = Box(a) /\ IsFiniteSet(Box(a)) /\ BoxOK(a)
    BY <1>1 DEF EInv, BoxOK, Box, Stored
  <2>2. CASE a # r
    <3>1. ~First(a, call[c].todo)
      BY <1>1, <2>2, FirstIsOne
    <3>2. Inserting(a)' = Inserting(a)
      BY <1>1, <1>3, <1>4, <3>1 DEF Inserting
    <3> QED BY <1>5, <2>1, <2>2, <3>2 DEF BoxOK
  <2>3. CASE a = r /\ r \notin crowded'
    <3>1. Inserting(r) = {} /\ r \notin crowded
      BY <1>5, <2>3
    <3>2. Cardinality(Box(r)) <= Capacity /\ Cardinality(Box(r)) \in Nat
      BY <2>1, <2>3, <3>1, FS_CardinalityType DEF BoxOK
    <3>3. CASE Full(r)
      <4>1. Inserting(r)' = {}
        BY <1>2, <1>3, <1>4, <3>1, <3>3 DEF Inserting
      <4> QED BY <2>1, <2>3, <3>2, <4>1 DEF BoxOK
    <3>4. CASE ~Full(r)
      <4>1. Inserting(r)' = {c}
        BY <1>1, <1>2, <1>3, <1>4, <3>1, <3>4 DEF Inserting
      <4>2. Cardinality(Box(r)) < Capacity
        BY <3>2, <3>4, BusBoundsAssumption DEF Full
      <4> QED BY <2>1, <2>3, <4>1, <4>2 DEF BoxOK
    <3> QED BY <3>3, <3>4
  <2>4. CASE a = r /\ r \in crowded'
    BY <2>1, <2>4 DEF BoxOK
  <2> QED BY <2>2, <2>3, <2>4
<1> QED BY <1>1, <1>4, <1>6, <1>7, <1>8, <1>9, <1>10, RosterStays DEF EInv

(* The one step that fills a mailbox.                                       *)
LEMMA InsertKeeps ==
  ASSUME EInv, NEW c \in Calls, NEW r \in Agents, Insert(c, r)
  PROVE  EInv'
<1> DEFINE pc == IF call[c].todo = {r} THEN "announce" ELSE "check"
           n == [call[c] EXCEPT !.todo = call[c].todo \ {r},
                                !.made = call[c].made \cup {r}, !.pc = pc]
           m == [mail[c][r] EXCEPT !.at = "queued"]
<1>1. /\ call[c].pc = "insert" /\ First(r, call[c].todo) /\ call' = [call EXCEPT ![c] = n]
      /\ mail' = [mail EXCEPT ![c][r] = m]
      /\ UNCHANGED <<known, roles, restarts, tangled, crowded>>
  BY DEF Insert
<1>2. /\ pc \in {"announce", "check"}
      /\ pc = "announce" <=> call[c].todo \ {r} = {}
  BY <1>1 DEF First
<1> HIDE DEF pc
<1>3. /\ n \in Call /\ n.pc = pc /\ n.kind = call[c].kind /\ n.agent = call[c].agent
      /\ n.todo = call[c].todo \ {r} /\ n.made = call[c].made \cup {r}
      /\ n.audience = call[c].audience
  BY <1>2, CallType DEF EInv, Call
<1>4. m \in Letter /\ m.at = "queued"
  BY DEF EInv, TypeOK, Letter
<1> HIDE DEF n, m
<1>5. /\ call' \in [Calls -> Call] /\ call'[c] = n
      /\ \A k \in Calls \ {c} : call'[k] = call[k]
  BY <1>1, <1>3 DEF EInv, TypeOK
<1>6. /\ mail' \in [Calls -> [Agents -> Letter]] /\ mail'[c][r] = m
      /\ \A a \in Agents \ {r} : mail'[c][a] = mail[c][a]
      /\ \A k \in Calls \ {c} : mail'[k] = mail[k]
  BY <1>1, <1>4 DEF EInv, TypeOK
<1>7. TypeOK'
  BY <1>1, <1>3, <1>5, <1>6 DEF EInv, TypeOK
<1>8. CallOK(c)'
  <2>1. call[c].kind \in {"send", "cast", "broadcast"}
    BY <1>1 DEF EInv, CallOK, ProgressOK
  <2>2. ProgressOK(c)' /\ MarkerOK(c)'
    BY <1>2, <1>3, <1>5, <2>1 DEF ProgressOK, MarkerOK
  <2>3. AudienceOK(c)'
    <3> SUFFICES ASSUME call'[c].kind = "broadcast",
                        NEW a \in call'[c].audience \ tangled'
                 PROVE  a \in call'[c].todo \/ mail'[c][a].at # "unsent"
      BY <1>2, <1>3, <1>5 DEF AudienceOK
    <3>1. a \in Agents /\ (a \in call[c].todo \/ mail[c][a].at # "unsent")
      BY <1>1, <1>3, <1>5, CallType DEF EInv, CallOK, AudienceOK
    <3> QED BY <1>3, <1>4, <1>5, <1>6, <3>1
  <2> QED BY <2>2, <2>3 DEF CallOK
<1>9. \A k \in Calls \ {c} : CallOK(k)'
  BY <1>1, <1>5, <1>6, RosterStays DEF EInv, CallOK, ProgressOK, AudienceOK
<1>10. LettersAreAnnounced'
  <2> SUFFICES ASSUME NEW k \in Calls, NEW a \in Agents,
                      mail'[k][a].at = "queued", ~mail'[k][a].announced
               PROVE  \/ call'[k].pc \in {"failed", "died"}
                      \/ call'[k].pc # "done" /\ a \in call'[k].made
    BY DEF LettersAreAnnounced
  <2>1. CASE k # c
    BY <1>5, <1>6, <2>1 DEF EInv, LettersAreAnnounced
  <2>2. CASE k = c /\ a = r
    BY <1>2, <1>3, <1>5, <2>2
  <2>3. CASE k = c /\ a # r
    BY <1>1, <1>2, <1>3, <1>5, <1>6, <2>3 DEF EInv, LettersAreAnnounced
  <2> QED BY <2>1, <2>2, <2>3
<1>11. ASSUME NEW a \in Agents PROVE BoxOK(a)'
  <2>1. IsFiniteSet(Box(a)) /\ BoxOK(a) /\ Cardinality(Box(a)) \in Nat
    BY FS_CardinalityType DEF EInv, BoxOK
  <2>2. CASE a # r
    <3>1. ~First(a, call[c].todo)
      BY <1>1, <2>2, FirstIsOne
    <3>2. Inserting(a)' = Inserting(a)
      BY <1>2, <1>3, <1>5, <3>1 DEF Inserting
    <3>3. Box(a)' = Box(a)
      BY <1>6, <2>2 DEF Box, Stored
    <3> QED BY <1>1, <2>1, <3>2, <3>3 DEF BoxOK
  <2>3. CASE a = r
    <3>1. c \in Inserting(r)
      BY <1>1 DEF Inserting
    <3>2. Inserting(r)' = Inserting(r) \ {c}
      BY <1>2, <1>3, <1>5 DEF Inserting
    <3>3. Box(r)' = Box(r) \cup {c}
      BY <1>4, <1>6 DEF Box, Stored
    <3>4. /\ IsFiniteSet(Box(r)') /\ Cardinality(Box(r)') \in Nat
          /\ Cardinality(Box(r)') <= Cardinality(Box(r)) + 1
      BY <2>1, <2>3, <3>3, FS_AddElement, FS_CardinalityType
    <3>5. CASE r \notin crowded
      <4>1. Inserting(r) = {c} /\ Cardinality(Box(r)) < Capacity
        BY <2>1, <2>3, <3>1, <3>5 DEF BoxOK
      <4> QED BY <2>1, <2>3, <3>2, <3>4, <4>1, BusBoundsAssumption DEF BoxOK
    <3>6. CASE r \in crowded
      BY <1>1, <2>3, <3>4, <3>6 DEF BoxOK
    <3> QED BY <3>5, <3>6
  <2> QED BY <2>2, <2>3
<1> QED BY <1>1, <1>5, <1>7, <1>8, <1>9, <1>10, <1>11, RosterStays DEF EInv

(* The last copies of a broadcast are announced like the first.             *)
LEMMA AnnounceKeeps ==
  ASSUME EInv, NEW c \in Calls, NEW r \in Agents, Announce(c, r)
  PROVE  EInv'
<1> DEFINE pc == IF call[c].made = {r} THEN "done" ELSE "announce"
           n == [call[c] EXCEPT !.made = call[c].made \ {r}, !.pc = pc]
           m == [mail[c][r] EXCEPT !.announced = Stored(c, r)]
<1>1. /\ call[c].pc = "announce" /\ First(r, call[c].made)
      /\ call' = [call EXCEPT ![c] = n] /\ mail' = [mail EXCEPT ![c][r] = m]
      /\ UNCHANGED <<known, roles, restarts, tangled, crowded>>
  BY DEF Announce
<1>2. /\ pc \in {"announce", "done"}
      /\ pc = "done" <=> call[c].made \ {r} = {}
  BY <1>1 DEF First
<1> HIDE DEF pc
<1>3. /\ n \in Call /\ n.pc = pc /\ n.kind = call[c].kind /\ n.agent = call[c].agent
      /\ n.todo = call[c].todo /\ n.made = call[c].made \ {r}
      /\ n.audience = call[c].audience
  BY <1>2, CallType DEF EInv, Call
<1>4. Stored(c, r) \in BOOLEAN /\ (mail[c][r].at = "queued" => Stored(c, r))
  BY DEF Stored
<1>5. m \in Letter /\ m.at = mail[c][r].at /\ m.announced = Stored(c, r)
  BY <1>4 DEF EInv, TypeOK, Letter
<1> HIDE DEF n, m
<1>6. /\ call' \in [Calls -> Call] /\ call'[c] = n
      /\ \A k \in Calls \ {c} : call'[k] = call[k]
  BY <1>1, <1>3 DEF EInv, TypeOK
<1>7. /\ mail' \in [Calls -> [Agents -> Letter]] /\ mail'[c][r] = m
      /\ \A a \in Agents \ {r} : mail'[c][a] = mail[c][a]
      /\ \A k \in Calls \ {c} : mail'[k] = mail[k]
  BY <1>1, <1>5 DEF EInv, TypeOK
<1>8. \A k \in Calls, a \in Agents : mail'[k][a].at = mail[k][a].at
  BY <1>5, <1>7
<1>9. TypeOK'
  BY <1>1, <1>3, <1>6, <1>7 DEF EInv, TypeOK
<1>10. CallOK(c)'
  <2>1. ProgressOK(c)' /\ MarkerOK(c)'
    BY <1>1, <1>2, <1>3, <1>6 DEF EInv, CallOK, ProgressOK, MarkerOK
  <2>2. AudienceOK(c)'
    <3>1. call[c].todo = {} /\ AudienceOK(c) /\ call[c].audience \in SUBSET Agents
      BY <1>1, CallType DEF EInv, CallOK, ProgressOK
    <3> QED BY <1>1, <1>2, <1>3, <1>6, <1>8, <3>1 DEF AudienceOK
  <2> QED BY <2>1, <2>2 DEF CallOK
<1>11. \A k \in Calls \ {c} : CallOK(k)'
  BY <1>1, <1>6, <1>7, RosterStays DEF EInv, CallOK, ProgressOK, AudienceOK
<1>12. LettersAreAnnounced'
  <2> SUFFICES ASSUME NEW k \in Calls, NEW a \in Agents,
                      mail'[k][a].at = "queued", ~mail'[k][a].announced
               PROVE  \/ call'[k].pc \in {"failed", "died"}
                      \/ call'[k].pc # "done" /\ a \in call'[k].made
    BY DEF LettersAreAnnounced
  <2>1. CASE k # c
    BY <1>6, <1>7, <2>1 DEF EInv, LettersAreAnnounced
  <2>2. CASE k = c /\ a = r
    BY <1>4, <1>5, <1>7, <2>2
  <2>3. CASE k = c /\ a # r
    BY <1>1, <1>2, <1>3, <1>6, <1>7, <2>3 DEF EInv, LettersAreAnnounced
  <2> QED BY <2>1, <2>2, <2>3
<1>13. \A a \in Agents : BoxOK(a)'
  <2>1. \A a \in Agents : Box(a)' = Box(a)
    BY <1>8 DEF Box, Stored
  <2>2. \A a \in Agents : Inserting(a)' = Inserting(a)
    BY <1>1, <1>2, <1>3, <1>6 DEF Inserting
  <2> QED BY <1>1, <2>1, <2>2, BoxesShrink
<1> QED BY <1>1, <1>6, <1>9, <1>10, <1>11, <1>12, <1>13, RosterStays DEF EInv
-----------------------------------------------------------------------------
(* Letters taken or deleted.                                                *)
LEMMA MailStep ==
  ASSUME EInv, NEW c \in Calls, NEW r \in Agents, NEW m \in Letter,
         mail' = [mail EXCEPT ![c][r] = m], m.at \in {"taken", "deleted"},
         mail[c][r].at \in {"queued", "taken"},
         UNCHANGED <<known, roles, call, restarts, tangled, crowded>>
  PROVE  EInv'
<1>1. /\ mail' \in [Calls -> [Agents -> Letter]] /\ mail'[c][r] = m
      /\ \A k \in Calls, a \in Agents :
           mail'[k][a] = mail[k][a] \/ (k = c /\ a = r /\ mail'[k][a] = m)
  BY DEF EInv, TypeOK
<1>2. TypeOK'
  BY <1>1 DEF EInv, TypeOK
<1>3. ASSUME NEW k \in Calls PROVE CallOK(k)'
  <2>1. CallOK(k) /\ call[k].audience \in SUBSET Agents
    BY CallType DEF EInv
  <2> QED BY <1>1, <2>1 DEF CallOK, ProgressOK, AudienceOK, MarkerOK
<1>4. RolesAreKnown'
  BY DEF EInv, RolesAreKnown, Registered, Rewriting
<1>5. LettersAreAnnounced'
  BY <1>1 DEF EInv, LettersAreAnnounced
<1>6. \A a \in Agents : BoxOK(a)'
  <2>1. \A a \in Agents : Box(a)' \subseteq Box(a)
    BY <1>1 DEF Box, Stored
  <2>2. \A a \in Agents : Inserting(a)' = Inserting(a)
    BY DEF Inserting
  <2> QED BY <2>1, <2>2, BoxesShrink
<1> QED BY <1>2, <1>3, <1>4, <1>5, <1>6 DEF EInv

LEMMA PollKeeps ==
  ASSUME EInv, NEW c \in Calls, NEW a \in Agents, Poll(a, c)
  PROVE  EInv'
<1> DEFINE m == [mail[c][a] EXCEPT !.at = "taken"]
<1>1. m \in Letter /\ m.at = "taken"
  BY DEF EInv, TypeOK, Letter
<1>2. /\ mail' = [mail EXCEPT ![c][a] = m] /\ mail[c][a].at \in {"queued", "taken"}
      /\ UNCHANGED <<known, roles, call, restarts, tangled, crowded>>
  BY DEF Poll
<1> HIDE DEF m
<1> QED BY <1>1, <1>2, MailStep

LEMMA DeleteKeeps ==
  ASSUME EInv, NEW c \in Calls, NEW a \in Agents, Delete(a, c)
  PROVE  EInv'
<1> DEFINE m == [mail[c][a] EXCEPT !.at = "deleted"]
<1>1. m \in Letter /\ m.at = "deleted"
  BY DEF EInv, TypeOK, Letter
<1>2. /\ mail' = [mail EXCEPT ![c][a] = m] /\ mail[c][a].at \in {"queued", "taken"}
      /\ UNCHANGED <<known, roles, call, restarts, tangled, crowded>>
  BY DEF Delete, Stored
<1> HIDE DEF m
<1> QED BY <1>1, <1>2, MailStep
-----------------------------------------------------------------------------
LEMMA RestartKeeps == ASSUME EInv, Restart PROVE EInv'
<1> DEFINE Over == {"idle", "done", "failed", "died"}
<1>1. /\ known' = known \cup Seeded /\ roles' = SeedRole
      /\ UNCHANGED <<mail, tangled, crowded>>
  BY DEF Restart
<1>2. ASSUME NEW c \in Calls
      PROVE  /\ call'[c] \in Call
             /\ \/ call'[c] = call[c] /\ call[c].pc \in Over
                \/ /\ call'[c].pc = "died" /\ call'[c].kind = call[c].kind
                   /\ call'[c].agent = call[c].agent /\ call'[c].todo = call[c].todo
                   /\ call'[c].made = call[c].made
  <2>1. call[c] \in Call
    BY CallType DEF EInv
  <2>2. CASE call[c].pc \in Over
    BY <2>1, <2>2 DEF Restart
  <2>3. CASE call[c].pc \notin Over
    <3>1. call'[c] = [call[c] EXCEPT !.pc = "died"]
      BY <2>3 DEF Restart
    <3> QED BY <2>1, <3>1 DEF Call
  <2> QED BY <2>2, <2>3
<1>3. TypeOK'
  <2>1. call' \in [Calls -> Call]
    BY <1>2 DEF Restart
  <2>2. restarts' \in 0..MaxRestarts /\ Seeded \in SUBSET Agents
    BY BusBoundsAssumption DEF Restart, EInv, TypeOK, Seeded
  <2>3. \A c \in Calls : call'[c].kind = "broadcast" => call'[c].agent \notin call'[c].todo
    BY <1>2 DEF EInv, TypeOK
  <2> QED BY <1>1, <2>1, <2>2, <2>3, SeedRoleAssumption DEF EInv, TypeOK
<1>4. ASSUME NEW c \in Calls PROVE CallOK(c)'
  BY <1>1, <1>2 DEF EInv, CallOK, ProgressOK, AudienceOK, MarkerOK
<1>5. RolesAreKnown'
  BY <1>1 DEF RolesAreKnown, Registered, Seeded
<1>6. LettersAreAnnounced'
  BY <1>1, <1>2 DEF EInv, LettersAreAnnounced
<1>7. \A a \in Agents : BoxOK(a)'
  <2>1. \A a \in Agents : Box(a)' = Box(a)
    BY <1>1 DEF Box, Stored
  <2>2. \A a \in Agents : Inserting(a)' = {}
    BY <1>2 DEF Inserting
  <2> QED BY <1>1, <2>1, <2>2, BoxesShrink
<1> QED BY <1>3, <1>4, <1>5, <1>6, <1>7 DEF EInv

LEMMA BusStutter == EInv /\ UNCHANGED vars => EInv'
<1> SUFFICES ASSUME EInv, UNCHANGED vars PROVE EInv'
  OBVIOUS
<1>1. UNCHANGED <<known, roles, mail, call, restarts, tangled, crowded>>
  BY DEF vars
<1>2. TypeOK' /\ RolesAreKnown' /\ LettersAreAnnounced'
  BY <1>1 DEF EInv, TypeOK, RolesAreKnown, Registered, Rewriting, LettersAreAnnounced
<1>3. \A c \in Calls : CallOK(c)'
  BY <1>1 DEF EInv, CallOK, ProgressOK, AudienceOK, MarkerOK
<1>4. \A a \in Agents : BoxOK(a)'
  <2>1. \A a \in Agents : Box(a)' = Box(a) /\ Inserting(a)' = Inserting(a)
    BY <1>1 DEF Box, Stored, Inserting
  <2> QED BY <1>1, <2>1, BoxesShrink
<1> QED BY <1>2, <1>3, <1>4 DEF EInv

LEMMA BusNext == EInv /\ Next => EInv'
<1> SUFFICES ASSUME EInv, Next PROVE EInv'
  OBVIOUS
<1>1. CASE \E c \in Calls : SetRole(c)
  BY <1>1, SetRoleKeeps
<1>2. CASE Restart
  BY <1>2, RestartKeeps
<1>3. ASSUME NEW c \in Calls, NEW a \in Agents,
             \/ \E role \in {"pm", "worker"} : Register(c, a, role)
             \/ Unregister(c, a)
             \/ \E r \in Agents, kind \in {"send", "cast"} : Send(c, a, r, kind)
             \/ Broadcast(c, a)
             \/ Check(c, a) \/ Count(c, a) \/ Insert(c, a) \/ Announce(c, a)
             \/ Poll(a, c) \/ Delete(a, c)
      PROVE  EInv'
  <2>1. CASE (\E role \in {"pm", "worker"} : Register(c, a, role)) \/ Unregister(c, a)
    BY <2>1, RegisterKeeps, UnregisterKeeps
  <2>2. CASE (\E r \in Agents, kind \in {"send", "cast"} : Send(c, a, r, kind)) \/ Broadcast(c, a)
    BY <2>2, SendKeeps, BroadcastKeeps
  <2>3. CASE Check(c, a) \/ Count(c, a) \/ Insert(c, a) \/ Announce(c, a)
    BY <2>3, CheckKeeps, CountKeeps, InsertKeeps, AnnounceKeeps
  <2>4. CASE Poll(a, c) \/ Delete(a, c)
    BY <2>4, PollKeeps, DeleteKeeps
  <2> QED BY <1>3, <2>1, <2>2, <2>3, <2>4
<1> QED BY <1>1, <1>2, <1>3 DEF Next

LEMMA BusInvariant == Spec => []EInv
<1>1. EInv /\ [Next]_vars => EInv'
  BY BusNext, BusStutter
<1> QED BY EInitial, <1>1, PTL DEF Spec

LEMMA EInvImplies ==
  EInv => TypeOK /\ FanoutIsWhole /\ RolesAreKnown /\ BoxesAreBounded /\ LettersAreAnnounced
<1> SUFFICES ASSUME EInv
             PROVE  /\ TypeOK /\ FanoutIsWhole /\ RolesAreKnown /\ BoxesAreBounded
                    /\ LettersAreAnnounced
  OBVIOUS
<1>1. FanoutIsWhole
  BY DEF EInv, CallOK, ProgressOK, AudienceOK, FanoutIsWhole
<1>2. BoxesAreBounded
  <2> SUFFICES ASSUME NEW a \in Agents \ crowded PROVE Cardinality(Box(a)) <= Capacity
    BY DEF BoxesAreBounded
  <2>1. BoxOK(a) /\ Cardinality(Box(a)) \in Nat
    BY FS_CardinalityType DEF EInv, BoxOK
  <2> QED BY <2>1, BusBoundsAssumption DEF BoxOK
<1> QED BY <1>1, <1>2 DEF EInv
-----------------------------------------------------------------------------
(* The bus keeps its types, and nobody gets a copy of its own broadcast.    *)
THEOREM BusTypeCorrect == Spec => []TypeOK
BY BusInvariant, EInvImplies, PTL

(* A broadcast that succeeded missed nobody, for any roster and number of   *)
(* calls, over any number of restarts.                                      *)
THEOREM BroadcastsReachAll == Spec => []FanoutIsWhole
BY BusInvariant, EInvImplies, PTL

(* Who has a role has a marker, unless two calls changed it at once.        *)
THEOREM RolesHaveMarkers == Spec => []RolesAreKnown
BY BusInvariant, EInvImplies, PTL

(* Only a race between the count and the insert overfills a mailbox.        *)
THEOREM MailboxesAreBounded == Spec => []BoxesAreBounded
BY BusInvariant, EInvImplies, PTL

(* Only a call that failed or died leaves letters unannounced.              *)
THEOREM CopiesAreAnnounced == Spec => []LettersAreAnnounced
BY BusInvariant, EInvImplies, PTL
=============================================================================
