------------------------------- MODULE EventBus -------------------------------
(***************************************************************************)
(* The roster of one pool and what is sent by it.  EventBus keeps the roles *)
(* of registered agents in memory, its store keeps a marker for each agent  *)
(* it was told of; agent/register and agent/unregister write first the one, *)
(* then the other.  message/send asks the roles, message/send to "all"      *)
(* takes its receivers from the store, and sends to one after the other.    *)
(*                                                                          *)
(* The store is sled: markers and letters outlive the process, agents() is  *)
(* sorted, and a mailbox is counted before, not while a letter is inserted. *)
(* What becomes of a letter once it is announced is in PushDispatch.        *)
(***************************************************************************)
EXTENDS Naturals, FiniteSets

CONSTANTS Agents,      \* numbered in the order of their names
          SeedRole,    \* the roster main.rs registers
          Calls,       \* one id for each call that is made
          Capacity,    \* letters a mailbox takes
          MaxRestarts  \* bound on restarts

ASSUME AgentsAssumption == Agents # {} /\ Agents \subseteq Nat
ASSUME SeedRoleAssumption == SeedRole \in [Agents -> {"none", "pm", "worker"}]
ASSUME BusBoundsAssumption == Capacity \in Nat \ {0} /\ MaxRestarts \in Nat

VARIABLES known,     \* the markers in the store
          roles,     \* EventBus::roles
          mail,      \* the letter of each call for each agent
          call,
          restarts,
          tangled,   \* history: agents registered and unregistered at once
          crowded    \* history: agents sent to by two calls at once

vars == <<known, roles, mail, call, restarts, tangled, crowded>>
-----------------------------------------------------------------------------
(* call   agent is the sender, or who is (un)registered; todo are the       *)
(*        receivers to come, made those to whom a letter was sent and not   *)
(*        announced yet.  pc:                                               *)
(*   check     about to pass the gates of send_envelope                     *)
(*   count     about to ask the store whether the mailbox is full           *)
(*   insert    about to insert the letter                                   *)
(*   announce  about to spawn push_on_arrival for its letters               *)
(*   roles     (register, unregister) the store is written, roles are not   *)
(* audience is history: who was registered when the broadcast began.        *)
Letter == [at : {"unsent", "queued", "taken", "deleted"}, announced : BOOLEAN]

Call == [kind : {"none", "send", "cast", "broadcast", "register", "unregister"},
         agent : Agents, role : {"none", "pm", "worker"},
         pc : {"idle", "check", "count", "insert", "announce", "roles",
               "done", "failed", "died"},
         todo : SUBSET Agents, made : SUBSET Agents, audience : SUBSET Agents]

(* Nobody gets a copy of a broadcast of its own. *)
TypeOK ==
  /\ known \in SUBSET Agents
  /\ roles \in [Agents -> {"none", "pm", "worker"}]
  /\ mail \in [Calls -> [Agents -> Letter]]
  /\ call \in [Calls -> Call]
  /\ restarts \in 0..MaxRestarts
  /\ tangled \in SUBSET Agents
  /\ crowded \in SUBSET Agents
  /\ \A c \in Calls :
       call[c].kind = "broadcast" => call[c].agent \notin call[c].todo

Seeded == {a \in Agents : SeedRole[a] # "none"}

Init ==
  /\ known = Seeded
  /\ roles = SeedRole
  /\ mail = [c \in Calls |-> [a \in Agents |-> [at |-> "unsent", announced |-> FALSE]]]
  /\ call = [c \in Calls |->
       [kind |-> "none", agent |-> CHOOSE a \in Agents : TRUE, role |-> "none",
        pc |-> "idle", todo |-> {}, made |-> {}, audience |-> {}]]
  /\ restarts = 0
  /\ tangled = {}
  /\ crowded = {}

Registered(a) == roles[a] # "none"

First(a, S) == a \in S /\ \A b \in S : a <= b

Stored(c, a) == mail[c][a].at \in {"queued", "taken"}

Box(a) == {c \in Calls : Stored(c, a)}

(* Calls about to write the role of a. *)
Rewriting(a, kind) ==
  \E c \in Calls : call[c].pc = "roles" /\ call[c].agent = a /\ call[c].kind = kind

(* Calls that found room in the mailbox of a. *)
Inserting(a) == {c \in Calls : call[c].pc = "insert" /\ First(a, call[c].todo)}
-----------------------------------------------------------------------------
(* EventBus::register and unregister: the store, then the roles. *)
Rewrite(c, kind, a, role) ==
  /\ call[c].pc = "idle"
  /\ call' = [call EXCEPT ![c].kind = kind, ![c].agent = a, ![c].role = role,
                          ![c].pc = "roles"]
  /\ UNCHANGED <<roles, mail, restarts, crowded>>

Register(c, a, role) ==
  /\ Rewrite(c, "register", a, role)
  /\ known' = known \cup {a}
  /\ tangled' = IF Rewriting(a, "unregister") THEN tangled \cup {a} ELSE tangled

Unregister(c, a) ==
  /\ Rewrite(c, "unregister", a, "none")
  /\ known' = known \ {a}
  /\ tangled' = IF Rewriting(a, "register") THEN tangled \cup {a} ELSE tangled

SetRole(c) ==
  /\ call[c].pc = "roles"
  /\ roles' = [roles EXCEPT ![call[c].agent] = call[c].role]
  /\ call' = [call EXCEPT ![c].pc = "done"]
  /\ UNCHANGED <<known, mail, restarts, tangled, crowded>>

(* message/send to one agent of this pool; a cast is a letter of type       *)
(* broadcast to a single receiver.                                          *)
Send(c, s, r, kind) ==
  /\ call[c].pc = "idle"
  /\ call' = [call EXCEPT ![c].kind = kind, ![c].agent = s, ![c].todo = {r},
                          ![c].pc = "check"]
  /\ UNCHANGED <<known, roles, mail, restarts, tangled, crowded>>

(* message/send to "all", whatever its type: the receivers are fixed now. *)
BroadcastToSelf_Mutant(c, s) ==     \* the sender is not left out
  /\ call[c].pc = "idle"
  /\ call' = [call EXCEPT ![c].kind = "broadcast", ![c].agent = s, ![c].pc = "check",
                          ![c].todo = known]
  /\ UNCHANGED <<known, roles, mail, restarts, tangled, crowded>>
Broadcast(c, s) ==
  /\ call[c].pc = "idle"
  /\ call' = [call EXCEPT
       ![c].kind = "broadcast", ![c].agent = s, ![c].todo = known \ {s},
       ![c].pc = IF known \subseteq {s} THEN "done" ELSE "check",
       ![c].audience = {a \in Agents \ {s} : Registered(a) /\ ~Rewriting(a, "unregister")}]
  /\ UNCHANGED <<known, roles, mail, restarts, tangled, crowded>>

(* The gates of send_envelope.  A letter of type broadcast, one copy or     *)
(* all, needs a PM, and its receiver is not looked at; a refusal ends the   *)
(* call, whatever it has sent by then.                                      *)
MaySend(c, r) ==
  IF call[c].kind \in {"broadcast", "cast"}
  THEN roles[call[c].agent] = "pm"
  ELSE Registered(call[c].agent) /\ Registered(r)

Check(c, r) ==
  /\ call[c].pc = "check"
  /\ First(r, call[c].todo)
  /\ call' = [call EXCEPT ![c].pc =
                IF MaySend(c, r) THEN "count" ELSE "failed"]
  /\ UNCHANGED <<known, roles, mail, restarts, tangled, crowded>>

(* Letters of any state count. *)
FullOfQueued_Mutant(a) ==           \* only queued letters count
  Cardinality({c \in Calls : mail[c][a].at = "queued"}) >= Capacity
Full(a) == Cardinality(Box(a)) >= Capacity

CountSkips_Mutant(c, r) ==          \* a broadcast passes over a full mailbox
  LET rest == call[c].todo \ {r} IN
  /\ call[c].pc = "count"
  /\ First(r, call[c].todo)
  /\ call' = IF ~Full(r) THEN [call EXCEPT ![c].pc = "insert"]
             ELSE [call EXCEPT ![c].todo = rest,
                     ![c].pc = CASE rest # {} -> "check"
                                 [] rest = {} /\ call[c].made = {} -> "done"
                                 [] OTHER -> "announce"]
  /\ crowded' = IF Inserting(r) # {} THEN crowded \cup {r} ELSE crowded
  /\ UNCHANGED <<known, roles, mail, restarts, tangled>>
Count(c, r) ==
  /\ call[c].pc = "count"
  /\ First(r, call[c].todo)
  /\ call' = [call EXCEPT ![c].pc = IF Full(r) THEN "failed" ELSE "insert"]
  /\ crowded' = IF Inserting(r) # {} THEN crowded \cup {r} ELSE crowded
  /\ UNCHANGED <<known, roles, mail, restarts, tangled>>

Insert(c, r) ==
  /\ call[c].pc = "insert"
  /\ First(r, call[c].todo)
  /\ mail' = [mail EXCEPT ![c][r].at = "queued"]
  /\ call' = [call EXCEPT ![c].todo = @ \ {r}, ![c].made = @ \cup {r},
                          ![c].pc = IF call[c].todo = {r} THEN "announce" ELSE "check"]
  /\ UNCHANGED <<known, roles, restarts, tangled, crowded>>

(* When the last letter is sent, push_on_arrival is spawned for each letter *)
(* that is still there.                                                     *)
AnnounceFirst_Mutant(c, r) ==       \* only the first copy is announced
  /\ call[c].pc = "announce"
  /\ First(r, call[c].made)
  /\ mail' = [mail EXCEPT ![c][r].announced = Stored(c, r)]
  /\ call' = [call EXCEPT ![c].made = {}, ![c].pc = "done"]
  /\ UNCHANGED <<known, roles, restarts, tangled, crowded>>
Announce(c, r) ==
  /\ call[c].pc = "announce"
  /\ First(r, call[c].made)
  /\ mail' = [mail EXCEPT ![c][r].announced = Stored(c, r)]
  /\ call' = [call EXCEPT ![c].made = @ \ {r},
                          ![c].pc = IF call[c].made = {r} THEN "done" ELSE "announce"]
  /\ UNCHANGED <<known, roles, restarts, tangled, crowded>>
-----------------------------------------------------------------------------
(* message/poll of a registered agent, letter by letter. *)
Poll(a, c) ==
  /\ Registered(a)
  /\ mail[c][a].at = "queued"
  /\ mail' = [mail EXCEPT ![c][a].at = "taken"]
  /\ UNCHANGED <<known, roles, call, restarts, tangled, crowded>>

Delete(a, c) ==
  /\ Stored(c, a)
  /\ mail' = [mail EXCEPT ![c][a].at = "deleted"]
  /\ UNCHANGED <<known, roles, call, restarts, tangled, crowded>>

(* main.rs registers its roster again, in store and roles; other agents     *)
(* keep their markers and have no role.                                     *)
RestartRoles_Mutant ==              \* the roster is seeded into roles alone
  /\ restarts < MaxRestarts
  /\ restarts' = restarts + 1
  /\ roles' = SeedRole
  /\ call' = [c \in Calls |->
       IF call[c].pc \in {"idle", "done", "failed", "died"} THEN call[c]
       ELSE [call[c] EXCEPT !.pc = "died"]]
  /\ UNCHANGED <<known, mail, tangled, crowded>>
Restart ==
  /\ restarts < MaxRestarts
  /\ restarts' = restarts + 1
  /\ roles' = SeedRole
  /\ known' = known \cup Seeded
  /\ call' = [c \in Calls |->
       IF call[c].pc \in {"idle", "done", "failed", "died"} THEN call[c]
       ELSE [call[c] EXCEPT !.pc = "died"]]
  /\ UNCHANGED <<mail, tangled, crowded>>
-----------------------------------------------------------------------------
Next ==
  \/ \E c \in Calls, a \in Agents :
       \/ \E role \in {"pm", "worker"} : Register(c, a, role)
       \/ Unregister(c, a)
       \/ \E r \in Agents, kind \in {"send", "cast"} : Send(c, a, r, kind)
       \/ Broadcast(c, a)
       \/ Check(c, a) \/ Count(c, a) \/ Insert(c, a) \/ Announce(c, a)
       \/ Poll(a, c) \/ Delete(a, c)
  \/ \E c \in Calls : SetRole(c)
  \/ Restart

Spec == Init /\ [][Next]_vars
-----------------------------------------------------------------------------
(* A broadcast that answered with its ids left a letter for everyone who    *)
(* was registered when it began, restarted bus and overlapping changes of   *)
(* the roster included: though its receivers come from the store and not    *)
(* from the roles, nobody is missed.                                        *)
FanoutIsWhole ==
  \A c \in Calls :
    call[c].kind = "broadcast" /\ call[c].pc \in {"announce", "done"} =>
      \A a \in call[c].audience \ tangled : mail[c][a].at # "unsent"

(* An agent with a role has a marker, so that broadcasts find it; only an   *)
(* agent that was registered and unregistered at the same time may be left  *)
(* with the one and without the other.                                      *)
RolesAreKnown ==
  \A a \in Agents :
    Registered(a) => a \in known \/ a \in tangled \/ Rewriting(a, "unregister")

(* A mailbox never holds more than its capacity, unless two calls counted   *)
(* it before either had inserted its letter.                                *)
BoxesAreBounded ==
  \A a \in Agents \ crowded : Cardinality(Box(a)) <= Capacity

(* Every letter is announced to the push machinery, or its call still goes  *)
(* to do so: a broadcast that was refused half-way, or whose process died,  *)
(* is the only way for a letter to stay unannounced.                        *)
LettersAreAnnounced ==
  \A c \in Calls, a \in Agents :
    mail[c][a].at = "queued" /\ ~mail[c][a].announced =>
      \/ call[c].pc \in {"failed", "died"}
      \/ call[c].pc # "done" /\ a \in call[c].made
=============================================================================
