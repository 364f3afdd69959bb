---------------------------- MODULE PushDispatch ----------------------------
(***************************************************************************)
(* The hot-potato server with everything that can push a letter running at *)
(* once: the push-on-arrival task of each local send, the task of each     *)
(* federated inbound send, the re-push task of each agent/register, and    *)
(* the queue sweeper with its federation watch; and beside them the        *)
(* recipients, who poll, read, ack and delete.                             *)
(*                                                                         *)
(* Every store operation is one critical section, as in InMemoryStore, and *)
(* one action; between two operations of a task, and while its HTTP        *)
(* request is in flight, every other actor may move.  With Durable = TRUE  *)
(* the letters and the push registry outlive a restart of the process,     *)
(* whose tasks and role table do not.                                      *)
(***************************************************************************)
EXTENDS LetterStore, FiniteSets

CONSTANTS Letters,      \* letter ids, numbered in order of created_at
          Remotes,      \* senders that live on a peer pool
          Seed,         \* agents main.rs registers at boot
          Spawned,      \* slots for tokio::spawn'ed tasks
          Sweeper,      \* the sweeper's task
          Vias,         \* kinds of deliver_via that agent/register may carry
          Results,      \* answers an endpoint may give to a push
          Capacity,     \* letters a mailbox holds
          HasPeers,     \* peers are configured: the sweeper runs the watch
          MaxRestarts   \* bound on the restarts of the process

ASSUME AgentsAssumption == Agents # {}
ASSUME LettersAssumption == Letters \subseteq Nat \ {0}
ASSUME SweeperAssumption == Sweeper \notin Spawned
ASSUME SeedAssumption == Seed \subseteq Agents
ASSUME RemotesAssumption == Remotes \subseteq Agents
ASSUME MaxRestartsAssumption == MaxRestarts \in Nat
ASSUME ViasAssumption == Vias \subseteq {"a2a", "webhook", "relay", "poll"}
ASSUME ResultsAssumption == Results \subseteq {"ok", "auth", "error"}
ASSUME ModesAssumption == HasPeers \in BOOLEAN

VARIABLES mail,      \* what the store holds for each letter id
          roles,     \* agents in EventBus::roles, lost with the process
          registry,  \* deliver_via of each agent's AgentEntry, if it has one
          task,      \* what each task is doing
          restarts,  \* restarts so far (bounded by MaxRestarts)
          trace      \* history of each letter, read by no action

vars == <<mail, roles, registry, task, restarts, trace>>

Task == Spawned \cup {Sweeper}
Push == {"a2a", "webhook", "relay"}   \* DeliverVia::is_push
-----------------------------------------------------------------------------
(* Task state.  kind says which function the task runs, pc where it is:    *)
(*   find     about to peek the mailbox of its letter or of its agent      *)
(*   next     at the head of its loop over todo                            *)
(*   claim    about to call claim_push on cur                              *)
(*   push     about to call dispatch_push for cur                          *)
(*   settle   about to record the outcome of its push                      *)
(*   receipt  (watch) about to call mark_delivered on cur                  *)
(*   reclaim  (sweeper) in its loop over the stale Pushing letters todo,   *)
(*            then about to take its second list_all                       *)
(*   watch    (sweeper) about to run federation_watch_once                 *)
(*   heal     (watch) in its loop over the receivers recv                  *)
(*   rearm    (watch) has looked agent up, about to register it again      *)
(*   revive   (watch) about to call revive_auth_dead on agent              *)
TaskState ==
  [ kind  : {"none", "arrival", "inbound", "repush", "sweep", "watch"},
    pc    : {"idle", "find", "next", "claim", "push", "settle", "receipt",
             "reclaim", "watch", "heal", "rearm", "revive"},
    recv  : SUBSET Agents,
    agent : Agents \cup {"none"},
    todo  : SUBSET Letters,
    cur   : Letters \cup {0},
    out   : {"none", "ok", "auth", "error", "skipped"} ]

Idle == [kind |-> "none", pc |-> "idle", recv |-> {}, agent |-> "none",
         todo |-> {}, cur |-> 0, out |-> "none"]

Goto(t, pc) == [task EXCEPT ![t].pc = pc]
Finish(t)   == [task EXCEPT ![t] = Idle]

(* After one letter is done: the loops go on, a one-letter task ends. *)
NextLetter(t) ==
  IF task[t].kind \in {"arrival", "inbound"}
  THEN Finish(t)
  ELSE [task EXCEPT ![t].pc = "next", ![t].cur = 0, ![t].out = "none"]

(* The letter the task is at, as the store holds it now. *)
Cur(t) == mail[task[t].cur]

First(l, S) == l \in S /\ \A k \in S : l <= k

Waiting(a) == {l \in Letters : mail[l].receiver = a /\ mail[l].status = "queued"}

Mailbox(a) == {l \in Letters : mail[l].receiver = a /\ Stored(mail[l])}
-----------------------------------------------------------------------------
(* History, for the properties only.                                        *)
(*   copies   how often the letter got to its receiver (2 means "or more")  *)
(*   assumed  an A2A timeout was counted as a delivery                      *)
(*   robbed   push_on_arrival moved the letter out of another task's claim  *)
Trace == [ copies : 0..2, assumed : BOOLEAN, robbed : BOOLEAN ]

Untouched == [copies |-> 0, assumed |-> FALSE, robbed |-> FALSE]

Reach(h)  == [h EXCEPT !.copies = IF @ < 2 THEN @ + 1 ELSE @]
Assume(h) == [h EXCEPT !.assumed = TRUE]
-----------------------------------------------------------------------------
Types ==
  /\ mail \in [Letters -> Message]
  /\ roles \in SUBSET Agents
  /\ registry \in [Agents -> Push \cup {"poll", "none"}]
  /\ task \in [Task -> TaskState]
  /\ restarts \in 0..MaxRestarts
  /\ trace \in [Letters -> Trace]

(* Types, and every claim is counted (memory.rs:117): a letter in flight    *)
(* has used up one attempt at least.                                        *)
Counted(m) == m.status = "pushing" => m.attempts > 0

TypeOK == Types /\ \A l \in Letters : Counted(mail[l])

Unsent == [NewMessage(CHOOSE a \in Agents : TRUE) EXCEPT !.status = "unsent"]

(* main.rs: the seed roster has roles but no registry entries. *)
Init ==
  /\ mail = [l \in Letters |-> Unsent]
  /\ roles = Seed
  /\ registry = [a \in Agents |-> "none"]
  /\ task = [t \in Task |-> Idle]
  /\ restarts = 0
  /\ trace = [l \in Letters |-> Untouched]
-----------------------------------------------------------------------------
(* Senders.  Ids are used in order, so id order is created_at order.        *)

Unused(l) == First(l, {k \in Letters : mail[k].status = "unsent"})

HasRoom(a) == Cardinality(Mailbox(a)) < Capacity

Spawn(t, kind, agent, l) ==
  /\ task[t] = Idle
  /\ task' = [task EXCEPT ![t] = [Idle EXCEPT !.kind = kind, !.pc = "find",
                                              !.agent = agent, !.cur = l]]

(* message/send, local path: EventBus::send stores the letter, then the     *)
(* handler spawns push_on_arrival.                                          *)
Send(t, l, s, r) ==
  /\ {s, r} \subseteq roles
  /\ HasRoom(r)
  /\ Unused(l)
  /\ mail' = [mail EXCEPT ![l] = NewMessage(r)]
  /\ Spawn(t, "arrival", r, l)
  /\ UNCHANGED <<roles, registry, restarts, trace>>

(* message/send from a peer pool: an unknown sender is registered as a      *)
(* poll agent first, and stays so when the letter itself is then refused.   *)
Welcome(s) ==
  IF s \in roles
  THEN UNCHANGED <<roles, registry>>
  ELSE /\ roles' = roles \cup {s}
       /\ registry' = [registry EXCEPT ![s] = "poll"]

Inbound(t, l, s, r) ==
  /\ Welcome(s)
  /\ r \in roles'
  /\ HasRoom(r)
  /\ Unused(l)
  /\ mail' = [mail EXCEPT ![l] = NewMessage(r)]
  /\ Spawn(t, "inbound", r, l)
  /\ UNCHANGED <<restarts, trace>>

InboundRefused(s, r) ==
  /\ s \notin roles
  /\ Welcome(s)
  /\ r \notin roles' \/ ~HasRoom(r)
  /\ UNCHANGED <<mail, task, restarts, trace>>
-----------------------------------------------------------------------------
(* Agents.                                                                  *)

(* agent/register: registry entry, role, and a task that re-pushes the      *)
(* agent's whole queue.                                                     *)
Register(t, a, via) ==
  /\ registry' = [registry EXCEPT ![a] = via]
  /\ roles' = roles \cup {a}
  /\ Spawn(t, "repush", a, 0)
  /\ UNCHANGED <<mail, restarts, trace>>

(* agent/unregister: the letters stay. *)
Unregister(a) ==
  /\ a \in roles \/ registry[a] # "none"
  /\ registry' = [registry EXCEPT ![a] = "none"]
  /\ roles' = roles \ {a}
  /\ UNCHANGED <<mail, task, restarts, trace>>

(* message/poll with a limit: the oldest queued letters, up to the limit.   *)
Poll(a, limit) ==
  LET taken == {l \in Waiting(a) :
                  Cardinality({k \in Waiting(a) : k <= l}) <= limit}
  IN /\ a \in roles
     /\ taken # {}
     /\ mail' = [l \in Letters |->
                   IF l \in taken THEN PollClaim(mail[l]) ELSE mail[l]]
     /\ trace' = [l \in Letters |->
                    IF l \in taken THEN Reach(trace[l]) ELSE trace[l]]
     /\ UNCHANGED <<roles, registry, task, restarts>>

(* message/read *)
Read(l) ==
  /\ mail[l].receiver \in roles
  /\ CanRead(mail[l])
  /\ mail' = [mail EXCEPT ![l] = MarkRead(@)]
  /\ UNCHANGED <<roles, registry, task, restarts, trace>>

(* message/ack *)
File(l) ==
  /\ mail[l].receiver \in roles
  /\ CanAck(mail[l])
  /\ mail' = [mail EXCEPT ![l] = Ack(@)]
  /\ UNCHANGED <<roles, registry, task, restarts, trace>>

(* message/delete and message/delete_all *)
Delete(S) ==
  /\ S # {}
  /\ \A l \in S : Stored(mail[l])
  /\ mail' = [l \in Letters |->
                IF l \in S THEN Remove(mail[l]) ELSE mail[l]]
  /\ UNCHANGED <<roles, registry, task, restarts, trace>>

DeleteOne(l) == Delete({l})
DeleteAll    == Delete({l \in Letters : Stored(mail[l])})
-----------------------------------------------------------------------------
(* What all dispatchers share.                                              *)

(* push_on_arrival and the inbound task look their letter up among the      *)
(* queued ones; a vanished letter or receiver ends the task.                *)
FindLetter(t) ==
  /\ task[t].pc = "find"
  /\ task[t].kind \in {"arrival", "inbound"}
  /\ task' = IF Cur(t).receiver \in roles /\ Cur(t).status = "queued"
             THEN Goto(t, "push")
             ELSE Finish(t)
  /\ UNCHANGED <<mail, roles, registry, restarts, trace>>

(* The re-push task and the watch take the whole queue of their agent.      *)
FindQueue(t) ==
  /\ task[t].pc = "find"
  /\ task[t].kind \in {"repush", "watch"}
  /\ task' = IF task[t].agent \in roles
             THEN [task EXCEPT ![t].pc = "next", ![t].todo = Waiting(task[t].agent)]
             ELSE IF task[t].kind = "watch" THEN Goto(t, "heal") ELSE Finish(t)
  /\ UNCHANGED <<mail, roles, registry, restarts, trace>>

(* Head of the loops.  The sweeper claims before it pushes, the others      *)
(* push first.  After its loop the sweeper goes on to the federation watch  *)
(* when it has peers, and the watch to its next receiver.                   *)
Next1(t) ==
  /\ task[t].pc = "next"
  /\ \E l \in Letters :
       /\ First(l, task[t].todo)
       /\ task' = [task EXCEPT ![t].cur = l,
                               ![t].todo = @ \ {l},
                               ![t].pc = IF task[t].kind = "sweep"
                                         THEN "claim" ELSE "push"]
  /\ UNCHANGED <<mail, roles, registry, restarts, trace>>

LoopDone(t) ==
  /\ task[t].pc = "next"
  /\ task[t].todo = {}
  /\ task' = CASE task[t].kind = "sweep" /\ HasPeers -> Goto(t, "watch")
              [] task[t].kind = "watch"             -> Goto(t, "heal")
              [] OTHER                              -> Finish(t)
  /\ UNCHANGED <<mail, roles, registry, restarts, trace>>

(* claim_push.  The loser drops the letter: its outcome, if it has one      *)
(* already, is never recorded.                                              *)
Claim(t) ==
  /\ task[t].pc = "claim"
  /\ IF ClaimWins(Cur(t))
     THEN /\ mail' = [mail EXCEPT ![task[t].cur] = MarkPushing(@)]
          /\ task' = Goto(t, IF task[t].kind = "sweep" THEN "push" ELSE "settle")
     ELSE /\ task' = NextLetter(t)
          /\ UNCHANGED mail
  /\ UNCHANGED <<roles, registry, restarts, trace>>

(* Where a dispatcher goes with the outcome.  The watch records successes   *)
(* only.                                                                    *)
AfterPush_Mutant(t, out) ==         \* the watch takes any answer for a delivery
  CASE task[t].kind \in {"inbound", "repush"} -> "claim"
    [] task[t].kind = "watch"               -> "receipt"
    [] OTHER                                -> "settle"
AfterPush(t, out) ==
  CASE task[t].kind \in {"inbound", "repush"} -> "claim"
    [] task[t].kind = "watch"               -> IF out = "ok" THEN "receipt" ELSE "next"
    [] OTHER                                -> "settle"

Outcome(t, out) ==
  [task EXCEPT ![t].out = out, ![t].pc = AfterPush(t, out)]

(* dispatch_push on an agent it cannot push to. *)
SkipPush(t) ==
  /\ task[t].pc = "push"
  /\ registry[Cur(t).receiver] \notin Push
  /\ task' = Outcome(t, "skipped")
  /\ UNCHANGED <<mail, roles, registry, restarts, trace>>

(* dispatch_push over HTTP.  A 2xx is "ok" and the letter got there.  A     *)
(* refusal or a transport failure is "error", or "auth" if its text, URL    *)
(* included, has 401, 403 or Unauthorized in it; the letter may have got    *)
(* there all the same.  For A2A, and only there, a timeout is taken for a   *)
(* delivery.                                                                *)
DispatchPush(t, result, arrived) ==
  LET l   == task[t].cur
      via == registry[Cur(t).receiver]
  IN /\ task[t].pc = "push"
     /\ via \in Push
     /\ result = "ok" /\ ~arrived => via = "a2a"
     /\ task' = Outcome(t, result)
     /\ trace' = [trace EXCEPT ![l] = CASE arrived                  -> Reach(@)
                                        [] ~arrived /\ result = "ok" -> Assume(@)
                                        [] OTHER                    -> @]
     /\ UNCHANGED <<mail, roles, registry, restarts>>

(* push_succeeded, push_failed or reclaim_stale_pushing, by the outcome.    *)
(* None of the three asks who claimed the letter.                           *)
Settled_Mutant(m, out) ==           \* a refusal is taken for a delivery
  CASE out \in {"ok", "error"} -> MarkPushOk(m)
    [] out = "auth"            -> MarkPushFailed(m, out)
    [] OTHER                   -> ReclaimStalePushing(m, "error")
SettledNoRelease_Mutant(m, out) ==  \* a skipped push keeps its claim
  CASE out = "ok"               -> MarkPushOk(m)
    [] out \in {"auth", "error"} -> MarkPushFailed(m, out)
    [] OTHER                    -> m
Settled(m, out) ==
  CASE out = "ok"               -> MarkPushOk(m)
    [] out \in {"auth", "error"} -> MarkPushFailed(m, out)
    [] OTHER                    -> ReclaimStalePushing(m, "error")

Settle(t) ==
  LET l == task[t].cur IN
  /\ task[t].pc = "settle"
  /\ mail' = IF Stored(mail[l])
             THEN [mail EXCEPT ![l] = Settled(@, task[t].out)]
             ELSE mail
  /\ trace' = [trace EXCEPT ![l].robbed =
                  @ \/ (task[t].kind = "arrival" /\ mail[l].status = "pushing")]
  /\ task' = NextLetter(t)
  /\ UNCHANGED <<roles, registry, restarts>>
-----------------------------------------------------------------------------
(* The sweeper.                                                             *)

(* sweep_once: the first list_all picks the stale Pushing letters.          *)
SweepBegin ==
  /\ task[Sweeper] = Idle
  /\ task' = [task EXCEPT ![Sweeper] =
       [Idle EXCEPT !.kind = "sweep", !.pc = "reclaim",
                    !.todo = {l \in Letters : StalePushing(mail[l])}]]
  /\ UNCHANGED <<mail, roles, registry, restarts, trace>>

(* ... and releases them.  Its reason, "pushing stale 401s", may read like   *)
(* a credential error.                                                      *)
SweepReclaim ==
  /\ task[Sweeper].pc = "reclaim"
  /\ \E l \in Letters, reason \in Reason :
       /\ First(l, task[Sweeper].todo)
       /\ mail' = IF Stored(mail[l])
                  THEN [mail EXCEPT ![l] = ReclaimStalePushing(@, reason)]
                  ELSE mail
       /\ task' = [task EXCEPT ![Sweeper].todo = @ \ {l}]
  /\ UNCHANGED <<roles, registry, restarts, trace>>

(* ... and the second one the queued letters that are due.                  *)
SweepList ==
  /\ task[Sweeper].pc = "reclaim"
  /\ task[Sweeper].todo = {}
  /\ task' = [task EXCEPT ![Sweeper].pc = "next",
                          ![Sweeper].todo = {l \in Letters : Due(mail[l])}]
  /\ UNCHANGED <<mail, roles, registry, restarts, trace>>

(* federation_watch_once: the receivers with a queued letter whose last     *)
(* push failed on its credential.                                           *)
WatchBegin ==
  LET stuck == {l \in Letters : mail[l].status = "queued" /\ mail[l].lastError = "auth"}
  IN /\ task[Sweeper].pc = "watch"
     /\ task' = [task EXCEPT ![Sweeper] =
          [Idle EXCEPT !.kind = "watch", !.pc = "heal",
                       !.recv = {mail[l].receiver : l \in stuck}]]
     /\ UNCHANGED <<mail, roles, registry, restarts, trace>>

(* One receiver, in four steps.  Its entry is looked up, and if it is an    *)
(* A2A one is registered again as it was; letters that died of its          *)
(* credential are revived; and its queue is listed (FindQueue) for a push   *)
(* without a claim.                                                         *)
WatchLookup(a) ==
  /\ task[Sweeper].pc = "heal"
  /\ a \in task[Sweeper].recv
  /\ task' = [task EXCEPT
       ![Sweeper].pc = IF registry[a] = "a2a" THEN "rearm" ELSE "heal",
       ![Sweeper].agent = a,
       ![Sweeper].recv = @ \ {a}]
  /\ UNCHANGED <<mail, roles, registry, restarts, trace>>

WatchRearm ==
  /\ task[Sweeper].pc = "rearm"
  /\ registry' = [registry EXCEPT ![task[Sweeper].agent] = "a2a"]
  /\ task' = Goto(Sweeper, "revive")
  /\ UNCHANGED <<mail, roles, restarts, trace>>

WatchRevive ==
  /\ task[Sweeper].pc = "revive"
  /\ mail' = [l \in Letters |-> IF mail[l].receiver = task[Sweeper].agent
                                THEN ReviveAuthDead(mail[l]) ELSE mail[l]]
  /\ task' = Goto(Sweeper, "find")
  /\ UNCHANGED <<roles, registry, restarts, trace>>

WatchReceipt ==
  LET l == task[Sweeper].cur IN
  /\ task[Sweeper].pc = "receipt"
  /\ mail' = IF mail[l].receiver \in roles /\ Stored(mail[l])
             THEN [mail EXCEPT ![l] = MarkDelivered(@)]
             ELSE mail
  /\ task' = NextLetter(Sweeper)
  /\ UNCHANGED <<roles, registry, restarts, trace>>

WatchEnd ==
  /\ task[Sweeper].pc = "heal"
  /\ task[Sweeper].recv = {}
  /\ task' = Finish(Sweeper)
  /\ UNCHANGED <<mail, roles, registry, restarts, trace>>
-----------------------------------------------------------------------------
(* Time and failure.                                                        *)

(* Does t own the claim on l?  Whoever pushes first claims last.            *)
Holds(t, l) ==
  /\ task[t].cur = l
  /\ \/ task[t].kind = "sweep" /\ task[t].pc \in {"push", "settle"}
     \/ task[t].kind \in {"inbound", "repush"} /\ task[t].pc = "settle"

(* The HTTP client gives up after 120 s, so a claim turns stale, at 150 s,  *)
(* only when the task that took it is gone.                                 *)
Expire(l) ==
  /\ mail[l].status = "pushing"
  /\ mail[l].recentPush
  /\ \A t \in Task : ~Holds(t, l)
  /\ mail' = [mail EXCEPT ![l].recentPush = FALSE]
  /\ UNCHANGED <<roles, registry, task, restarts, trace>>

(* A letter grows older than MIN_BACKOFF, older letters first. *)
Age(l) ==
  /\ First(l, {k \in Letters : Stored(mail[k]) /\ ~mail[k].old})
  /\ mail' = [mail EXCEPT ![l].old = TRUE]
  /\ UNCHANGED <<roles, registry, task, restarts, trace>>

(* The process dies and boots over the same data directory: sled keeps the  *)
(* letters and registry.json the push entries; tasks and roles are gone.    *)
Restart ==
  /\ Durable
  /\ restarts < MaxRestarts
  /\ restarts' = restarts + 1
  /\ roles' = Seed
  /\ task' = [t \in Task |-> Idle]
  /\ UNCHANGED <<mail, registry, trace>>
-----------------------------------------------------------------------------
Dispatch(t) ==
  \/ FindLetter(t) \/ FindQueue(t) \/ Next1(t) \/ LoopDone(t)
  \/ Claim(t) \/ SkipPush(t) \/ Settle(t)
  \/ \E result \in Results, arrived \in BOOLEAN : DispatchPush(t, result, arrived)

Sweep ==
  \/ SweepBegin \/ SweepReclaim \/ SweepList
  \/ WatchBegin \/ WatchRearm \/ WatchRevive \/ WatchReceipt \/ WatchEnd
  \/ \E a \in Agents : WatchLookup(a)

Clients ==
  \/ \E t \in Spawned, l \in Letters, s, r \in Agents : Send(t, l, s, r)
  \/ \E t \in Spawned, l \in Letters, s \in Remotes, r \in Agents :
       Inbound(t, l, s, r)
  \/ \E s \in Remotes, r \in Agents : InboundRefused(s, r)
  \/ \E t \in Spawned, a \in Agents, via \in Vias : Register(t, a, via)
  \/ \E a \in Agents : Unregister(a)
  \/ \E a \in Agents, limit \in 1..Cardinality(Letters) : Poll(a, limit)
  \/ \E l \in Letters : Read(l) \/ File(l) \/ DeleteOne(l)
  \/ DeleteAll

Next ==
  \/ \E t \in Task : Dispatch(t)
  \/ Sweep
  \/ Clients
  \/ \E l \in Letters : Age(l) \/ Expire(l)
  \/ Restart

Spec == Init /\ [][Next]_vars

(* The runtime keeps running every task that can run, the interval timer    *)
(* keeps starting sweeps, and time passes; senders, agents and crashes owe  *)
(* nothing.                                                                 *)
Fairness ==
  /\ \A t \in Task : WF_vars(Dispatch(t))
  /\ WF_vars(Sweep)
  /\ \A l \in Letters : WF_vars(Age(l)) /\ WF_vars(Expire(l))

FairSpec == Spec /\ Fairness
-----------------------------------------------------------------------------
(* Properties.                                                              *)

InHand(l) == mail[l].status \in HandedOver
Reached(l) == trace[l].copies > 0 \/ trace[l].assumed

(* No lying receipts (state.rs:9-13): a letter is recorded as delivered,    *)
(* read or acked only if a copy got to its receiver, by push or by poll, or *)
(* an A2A peer was given it and its answer timed out.  The outcome a task   *)
(* records may be old, and land on another task's claim.                    *)
HonestReceipt == \A l \in Letters : InHand(l) => Reached(l)

(* A letter in Pushing has a task that will record an outcome for it, as    *)
(* long as the process lives: only a restart strands a letter in flight.    *)
PushingIsHeld ==
  \A l \in Letters :
    mail[l].status = "pushing" /\ restarts = 0 => \E t \in Task : Holds(t, l)

(* The claim is exclusive, but for push_on_arrival: when two tasks hold the *)
(* same letter, a push-on-arrival task, which never claims, has taken the   *)
(* letter out of the claim of one of them.                                  *)
OnlyArrivalBreaksClaim ==
  \A l \in Letters : \A t, u \in Task :
    Holds(t, l) /\ Holds(u, l) /\ t # u => trace[l].robbed

(* What a task reports of a letter it has claimed is what becomes of the    *)
(* letter (push_succeeded, push_failed, reclaim_stale_pushing), unless the  *)
(* letter is deleted meanwhile or push_on_arrival has broken the claim.     *)
OutcomesCount ==
  [][\A t \in Task : LET l == task[t].cur IN
       /\ Holds(t, l) /\ task[t].pc = "settle"
       /\ task'[t].pc # "settle" /\ restarts' = restarts
       /\ ~trace[l].robbed
       => mail'[l].status \in {"deleted"} \cup
            CASE task[t].out = "ok"      -> {"delivered"}
              [] task[t].out = "skipped" -> {"queued"}
              [] OTHER                   -> {"queued", "dead"}]_vars

(* The poison policy (state.rs:127, memory.rs:157-161): a letter dies with  *)
(* its attempts used up, with the reason on it, and never of a credential   *)
(* error; so federation_watch_once never finds one to revive.  InMemoryStore*)
(* writes dead_reason before it knows whether the letter may die            *)
(* (memory.rs:435): a late refusal can leave one on a letter its receiver   *)
(* has, and never on one that is still to be pushed.                        *)
DeathIsEarned ==
  \A l \in Letters : LET m == mail[l] IN
    /\ m.status = "dead" => m.deadReason # "none"
    /\ m.deadReason # "none" =>
         /\ m.deadReason = "error"
         /\ m.attempts = MaxAttempts
         /\ m.status \notin {"queued", "pushing"}

(* Every status change is a row of TRANSITIONS (state.rs:3), though poll,   *)
(* mark_delivered, mark_read and ack write the status without apply; only   *)
(* Message::new and the deletions come from outside the table.              *)
MovesAlongTable ==
  [][\A l \in Letters : mail'[l].status # mail[l].status =>
       \/ \E e \in Event : <<mail[l].status, e, mail'[l].status>> \in TRANSITIONS
       \/ mail[l].status = "unsent" /\ mail'[l].status = "queued"
       \/ mail[l].status \in Status /\ mail'[l].status = "deleted"]_vars

(* What the receiver has been given is never taken back to the shelf or to  *)
(* the graveyard by a dispatcher that is late with its outcome, and what    *)
(* was filed stays filed.                                                   *)
HandoverIsFinal ==
  [][\A l \in Letters :
       /\ InHand(l) => InHand(l)' \/ mail'[l].status = "deleted"
       /\ mail[l].status = "acked" => mail'[l].status \in {"acked", "deleted"}]_vars

(* A letter in flight comes down: its outcome is recorded or, when the      *)
(* process died, the sweeper reclaims it.                                   *)
FlightEnds ==
  \A l \in Letters : (mail[l].status = "pushing") ~> (mail[l].status # "pushing")

(* A letter whose receiver stays registered for push is eventually handed   *)
(* over, dead or deleted, if the endpoint's answers are not about the       *)
(* credential: no letter is forgotten on the shelf (sweeper.rs:54-60).      *)
NoLetterForgotten ==
  \A l \in Letters :
    (mail[l].status = "queued") ~>
      \/ mail[l].status \notin {"queued", "pushing"}
      \/ registry[mail[l].receiver] \notin Push

(* "Pushed -> delivered" (server.rs:163): a task that records a successful  *)
(* push leaves the letter handed over.                                      *)
PushedIsDelivered ==
  [][\A t \in Task : LET l == task[t].cur IN
       task[t].pc = "settle" /\ task[t].out = "ok" /\ task'[t].pc # "settle" =>
         mail'[l].status \in HandedOver \cup {"deleted"}]_vars

(* "A dispatcher and the sweeper can no longer double-push the same letter" *)
(* (CHANGELOG.md, 1.3.0): nobody pushes a letter another task has claimed.  *)
NoDoublePush ==
  [][\A t, u \in Task : LET l == task[t].cur IN
       task[t].pc = "push" /\ task'[t].out \in {"ok", "auth", "error"} /\ t # u =>
         ~Holds(u, l)]_vars

(* The promise of LetterPromise is kept.                                    *)
StageOf(status) ==
  CASE status = "unsent"                   -> "none"
    [] status \in {"queued", "pushing"}    -> "waiting"
    [] status \in {"delivered", "read"}    -> "handed"
    [] status = "acked"                    -> "done"
    [] status = "dead"                     -> "dead"
    [] status = "deleted"                  -> "gone"

Stages == [l \in Letters |-> StageOf(mail[l].status)]

KnownLetters == {l \in Letters : Reached(l)}

Promise == INSTANCE LetterPromise WITH stage <- Stages, known <- KnownLetters

KeepsPromise == Promise!Spec
=============================================================================
