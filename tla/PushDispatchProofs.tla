------------------------- MODULE PushDispatchProofs -------------------------
(***************************************************************************)
(* Proofs about PushDispatch, for every number of letters, agents, tasks   *)
(* and restarts, every attempt limit and both backends.                    *)
(***************************************************************************)
EXTENDS PushDispatch, LetterStoreProofs

(* A task that is at a letter has one; a task that is about to record a     *)
(* success knows of a letter that got there.                                *)
AtLetter(t) ==
  \/ task[t].pc \in {"claim", "push", "settle", "receipt"}
  \/ task[t].pc = "find" /\ task[t].kind \in {"arrival", "inbound"}

HasSuccess(t) ==
  /\ task[t].out = "ok"
  /\ \/ task[t].pc \in {"settle", "receipt"}
     \/ task[t].pc = "claim" /\ task[t].kind # "sweep"

TaskOK(t) ==
  /\ AtLetter(t) => task[t].cur \in Letters
  /\ task[t].pc = "receipt" => task[t].out = "ok"
  /\ task[t].pc \in {"heal", "rearm", "revive"} => task[t].kind = "watch"
  /\ HasSuccess(t) => Reached(task[t].cur)

TasksOK == \A t \in Task : TaskOK(t)

(* What one step may do to one letter. *)
LetterMove(l) ==
  \/ mail'[l] = mail[l]
  \/ mail[l].status = "unsent" /\ \E r \in Agents : mail'[l] = NewMessage(r)
  \/ mail[l].status = "queued" /\ mail'[l] = PollClaim(mail[l]) /\ Reached(l)'
  \/ ClaimWins(mail[l]) /\ mail'[l] = MarkPushing(mail[l])
  \/ mail'[l] = MarkPushOk(mail[l]) /\ Reached(l)'
  \/ \E reason \in Reason : mail'[l] = MarkPushFailed(mail[l], reason)
  \/ \E reason \in Reason : mail'[l] = ReclaimStalePushing(mail[l], reason)
  \/ mail'[l] = ReviveAuthDead(mail[l])
  \/ CanRead(mail[l]) /\ mail'[l] = MarkRead(mail[l])
  \/ CanAck(mail[l]) /\ mail'[l] = Ack(mail[l])
  \/ Stored(mail[l]) /\ mail'[l] = Remove(mail[l])
  \/ mail'[l] = [mail[l] EXCEPT !.recentPush = FALSE]
  \/ mail'[l] = [mail[l] EXCEPT !.old = TRUE]

MailMoves ==
  /\ mail' = [l \in Letters |-> mail'[l]]
  /\ \A l \in Letters : LetterMove(l)

(* Everything but the letters. *)
RestOK ==
  /\ roles \in SUBSET Agents
  /\ registry \in [Agents -> Push \cup {"poll", "none"}]
  /\ task \in [Task -> TaskState]
  /\ restarts \in 0..MaxRestarts
  /\ trace \in [Letters -> Trace]

ReachedStays == \A l \in Letters : Reached(l) => Reached(l)'

(* What every step does. *)
GoodStep == MailMoves /\ RestOK' /\ ReachedStays /\ TasksOK'
-----------------------------------------------------------------------------
LEMMA SweeperIsTask == Sweeper \in Task
BY DEF Task

(* A step that changes only task t keeps the tasks well formed if it leaves *)
(* t well formed.                                                           *)
LEMMA OneTask ==
  ASSUME Types, TasksOK, ReachedStays, NEW t \in Task, NEW s \in TaskState,
         task' = [task EXCEPT ![t] = s], TaskOK(t)'
  PROVE  task' \in [Task -> TaskState] /\ TasksOK'
<1>1. task' \in [Task -> TaskState]
  BY DEF Types
<1>2. \A u \in Task : TaskOK(u)'
  <2> TAKE u \in Task
  <2>1. CASE u = t
    BY <2>1
  <2>2. CASE u # t
    <3>1. task'[u] = task[u]
      BY <2>2 DEF Types
    <3>2. TaskOK(u)
      BY DEF TasksOK
    <3>3. HasSuccess(u) => task[u].cur \in Letters
      BY <3>2 DEF TaskOK, AtLetter, HasSuccess
    <3>4. HasSuccess(u) => Reached(task[u].cur)'
      BY <3>1, <3>2, <3>3 DEF TaskOK, ReachedStays, Reached
    <3> QED BY <3>1, <3>2, <3>4 DEF TaskOK, AtLetter, HasSuccess
  <2> QED BY <2>1, <2>2
<1> QED BY <1>1, <1>2 DEF TasksOK

LEMMA IdleOK == Idle \in TaskState
BY DEF Idle, TaskState

(* The moves between program points that several actions share.             *)
LEMMA FinishOK ==
  ASSUME Types, TasksOK, ReachedStays, NEW t \in Task, task' = Finish(t)
  PROVE  task' \in [Task -> TaskState] /\ TasksOK'
<1>1. task'[t] = Idle
  BY DEF Types, Finish
<1>2. TaskOK(t)'
  BY <1>1 DEF TaskOK, AtLetter, HasSuccess, Idle
<1> QED BY <1>2, IdleOK, OneTask DEF Finish

LEMMA NextLetterOK ==
  ASSUME Types, TasksOK, ReachedStays, NEW t \in Task, task' = NextLetter(t)
  PROVE  task' \in [Task -> TaskState] /\ TasksOK'
<1> DEFINE s == [task[t] EXCEPT !.pc = "next", !.cur = 0, !.out = "none"]
<1>1. CASE task[t].kind \in {"arrival", "inbound"}
  BY <1>1, FinishOK DEF NextLetter
<1>2. CASE task[t].kind \notin {"arrival", "inbound"}
  <2>1. task[t] \in TaskState
    BY DEF Types
  <2>2. s \in TaskState /\ s.pc = "next" /\ s.out = "none"
    BY <2>1 DEF TaskState
  <2>3. task' = [task EXCEPT ![t] = s]
    BY <1>2 DEF NextLetter, Types
  <2> HIDE DEF s
  <2>4. task'[t] = s
    BY <2>3 DEF Types
  <2>5. TaskOK(t)'
    BY <2>2, <2>4 DEF TaskOK, AtLetter, HasSuccess
  <2> QED BY <2>2, <2>3, <2>5, OneTask
<1> QED BY <1>1, <1>2

LEMMA GotoOK ==
  ASSUME Types, TasksOK, ReachedStays, NEW t \in Task,
         NEW pc \in {"watch", "heal", "revive", "find", "push", "settle"}, task' = Goto(t, pc),
         pc \in {"push", "settle"} => task[t].cur \in Letters,
         pc = "find" => task[t].kind \notin {"arrival", "inbound"},
         pc \in {"heal", "revive"} => task[t].kind = "watch",
         pc = "settle" /\ task[t].out = "ok" => Reached(task[t].cur)'
  PROVE  task' \in [Task -> TaskState] /\ TasksOK'
<1> DEFINE s == [task[t] EXCEPT !.pc = pc]
<1>1. task[t] \in TaskState
  BY DEF Types
<1>2. /\ s \in TaskState
      /\ s.pc = pc /\ s.cur = task[t].cur /\ s.out = task[t].out /\ s.kind = task[t].kind
  BY <1>1 DEF TaskState
<1>3. task' = [task EXCEPT ![t] = s]
  BY DEF Goto, Types
<1> HIDE DEF s
<1>4. task'[t] = s
  BY <1>3 DEF Types
<1>5. TaskOK(t)'
  BY <1>2, <1>4 DEF TaskOK, AtLetter, HasSuccess, Reached
<1> QED BY <1>2, <1>3, <1>5, OneTask

(* Steps that leave the store and the history alone.                        *)
LEMMA QuietMail ==
  ASSUME Types, UNCHANGED <<mail, trace>>
  PROVE  MailMoves /\ ReachedStays /\ trace' \in [Letters -> Trace]
BY DEF Types, MailMoves, LetterMove, ReachedStays, Reached

(* ... and steps that leave the tasks alone.                                *)
LEMMA QuietTask ==
  ASSUME Types, TasksOK, ReachedStays, UNCHANGED task
  PROVE  task' \in [Task -> TaskState] /\ TasksOK'
<1>1. ASSUME NEW t \in Task PROVE TaskOK(t)'
  <2>1. TaskOK(t)
    BY DEF TasksOK
  <2>2. HasSuccess(t) => task[t].cur \in Letters
    BY <2>1 DEF TaskOK, AtLetter, HasSuccess
  <2>3. HasSuccess(t) => Reached(task[t].cur)'
    BY <2>1, <2>2 DEF TaskOK, ReachedStays, Reached
  <2> QED BY <2>1, <2>3 DEF TaskOK, AtLetter, HasSuccess
<1> QED BY <1>1 DEF TasksOK, Types

(* A step that rewrites one letter. *)
LEMMA OneLetter ==
  ASSUME Types, NEW l \in Letters, NEW m, mail' = [mail EXCEPT ![l] = m],
         m = mail'[l] => LetterMove(l)
  PROVE  MailMoves
<1>1. mail' = [k \in Letters |-> mail'[k]] /\ mail'[l] = m
  BY DEF Types
<1>2. \A k \in Letters : k # l => mail'[k] = mail[k]
  BY DEF Types
<1>3. \A k \in Letters : k # l => LetterMove(k)
  BY <1>2 DEF LetterMove
<1> QED BY <1>1, <1>3 DEF MailMoves

LEMMA QuietTrace ==
  ASSUME Types, UNCHANGED trace
  PROVE  ReachedStays /\ trace' \in [Letters -> Trace]
BY DEF Types, ReachedStays, Reached

LEMMA SpawnOK ==
  ASSUME Types, TasksOK, ReachedStays, NEW t \in Task,
         NEW kind \in {"arrival", "inbound", "repush"},
         NEW agent \in Agents, NEW l \in Letters \cup {0},
         kind \in {"arrival", "inbound"} => l \in Letters,
         Spawn(t, kind, agent, l)
  PROVE  task' \in [Task -> TaskState] /\ TasksOK'
<1> DEFINE s == [Idle EXCEPT !.kind = kind, !.pc = "find", !.agent = agent, !.cur = l]
<1>1. /\ s \in TaskState
      /\ s.pc = "find" /\ s.cur = l /\ s.out = "none" /\ s.kind = kind
  BY DEF Idle, TaskState
<1>2. task' = [task EXCEPT ![t] = s]
  BY DEF Spawn
<1> HIDE DEF s
<1>3. task'[t] = s
  BY <1>2 DEF Types
<1>4. TaskOK(t)'
  BY <1>1, <1>3 DEF TaskOK, AtLetter, HasSuccess
<1> QED BY <1>1, <1>2, <1>4, OneTask
-----------------------------------------------------------------------------
(* Clients.                                                                 *)

LEMMA SendStep ==
  ASSUME Types, TasksOK, NEW t \in Spawned, NEW l \in Letters,
         NEW a \in Agents, NEW r \in Agents, Send(t, l, a, r)
  PROVE  GoodStep
<1>1. LetterMove(l)
  BY DEF Send, Unused, First, LetterMove, Types
<1>2. MailMoves
  BY <1>1, OneLetter DEF Send
<1>3. ReachedStays /\ trace' \in [Letters -> Trace]
  BY QuietTrace DEF Send
<1>4. task' \in [Task -> TaskState] /\ TasksOK'
  BY <1>3, SpawnOK DEF Send, Task
<1> QED BY <1>2, <1>3, <1>4 DEF GoodStep, RestOK, Send, Types

LEMMA WelcomeOK ==
  ASSUME Types, NEW a \in Agents, Welcome(a)
  PROVE  roles' \in SUBSET Agents /\ registry' \in [Agents -> Push \cup {"poll", "none"}]
BY DEF Welcome, Types

LEMMA InboundStep ==
  ASSUME Types, TasksOK, NEW t \in Spawned, NEW l \in Letters,
         NEW a \in Remotes, NEW r \in Agents, Inbound(t, l, a, r)
  PROVE  GoodStep
<1>1. LetterMove(l)
  BY DEF Inbound, Unused, First, LetterMove, Types
<1>2. MailMoves
  BY <1>1, OneLetter DEF Inbound
<1>3. ReachedStays /\ trace' \in [Letters -> Trace]
  BY QuietTrace DEF Inbound
<1>4. task' \in [Task -> TaskState] /\ TasksOK'
  BY <1>3, SpawnOK DEF Inbound, Task
<1>5. roles' \in SUBSET Agents /\ registry' \in [Agents -> Push \cup {"poll", "none"}]
  BY WelcomeOK, RemotesAssumption DEF Inbound
<1> QED BY <1>2, <1>3, <1>4, <1>5 DEF GoodStep, RestOK, Inbound, Types

LEMMA InboundRefusedStep ==
  ASSUME Types, TasksOK, NEW a \in Remotes, NEW r \in Agents, InboundRefused(a, r)
  PROVE  GoodStep
<1>1. MailMoves /\ ReachedStays /\ trace' \in [Letters -> Trace]
  BY QuietMail DEF InboundRefused
<1>2. task' \in [Task -> TaskState] /\ TasksOK'
  BY <1>1, QuietTask DEF InboundRefused
<1>3. roles' \in SUBSET Agents /\ registry' \in [Agents -> Push \cup {"poll", "none"}]
  BY WelcomeOK, RemotesAssumption DEF InboundRefused
<1> QED BY <1>1, <1>2, <1>3 DEF GoodStep, RestOK, InboundRefused, Types

LEMMA RegisterStep ==
  ASSUME Types, TasksOK, NEW t \in Spawned, NEW a \in Agents, NEW via \in Vias,
         Register(t, a, via)
  PROVE  GoodStep
<1>1. MailMoves /\ ReachedStays /\ trace' \in [Letters -> Trace]
  BY QuietMail DEF Register
<1>2. task' \in [Task -> TaskState] /\ TasksOK'
  BY <1>1, SpawnOK DEF Register, Task
<1>3. registry' \in [Agents -> Push \cup {"poll", "none"}]
  BY ViasAssumption DEF Register, Types, Push
<1> QED BY <1>1, <1>2, <1>3 DEF GoodStep, RestOK, Register, Types

LEMMA UnregisterStep ==
  ASSUME Types, TasksOK, NEW a \in Agents, Unregister(a)
  PROVE  GoodStep
<1>1. MailMoves /\ ReachedStays /\ trace' \in [Letters -> Trace]
  BY QuietMail DEF Unregister
<1>2. task' \in [Task -> TaskState] /\ TasksOK'
  BY <1>1, QuietTask DEF Unregister
<1> QED BY <1>1, <1>2 DEF GoodStep, RestOK, Unregister, Types

(* History only grows. *)
LEMMA ReachOK ==
  ASSUME NEW h \in Trace
  PROVE  Reach(h) \in Trace /\ Reach(h).copies > 0
BY DEF Reach, Trace

LEMMA PollStep ==
  ASSUME Types, TasksOK, NEW a \in Agents, NEW limit, Poll(a, limit)
  PROVE  GoodStep
<1> DEFINE taken == {l \in Waiting(a) :
                       Cardinality({k \in Waiting(a) : k <= l}) <= limit}
<1>1. /\ taken \subseteq Waiting(a)
      /\ mail' = [l \in Letters |-> IF l \in taken THEN PollClaim(mail[l]) ELSE mail[l]]
      /\ trace' = [l \in Letters |-> IF l \in taken THEN Reach(trace[l]) ELSE trace[l]]
      /\ UNCHANGED <<roles, registry, task, restarts>>
  BY DEF Poll
<1> HIDE DEF taken
<1>2. trace' \in [Letters -> Trace] /\ \A l \in taken : Reached(l)'
  BY <1>1, ReachOK DEF Types, Reached, Waiting
<1>3. ReachedStays
  BY <1>1, <1>2 DEF ReachedStays, Reached
<1>4. \A l \in Letters : LetterMove(l)
  BY <1>1, <1>2 DEF LetterMove, Waiting
<1>5. mail' = [l \in Letters |-> mail'[l]]
  BY <1>1
<1>6. task' \in [Task -> TaskState] /\ TasksOK'
  BY <1>1, <1>3, QuietTask
<1> QED BY <1>1, <1>2, <1>3, <1>4, <1>5, <1>6 DEF GoodStep, MailMoves, RestOK, Types

LEMMA RecipientStep ==
  ASSUME Types, TasksOK, NEW l \in Letters, Read(l) \/ File(l)
  PROVE  GoodStep
<1>1. LetterMove(l)
  BY DEF Read, File, LetterMove, Types
<1>2. MailMoves
  BY <1>1, OneLetter DEF Read, File
<1>3. ReachedStays /\ trace' \in [Letters -> Trace]
  BY QuietTrace DEF Read, File
<1>4. task' \in [Task -> TaskState] /\ TasksOK'
  BY <1>3, QuietTask DEF Read, File
<1> QED BY <1>2, <1>3, <1>4 DEF GoodStep, RestOK, Read, File, Types

LEMMA DeleteStep ==
  ASSUME Types, TasksOK, NEW S \in SUBSET Letters, Delete(S)
  PROVE  GoodStep
<1>1. MailMoves
  BY DEF Delete, MailMoves, LetterMove
<1>2. ReachedStays /\ trace' \in [Letters -> Trace]
  BY QuietTrace DEF Delete
<1>3. task' \in [Task -> TaskState] /\ TasksOK'
  BY <1>2, QuietTask DEF Delete
<1> QED BY <1>1, <1>2, <1>3 DEF GoodStep, RestOK, Delete, Types
-----------------------------------------------------------------------------
(* Dispatchers.                                                             *)

(* The facts about task t that its actions need. *)
LEMMA TaskFacts ==
  ASSUME Types, TasksOK, NEW t \in Task
  PROVE  /\ task[t] \in TaskState
         /\ TaskOK(t)
         /\ task[t].pc \in {"claim", "push", "settle", "receipt"} => task[t].cur \in Letters
BY DEF Types, TasksOK, TaskOK, AtLetter

LEMMA FindLetterStep ==
  ASSUME Types, TasksOK, NEW t \in Task, FindLetter(t)
  PROVE  GoodStep
<1>1. MailMoves /\ ReachedStays /\ trace' \in [Letters -> Trace]
  BY QuietMail DEF FindLetter
<1>2. task[t].cur \in Letters
  BY TaskFacts DEF FindLetter, TaskOK, AtLetter
<1>3. task' \in [Task -> TaskState] /\ TasksOK'
  BY <1>1, <1>2, GotoOK, FinishOK DEF FindLetter
<1> QED BY <1>1, <1>3 DEF GoodStep, RestOK, FindLetter, Types

(* A task that goes to the head of its loop. *)
LEMMA ToLoopOK ==
  ASSUME Types, TasksOK, ReachedStays, NEW t \in Task, NEW s \in TaskState,
         task' = [task EXCEPT ![t] = s],
         s.pc \in {"next", "heal", "rearm", "reclaim"},
         s.pc \in {"heal", "rearm"} => s.kind = "watch"
  PROVE  task' \in [Task -> TaskState] /\ TasksOK'
<1>1. task'[t] = s
  BY DEF Types
<1>2. TaskOK(t)'
  BY <1>1 DEF TaskOK, AtLetter, HasSuccess
<1> QED BY <1>2, OneTask

LEMMA FindQueueStep ==
  ASSUME Types, TasksOK, NEW t \in Task, FindQueue(t)
  PROVE  GoodStep
<1>1. MailMoves /\ ReachedStays /\ trace' \in [Letters -> Trace]
  BY QuietMail DEF FindQueue
<1>2. CASE task[t].agent \in roles
  <2> DEFINE queue == Waiting(task[t].agent)
             s == [task[t] EXCEPT !.pc = "next", !.todo = queue]
  <2>1. queue \in SUBSET Letters
    BY DEF Waiting
  <2> HIDE DEF queue
  <2>2. s \in TaskState /\ s.pc = "next"
    BY <2>1, TaskFacts DEF TaskState
  <2>3. task' = [task EXCEPT ![t] = s]
    BY <1>2 DEF FindQueue, Types, queue
  <2> HIDE DEF s
  <2> QED BY <1>1, <2>2, <2>3, ToLoopOK DEF GoodStep, RestOK, FindQueue, Types
<1>3. CASE task[t].agent \notin roles
  <2>1. (task' = Goto(t, "heal") /\ task[t].kind = "watch") \/ task' = Finish(t)
    BY <1>3 DEF FindQueue
  <2> QED BY <1>1, <2>1, GotoOK, FinishOK DEF GoodStep, RestOK, FindQueue, Types
<1> QED BY <1>2, <1>3

LEMMA Next1Step ==
  ASSUME Types, TasksOK, NEW t \in Task, Next1(t)
  PROVE  GoodStep
<1>1. MailMoves /\ ReachedStays /\ trace' \in [Letters -> Trace]
  BY QuietMail DEF Next1
<1>2. PICK l \in Letters :
        task' = [task EXCEPT ![t].cur = l, ![t].todo = @ \ {l},
                             ![t].pc = IF task[t].kind = "sweep" THEN "claim" ELSE "push"]
  BY DEF Next1
<1> DEFINE pc == IF task[t].kind = "sweep" THEN "claim" ELSE "push"
           s  == [task[t] EXCEPT !.cur = l, !.todo = @ \ {l}, !.pc = pc]
<1>3. /\ s \in TaskState
      /\ s.cur = l /\ s.pc = pc /\ s.kind = task[t].kind
  BY TaskFacts DEF TaskState
<1>4. task' = [task EXCEPT ![t] = s]
  BY <1>2 DEF Types
<1> HIDE DEF s
<1>5. task'[t] = s
  BY <1>4 DEF Types
<1>6. TaskOK(t)'
  BY <1>3, <1>5 DEF TaskOK, AtLetter, HasSuccess
<1>7. task' \in [Task -> TaskState] /\ TasksOK'
  BY <1>1, <1>3, <1>4, <1>6, OneTask
<1> QED BY <1>1, <1>7 DEF GoodStep, RestOK, Next1, Types

LEMMA LoopDoneStep ==
  ASSUME Types, TasksOK, NEW t \in Task, LoopDone(t)
  PROVE  GoodStep
<1>1. MailMoves /\ ReachedStays /\ trace' \in [Letters -> Trace]
  BY QuietMail DEF LoopDone
<1>2. \/ task' = Goto(t, "watch")
      \/ task' = Goto(t, "heal") /\ task[t].kind = "watch"
      \/ task' = Finish(t)
  BY DEF LoopDone
<1>3. task' \in [Task -> TaskState] /\ TasksOK'
  BY <1>1, <1>2, GotoOK, FinishOK
<1> QED BY <1>1, <1>3 DEF GoodStep, RestOK, LoopDone, Types

LEMMA ClaimStep ==
  ASSUME Types, TasksOK, NEW t \in Task, Claim(t)
  PROVE  GoodStep
<1> DEFINE l == task[t].cur
<1>1. ReachedStays /\ trace' \in [Letters -> Trace] /\ trace' = trace
  BY QuietTrace DEF Claim
<1>2. l \in Letters
  BY TaskFacts DEF Claim
<1>3. CASE ClaimWins(mail[l])
  <2>1. mail' = [mail EXCEPT ![l] = MarkPushing(mail[l])]
    BY <1>3 DEF Claim, Cur
  <2>2. mail'[l] = MarkPushing(mail[l])
    BY <1>2, <2>1 DEF Types
  <2>3. MailMoves
    BY <1>2, <1>3, <2>1, <2>2, OneLetter DEF LetterMove
  <2>4. task' = Goto(t, IF task[t].kind = "sweep" THEN "push" ELSE "settle")
    BY <1>3 DEF Claim, Cur
  <2>5. task'[t].cur = l
    BY <2>4, TaskFacts DEF Goto, Types, TaskState
  <2>6. task[t].kind # "sweep" /\ task[t].out = "ok" => Reached(task[t].cur)'
    BY <1>1, <2>5, TaskFacts DEF Claim, TaskOK, HasSuccess, Reached
  <2>7. task' \in [Task -> TaskState] /\ TasksOK'
    <3>1. CASE task[t].kind = "sweep"
      BY <1>1, <1>2, <2>4, <3>1, GotoOK
    <3>2. CASE task[t].kind # "sweep"
      BY <1>1, <1>2, <2>4, <2>6, <3>2, GotoOK
    <3> QED BY <3>1, <3>2
  <2> QED BY <1>1, <2>3, <2>7 DEF GoodStep, RestOK, Claim, Types
<1>4. CASE ~ClaimWins(mail[l])
  <2>1. task' = NextLetter(t) /\ UNCHANGED mail
    BY <1>4 DEF Claim, Cur
  <2>2. MailMoves
    BY <1>1, <2>1, QuietMail
  <2>3. task' \in [Task -> TaskState] /\ TasksOK'
    BY <1>1, <2>1, NextLetterOK
  <2> QED BY <1>1, <2>2, <2>3 DEF GoodStep, RestOK, Claim, Types
<1> QED BY <1>3, <1>4

(* A push that is over. *)
LEMMA OutcomeOK ==
  ASSUME Types, TasksOK, ReachedStays, NEW t \in Task,
         NEW out \in {"ok", "auth", "error", "skipped"}, task[t].pc = "push",
         task' = Outcome(t, out),
         out = "ok" => Reached(task[t].cur)'
  PROVE  task' \in [Task -> TaskState] /\ TasksOK'
<1> DEFINE pc == AfterPush(t, out)
           s  == [task[t] EXCEPT !.out = out, !.pc = pc]
<1>1. pc \in {"claim", "receipt", "next", "settle"} /\ (pc = "receipt" => out = "ok")
  BY DEF AfterPush
<1> HIDE DEF pc
<1>2. /\ s \in TaskState
      /\ s.pc = pc /\ s.cur = task[t].cur /\ s.out = out /\ s.kind = task[t].kind
  BY <1>1, TaskFacts DEF TaskState
<1>3. task' = [task EXCEPT ![t] = s]
  BY DEF Outcome, Types, pc
<1> HIDE DEF s
<1>4. task'[t] = s
  BY <1>3 DEF Types
<1>5. TaskOK(t)'
  BY <1>1, <1>2, <1>4, TaskFacts DEF TaskOK, AtLetter, HasSuccess, Reached
<1> QED BY <1>2, <1>3, <1>5, OneTask

LEMMA SkipPushStep ==
  ASSUME Types, TasksOK, NEW t \in Task, SkipPush(t)
  PROVE  GoodStep
<1>1. MailMoves /\ ReachedStays /\ trace' \in [Letters -> Trace]
  BY QuietMail DEF SkipPush
<1>2. task' \in [Task -> TaskState] /\ TasksOK'
  BY <1>1, OutcomeOK DEF SkipPush
<1> QED BY <1>1, <1>2 DEF GoodStep, RestOK, SkipPush, Types

LEMMA DispatchPushStep ==
  ASSUME Types, TasksOK, NEW t \in Task, NEW result \in Results,
         NEW arrived \in BOOLEAN, DispatchPush(t, result, arrived)
  PROVE  GoodStep
<1> DEFINE l == task[t].cur
           h == CASE arrived                  -> Reach(trace[l])
                  [] ~arrived /\ result = "ok" -> Assume(trace[l])
                  [] OTHER                    -> trace[l]
<1>1. l \in Letters /\ trace[l] \in Trace
  BY TaskFacts DEF DispatchPush, Types
<1>2. trace' = [trace EXCEPT ![l] = h] /\ UNCHANGED <<mail, roles, registry, restarts>>
  BY DEF DispatchPush
<1>3. /\ h \in Trace
      /\ result = "ok" => h.copies > 0 \/ h.assumed
      /\ trace[l].copies > 0 \/ trace[l].assumed => h.copies > 0 \/ h.assumed
  BY <1>1, ReachOK DEF Trace, Assume
<1> HIDE DEF h
<1>4. trace'[l] = h /\ trace' \in [Letters -> Trace]
  BY <1>1, <1>2, <1>3 DEF Types
<1>5. ReachedStays
  BY <1>2, <1>3, <1>4 DEF ReachedStays, Reached, Types
<1>6. MailMoves
  BY <1>2 DEF MailMoves, LetterMove, Types
<1>7. result \in {"ok", "auth", "error"} /\ task[t].pc = "push" /\ task' = Outcome(t, result)
  BY ResultsAssumption DEF DispatchPush
<1>8. task'[t].cur = l
  BY <1>7, TaskFacts DEF Outcome, Types, TaskState
<1>9. result = "ok" => Reached(task[t].cur)'
  BY <1>3, <1>4, <1>8 DEF Reached
<1>10. task' \in [Task -> TaskState] /\ TasksOK'
  BY <1>5, <1>7, <1>9, OutcomeOK
<1> QED BY <1>2, <1>4, <1>5, <1>6, <1>10 DEF GoodStep, RestOK, Types

LEMMA SettleStep ==
  ASSUME Types, TasksOK, NEW t \in Task, Settle(t)
  PROVE  GoodStep
<1>0. PICK l \in Letters : l = task[t].cur
  BY TaskFacts DEF Settle
<1> DEFINE out == task[t].out
           m == Settled(mail[l], out)
<1>1. trace[l] \in Trace
  BY DEF Types
<1>2. trace' \in [Letters -> Trace] /\ ReachedStays
  <2> DEFINE b == trace[l].robbed \/ (task[t].kind = "arrival" /\ mail[l].status = "pushing")
             h == [trace[l] EXCEPT !.robbed = b]
  <2>1. b \in BOOLEAN
    BY <1>1 DEF Trace
  <2>2. trace' = [trace EXCEPT ![l] = h]
    BY <1>0, <1>1 DEF Settle, Types
  <2> HIDE DEF b
  <2>3. h \in Trace /\ h.copies = trace[l].copies /\ h.assumed = trace[l].assumed
    BY <1>1, <2>1 DEF Trace
  <2> HIDE DEF h
  <2> QED BY <1>1, <2>2, <2>3 DEF Types, ReachedStays, Reached
<1>3. CASE Stored(mail[l])
  <2>1. mail' = [mail EXCEPT ![l] = m]
    BY <1>0, <1>3 DEF Settle
  <2>2. mail'[l] = m
    BY <1>1, <2>1 DEF Types
  <2>3. out = "ok" => Reached(l)'
    BY <1>0, <1>2, TaskFacts DEF Settle, TaskOK, HasSuccess, ReachedStays
  <2>4. LetterMove(l)
    BY <2>2, <2>3 DEF Settled, LetterMove, Reason, Types
  <2> QED BY <1>1, <1>2, <2>1, <2>4, OneLetter, NextLetterOK
          DEF GoodStep, RestOK, Settle, Types
<1>4. CASE ~Stored(mail[l])
  <2>1. mail' = mail
    BY <1>0, <1>4 DEF Settle
  <2>2. MailMoves
    BY <2>1 DEF MailMoves, LetterMove, Types
  <2> QED BY <1>2, <2>2, NextLetterOK DEF GoodStep, RestOK, Settle, Types
<1> QED BY <1>3, <1>4
-----------------------------------------------------------------------------
(* The sweeper.                                                             *)

LEMMA SweepBeginStep ==
  ASSUME Types, TasksOK, SweepBegin
  PROVE  GoodStep
<1> DEFINE stale == {l \in Letters : StalePushing(mail[l])}
           s == [Idle EXCEPT !.kind = "sweep", !.pc = "reclaim", !.todo = stale]
<1>1. MailMoves /\ ReachedStays /\ trace' \in [Letters -> Trace]
  BY QuietMail DEF SweepBegin
<1>2. s \in TaskState /\ s.pc = "reclaim"
  BY DEF Idle, TaskState
<1>3. task' = [task EXCEPT ![Sweeper] = s]
  BY DEF SweepBegin
<1> HIDE DEF s
<1>4. task' \in [Task -> TaskState] /\ TasksOK'
  BY <1>1, <1>2, <1>3, ToLoopOK, SweeperIsTask
<1> QED BY <1>1, <1>4 DEF GoodStep, RestOK, SweepBegin, Types

LEMMA SweepReclaimStep ==
  ASSUME Types, TasksOK, SweepReclaim
  PROVE  GoodStep
<1>1. PICK l \in Letters, reason \in Reason :
        /\ mail' = IF Stored(mail[l])
                   THEN [mail EXCEPT ![l] = ReclaimStalePushing(mail[l], reason)] ELSE mail
        /\ task' = [task EXCEPT ![Sweeper].todo = @ \ {l}]
  BY DEF SweepReclaim
<1> DEFINE s == [task[Sweeper] EXCEPT !.todo = @ \ {l}]
<1>2. ReachedStays /\ trace' \in [Letters -> Trace]
  BY QuietTrace DEF SweepReclaim
<1>3. MailMoves
  BY <1>1, OneLetter DEF LetterMove, Types, MailMoves
<1>4. s \in TaskState /\ s.pc = "reclaim"
  BY TaskFacts, SweeperIsTask DEF TaskState, SweepReclaim
<1>5. task' = [task EXCEPT ![Sweeper] = s]
  BY <1>1 DEF Types
<1> HIDE DEF s
<1>6. task' \in [Task -> TaskState] /\ TasksOK'
  BY <1>2, <1>4, <1>5, ToLoopOK, SweeperIsTask
<1> QED BY <1>2, <1>3, <1>6 DEF GoodStep, RestOK, SweepReclaim, Types

LEMMA SweepListStep ==
  ASSUME Types, TasksOK, SweepList
  PROVE  GoodStep
<1> DEFINE due == {l \in Letters : Due(mail[l])}
           s == [task[Sweeper] EXCEPT !.pc = "next", !.todo = due]
<1>1. MailMoves /\ ReachedStays /\ trace' \in [Letters -> Trace]
  BY QuietMail DEF SweepList
<1>2. s \in TaskState /\ s.pc = "next"
  BY TaskFacts, SweeperIsTask DEF TaskState
<1>3. task' = [task EXCEPT ![Sweeper] = s]
  BY DEF SweepList, Types
<1> HIDE DEF s
<1>4. task' \in [Task -> TaskState] /\ TasksOK'
  BY <1>1, <1>2, <1>3, ToLoopOK, SweeperIsTask
<1> QED BY <1>1, <1>4 DEF GoodStep, RestOK, SweepList, Types

LEMMA WatchBeginStep ==
  ASSUME Types, TasksOK, WatchBegin
  PROVE  GoodStep
<1> DEFINE stuck == {l \in Letters : mail[l].status = "queued" /\ mail[l].lastError = "auth"}
           recv == {mail[l].receiver : l \in stuck}
           s == [Idle EXCEPT !.kind = "watch", !.pc = "heal", !.recv = recv]
<1>1. MailMoves /\ ReachedStays /\ trace' \in [Letters -> Trace]
  BY QuietMail DEF WatchBegin
<1>2. recv \in SUBSET Agents
  BY DEF Types, Message
<1>3. task' = [task EXCEPT ![Sweeper] = s]
  BY DEF WatchBegin
<1> HIDE DEF recv
<1>4. s \in TaskState /\ s.pc = "heal" /\ s.kind = "watch"
  BY <1>2 DEF Idle, TaskState
<1> HIDE DEF s
<1>5. task' \in [Task -> TaskState] /\ TasksOK'
  BY <1>1, <1>3, <1>4, ToLoopOK, SweeperIsTask
<1> QED BY <1>1, <1>5 DEF GoodStep, RestOK, WatchBegin, Types

LEMMA WatchLookupStep ==
  ASSUME Types, TasksOK, NEW a \in Agents, WatchLookup(a)
  PROVE  GoodStep
<1> DEFINE pc == IF registry[a] = "a2a" THEN "rearm" ELSE "heal"
           s == [task[Sweeper] EXCEPT !.pc = pc, !.agent = a, !.recv = @ \ {a}]
<1>1. MailMoves /\ ReachedStays /\ trace' \in [Letters -> Trace]
  BY QuietMail DEF WatchLookup
<1>2. pc \in {"rearm", "heal"}
  OBVIOUS
<1>3. task' = [task EXCEPT ![Sweeper] = s]
  BY DEF WatchLookup, Types
<1> HIDE DEF pc
<1>4. s \in TaskState /\ s.pc = pc /\ s.kind = "watch"
  BY <1>2, TaskFacts, SweeperIsTask DEF TaskState, TaskOK, WatchLookup
<1> HIDE DEF s
<1>5. task' \in [Task -> TaskState] /\ TasksOK'
  BY <1>1, <1>2, <1>3, <1>4, ToLoopOK, SweeperIsTask
<1> QED BY <1>1, <1>5 DEF GoodStep, RestOK, WatchLookup, Types

LEMMA WatchRearmStep ==
  ASSUME Types, TasksOK, WatchRearm
  PROVE  GoodStep
<1>1. MailMoves /\ ReachedStays /\ trace' \in [Letters -> Trace]
  BY QuietMail DEF WatchRearm
<1>0. task[Sweeper].kind = "watch"
  BY SweeperIsTask DEF WatchRearm, TasksOK, TaskOK
<1>2. task' \in [Task -> TaskState] /\ TasksOK'
  BY <1>0, <1>1, GotoOK, SweeperIsTask DEF WatchRearm
<1>3. registry' \in [Agents -> Push \cup {"poll", "none"}]
  BY DEF WatchRearm, Types, Push
<1> QED BY <1>1, <1>2, <1>3 DEF GoodStep, RestOK, WatchRearm, Types

LEMMA WatchReviveStep ==
  ASSUME Types, TasksOK, WatchRevive
  PROVE  GoodStep
<1>1. ReachedStays /\ trace' \in [Letters -> Trace]
  BY QuietTrace DEF WatchRevive
<1>2. MailMoves
  BY DEF WatchRevive, MailMoves, LetterMove, Types
<1>3. task[Sweeper].kind = "watch"
  BY SweeperIsTask DEF WatchRevive, TasksOK, TaskOK
<1>4. task' \in [Task -> TaskState] /\ TasksOK'
  BY <1>1, <1>3, GotoOK, SweeperIsTask DEF WatchRevive
<1> QED BY <1>1, <1>2, <1>4 DEF GoodStep, RestOK, WatchRevive, Types

(* The watch records a delivery only for a push that succeeded. *)
LEMMA WatchReceiptStep ==
  ASSUME Types, TasksOK, WatchReceipt
  PROVE  GoodStep
<1>0. PICK l \in Letters : l = task[Sweeper].cur
  BY TaskFacts, SweeperIsTask DEF WatchReceipt
<1>1. ReachedStays /\ trace' \in [Letters -> Trace] /\ trace' = trace
  BY QuietTrace DEF WatchReceipt
<1>2. Reached(l)'
  BY <1>0, <1>1, TaskFacts, SweeperIsTask DEF WatchReceipt, TaskOK, HasSuccess, Reached
<1>3. mail' = mail \/ mail' = [mail EXCEPT ![l] = MarkDelivered(mail[l])]
  BY <1>0 DEF WatchReceipt
<1>4. MailMoves
  <2>1. CASE mail' = mail
    BY <2>1 DEF MailMoves, LetterMove, Types
  <2>2. CASE mail' = [mail EXCEPT ![l] = MarkDelivered(mail[l])]
    <3>1. mail'[l] = MarkDelivered(mail[l])
      BY <2>2 DEF Types
    <3>2. LetterMove(l)
      BY <1>2, <3>1 DEF LetterMove, MarkDelivered
    <3> QED BY <2>2, <3>2, OneLetter
  <2> QED BY <1>3, <2>1, <2>2
<1>5. task' \in [Task -> TaskState] /\ TasksOK'
  BY <1>1, NextLetterOK, SweeperIsTask DEF WatchReceipt
<1> QED BY <1>1, <1>4, <1>5 DEF GoodStep, RestOK, WatchReceipt, Types

LEMMA WatchEndStep ==
  ASSUME Types, TasksOK, WatchEnd
  PROVE  GoodStep
<1>1. MailMoves /\ ReachedStays /\ trace' \in [Letters -> Trace]
  BY QuietMail DEF WatchEnd
<1>2. task' \in [Task -> TaskState] /\ TasksOK'
  BY <1>1, FinishOK, SweeperIsTask DEF WatchEnd
<1> QED BY <1>1, <1>2 DEF GoodStep, RestOK, WatchEnd, Types
-----------------------------------------------------------------------------
(* Time and failure.                                                        *)

LEMMA TimeStep ==
  ASSUME Types, TasksOK, NEW l \in Letters, Age(l) \/ Expire(l)
  PROVE  GoodStep
<1>1. ReachedStays /\ trace' \in [Letters -> Trace]
  BY QuietTrace DEF Age, Expire
<1>2. task' \in [Task -> TaskState] /\ TasksOK'
  BY <1>1, QuietTask DEF Age, Expire
<1>3. MailMoves
  <2>1. \/ mail' = [mail EXCEPT ![l] = [mail[l] EXCEPT !.old = TRUE]]
        \/ mail' = [mail EXCEPT ![l] = [mail[l] EXCEPT !.recentPush = FALSE]]
    BY DEF Age, Expire, Types
  <2>2. LetterMove(l)
    BY <2>1 DEF LetterMove, Types
  <2> QED BY <2>1, <2>2, OneLetter
<1> QED BY <1>1, <1>2, <1>3 DEF GoodStep, RestOK, Age, Expire, Types

LEMMA RestartStep ==
  ASSUME Types, TasksOK, Restart
  PROVE  GoodStep
<1>1. MailMoves /\ ReachedStays /\ trace' \in [Letters -> Trace]
  BY QuietMail DEF Restart
<1>2. task' \in [Task -> TaskState]
  BY IdleOK DEF Restart
<1>3. TasksOK'
  BY DEF Restart, TasksOK, TaskOK, AtLetter, HasSuccess, Idle
<1>4. roles' \in SUBSET Agents /\ restarts' \in 0..MaxRestarts
  BY SeedAssumption, MaxRestartsAssumption DEF Restart, Types
<1> QED BY <1>1, <1>2, <1>3, <1>4 DEF GoodStep, RestOK, Restart, Types

LEMMA StutterStep ==
  ASSUME Types, TasksOK, UNCHANGED vars
  PROVE  GoodStep
<1>1. MailMoves /\ ReachedStays /\ trace' \in [Letters -> Trace]
  BY QuietMail DEF vars
<1>2. task' \in [Task -> TaskState] /\ TasksOK'
  BY <1>1, QuietTask DEF vars
<1> QED BY <1>1, <1>2 DEF GoodStep, RestOK, vars, Types

(* Every step of the system is a good one. *)
LEMMA EveryStepIsGood ==
  ASSUME Types, TasksOK, [Next]_vars
  PROVE  GoodStep
<1>1. CASE \E t \in Task : Dispatch(t)
  BY <1>1, FindLetterStep, FindQueueStep, Next1Step, LoopDoneStep, ClaimStep,
     SkipPushStep, SettleStep, DispatchPushStep DEF Dispatch
<1>2. CASE Sweep
  BY <1>2, SweepBeginStep, SweepReclaimStep, SweepListStep, WatchBeginStep,
     WatchLookupStep, WatchRearmStep, WatchReviveStep, WatchReceiptStep, WatchEndStep DEF Sweep
<1>3. CASE Clients
  <2>1. CASE \E t \in Spawned, l \in Letters, a, r \in Agents : Send(t, l, a, r)
    BY <2>1, SendStep
  <2>2. CASE \E t \in Spawned, l \in Letters, a \in Remotes, r \in Agents :
               Inbound(t, l, a, r)
    BY <2>2, InboundStep
  <2>3. CASE \E a \in Remotes, r \in Agents : InboundRefused(a, r)
    BY <2>3, InboundRefusedStep
  <2>4. CASE \E t \in Spawned, a \in Agents, via \in Vias : Register(t, a, via)
    BY <2>4, RegisterStep
  <2>5. CASE \E a \in Agents : Unregister(a)
    BY <2>5, UnregisterStep
  <2>6. CASE \E a \in Agents, limit \in 1..Cardinality(Letters) : Poll(a, limit)
    BY <2>6, PollStep
  <2>7. CASE \E l \in Letters : Read(l) \/ File(l) \/ DeleteOne(l)
    BY <2>7, RecipientStep, DeleteStep DEF DeleteOne
  <2>8. CASE DeleteAll
    BY <2>8, DeleteStep DEF DeleteAll
  <2> QED BY <1>3, <2>1, <2>2, <2>3, <2>4, <2>5, <2>6, <2>7, <2>8 DEF Clients
<1>4. CASE \E l \in Letters : Age(l) \/ Expire(l)
  BY <1>4, TimeStep
<1>5. CASE Restart
  BY <1>5, RestartStep
<1>6. CASE UNCHANGED vars
  BY <1>6, StutterStep
<1> QED BY <1>1, <1>2, <1>3, <1>4, <1>5, <1>6 DEF Next
-----------------------------------------------------------------------------
(* What a good step preserves, letter by letter.                            *)

Earned(m) == m.status = "dead" => m.deadReason # "none"

Explained(m) ==
  m.deadReason # "none" =>
    /\ m.deadReason = "error"
    /\ m.attempts = MaxAttempts
    /\ m.status \notin {"queued", "pushing"}

Tabled(from, to) ==
  \/ \E e \in Event : <<from, e, to>> \in TRANSITIONS
  \/ from = "unsent" /\ to = "queued"
  \/ from \in Status /\ to = "deleted"

LetterOK(l) ==
  /\ mail[l] \in Message
  /\ Earned(mail[l])
  /\ Explained(mail[l])
  /\ Counted(mail[l])
  /\ InHand(l) => Reached(l)

LetterKept(l) ==
  /\ LetterOK(l)'
  /\ InHand(l) => InHand(l)' \/ mail'[l].status = "deleted"
  /\ mail[l].status = "acked" => mail'[l].status \in {"acked", "deleted"}
  /\ mail[l].status = "dead" => mail'[l].status \in {"dead", "deleted"}
  /\ mail'[l].status # mail[l].status => Tabled(mail[l].status, mail'[l].status)

LEMMA MoveKeeps ==
  ASSUME NEW l \in Letters, LetterOK(l), LetterMove(l), ReachedStays
  PROVE  LetterKept(l)
<1> DEFINE m == mail[l]
           n == mail'[l]
<1> USE DEF LetterOK
<1>0. m \in Message /\ (Reached(l) => Reached(l)')
  BY DEF ReachedStays
<1>1. CASE n = m
  BY <1>0, <1>1 DEF LetterKept, InHand, Earned, Explained, Counted
<1>2. CASE m.status = "unsent" /\ \E r \in Agents : n = NewMessage(r)
  <2>1. /\ n \in Message
        /\ n.status = "queued" /\ n.deadReason = "none"
    BY <1>2, MaxAttemptsAssumption DEF NewMessage, Message, Status
  <2> QED BY <1>2, <2>1 DEF LetterKept, InHand, HandedOver, Earned, Explained, Counted, Tabled
<1>3. CASE m.status = "queued" /\ n = PollClaim(m) /\ Reached(l)'
  <2>1. n.deadReason = m.deadReason
    BY <1>0, <1>3 DEF PollClaim, Message
  <2>2. Tabled("queued", "delivered")
    BY DEF Tabled, TRANSITIONS, Event
  <2> QED BY <1>0, <1>3, <2>1, <2>2, PollClaimEffect
          DEF LetterKept, InHand, HandedOver, Earned, Explained, Counted, Status
<1>4. CASE ClaimWins(m) /\ n = MarkPushing(m)
  <2>1. Tabled("queued", "pushing")
    BY DEF Tabled, TRANSITIONS, Event
  <2> QED BY <1>0, <1>4, <2>1, MarkPushingEffect
          DEF LetterKept, InHand, HandedOver, Earned, Explained, Counted, Status
<1>5. CASE n = MarkPushOk(m) /\ Reached(l)'
  <2>1. Tabled("pushing", "delivered")
    BY DEF Tabled, TRANSITIONS, Event
  <2> QED BY <1>0, <1>5, <2>1, MarkPushOkEffect
          DEF LetterKept, InHand, HandedOver, Earned, Explained, Counted, Status
<1>6. ASSUME NEW reason \in Reason, n = MarkPushFailed(m, reason)
      PROVE  LetterKept(l)
  <2>1. /\ Tabled("queued", "dead")
        /\ Tabled("pushing", "dead")
        /\ Tabled("pushing", "queued")
    BY DEF Tabled, TRANSITIONS, Event
  <2> HIDE DEF m, n
  <2>2. LET givesUp == m.attempts = MaxAttempts /\ reason # "auth"
        IN /\ n \in Message
           /\ n.attempts = m.attempts
           /\ n.status = CASE givesUp /\ m.status \in {"queued", "pushing"} -> "dead"
                         [] ~givesUp /\ m.status = "pushing" -> "queued"
                         [] OTHER -> m.status
           /\ n.deadReason \in {m.deadReason, "error"}
           /\ n.deadReason # m.deadReason => givesUp
           /\ givesUp /\ m.status \in {"queued", "pushing"} => n.deadReason = "error"
           /\ Durable /\ n.status # "dead" => n.deadReason = m.deadReason
    BY <1>0, <1>6, MarkPushFailedEffect
  <2> QED BY <1>0, <2>1, <2>2
          DEF LetterKept, InHand, HandedOver, Earned, Explained, Counted, Status, m, n
<1>7. ASSUME NEW reason \in Reason, n = ReclaimStalePushing(m, reason)
      PROVE  LetterKept(l)
  <2>1. Tabled("pushing", "queued")
    BY DEF Tabled, TRANSITIONS, Event
  <2> QED BY <1>0, <1>7, <2>1, ReclaimEffect
          DEF LetterKept, InHand, HandedOver, Earned, Explained, Counted, Status
<1>8. CASE n = ReviveAuthDead(m)
  <2>1. ~AuthDead(m)
    BY DEF AuthDead, Earned, Explained
  <2> QED BY <1>0, <1>1, <1>8, <2>1, ReviveEffect
<1>9. CASE CanRead(m) /\ n = MarkRead(m)
  <2>1. n.deadReason = m.deadReason /\ n.attempts = m.attempts
    BY <1>0, <1>9 DEF MarkRead, Message
  <2>2. Tabled("delivered", "read")
    BY DEF Tabled, TRANSITIONS, Event
  <2> QED BY <1>0, <1>9, <2>1, <2>2, RecipientEffect
          DEF LetterKept, CanRead, InHand, HandedOver, Earned, Explained, Counted, Status
<1>10. CASE CanAck(m) /\ n = Ack(m)
  <2>1. n.deadReason = m.deadReason /\ n.attempts = m.attempts
    BY <1>0, <1>10 DEF Ack, Message
  <2>2. Tabled("delivered", "acked") /\ Tabled("read", "acked")
    BY DEF Tabled, TRANSITIONS, Event
  <2> QED BY <1>0, <1>10, <2>1, <2>2, RecipientEffect
          DEF LetterKept, CanAck, InHand, HandedOver, Earned, Explained, Counted, Status
<1>11. CASE Stored(m) /\ n = Remove(m)
  BY <1>0, <1>11, RecipientEffect
     DEF LetterKept, Tabled, Stored, NoLetter, Message, InHand, HandedOver,
         Earned, Explained, Counted, Status, Remove
<1>12. CASE \/ n = [m EXCEPT !.recentPush = FALSE]
            \/ n = [m EXCEPT !.old = TRUE]
  <2>1. /\ n \in Message
        /\ n.status = m.status /\ n.attempts = m.attempts
        /\ n.deadReason = m.deadReason
    BY <1>0, <1>12 DEF Message
  <2> QED BY <1>0, <2>1 DEF LetterKept, InHand, Earned, Explained, Counted
<1> QED BY <1>1, <1>2, <1>3, <1>4, <1>5, <1>6, <1>7, <1>8, <1>9, <1>10, <1>11,
           <1>12 DEF LetterMove
-----------------------------------------------------------------------------
(* The inductive invariant.  HonestReceipt needs TasksOK, which says that a *)
(* task only brings a success back from a push that got there or was taken  *)
(* for one; DeathIsEarned keeps revive_auth_dead from ever finding a letter.*)
Inv == Types /\ TasksOK /\ \A l \in Letters : LetterOK(l)

LEMMA InitInv == Init => Inv
<1> SUFFICES ASSUME Init PROVE Inv
  OBVIOUS
<1>1. Unsent \in Message /\ Unsent.status = "unsent" /\ Unsent.deadReason = "none"
  <2>1. (CHOOSE a \in Agents : TRUE) \in Agents
    BY AgentsAssumption
  <2>2. \A r \in Agents : [NewMessage(r) EXCEPT !.status = "unsent"] \in Message
    <3> TAKE r \in Agents
    <3>1. NewMessage(r) \in Message
      BY MaxAttemptsAssumption DEF NewMessage, Message, Status
    <3>2. "unsent" \in Status \cup NoLetter
      BY DEF NoLetter
    <3> QED BY <3>1, <3>2 DEF Message
  <2>3. \A r : /\ [NewMessage(r) EXCEPT !.status = "unsent"].status = "unsent"
               /\ [NewMessage(r) EXCEPT !.status = "unsent"].deadReason = "none"
    BY DEF NewMessage
  <2> QED BY <2>1, <2>2, <2>3 DEF Unsent
<1>2. Untouched \in Trace
  BY MaxAttemptsAssumption DEF Untouched, Trace
<1> HIDE DEF Unsent, Untouched
<1>3. Types
  BY <1>1, <1>2, IdleOK, SeedAssumption, MaxRestartsAssumption DEF Init, Types
<1>4. TasksOK
  BY DEF Init, TasksOK, TaskOK, AtLetter, HasSuccess, Idle
<1>5. ASSUME NEW l \in Letters PROVE LetterOK(l)
  BY <1>1 DEF Init, LetterOK, InHand, HandedOver, Earned, Explained, Counted, Status
<1> QED BY <1>3, <1>4, <1>5 DEF Inv

LEMMA StepInv ==
  ASSUME Inv, [Next]_vars
  PROVE  Inv' /\ \A l \in Letters : LetterKept(l)
<1>1. GoodStep
  BY EveryStepIsGood DEF Inv
<1>2. \A l \in Letters : LetterKept(l)
  BY <1>1, MoveKeeps DEF Inv, GoodStep, MailMoves
<1>3. mail' \in [Letters -> Message]
  BY <1>1, <1>2 DEF GoodStep, MailMoves, LetterKept, LetterOK
<1>4. Types'
  BY <1>1, <1>3 DEF GoodStep, RestOK, Types
<1> QED BY <1>1, <1>2, <1>4 DEF Inv, GoodStep, LetterKept

LEMMA Invariance == Spec => []Inv
<1>1. Inv /\ [Next]_vars => Inv'
  BY StepInv
<1> QED BY InitInv, <1>1, PTL DEF Spec

(* The variables keep their types, and every claim is counted.              *)
THEOREM TypeCorrect == Spec => []TypeOK
<1>1. Inv => TypeOK
  BY DEF Inv, LetterOK, TypeOK
<1> QED BY Invariance, <1>1, PTL

(* No letter is recorded as handed over without a copy having got out.      *)
THEOREM ReceiptsAreHonest == Spec => []HonestReceipt
<1>1. Inv => HonestReceipt
  BY DEF Inv, LetterOK, HonestReceipt
<1> QED BY Invariance, <1>1, PTL

(* Letters die of their attempts, with the reason on them, and a reason on  *)
(* a letter that lives is on one its receiver has.                          *)
THEOREM DeathsAreEarned == Spec => []DeathIsEarned
<1>1. Inv => DeathIsEarned
  BY DEF Inv, LetterOK, Earned, Explained, DeathIsEarned
<1> QED BY Invariance, <1>1, PTL

(* No step takes back what the receiver was given.                          *)
THEOREM HandoversAreFinal == Spec => HandoverIsFinal
<1>1. Inv /\ [Next]_vars =>
        [\A l \in Letters :
           /\ InHand(l) => InHand(l)' \/ mail'[l].status = "deleted"
           /\ mail[l].status = "acked" => mail'[l].status \in {"acked", "deleted"}]_vars
  BY StepInv DEF LetterKept
<1> QED BY Invariance, <1>1, PTL DEF Spec, HandoverIsFinal

(* Every status change is a row of the table.                               *)
THEOREM StatusMovesAlongTable == Spec => MovesAlongTable
<1>1. Inv /\ [Next]_vars =>
        [\A l \in Letters : mail'[l].status # mail[l].status =>
           \/ \E e \in Event : <<mail[l].status, e, mail'[l].status>> \in TRANSITIONS
           \/ mail[l].status = "unsent" /\ mail'[l].status = "queued"
           \/ mail[l].status \in Status /\ mail'[l].status = "deleted"]_vars
  BY StepInv DEF LetterKept, Tabled
<1> QED BY Invariance, <1>1, PTL DEF Spec, MovesAlongTable

-----------------------------------------------------------------------------
(* Claims.  Who holds a letter, and what must be true for the claim to be   *)
(* exclusive, says the rest of the invariant.                               *)

(* A task in state s holds the claim on l, as in Holds. *)
Claims(s, l) ==
  /\ s.cur = l
  /\ \/ s.kind = "sweep" /\ s.pc \in {"push", "settle"}
     \/ s.kind \in {"inbound", "repush"} /\ s.pc = "settle"

Free(l) == \A t \in Task : ~Claims(task[t], l)

(* A task in state s is about to release l as stale. *)
Releases(s, l) == s.pc = "reclaim" /\ l \in s.todo

(* Which functions get where, and that tasks deal in letters there are. *)
KindFits(s) ==
  /\ s.pc # "idle" => s.kind # "none"
  /\ s.pc = "claim" => s.kind \in {"inbound", "repush", "sweep"}
  /\ s.pc = "settle" => s.kind \in {"arrival", "inbound", "repush", "sweep"}

Posted(m, s) ==
  \A l \in Letters : l = s.cur \/ l \in s.todo => m[l].status # "unsent"

TasksFit == \A t \in Task : KindFits(task[t]) /\ Posted(mail, task[t])

(* Unless push_on_arrival interfered: a held letter is in flight, and not   *)
(* stale, until somebody deletes it; it has one holder; and what the        *)
(* sweeper found stale has not been claimed since.                          *)
ClaimSound(l) ==
  ~trace[l].robbed =>
    /\ \A t \in Task : Claims(task[t], l) =>
         \/ mail[l].status = "pushing" /\ mail[l].recentPush
         \/ mail[l].status = "deleted"
    /\ \A t, u \in Task : Claims(task[t], l) /\ Claims(task[u], l) => t = u
    /\ Releases(task[Sweeper], l) =>
         mail[l].status \notin {"unsent", "queued"} /\ Free(l)

FlightHeld(l) == mail[l].status = "pushing" /\ restarts = 0 => ~Free(l)

ClaimInv == TasksFit /\ \A l \in Letters : ClaimSound(l) /\ FlightHeld(l)
-----------------------------------------------------------------------------
(* What most steps do to a letter: no claim changes hands, nothing takes    *)
(* off, and only the sweeper puts back what it found stale.                 *)
Calm(l) ==
  /\ trace[l].robbed => trace'[l].robbed
  /\ restarts' = 0 => restarts = 0
  /\ \A t \in Task : Claims(task'[t], l) => Claims(task[t], l)
  /\ \A t \in Task : Claims(task[t], l) => Claims(task'[t], l) \/ restarts' # 0
  /\ mail'[l].status = "pushing" =>
       /\ mail[l].status = "pushing"
       /\ mail'[l].recentPush = mail[l].recentPush \/ Free(l)
  /\ mail[l].status = "pushing" =>
       mail'[l].status \in {"pushing", "deleted"} \/ Releases(task[Sweeper], l)
  /\ mail[l].status = "deleted" => mail'[l].status = "deleted"
  /\ mail'[l].status \in {"unsent", "queued"} =>
       \/ mail[l].status \in {"unsent", "queued"}
       \/ Releases(task[Sweeper], l) /\ ~Releases(task'[Sweeper], l)
  /\ Releases(task'[Sweeper], l) =>
       Releases(task[Sweeper], l) \/ StalePushing(mail'[l])

LEMMA CalmKeeps ==
  ASSUME NEW l \in Letters, ClaimSound(l), FlightHeld(l), Calm(l)
  PROVE  ClaimSound(l)' /\ FlightHeld(l)'
<1>1. FlightHeld(l)'
  BY DEF FlightHeld, Calm, Free
<1>2. ASSUME ~trace'[l].robbed PROVE ~trace[l].robbed
  BY <1>2 DEF Calm
<1>3. ASSUME ~trace'[l].robbed, NEW t \in Task, Claims(task'[t], l)
      PROVE  \/ mail'[l].status = "pushing" /\ mail'[l].recentPush
             \/ mail'[l].status = "deleted"
  <2>1. Claims(task[t], l) /\ ~trace[l].robbed
    BY <1>2, <1>3 DEF Calm
  <2>2. ~Releases(task[Sweeper], l)
    BY <2>1 DEF ClaimSound, Free
  <2>3. CASE mail[l].status = "pushing" /\ mail[l].recentPush
    BY <2>1, <2>2, <2>3 DEF Calm, Free
  <2>4. CASE mail[l].status = "deleted"
    BY <2>4 DEF Calm
  <2> QED BY <2>1, <2>3, <2>4 DEF ClaimSound
<1>4. ASSUME ~trace'[l].robbed, NEW t \in Task, NEW u \in Task,
             Claims(task'[t], l), Claims(task'[u], l)
      PROVE  t = u
  BY <1>2, <1>4 DEF ClaimSound, Calm
<1>5. ASSUME ~trace'[l].robbed, Releases(task'[Sweeper], l)
      PROVE  mail'[l].status \notin {"unsent", "queued"} /\ Free(l)'
  <2>1. CASE Releases(task[Sweeper], l)
    BY <1>2, <1>5, <2>1 DEF ClaimSound, Calm, Free
  <2>2. CASE StalePushing(mail'[l])
    <3>1. mail'[l].status = "pushing" /\ ~mail'[l].recentPush
      BY <2>2 DEF StalePushing
    <3>2. Free(l)'
      BY <1>2, <1>5, <1>3, <3>1 DEF Free
    <3> QED BY <3>1, <3>2
  <2> QED BY <1>5, <2>1, <2>2 DEF Calm
<1> QED BY <1>1, <1>3, <1>4, <1>5 DEF ClaimSound

(* No letter becomes unsent, none comes back from deletion, and no robbery  *)
(* is forgotten.                                                            *)
PostStays == \A l \in Letters :
  /\ mail[l].status # "unsent" => mail'[l].status # "unsent"
  /\ mail[l].status = "deleted" => mail'[l].status = "deleted"

RobbedStays == \A l \in Letters : trace[l].robbed => trace'[l].robbed

CalmStep == TasksFit' /\ \A l \in Letters : Calm(l)

LEMMA FitOne ==
  ASSUME Types, TasksFit, PostStays, NEW t \in Task, NEW s,
         task' = [task EXCEPT ![t] = s], KindFits(s), Posted(mail', s)
  PROVE  TasksFit'
<1> SUFFICES ASSUME NEW u \in Task PROVE KindFits(task'[u]) /\ Posted(mail', task'[u])
  BY DEF TasksFit, KindFits, Posted
<1>1. CASE u = t
  BY <1>1 DEF Types
<1>2. CASE u # t
  <2>1. task'[u] = task[u]
    BY <1>2 DEF Types
  <2> QED BY <2>1 DEF TasksFit, PostStays, Posted
<1> QED BY <1>1, <1>2

LEMMA FitNone ==
  ASSUME Types, TasksFit, PostStays, UNCHANGED task
  PROVE  TasksFit'
BY DEF TasksFit, PostStays, Posted, KindFits

(* A letter that stays in flight was there before, and came back to the     *)
(* shelf only from the sweeper's hands.                                     *)
CalmMail(l) ==
  /\ mail'[l].status = "pushing" =>
       mail[l].status = "pushing" /\ mail'[l].recentPush = mail[l].recentPush
  /\ mail[l].status = "pushing" => mail'[l].status \in {"pushing", "deleted"}
  /\ mail'[l].status \in {"unsent", "queued"} => mail[l].status \in {"unsent", "queued"}

(* A step of one task that neither takes nor drops a claim. *)
LEMMA CalmOne ==
  ASSUME Types, TasksFit, PostStays, RobbedStays, UNCHANGED restarts,
         NEW t \in Task, NEW s, task' = [task EXCEPT ![t] = s],
         KindFits(s), Posted(mail', s),
         \A l \in Letters : Claims(s, l) <=> Claims(task[t], l),
         \A l \in Letters : Releases(s, l) => StalePushing(mail'[l]),
         \A l \in Letters : CalmMail(l)
  PROVE  CalmStep
<1>1. TasksFit'
  BY FitOne
<1>2. ASSUME NEW u \in Task, NEW l \in Letters
      PROVE  /\ Claims(task'[u], l) <=> Claims(task[u], l)
             /\ Releases(task'[u], l) => Releases(task[u], l) \/ StalePushing(mail'[l])
  <2>1. CASE u = t
    BY <2>1 DEF Types
  <2>2. CASE u # t
    <3>1. task'[u] = task[u]
      BY <2>2 DEF Types
    <3> QED BY <3>1
  <2> QED BY <2>1, <2>2
<1>3. ASSUME NEW l \in Letters PROVE Calm(l)
  BY <1>2, SweeperIsTask DEF Calm, RobbedStays, CalmMail, PostStays
<1> QED BY <1>1, <1>3 DEF CalmStep

(* ... and of none. *)
LEMMA CalmNone ==
  ASSUME Types, TasksFit, PostStays, RobbedStays, UNCHANGED <<restarts, task>>,
         \A l \in Letters : CalmMail(l)
  PROVE  CalmStep
<1>1. TasksFit'
  BY FitNone
<1>2. ASSUME NEW l \in Letters PROVE Calm(l)
  BY SweeperIsTask DEF Calm, RobbedStays, CalmMail, PostStays
<1> QED BY <1>1, <1>2 DEF CalmStep

(* Task t may go on in state s: it is well formed, and t holds what it held. *)
MayBecome(t, s) ==
  /\ KindFits(s)
  /\ Posted(mail, s)
  /\ \A l \in Letters : (Claims(s, l) <=> Claims(task[t], l)) /\ ~Releases(s, l)

GoesOn(t) == \E s : task' = [task EXCEPT ![t] = s] /\ MayBecome(t, s)

LEMMA CalmGoesOn ==
  ASSUME Types, TasksFit, PostStays, RobbedStays, UNCHANGED restarts,
         NEW t \in Task, GoesOn(t), \A l \in Letters : CalmMail(l)
  PROVE  CalmStep
<1>1. PICK s : task' = [task EXCEPT ![t] = s] /\ MayBecome(t, s)
  BY DEF GoesOn
<1>2. Posted(mail', s)
  BY <1>1 DEF MayBecome, Posted, PostStays
<1> QED BY <1>1, <1>2, CalmOne DEF MayBecome

(* The store and the robberies stay as they are. *)
LEMMA SameMail ==
  ASSUME UNCHANGED <<mail, trace>>
  PROVE  PostStays /\ RobbedStays /\ \A l \in Letters : CalmMail(l)
BY DEF PostStays, RobbedStays, CalmMail

LEMMA CalmQuiet ==
  ASSUME Types, TasksFit, UNCHANGED <<mail, restarts, trace>>,
         NEW t \in Task, GoesOn(t)
  PROVE  CalmStep
BY SameMail, CalmGoesOn

(* The moves between program points, for a task that holds no claim. *)
LEMMA IdleFits ==
  /\ KindFits(Idle) /\ Posted(mail, Idle)
  /\ \A l \in Letters : ~Claims(Idle, l) /\ ~Releases(Idle, l)
BY LettersAssumption DEF KindFits, Posted, Claims, Releases, Idle

LEMMA FinishGoesOn ==
  ASSUME NEW t \in Task, \A l \in Letters : ~Claims(task[t], l), task' = Finish(t)
  PROVE  GoesOn(t)
BY IdleFits DEF GoesOn, MayBecome, Finish

LEMMA GotoGoesOn ==
  ASSUME Types, TasksFit, NEW t \in Task,
         NEW pc \in {"watch", "heal", "revive", "find", "push"}, task' = Goto(t, pc),
         \A l \in Letters : ~Claims(task[t], l), task[t].pc # "idle",
         pc = "push" => task[t].kind # "sweep"
  PROVE  GoesOn(t)
<1> DEFINE s == [task[t] EXCEPT !.pc = pc]
<1>1. task[t] \in TaskState /\ KindFits(task[t]) /\ Posted(mail, task[t])
  BY DEF Types, TasksFit
<1>2. /\ s.pc = pc /\ s.kind = task[t].kind
      /\ s.cur = task[t].cur /\ s.todo = task[t].todo
  BY <1>1 DEF TaskState
<1>3. task' = [task EXCEPT ![t] = s]
  BY DEF Goto, Types
<1> HIDE DEF s
<1>4. KindFits(s) /\ Posted(mail, s)
  BY <1>1, <1>2 DEF KindFits, Posted
<1>5. \A l \in Letters : ~Claims(s, l) /\ ~Releases(s, l)
  BY <1>2 DEF Claims, Releases
<1> QED BY <1>3, <1>4, <1>5 DEF GoesOn, MayBecome

(* The next letter, for a task that is past its claim or had none. *)
LEMMA NextLetterShape ==
  ASSUME Types, TasksFit, NEW t \in Task, task[t].pc # "idle", task' = NextLetter(t)
  PROVE  \E s : /\ task' = [task EXCEPT ![t] = s]
                /\ KindFits(s) /\ Posted(mail, s)
                /\ \A l \in Letters : ~Claims(s, l) /\ ~Releases(s, l)
<1>1. CASE task[t].kind \in {"arrival", "inbound"}
  BY <1>1, IdleFits DEF NextLetter, Finish
<1>2. CASE task[t].kind \notin {"arrival", "inbound"}
  <2> DEFINE s == [task[t] EXCEPT !.pc = "next", !.cur = 0, !.out = "none"]
  <2>1. task[t] \in TaskState /\ KindFits(task[t]) /\ Posted(mail, task[t])
    BY DEF Types, TasksFit
  <2>2. s.pc = "next" /\ s.cur = 0 /\ s.kind = task[t].kind /\ s.todo = task[t].todo
    BY <2>1 DEF TaskState
  <2>3. task' = [task EXCEPT ![t] = s]
    BY <1>2 DEF NextLetter, Types
  <2> HIDE DEF s
  <2>4. KindFits(s)
    BY <2>1, <2>2 DEF KindFits
  <2>5. Posted(mail, s)
    BY <2>1, <2>2, LettersAssumption DEF Posted
  <2>6. \A l \in Letters : ~Claims(s, l) /\ ~Releases(s, l)
    BY <2>2 DEF Claims, Releases
  <2> QED BY <2>3, <2>4, <2>5, <2>6
<1> QED BY <1>1, <1>2

LEMMA NextLetterGoesOn ==
  ASSUME Types, TasksFit, NEW t \in Task, task[t].pc # "idle",
         \A l \in Letters : ~Claims(task[t], l), task' = NextLetter(t)
  PROVE  GoesOn(t)
BY NextLetterShape DEF GoesOn, MayBecome

LEMMA SpawnGoesOn ==
  ASSUME NEW t \in Task, NEW kind \in {"arrival", "inbound", "repush"},
         NEW agent, NEW l \in Letters \cup {0}, l \in Letters => mail'[l].status # "unsent",
         Spawn(t, kind, agent, l)
  PROVE  \E s : /\ task' = [task EXCEPT ![t] = s]
                /\ KindFits(s) /\ Posted(mail', s)
                /\ \A k \in Letters : (Claims(s, k) <=> Claims(task[t], k)) /\ ~Releases(s, k)
<1> DEFINE s == [Idle EXCEPT !.kind = kind, !.pc = "find", !.agent = agent, !.cur = l]
<1>1. s.pc = "find" /\ s.kind = kind /\ s.cur = l /\ s.todo = {}
  BY DEF Idle
<1>2. task' = [task EXCEPT ![t] = s] /\ task[t] = Idle
  BY DEF Spawn
<1> HIDE DEF s
<1>3. KindFits(s) /\ Posted(mail', s)
  BY <1>1 DEF KindFits, Posted
<1>4. \A k \in Letters : ~Claims(s, k) /\ ~Claims(task[t], k) /\ ~Releases(s, k)
  BY <1>1, <1>2 DEF Claims, Releases, Idle
<1> QED BY <1>2, <1>3, <1>4
-----------------------------------------------------------------------------
(* Every action but a claim won and an outcome recorded is calm.            *)

LEMMA SendCalm ==
  ASSUME Types, TasksFit, PostStays, NEW t \in Spawned, NEW l \in Letters,
         NEW a \in Agents, NEW r \in Agents, Send(t, l, a, r)
  PROVE  CalmStep
<1>1. mail[l].status = "unsent" /\ mail' = [mail EXCEPT ![l] = NewMessage(r)]
  BY DEF Send, Unused, First
<1>2. mail'[l].status = "queued" /\ \A k \in Letters : CalmMail(k)
  BY <1>1 DEF NewMessage, CalmMail, Types
<1>3. RobbedStays
  BY DEF Send, RobbedStays
<1> QED BY <1>2, <1>3, CalmOne, SpawnGoesOn DEF Send, Task

LEMMA InboundCalm ==
  ASSUME Types, TasksFit, PostStays, NEW t \in Spawned, NEW l \in Letters,
         NEW a \in Remotes, NEW r \in Agents, Inbound(t, l, a, r)
  PROVE  CalmStep
<1>1. mail[l].status = "unsent" /\ mail' = [mail EXCEPT ![l] = NewMessage(r)]
  BY DEF Inbound, Unused, First
<1>2. mail'[l].status = "queued" /\ \A k \in Letters : CalmMail(k)
  BY <1>1 DEF NewMessage, CalmMail, Types
<1>3. RobbedStays
  BY DEF Inbound, RobbedStays
<1> QED BY <1>2, <1>3, CalmOne, SpawnGoesOn DEF Inbound, Task

LEMMA RegisterCalm ==
  ASSUME Types, TasksFit, NEW t \in Spawned, NEW a \in Agents, NEW via \in Vias,
         Register(t, a, via)
  PROVE  CalmStep
<1>1. PostStays /\ RobbedStays /\ \A l \in Letters : CalmMail(l)
  BY SameMail DEF Register
<1>2. 0 \notin Letters
  BY LettersAssumption
<1> QED BY <1>1, <1>2, CalmOne, SpawnGoesOn DEF Register, Task

LEMMA ClientCalm ==
  ASSUME Types, TasksFit, PostStays, UNCHANGED task,
         \/ \E a \in Remotes, r \in Agents : InboundRefused(a, r)
         \/ \E a \in Agents : Unregister(a)
         \/ \E a \in Agents, limit \in 1..Cardinality(Letters) : Poll(a, limit)
         \/ \E l \in Letters : Read(l) \/ File(l)
         \/ \E S \in SUBSET Letters : Delete(S)
         \/ \E l \in Letters : Age(l)
  PROVE  CalmStep
<1>1. CASE \/ \E a \in Remotes, r \in Agents : InboundRefused(a, r)
           \/ \E a \in Agents : Unregister(a)
  BY <1>1, CalmNone, SameMail DEF InboundRefused, Unregister
<1>2. ASSUME NEW a \in Agents, NEW limit, Poll(a, limit)
      PROVE  CalmStep
  <2> DEFINE taken == {l \in Waiting(a) :
                         Cardinality({k \in Waiting(a) : k <= l}) <= limit}
  <2>1. /\ mail' = [l \in Letters |-> IF l \in taken THEN PollClaim(mail[l]) ELSE mail[l]]
        /\ trace' = [l \in Letters |-> IF l \in taken THEN Reach(trace[l]) ELSE trace[l]]
        /\ UNCHANGED restarts
    BY <1>2 DEF Poll
  <2>2. \A l \in taken : mail[l].status = "queued"
    BY DEF Waiting
  <2> HIDE DEF taken
  <2>3. \A l \in Letters : CalmMail(l)
    BY <2>1, <2>2, PollClaimEffect DEF CalmMail, Types
  <2>4. RobbedStays
    BY <2>1 DEF RobbedStays, Reach, Types, Trace
  <2> QED BY <2>1, <2>3, <2>4, CalmNone
<1>3. ASSUME NEW l \in Letters, Read(l) \/ File(l)
      PROVE  CalmStep
  <2>1. mail[l] \in Message /\ mail'[l] \in {MarkRead(mail[l]), Ack(mail[l])}
    BY <1>3 DEF Read, File, Types
  <2>2. /\ mail[l].status # "pushing"
        /\ \A k \in Letters : k # l => mail'[k] = mail[k]
    BY <1>3 DEF Read, File, CanRead, CanAck, Types
  <2>3. \A k \in Letters : CalmMail(k)
    BY <2>1, <2>2, RecipientEffect DEF CalmMail
  <2> QED BY <1>3, <2>3, CalmNone DEF Read, File, RobbedStays
<1>4. ASSUME NEW S \in SUBSET Letters, Delete(S)
      PROVE  CalmStep
  <2>1. \A k \in Letters : mail'[k] = IF k \in S THEN Remove(mail[k]) ELSE mail[k]
    BY <1>4 DEF Delete
  <2>2. \A k \in Letters : CalmMail(k)
    BY <2>1, RecipientEffect DEF CalmMail, Types
  <2> QED BY <1>4, <2>2, CalmNone DEF Delete, RobbedStays
<1>5. ASSUME NEW l \in Letters, Age(l)
      PROVE  CalmStep
  <2>1. \A k \in Letters : /\ mail'[k].status = mail[k].status
                           /\ mail'[k].recentPush = mail[k].recentPush
    BY <1>5 DEF Age, Types, Message
  <2> QED BY <1>5, <2>1, CalmNone DEF Age, CalmMail, RobbedStays
<1> QED BY <1>1, <1>2, <1>3, <1>4, <1>5

(* A claim turns stale only when nobody holds it. *)
LEMMA ExpireCalm ==
  ASSUME Types, TasksFit, PostStays, NEW l \in Letters, Expire(l)
  PROVE  CalmStep
<1>1. Free(l)
  BY DEF Expire, Free, Holds, Claims
<1>2. ASSUME NEW k \in Letters
      PROVE  /\ mail'[k].status = mail[k].status
             /\ mail'[k].recentPush = mail[k].recentPush \/ Free(k)
  <2>1. CASE k = l
    BY <1>1, <2>1 DEF Expire, Types, Message
  <2>2. CASE k # l
    BY <2>2 DEF Expire, Types
  <2> QED BY <2>1, <2>2
<1>3. TasksFit'
  BY FitNone DEF Expire
<1>4. ASSUME NEW k \in Letters PROVE Calm(k)
  BY <1>2 DEF Calm, Expire
<1> QED BY <1>3, <1>4 DEF CalmStep

LEMMA RestartCalm ==
  ASSUME Types, Restart
  PROVE  CalmStep
<1>1. restarts' # 0
  BY MaxRestartsAssumption DEF Restart, Types
<1>2. \A t \in Task : task'[t] = Idle
  BY DEF Restart
<1>3. TasksFit'
  BY <1>2, LettersAssumption DEF TasksFit, KindFits, Posted, Idle
<1>4. ASSUME NEW l \in Letters PROVE Calm(l)
  BY <1>1, <1>2, IdleFits, SweeperIsTask DEF Calm, Restart
<1> QED BY <1>3, <1>4 DEF CalmStep

(* What a task at one of these points holds: nothing. *)
LEMMA HoldsNothing ==
  ASSUME NEW t \in Task,
         \/ task[t].pc \notin {"push", "settle"}
         \/ task[t].pc = "push" /\ task[t].kind # "sweep"
  PROVE  \A l \in Letters : ~Claims(task[t], l)
BY DEF Claims

LEMMA FindLetterCalm ==
  ASSUME Types, TasksFit, NEW t \in Task, FindLetter(t)
  PROVE  CalmStep
<1>1. GoesOn(t)
  BY HoldsNothing, FinishGoesOn, GotoGoesOn DEF FindLetter
<1> QED BY <1>1, CalmQuiet DEF FindLetter

LEMMA FindQueueCalm ==
  ASSUME Types, TasksFit, NEW t \in Task, FindQueue(t)
  PROVE  CalmStep
<1>1. \A l \in Letters : ~Claims(task[t], l)
  BY HoldsNothing DEF FindQueue
<1>2. CASE task[t].agent \in roles
  <2> DEFINE queue == Waiting(task[t].agent)
             s == [task[t] EXCEPT !.pc = "next", !.todo = queue]
  <2>1. task[t] \in TaskState /\ KindFits(task[t]) /\ Posted(mail, task[t])
    BY DEF Types, TasksFit
  <2>2. /\ s.pc = "next" /\ s.kind = task[t].kind
        /\ s.cur = task[t].cur /\ s.todo = queue
    BY <2>1 DEF TaskState
  <2>3. task' = [task EXCEPT ![t] = s]
    BY <1>2 DEF FindQueue, Types
  <2> HIDE DEF s
  <2>4. KindFits(s) /\ Posted(mail, s)
    BY <2>1, <2>2 DEF KindFits, Posted, Waiting, FindQueue
  <2>5. \A l \in Letters : ~Claims(s, l) /\ ~Releases(s, l)
    BY <2>2 DEF Claims, Releases
  <2>6. GoesOn(t)
    BY <1>1, <2>3, <2>4, <2>5 DEF GoesOn, MayBecome
  <2> QED BY <2>6, CalmQuiet DEF FindQueue
<1>3. CASE task[t].agent \notin roles
  <2>1. GoesOn(t)
    BY <1>1, <1>3, FinishGoesOn, GotoGoesOn DEF FindQueue
  <2> QED BY <2>1, CalmQuiet DEF FindQueue
<1> QED BY <1>2, <1>3

LEMMA Next1Calm ==
  ASSUME Types, TasksFit, NEW t \in Task, Next1(t)
  PROVE  CalmStep
<1>1. PICK l \in Letters :
        /\ l \in task[t].todo
        /\ task' = [task EXCEPT ![t].cur = l, ![t].todo = @ \ {l},
                                ![t].pc = IF task[t].kind = "sweep" THEN "claim" ELSE "push"]
  BY DEF Next1, First
<1> DEFINE pc == IF task[t].kind = "sweep" THEN "claim" ELSE "push"
           s  == [task[t] EXCEPT !.cur = l, !.todo = @ \ {l}, !.pc = pc]
<1>2. task[t] \in TaskState /\ KindFits(task[t]) /\ Posted(mail, task[t])
  BY DEF Types, TasksFit
<1>3. s.cur = l /\ s.pc = pc /\ s.kind = task[t].kind /\ s.todo = task[t].todo \ {l}
  BY <1>2 DEF TaskState
<1>4. task' = [task EXCEPT ![t] = s]
  BY <1>1 DEF Types
<1> HIDE DEF s
<1>5. KindFits(s) /\ Posted(mail, s)
  BY <1>1, <1>2, <1>3 DEF KindFits, Posted, Next1
<1>6. \A k \in Letters : ~Claims(s, k) /\ ~Releases(s, k)
  BY <1>3 DEF Claims, Releases
<1>7. GoesOn(t)
  BY <1>4, <1>5, <1>6, HoldsNothing DEF GoesOn, MayBecome, Next1
<1> QED BY <1>7, CalmQuiet DEF Next1

LEMMA LoopDoneCalm ==
  ASSUME Types, TasksFit, NEW t \in Task, LoopDone(t)
  PROVE  CalmStep
<1>1. task' = Goto(t, "watch") \/ task' = Goto(t, "heal") \/ task' = Finish(t)
  BY DEF LoopDone
<1>2. GoesOn(t)
  BY <1>1, HoldsNothing, FinishGoesOn, GotoGoesOn DEF LoopDone
<1> QED BY <1>2, CalmQuiet DEF LoopDone

LEMMA ClaimLostCalm ==
  ASSUME Types, TasksFit, NEW t \in Task, Claim(t), ~ClaimWins(Cur(t))
  PROVE  CalmStep
<1>1. GoesOn(t)
  BY HoldsNothing, NextLetterGoesOn DEF Claim
<1> QED BY <1>1, CalmQuiet DEF Claim

(* A push that is over: the sweeper, which claimed first, keeps its claim. *)
LEMMA OutcomeGoesOn ==
  ASSUME Types, TasksFit, NEW t \in Task, NEW out, task[t].pc = "push",
         task' = Outcome(t, out)
  PROVE  GoesOn(t)
<1> DEFINE pc == AfterPush(t, out)
           s  == [task[t] EXCEPT !.out = out, !.pc = pc]
<1>1. /\ pc \in {"claim", "receipt", "next", "settle"}
      /\ pc = "claim" => task[t].kind \in {"inbound", "repush"}
      /\ pc = "settle" <=> task[t].kind \notin {"inbound", "repush", "watch"}
  BY DEF AfterPush
<1> HIDE DEF pc
<1>2. task[t] \in TaskState /\ KindFits(task[t]) /\ Posted(mail, task[t])
  BY DEF Types, TasksFit
<1>3. s.pc = pc /\ s.cur = task[t].cur /\ s.kind = task[t].kind /\ s.todo = task[t].todo
  BY <1>2 DEF TaskState
<1>4. task' = [task EXCEPT ![t] = s]
  BY DEF Outcome, Types, pc
<1> HIDE DEF s
<1>5. KindFits(s)
  BY <1>1, <1>2, <1>3 DEF KindFits, TaskState
<1>6. Posted(mail, s)
  BY <1>2, <1>3 DEF Posted
<1>7. \A l \in Letters : (Claims(s, l) <=> Claims(task[t], l)) /\ ~Releases(s, l)
  BY <1>1, <1>3 DEF Claims, Releases
<1> QED BY <1>4, <1>5, <1>6, <1>7 DEF GoesOn, MayBecome

LEMMA SkipPushCalm ==
  ASSUME Types, TasksFit, NEW t \in Task, SkipPush(t)
  PROVE  CalmStep
<1>1. GoesOn(t)
  BY OutcomeGoesOn DEF SkipPush
<1> QED BY <1>1, CalmQuiet DEF SkipPush

LEMMA DispatchPushCalm ==
  ASSUME Types, TasksFit, NEW t \in Task, NEW result \in Results,
         NEW arrived \in BOOLEAN, DispatchPush(t, result, arrived)
  PROVE  CalmStep
<1>1. GoesOn(t)
  BY OutcomeGoesOn DEF DispatchPush
<1>2. PostStays /\ \A l \in Letters : CalmMail(l)
  BY DEF DispatchPush, PostStays, CalmMail
<1>3. RobbedStays
  <2> DEFINE l == task[t].cur
             h == CASE arrived                  -> Reach(trace[l])
                    [] ~arrived /\ result = "ok" -> Assume(trace[l])
                    [] OTHER                    -> trace[l]
  <2>1. trace' = [trace EXCEPT ![l] = h]
    BY DEF DispatchPush
  <2>2. ASSUME NEW k \in Letters, k = l PROVE h.robbed = trace[k].robbed
    <3>1. trace[k] \in Trace
      BY DEF Types
    <3> QED BY <2>2, <3>1 DEF Reach, Assume, Trace
  <2> HIDE DEF h
  <2> QED BY <2>1, <2>2 DEF RobbedStays, Types
<1> QED BY <1>1, <1>2, <1>3, CalmGoesOn DEF DispatchPush

LEMMA SweepBeginCalm ==
  ASSUME Types, TasksFit, SweepBegin
  PROVE  CalmStep
<1> DEFINE stale == {l \in Letters : StalePushing(mail[l])}
           s == [Idle EXCEPT !.kind = "sweep", !.pc = "reclaim", !.todo = stale]
<1>1. s.kind = "sweep" /\ s.pc = "reclaim" /\ s.cur = 0 /\ s.todo = stale
  BY DEF Idle
<1>2. task' = [task EXCEPT ![Sweeper] = s] /\ task[Sweeper] = Idle
  BY DEF SweepBegin
<1> HIDE DEF s
<1>3. KindFits(s) /\ Posted(mail', s)
  BY <1>1, LettersAssumption DEF KindFits, Posted, StalePushing, SweepBegin
<1>4. \A l \in Letters : Claims(s, l) <=> Claims(task[Sweeper], l)
  BY <1>1, <1>2, IdleFits DEF Claims
<1>5. \A l \in Letters : Releases(s, l) => StalePushing(mail'[l])
  BY <1>1 DEF Releases, SweepBegin
<1> QED BY <1>2, <1>3, <1>4, <1>5, SameMail, CalmOne, SweeperIsTask DEF SweepBegin

(* The sweeper puts a letter back and is done with it. *)
LEMMA SweepReclaimCalm ==
  ASSUME Types, TasksFit, PostStays, SweepReclaim
  PROVE  CalmStep
<1>1. PICK l \in Letters, reason \in Reason :
        /\ l \in task[Sweeper].todo
        /\ mail' = IF Stored(mail[l])
                   THEN [mail EXCEPT ![l] = ReclaimStalePushing(mail[l], reason)] ELSE mail
        /\ task' = [task EXCEPT ![Sweeper].todo = @ \ {l}]
  BY DEF SweepReclaim, First
<1> DEFINE s == [task[Sweeper] EXCEPT !.todo = @ \ {l}]
<1>2. /\ task[Sweeper] \in TaskState
      /\ KindFits(task[Sweeper]) /\ Posted(mail, task[Sweeper])
  BY SweeperIsTask DEF Types, TasksFit
<1>3. /\ s.pc = "reclaim" /\ s.kind = task[Sweeper].kind
      /\ s.cur = task[Sweeper].cur /\ s.todo = task[Sweeper].todo \ {l}
  BY <1>2 DEF TaskState, SweepReclaim
<1>4. task' = [task EXCEPT ![Sweeper] = s]
  BY <1>1 DEF Types
<1> HIDE DEF s
<1>5. KindFits(s) /\ Posted(mail', s)
  BY <1>2, <1>3 DEF KindFits, Posted, PostStays, SweepReclaim
<1>6. TasksFit'
  BY <1>4, <1>5, FitOne, SweeperIsTask
<1>7. task'[Sweeper] = s /\ \A t \in Task : t # Sweeper => task'[t] = task[t]
  BY <1>4, SweeperIsTask DEF Types
<1>8. \A t \in Task, k \in Letters : Claims(task'[t], k) <=> Claims(task[t], k)
  BY <1>3, <1>7 DEF Claims, SweepReclaim
<1>9. \A k \in Letters : k # l =>
        mail'[k] = mail[k] /\ (Releases(task'[Sweeper], k) => Releases(task[Sweeper], k))
  BY <1>1, <1>3, <1>7 DEF Releases, SweepReclaim, Types
<1>10. /\ Releases(task[Sweeper], l) /\ ~Releases(task'[Sweeper], l)
       /\ mail'[l].status = "pushing" => mail'[l] = mail[l]
  <2>1. mail[l] \in Message
    BY DEF Types
  <2>2. Releases(task[Sweeper], l) /\ ~Releases(task'[Sweeper], l)
    BY <1>1, <1>3, <1>7 DEF Releases, SweepReclaim
  <2>3. mail'[l] = mail[l] \/ mail'[l].status # "pushing"
    BY <1>1, <2>1, ReclaimEffect DEF Types
  <2> QED BY <2>2, <2>3
<1>11. ASSUME NEW k \in Letters PROVE Calm(k)
  BY <1>8, <1>9, <1>10 DEF Calm, SweepReclaim, PostStays
<1> QED BY <1>6, <1>11 DEF CalmStep

LEMMA SweepListCalm ==
  ASSUME Types, TasksFit, SweepList
  PROVE  CalmStep
<1> DEFINE due == {l \in Letters : Due(mail[l])}
           s == [task[Sweeper] EXCEPT !.pc = "next", !.todo = due]
<1>1. /\ task[Sweeper] \in TaskState
      /\ KindFits(task[Sweeper]) /\ Posted(mail, task[Sweeper])
  BY SweeperIsTask DEF Types, TasksFit
<1>2. /\ s.pc = "next" /\ s.kind = task[Sweeper].kind
      /\ s.cur = task[Sweeper].cur /\ s.todo = due
  BY <1>1 DEF TaskState
<1>3. task' = [task EXCEPT ![Sweeper] = s]
  BY DEF SweepList, Types
<1> HIDE DEF s
<1>4. KindFits(s) /\ Posted(mail, s)
  BY <1>1, <1>2 DEF KindFits, Posted, Due, SweepList
<1>5. \A l \in Letters : ~Claims(s, l) /\ ~Claims(task[Sweeper], l) /\ ~Releases(s, l)
  BY <1>2 DEF Claims, Releases, SweepList
<1>6. GoesOn(Sweeper)
  BY <1>3, <1>4, <1>5 DEF GoesOn, MayBecome
<1> QED BY <1>6, CalmQuiet, SweeperIsTask DEF SweepList

LEMMA WatchBeginCalm ==
  ASSUME Types, TasksFit, WatchBegin
  PROVE  CalmStep
<1> DEFINE stuck == {l \in Letters : mail[l].status = "queued" /\ mail[l].lastError = "auth"}
           recv == {mail[l].receiver : l \in stuck}
           s == [Idle EXCEPT !.kind = "watch", !.pc = "heal", !.recv = recv]
<1>1. s.kind = "watch" /\ s.pc = "heal" /\ s.cur = 0 /\ s.todo = {}
  BY DEF Idle
<1>2. task' = [task EXCEPT ![Sweeper] = s]
  BY DEF WatchBegin
<1> HIDE DEF s
<1>3. KindFits(s) /\ Posted(mail, s)
  BY <1>1, LettersAssumption DEF KindFits, Posted
<1>4. \A l \in Letters : ~Claims(s, l) /\ ~Claims(task[Sweeper], l) /\ ~Releases(s, l)
  BY <1>1 DEF Claims, Releases, WatchBegin
<1>5. GoesOn(Sweeper)
  BY <1>2, <1>3, <1>4 DEF GoesOn, MayBecome
<1> QED BY <1>5, CalmQuiet, SweeperIsTask DEF WatchBegin

LEMMA WatchLookupCalm ==
  ASSUME Types, TasksFit, NEW a \in Agents, WatchLookup(a)
  PROVE  CalmStep
<1> DEFINE pc == IF registry[a] = "a2a" THEN "rearm" ELSE "heal"
           s == [task[Sweeper] EXCEPT !.pc = pc, !.agent = a, !.recv = @ \ {a}]
<1>1. /\ task[Sweeper] \in TaskState
      /\ KindFits(task[Sweeper]) /\ Posted(mail, task[Sweeper])
  BY SweeperIsTask DEF Types, TasksFit
<1>2. /\ s.pc \in {"rearm", "heal"} /\ s.kind = task[Sweeper].kind
      /\ s.cur = task[Sweeper].cur /\ s.todo = task[Sweeper].todo
  BY <1>1 DEF TaskState
<1>3. task' = [task EXCEPT ![Sweeper] = s]
  BY DEF WatchLookup, Types
<1> HIDE DEF s
<1>4. KindFits(s) /\ Posted(mail, s)
  BY <1>1, <1>2 DEF KindFits, Posted, WatchLookup
<1>5. \A l \in Letters : ~Claims(s, l) /\ ~Claims(task[Sweeper], l) /\ ~Releases(s, l)
  BY <1>2 DEF Claims, Releases, WatchLookup
<1>6. GoesOn(Sweeper)
  BY <1>3, <1>4, <1>5 DEF GoesOn, MayBecome
<1> QED BY <1>6, CalmQuiet, SweeperIsTask DEF WatchLookup

LEMMA WatchMoveCalm ==
  ASSUME Types, TasksFit, WatchRearm \/ WatchEnd
  PROVE  CalmStep
<1>1. GoesOn(Sweeper)
  BY HoldsNothing, FinishGoesOn, GotoGoesOn, SweeperIsTask DEF WatchRearm, WatchEnd
<1> QED BY <1>1, CalmQuiet, SweeperIsTask DEF WatchRearm, WatchEnd

(* There is no letter to revive, and a receipt is for a letter on the shelf. *)
LEMMA WatchReviveCalm ==
  ASSUME Inv, TasksFit, PostStays, WatchRevive
  PROVE  CalmStep
<1>1. GoesOn(Sweeper)
  BY HoldsNothing, GotoGoesOn, SweeperIsTask DEF WatchRevive, Inv
<1>2. ASSUME NEW l \in Letters PROVE mail'[l] = mail[l]
  <2>1. ~AuthDead(mail[l]) /\ mail[l] \in Message
    BY DEF Inv, LetterOK, Earned, Explained, AuthDead
  <2> QED BY <2>1, ReviveEffect DEF WatchRevive
<1>3. RobbedStays /\ \A l \in Letters : CalmMail(l)
  BY <1>2 DEF WatchRevive, RobbedStays, CalmMail
<1> QED BY <1>1, <1>3, CalmGoesOn, SweeperIsTask DEF WatchRevive, Inv

LEMMA WatchReceiptCalm ==
  ASSUME Inv, TasksFit, PostStays, WatchReceipt
  PROVE  CalmStep
<1>1. GoesOn(Sweeper)
  BY HoldsNothing, NextLetterGoesOn, SweeperIsTask DEF WatchReceipt, Inv
<1>2. RobbedStays
  BY DEF WatchReceipt, RobbedStays
<1>3. ASSUME NEW l \in Letters PROVE CalmMail(l)
  <2>1. mail'[l] = mail[l] \/ mail'[l] = MarkDelivered(mail[l])
    BY DEF WatchReceipt, Inv, Types
  <2> QED BY <2>1, MarkDeliveredEffect DEF CalmMail, Inv, Types
<1> QED BY <1>1, <1>2, <1>3, CalmGoesOn, SweeperIsTask DEF WatchReceipt, Inv
-----------------------------------------------------------------------------
(* The two steps that are not calm.                                         *)

LEMMA ClaimWonKeeps ==
  ASSUME Types, ClaimInv, PostStays, NEW t \in Task, Claim(t), ClaimWins(Cur(t)),
         task[t].cur \in Letters
  PROVE  ClaimInv'
<1>0. PICK l \in Letters : l = task[t].cur
  OBVIOUS
<1> DEFINE pc == IF task[t].kind = "sweep" THEN "push" ELSE "settle"
           s == [task[t] EXCEPT !.pc = pc]
<1>1. task[t] \in TaskState /\ KindFits(task[t]) /\ Posted(mail, task[t])
  BY DEF Types, ClaimInv, TasksFit
<1>2. /\ s.pc = pc /\ s.kind = task[t].kind
      /\ s.cur = task[t].cur /\ s.todo = task[t].todo
  BY <1>1 DEF TaskState
<1>3. task' = [task EXCEPT ![t] = s]
  BY DEF Claim, Goto, Types
<1> HIDE DEF s
<1>4. task'[t] = s /\ \A u \in Task : u # t => task'[u] = task[u]
  BY <1>3 DEF Types
<1>5. KindFits(s) /\ Posted(mail', s)
  BY <1>1, <1>2 DEF KindFits, Posted, PostStays, Claim
<1>6. TasksFit'
  BY <1>3, <1>5, FitOne DEF ClaimInv
<1>7. Claims(s, l) /\ \A k \in Letters : Claims(s, k) => k = l
  BY <1>0, <1>1, <1>2 DEF Claims, KindFits, Claim
<1>8. \A k \in Letters : ~Claims(task[t], k)
  BY HoldsNothing DEF Claim
<1>9. ~Releases(s, l) /\ \A k \in Letters : ~Releases(s, k)
  BY <1>2 DEF Releases
<1>10. mail[l].status = "queued" /\ mail[l] \in Message
  BY <1>0, MarkPushingEffect DEF Cur, Types
<1>11. mail'[l] = MarkPushing(mail[l]) /\ \A k \in Letters : k # l => mail'[k] = mail[k]
  BY <1>0 DEF Claim, Types
<1>12. mail'[l].status = "pushing" /\ mail'[l].recentPush
  <2>1. mail'[l].status = "pushing"
    BY <1>0, <1>10, <1>11, MarkPushingEffect DEF Cur
  <2>2. mail'[l].recentPush
    BY <1>10, <1>11 DEF MarkPushing, Message
  <2> QED BY <2>1, <2>2
<1>13. UNCHANGED <<restarts, trace>>
  BY DEF Claim
<1>14. ASSUME NEW k \in Letters, k # l
       PROVE  ClaimSound(k)' /\ FlightHeld(k)'
  <2>1. \A u \in Task : Claims(task'[u], k) <=> Claims(task[u], k)
    BY <1>4, <1>7, <1>8, <1>14
  <2>2. Releases(task'[Sweeper], k) => Releases(task[Sweeper], k)
    BY <1>4, <1>9, SweeperIsTask
  <2>3. Calm(k)
    BY <1>11, <1>13, <1>14, <2>1, <2>2 DEF Calm
  <2> QED BY <2>3, CalmKeeps DEF ClaimInv
<1>15. FlightHeld(l)'
  BY <1>4, <1>7 DEF FlightHeld, Free
<1>16. ClaimSound(l)'
  <2>1. SUFFICES ASSUME ~trace'[l].robbed
                 PROVE  /\ \A u \in Task : Claims(task'[u], l) => u = t
                        /\ ~Releases(task'[Sweeper], l)
    BY <1>4, <1>12 DEF ClaimSound
  <2>2. /\ \A u \in Task : ~Claims(task[u], l)
        /\ ~Releases(task[Sweeper], l)
    BY <1>10, <1>13, <2>1 DEF ClaimInv, ClaimSound
  <2> QED BY <1>4, <1>9, <2>2, SweeperIsTask
<1> QED BY <1>6, <1>14, <1>15, <1>16 DEF ClaimInv

(* An outcome takes a letter out of flight and leaves one that was not in   *)
(* flight or on the shelf where it is.                                      *)
LEMMA SettledEffect ==
  ASSUME NEW m \in Message, NEW out
  PROVE  /\ Settled(m, out).status # "pushing"
         /\ m.status \notin {"queued", "pushing"} => Settled(m, out).status = m.status
<1>1. CASE out = "ok"
  BY <1>1, MarkPushOkEffect DEF Settled
<1>2. CASE out \in {"auth", "error"}
  <2>1. out \in Reason
    BY <1>2 DEF Reason
  <2> QED BY <1>2, <2>1, MarkPushFailedEffect DEF Settled
<1>3. CASE out \notin {"ok", "auth", "error"}
  <2>1. "error" \in Reason
    BY DEF Reason
  <2> QED BY <1>3, <2>1, ReclaimEffect DEF Settled
<1> QED BY <1>1, <1>2, <1>3

LEMMA SettleKeeps ==
  ASSUME Types, ClaimInv, PostStays, NEW t \in Task, Settle(t),
         task[t].cur \in Letters
  PROVE  ClaimInv'
<1>0. PICK l \in Letters : l = task[t].cur
  OBVIOUS
<1>1. PICK s : /\ task' = [task EXCEPT ![t] = s]
               /\ KindFits(s) /\ Posted(mail, s)
               /\ \A k \in Letters : ~Claims(s, k) /\ ~Releases(s, k)
  BY NextLetterShape DEF Settle, ClaimInv
<1>2. TasksFit'
  <2>1. Posted(mail', s)
    BY <1>1 DEF Posted, PostStays
  <2> QED BY <1>1, <2>1, FitOne DEF ClaimInv
<1>3. task'[t] = s /\ \A u \in Task : u # t => task'[u] = task[u]
  BY <1>1 DEF Types
<1>4. UNCHANGED restarts /\ \A k \in Letters : k # l => trace'[k] = trace[k] /\ mail'[k] = mail[k]
  BY <1>0 DEF Settle, Types
<1>5. ASSUME NEW k \in Letters
      PROVE  /\ \A u \in Task : Claims(task'[u], k) => Claims(task[u], k) /\ u # t
             /\ Releases(task'[Sweeper], k) => Releases(task[Sweeper], k)
  BY <1>1, <1>3, SweeperIsTask
<1>6. ASSUME NEW k \in Letters, k # l
      PROVE  ClaimSound(k)' /\ FlightHeld(k)'
  <2>1. ~Claims(task[t], k)
    BY <1>0, <1>6 DEF Claims
  <2>2. \A u \in Task : Claims(task[u], k) => Claims(task'[u], k)
    BY <1>3, <2>1
  <2>3. Calm(k)
    BY <1>4, <1>5, <1>6, <2>2 DEF Calm
  <2> QED BY <2>3, CalmKeeps DEF ClaimInv
<1>7. mail[l] \in Message /\ trace[l] \in Trace
  BY DEF Types
<1>8. /\ mail'[l].status # "pushing"
      /\ mail[l].status \notin {"queued", "pushing"} => mail'[l].status = mail[l].status
  <2>1. CASE Stored(mail[l])
    BY <1>0, <1>7, <2>1, SettledEffect DEF Settle, Types
  <2>2. CASE ~Stored(mail[l])
    BY <1>0, <2>2 DEF Settle, Stored, NoLetter
  <2> QED BY <2>1, <2>2
<1>9. FlightHeld(l)'
  BY <1>8 DEF FlightHeld
<1>10. ASSUME ~trace'[l].robbed
       PROVE  ~trace[l].robbed /\ (mail[l].status = "pushing" => Claims(task[t], l))
  <2> DEFINE b == trace[l].robbed \/ (task[t].kind = "arrival" /\ mail[l].status = "pushing")
             h == [trace[l] EXCEPT !.robbed = b]
  <2>1. trace'[l] = h
    BY <1>0 DEF Settle, Types
  <2>2. h.robbed = b
    BY <1>7 DEF Trace
  <2>3. ~b
    BY <1>10, <2>1, <2>2
  <2>4. mail[l].status = "pushing" => Claims(task[t], l)
    <3>1. KindFits(task[t])
      BY DEF ClaimInv, TasksFit
    <3> QED BY <1>0, <2>3, <3>1 DEF KindFits, Claims, Settle
  <2> QED BY <2>3, <2>4
<1>11. ClaimSound(l)'
  <2> SUFFICES ASSUME ~trace'[l].robbed PROVE ClaimSound(l)'
    BY DEF ClaimSound
  <2>1. ~trace[l].robbed /\ ClaimSound(l)
    BY <1>10 DEF ClaimInv
  <2>2. ASSUME NEW u \in Task, Claims(task'[u], l)
        PROVE  mail'[l].status = "deleted"
    <3>1. Claims(task[u], l) /\ u # t
      BY <1>5, <2>2
    <3>2. mail[l].status = "deleted"
      BY <1>10, <2>1, <3>1 DEF ClaimSound
    <3> QED BY <1>8, <3>2
  <2>3. ASSUME Releases(task'[Sweeper], l)
        PROVE  mail'[l].status \notin {"unsent", "queued"} /\ Free(l)'
    <3>1. mail[l].status \notin {"unsent", "queued"} /\ Free(l)
      BY <1>5, <2>1, <2>3 DEF ClaimSound
    <3>2. mail[l].status # "pushing"
      BY <1>10, <3>1 DEF Free
    <3> QED BY <1>5, <1>8, <3>1, <3>2 DEF Free
  <2>4. ASSUME NEW u \in Task, NEW v \in Task, Claims(task'[u], l), Claims(task'[v], l)
        PROVE  u = v
    BY <1>5, <2>1, <2>4 DEF ClaimSound
  <2> QED BY <2>2, <2>3, <2>4 DEF ClaimSound
<1> QED BY <1>2, <1>6, <1>9, <1>11 DEF ClaimInv
-----------------------------------------------------------------------------
LEMMA InitClaimInv == Init => ClaimInv
<1> SUFFICES ASSUME Init PROVE ClaimInv
  OBVIOUS
<1>1. \A t \in Task : task[t] = Idle
  BY DEF Init
<1>2. TasksFit
  BY <1>1, IdleFits DEF TasksFit
<1>3. ASSUME NEW l \in Letters PROVE mail[l].status = "unsent"
  <2>1. \A r : [NewMessage(r) EXCEPT !.status = "unsent"].status = "unsent"
    BY DEF NewMessage
  <2> QED BY <2>1 DEF Init, Unsent
<1>4. ASSUME NEW l \in Letters PROVE ClaimSound(l) /\ FlightHeld(l)
  BY <1>1, <1>3, IdleFits, SweeperIsTask DEF ClaimSound, FlightHeld
<1> QED BY <1>2, <1>4 DEF ClaimInv

LEMMA StepClaimInv ==
  ASSUME Inv, ClaimInv, [Next]_vars
  PROVE  ClaimInv'
<1>1. PostStays
  BY StepInv DEF LetterKept, Tabled, TRANSITIONS, PostStays
<1>2. ASSUME CalmStep PROVE ClaimInv'
  BY <1>2, CalmKeeps DEF CalmStep, ClaimInv
<1>3. Types /\ TasksFit
  BY DEF Inv, ClaimInv
<1>4. ASSUME NEW t \in Task, Dispatch(t)
      PROVE  ClaimInv'
  <2>1. CASE Claim(t)
    <3>1. task[t].cur \in Letters
      BY <2>1, TaskFacts DEF Claim, Inv
    <3> QED BY <1>1, <1>2, <1>3, <2>1, <3>1, ClaimWonKeeps, ClaimLostCalm
  <2>2. CASE Settle(t)
    <3>1. task[t].cur \in Letters
      BY <2>2, TaskFacts DEF Settle, Inv
    <3> QED BY <1>1, <1>3, <2>2, <3>1, SettleKeeps
  <2>3. CASE \E result \in Results, arrived \in BOOLEAN : DispatchPush(t, result, arrived)
    BY <1>2, <1>3, <2>3, DispatchPushCalm
  <2>4. CASE FindLetter(t) \/ FindQueue(t) \/ Next1(t) \/ LoopDone(t) \/ SkipPush(t)
    BY <1>2, <1>3, <2>4, FindLetterCalm, FindQueueCalm, Next1Calm, LoopDoneCalm, SkipPushCalm
  <2> QED BY <1>4, <2>1, <2>2, <2>3, <2>4 DEF Dispatch
<1>5. CASE Sweep
  BY <1>1, <1>2, <1>3, <1>5, SweepBeginCalm, SweepReclaimCalm, SweepListCalm, WatchBeginCalm,
     WatchLookupCalm, WatchMoveCalm, WatchReviveCalm, WatchReceiptCalm DEF Sweep
<1>6. CASE Clients
  <2>1. CASE \E t \in Spawned, l \in Letters, a, r \in Agents : Send(t, l, a, r)
    BY <1>1, <1>2, <1>3, <2>1, SendCalm
  <2>2. CASE \E t \in Spawned, l \in Letters, a \in Remotes, r \in Agents :
               Inbound(t, l, a, r)
    BY <1>1, <1>2, <1>3, <2>2, InboundCalm
  <2>3. CASE \E t \in Spawned, a \in Agents, via \in Vias : Register(t, a, via)
    BY <1>2, <1>3, <2>3, RegisterCalm
  <2>4. CASE \E a \in Remotes, r \in Agents : InboundRefused(a, r)
    BY <1>1, <1>2, <1>3, <2>4, ClientCalm DEF InboundRefused
  <2>5. CASE \E a \in Agents : Unregister(a)
    BY <1>1, <1>2, <1>3, <2>5, ClientCalm DEF Unregister
  <2>6. CASE \E a \in Agents, limit \in 1..Cardinality(Letters) : Poll(a, limit)
    BY <1>1, <1>2, <1>3, <2>6, ClientCalm DEF Poll
  <2>7. CASE \E l \in Letters : Read(l) \/ File(l)
    BY <1>1, <1>2, <1>3, <2>7, ClientCalm DEF Read, File
  <2>8. CASE DeleteAll \/ \E l \in Letters : DeleteOne(l)
    <3>1. PICK S \in SUBSET Letters : Delete(S)
      BY <2>8 DEF DeleteAll, DeleteOne
    <3> QED BY <1>1, <1>2, <1>3, <3>1, ClientCalm DEF Delete
  <2> QED BY <1>6, <2>1, <2>2, <2>3, <2>4, <2>5, <2>6, <2>7, <2>8 DEF Clients
<1>7. CASE \E l \in Letters : Age(l) \/ Expire(l)
  BY <1>1, <1>2, <1>3, <1>7, ClientCalm, ExpireCalm DEF Age
<1>8. CASE Restart
  BY <1>2, <1>3, <1>8, RestartCalm
<1>9. CASE UNCHANGED vars
  BY <1>1, <1>2, <1>3, <1>9, CalmNone, SameMail DEF vars
<1> QED BY <1>4, <1>5, <1>6, <1>7, <1>8, <1>9 DEF Next

LEMMA ClaimInvariance == Spec => []ClaimInv
<1>1. Inv /\ ClaimInv /\ [Next]_vars => ClaimInv'
  BY StepClaimInv
<1> QED BY InitClaimInv, Invariance, <1>1, PTL DEF Spec

(* Without a restart, a letter in flight has a task that will record an     *)
(* outcome for it (mark_pushing, store/mod.rs:36).                          *)
THEOREM FlightsAreHeld == Spec => []PushingIsHeld
<1>1. ClaimInv => PushingIsHeld
  BY DEF ClaimInv, FlightHeld, Free, Claims, PushingIsHeld, Holds
<1> QED BY ClaimInvariance, <1>1, PTL

(* Two tasks hold one letter only if push_on_arrival, which never claims,   *)
(* moved the letter out of the claim of one of them (server.rs:163).        *)
THEOREM ClaimsAreExclusive == Spec => []OnlyArrivalBreaksClaim
<1>1. ClaimInv => OnlyArrivalBreaksClaim
  BY DEF ClaimInv, ClaimSound, Claims, OnlyArrivalBreaksClaim, Holds
<1> QED BY ClaimInvariance, <1>1, PTL

(* What each outcome makes of a letter in flight. *)
LEMMA OutcomeEffect ==
  ASSUME NEW m \in Message, m.status = "pushing", NEW out
  PROVE  Settled(m, out).status \in
           CASE out = "ok"      -> {"delivered"}
             [] out = "skipped" -> {"queued"}
             [] OTHER           -> {"queued", "dead"}
<1>1. CASE out = "ok"
  BY <1>1, MarkPushOkEffect DEF Settled
<1>2. CASE out \in {"auth", "error"}
  <2>1. out \in Reason
    BY <1>2 DEF Reason
  <2> QED BY <1>2, <2>1, MarkPushFailedEffect DEF Settled
<1>3. CASE out \notin {"ok", "auth", "error"}
  <2>1. "error" \in Reason
    BY DEF Reason
  <2> QED BY <1>3, <2>1, ReclaimEffect DEF Settled
<1> QED BY <1>1, <1>2, <1>3

(* A task that is about to settle is left alone by every step but its own   *)
(* and a restart.                                                           *)
LEMMA OthersLeaveTask ==
  ASSUME Types, NEW t \in Task, NEW u \in Task, u # t, Dispatch(u)
  PROVE  task'[t] = task[t]
<1>1. CASE FindLetter(u) \/ FindQueue(u)
  BY <1>1 DEF FindLetter, FindQueue, Goto, Finish, Types
<1>2. CASE Next1(u) \/ LoopDone(u)
  BY <1>2 DEF Next1, LoopDone, Goto, Finish, Types
<1>3. CASE Claim(u) \/ Settle(u)
  BY <1>3 DEF Claim, Settle, NextLetter, Goto, Finish, Types
<1>4. CASE \/ SkipPush(u)
           \/ \E result \in Results, arrived \in BOOLEAN : DispatchPush(u, result, arrived)
  BY <1>4 DEF SkipPush, DispatchPush, Outcome, Types
<1> QED BY <1>1, <1>2, <1>3, <1>4 DEF Dispatch

LEMMA SweepLeavesTask ==
  ASSUME Types, NEW t \in Task, task[t].pc = "settle", Sweep
  PROVE  task'[t] = task[t]
<1>1. CASE SweepBegin \/ WatchBegin
  BY <1>1 DEF SweepBegin, WatchBegin, Idle, Types
<1>2. CASE SweepReclaim \/ SweepList
  BY <1>2 DEF SweepReclaim, SweepList, Types
<1>3. CASE \E a \in Agents : WatchLookup(a)
  BY <1>3 DEF WatchLookup, Types
<1>4. CASE WatchRearm \/ WatchRevive \/ WatchEnd
  BY <1>4 DEF WatchRearm, WatchRevive, WatchEnd, Goto, Finish, Types
<1>5. CASE WatchReceipt
  BY <1>5 DEF WatchReceipt, NextLetter, Finish, Types
<1> QED BY <1>1, <1>2, <1>3, <1>4, <1>5 DEF Sweep

LEMMA ClientsLeaveTask ==
  ASSUME Types, NEW t \in Task, task[t].pc = "settle",
         Clients \/ \E l \in Letters : Age(l) \/ Expire(l)
  PROVE  task'[t] = task[t]
<1>1. ASSUME NEW u, NEW kind, NEW agent, NEW l, Spawn(u, kind, agent, l)
      PROVE  task'[t] = task[t]
  BY <1>1 DEF Spawn, Idle, Types
<1>2. CASE \/ \E u \in Spawned, l \in Letters, s, r \in Agents : Send(u, l, s, r)
           \/ \E u \in Spawned, l \in Letters, s \in Remotes, r \in Agents :
                Inbound(u, l, s, r)
           \/ \E u \in Spawned, a \in Agents, via \in Vias : Register(u, a, via)
  BY <1>1, <1>2 DEF Send, Inbound, Register
<1>3. CASE \/ \E s \in Remotes, r \in Agents : InboundRefused(s, r)
           \/ \E a \in Agents : Unregister(a)
           \/ \E a \in Agents, limit \in 1..Cardinality(Letters) : Poll(a, limit)
  BY <1>3 DEF InboundRefused, Unregister, Poll
<1>4. CASE \/ \E l \in Letters : Read(l) \/ File(l) \/ DeleteOne(l) \/ Age(l) \/ Expire(l)
           \/ DeleteAll
  BY <1>4 DEF Read, File, DeleteOne, DeleteAll, Delete, Age, Expire
<1> QED BY <1>2, <1>3, <1>4 DEF Clients

LEMMA LeavingSettles ==
  ASSUME Types, [Next]_vars, UNCHANGED restarts, NEW t \in Task,
         task[t].pc = "settle", task'[t].pc # "settle"
  PROVE  Settle(t)
<1>1. task'[t] # task[t]
  OBVIOUS
<1>2. ~UNCHANGED vars /\ ~Restart
  BY <1>1 DEF vars, Restart, Types
<1>3. PICK u \in Task : Dispatch(u)
  BY <1>1, <1>2, SweepLeavesTask, ClientsLeaveTask DEF Next
<1>4. u = t
  BY <1>1, <1>3, OthersLeaveTask
<1> QED BY <1>3, <1>4 DEF Dispatch, FindLetter, FindQueue, Next1, LoopDone, Claim,
                          SkipPush, DispatchPush

(* The true half of "Pushed -> delivered" (server.rs:163): the outcome of a *)
(* task whose claim stands is what becomes of the letter.                   *)
THEOREM OutcomesTakeEffect == Spec => OutcomesCount
<1>1. ASSUME Inv, ClaimInv, [Next]_vars, NEW t \in Task,
             Holds(t, task[t].cur), task[t].pc = "settle", task'[t].pc # "settle",
             restarts' = restarts, ~trace[task[t].cur].robbed
      PROVE  mail'[task[t].cur].status \in {"deleted"} \cup
               CASE task[t].out = "ok"      -> {"delivered"}
                 [] task[t].out = "skipped" -> {"queued"}
                 [] OTHER                   -> {"queued", "dead"}
  <2>1. Settle(t)
    BY <1>1, LeavingSettles DEF Inv
  <2>2. PICK l \in Letters : l = task[t].cur
    BY <1>1, <2>1, TaskFacts DEF Settle, Inv
  <2>3. mail[l].status = "pushing" \/ mail[l].status = "deleted"
    BY <1>1, <2>2 DEF ClaimInv, ClaimSound, Claims, Holds
  <2>4. mail[l] \in Message
    BY <1>1 DEF Inv, Types
  <2>5. CASE mail[l].status = "pushing"
    <3>1. mail'[l] = Settled(mail[l], task[t].out)
      BY <1>1, <2>1, <2>2, <2>5 DEF Settle, Stored, NoLetter, Inv, Types
    <3> QED BY <2>2, <2>4, <2>5, <3>1, OutcomeEffect
  <2>6. CASE mail[l].status = "deleted"
    BY <2>1, <2>2, <2>6 DEF Settle, Stored, NoLetter
  <2> QED BY <2>3, <2>5, <2>6
<1>2. Inv /\ ClaimInv /\ [Next]_vars =>
        [\A t \in Task : LET l == task[t].cur IN
           /\ Holds(t, l) /\ task[t].pc = "settle"
           /\ task'[t].pc # "settle" /\ restarts' = restarts
           /\ ~trace[l].robbed
           => mail'[l].status \in {"deleted"} \cup
                CASE task[t].out = "ok"      -> {"delivered"}
                  [] task[t].out = "skipped" -> {"queued"}
                  [] OTHER                   -> {"queued", "dead"}]_vars
  BY <1>1
<1> QED BY Invariance, ClaimInvariance, <1>2, PTL DEF Spec, OutcomesCount

-----------------------------------------------------------------------------
(* The promise.  Each step of the system is a step of LetterPromise, or     *)
(* none, when letters are seen through StageOf.                             *)

PromiseStep == [Promise!Next]_(Promise!vars)

SameKnown == \A l \in Letters : Reached(l)' <=> Reached(l)

LEMMA SameKnownLetters ==
  ASSUME SameKnown
  PROVE  KnownLetters' = KnownLetters
BY DEF SameKnown, KnownLetters

LEMMA SameStages ==
  ASSUME \A l \in Letters : StageOf(mail'[l].status) = StageOf(mail[l].status)
  PROVE  Stages' = Stages
BY DEF Stages

LEMMA QuietPromise ==
  ASSUME UNCHANGED <<mail, trace>>
  PROVE  PromiseStep
BY DEF PromiseStep, Promise!vars, Stages, KnownLetters, Reached

(* Letters of S come to the same stage, the others stay. *)
LEMMA StagesMove ==
  ASSUME NEW S \in SUBSET Letters, NEW from, NEW to,
         \A l \in S : StageOf(mail[l].status) \in from /\ StageOf(mail'[l].status) = to,
         \A l \in Letters \ S : StageOf(mail'[l].status) = StageOf(mail[l].status)
  PROVE  Promise!Become(S, from, to)
BY DEF Promise!Become, Stages

(* What one step may do to the stage of one letter. *)
StageStep(l, from, to) ==
  \/ from = to
  \/ from = "none" /\ to = "waiting"
  \/ from = "waiting" /\ to = "handed" /\ Reached(l)
  \/ from = "handed" /\ to = "done"
  \/ from = "waiting" /\ to = "dead"
  \/ from \notin {"none", "gone"} /\ to = "gone"

StageOK(l) == StageStep(l, StageOf(mail[l].status), StageOf(mail'[l].status))

LEMMA StagesAreStages ==
  ASSUME NEW s \in Status \cup NoLetter
  PROVE  StageOf(s) \in Promise!Stage
BY DEF StageOf, Status, NoLetter, Promise!Stage

LEMMA OneLetterPromise ==
  ASSUME Types, SameKnown, NEW l \in Letters, StageOK(l),
         \A k \in Letters : k # l => mail'[k] = mail[k]
  PROVE  PromiseStep
<1> DEFINE from == StageOf(mail[l].status)
           to == StageOf(mail'[l].status)
<1>1. UNCHANGED KnownLetters
  BY SameKnownLetters
<1>2. from \in Promise!Stage
  BY StagesAreStages DEF Types, Message
<1>3. \A S : from \in S => Promise!Become({l}, S, to)
  BY StagesMove
<1>4. CASE from = to
  BY <1>1, <1>4, SameStages DEF PromiseStep, Promise!vars
<1>5. CASE from = "none" /\ to = "waiting"
  BY <1>1, <1>3, <1>5 DEF PromiseStep, Promise!Next, Promise!Post
<1>6. CASE from = "waiting" /\ to = "handed" /\ Reached(l)
  BY <1>1, <1>3, <1>6 DEF PromiseStep, Promise!Next, Promise!Confirm, KnownLetters
<1>7. CASE from = "handed" /\ to = "done"
  BY <1>1, <1>3, <1>7 DEF PromiseStep, Promise!Next, Promise!Complete
<1>8. CASE from = "waiting" /\ to = "dead"
  BY <1>1, <1>3, <1>8 DEF PromiseStep, Promise!Next, Promise!Bury
<1>9. CASE from \notin {"none", "gone"} /\ to = "gone"
  BY <1>1, <1>2, <1>3, <1>9 DEF PromiseStep, Promise!Next, Promise!Discard
<1> QED BY <1>4, <1>5, <1>6, <1>7, <1>8, <1>9 DEF StageOK, StageStep

(* Whatever moves along the table, unless it rises from the dead, moves     *)
(* through the stages.                                                      *)
LEMMA KeptIsStageOK ==
  ASSUME NEW l \in Letters, LetterOK(l), LetterKept(l), SameKnown
  PROVE  StageOK(l)
<1>1. mail'[l].status \in HandedOver => Reached(l)
  BY DEF LetterKept, LetterOK, InHand, SameKnown
<1>2. CASE mail'[l].status = mail[l].status
  BY <1>2 DEF StageOK, StageStep
<1>3. CASE mail'[l].status # mail[l].status
  <2>1. Tabled(mail[l].status, mail'[l].status)
    BY <1>3 DEF LetterKept
  <2>2. mail[l].status = "dead" => mail'[l].status \in {"dead", "deleted"}
    BY DEF LetterKept
  <2>3. CASE mail[l].status \in Status /\ mail'[l].status = "deleted"
    BY <2>3 DEF StageOK, StageStep, StageOf, Status
  <2>4. CASE mail[l].status = "unsent" /\ mail'[l].status = "queued"
    BY <2>4 DEF StageOK, StageStep, StageOf
  <2>5. CASE \E e \in Event : <<mail[l].status, e, mail'[l].status>> \in TRANSITIONS
    <3>1. <<mail[l].status, mail'[l].status>> \in
            { <<"queued", "pushing">>, <<"pushing", "delivered">>, <<"pushing", "queued">>,
              <<"queued", "delivered">>, <<"delivered", "read">>, <<"delivered", "acked">>,
              <<"read", "acked">>, <<"queued", "dead">>, <<"pushing", "dead">>,
              <<"dead", "queued">> }
      BY <2>5 DEF TRANSITIONS
    <3> QED BY <1>1, <2>2, <3>1 DEF StageOK, StageStep, StageOf, HandedOver
  <2> QED BY <2>1, <2>3, <2>4, <2>5 DEF Tabled
<1> QED BY <1>2, <1>3

(* A step that touches at most one letter, and no copy gets out. *)
TouchesOne ==
  /\ SameKnown
  /\ mail' = mail \/ \E l \in Letters : \A k \in Letters : k # l => mail'[k] = mail[k]

LEMMA TouchesOnePromise ==
  ASSUME Inv, [Next]_vars, TouchesOne
  PROVE  PromiseStep
<1>1. \A l \in Letters : LetterKept(l) /\ LetterOK(l)
  BY StepInv DEF Inv
<1>2. CASE mail' = mail
  <2>1. Stages' = Stages
    BY <1>2, SameStages
  <2> QED BY <2>1, SameKnownLetters DEF TouchesOne, PromiseStep, Promise!vars
<1>3. ASSUME NEW l \in Letters, \A k \in Letters : k # l => mail'[k] = mail[k]
      PROVE  PromiseStep
  BY <1>1, <1>3, KeptIsStageOK, OneLetterPromise DEF TouchesOne, Inv
<1> QED BY <1>2, <1>3 DEF TouchesOne

(* The receiver polls: all letters taken are fetched at once. *)
LEMMA PollPromise ==
  ASSUME Types, NEW a \in Agents, NEW limit, Poll(a, limit)
  PROVE  PromiseStep
<1> DEFINE taken == {l \in Waiting(a) :
                       Cardinality({k \in Waiting(a) : k <= l}) <= limit}
<1>1. /\ taken \subseteq Waiting(a)
      /\ mail' = [l \in Letters |-> IF l \in taken THEN PollClaim(mail[l]) ELSE mail[l]]
      /\ trace' = [l \in Letters |-> IF l \in taken THEN Reach(trace[l]) ELSE trace[l]]
  BY DEF Poll
<1> HIDE DEF taken
<1>2. taken \in SUBSET Letters /\ \A l \in taken : mail[l].status = "queued"
  BY <1>1 DEF Waiting
<1>3. \A l \in taken : mail'[l].status = "delivered"
  BY <1>1, <1>2, PollClaimEffect DEF Types
<1>4. Promise!Become(taken, {"waiting"}, "handed")
  BY <1>1, <1>2, <1>3, StagesMove DEF StageOf
<1>5. KnownLetters' = KnownLetters \cup taken
  BY <1>1, <1>2, ReachOK DEF KnownLetters, Reached, Types
<1> QED BY <1>2, <1>4, <1>5 DEF PromiseStep, Promise!Next, Promise!Fetch

(* Letters are deleted, all at once. *)
LEMMA DeletePromise ==
  ASSUME Types, NEW S \in SUBSET Letters, Delete(S)
  PROVE  PromiseStep
<1>1. /\ \A l \in S : Stored(mail[l]) /\ mail'[l] = Remove(mail[l])
      /\ \A l \in Letters \ S : mail'[l] = mail[l]
  BY DEF Delete
<1>2. \A l \in S : mail'[l].status = "deleted" /\ mail[l].status \in Status
  BY <1>1, RecipientEffect DEF Types, Stored, Message
<1>3. \A l \in S : StageOf(mail[l].status) \in Promise!Stage \ {"none", "gone"}
  BY <1>2 DEF StageOf, Status, Promise!Stage
<1>4. Promise!Become(S, Promise!Stage \ {"none", "gone"}, "gone")
  BY <1>1, <1>2, <1>3, StagesMove DEF StageOf
<1>5. UNCHANGED KnownLetters
  BY DEF Delete, KnownLetters, Reached
<1> QED BY <1>4, <1>5 DEF PromiseStep, Promise!Next, Promise!Discard

(* A push: a copy may get out, of a letter that somebody dropped. *)
LEMMA DispatchPushPromise ==
  ASSUME Inv, TasksFit, NEW t \in Task, NEW result \in Results,
         NEW arrived \in BOOLEAN, DispatchPush(t, result, arrived)
  PROVE  PromiseStep
<1>0. PICK l \in Letters : l = task[t].cur
  BY TaskFacts DEF DispatchPush, Inv
<1> DEFINE h == CASE arrived                  -> Reach(trace[l])
                  [] ~arrived /\ result = "ok" -> Assume(trace[l])
                  [] OTHER                    -> trace[l]
<1>1. trace' = [trace EXCEPT ![l] = h] /\ mail' = mail
  BY <1>0 DEF DispatchPush
<1>2. h = trace[l] \/ h.copies > 0 \/ h.assumed
  BY ReachOK DEF Assume, Trace, Inv, Types
<1> HIDE DEF h
<1>3. KnownLetters' = KnownLetters \/ KnownLetters' = KnownLetters \cup {l}
  <2>1. trace'[l] = h /\ \A k \in Letters : k # l => trace'[k] = trace[k]
    BY <1>1 DEF Inv, Types
  <2>2. CASE h = trace[l]
    BY <2>1, <2>2 DEF KnownLetters, Reached
  <2>3. CASE h.copies > 0 \/ h.assumed
    BY <2>1, <2>3 DEF KnownLetters, Reached
  <2> QED BY <1>2, <2>2, <2>3
<1>4. Stages' = Stages
  BY <1>1 DEF Stages
<1>5. Stages[l] # "none"
  <2>1. mail[l].status # "unsent" /\ mail[l].status \in Status \cup NoLetter
    BY <1>0 DEF TasksFit, Posted, Inv, Types, Message
  <2> QED BY <2>1 DEF Stages, StageOf, Status, NoLetter
<1> QED BY <1>3, <1>4, <1>5 DEF PromiseStep, Promise!vars, Promise!Next, Promise!Reach

LEMMA DispatchTouchesOne ==
  ASSUME Inv, NEW t \in Task,
         \/ FindLetter(t) \/ FindQueue(t) \/ Next1(t) \/ LoopDone(t)
         \/ Claim(t) \/ SkipPush(t) \/ Settle(t)
  PROVE  TouchesOne
<1>1. CASE FindLetter(t) \/ FindQueue(t) \/ Next1(t) \/ LoopDone(t) \/ SkipPush(t)
  BY <1>1 DEF FindLetter, FindQueue, Next1, LoopDone, SkipPush,
              TouchesOne, SameKnown, Reached
<1>2. CASE Claim(t)
  <2>1. task[t].cur \in Letters
    BY <1>2, TaskFacts DEF Claim, Inv
  <2> QED BY <1>2, <2>1 DEF Claim, TouchesOne, SameKnown, Reached, Inv, Types
<1>3. CASE Settle(t)
  <2>1. PICK l \in Letters : l = task[t].cur
    BY <1>3, TaskFacts DEF Settle, Inv
  <2>2. \A k \in Letters : k # l => mail'[k] = mail[k] /\ trace'[k] = trace[k]
    BY <1>3, <2>1 DEF Settle, Inv, Types
  <2>3. trace'[l].copies = trace[l].copies /\ trace'[l].assumed = trace[l].assumed
    BY <1>3, <2>1 DEF Settle, Inv, Types, Trace
  <2>4. SameKnown
    BY <2>2, <2>3 DEF SameKnown, Reached
  <2> QED BY <2>2, <2>4 DEF TouchesOne
<1> QED BY <1>1, <1>2, <1>3

LEMMA SweepTouchesOne ==
  ASSUME Inv, Sweep
  PROVE  TouchesOne
<1>1. SameKnown
  BY DEF Sweep, SweepBegin, SweepReclaim, SweepList, WatchBegin, WatchRearm, WatchRevive,
         WatchReceipt, WatchEnd, WatchLookup, SameKnown, Reached
<1>2. CASE SweepReclaim
  <2>1. PICK l \in Letters : \A k \in Letters : k # l => mail'[k] = mail[k]
    BY <1>2 DEF SweepReclaim, Inv, Types
  <2> QED BY <1>1, <2>1 DEF TouchesOne
<1>3. CASE WatchRevive
  <2>1. ASSUME NEW l \in Letters PROVE mail'[l] = mail[l]
    <3>1. ~AuthDead(mail[l]) /\ mail[l] \in Message
      BY DEF Inv, LetterOK, Earned, Explained, AuthDead
    <3> QED BY <1>3, <3>1, ReviveEffect DEF WatchRevive
  <2> QED BY <1>1, <1>3, <2>1 DEF TouchesOne, WatchRevive, Inv, Types
<1>4. CASE WatchReceipt
  <2>1. PICK l \in Letters : l = task[Sweeper].cur
    BY <1>4, TaskFacts, SweeperIsTask DEF WatchReceipt, Inv
  <2> QED BY <1>1, <1>4, <2>1 DEF WatchReceipt, TouchesOne, Inv, Types
<1>5. CASE mail' = mail
  BY <1>1, <1>5 DEF TouchesOne
<1> QED BY <1>2, <1>3, <1>4, <1>5
        DEF Sweep, SweepBegin, SweepList, WatchBegin, WatchRearm, WatchEnd, WatchLookup

LEMMA ClientTouchesOne ==
  ASSUME Types,
         \/ \E t \in Spawned, l \in Letters, a, r \in Agents : Send(t, l, a, r)
         \/ \E t \in Spawned, l \in Letters, a \in Remotes, r \in Agents : Inbound(t, l, a, r)
         \/ \E a \in Remotes, r \in Agents : InboundRefused(a, r)
         \/ \E t \in Spawned, a \in Agents, via \in Vias : Register(t, a, via)
         \/ \E a \in Agents : Unregister(a)
         \/ \E l \in Letters : Read(l) \/ File(l) \/ Age(l) \/ Expire(l)
         \/ Restart
  PROVE  TouchesOne
<1>1. SameKnown
  BY DEF Send, Inbound, InboundRefused, Register, Unregister, Read, File, Age, Expire, Restart,
         SameKnown, Reached
<1>2. ASSUME NEW l \in Letters, NEW m, mail' = [mail EXCEPT ![l] = m]
      PROVE  TouchesOne
  BY <1>1, <1>2 DEF TouchesOne, Types
<1>3. CASE \/ \E t \in Spawned, l \in Letters, a, r \in Agents : Send(t, l, a, r)
           \/ \E t \in Spawned, l \in Letters, a \in Remotes, r \in Agents : Inbound(t, l, a, r)
  BY <1>2, <1>3 DEF Send, Inbound
<1>4. CASE \E l \in Letters : Read(l) \/ File(l) \/ Age(l) \/ Expire(l)
  BY <1>2, <1>4 DEF Read, File, Age, Expire
<1>5. CASE mail' = mail
  BY <1>1, <1>5 DEF TouchesOne
<1> QED BY <1>3, <1>4, <1>5 DEF InboundRefused, Register, Unregister, Restart

LEMMA EveryStepIsPromised ==
  ASSUME Inv, TasksFit, [Next]_vars
  PROVE  PromiseStep
<1>0. Types
  BY DEF Inv
<1>1. ASSUME TouchesOne PROVE PromiseStep
  BY <1>1, TouchesOnePromise
<1>2. ASSUME NEW t \in Task, Dispatch(t)
      PROVE  PromiseStep
  BY <1>1, <1>2, DispatchTouchesOne, DispatchPushPromise DEF Dispatch
<1>3. CASE Sweep
  BY <1>1, <1>3, SweepTouchesOne
<1>4. CASE Clients
  <2>1. CASE \E a \in Agents, limit \in 1..Cardinality(Letters) : Poll(a, limit)
    BY <1>0, <2>1, PollPromise
  <2>2. CASE DeleteAll \/ \E l \in Letters : DeleteOne(l)
    BY <1>0, <2>2, DeletePromise DEF DeleteAll, DeleteOne
  <2> QED BY <1>0, <1>1, <1>4, <2>1, <2>2, ClientTouchesOne DEF Clients
<1>5. CASE (\E l \in Letters : Age(l) \/ Expire(l)) \/ Restart
  BY <1>0, <1>1, <1>5, ClientTouchesOne
<1>6. CASE UNCHANGED vars
  BY <1>6, QuietPromise DEF vars
<1> QED BY <1>2, <1>3, <1>4, <1>5, <1>6 DEF Next

(* The server keeps the promise of LetterPromise: seen from outside, a      *)
(* letter waits until a copy is out or it is given up, and never goes back  *)
(* (server.rs:163, state.rs:9-13).                                          *)
THEOREM PromiseIsKept == Spec => KeepsPromise
<1>1. Init => Promise!Init
  <2> SUFFICES ASSUME Init PROVE Promise!Init
    OBVIOUS
  <2>1. \A r : [NewMessage(r) EXCEPT !.status = "unsent"].status = "unsent"
    BY DEF NewMessage
  <2>2. \A l \in Letters : StageOf(mail[l].status) = "none"
    BY <2>1 DEF Init, Unsent, StageOf
  <2>3. \A l \in Letters : ~Reached(l)
    BY DEF Init, Reached, Untouched
  <2> QED BY <2>2, <2>3 DEF Promise!Init, Stages, KnownLetters
<1>2. Inv /\ ClaimInv /\ [Next]_vars => [Promise!Next]_(Promise!vars)
  BY EveryStepIsPromised DEF ClaimInv, PromiseStep
<1> QED BY <1>1, <1>2, Invariance, ClaimInvariance, PTL DEF Spec, KeepsPromise, Promise!Spec
=============================================================================
