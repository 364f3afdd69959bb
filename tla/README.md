# TLA+ models of hot-potato

hot-potato is a letter bus for agents: a sender drops a letter, the bus pushes it to the receiver's
endpoint, or the receiver polls for it, and the sender can ask at any time how far it got. This directory models
the bus in TLA+, checks the models with TLC on small instances and proves what matters most with TLAPS. Paths
below are those of the crate (`state.rs` is `src/src/state.rs` seen from the repository's parent).

## The system

| component | state | operations | interacts with |
|---|---|---|---|
| letter state machine, `state.rs`, `message.rs` | none; a letter is a record with a status, counters and timestamps | `apply(status, event)`, `should_give_up` | called by the stores |
| `BusStore`: `store/memory.rs`, `store/sled_store.rs` | mailboxes: letters per receiver, in order of `created_at`; known agents | `push`, `poll`, `mark_delivered`, `mark_pushing`, `mark_push_ok`, `mark_push_failed`, `reclaim_stale_pushing`, `revive_auth_dead`, `mark_read`, `ack`, `delete_one`, `delete_all`, `list_all` | shared by every task through the bus |
| `EventBus`, `bus.rs` | `roles`: agent to role, in memory | registration gates, `send_envelope`, `broadcast`, thin wrappers over the store | handlers, sweeper |
| push registry and transport, `deliver.rs` | `AgentEntry` per agent with its `deliver_via`, persisted in `registry.json` | `register_tagged`, `unregister`, `lookup`, `dispatch_push` over HTTP | dispatch tasks, sweeper |
| server, `server.rs` | none of its own | JSON-RPC handlers; spawns `push_on_arrival`, the federated inbound task, the `agent/register` re-push task | all of the above |
| queue sweeper and federation watch, `sweeper.rs` | what it found at the start of the pass; `NOTIFIED` | `sweep_once`, `federation_watch_once`, run by one interval task | bus, registry, transport |
| federation, `federation.rs` | peers | `resolve`, `forward` (10 s HTTP call) | outbound sends, inbound sends of peers |
| handshake, `handshake.rs` | invites, dynamic peers | `create_invite`, `consume_invite`, `add` | `peer/invite`, `peer/join`, `peer/accept` |
| event hub, `ws.rs` | subscribers | broadcast of what happened | observers only |
| surface, `openapi.rs`, `lib.rs`, `error.rs` | none | schemas, texts | none |
| start-up, `main.rs` | none | opens the store, registers the seed roster | all |

What is hard here is concurrency and failure around one letter. Up to four kinds of task can have it in hand at once
(arrival, inbound, re-push, sweeper with its watch) while its receiver polls, reads, acks or deletes it. They agree by
one compare-and-set (`mark_pushing`) that only the sweeper takes *before* it pushes; two kinds take it after the
push, and `push_on_arrival` and the watch never. Between two store operations of a task lies an HTTP request of up to
120 s. An A2A timeout counts as a delivery. On sled the letters outlive the process, its tasks and roles do not.
The hazards of the code, each at its line, are in `PROJECT.json`.

What makes each component correct:

* state machine and stores: every status change is a row of the table, also where the code writes the status itself;
  a letter handed over is never taken back; it dies only when its attempts are used up and says why;
* dispatch tasks and sweeper: no receipt for a letter nobody got; a letter in flight comes down; none is forgotten;
  the claim is exclusive as far as the code makes it so;
* registry: nobody overwrites an entry with an older one;
* EventBus: only known agents send and receive, a broadcast reaches everyone or says whom;
* federation: a letter forwarded is stored at most once, and no sender is told of a copy that is not there;
* handshake: an invite is spent once, a pool that entered its inviter is known to it, and a join reported complete has been proven.

## The modules

| module | what it is |
|---|---|
| `LetterState` | the transition table of `state.rs` as a set of rows, `apply` as `Legal` and `Target` |
| `LetterStore` | every store operation as an operator from the stored record to the record written back, for both backends |
| `PushDispatch` | the life of a letter in one pool: one action per handler and per step of each task between two awaits that matter |
| `LetterPromise` | the abstract specification: what the bus promises about a letter, with no task in sight |
| `SledStore` | the durable store under several worker threads: every read and every insert a step of its own |
| `EventBus` | the roster: roles in memory, markers in the store, `send_envelope` and `broadcast` receiver by receiver |
| `Federation` | pools that forward letters to each other over a network that loses and delays |
| `Handshake` | `peer/invite`, `peer/join`, `peer/accept`, `peer/register` between those pools; EXTENDS `Federation` |
| `EventHub` | the WebSocket feed: who emits what and when, the bounded channel, a client's life |
| `RetryWindow` | the arithmetic of the sweeper's backoff, with the theorem about it |
| `MCPushDispatch`, `MCSledStore`, `MCEventBus`, `MCFederation`, `MCHandshake`, `MCEventHub` | model values, topologies and symmetry for TLC |
| `LetterStoreProofs` | lemmas: what each store operation does to a well-typed letter |
| `PushDispatchProofs`, `SledStoreProofs`, `EventBusProofs`, `FederationProofs`, `HandshakeProofs`, `EventHubProofs` | the inductive invariant of each module and its theorems |

`PushDispatch` and `SledStore` EXTEND `LetterStore`, which EXTENDS `LetterState`; so does `EventHub`. `PushDispatch`
instantiates `LetterPromise` through `StageOf` (queued and pushing are *waiting*, delivered and read are *handed*) and shows
that it implements it. `Handshake` composes the handshake with all of `Federation`: while two pools shake hands they keep
sending, taking, registering and restarting, and what the handshake teaches them changes where letters go.

The modules share a system and cut it at different depths. `PushDispatch` has everything about one letter inside a pool and
no roster to speak of; `EventBus` stops where a letter is announced, which is where `PushDispatch` begins; to `Federation` a
letter inside a pool is queued, handed over or deleted; `EventHub` takes any status change that the table allows.

### State and actions against the code

**PushDispatch.** `mail[l]` is the record the store has for a letter id, `roles` is `EventBus::roles`, `registry[a]` the kind of
`deliver_via` in the agent's `AgentEntry`, `task[t]` what a spawned task (or the sweeper) is doing, `restarts` a
counter that bounds restarts, `trace[l]` a history for the properties (how often a copy got out, whether a timeout
was taken for a delivery, whether an arrival task settled another task's claim) that no action reads.
A task is a program counter and the locals it carries over an await:

* `push_on_arrival`: `find` (peek) → `push` → `settle`
* inbound task: `find` → `push` → `claim` → `settle`
* re-push task of `agent/register`: `find` (peek the queue) → `next` → `push` → `claim` → `settle` → `next` …
* `sweep_once`: `reclaim` over the stale letters → `next` → `claim` → `push` → `settle` → `next` …
* `federation_watch_once`: `heal` → `rearm` → `revive` → `find` → `next` → `push` → `receipt` → …

A store operation is one action, as `InMemoryStore` runs it under one lock. So is the part of a handler that makes no
request of its own, such as `message/send` up to its spawn. `Settle` is the `match outcome` all dispatchers share:
`push_succeeded`, `push_failed`, or, for a skipped push, `reclaim_stale_pushing`. None of the three asks who
claimed the letter, and the model keeps it that way.

**SledStore.** `db[l]` is what lies under the letter's key and `call[c]` a call of the store: `Scan` is `update_one` up to
its insert, `Count` is `push` up to its insert, `PollRead` one key of `poll`, `Insert` the insert they share, which
writes the copy whatever the key holds by then, and `Delete` one removal. There is no lock and no compare-and-swap in
the code, and none here; a claim that loses and an outcome that is refused insert their unchanged, perhaps stale, copy too.

**EventBus.** `known` are the agent markers in the store, `roles` the map in memory, `call[c]` a handler between two awaits.
`register` and `unregister` write the store first and the roles later (`Rewrite`, then `SetRole`). A call of kind `cast` is a letter of type
broadcast to one named receiver, which passes the gates whoever that receiver is. `broadcast` fixes its
receivers when it begins, from the store and in the order of their names, and then passes `Check`, `Count` and `Insert` for
each; the first refusal ends it. `Announce` is the spawn of `push_on_arrival`, which the handler does only when the whole
broadcast has succeeded. `tangled` and `crowded` are history: whom two calls (un)registered at once, and whose mailbox two
calls filled at once.

**Federation.** `row[p][l]` is pool p's copy of a letter (a forwarded letter has one in each pool), `send[l]` the call of
`message/send` that made it, with what is under way on the wire; `entry` and `peers` are the two persisted files, `roles` is
not persisted. The outbound path is `SendOut` (register a shadow, store) → `LookUp` (peek, and panic if the letter is
gone) → `Arrive` at the peer, or `Lose` → `Answer` or `GiveUp` after ten seconds. The caller may give up before, while and after the
peer stores the letter. `Resolve` returns every pool that claims the agent; the code takes the first of a list whose order
is that of the configuration, so a step takes any.

**Handshake.** `invite[i]` is one code; `join[j]` one call of `peer/join` with the `peer/accept` it causes: `pc` is where the joiner
is, `acc` where the inviter. `Accept` spends the code and records the joiner, `CallBack` is the inviter's call of
`peer/register`, `WelcomeLetter` the letter it sends, whose failure is ignored, and `Reply` the answer. Each of the four
is an await that the joiner's ten seconds may end. The joiner enters the inviter under the name the answer gives (`Joined`), or, when the
answer cannot be read, as "peer" (`JoinedGarbled`): `DynamicPeers` keeps one entry per name, that one is `nameless`, and it lists no agents.

**EventHub.** `hand[h]` is what a handler or a task has yet to do after it changed the store: a letter to look up, events to emit.
`client[c]` is one WebSocket: subscribed → greeted → streaming, with what the channel holds for it. The channel is kept
as one queue per client, which is what a `tokio::sync::broadcast` looks like from its receivers: a full one drops the oldest and
`lost` says that the next thing to come out is the note. No step of a handler reads `client`: the bus never waits for
observers.

### Abstractions

* Timestamps are flags. Of `created_at` the code asks whether it is `MIN_BACKOFF` ago (`Age` sets it), of
  `last_push_at` whether it is `PUSHING_TIMEOUT_SECS` ago (`Expire` clears it). `Expire` waits for the holder of the claim to be
  gone: the HTTP client gives up after 120 s, before the 150 s are over.
* A failure text is `"auth"` if the code would find 401, 403 or Unauthorized in it, `"error"` if not. The texts carry
  URLs and numbers, so any failure may be either, a stale reclaim included.
* `attempts` saturates at `MaxAttempts`; the only test on it is `>=`.
* A dispatch looks the registry entry up, and the letter arrives or not, in one action; the answer is handled in a
  later one. An A2A entry has a URL. Between the lookup and the request the entry is a copy, and nothing else is read.
* Subjects, bodies, threads, tags, descriptions, the status and archive views and the watch's
  own notice letter are left out everywhere; `PushDispatch` also leaves out senders, but for the registration gate, and events.
* In `PushDispatch` the store operations are atomic on both backends. That is true of `InMemoryStore`. On sled
  `update_one` scans, modifies and inserts without a lock; `SledStore` has those steps apart and shows what is
  then left of the claim. What `PushDispatch` says of `Durable = TRUE` is what holds as long as no two calls on
  one letter overlap; that this is enough is a theorem, `LocksMakeStoreAtomic`.
* A restart keeps every insert made. sled flushes twice a second, so a killed process may lose the last ones.
* In `SledStore` the count of a mailbox is taken in one look, and callers may make any call at any time.
* `EventBus` is over sled: the markers are sorted and outlive the process, and count and insert are two steps. In memory the
  order of `agents()` is that of registration, one lock covers count and insert, and a restart leaves nothing. Each call sends
  at most one letter to an agent, so a letter is named by its call and receiver. A reply without a `ref` is refused before anything happens.
  The letters of `PushDispatch` and `Federation` are of the other types: both ends pass the gates.
* `Federation` pools run without bearer tokens and with a data directory. A push is one step (`Take`). A letter that cannot be pushed is
  claimed, skipped and released by every sweep, for ever; that changes its attempts, which `Federation` does not keep, and its status for a moment
  that no call waits in: letters are swept a minute after they were made, calls end in ten seconds. An
  `ack_only` letter goes over the wire as an ordinary task, as `forward` does not know that type.
* In `Handshake` a callback that times out arrives before the inviter goes on or never. Base64 and JSON are left out but for one
  thing the code does with them: an answer that is no JSON, or cut off, is taken for one without name and agents (`JoinedGarbled`).
* In `EventHub` the events of one poll come in any order. A client's knowledge is a set of letters with statuses; a hello or a heartbeat
  adds those it counts (queued, unread, acked). `list_all` does not fail. Tokens and sessions are left out.
* `RetryWindow` is in whole seconds, as `retry_window` is; a sub-second part of the age changes nothing, as windows are whole.

## The runs

The runs of `PushDispatch` and `SledStore` use one letter; a task is enough trouble for one letter, and letters meet only in the
capacity test, in the order of a queue and in the sweeper's list. (Two letters with two tasks pass 5 million states without an end
in sight, and the proofs hold for any number.) `MaxAttempts` is 2 there, the smallest value at which a failed push may leave a
letter alive or kill it.

| run | instance | what it shows |
|---|---|---|
| `race` | in memory, two tasks and the sweeper, A2A endpoint, credential failures | the hardest interleavings: `HonestReceipt`, `PushingIsHeld`, `OnlyArrivalBreaksClaim`, `DeathIsEarned`, `HandoverIsFinal`, `OutcomesCount` (the outcome of a claim that stands is what becomes of the letter), and that the whole implements `LetterPromise` (`KeepsPromise`) |
| `restart` | durable store, peers configured, one task beside sweeper and watch, remote senders, A2A endpoint, one restart at any moment, under fairness | `FlightEnds`, `NoLetterForgotten`, and `HonestReceipt` and `MovesAlongTable` when the watch re-arms, revives and pushes beside the others |
| `sled_books` | sled, three calls at once on one letter | `BooksAgree`, `DeathNeedsClaims`: what races on sled cannot break |
| `bus` | three agents (a PM, a worker, one that registers itself), three calls at once, one restart | `FanoutIsWhole`: a broadcast that succeeds missed nobody registered when it began; `RolesAreKnown`, `BoxesAreBounded`, `LettersAreAnnounced`: which overlaps break the books, and that no other does |
| `federation` | two pools that each expect the same agent at the other, one letter, two restarts, under fairness | `ForwardedIsStored`, `OneLink`, that no late request queues a letter again that was taken or deleted (`TakenOnce`), and that every sender is answered (`SendersAreAnswered`) |
| `handshake` | two pools, two calls of `peer/join`, one code, one restart | `InviteIsSpentOnce`, `LinkIsMutual`: what lost, unreadable and late answers cannot break |
| `hub` | one letter, two handlers, one client, a channel of two events, under fairness | `NothingSlipsBy`, `ObserversCatchUp` |
| `double_claim` | sled, two calls | violates `ClaimIsExclusive`: two claims of one letter both return `Ok(true)` |
| `double_push` | two tasks | violates `NoDoublePush`: a push of a letter another task has claimed |
| `lying_outcome` | one task | violates `PushedIsDelivered`: an arrival task's success that is not recorded |
| `hijack` | two pools, one call of `peer/join`, one letter | violates `PeersListTheirOwn`: after a handshake a pool takes its own agent to live elsewhere |
| `blind_join` | two pools, one call of `peer/join` | violates `JoinIsProven`: a join reported complete of which the inviter knows nothing |

**Bounds.** `MaxRestarts` bounds restarts; one is enough to lose every task, call and role in any state of the letter; `federation` has two, one for each pool. `Capacity`
is 1 for mailboxes, so that one letter fills one and a second call finds it full or overfills it, and 2 for the channel of `hub`, so
that a client can be behind without having lost anything. `bus` has three calls because
it takes a broadcast, and a registration and an unregistration of one agent under way at once, to tangle it; they differ in nothing but their names (symmetry).
`handshake` makes no letters of its own
(`Sends` is empty) but the welcome letter; two calls of `peer/join` (which differ in their names only: symmetry) with one code are what
single use is about. `hijack` needs the letter that
makes the shadow entry.

`sled_books`, `double_claim`, `bus`, `federation`, `handshake`, `hijack` and `blind_join` do not check for deadlock: when all calls are made and all letters
deleted, nobody has anything to do.

**Fairness.** `FairSpec` of `PushDispatch` is weakly fair to each task (tokio runs every task that is ready, and every await ends: the HTTP
client has a timeout), to the sweeper (its interval timer; the deployment must set
`HOT_POTATO_SWEEP_PERIOD_SECS`, otherwise there is no sweeper and both liveness properties fail), and to time (`Age`,
`Expire`). Senders, recipients, registrations and restarts owe nothing. `NoLetterForgotten` speaks of receivers that stay
registered for push, and its run has no endpoint that answers with a credential failure: with those a letter is retried for ever, on
purpose. (A stale claim released with a reason that reads like one, see `Reason`, does occur, and is what the watch works on there.)
`FairFederationSpec` is weakly fair to each step of a forwarding call, its timeout included, and to
nothing else: requests may be lost for ever, pools may restart. `FairSpec` of `EventHub` is weakly fair to handlers (they run to
their end) and to the stream of a client in `Reading`, one that keeps reading from its socket; `select!` picks at random among its ready branches, so the
heartbeat is not starved. A client outside `Reading` may leave its stream hanging in a send.

## Where code and words differ

* *double_claim.* `store/mod.rs:36` calls `mark_pushing` a CAS. On sled it is a read, a test and an insert; two worker threads
  both read `Queued` and both win.
* *double_push.* `CHANGELOG.md` (1.3.0) says that a dispatcher and the sweeper can no longer double-push the same letter. The
  re-push and inbound tasks push first and claim after, the arrival task does not claim at all, and `dispatch_push` does not look
  at the status. What does hold is weaker: `OnlyArrivalBreaksClaim`, and no late outcome undoes a hand-over.
* *lying_outcome.* `server.rs:163` promises `Pushed -> delivered` for `push_on_arrival`. Its letter is still `Queued`, from
  where `push_ok` is illegal; the store prints a line and leaves it, and the sweeper pushes it again. For the tasks that do
  claim, the sentence is true as long as no arrival task breaks the claim: `OutcomesCount`.
* *hijack.* `federation.rs:42` says that a peer's agents are those "whose home is this pool". `peer/accept` answers with its whole
  registry (`server.rs:1224`), the shadow entries of other pools' agents included. A pool that ever received a letter from the joiner's agent claims
  that agent, and the joiner then forwards the agent's letters there.

* *blind_join.* `server.rs:1171` answers "handshake complete: peer learned, forward path proven by their welcome letter". An answer that
  cannot be read is `unwrap_or_default()`, an acceptance without name and agents: `peer/join` enters a peer "peer" and says so though the
  inviter refused, or died before it recorded anything. The welcome letter's own failure is ignored too (`server.rs:1241`; `WelcomeLost` violates
  the property as well). What does hold is `LinkIsMutual`, about entries that letters are forwarded by.

More, seen while modelling; each is a step of a model but no run is spent on it:

* `state.rs:127` counts failed push attempts; the code counts claims, also those released after a skip, so a letter that was
  swept `MAX_ATTEMPTS` times without a push dies of its first failed one.
* `sweeper.rs:99` paces retries "1m → 2m → … → 32m". `retry_window(age)` never exceeds an age of a minute or more, so the gate opens once
  and for good (`GateOpensOnce`): retries come with every sweep.
* `server.rs:849` promises never to announce a letter under a made-up id. If the letter was claimed, polled or deleted before the
  handler's peek, `server.rs:857` does just that (`LookUp` of `EventHub`).
* `ws.rs:3` promises an event per transition. Copies of a broadcast, outbound letters, deaths and `message/delete_all` have
  none, and a refused receipt is emitted as `delivered` all the same, as `push_succeeded` returns the letter it did not move:
  that is every success of `push_on_arrival`.
* `docs/fleet-delivery-environment-registry.md:41` speaks of a retry queue for peers; a letter whose forward failed stays queued for a shadow
  agent and is never forwarded again.
* On the in-memory backend a refused give-up writes `dead_reason` on a letter that is not dead (`memory.rs:435`). `DeathIsEarned` bounds it: such a
  letter is delivered, read or acked, never one that is still to be pushed.

## What is proved

About `PushDispatch` and the table:

For every set of letters, agents, tasks, endpoint kinds and results, every `MaxAttempts >= 1`, any capacity and any number of
restarts. Assumptions: those on the constants in `LetterStore` and `PushDispatch`, no others.

| theorem | says |
|---|---|
| `TypeCorrect` | `[]TypeOK` |
| `ReceiptsAreHonest` | `[]HonestReceipt` |
| `DeathsAreEarned` | `[]DeathIsEarned` |
| `HandoversAreFinal` | `HandoverIsFinal` |
| `StatusMovesAlongTable` | `MovesAlongTable` |
| `FlightsAreHeld` | `[]PushingIsHeld` |
| `ClaimsAreExclusive` | `[]OnlyArrivalBreaksClaim` |
| `OutcomesTakeEffect` | `OutcomesCount` |
| `PromiseIsKept` | `KeepsPromise`: `PushDispatch` implements `LetterPromise` |
| `TableIsAFunction` | no two rows of the table share status and event, so the order in which `apply` scans it is immaterial |

The invariant is `Inv == TypeOK /\ TasksOK /\ \A l : LetterOK(l)`. `LetterOK` collects the claims about a letter.
`HonestReceipt` is not inductive without `TasksOK`: an outcome `"ok"` sits in a task's locals between push and
settle, and only `HasSuccess(t) => Reached(cur)` says that it is about a letter that got out.
The argument is split in two. `EveryStepIsGood`, one lemma per action, shows that each step maps every letter by one of
the store's operators under its guard (`LetterMove`), keeps the types, never forgets a copy and keeps `TasksOK`. `MoveKeeps`
then shows, operator by operator and without a task in sight, that a `LetterMove` keeps `LetterOK`. `HandoverIsFinal` and
`MovesAlongTable` follow from the same `LetterMove`.

*Claims.* `PushingIsHeld` and `OnlyArrivalBreaksClaim` say nothing of the sweeper that is about to release a letter as stale, nor of
where a held letter may be; the second is not inductive without that. `ClaimInv` adds, for each letter that no arrival task
interfered with (`ClaimSound`): what is held is in flight and not stale, or deleted; it has one holder; what the sweeper has listed
as stale is held by nobody and off the shelf, so that nobody can claim it again before it is released. `TasksFit` says which
kinds of task get to which program point, and that their letters were posted. Every action but two is *calm* (`Calm`): no
claim is taken, only a restart drops one, and nothing takes off. `CalmKeeps` shows once that a calm step keeps the invariant of a
letter; the two others, a claim won and an outcome recorded, have a lemma each (`ClaimWonKeeps`, `SettleKeeps`). That a claim turns stale only
when its task is gone is a guard of `Expire`, from the two timeouts of the code; if a push could take longer than 150 s, the invariant would fail there.
`OutcomesCount` needs this invariant and that only its own `Settle` takes a task out of *settle* (`LeavingSettles`).

*Refinement.* `LetterPromise` sees of a letter only `StageOf(status)` and whether a copy got out. Every step but `Poll`, a deletion and a push
touches one letter at most and lets no copy out (`TouchesOne`), and `KeptIsStageOK` reads the step of the promise off what is known of
the status change: `Confirm` is enabled because of `HonestReceipt`, and *dead* has no way back because of `DeathIsEarned`. `Poll` is one `Fetch` of
several letters, a deletion one `Discard`, and a push is a `Reach` of a letter that was posted (`TasksFit`).

About the other modules, each for every value of its constants that its named assumptions allow (which are those on
types and bounds):

| module | theorems |
|---|---|
| `SledStoreProofs` | `SledTypeCorrect`, `BooksSurviveRaces` (`[]BooksAgree`), `DeathsTakeClaims` (`[]DeathNeedsClaims`), `LocksMakeStoreAtomic`, `LocksMakeClaimsExclusive` |
| `EventBusProofs` | `BusTypeCorrect`, `BroadcastsReachAll`, `RolesHaveMarkers`, `MailboxesAreBounded`, `CopiesAreAnnounced` |
| `FederationProofs` | `FederationTypeCorrect`, `ForwardedLettersAreStored`, `LettersCrossOneLink`, `LettersAreTakenOnce` |
| `HandshakeProofs` | `HandshakeTypeCorrect`, `InvitesAreSpentOnce`, `LinksAreMutual`, `LettersSurviveHandshakes`, `HandshakesKeepTakenOnce` (what `Federation` promises, with peers that come and go) |
| `EventHubProofs` | `HubTypeCorrect`, `FeedsAreWhole` (`[]NothingSlipsBy`) |
| `RetryWindow` | `GateOpensOnce` |

* `SledStore`: a stale insert brings an old record back, so an invariant of the database alone is not inductive;
  `IInv` asks the same of every copy a call has in hand (`CallOK`), with one claim in advance for a call that will return
  `Ok(true)`. `UpdatedIsSound` shows that each closure keeps it.
* The same module also says what the code lacks. `LockedSpec` has the behaviours of `SledStore` that a lock per letter, held from the read to
  the insert, would leave; the code has no such lock. Under it every change of the database is one store operation applied to what lies there
  (`AtomicStore`), a deleted letter stays deleted, and `ClaimIsExclusive`, which `double_claim` refutes, holds. Calls on different letters still
  overlap, and a poll locks one letter at a time. `LockInv` says that the copy in hand is what its operation makes of the record as it is *now* (`Made`).
* `EventBus`: `FanoutIsWhole` speaks of finished broadcasts only. `AudienceOK` says for one under way that whoever is to hear it has a letter or
  is still on its list. `RolesAreKnown` needs `MarkerOK`, about roles not yet written, and `BoxesAreBounded` needs to know of the
  one call between count and insert for whom there is room (`BoxOK`).
* `Federation`: `FInv` ties a letter's rows to its call: a row one link away is at the call's peer, and there is a row there as soon as the wire
  says *stored*. That the inbound path never forwards is what bounds the links, whatever the pools expect of each other.
  `TakenOnce` needs one more thing: until its request has arrived, the peer has no copy of a letter (`RequestOK`). A call dials once,
  so an arrival is never a second one. A pool that `HOT_POTATO_PEERS` makes its own peer forwards a letter into the mailbox it came from;
  the promise leaves such a call out.
* `Handshake`: `HInv` is `FInv` and, for each attempt (`AttemptOK`), what the inviter must already know of the joiner at each stage of the
  answer; entries are overwritten and never removed, which keeps a link mutual. A garbled answer touches `nameless` only, from which nothing is forwarded.
* `EventHub`: `NothingSlipsBy` is nearly inductive; `HandsOK` adds that a handler with a letter to look up has nothing to emit, so that
  looking up loses no event.

Only model-checked: the liveness properties `FlightEnds`, `NoLetterForgotten`, `SendersAreAnswered` and `ObserversCatchUp`, since fairness is not
within the prover's reach. Every invariant and action property of a passing run is also a theorem.

## Plan

| what | properties | proofs |
|---|---|---|
| the watch's notice letter and `NOTIFIED` in `PushDispatch` | an incident is reported once, or never if patricia is unknown | |
| registry entries over restarts: `Welcome` over a rehydrated push entry | an entry is not replaced by a poorer one, where that holds | |
| `thread_root_id` of `message.rs` with its hop limit, `mark_dead` of the stores | a thread walk ends; against a reference definition | the walk's bound |

## Not modelled

* The HTTP surface (`openapi.rs`, `lib.rs`, `error.rs`, the dashboard and its sessions, `/log` and the list views): no state of its own.
* Bearer tokens and sessions: they decide who may call, and nothing in the models depends on the caller.
* Base64, JSON, formatting of letters for a transport, and the texts of errors beyond what `is_auth_error` looks for.
* `diagnose_peer` and the probes of `peer/diagnose`: they read and report.
* Torn writes of `registry.json` and `peers.json`, and writes sled has not flushed when the process is killed.
