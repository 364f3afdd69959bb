------------------------------ MODULE Federation ------------------------------
(***************************************************************************)
(* Pools of hot-potato connected bus to bus: a letter for an agent that a  *)
(* peer pool claims is stored at home and forwarded over HTTP, once, while *)
(* its sender waits for the answer.  Requests and answers may get lost,    *)
(* the caller gives up after ten seconds whatever became of its request,   *)
(* and a pool may restart.                                                 *)
(*                                                                         *)
(* The pools run without a bearer token and with a data directory, so      *)
(* letters, push registry and learned peers outlive the process and its    *)
(* role table does not.  What happens to a letter inside one pool is the   *)
(* subject of PushDispatch; here a queued letter is taken by its receiver, *)
(* by a push or by a poll, or it is deleted.  The sweeper, pass by pass and *)
(* without an end, claims a letter it has nobody to push to and puts it    *)
(* back: none of what is kept here changes.                                *)
(***************************************************************************)
EXTENDS Naturals, FiniteSets

CONSTANTS Pools,        \* the buses
          Agents,       \* agents on any of them
          Home,         \* the pool where each agent registers itself
          Seed,         \* agents main.rs registers on every pool
          EnvPeers,     \* HOT_POTATO_PEERS: whom each pool expects where
          Letters,      \* letter ids
          Sends,        \* those of calls of message/send, one for each call
          MaxRestarts   \* bound on the restarts of all pools together

MaxHops == 2

ASSUME PoolsAssumption == Pools # {} /\ Agents # {}
ASSUME HomeAssumption == Home \in [Agents -> Pools]
ASSUME SeedRosterAssumption == Seed \subseteq Agents
ASSUME SendsAssumption == Sends \subseteq Letters
ASSUME EnvPeersAssumption == EnvPeers \in [Pools -> [Pools -> SUBSET Agents]]
ASSUME FederationBoundsAssumption == MaxRestarts \in Nat

VARIABLES roles,     \* agents in each pool's EventBus::roles
          entry,     \* each pool's push registry: whose entry is it
          peers,     \* DynamicPeers of each pool
          row,       \* each pool's copy of each letter
          send,      \* the call of message/send that made the letter
          restarts

fedVars == <<roles, entry, peers, row, send, restarts>>
-----------------------------------------------------------------------------
(* entry   "own" was put there by agent/register, "shadow" by the pool      *)
(*         itself for an agent of a peer, always with deliver_via poll      *)
(* peers   how the pool last learned of a peer, and whose home it takes     *)
(*         that peer to be                                                  *)
(* row     the stored letter: is it there, how many links did it cross      *)
(* send    where the call is.  pc: stored (about to look its letter up),    *)
(*         dialing (waiting for the peer), done, failed, panicked, died,    *)
(*         local (there was no peer to ask), unwatched (a welcome letter).  *)
(*         wire: what is under way                                          *)
PeerEntry == [by : {"none", "accept", "register", "join"}, agents : SUBSET Agents]

Row == [at : {"none", "queued", "handed", "deleted"}, hops : 0..MaxHops]

Call == [pool : Pools, peer : Pools, sender : Agents, receiver : Agents,
         pc : {"unused", "stored", "dialing", "done", "failed", "panicked",
               "died", "local", "unwatched"},
         wire : {"none", "request", "stored", "refused"}]

FederationTypes ==
  /\ roles \in [Pools -> SUBSET Agents]
  /\ entry \in [Pools -> [Agents -> {"none", "own", "shadow"}]]
  /\ peers \in [Pools -> [Pools -> PeerEntry]]
  /\ row \in [Pools -> [Letters -> Row]]
  /\ send \in [Letters -> Call]
  /\ restarts \in 0..MaxRestarts

(* Types, and what is under way was sent by a call that found its letter    *)
(* (server.rs:819): a call that panicked has sent nothing.                  *)
FederationTypeOK ==
  /\ FederationTypes
  /\ \A l \in Letters :
       send[l].wire # "none" => send[l].pc \in {"dialing", "failed", "died"}

NoPeer  == [by |-> "none", agents |-> {}]
NoRow   == [at |-> "none", hops |-> 0]
Queued(hops) == [at |-> "queued", hops |-> hops]

AnyPool  == CHOOSE p \in Pools : TRUE
AnyAgent == CHOOSE a \in Agents : TRUE

Unused == [pool |-> AnyPool, peer |-> AnyPool, sender |-> AnyAgent,
           receiver |-> AnyAgent, pc |-> "unused", wire |-> "none"]

FederationInit ==
  /\ roles = [p \in Pools |-> Seed]
  /\ entry = [p \in Pools |-> [a \in Agents |-> "none"]]
  /\ peers = [p \in Pools |-> [q \in Pools |-> NoPeer]]
  /\ row = [p \in Pools |-> [l \in Letters |-> NoRow]]
  /\ send = [l \in Letters |-> Unused]
  /\ restarts = 0
-----------------------------------------------------------------------------
(* Who is at home where, as far as pool p knows: peers of the environment   *)
(* go before peers learned by a handshake.                                  *)
Resolve(p, a) ==
  LET env == {q \in Pools : a \in EnvPeers[p][q]}
  IN IF env # {} THEN env ELSE {q \in Pools : a \in peers[p][q].agents}

(* An agent of a peer that p has no role for becomes a poll agent of p,     *)
(* whatever entry it had.                                                   *)
Meet(p, a) ==
  IF a \in roles[p]
  THEN UNCHANGED <<roles, entry>>
  ELSE /\ roles' = [roles EXCEPT ![p] = @ \cup {a}]
       /\ entry' = [entry EXCEPT ![p][a] = "shadow"]

Fresh(l) == send[l].pc = "unused" /\ \A p \in Pools : row[p][l].at = "none"
-----------------------------------------------------------------------------
(* agent/register and agent/unregister, at any pool: an agent registers at  *)
(* home, an operator may drop it anywhere.                                  *)
Register(a) ==
  /\ entry' = [entry EXCEPT ![Home[a]][a] = "own"]
  /\ roles' = [roles EXCEPT ![Home[a]] = @ \cup {a}]
  /\ UNCHANGED <<peers, row, send, restarts>>

Unregister(p, a) ==
  /\ a \in roles[p] \/ entry[p][a] # "none"
  /\ entry' = [entry EXCEPT ![p][a] = "none"]
  /\ roles' = [roles EXCEPT ![p] = @ \ {a}]
  /\ UNCHANGED <<peers, row, send, restarts>>

(* message/send to an agent no peer claims. *)
SendLocal(p, l, s, r) ==
  /\ l \in Sends /\ Fresh(l)
  /\ Resolve(p, r) = {}
  /\ {s, r} \subseteq roles[p]
  /\ row' = [row EXCEPT ![p][l] = Queued(0)]
  /\ send' = [send EXCEPT ![l] = [pool |-> p, peer |-> p, sender |-> s,
                                  receiver |-> r, pc |-> "local", wire |-> "none"]]
  /\ UNCHANGED <<roles, entry, peers, restarts>>

(* message/send to an agent of peer q: the receiver is made known, then the *)
(* letter is stored.                                                        *)
SendOut(p, l, s, r, q) ==
  /\ l \in Sends /\ Fresh(l)
  /\ q \in Resolve(p, r)
  /\ Meet(p, r)
  /\ s \in roles'[p]
  /\ row' = [row EXCEPT ![p][l] = Queued(0)]
  /\ send' = [send EXCEPT ![l] = [pool |-> p, peer |-> q, sender |-> s,
                                  receiver |-> r, pc |-> "stored", wire |-> "none"]]
  /\ UNCHANGED <<peers, restarts>>

(* An unknown sender is refused, but the receiver stays known. *)
SendOutRefused(p, s, r) ==
  /\ Resolve(p, r) # {}
  /\ r \notin roles[p]
  /\ s \notin roles[p] \cup {r}
  /\ Meet(p, r)
  /\ UNCHANGED <<peers, row, send, restarts>>

(* The letter just stored is looked up among the queued ones, and the       *)
(* handler panics unless it is there; forward refuses a letter that crossed *)
(* MaxHops links, and dials.                                                *)
LookUpLate_Mutant(l) ==             \* dials, then looks for its letter
  LET c == send[l]
      found == c.receiver \in roles[c.pool] /\ row[c.pool][l].at = "queued"
      looping == row[c.pool][l].hops >= MaxHops
  IN /\ c.pc = "stored"
     /\ send' = [send EXCEPT ![l].wire = "request",
                    ![l].pc = IF ~found THEN "panicked"
                              ELSE IF looping THEN "failed" ELSE "dialing"]
     /\ UNCHANGED <<roles, entry, peers, row, restarts>>
LookUp(l) ==
  LET c == send[l]
      found == c.receiver \in roles[c.pool] /\ row[c.pool][l].at = "queued"
      looping == row[c.pool][l].hops >= MaxHops
  IN /\ c.pc = "stored"
     /\ send' = IF found /\ ~looping
                THEN [send EXCEPT ![l].pc = "dialing", ![l].wire = "request"]
                ELSE [send EXCEPT ![l].pc = IF found THEN "failed" ELSE "panicked"]
     /\ UNCHANGED <<roles, entry, peers, row, restarts>>

(* message/send with the header of the peer, at pool q: its sender is made  *)
(* known, the receiver has to be known, and the copy is stored under an id  *)
(* of its own.  Inbound letters are never forwarded.                        *)
Accepted(q, r, hops) == hops <= MaxHops /\ r \in roles'[q]

Inbound(q, l, s, r, hops) ==
  /\ IF hops <= MaxHops THEN Meet(q, s) ELSE UNCHANGED <<roles, entry>>
  /\ row' = IF Accepted(q, r, hops)
            THEN [row EXCEPT ![q][l] = Queued(hops)] ELSE row

ArriveRelay_Mutant(l) ==            \* inbound letters are forwarded on
  LET c == send[l]
      hops == row[c.pool][l].hops + 1
      next == Resolve(c.peer, c.receiver)
  IN /\ c.wire = "request"
     /\ Inbound(c.peer, l, c.sender, c.receiver, hops)
     /\ send' = IF next # {} /\ Accepted(c.peer, c.receiver, hops)
                THEN [send EXCEPT ![l].pool = c.peer, ![l].peer = CHOOSE q \in next : TRUE]
                ELSE [send EXCEPT ![l].wire =
                        IF Accepted(c.peer, c.receiver, hops) THEN "stored" ELSE "refused"]
     /\ UNCHANGED <<peers, restarts>>
Arrive(l) ==
  LET c == send[l]
      hops == row[c.pool][l].hops + 1
  IN /\ c.wire = "request"
     /\ Inbound(c.peer, l, c.sender, c.receiver, hops)
     /\ send' = [send EXCEPT ![l].wire =
                   IF Accepted(c.peer, c.receiver, hops) THEN "stored" ELSE "refused"]
     /\ UNCHANGED <<peers, restarts>>

(* The answer: mark_delivered if the peer has the letter; an error leaves   *)
(* it queued.                                                               *)
AnswerBlind_Mutant(l) ==            \* the error object is not looked at
  LET c == send[l] IN
  /\ c.pc = "dialing"
  /\ c.wire \in {"stored", "refused"}
  /\ send' = [send EXCEPT ![l].wire = "none", ![l].pc = "done"]
  /\ row' = [row EXCEPT ![c.pool][l].at =
               IF @ = "queued" /\ c.receiver \in roles[c.pool] THEN "handed" ELSE @]
  /\ UNCHANGED <<roles, entry, peers, restarts>>
Answer(l) ==
  LET c == send[l] IN
  /\ c.pc = "dialing"
  /\ c.wire \in {"stored", "refused"}
  /\ send' = [send EXCEPT ![l].wire = "none",
                          ![l].pc = IF c.wire = "stored" THEN "done" ELSE "failed"]
  /\ row' = [row EXCEPT ![c.pool][l].at =
               IF c.wire = "stored" /\ @ = "queued" /\ c.receiver \in roles[c.pool]
               THEN "handed" ELSE @]
  /\ UNCHANGED <<roles, entry, peers, restarts>>

(* The caller's ten seconds are over, or its connection is.  The request    *)
(* may still be on its way.                                                 *)
GiveUpOnReset_Mutant(l) ==          \* no timeout on the request
  /\ send[l].pc = "dialing"
  /\ send[l].wire # "none"
  /\ send' = [send EXCEPT ![l].pc = "failed"]
  /\ UNCHANGED <<roles, entry, peers, row, restarts>>
GiveUpRetries_Mutant(l) ==          \* after the timeout it dials once more
  /\ send[l].pc = "dialing"
  /\ send' = [send EXCEPT ![l].wire = "request"]
  /\ UNCHANGED <<roles, entry, peers, row, restarts>>
GiveUp(l) ==
  /\ send[l].pc = "dialing"
  /\ send' = [send EXCEPT ![l].pc = "failed"]
  /\ UNCHANGED <<roles, entry, peers, row, restarts>>

Lose(l) ==
  /\ send[l].wire # "none"
  /\ send' = [send EXCEPT ![l].wire = "none"]
  /\ UNCHANGED <<roles, entry, peers, row, restarts>>
-----------------------------------------------------------------------------
(* A registered receiver polls, or its letter is pushed. *)
Take(p, l) ==
  /\ row[p][l].at = "queued"
  /\ send[l].receiver \in roles[p]
  /\ row' = [row EXCEPT ![p][l].at = "handed"]
  /\ UNCHANGED <<roles, entry, peers, send, restarts>>

Delete(p, l) ==
  /\ row[p][l].at \in {"queued", "handed"}
  /\ row' = [row EXCEPT ![p][l].at = "deleted"]
  /\ UNCHANGED <<roles, entry, peers, send, restarts>>

(* The calls of the process die with it, what it has sent does not. *)
Restart(p) ==
  /\ restarts < MaxRestarts
  /\ restarts' = restarts + 1
  /\ roles' = [roles EXCEPT ![p] = Seed]
  /\ send' = [l \in Letters |->
                IF send[l].pool = p /\ send[l].pc \in {"stored", "dialing"}
                THEN [send[l] EXCEPT !.pc = "died"] ELSE send[l]]
  /\ UNCHANGED <<entry, peers, row>>
-----------------------------------------------------------------------------
Senders == \E p \in Pools, l \in Letters, s, r \in Agents :
             \/ SendLocal(p, l, s, r)
             \/ \E q \in Pools : SendOut(p, l, s, r, q)
             \/ SendOutRefused(p, s, r)

Forwarding == \E l \in Letters :
                \/ LookUp(l) \/ Arrive(l) \/ Answer(l) \/ GiveUp(l) \/ Lose(l)

Mailboxes == \E p \in Pools, l \in Letters :
               Take(p, l) \/ Delete(p, l)

Rosters == \/ \E a \in Agents : Register(a)
           \/ \E p \in Pools, a \in Agents : Unregister(p, a)

Traffic == Senders \/ Forwarding \/ Mailboxes \/ Rosters

FederationNext == Traffic \/ \E p \in Pools : Restart(p)

FederationSpec == FederationInit /\ [][FederationNext]_fedVars

(* Every await of a handler ends. *)
ForwardingFairness ==
  \A l \in Letters :
    /\ WF_fedVars(LookUp(l)) /\ WF_fedVars(GiveUp(l))
    /\ WF_fedVars(Arrive(l)) /\ WF_fedVars(Answer(l))

FairFederationSpec == FederationSpec /\ ForwardingFairness
-----------------------------------------------------------------------------
(* What a sender is told: once its call has ended with "forwarded", the     *)
(* peer has, or had, the letter, whatever got lost, timed out, restarted or *)
(* was deleted meanwhile.                                                   *)
ForwardedIsStored ==
  \A l \in Letters : send[l].pc = "done" => row[send[l].peer][l].at # "none"

(* Loop safety: a letter never crosses a second link, and never lies in     *)
(* more than two pools, even when two pools claim the same agent of each    *)
(* other.                                                                   *)
OneLink ==
  \A l \in Letters :
    /\ \A p \in Pools : row[p][l].hops <= 1
    /\ \A p, q \in Pools : row[p][l].hops = 1 /\ row[q][l].hops = 1 => p = q

(* At most once: what was taken from a pool's mailbox, or deleted, is never *)
(* queued there again, however late the request or its answer come.  Where  *)
(* a pool is told to be its own peer the letter is forwarded to the mailbox *)
(* it came from, and the promise is not made.                               *)
TakenOnce ==
  [][\A p \in Pools, l \in Letters :
       /\ send[l].peer # send[l].pool
       /\ row[p][l].at \in {"handed", "deleted"}
       => row'[p][l].at \in {"handed", "deleted"}]_fedVars

(* No sender waits for ever: message/send to a peer ends, whatever the peer *)
(* and the network do.                                                      *)
SendersAreAnswered ==
  \A l \in Letters :
    send[l].pc \in {"stored", "dialing"} ~> send[l].pc \notin {"stored", "dialing"}
=============================================================================
