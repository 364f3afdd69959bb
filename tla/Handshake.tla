------------------------------- MODULE Handshake -------------------------------
(***************************************************************************)
(* Two pools become peers: the inviter makes a code, the joiner presents   *)
(* it in peer/join, the inviter's peer/accept spends it, records the       *)
(* joiner, calls back peer/register, sends a welcome letter and answers,   *)
(* and the joiner records the inviter.  All of this goes on beside the     *)
(* traffic of Federation and changes whom the pools take to be where.      *)
(*                                                                         *)
(* Every message may get lost, the joiner gives up after ten seconds       *)
(* while the inviter may still be calling it, and both may restart:        *)
(* learned peers are kept in peers.json, invites are not kept.             *)
(***************************************************************************)
EXTENDS Federation

CONSTANTS Invites,   \* invite codes
          Joins,     \* one id for each call of peer/join
          Host       \* sender of welcome letters, the agent "sho"

ASSUME HostAssumption == Host \in Agents
ASSUME InvitesAssumption == Invites # {}

VARIABLES invite,    \* the invites of all pools
          join,      \* the calls of peer/join, each with its peer/accept
          nameless   \* whose address is in each pool's entry "peer"

shakeVars == <<invite, join, nameless>>
vars == <<roles, entry, peers, row, send, restarts, invite, join, nameless>>
-----------------------------------------------------------------------------
(* join   pc is where the joiner is, acc where the inviter is with it:      *)
(*   request   the code is on its way                                       *)
(*   recorded  spent, the joiner is a peer, about to call peer/register     *)
(*   called    about to send the welcome letter                             *)
(*   welcomed  about to answer                                              *)
(*   ok, no    the answer is on its way, with the inviter's agents          *)
(*   lost      request, answer or handler are gone                          *)
(* accepted is history: did this call spend the code?                       *)
(* nameless: DynamicPeers keeps one entry for each name, and an inviter     *)
(* whose answer could not be read is entered as "peer", at home to nobody.  *)
(* Resolve never finds that entry.                                          *)
Invite == [owner : Pools, st : {"none", "live", "used", "gone"}]

Attempt == [pool : Pools, code : Invites, agents : SUBSET Agents,
            pc : {"idle", "waiting", "joined", "failed"},
            acc : {"none", "request", "recorded", "called", "welcomed", "ok",
                   "no", "lost"},
            accepted : BOOLEAN]

(* Types, and an inviter goes on with no call but the one that spent the    *)
(* code (server.rs:1200): whoever is entered, called back and answered has  *)
(* used one up.                                                             *)
TypeOK ==
  /\ FederationTypeOK
  /\ invite \in [Invites -> Invite]
  /\ join \in [Joins -> Attempt]
  /\ nameless \in [Pools -> SUBSET Pools]
  /\ \A j \in Joins :
       /\ join[j].acc \in {"recorded", "called", "welcomed", "ok"} => join[j].accepted
       /\ join[j].accepted => invite[join[j].code].st = "used"

Init ==
  /\ FederationInit
  /\ invite = [i \in Invites |-> [owner |-> AnyPool, st |-> "none"]]
  /\ join = [j \in Joins |-> [pool |-> AnyPool, code |-> CHOOSE i \in Invites : TRUE,
                              agents |-> {}, pc |-> "idle", acc |-> "none",
                              accepted |-> FALSE]]
  /\ nameless = [p \in Pools |-> {}]

Inviter(j) == invite[join[j].code].owner

(* The registry as peer/accept reports it: entries, not roles. *)
Announced(p) == {a \in Agents : entry[p][a] # "none"}

AtHome(p) == {a \in Agents : Home[a] = p}

(* DynamicPeers::add replaces the entry of that name. *)
Learn(p, q, by, agents) ==
  peers' = [peers EXCEPT ![p][q] = [by |-> by, agents |-> agents]]

(* peer/register of pool q at pool p refuses an empty list of agents. *)
RegisterPeer(p, q, agents) ==
  IF agents = {} THEN UNCHANGED peers ELSE Learn(p, q, "register", agents)

(* consume_invite: known, not used, not expired. *)
Consumable(i) == invite[i].st = "live"
-----------------------------------------------------------------------------
CreateInvite(p, i) ==
  /\ invite[i].st = "none"
  /\ invite' = [invite EXCEPT ![i] = [owner |-> p, st |-> "live"]]
  /\ UNCHANGED <<fedVars, join, nameless>>

(* Ten minutes. *)
Expire(i) ==
  /\ invite[i].st = "live"
  /\ invite' = [invite EXCEPT ![i].st = "gone"]
  /\ UNCHANGED <<fedVars, join, nameless>>

(* peer/join at pool p with a code some other pool gave out.  The operator  *)
(* lists the agents of p.                                                   *)
PresentTrusting_Mutant(j, p, i) ==  \* the inviter is recorded before it accepts
  /\ join[j].pc = "idle"
  /\ invite[i].st # "none" /\ invite[i].owner # p
  /\ AtHome(p) # {}
  /\ join' = [join EXCEPT ![j].pool = p, ![j].code = i, ![j].pc = "waiting",
                          ![j].acc = "request"]
  /\ Learn(p, invite[i].owner, "join", {})
  /\ UNCHANGED <<roles, entry, row, send, restarts, invite, nameless>>
Present(j, p, i) ==
  /\ join[j].pc = "idle"
  /\ invite[i].st # "none" /\ invite[i].owner # p
  /\ AtHome(p) # {}
  /\ join' = [join EXCEPT ![j].pool = p, ![j].code = i, ![j].pc = "waiting",
                          ![j].acc = "request"]
  /\ UNCHANGED <<fedVars, invite, nameless>>

(* peer/accept: consume_invite, then the joiner becomes a peer. *)
AcceptBlind_Mutant(j) ==            \* consume_invite's verdict is not looked at
  /\ join[j].acc = "request"
  /\ invite' = [invite EXCEPT ![join[j].code].st =
                  IF Consumable(join[j].code) THEN "used" ELSE @]
  /\ join' = [join EXCEPT ![j].acc = "recorded",
                          ![j].accepted = Consumable(join[j].code)]
  /\ Learn(Inviter(j), join[j].pool, "accept", AtHome(join[j].pool))
  /\ UNCHANGED <<roles, entry, row, send, restarts, nameless>>
AcceptTwice_Mutant(j) ==            \* the code is tested and never spent
  /\ join[j].acc = "request"
  /\ IF Consumable(join[j].code)
     THEN /\ join' = [join EXCEPT ![j].acc = "recorded", ![j].accepted = TRUE]
          /\ Learn(Inviter(j), join[j].pool, "accept", AtHome(join[j].pool))
     ELSE /\ join' = [join EXCEPT ![j].acc = "no"]
          /\ UNCHANGED peers
  /\ UNCHANGED <<roles, entry, row, send, restarts, invite, nameless>>
Accept(j) ==
  /\ join[j].acc = "request"
  /\ IF Consumable(join[j].code)
     THEN /\ invite' = [invite EXCEPT ![join[j].code].st = "used"]
          /\ join' = [join EXCEPT ![j].acc = "recorded", ![j].accepted = TRUE]
          /\ Learn(Inviter(j), join[j].pool, "accept", AtHome(join[j].pool))
     ELSE /\ join' = [join EXCEPT ![j].acc = "no"]
          /\ UNCHANGED <<invite, peers>>
  /\ UNCHANGED <<roles, entry, row, send, restarts, nameless>>

(* ... dials back peer/register.  Whether it got there is not looked at. *)
CallBack(j, arrives) ==
  /\ join[j].acc = "recorded"
  /\ join' = [join EXCEPT ![j].acc = "called"]
  /\ IF arrives
     THEN RegisterPeer(join[j].pool, Inviter(j), Announced(Inviter(j)))
     ELSE UNCHANGED peers
  /\ UNCHANGED <<roles, entry, row, send, restarts, invite, nameless>>

(* ... and sends a letter to the first agent on the joiner's list, by hand: *)
(* the inviter keeps no copy, and again nobody looks at the answer.         *)
WelcomeLetter(j, l, r) ==
  /\ join[j].acc = "called"
  /\ Fresh(l)
  /\ r \in AtHome(join[j].pool)
  /\ join' = [join EXCEPT ![j].acc = "welcomed"]
  /\ Inbound(join[j].pool, l, Host, r, 1)
  /\ send' = [send EXCEPT ![l] = [pool |-> Inviter(j), peer |-> join[j].pool,
                                  sender |-> Host, receiver |-> r,
                                  pc |-> "unwatched", wire |-> "none"]]
  /\ UNCHANGED <<peers, restarts, invite, nameless>>

WelcomeLost(j) ==
  /\ join[j].acc = "called"
  /\ join' = [join EXCEPT ![j].acc = "welcomed"]
  /\ UNCHANGED <<fedVars, invite, nameless>>

Reply(j) ==
  /\ join[j].acc = "welcomed"
  /\ join' = [join EXCEPT ![j].acc = "ok", ![j].agents = Announced(Inviter(j))]
  /\ UNCHANGED <<fedVars, invite, nameless>>

(* The joiner's side of the answer. *)
Joined(j) ==
  /\ join[j].pc = "waiting"
  /\ join[j].acc = "ok"
  /\ join' = [join EXCEPT ![j].pc = "joined", ![j].acc = "lost"]
  /\ Learn(join[j].pool, Inviter(j), "join", join[j].agents)
  /\ UNCHANGED <<roles, entry, row, send, restarts, invite, nameless>>

(* A 200 whose body is cut off, or is no JSON because something else now    *)
(* answers at that address, counts as an answer without name and agents:    *)
(* whether it was accepted, refused or never heard of, the joiner enters    *)
(* the inviter as "peer" and reports the handshake complete.                *)
JoinedGarbled(j) ==
  /\ join[j].pc = "waiting"
  /\ join[j].acc \in {"ok", "no", "lost"}
  /\ join' = [join EXCEPT ![j].pc = "joined", ![j].acc = "lost"]
  /\ nameless' = [nameless EXCEPT ![join[j].pool] = {Inviter(j)}]
  /\ UNCHANGED <<fedVars, invite>>

JoinFails(j) ==
  /\ join[j].pc = "waiting"
  /\ join' = [join EXCEPT ![j].pc = "failed"]
  /\ UNCHANGED <<fedVars, invite, nameless>>

(* Request or answer get lost, or the connection breaks and the inviter's   *)
(* handler with it.                                                         *)
Drop(j) ==
  /\ join[j].acc \notin {"none", "lost"}
  /\ join' = [join EXCEPT ![j].acc = "lost"]
  /\ UNCHANGED <<fedVars, invite, nameless>>

(* A restart forgets invites and kills the handlers on both sides. *)
Reboot(p) ==
  /\ Restart(p)
  /\ invite' = [i \in Invites |->
                  IF invite[i].owner = p /\ invite[i].st = "live"
                  THEN [invite[i] EXCEPT !.st = "gone"] ELSE invite[i]]
  /\ join' = [j \in Joins |->
       [join[j] EXCEPT
          !.pc = IF @ = "waiting" /\ join[j].pool = p THEN "failed" ELSE @,
          !.acc = IF @ \in {"recorded", "called", "welcomed"} /\ Inviter(j) = p
                  THEN "lost" ELSE @]]
  /\ UNCHANGED nameless
-----------------------------------------------------------------------------
Shake ==
  \/ \E p \in Pools, i \in Invites : CreateInvite(p, i)
  \/ \E i \in Invites : Expire(i)
  \/ \E j \in Joins, p \in Pools, i \in Invites : Present(j, p, i)
  \/ \E j \in Joins :
       \/ Accept(j)
       \/ \E arrives \in BOOLEAN : CallBack(j, arrives)
       \/ \E l \in Letters, r \in Agents : WelcomeLetter(j, l, r)
       \/ WelcomeLost(j) \/ Reply(j)
       \/ Joined(j) \/ JoinedGarbled(j) \/ JoinFails(j) \/ Drop(j)

Next ==
  \/ Traffic /\ UNCHANGED shakeVars
  \/ Shake
  \/ \E p \in Pools : Reboot(p)

Spec == Init /\ [][Next]_vars

-----------------------------------------------------------------------------
(* Single use: however often a code is presented, by however many pools at  *)
(* once, at most one of them becomes a peer by it.                          *)
InviteIsSpentOnce ==
  \A j, k \in Joins :
    join[j].accepted /\ join[k].accepted /\ join[j].code = join[k].code => j = k

(* A pool that entered its inviter under its name is known to it, and stays *)
(* so, whatever was lost or restarted on the way: only such an entry lists  *)
(* agents, so no pool forwards letters over a link that only it believes    *)
(* in.  The entry "peer" of an answer that could not be read is none: the   *)
(* inviter may have refused.  The other direction does not hold.            *)
LinkIsMutual ==
  \A p, q \in Pools :
    peers[p][q].by \in {"join", "register"} => peers[q][p].by # "none"

(* "handshake complete: peer learned, forward path proven by their welcome  *)
(* letter" (server.rs:1171), says peer/join: the inviter's welcome letter   *)
(* has come, then.                                                          *)
JoinIsProven ==
  \A j \in Joins : join[j].pc = "joined" =>
    \E l \in Letters :
      /\ send[l].pc = "unwatched" /\ send[l].peer = join[j].pool
      /\ row[join[j].pool][l].at # "none"

(* federation.rs:42 of the agents in a Peer: "Agent names whose home is     *)
(* this pool."                                                              *)
PeersListTheirOwn ==
  \A p, q \in Pools : peers[p][q].agents \subseteq AtHome(q)
=============================================================================
