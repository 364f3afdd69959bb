---------------------------- MODULE HandshakeProofs ----------------------------
(***************************************************************************)
(* Proofs about Handshake, for any pools, agents, invites and attempts: the *)
(* traffic keeps the invariant of FederationProofs, and the handshake adds  *)
(* one of its own, about invites, attempts and learned peers.               *)
(***************************************************************************)
EXTENDS Handshake, FederationProofs

Knows(p, q) == peers[p][q].by # "none"

(* An attempt under way has a code that was made and, once it spent it, an  *)
(* inviter that knows its pool; and the inviter goes on with no other.      *)
AttemptOK(j) ==
  /\ join[j].acc # "none" \/ join[j].accepted => join[j].pc # "idle"
  /\ join[j].pc # "idle" => invite[join[j].code].st # "none"
  /\ join[j].accepted => invite[join[j].code].st = "used"
  /\ join[j].acc \in {"recorded", "called", "welcomed", "ok"} =>
       join[j].accepted /\ Knows(Inviter(j), join[j].pool)

ShakeTypeOK ==
  /\ invite \in [Invites -> Invite]
  /\ join \in [Joins -> Attempt]
  /\ nameless \in [Pools -> SUBSET Pools]

HInv ==
  /\ FInv
  /\ ShakeTypeOK
  /\ \A j \in Joins : AttemptOK(j)
  /\ InviteIsSpentOnce
  /\ LinkIsMutual
-----------------------------------------------------------------------------
LEMMA HInitial == Init => HInv
<1> SUFFICES ASSUME Init PROVE HInv
  OBVIOUS
<1>1. AnyPool \in Pools /\ (CHOOSE i \in Invites : TRUE) \in Invites
  BY PoolsAssumption, InvitesAssumption DEF AnyPool
<1>2. ShakeTypeOK
  <2>1. invite \in [Invites -> Invite]
    BY <1>1 DEF Init, Invite
  <2>2. join \in [Joins -> Attempt]
    BY <1>1 DEF Init, Attempt
  <2>3. nameless \in [Pools -> SUBSET Pools]
    BY DEF Init
  <2> QED BY <2>1, <2>2, <2>3 DEF ShakeTypeOK
<1>3. \A j \in Joins : AttemptOK(j)
  BY DEF Init, AttemptOK
<1>4. InviteIsSpentOnce
  BY DEF Init, InviteIsSpentOnce
<1>5. LinkIsMutual
  BY DEF Init, FederationInit, LinkIsMutual, NoPeer
<1> QED BY <1>2, <1>3, <1>4, <1>5, FInitial DEF HInv, Init
-----------------------------------------------------------------------------
(* Pools learn, and do not forget.                                          *)
LEMMA LearnKeeps ==
  ASSUME HInv, NEW p \in Pools, NEW q \in Pools,
         NEW by \in {"accept", "register", "join"}, NEW agents \in SUBSET Agents,
         by # "accept" => Knows(q, p),
         Learn(p, q, by, agents), UNCHANGED <<roles, entry, row, send, restarts>>
  PROVE  /\ FInv' /\ LinkIsMutual' /\ peers'[p][q].by # "none"
         /\ \A a, b \in Pools : Knows(a, b) => peers'[a][b].by # "none"
<1> DEFINE e == [by |-> by, agents |-> agents]
<1>1. e \in PeerEntry /\ e.by = by
  BY DEF PeerEntry
<1>2. peers \in [Pools -> [Pools -> PeerEntry]]
  BY DEF HInv, FInv, FederationTypes
<1>3. peers' = [peers EXCEPT ![p][q] = e]
  BY DEF Learn
<1> HIDE DEF e
<1>4. /\ peers' \in [Pools -> [Pools -> PeerEntry]]
      /\ peers'[p][q] = e
      /\ \A a, b \in Pools : a # p \/ b # q => peers'[a][b] = peers[a][b]
  BY <1>1, <1>2, <1>3
<1>5. FInv'
  <2>1. FederationTypes'
    BY <1>4 DEF HInv, FInv, FederationTypes
  <2> QED BY <2>1, RosterStep DEF HInv
<1>6. \A a, b \in Pools : Knows(a, b) => peers'[a][b].by # "none"
  BY <1>1, <1>4 DEF Knows
<1>7. LinkIsMutual'
  <2> SUFFICES ASSUME NEW a \in Pools, NEW b \in Pools,
                      peers'[a][b].by \in {"join", "register"}
               PROVE  peers'[b][a].by # "none"
    BY DEF LinkIsMutual
  <2>1. CASE a = p /\ b = q
    BY <1>1, <1>4, <1>6, <2>1
  <2>2. CASE ~(a = p /\ b = q)
    <3>1. peers[a][b].by \in {"join", "register"}
      BY <1>4, <2>2
    <3>2. Knows(b, a)
      BY <3>1 DEF HInv, LinkIsMutual, Knows
    <3> QED BY <1>6, <3>2
  <2> QED BY <2>1, <2>2
<1> QED BY <1>1, <1>4, <1>5, <1>6, <1>7

LEMMA SilentKeeps ==
  ASSUME HInv, UNCHANGED fedVars
  PROVE  /\ FInv' /\ LinkIsMutual'
         /\ \A a, b \in Pools : Knows(a, b) => peers'[a][b].by # "none"
BY FStutter DEF HInv, fedVars, LinkIsMutual, Knows

(* A step of one attempt that spends nothing.                               *)
LEMMA OneAttemptStep ==
  ASSUME HInv, NEW j \in Joins, UNCHANGED invite, FInv', LinkIsMutual',
         nameless' \in [Pools -> SUBSET Pools], NEW n \in Attempt, join' = [join EXCEPT ![j] = n],
         n.accepted = join[j].accepted,
         n.accepted => n.code = join[j].code,
         \A a, b \in Pools : Knows(a, b) => peers'[a][b].by # "none",
         AttemptOK(j)'
  PROVE  HInv'
<1>1. /\ invite \in [Invites -> Invite] /\ join \in [Joins -> Attempt]
  BY DEF HInv, ShakeTypeOK
<1>2. /\ join' \in [Joins -> Attempt] /\ join'[j] = n
      /\ \A k \in Joins \ {j} : join'[k] = join[k]
  BY <1>1
<1>3. \A k \in Joins \ {j} : AttemptOK(k)'
  <2> SUFFICES ASSUME NEW k \in Joins \ {j} PROVE AttemptOK(k)'
    OBVIOUS
  <2>1. join[k].code \in Invites /\ join[k].pool \in Pools
    BY <1>1 DEF Attempt
  <2>2. Inviter(k) \in Pools /\ Inviter(k)' = Inviter(k)
    BY <1>1, <1>2, <2>1 DEF Inviter, Invite
  <2>3. AttemptOK(k)
    BY DEF HInv
  <2> QED BY <1>2, <2>1, <2>2, <2>3 DEF AttemptOK, Knows
<1>4. InviteIsSpentOnce'
  BY <1>2 DEF HInv, InviteIsSpentOnce
<1> QED BY <1>1, <1>2, <1>3, <1>4 DEF HInv, ShakeTypeOK

LEMMA AttemptType ==
  ASSUME HInv, NEW j \in Joins
  PROVE  /\ join[j] \in Attempt /\ join[j].code \in Invites /\ join[j].pool \in Pools
         /\ invite[join[j].code] \in Invite /\ Inviter(j) \in Pools
         /\ AttemptOK(j)
BY DEF HInv, ShakeTypeOK, Attempt, Invite, Inviter
-----------------------------------------------------------------------------
(* The handshake, one lemma for each step.                                  *)

LEMMA CreateInviteKeeps ==
  ASSUME HInv, NEW p \in Pools, NEW i \in Invites, CreateInvite(p, i)
  PROVE  HInv'
<1>1. FInv' /\ LinkIsMutual' /\ UNCHANGED <<peers, join, nameless>>
  BY SilentKeeps DEF CreateInvite, fedVars
<1>2. [owner |-> p, st |-> "live"] \in Invite
  BY DEF Invite
<1>3. /\ invite' \in [Invites -> Invite]
      /\ \A k \in Invites \ {i} : invite'[k] = invite[k]
      /\ invite[i].st = "none"
  BY <1>2 DEF CreateInvite, HInv, ShakeTypeOK
<1>4. \A j \in Joins : AttemptOK(j)'
  <2> SUFFICES ASSUME NEW j \in Joins PROVE AttemptOK(j)'
    OBVIOUS
  <2>1. CASE join[j].code = i
    BY <1>1, <1>3, <2>1, AttemptType DEF AttemptOK
  <2>2. CASE join[j].code # i
    BY <1>1, <1>3, <2>2, AttemptType DEF AttemptOK, Inviter, Knows
  <2> QED BY <2>1, <2>2
<1> QED BY <1>1, <1>3, <1>4 DEF HInv, ShakeTypeOK, InviteIsSpentOnce

LEMMA ExpireKeeps ==
  ASSUME HInv, NEW i \in Invites, Expire(i)
  PROVE  HInv'
<1>1. FInv' /\ LinkIsMutual' /\ UNCHANGED <<peers, join, nameless>>
  BY SilentKeeps DEF Expire, fedVars
<1>2. /\ invite' \in [Invites -> Invite]
      /\ \A k \in Invites \ {i} : invite'[k] = invite[k]
      /\ invite'[i].owner = invite[i].owner
      /\ invite'[i].st = "gone" /\ invite[i].st = "live"
  <2>1. [invite[i] EXCEPT !.st = "gone"] \in Invite
    BY DEF HInv, ShakeTypeOK, Invite
  <2> QED BY <2>1 DEF Expire, HInv, ShakeTypeOK, Invite
<1>3. \A j \in Joins : AttemptOK(j)'
  <2> SUFFICES ASSUME NEW j \in Joins PROVE AttemptOK(j)'
    OBVIOUS
  <2>1. CASE join[j].code = i
    BY <1>1, <1>2, <2>1, AttemptType DEF AttemptOK, Inviter, Knows
  <2>2. CASE join[j].code # i
    BY <1>1, <1>2, <2>2, AttemptType DEF AttemptOK, Inviter, Knows
  <2> QED BY <2>1, <2>2
<1> QED BY <1>1, <1>2, <1>3 DEF HInv, ShakeTypeOK, InviteIsSpentOnce

LEMMA PresentKeeps ==
  ASSUME HInv, NEW j \in Joins, NEW p \in Pools, NEW i \in Invites, Present(j, p, i)
  PROVE  HInv'
<1> DEFINE n == [join[j] EXCEPT !.pool = p, !.code = i, !.pc = "waiting",
                                !.acc = "request"]
<1>1. join[j] \in Attempt /\ AttemptOK(j) /\ join[j].pc = "idle"
  BY AttemptType DEF Present
<1>2. /\ n \in Attempt /\ n.accepted = join[j].accepted /\ n.code = i
      /\ n.pc = "waiting" /\ n.acc = "request"
  BY <1>1 DEF Attempt
<1>3. join' = [join EXCEPT ![j] = n] /\ UNCHANGED <<invite, nameless>> /\ UNCHANGED fedVars
  BY DEF Present
<1>4. join'[j] = n
  BY <1>3 DEF HInv, ShakeTypeOK
<1> HIDE DEF n
<1>5. ~n.accepted
  BY <1>1, <1>2 DEF AttemptOK
<1>6. AttemptOK(j)'
  BY <1>2, <1>3, <1>4, <1>5 DEF AttemptOK, Present
<1>7. /\ FInv' /\ LinkIsMutual'
      /\ \A a, b \in Pools : Knows(a, b) => peers'[a][b].by # "none"
  BY <1>3, SilentKeeps
<1> QED BY <1>2, <1>3, <1>5, <1>6, <1>7, OneAttemptStep DEF HInv, ShakeTypeOK

LEMMA AcceptKeeps ==
  ASSUME HInv, NEW j \in Joins, Accept(j)
  PROVE  HInv'
<1> DEFINE i == join[j].code
           q == join[j].pool
<1>1. /\ join[j] \in Attempt /\ i \in Invites /\ q \in Pools /\ Inviter(j) \in Pools
      /\ AttemptOK(j) /\ join[j].acc = "request" /\ join[j].pc # "idle"
      /\ AtHome(q) \in SUBSET Agents
  BY AttemptType DEF Accept, AttemptOK, AtHome
<1>2. CASE ~Consumable(i)
  <2> DEFINE n == [join[j] EXCEPT !.acc = "no"]
  <2>1. /\ n \in Attempt /\ n.accepted = join[j].accepted /\ n.code = i
        /\ n.pc = join[j].pc /\ n.acc = "no" /\ n.pool = q
    BY <1>1 DEF Attempt
  <2>2. join' = [join EXCEPT ![j] = n] /\ UNCHANGED <<invite, nameless>> /\ UNCHANGED fedVars
    BY <1>2 DEF Accept, fedVars
  <2>3. join'[j] = n
    BY <2>2 DEF HInv, ShakeTypeOK
  <2> HIDE DEF n
  <2>4. AttemptOK(j)'
    BY <1>1, <2>1, <2>2, <2>3 DEF AttemptOK
  <2> QED BY <2>1, <2>2, <2>4, SilentKeeps, OneAttemptStep DEF HInv, ShakeTypeOK
<1>3. CASE Consumable(i)
  <2> DEFINE n == [join[j] EXCEPT !.acc = "recorded", !.accepted = TRUE]
             v == [invite[i] EXCEPT !.st = "used"]
  <2>1. /\ n \in Attempt /\ n.accepted = TRUE /\ n.code = i /\ n.pc = join[j].pc
        /\ n.acc = "recorded" /\ n.pool = q
    BY <1>1 DEF Attempt
  <2>2. v \in Invite /\ v.st = "used" /\ v.owner = Inviter(j)
    BY <1>1 DEF HInv, ShakeTypeOK, Invite, Inviter
  <2>3. /\ join' = [join EXCEPT ![j] = n] /\ invite' = [invite EXCEPT ![i] = v]
        /\ Learn(Inviter(j), q, "accept", AtHome(q))
        /\ UNCHANGED <<roles, entry, row, send, restarts, nameless>>
    BY <1>3 DEF Accept
  <2> HIDE DEF n, v
  <2>4. /\ join' \in [Joins -> Attempt] /\ join'[j] = n
        /\ \A k \in Joins \ {j} : join'[k] = join[k]
        /\ invite' \in [Invites -> Invite] /\ invite'[i] = v
        /\ \A k \in Invites \ {i} : invite'[k] = invite[k]
    BY <1>1, <2>1, <2>2, <2>3 DEF HInv, ShakeTypeOK
  <2>5. /\ FInv' /\ LinkIsMutual' /\ peers'[Inviter(j)][q].by # "none"
        /\ \A a, b \in Pools : Knows(a, b) => peers'[a][b].by # "none"
    BY <1>1, <2>3, LearnKeeps
  <2>6. Inviter(j)' = Inviter(j)
    BY <2>1, <2>2, <2>4 DEF Inviter
  <2>7. AttemptOK(j)'
    BY <1>1, <2>1, <2>2, <2>4, <2>5, <2>6 DEF AttemptOK, Knows
  <2>8. \A k \in Joins \ {j} : AttemptOK(k)'
    <3> SUFFICES ASSUME NEW k \in Joins \ {j} PROVE AttemptOK(k)'
      OBVIOUS
    <3>1. AttemptOK(k) /\ Inviter(k)' = Inviter(k) /\ Inviter(k) \in Pools
          /\ join[k].pool \in Pools /\ join[k].code \in Invites
      BY <2>2, <2>4, AttemptType DEF Inviter
    <3>2. invite[join[k].code].st \in {"used"} =>
            invite'[join[k].code].st = "used"
      BY <2>2, <2>4, <3>1
    <3>3. invite[join[k].code].st # "none" => invite'[join[k].code].st # "none"
      BY <2>2, <2>4, <3>1
    <3> QED BY <2>4, <2>5, <3>1, <3>2, <3>3 DEF AttemptOK, Knows
  <2>9. \A k \in Joins : join[k].accepted => join[k].code # i
    BY <1>3, AttemptType DEF AttemptOK, Consumable
  <2>10. InviteIsSpentOnce'
    BY <2>1, <2>4, <2>9 DEF HInv, InviteIsSpentOnce
  <2> QED BY <2>3, <2>4, <2>5, <2>7, <2>8, <2>10 DEF HInv, ShakeTypeOK
<1> QED BY <1>2, <1>3

LEMMA CallBackKeeps ==
  ASSUME HInv, NEW j \in Joins, NEW arrives \in BOOLEAN, CallBack(j, arrives)
  PROVE  HInv'
<1> DEFINE n == [join[j] EXCEPT !.acc = "called"]
<1>1. /\ join[j] \in Attempt /\ AttemptOK(j) /\ join[j].acc = "recorded"
      /\ Inviter(j) \in Pools /\ join[j].pool \in Pools
  BY AttemptType DEF CallBack
<1>2. /\ n \in Attempt /\ n.accepted = join[j].accepted /\ n.code = join[j].code
      /\ n.pc = join[j].pc /\ n.acc = "called" /\ n.pool = join[j].pool
  BY <1>1 DEF Attempt
<1>3. join' = [join EXCEPT ![j] = n] /\ UNCHANGED <<invite, nameless, roles, entry, row, send, restarts>>
  BY DEF CallBack
<1>4. join'[j] = n
  BY <1>3 DEF HInv, ShakeTypeOK
<1>5. Knows(Inviter(j), join[j].pool)
  BY <1>1 DEF AttemptOK
<1>6. /\ FInv' /\ LinkIsMutual'
      /\ \A a, b \in Pools : Knows(a, b) => peers'[a][b].by # "none"
  <2>1. CASE UNCHANGED peers
    BY <1>3, <2>1, SilentKeeps DEF fedVars
  <2>2. CASE Learn(join[j].pool, Inviter(j), "register", Announced(Inviter(j)))
    <3>1. Announced(Inviter(j)) \in SUBSET Agents
      BY DEF Announced
    <3> QED BY <1>1, <1>3, <1>5, <2>2, <3>1, LearnKeeps
  <2> QED BY <2>1, <2>2 DEF CallBack, RegisterPeer
<1> HIDE DEF n
<1>7. Inviter(j)' = Inviter(j)
  BY <1>2, <1>3, <1>4 DEF Inviter
<1>8. AttemptOK(j)'
  BY <1>1, <1>2, <1>3, <1>4, <1>5, <1>6, <1>7 DEF AttemptOK, Knows
<1> QED BY <1>2, <1>3, <1>6, <1>8, OneAttemptStep DEF HInv, ShakeTypeOK

(* The steps that only move an attempt on.                                  *)
LEMMA MoveKeeps ==
  ASSUME HInv, NEW j \in Joins, NEW n \in Attempt,
         join' = [join EXCEPT ![j] = n], UNCHANGED invite,
         nameless' \in [Pools -> SUBSET Pools],
         n.accepted = join[j].accepted, n.code = join[j].code, n.pool = join[j].pool,
         join[j].pc # "idle", n.pc # "idle",
         n.acc \in {"recorded", "called", "welcomed", "ok"} =>
           join[j].acc \in {"recorded", "called", "welcomed", "ok"},
         FInv', LinkIsMutual',
         \A a, b \in Pools : Knows(a, b) => peers'[a][b].by # "none"
  PROVE  HInv'
<1>1. join'[j] = n
  BY DEF HInv, ShakeTypeOK
<1>2. /\ AttemptOK(j) /\ Inviter(j) \in Pools /\ join[j].pool \in Pools
      /\ Inviter(j)' = Inviter(j)
  BY <1>1, AttemptType DEF Inviter
<1>3. AttemptOK(j)'
  BY <1>1, <1>2 DEF AttemptOK, Knows
<1> QED BY <1>3, OneAttemptStep DEF HInv, ShakeTypeOK

(* A welcome letter: a letter of a new call, one link from the inviter.     *)
LEMMA WelcomeLetterTraffic ==
  ASSUME HInv, NEW j \in Joins, NEW l \in Letters, NEW r \in Agents,
         WelcomeLetter(j, l, r)
  PROVE  FInv'
<1>1. /\ Inviter(j) \in Pools /\ join[j].pool \in Pools /\ Host \in Agents
  BY AttemptType, HostAssumption
<1> DEFINE q == join[j].pool
           c == [pool |-> Inviter(j), peer |-> q, sender |-> Host, receiver |-> r,
                 pc |-> "unwatched", wire |-> "none"]
<1>2. c \in Call /\ c.pc = "unwatched" /\ c.wire = "none" /\ c.peer = q
  BY <1>1, NewCallType
<1>3. /\ send' = [send EXCEPT ![l] = c] /\ UNCHANGED <<peers, restarts>>
      /\ Inbound(q, l, Host, r, 1) /\ Fresh(l)
  BY DEF WelcomeLetter
<1>4. Meet(q, Host)
  BY <1>3 DEF Inbound, MaxHops
<1>5. \/ row' = row
      \/ row' = [row EXCEPT ![q][l] = Queued(1)]
  BY <1>3 DEF Inbound
<1>6. Queued(1) \in Row /\ Queued(1).hops = 1 /\ Queued(1).at = "queued"
  BY DEF Queued, Row, MaxHops
<1>7. /\ row \in [Pools -> [Letters -> Row]] /\ send \in [Letters -> Call]
      /\ FederationTypes
  BY DEF HInv, FInv, FederationTypes
<1> HIDE DEF c
<1>8. /\ send' \in [Letters -> Call] /\ send'[l] = c
      /\ \A k \in Letters \ {l} : send'[k] = send[k]
  BY <1>2, <1>3, <1>7
<1>9. /\ row' \in [Pools -> [Letters -> Row]]
      /\ \A p \in Pools, k \in Letters \ {l} : row'[p][k] = row[p][k]
      /\ \A p \in Pools : row'[p][l] = row[p][l]
                          \/ (p = q /\ row'[p][l] = Queued(1))
  <2>1. CASE row' = row
    BY <1>7, <2>1
  <2>2. CASE row' = [row EXCEPT ![q][l] = Queued(1)]
    <3> DEFINE w == Queued(1)
    <3>1. w \in Row
      BY <1>6
    <3>2. row' = [row EXCEPT ![q][l] = w]
      BY <2>2
    <3>3. q \in Pools
      BY <1>1
    <3> HIDE DEF w, q
    <3>4. /\ row' \in [Pools -> [Letters -> Row]]
          /\ \A p \in Pools, k \in Letters \ {l} : row'[p][k] = row[p][k]
          /\ \A p \in Pools : row'[p][l] = row[p][l] \/ (p = q /\ row'[p][l] = w)
      BY <1>7, <3>1, <3>2, <3>3
    <3> QED BY <3>4 DEF w
  <2> QED BY <1>5, <2>1, <2>2
<1>10. FederationTypes'
  BY <1>1, <1>3, <1>4, <1>7, <1>8, <1>9, MeetType DEF FederationTypes
<1>11. AnswerOK(l)'
  BY <1>2, <1>8 DEF AnswerOK
<1>12. WireOK(l)'
  BY <1>2, <1>8 DEF WireOK
<1>13. \A p \in Pools : row[p][l].hops = 0
  <2> SUFFICES ASSUME NEW p \in Pools PROVE row[p][l].hops = 0
    OBVIOUS
  <2>1. row[p][l] \in Row /\ HopsOK(l) /\ Fledgling(l)
    BY <1>3, <1>7 DEF HInv, FInv, LetterOK, Fresh, Fledgling
  <2> QED BY <2>1 DEF HopsOK, Row, MaxHops
<1>14. HopsOK(l)'
  BY <1>2, <1>6, <1>8, <1>9, <1>13 DEF HopsOK, Fledgling
<1> QED BY <1>8, <1>9, <1>10, <1>11, <1>12, <1>14, OneLetterStep DEF HInv

LEMMA WelcomeLetterKeeps ==
  ASSUME HInv, NEW j \in Joins, NEW l \in Letters, NEW r \in Agents,
         WelcomeLetter(j, l, r)
  PROVE  HInv'
<1> DEFINE n == [join[j] EXCEPT !.acc = "welcomed"]
<1>1. /\ join[j] \in Attempt /\ AttemptOK(j) /\ join[j].acc = "called"
      /\ join[j].pc # "idle"
  BY AttemptType DEF WelcomeLetter, AttemptOK
<1>2. /\ n \in Attempt /\ n.accepted = join[j].accepted /\ n.code = join[j].code
      /\ n.pc = join[j].pc /\ n.acc = "welcomed" /\ n.pool = join[j].pool
  BY <1>1 DEF Attempt
<1>3. join' = [join EXCEPT ![j] = n] /\ UNCHANGED <<invite, nameless, peers>>
  BY DEF WelcomeLetter
<1> HIDE DEF n
<1>4. /\ LinkIsMutual'
      /\ \A a, b \in Pools : Knows(a, b) => peers'[a][b].by # "none"
  BY <1>3 DEF HInv, LinkIsMutual, Knows
<1> QED BY <1>1, <1>2, <1>3, <1>4, WelcomeLetterTraffic, MoveKeeps DEF HInv, ShakeTypeOK

LEMMA WelcomeLostKeeps == ASSUME HInv, NEW j \in Joins, WelcomeLost(j) PROVE HInv'
<1> DEFINE n == [join[j] EXCEPT !.acc = "welcomed"]
<1>1. /\ join[j] \in Attempt /\ AttemptOK(j) /\ join[j].acc = "called"
      /\ join[j].pc # "idle"
  BY AttemptType DEF WelcomeLost, AttemptOK
<1>2. /\ n \in Attempt /\ n.accepted = join[j].accepted /\ n.code = join[j].code
      /\ n.pc = join[j].pc /\ n.acc = "welcomed" /\ n.pool = join[j].pool
  BY <1>1 DEF Attempt
<1>3. join' = [join EXCEPT ![j] = n] /\ UNCHANGED <<invite, nameless>> /\ UNCHANGED fedVars
  BY DEF WelcomeLost
<1> HIDE DEF n
<1> QED BY <1>1, <1>2, <1>3, SilentKeeps, MoveKeeps DEF HInv, ShakeTypeOK

LEMMA ReplyKeeps == ASSUME HInv, NEW j \in Joins, Reply(j) PROVE HInv'
<1> DEFINE n == [join[j] EXCEPT !.acc = "ok", !.agents = Announced(Inviter(j))]
<1>1. /\ join[j] \in Attempt /\ AttemptOK(j) /\ join[j].acc = "welcomed"
      /\ join[j].pc # "idle" /\ Announced(Inviter(j)) \in SUBSET Agents
  BY AttemptType DEF Reply, AttemptOK, Announced
<1>2. /\ n \in Attempt /\ n.accepted = join[j].accepted /\ n.code = join[j].code
      /\ n.pc = join[j].pc /\ n.acc = "ok" /\ n.pool = join[j].pool
  BY <1>1 DEF Attempt
<1>3. join' = [join EXCEPT ![j] = n] /\ UNCHANGED <<invite, nameless>> /\ UNCHANGED fedVars
  BY DEF Reply
<1> HIDE DEF n
<1> QED BY <1>1, <1>2, <1>3, SilentKeeps, MoveKeeps DEF HInv, ShakeTypeOK

LEMMA JoinedKeeps == ASSUME HInv, NEW j \in Joins, Joined(j) PROVE HInv'
<1> DEFINE n == [join[j] EXCEPT !.pc = "joined", !.acc = "lost"]
<1>1. /\ join[j] \in Attempt /\ AttemptOK(j) /\ join[j].acc = "ok"
      /\ join[j].pc = "waiting" /\ join[j].agents \in SUBSET Agents
      /\ join[j].pool \in Pools /\ Inviter(j) \in Pools
      /\ Knows(Inviter(j), join[j].pool)
  BY AttemptType DEF Joined, AttemptOK, Attempt
<1>2. /\ n \in Attempt /\ n.accepted = join[j].accepted /\ n.code = join[j].code
      /\ n.pc = "joined" /\ n.acc = "lost" /\ n.pool = join[j].pool
  BY <1>1 DEF Attempt
<1>3. join' = [join EXCEPT ![j] = n]
      /\ UNCHANGED <<invite, nameless, roles, entry, row, send, restarts>>
      /\ Learn(join[j].pool, Inviter(j), "join", join[j].agents)
  BY DEF Joined
<1> HIDE DEF n
<1>4. /\ FInv' /\ LinkIsMutual'
      /\ \A a, b \in Pools : Knows(a, b) => peers'[a][b].by # "none"
  BY <1>1, <1>3, LearnKeeps
<1> QED BY <1>1, <1>2, <1>3, <1>4, MoveKeeps DEF HInv, ShakeTypeOK

LEMMA JoinedGarbledKeeps == ASSUME HInv, NEW j \in Joins, JoinedGarbled(j) PROVE HInv'
<1> DEFINE n == [join[j] EXCEPT !.pc = "joined", !.acc = "lost"]
<1>1. join[j] \in Attempt /\ join[j].pc = "waiting"
  BY AttemptType DEF JoinedGarbled
<1>2. /\ n \in Attempt /\ n.accepted = join[j].accepted /\ n.code = join[j].code
      /\ n.pc = "joined" /\ n.acc = "lost" /\ n.pool = join[j].pool
  BY <1>1 DEF Attempt
<1>3. join' = [join EXCEPT ![j] = n] /\ UNCHANGED invite /\ UNCHANGED fedVars
  BY DEF JoinedGarbled
<1>4. nameless' \in [Pools -> SUBSET Pools]
  BY AttemptType DEF JoinedGarbled, HInv, ShakeTypeOK
<1> HIDE DEF n
<1> QED BY <1>1, <1>2, <1>3, <1>4, SilentKeeps, MoveKeeps DEF HInv, ShakeTypeOK

LEMMA JoinFailsKeeps == ASSUME HInv, NEW j \in Joins, JoinFails(j) PROVE HInv'
<1> DEFINE n == [join[j] EXCEPT !.pc = "failed"]
<1>1. join[j] \in Attempt /\ join[j].pc = "waiting"
  BY AttemptType DEF JoinFails
<1>2. /\ n \in Attempt /\ n.accepted = join[j].accepted /\ n.code = join[j].code
      /\ n.pc = "failed" /\ n.acc = join[j].acc /\ n.pool = join[j].pool
  BY <1>1 DEF Attempt
<1>3. join' = [join EXCEPT ![j] = n] /\ UNCHANGED <<invite, nameless>> /\ UNCHANGED fedVars
  BY DEF JoinFails
<1> HIDE DEF n
<1> QED BY <1>1, <1>2, <1>3, SilentKeeps, MoveKeeps DEF HInv, ShakeTypeOK

LEMMA DropKeeps == ASSUME HInv, NEW j \in Joins, Drop(j) PROVE HInv'
<1> DEFINE n == [join[j] EXCEPT !.acc = "lost"]
<1>1. join[j] \in Attempt /\ join[j].pc # "idle"
  BY AttemptType DEF Drop, AttemptOK
<1>2. /\ n \in Attempt /\ n.accepted = join[j].accepted /\ n.code = join[j].code
      /\ n.pc = join[j].pc /\ n.acc = "lost" /\ n.pool = join[j].pool
  BY <1>1 DEF Attempt
<1>3. join' = [join EXCEPT ![j] = n] /\ UNCHANGED <<invite, nameless>> /\ UNCHANGED fedVars
  BY DEF Drop
<1> HIDE DEF n
<1> QED BY <1>1, <1>2, <1>3, SilentKeeps, MoveKeeps DEF HInv, ShakeTypeOK
-----------------------------------------------------------------------------
(* Traffic and restarts teach no pool anything.                             *)
LEMMA TrafficTeachesNothing == Traffic => UNCHANGED peers
<1> SUFFICES ASSUME Traffic PROVE UNCHANGED peers
  OBVIOUS
<1>1. CASE Senders
  BY <1>1 DEF Senders, SendLocal, SendOut, SendOutRefused
<1>2. CASE Forwarding
  BY <1>2 DEF Forwarding, LookUp, Arrive, Answer, GiveUp, Lose
<1>3. CASE Mailboxes
  BY <1>3 DEF Mailboxes, Take, Delete
<1>4. CASE Rosters
  BY <1>4 DEF Rosters, Register, Unregister
<1> QED BY <1>1, <1>2, <1>3, <1>4 DEF Traffic

LEMMA TrafficHKeeps == ASSUME HInv, Traffic, UNCHANGED shakeVars PROVE HInv'
<1>1. FInv' /\ UNCHANGED peers /\ UNCHANGED <<invite, join, nameless>>
  BY TrafficKeeps, TrafficTeachesNothing DEF HInv, shakeVars
<1> QED BY <1>1 DEF HInv, ShakeTypeOK, AttemptOK, Knows, Inviter, InviteIsSpentOnce,
                    LinkIsMutual

LEMMA RebootKeeps == ASSUME HInv, NEW p \in Pools, Reboot(p) PROVE HInv'
<1>1. FInv' /\ UNCHANGED peers
  BY RestartKeeps DEF Reboot, HInv, Restart
<1>2. \A i \in Invites :
        /\ invite'[i] \in Invite /\ invite'[i].owner = invite[i].owner
        /\ invite[i].st # "none" => invite'[i].st # "none"
        /\ invite[i].st = "used" => invite'[i].st = "used"
  <2> SUFFICES ASSUME NEW i \in Invites
               PROVE  /\ invite'[i] \in Invite /\ invite'[i].owner = invite[i].owner
                      /\ invite[i].st # "none" => invite'[i].st # "none"
                      /\ invite[i].st = "used" => invite'[i].st = "used"
    OBVIOUS
  <2>1. invite[i] \in Invite
    BY DEF HInv, ShakeTypeOK
  <2>2. /\ [invite[i] EXCEPT !.st = "gone"] \in Invite
        /\ [invite[i] EXCEPT !.st = "gone"].owner = invite[i].owner
        /\ [invite[i] EXCEPT !.st = "gone"].st = "gone"
    BY <2>1 DEF Invite
  <2>3. invite'[i] = invite[i]
        \/ (invite[i].st = "live" /\ invite'[i] = [invite[i] EXCEPT !.st = "gone"])
    BY DEF Reboot
  <2> QED BY <2>1, <2>2, <2>3
<1>3. \A j \in Joins :
        /\ join'[j] \in Attempt /\ join'[j].code = join[j].code
        /\ join'[j].pool = join[j].pool /\ join'[j].accepted = join[j].accepted
        /\ join'[j].pc = join[j].pc
           \/ (join'[j].pc = "failed" /\ join[j].pc = "waiting")
        /\ join'[j].acc = join[j].acc
           \/ (join'[j].acc = "lost" /\ join[j].acc \in {"recorded", "called", "welcomed"})
  <2> SUFFICES ASSUME NEW j \in Joins
               PROVE  /\ join'[j] \in Attempt /\ join'[j].code = join[j].code
                      /\ join'[j].pool = join[j].pool
                      /\ join'[j].accepted = join[j].accepted
                      /\ join'[j].pc = join[j].pc
                         \/ (join'[j].pc = "failed" /\ join[j].pc = "waiting")
                      /\ join'[j].acc = join[j].acc
                         \/ (/\ join'[j].acc = "lost"
                             /\ join[j].acc \in {"recorded", "called", "welcomed"})
    OBVIOUS
  <2>1. join[j] \in Attempt
    BY DEF HInv, ShakeTypeOK
  <2> DEFINE pc == IF join[j].pc = "waiting" /\ join[j].pool = p
                   THEN "failed" ELSE join[j].pc
             acc == IF /\ join[j].acc \in {"recorded", "called", "welcomed"}
                       /\ Inviter(j) = p
                    THEN "lost" ELSE join[j].acc
  <2>2. /\ join'[j] = [join[j] EXCEPT !.pc = pc, !.acc = acc]
        /\ pc = join[j].pc \/ (pc = "failed" /\ join[j].pc = "waiting")
        /\ acc = join[j].acc
           \/ (acc = "lost" /\ join[j].acc \in {"recorded", "called", "welcomed"})
    BY DEF Reboot
  <2>3. pc \in {"idle", "waiting", "joined", "failed"}
        /\ acc \in {"none", "request", "recorded", "called", "welcomed", "ok", "no", "lost"}
    BY <2>1 DEF Attempt
  <2> HIDE DEF pc, acc
  <2> QED BY <2>1, <2>2, <2>3 DEF Attempt
<1>4. /\ invite' \in [Invites -> Invite] /\ join' \in [Joins -> Attempt]
      /\ nameless' \in [Pools -> SUBSET Pools]
  BY <1>2, <1>3 DEF Reboot, HInv, ShakeTypeOK
<1>5. \A j \in Joins : AttemptOK(j)'
  <2> SUFFICES ASSUME NEW j \in Joins PROVE AttemptOK(j)'
    OBVIOUS
  <2>1. AttemptOK(j) /\ join[j].code \in Invites
    BY AttemptType
  <2>2. Inviter(j)' = Inviter(j)
    BY <1>2, <1>3, <2>1 DEF Inviter
  <2> QED BY <1>1, <1>2, <1>3, <2>1, <2>2 DEF AttemptOK, Knows
<1>6. InviteIsSpentOnce'
  BY <1>3 DEF HInv, InviteIsSpentOnce
<1>7. LinkIsMutual'
  BY <1>1 DEF HInv, LinkIsMutual
<1> QED BY <1>1, <1>4, <1>5, <1>6, <1>7 DEF HInv, ShakeTypeOK

LEMMA ShakeKeeps == HInv /\ Shake => HInv'
<1> SUFFICES ASSUME HInv, Shake PROVE HInv'
  OBVIOUS
<1>1. CASE \E p \in Pools, i \in Invites : CreateInvite(p, i)
  BY <1>1, CreateInviteKeeps
<1>2. CASE \E i \in Invites : Expire(i)
  BY <1>2, ExpireKeeps
<1>3. CASE \E j \in Joins, p \in Pools, i \in Invites : Present(j, p, i)
  BY <1>3, PresentKeeps
<1>4. ASSUME NEW j \in Joins,
             \/ Accept(j)
             \/ \E arrives \in BOOLEAN : CallBack(j, arrives)
             \/ \E l \in Letters, r \in Agents : WelcomeLetter(j, l, r)
             \/ WelcomeLost(j) \/ Reply(j)
             \/ Joined(j) \/ JoinedGarbled(j) \/ JoinFails(j) \/ Drop(j)
      PROVE  HInv'
  <2>1. CASE Accept(j) \/ \E arrives \in BOOLEAN : CallBack(j, arrives)
    BY <2>1, AcceptKeeps, CallBackKeeps
  <2>2. CASE (\E l \in Letters, r \in Agents : WelcomeLetter(j, l, r)) \/ WelcomeLost(j)
    BY <2>2, WelcomeLetterKeeps, WelcomeLostKeeps
  <2>3. CASE Reply(j) \/ Joined(j) \/ JoinedGarbled(j) \/ JoinFails(j) \/ Drop(j)
    BY <2>3, ReplyKeeps, JoinedKeeps, JoinedGarbledKeeps, JoinFailsKeeps, DropKeeps
  <2> QED BY <1>4, <2>1, <2>2, <2>3
<1> QED BY <1>1, <1>2, <1>3, <1>4 DEF Shake

LEMMA HStutter == HInv /\ UNCHANGED vars => HInv'
<1> SUFFICES ASSUME HInv, UNCHANGED vars PROVE HInv'
  OBVIOUS
<1>1. FInv' /\ UNCHANGED <<peers, invite, join, nameless>>
  BY FStutter DEF HInv, vars, fedVars
<1> QED BY <1>1 DEF HInv, ShakeTypeOK, AttemptOK, Knows, Inviter, InviteIsSpentOnce,
                    LinkIsMutual

LEMMA HandshakeInvariant == Spec => []HInv
<1>1. HInv /\ [Next]_vars => HInv'
  BY TrafficHKeeps, ShakeKeeps, RebootKeeps, HStutter DEF Next
<1> QED BY HInitial, <1>1, PTL DEF Spec

LEMMA HInvImplies ==
  HInv => /\ TypeOK /\ InviteIsSpentOnce /\ LinkIsMutual
          /\ ForwardedIsStored /\ OneLink
BY FInvImplies DEF HInv, TypeOK, ShakeTypeOK, AttemptOK
-----------------------------------------------------------------------------
(* Pools, invites and attempts keep to their types, and an inviter enters,  *)
(* calls back and answers only who has spent a code.                        *)
THEOREM HandshakeTypeCorrect == Spec => []TypeOK
BY HandshakeInvariant, HInvImplies, PTL

(* A code makes one peer, however many pools present it, and however often. *)
THEOREM InvitesAreSpentOnce == Spec => []InviteIsSpentOnce
BY HandshakeInvariant, HInvImplies, PTL

(* Whoever entered its inviter under its name is known to it, for any       *)
(* number of pools and handshakes, whatever gets lost or comes garbled.     *)
THEOREM LinksAreMutual == Spec => []LinkIsMutual
BY HandshakeInvariant, HInvImplies, PTL

(* What Federation promises of letters survives peers that come by          *)
(* handshake, and their welcome letters.                                    *)
THEOREM LettersSurviveHandshakes == Spec => [](ForwardedIsStored /\ OneLink)
BY HandshakeInvariant, HInvImplies, PTL
-----------------------------------------------------------------------------
(* At most once, with handshakes.  The welcome letter asks for nothing that *)
(* it has not brought, and nobody had it before.                            *)
HRInv == HInv /\ RInv

LEMMA WelcomeLetterOnce ==
  ASSUME HRInv, NEW j \in Joins, NEW l \in Letters, NEW r \in Agents,
         WelcomeLetter(j, l, r), NEW k \in Letters
  PROVE  RequestOK(k)' /\ StaysTaken(k)
<1> DEFINE q == join[j].pool
<1>1. /\ q \in Pools /\ row \in [Pools -> [Letters -> Row]] /\ send \in [Letters -> Call]
  BY AttemptType DEF HRInv, HInv, FInv, FederationTypes
<1>2. row' = row \/ row' = [row EXCEPT ![q][l] = Queued(1)]
  BY DEF WelcomeLetter, Inbound
<1>3. CASE k = l
  <2>1. send'[l].pc = "unwatched" /\ send'[l].wire = "none"
    BY <1>1 DEF WelcomeLetter
  <2>2. \A p \in Pools : row[p][l].at = "none"
    BY DEF WelcomeLetter, Fresh
  <2> QED BY <1>3, <2>1, <2>2 DEF RequestOK, Expected, StaysTaken, Taken
<1>4. CASE k # l
  <2>1. send'[k] = send[k]
    BY <1>1, <1>4 DEF WelcomeLetter
  <2> HIDE DEF q
  <2>2. \A p \in Pools : row'[p][k] = row[p][k]
    <3>1. CASE row' = row
      BY <3>1
    <3>2. CASE row' = [row EXCEPT ![q][l] = Queued(1)]
      BY <1>1, <1>4, <3>2
    <3> QED BY <1>2, <3>1, <3>2
  <2> QED BY <2>1, <2>2, UntouchedLetter DEF HRInv
<1> QED BY <1>3, <1>4

LEMMA ShakeOnce ==
  ASSUME HRInv, [Next]_vars, NEW k \in Letters
  PROVE  RequestOK(k)' /\ StaysTaken(k)
<1>1. CASE Traffic \/ \E p \in Pools : Reboot(p)
  BY <1>1, NextOnce DEF HRInv, FederationNext, Reboot
<1>2. CASE \E j \in Joins, l \in Letters, r \in Agents : WelcomeLetter(j, l, r)
  BY <1>2, WelcomeLetterOnce
<1>3. CASE /\ Shake
           /\ ~\E j \in Joins, l \in Letters, r \in Agents : WelcomeLetter(j, l, r)
  <2>1. UNCHANGED <<row, send>>
    BY <1>3 DEF Shake, fedVars, CreateInvite, Expire, Present, Accept, CallBack,
                WelcomeLost, Reply, Joined, JoinedGarbled, JoinFails, Drop
  <2> QED BY <2>1, UntouchedLetter DEF HRInv
<1>4. CASE UNCHANGED vars
  BY <1>4, UntouchedLetter DEF HRInv, vars
<1> QED BY <1>1, <1>2, <1>3, <1>4 DEF Next

(* A letter that crossed to a pool joined by a handshake is not queued      *)
(* there a second time either, once it was taken or deleted.                *)
THEOREM HandshakesKeepTakenOnce == Spec => TakenOnce
<1> DEFINE Once == \A p \in Pools, l \in Letters :
                     /\ send[l].peer # send[l].pool
                     /\ row[p][l].at \in {"handed", "deleted"}
                     => row'[p][l].at \in {"handed", "deleted"}
<1>1. Init => HRInv
  <2>1. Init => HInv
    BY HInitial
  <2>2. Init => \A l \in Letters : RequestOK(l)
    BY DEF Init, FederationInit, RequestOK, Expected, Unused
  <2> QED BY <2>1, <2>2 DEF HRInv, RInv, HInv
<1>2. HRInv /\ [Next]_vars => HRInv'
  <2>1. HInv /\ [Next]_vars => HInv'
    BY TrafficHKeeps, ShakeKeeps, RebootKeeps, HStutter DEF Next
  <2> QED BY <2>1, ShakeOnce DEF HRInv, RInv, HInv
<1>3. HRInv /\ [Next]_vars => [Once]_fedVars
  BY ShakeOnce DEF StaysTaken, Taken
<1> QED BY <1>1, <1>2, <1>3, PTL DEF Spec, TakenOnce
=============================================================================
