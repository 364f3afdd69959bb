--------------------------- MODULE FederationProofs ---------------------------
(***************************************************************************)
(* Proofs about Federation, for any pools, agents, letters, environment     *)
(* peers and restarts.                                                      *)
(***************************************************************************)
EXTENDS Federation, TLAPS

(* An answer "stored" is on its way, or was read: the peer has the letter.  *)
AnswerOK(l) ==
  send[l].wire = "stored" \/ send[l].pc = "done"
    => row[send[l].peer][l].at # "none"

(* Until the request arrives no copy has crossed a link, and then only the  *)
(* peer's has.                                                              *)
Fledgling(l) == send[l].pc \in {"unused", "stored"} \/ send[l].wire = "request"

HopsOK(l) ==
  \A p \in Pools :
    /\ row[p][l].hops <= 1
    /\ row[p][l].hops = 1 => ~Fledgling(l) /\ p = send[l].peer

(* What is under way was sent by a call that found its letter.              *)
WireOK(l) == send[l].wire # "none" => send[l].pc \in {"dialing", "failed", "died"}

LetterOK(l) == AnswerOK(l) /\ HopsOK(l) /\ WireOK(l)

FInv ==
  /\ FederationTypes
  /\ \A l \in Letters : LetterOK(l)
-----------------------------------------------------------------------------
LEMMA QueuedType == \A hops \in 0..MaxHops : Queued(hops) \in Row
BY DEF Queued, Row

LEMMA RowUpdate ==
  ASSUME row \in [Pools -> [Letters -> Row]],
         NEW p \in Pools, NEW l \in Letters, NEW r \in Row
  PROVE  [row EXCEPT ![p][l] = r] \in [Pools -> [Letters -> Row]]
OBVIOUS

LEMMA MeetType ==
  ASSUME FederationTypes, NEW p \in Pools, NEW a \in Agents, Meet(p, a)
  PROVE  /\ roles' \in [Pools -> SUBSET Agents]
         /\ entry' \in [Pools -> [Agents -> {"none", "own", "shadow"}]]
<1>1. CASE a \in roles[p]
  BY <1>1 DEF Meet, FederationTypes
<1>2. CASE a \notin roles[p]
  <2>1. /\ roles' = [roles EXCEPT ![p] = roles[p] \cup {a}]
        /\ entry' = [entry EXCEPT ![p][a] = "shadow"]
    BY <1>2 DEF Meet
  <2>2. roles' \in [Pools -> SUBSET Agents]
    BY <2>1 DEF FederationTypes
  <2>3. entry' \in [Pools -> [Agents -> {"none", "own", "shadow"}]]
    BY <2>1 DEF FederationTypes
  <2> QED BY <2>2, <2>3
<1> QED BY <1>1, <1>2

(* Initially there are no letters.                                          *)
LEMMA FInitial == FederationInit => FInv
<1> SUFFICES ASSUME FederationInit PROVE FInv
  OBVIOUS
<1>1. AnyPool \in Pools /\ AnyAgent \in Agents
  BY PoolsAssumption DEF AnyPool, AnyAgent
<1>2. Unused \in Call
  BY <1>1 DEF Unused, Call
<1>3. NoRow \in Row /\ NoPeer \in PeerEntry
  BY DEF NoRow, Row, NoPeer, PeerEntry, MaxHops
<1>4. FederationTypes
  BY <1>2, <1>3, SeedRosterAssumption, FederationBoundsAssumption
     DEF FederationInit, FederationTypes
<1>5. \A l \in Letters : LetterOK(l)
  BY DEF FederationInit, LetterOK, AnswerOK, HopsOK, WireOK, Unused, NoRow
<1> QED BY <1>4, <1>5 DEF FInv
-----------------------------------------------------------------------------
(* A step that leaves the letters and their calls alone.                    *)
LEMMA RosterStep ==
  ASSUME FInv, UNCHANGED <<row, send>>, FederationTypes'
  PROVE  FInv'
BY DEF FInv, LetterOK, AnswerOK, HopsOK, WireOK, Fledgling

(* A step of one letter that is known to keep what holds of it.             *)
LEMMA OneLetterStep ==
  ASSUME FInv, FederationTypes', NEW l \in Letters,
         \A k \in Letters \ {l} : send'[k] = send[k],
         \A p \in Pools, k \in Letters \ {l} : row'[p][k] = row[p][k],
         AnswerOK(l)', HopsOK(l)', WireOK(l)'
  PROVE  FInv'
<1>1. \A k \in Letters \ {l} : send[k].peer \in Pools
  BY DEF FInv, FederationTypes, Call
<1>2. \A k \in Letters \ {l} : LetterOK(k)'
  BY <1>1 DEF FInv, LetterOK, AnswerOK, HopsOK, WireOK, Fledgling
<1> QED BY <1>2 DEF FInv, LetterOK
-----------------------------------------------------------------------------
(* The handlers of message/send, one lemma each.                            *)

LEMMA NewCallType ==
  ASSUME NEW p \in Pools, NEW q \in Pools, NEW s \in Agents, NEW r \in Agents,
         NEW pc \in {"local", "stored", "unwatched"}
  PROVE  [pool |-> p, peer |-> q, sender |-> s, receiver |-> r, pc |-> pc,
          wire |-> "none"] \in Call
BY DEF Call

LEMMA SendLocalKeeps ==
  ASSUME FInv, NEW p \in Pools, NEW l \in Letters, NEW s \in Agents, NEW r \in Agents,
         SendLocal(p, l, s, r)
  PROVE  FInv'
<1>1. FederationTypes'
  <2>1. row' \in [Pools -> [Letters -> Row]]
    BY QueuedType, RowUpdate DEF SendLocal, FInv, FederationTypes, MaxHops
  <2>2. send' \in [Letters -> Call]
    BY NewCallType DEF SendLocal, FInv, FederationTypes
  <2> QED BY <2>1, <2>2 DEF SendLocal, FInv, FederationTypes
<1>2. AnswerOK(l)'
  BY DEF SendLocal, FInv, LetterOK, FederationTypes, AnswerOK
<1>3. HopsOK(l)'
  BY DEF SendLocal, FInv, LetterOK, FederationTypes, HopsOK, Fledgling, Fresh, Queued
<1>4. WireOK(l)'
  BY DEF SendLocal, FInv, FederationTypes, WireOK
<1> QED BY <1>1, <1>2, <1>3, <1>4, OneLetterStep DEF SendLocal, FInv, FederationTypes

LEMMA SendOutKeeps ==
  ASSUME FInv, NEW p \in Pools, NEW l \in Letters, NEW s \in Agents, NEW r \in Agents,
         NEW q \in Pools, SendOut(p, l, s, r, q)
  PROVE  FInv'
<1>1. FederationTypes'
  <2>1. row' \in [Pools -> [Letters -> Row]]
    BY QueuedType, RowUpdate DEF SendOut, FInv, FederationTypes, MaxHops
  <2>2. send' \in [Letters -> Call]
    BY NewCallType DEF SendOut, FInv, FederationTypes
  <2> QED BY <2>1, <2>2, MeetType DEF SendOut, FInv, FederationTypes
<1>2. AnswerOK(l)'
  BY DEF SendOut, FInv, LetterOK, FederationTypes, AnswerOK
<1>3. HopsOK(l)'
  BY DEF SendOut, FInv, LetterOK, FederationTypes, HopsOK, Fledgling, Fresh, Queued
<1>4. WireOK(l)'
  BY DEF SendOut, FInv, FederationTypes, WireOK
<1> QED BY <1>1, <1>2, <1>3, <1>4, OneLetterStep DEF SendOut, FInv, FederationTypes

LEMMA LookUpKeeps ==
  ASSUME FInv, NEW l \in Letters, LookUp(l)
  PROVE  FInv'
<1>1. PICK pc \in {"dialing", "failed", "panicked"}, wire \in {"none", "request"} :
        /\ send' = [send EXCEPT ![l].pc = pc, ![l].wire = wire]
        /\ wire = "request" => pc = "dialing"
  <2>1. send[l].wire = "none"
    BY DEF LookUp, FInv, LetterOK, WireOK
  <2> DEFINE found == /\ send[l].receiver \in roles[send[l].pool]
                      /\ row[send[l].pool][l].at = "queued"
             looping == row[send[l].pool][l].hops >= MaxHops
  <2>2. CASE found /\ ~looping
    <3>1. send' = [send EXCEPT ![l].pc = "dialing", ![l].wire = "request"]
      BY <2>2 DEF LookUp
    <3> QED BY <3>1
  <2>3. CASE ~(found /\ ~looping)
    <3>1. \E pc \in {"failed", "panicked"} : send' = [send EXCEPT ![l].pc = pc]
      BY <2>3 DEF LookUp
    <3>2. PICK pc \in {"failed", "panicked"} : send' = [send EXCEPT ![l].pc = pc]
      BY <3>1
    <3>3. send' = [send EXCEPT ![l].pc = pc, ![l].wire = "none"]
      BY <2>1, <3>2 DEF FInv, FederationTypes, Call
    <3> QED BY <3>3
  <2> QED BY <2>2, <2>3
<1>2. FederationTypes'
  <2>1. [send[l] EXCEPT !.pc = pc, !.wire = wire] \in Call
    <3>1. send[l] \in Call
      BY DEF FInv, FederationTypes
    <3> QED BY <3>1 DEF Call
  <2>2. send' \in [Letters -> Call]
    BY <1>1, <2>1 DEF FInv, FederationTypes
  <2> QED BY <2>2 DEF LookUp, FInv, FederationTypes
<1>3. send'[l].pc = pc /\ send'[l].wire = wire /\ send'[l].peer = send[l].peer
  BY <1>1 DEF FInv, FederationTypes, Call
<1>4. AnswerOK(l)' /\ WireOK(l)'
  BY <1>1, <1>3 DEF AnswerOK, WireOK
<1>5. HopsOK(l)'
  BY <1>3 DEF LookUp, FInv, LetterOK, HopsOK, Fledgling
<1> QED BY <1>1, <1>2, <1>4, <1>5, OneLetterStep DEF LookUp, FInv, FederationTypes

LEMMA InboundType ==
  ASSUME FederationTypes, NEW q \in Pools, NEW l \in Letters, NEW s \in Agents,
         NEW r \in Agents, NEW hops \in Nat, Inbound(q, l, s, r, hops)
  PROVE  /\ roles' \in [Pools -> SUBSET Agents]
         /\ entry' \in [Pools -> [Agents -> {"none", "own", "shadow"}]]
         /\ row' \in [Pools -> [Letters -> Row]]
<1>1. CASE hops <= MaxHops
  <2>1. Queued(hops) \in Row
    BY <1>1, QueuedType DEF MaxHops
  <2> QED BY <1>1, <2>1, MeetType, RowUpdate DEF Inbound, FederationTypes
<1>2. CASE ~(hops <= MaxHops)
  BY <1>2 DEF Inbound, Accepted, FederationTypes
<1> QED BY <1>1, <1>2

LEMMA ArriveKeeps ==
  ASSUME FInv, NEW l \in Letters, Arrive(l)
  PROVE  FInv'
<1> DEFINE c == send[l]
           hops == row[c.pool][l].hops + 1
<1>1. /\ c.pool \in Pools /\ c.peer \in Pools
      /\ c.sender \in Agents /\ c.receiver \in Agents
      /\ hops = 1
  <2>1. c \in Call /\ c.wire = "request"
    BY DEF Arrive, FInv, FederationTypes
  <2>2. c.pool \in Pools /\ c.peer \in Pools /\ c.sender \in Agents /\ c.receiver \in Agents
    BY <2>1 DEF Call
  <2>3. row[c.pool][l].hops \in Nat
    <3>1. row[c.pool][l] \in Row
      BY <2>2 DEF FInv, FederationTypes
    <3> QED BY <3>1 DEF Row, MaxHops
  <2>4. row[c.pool][l].hops = 0
    BY <2>1, <2>2, <2>3 DEF FInv, LetterOK, HopsOK, Fledgling
  <2> QED BY <2>2, <2>4
<1>2. Inbound(c.peer, l, c.sender, c.receiver, 1)
  BY <1>1 DEF Arrive
<1>3. PICK wire \in {"stored", "refused"} :
        /\ send' = [send EXCEPT ![l].wire = wire]
        /\ wire = "stored" => Accepted(c.peer, c.receiver, 1)
  <2>1. send' = [send EXCEPT ![l].wire =
                   IF Accepted(c.peer, c.receiver, 1) THEN "stored" ELSE "refused"]
    BY <1>1 DEF Arrive
  <2>2. CASE Accepted(c.peer, c.receiver, 1)
    BY <2>1, <2>2
  <2>3. CASE ~Accepted(c.peer, c.receiver, 1)
    BY <2>1, <2>3
  <2> QED BY <2>2, <2>3
<1>4. FederationTypes'
  <2>1. send' \in [Letters -> Call]
    BY <1>3 DEF FInv, FederationTypes, Call
  <2> QED BY <1>1, <1>2, <2>1, InboundType DEF Arrive, FInv, FederationTypes
<1>5. row' = IF Accepted(c.peer, c.receiver, 1)
             THEN [row EXCEPT ![c.peer][l] = Queued(1)] ELSE row
  BY <1>2 DEF Inbound
<1>6. send'[l].peer = c.peer /\ send'[l].pc = c.pc /\ send'[l].wire = wire
  BY <1>3 DEF FInv, FederationTypes, Call
<1>7. AnswerOK(l)'
  <2>1. CASE Accepted(c.peer, c.receiver, 1)
    <3>1. row'[c.peer][l].at = "queued"
      BY <2>1, <1>1, <1>5 DEF Queued, FInv, FederationTypes
    <3> QED BY <3>1, <1>6 DEF AnswerOK
  <2>2. CASE ~Accepted(c.peer, c.receiver, 1)
    BY <2>2, <1>3, <1>5, <1>6 DEF AnswerOK, FInv, LetterOK
  <2> QED BY <2>1, <2>2
<1>8. HopsOK(l)' /\ WireOK(l)'
  <2>1. c.pc \in {"dialing", "failed", "died"}
    BY DEF Arrive, FInv, LetterOK, WireOK
  <2>2. \A p \in Pools : row[p][l] \in Row
    BY DEF FInv, FederationTypes
  <2>3. \A p \in Pools : row[p][l].hops = 0
    BY <2>2 DEF Arrive, FInv, LetterOK, HopsOK, Fledgling, Row, MaxHops
  <2>4. \A p \in Pools : row'[p][l].hops = 0 \/ (p = c.peer /\ row'[p][l].hops = 1)
    <3>1. CASE Accepted(c.peer, c.receiver, 1)
      BY <2>3, <3>1, <1>1, <1>5 DEF Queued, FInv, FederationTypes
    <3>2. CASE ~Accepted(c.peer, c.receiver, 1)
      BY <2>3, <3>2, <1>5
    <3> QED BY <3>1, <3>2
  <2> QED BY <2>1, <2>4, <1>6 DEF HopsOK, WireOK, Fledgling
<1>9. \A k \in Letters \ {l} : send'[k] = send[k]
  BY <1>3 DEF FInv, FederationTypes
<1>10. \A p \in Pools, k \in Letters \ {l} : row'[p][k] = row[p][k]
  BY <1>1, <1>5 DEF FInv, FederationTypes
<1> QED BY <1>4, <1>7, <1>8, <1>9, <1>10, OneLetterStep

LEMMA AnswerKeeps ==
  ASSUME FInv, NEW l \in Letters, Answer(l)
  PROVE  FInv'
<1> DEFINE c == send[l]
<1>1. c \in Call /\ c.pool \in Pools /\ c.peer \in Pools
  BY DEF FInv, FederationTypes, Call
<1>2. PICK pc \in {"done", "failed"} :
        /\ send' = [send EXCEPT ![l].wire = "none", ![l].pc = pc]
        /\ pc = "done" => c.wire = "stored"
  <2>1. CASE c.wire = "stored"
    <3>1. send' = [send EXCEPT ![l].wire = "none", ![l].pc = "done"]
      BY <2>1 DEF Answer
    <3> QED BY <2>1, <3>1
  <2>2. CASE c.wire # "stored"
    <3>1. send' = [send EXCEPT ![l].wire = "none", ![l].pc = "failed"]
      BY <2>2 DEF Answer
    <3> QED BY <3>1
  <2> QED BY <2>1, <2>2
<1>3. PICK at \in {"none", "queued", "handed", "deleted"} :
        /\ row' = [row EXCEPT ![c.pool][l].at = at]
        /\ row[c.pool][l].at # "none" => at # "none"
  <2>1. row[c.pool][l].at \in {"none", "queued", "handed", "deleted"}
    <3>1. row[c.pool][l] \in Row
      BY <1>1 DEF FInv, FederationTypes
    <3> QED BY <3>1 DEF Row
  <2>2. CASE /\ c.wire = "stored" /\ row[c.pool][l].at = "queued"
             /\ c.receiver \in roles[c.pool]
    <3>1. row' = [row EXCEPT ![c.pool][l].at = "handed"]
      BY <2>2 DEF Answer
    <3> QED BY <3>1
  <2>3. CASE ~ /\ c.wire = "stored" /\ row[c.pool][l].at = "queued"
               /\ c.receiver \in roles[c.pool]
    <3>1. row' = [row EXCEPT ![c.pool][l].at = row[c.pool][l].at]
      BY <2>3 DEF Answer
    <3> QED BY <2>1, <3>1
  <2> QED BY <2>2, <2>3
<1>4. FederationTypes'
  <2>1. [c EXCEPT !.wire = "none", !.pc = pc] \in Call
    BY <1>1 DEF Call
  <2>2. send' \in [Letters -> Call]
    BY <1>2, <2>1 DEF FInv, FederationTypes
  <2>3. row[c.pool][l] \in Row
    BY <1>1 DEF FInv, FederationTypes
  <2>4. [row[c.pool][l] EXCEPT !.at = at] \in Row
    BY <2>3 DEF Row
  <2>5. row' \in [Pools -> [Letters -> Row]]
    BY <1>1, <1>3, <2>4, RowUpdate DEF FInv, FederationTypes
  <2> QED BY <2>2, <2>5 DEF Answer, FInv, FederationTypes
<1>5. send'[l].pc = pc /\ send'[l].wire = "none" /\ send'[l].peer = c.peer
  BY <1>1, <1>2 DEF FInv, FederationTypes, Call
<1>6. \A p \in Pools : row'[p][l].hops = row[p][l].hops
  <2>1. \A p \in Pools : row[p][l] \in Row
    BY DEF FInv, FederationTypes
  <2> QED BY <1>1, <1>3, <2>1 DEF FInv, FederationTypes, Row
<1>7. row[c.peer][l].at # "none" => row'[c.peer][l].at # "none"
  <2>1. CASE c.peer = c.pool
    <3>1. row[c.peer][l] \in Row
      BY <1>1 DEF FInv, FederationTypes
    <3> QED BY <1>1, <1>3, <2>1, <3>1 DEF FInv, FederationTypes, Row
  <2>2. CASE c.peer # c.pool
    BY <1>1, <1>3, <2>2 DEF FInv, FederationTypes
  <2> QED BY <2>1, <2>2
<1>8. AnswerOK(l)' /\ WireOK(l)'
  BY <1>2, <1>5, <1>7 DEF FInv, LetterOK, AnswerOK, WireOK
<1>9. HopsOK(l)'
  BY <1>5, <1>6 DEF FInv, LetterOK, HopsOK, Fledgling, Answer
<1>10. /\ \A k \in Letters \ {l} : send'[k] = send[k]
       /\ \A p \in Pools, k \in Letters \ {l} : row'[p][k] = row[p][k]
  BY <1>1, <1>2, <1>3 DEF FInv, FederationTypes
<1> QED BY <1>4, <1>8, <1>9, <1>10, OneLetterStep

LEMMA GiveUpKeeps ==
  ASSUME FInv, NEW l \in Letters, GiveUp(l)
  PROVE  FInv'
<1>1. send' = [send EXCEPT ![l].pc = "failed"] /\ UNCHANGED row
  BY DEF GiveUp
<1>2. send[l] \in Call
  BY DEF FInv, FederationTypes
<1>3. FederationTypes'
  <2>1. [send[l] EXCEPT !.pc = "failed"] \in Call
    BY <1>2 DEF Call
  <2>2. send' \in [Letters -> Call]
    BY <1>1, <2>1 DEF FInv, FederationTypes
  <2> QED BY <2>2 DEF GiveUp, FInv, FederationTypes
<1>4. send'[l].pc = "failed" /\ send'[l].wire = send[l].wire /\ send'[l].peer = send[l].peer
  BY <1>1, <1>2 DEF FInv, FederationTypes, Call
<1>5. AnswerOK(l)' /\ WireOK(l)' /\ HopsOK(l)'
  BY <1>1, <1>4
     DEF FInv, LetterOK, AnswerOK, WireOK, HopsOK, Fledgling, GiveUp
<1> QED BY <1>1, <1>3, <1>5, OneLetterStep DEF FInv, FederationTypes

LEMMA LoseKeeps ==
  ASSUME FInv, NEW l \in Letters, Lose(l)
  PROVE  FInv'
<1>1. send' = [send EXCEPT ![l].wire = "none"] /\ UNCHANGED row
  BY DEF Lose
<1>2. send[l] \in Call
  BY DEF FInv, FederationTypes
<1>3. FederationTypes'
  <2>1. [send[l] EXCEPT !.wire = "none"] \in Call
    BY <1>2 DEF Call
  <2>2. send' \in [Letters -> Call]
    BY <1>1, <2>1 DEF FInv, FederationTypes
  <2> QED BY <2>2 DEF Lose, FInv, FederationTypes
<1>4. send'[l].pc = send[l].pc /\ send'[l].wire = "none" /\ send'[l].peer = send[l].peer
  BY <1>1, <1>2 DEF FInv, FederationTypes, Call
<1>5. AnswerOK(l)' /\ WireOK(l)' /\ HopsOK(l)'
  BY <1>1, <1>4
     DEF FInv, LetterOK, AnswerOK, WireOK, HopsOK, Fledgling
<1> QED BY <1>1, <1>3, <1>5, OneLetterStep DEF FInv, FederationTypes

(* What happens to a letter at rest keeps the copy and its hops.            *)
LEMMA ShelfStep ==
  ASSUME FInv, NEW p \in Pools, NEW l \in Letters, NEW r \in Row,
         row' = [row EXCEPT ![p][l] = r],
         r.hops = row[p][l].hops, r.at # "none",
         UNCHANGED <<roles, entry, peers, send, restarts>>
  PROVE  FInv'
<1>1. FederationTypes'
  BY RowUpdate DEF FInv, FederationTypes
<1>2. \A q \in Pools : /\ row'[q][l].hops = row[q][l].hops
                       /\ row[q][l].at # "none" => row'[q][l].at # "none"
  BY DEF FInv, FederationTypes
<1>3. send[l].peer \in Pools
  BY DEF FInv, FederationTypes, Call
<1>4. AnswerOK(l)' /\ WireOK(l)' /\ HopsOK(l)'
  BY <1>2, <1>3 DEF FInv, LetterOK, AnswerOK, WireOK, HopsOK, Fledgling
<1> QED BY <1>1, <1>4, OneLetterStep DEF FInv, FederationTypes

LEMMA TakeKeeps ==
  ASSUME FInv, NEW p \in Pools, NEW l \in Letters, Take(p, l)
  PROVE  FInv'
<1> DEFINE r == [row[p][l] EXCEPT !.at = "handed"]
<1>1. row[p][l] \in Row
  BY DEF FInv, FederationTypes
<1>2. r \in Row /\ r.hops = row[p][l].hops /\ r.at = "handed"
  BY <1>1 DEF Row
<1>3. row' = [row EXCEPT ![p][l] = r]
  BY DEF Take
<1> HIDE DEF r
<1> QED BY <1>2, <1>3, ShelfStep DEF Take

LEMMA DeleteKeeps ==
  ASSUME FInv, NEW p \in Pools, NEW l \in Letters, Delete(p, l)
  PROVE  FInv'
<1> DEFINE r == [row[p][l] EXCEPT !.at = "deleted"]
<1>1. row[p][l] \in Row
  BY DEF FInv, FederationTypes
<1>2. r \in Row /\ r.hops = row[p][l].hops /\ r.at = "deleted"
  BY <1>1 DEF Row
<1>3. row' = [row EXCEPT ![p][l] = r]
  BY DEF Delete
<1> HIDE DEF r
<1> QED BY <1>2, <1>3, ShelfStep DEF Delete

-----------------------------------------------------------------------------
(* Rosters, and restarts.                                                   *)

LEMMA RegisterKeeps ==
  ASSUME FInv, NEW a \in Agents, Register(a)
  PROVE  FInv'
<1>1. Home[a] \in Pools
  BY HomeAssumption
<1>2. roles' \in [Pools -> SUBSET Agents]
  BY <1>1 DEF Register, FInv, FederationTypes
<1>3. entry' \in [Pools -> [Agents -> {"none", "own", "shadow"}]]
  BY <1>1 DEF Register, FInv, FederationTypes
<1> QED BY <1>2, <1>3, RosterStep DEF Register, FInv, FederationTypes

LEMMA UnregisterKeeps ==
  ASSUME FInv, NEW p \in Pools, NEW a \in Agents, Unregister(p, a)
  PROVE  FInv'
<1>1. roles' \in [Pools -> SUBSET Agents]
  BY DEF Unregister, FInv, FederationTypes
<1>2. entry' \in [Pools -> [Agents -> {"none", "own", "shadow"}]]
  BY DEF Unregister, FInv, FederationTypes
<1> QED BY <1>1, <1>2, RosterStep DEF Unregister, FInv, FederationTypes

LEMMA SendOutRefusedKeeps ==
  ASSUME FInv, NEW p \in Pools, NEW s \in Agents, NEW r \in Agents,
         SendOutRefused(p, s, r)
  PROVE  FInv'
BY MeetType, RosterStep DEF SendOutRefused, FInv, FederationTypes

LEMMA RestartKeeps ==
  ASSUME FInv, NEW p \in Pools, Restart(p)
  PROVE  FInv'
<1>1. \A l \in Letters :
        \/ send'[l] = send[l]
        \/ /\ send[l].pc \in {"stored", "dialing"}
           /\ send'[l] = [send[l] EXCEPT !.pc = "died"]
  BY DEF Restart
<1>2. \A l \in Letters : send[l] \in Call
  BY DEF FInv, FederationTypes
<1>3. \A l \in Letters : send'[l] \in Call
  <2> SUFFICES ASSUME NEW l \in Letters PROVE send'[l] \in Call
    OBVIOUS
  <2>1. send[l] \in Call /\ [send[l] EXCEPT !.pc = "died"] \in Call
    BY <1>2 DEF Call
  <2> QED BY <1>1, <2>1
<1>4. FederationTypes'
  <2>1. send' \in [Letters -> Call]
    BY <1>3 DEF Restart
  <2>2. roles' \in [Pools -> SUBSET Agents]
    BY SeedRosterAssumption DEF Restart, FInv, FederationTypes
  <2>3. restarts' \in 0..MaxRestarts
    BY FederationBoundsAssumption DEF Restart, FInv, FederationTypes
  <2> QED BY <2>1, <2>2, <2>3 DEF Restart, FInv, FederationTypes
<1>5. \A l \in Letters :
        \/ send'[l] = send[l]
        \/ /\ send'[l].pc = "died" /\ send[l].pc \in {"stored", "dialing"}
           /\ send'[l].wire = send[l].wire /\ send'[l].peer = send[l].peer
  BY <1>1, <1>2 DEF Call
<1>6. \A l \in Letters : LetterOK(l)'
  <2> SUFFICES ASSUME NEW l \in Letters PROVE LetterOK(l)'
    OBVIOUS
  <2>1. LetterOK(l) /\ UNCHANGED row
    BY DEF FInv, Restart
  <2> QED BY <1>5, <2>1 DEF LetterOK, AnswerOK, HopsOK, WireOK, Fledgling
<1> QED BY <1>4, <1>6 DEF FInv

LEMMA TrafficKeeps == FInv /\ Traffic => FInv'
<1> SUFFICES ASSUME FInv, Traffic PROVE FInv'
  OBVIOUS
<1>1. CASE Senders
  BY <1>1, SendLocalKeeps, SendOutKeeps, SendOutRefusedKeeps DEF Senders
<1>2. CASE Forwarding
  BY <1>2, LookUpKeeps, ArriveKeeps, AnswerKeeps, GiveUpKeeps, LoseKeeps DEF Forwarding
<1>3. CASE Mailboxes
  BY <1>3, TakeKeeps, DeleteKeeps DEF Mailboxes
<1>4. CASE Rosters
  BY <1>4, RegisterKeeps, UnregisterKeeps DEF Rosters
<1> QED BY <1>1, <1>2, <1>3, <1>4 DEF Traffic

LEMMA FStutter == FInv /\ UNCHANGED fedVars => FInv'
BY DEF FInv, fedVars, FederationTypes, LetterOK, AnswerOK, HopsOK, WireOK, Fledgling

LEMMA FederationInvariant == FederationSpec => []FInv
<1>1. FInv /\ [FederationNext]_fedVars => FInv'
  BY TrafficKeeps, RestartKeeps, FStutter DEF FederationNext
<1> QED BY FInitial, <1>1, PTL DEF FederationSpec
-----------------------------------------------------------------------------
LEMMA FInvImplies == FInv => FederationTypeOK /\ ForwardedIsStored /\ OneLink
<1> SUFFICES ASSUME FInv PROVE FederationTypeOK /\ ForwardedIsStored /\ OneLink
  OBVIOUS
<1>1. ForwardedIsStored
  BY DEF FInv, LetterOK, AnswerOK, ForwardedIsStored
<1>2. OneLink
  BY DEF FInv, LetterOK, HopsOK, OneLink
<1>3. FederationTypeOK
  BY DEF FInv, LetterOK, WireOK, FederationTypeOK
<1> QED BY <1>1, <1>2, <1>3

(* Pools keep to their types, and nothing is under way but what a call sent *)
(* that had found its letter, however many pools there are and however      *)
(* often they restart.                                                      *)
THEOREM FederationTypeCorrect == FederationSpec => []FederationTypeOK
BY FederationInvariant, FInvImplies, PTL

(* No sender is told "forwarded" of a letter the peer never had.            *)
THEOREM ForwardedLettersAreStored == FederationSpec => []ForwardedIsStored
BY FederationInvariant, FInvImplies, PTL

(* Whatever pools expect of each other, a letter crosses one link at most.  *)
THEOREM LettersCrossOneLink == FederationSpec => []OneLink
BY FederationInvariant, FInvImplies, PTL
-----------------------------------------------------------------------------
(* At most once.  A request is the only thing that queues a letter at a     *)
(* peer; until it has arrived the peer has no copy.                         *)
Expected(l) == send[l].pc = "stored" \/ send[l].wire = "request"

RequestOK(l) ==
  send[l].peer # send[l].pool /\ Expected(l) => row[send[l].peer][l].at = "none"

RInv == FInv /\ \A l \in Letters : RequestOK(l)

(* What TakenOnce says of one letter.                                       *)
Taken(p, l) ==
  /\ send[l].peer # send[l].pool
  /\ row[p][l].at \in {"handed", "deleted"}

StaysTaken(l) ==
  \A p \in Pools : Taken(p, l) => row'[p][l].at \in {"handed", "deleted"}

(* Nothing happens to a letter and its call.                                *)
LEMMA UntouchedLetter ==
  ASSUME RInv, NEW l \in Letters, send'[l] = send[l],
         \A p \in Pools : row'[p][l] = row[p][l]
  PROVE  RequestOK(l)' /\ StaysTaken(l)
<1>1. send[l].peer \in Pools
  BY DEF RInv, FInv, FederationTypes, Call
<1> QED BY <1>1 DEF RInv, RequestOK, Expected, StaysTaken, Taken

(* A call that expects no more than before, and rows that only move on.     *)
LEMMA LetterMovesOn ==
  ASSUME RInv, NEW l \in Letters,
         send'[l].peer = send[l].peer, send'[l].pool = send[l].pool,
         Expected(l)' => Expected(l),
         \A p \in Pools : /\ row[p][l].at = "none" => row'[p][l].at = "none"
                          /\ row[p][l].at \in {"handed", "deleted"}
                               => row'[p][l].at \in {"handed", "deleted"}
  PROVE  RequestOK(l)' /\ StaysTaken(l)
<1>1. send[l].peer \in Pools
  BY DEF RInv, FInv, FederationTypes, Call
<1> QED BY <1>1 DEF RInv, RequestOK, StaysTaken, Taken

LEMMA SendLocalOnce ==
  ASSUME RInv, NEW p \in Pools, NEW l \in Letters, NEW s \in Agents, NEW r \in Agents,
         SendLocal(p, l, s, r), NEW k \in Letters
  PROVE  RequestOK(k)' /\ StaysTaken(k)
<1>1. CASE k = l
  BY <1>1 DEF SendLocal, Fresh, RInv, FInv, FederationTypes, RequestOK, Expected,
              StaysTaken, Taken
<1>2. CASE k # l
  BY <1>2, UntouchedLetter DEF SendLocal, RInv, FInv, FederationTypes
<1> QED BY <1>1, <1>2

LEMMA SendOutOnce ==
  ASSUME RInv, NEW p \in Pools, NEW l \in Letters, NEW s \in Agents, NEW r \in Agents,
         NEW q \in Pools, SendOut(p, l, s, r, q), NEW k \in Letters
  PROVE  RequestOK(k)' /\ StaysTaken(k)
<1>1. CASE k = l
  <2>1. send'[l].pool = p /\ send'[l].peer = q
    BY DEF SendOut, RInv, FInv, FederationTypes
  <2>2. \A o \in Pools : row[o][l].at = "none"
    BY DEF SendOut, Fresh
  <2>3. q # p => row'[q][l].at = "none"
    BY <2>2 DEF SendOut, RInv, FInv, FederationTypes
  <2> QED BY <1>1, <2>1, <2>2, <2>3 DEF RequestOK, StaysTaken, Taken
<1>2. CASE k # l
  BY <1>2, UntouchedLetter DEF SendOut, RInv, FInv, FederationTypes
<1> QED BY <1>1, <1>2

LEMMA LookUpOnce ==
  ASSUME RInv, NEW l \in Letters, LookUp(l), NEW k \in Letters
  PROVE  RequestOK(k)' /\ StaysTaken(k)
<1>1. send[l] \in Call /\ UNCHANGED row /\ Expected(l)
  BY DEF LookUp, RInv, FInv, FederationTypes, Expected
<1>2. /\ send'[l].peer = send[l].peer /\ send'[l].pool = send[l].pool
      /\ k # l => send'[k] = send[k]
  BY <1>1 DEF LookUp, RInv, FInv, FederationTypes, Call
<1> QED BY <1>1, <1>2, LetterMovesOn, UntouchedLetter

(* The request is consumed by the copy it makes.                            *)
LEMMA ArriveOnce ==
  ASSUME RInv, NEW l \in Letters, Arrive(l), NEW k \in Letters
  PROVE  RequestOK(k)' /\ StaysTaken(k)
<1> DEFINE c == send[l]
           hops == row[c.pool][l].hops + 1
<1>1. c \in Call /\ c.peer \in Pools /\ c.wire = "request" /\ Expected(l)
  BY DEF Arrive, RInv, FInv, FederationTypes, Call, Expected
<1>2. c.pc # "stored"
  BY <1>1 DEF RInv, FInv, LetterOK, WireOK
<1>3. PICK wire \in {"stored", "refused"} : send' = [send EXCEPT ![l].wire = wire]
  BY DEF Arrive
<1>4. row' = [row EXCEPT ![c.peer][l] = Queued(hops)] \/ row' = row
  BY DEF Arrive, Inbound
<1>5. CASE k = l
  <2>1. /\ send'[l].peer = c.peer /\ send'[l].pool = c.pool
        /\ send'[l].pc = c.pc /\ send'[l].wire = wire
    BY <1>1, <1>3 DEF RInv, FInv, FederationTypes, Call
  <2>2. RequestOK(l)'
    BY <1>2, <2>1 DEF RequestOK, Expected
  <2>3. c.peer # c.pool => row[c.peer][l].at = "none"
    BY <1>1 DEF RInv, RequestOK
  <2>4. \A p \in Pools \ {c.peer} : row'[p][l] = row[p][l]
    BY <1>4 DEF RInv, FInv, FederationTypes
  <2>5. StaysTaken(l)
    BY <2>3, <2>4 DEF StaysTaken, Taken
  <2> QED BY <1>5, <2>2, <2>5
<1>6. CASE k # l
  <2>1. send'[k] = send[k]
    BY <1>3, <1>6 DEF RInv, FInv, FederationTypes
  <2>2. CASE row' = [row EXCEPT ![c.peer][l] = Queued(hops)]
    <3> HIDE DEF c, hops
    <3>1. \A p \in Pools : row'[p][k] = row[p][k]
      BY <1>1, <1>6, <2>2 DEF RInv, FInv, FederationTypes
    <3> QED BY <2>1, <3>1, UntouchedLetter
  <2>3. CASE row' = row
    BY <2>1, <2>3, UntouchedLetter
  <2> QED BY <1>4, <2>2, <2>3
<1> QED BY <1>5, <1>6

LEMMA AnswerOnce ==
  ASSUME RInv, NEW l \in Letters, Answer(l), NEW k \in Letters
  PROVE  RequestOK(k)' /\ StaysTaken(k)
<1> DEFINE c == send[l]
<1>1. c \in Call /\ c.pool \in Pools
  BY DEF RInv, FInv, FederationTypes, Call
<1>2. /\ send'[l].peer = c.peer /\ send'[l].pool = c.pool
      /\ send'[l].pc # "stored" /\ send'[l].wire = "none"
  BY <1>1 DEF Answer, RInv, FInv, FederationTypes, Call
<1>3. PICK at : /\ row' = [row EXCEPT ![c.pool][l].at = at]
                /\ at = row[c.pool][l].at \/ (row[c.pool][l].at = "queued" /\ at = "handed")
  <2>1. CASE /\ c.wire = "stored" /\ row[c.pool][l].at = "queued"
             /\ c.receiver \in roles[c.pool]
    BY <2>1 DEF Answer
  <2>2. CASE ~ /\ c.wire = "stored" /\ row[c.pool][l].at = "queued"
               /\ c.receiver \in roles[c.pool]
    <3>1. row' = [row EXCEPT ![c.pool][l].at = row[c.pool][l].at]
      BY <2>2 DEF Answer
    <3> QED BY <3>1
  <2> QED BY <2>1, <2>2
<1>4. CASE k = l
  <2>1. \A p \in Pools : row[p][l] \in Row
    BY DEF RInv, FInv, FederationTypes
  <2>2. row'[c.pool][l].at = at /\ \A p \in Pools \ {c.pool} : row'[p][l] = row[p][l]
    BY <1>1, <1>3, <2>1 DEF RInv, FInv, FederationTypes, Row
  <2>3. \A p \in Pools : /\ row[p][l].at = "none" => row'[p][l].at = "none"
                         /\ row[p][l].at \in {"handed", "deleted"}
                              => row'[p][l].at \in {"handed", "deleted"}
    BY <1>3, <2>2
  <2>4. ~Expected(l)'
    BY <1>2 DEF Expected
  <2> QED BY <1>2, <1>4, <2>3, <2>4, LetterMovesOn
<1>5. CASE k # l
  <2>1. send'[k] = send[k]
    BY <1>5 DEF Answer, RInv, FInv, FederationTypes
  <2>2. \A p \in Pools : row'[p][k] = row[p][k]
    BY <1>1, <1>3, <1>5 DEF RInv, FInv, FederationTypes
  <2> QED BY <2>1, <2>2, UntouchedLetter
<1> QED BY <1>4, <1>5

(* The call ends, or what is under way is lost: no copy is touched.         *)
LEMMA GiveUpOrLoseOnce ==
  ASSUME RInv, NEW l \in Letters, GiveUp(l) \/ Lose(l), NEW k \in Letters
  PROVE  RequestOK(k)' /\ StaysTaken(k)
<1>1. send[l] \in Call /\ UNCHANGED row
  BY DEF GiveUp, Lose, RInv, FInv, FederationTypes
<1>2. /\ send'[l].peer = send[l].peer /\ send'[l].pool = send[l].pool
      /\ send'[l].pc \in {send[l].pc, "failed"}
      /\ send'[l].wire \in {send[l].wire, "none"}
      /\ k # l => send'[k] = send[k]
  BY <1>1 DEF GiveUp, Lose, RInv, FInv, FederationTypes, Call
<1>3. Expected(l)' => Expected(l)
  BY <1>2 DEF Expected
<1> QED BY <1>1, <1>2, <1>3, LetterMovesOn, UntouchedLetter

LEMMA MailboxesOnce ==
  ASSUME RInv, Mailboxes, NEW k \in Letters
  PROVE  RequestOK(k)' /\ StaysTaken(k)
<1>1. PICK p \in Pools, l \in Letters : Take(p, l) \/ Delete(p, l)
  BY DEF Mailboxes
<1>2. UNCHANGED send
  BY <1>1 DEF Take, Delete
<1>3. row[p][l] \in Row
  BY DEF RInv, FInv, FederationTypes
<1>4. \A o \in Pools : o # p \/ k # l => row'[o][k] = row[o][k]
  BY <1>1 DEF Take, Delete, RInv, FInv, FederationTypes
<1>5. /\ row[p][l].at # "none"
      /\ row[p][l].at \in {"handed", "deleted"} => row'[p][l].at \in {"handed", "deleted"}
  BY <1>1, <1>3 DEF Take, Delete, RInv, FInv, FederationTypes, Row
<1>6. Expected(k)' = Expected(k)
  BY <1>2 DEF Expected
<1>7. \A o \in Pools : /\ row[o][k].at = "none" => row'[o][k].at = "none"
                       /\ row[o][k].at \in {"handed", "deleted"}
                            => row'[o][k].at \in {"handed", "deleted"}
  BY <1>4, <1>5
<1> QED BY <1>2, <1>6, <1>7, LetterMovesOn

LEMMA RestartOnce ==
  ASSUME RInv, NEW p \in Pools, Restart(p), NEW k \in Letters
  PROVE  RequestOK(k)' /\ StaysTaken(k)
<1>1. send[k] \in Call /\ UNCHANGED row
  BY DEF Restart, RInv, FInv, FederationTypes
<1>2. send'[k] = send[k] \/ send'[k] = [send[k] EXCEPT !.pc = "died"]
  BY DEF Restart
<1>3. /\ send'[k].peer = send[k].peer /\ send'[k].pool = send[k].pool
      /\ send'[k].pc \in {send[k].pc, "died"} /\ send'[k].wire = send[k].wire
  BY <1>1, <1>2 DEF Call
<1>4. Expected(k)' => Expected(k)
  BY <1>3 DEF Expected
<1> QED BY <1>1, <1>3, <1>4, LetterMovesOn

LEMMA NextOnce ==
  ASSUME RInv, [FederationNext]_fedVars, NEW k \in Letters
  PROVE  RequestOK(k)' /\ StaysTaken(k)
<1>1. CASE Senders
  <2>1. CASE \E p \in Pools, l \in Letters, s, r \in Agents : SendLocal(p, l, s, r)
    BY <2>1, SendLocalOnce
  <2>2. CASE \E p \in Pools, l \in Letters, s, r \in Agents, q \in Pools :
               SendOut(p, l, s, r, q)
    BY <2>2, SendOutOnce
  <2>3. CASE \E p \in Pools, s, r \in Agents : SendOutRefused(p, s, r)
    BY <2>3, UntouchedLetter DEF SendOutRefused
  <2> QED BY <1>1, <2>1, <2>2, <2>3 DEF Senders
<1>2. CASE Forwarding
  BY <1>2, LookUpOnce, ArriveOnce, AnswerOnce, GiveUpOrLoseOnce DEF Forwarding
<1>3. CASE Mailboxes
  BY <1>3, MailboxesOnce
<1>4. CASE Rosters
  BY <1>4, UntouchedLetter DEF Rosters, Register, Unregister
<1>5. CASE \E p \in Pools : Restart(p)
  BY <1>5, RestartOnce
<1>6. CASE UNCHANGED fedVars
  BY <1>6, UntouchedLetter DEF fedVars
<1> QED BY <1>1, <1>2, <1>3, <1>4, <1>5, <1>6 DEF FederationNext, Traffic

(* No letter is queued a second time where it was taken or deleted, for any *)
(* number of pools, letters and restarts, however late requests arrive.     *)
THEOREM LettersAreTakenOnce == FederationSpec => TakenOnce
<1> DEFINE Once == \A p \in Pools, l \in Letters :
                     /\ send[l].peer # send[l].pool
                     /\ row[p][l].at \in {"handed", "deleted"}
                     => row'[p][l].at \in {"handed", "deleted"}
<1>1. FederationInit => RInv
  BY FInitial DEF RInv, FederationInit, RequestOK, Expected, Unused
<1>2. RInv /\ [FederationNext]_fedVars => RInv'
  <2>1. FInv /\ [FederationNext]_fedVars => FInv'
    BY TrafficKeeps, RestartKeeps, FStutter DEF FederationNext
  <2> QED BY <2>1, NextOnce DEF RInv
<1>3. RInv /\ [FederationNext]_fedVars => [Once]_fedVars
  BY NextOnce DEF StaysTaken, Taken
<1> QED BY <1>1, <1>2, <1>3, PTL DEF FederationSpec, TakenOnce
===============================================================================
