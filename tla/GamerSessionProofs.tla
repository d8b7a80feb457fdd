-------------------------- MODULE GamerSessionProofs --------------------------
(***************************************************************************)
(* Proofs about GamerSession, for any number of sessions and gamers, any   *)
(* capacity of the queues and any bounds on what else happens.             *)
(*                                                                         *)
(* Both properties rest on what a request that has just arrived brings:    *)
(* its session is new.  KnownInv and QueueInv say that nothing in memory   *)
(* carries it, ReqInv that it has not been answered; so a reconnect never  *)
(* deletes the entry it has just made (IndexInv).  A queued message is of  *)
(* a session that is answered or that the gate has given up on (QueueInv); *)
(* so one of the others is queued after its task (OrderInv).               *)
(***************************************************************************)
EXTENDS GamerSession, TLAPS

Entering == req.op \in {"login", "reconnect"}

(* What the steps of a request may count on.                                *)
ReqInv ==
    /\ req.pc = "idle" <=> req.op = "none"
    /\ req.pc \in {"index", "gid"} => req.op = "login" /\ byGid = NoGamer
    /\ req.pc = "replace" => req.op = "reconnect"
    /\ req.pc = "task" => Entering
    /\ Entering => req.sess \notin answered

(* Sessions in memory have asked to come in; none is the one that just did. *)
Known(s) == s <= asked /\ (Entering /\ req.pc = "find" => s # req.sess)
KnownInv == (\A g \in Gamers : Known(playerSess[g])) /\ Known(kick.sess)

QueueInv ==
    \A g \in Gamers : \A i \in DOMAIN queue[g] :
        /\ g <= made /\ Known(queue[g][i].sess)
        /\ queue[g][i].kind = "online" => queue[g][i].sess # None
        /\ queue[g][i].kind = "message" => queue[g][i].sess \in answered \cup givenUp

(* LoginRunsFirst without the bound of the queue.                           *)
OrderInv ==
    \A g \in Gamers : \A i, j \in DOMAIN queue[g] :
        i < j /\ queue[g][i].kind = "message" /\ queue[g][i].sess \notin givenUp
        /\ queue[g][j].kind \in {"login", "online"}
            => queue[g][i].sess # queue[g][j].sess

(* The session that a request is about to index leads to its gamer, unless  *)
(* that was stopped meanwhile.                                              *)
IndexInv ==
    /\ req.pc = "gid" => stopped[req.gamer] \/ bySess[req.sess] = req.gamer
    /\ req.pc = "replace" =>
           req.sess # req.old /\ (Live(byGid) => bySess[req.sess] = byGid)
    /\ Reachable

GamerInv == GamerTypeOK /\ ReqInv /\ KnownInv /\ QueueInv /\ OrderInv /\ IndexInv

-----------------------------------------------------------------------------
(* Queues: what they hold, and what an addition and a run change.           *)
LEMMA QueueFacts ==
    ASSUME GamerTypeOK, NEW g \in Gamers
    PROVE  /\ queue[g] \in Seq(Tasks) /\ Len(queue[g]) \in Nat /\ DOMAIN queue[g] = 1..Len(queue[g])
           /\ \A i \in DOMAIN queue[g] : queue[g][i] \in Tasks
<1>1. queue[g] \in Seq(Tasks)
  BY DEF GamerTypeOK
<1> QED
  BY <1>1

LEMMA Added ==
    ASSUME GamerTypeOK, NEW g \in Gamers, NEW t \in Tasks, Accepts(g), Add(g, t)
    PROVE  /\ queue' \in [Gamers -> Seq(Tasks)] /\ \A h \in Gamers : Len(queue'[h]) <= QueueSize
           /\ \A h \in Gamers : \A i \in DOMAIN queue'[h] :
                 \/ i \in DOMAIN queue[h] /\ queue'[h][i] = queue[h][i]
                 \/ h = g /\ i = Len(queue[g]) + 1 /\ queue'[h][i] = t
<1>1. PICK n \in Nat : n = Len(queue[g]) /\ n < QueueSize
  BY QueueFacts DEF Accepts
<1>2. queue[g] \in Seq(Tasks) /\ queue \in [Gamers -> Seq(Tasks)]
  BY DEF GamerTypeOK
<1>3. queue'[g] = Append(queue[g], t) /\ \A h \in Gamers : h # g => queue'[h] = queue[h]
  BY <1>2 DEF Add
<1>4. /\ queue'[g] \in Seq(Tasks) /\ Len(queue'[g]) = n + 1 /\ DOMAIN queue'[g] = 1..(n + 1)
      /\ queue'[g][n + 1] = t /\ \A i \in 1..n : queue'[g][i] = queue[g][i]
      /\ DOMAIN queue[g] = 1..n
  BY <1>1, <1>2, <1>3
<1>5. queue' \in [Gamers -> Seq(Tasks)]
  BY <1>2, <1>4 DEF Add
<1>6. \A h \in Gamers : Len(queue'[h]) <= QueueSize
  <2>1. Len(queue'[g]) <= QueueSize
    BY <1>1, <1>4, GamerParameters DEF GamerParameters
  <2> QED
    BY <1>3, <2>1 DEF GamerTypeOK
<1>7. \A i \in DOMAIN queue'[g] :
          \/ i \in DOMAIN queue[g] /\ queue'[g][i] = queue[g][i]
          \/ i = n + 1 /\ queue'[g][i] = t
  BY <1>4
<1> QED
  BY <1>1, <1>3, <1>5, <1>6, <1>7

LEMMA Ran ==
    ASSUME GamerTypeOK, NEW g \in Gamers, queue[g] # <<>>,
           queue' = [queue EXCEPT ![g] = Tail(@)]
    PROVE  /\ queue' \in [Gamers -> Seq(Tasks)] /\ \A h \in Gamers : Len(queue'[h]) <= QueueSize
           /\ 1 \in DOMAIN queue[g] /\ Head(queue[g]) = queue[g][1]
           /\ \A h \in Gamers : \A i \in DOMAIN queue'[h] :
                 /\ h # g => i \in DOMAIN queue[h] /\ queue'[h][i] = queue[h][i]
                 /\ h = g => i \in Nat /\ i + 1 \in DOMAIN queue[h] /\ queue'[h][i] = queue[h][i + 1]
<1>1. queue[g] \in Seq(Tasks) /\ queue \in [Gamers -> Seq(Tasks)]
  BY DEF GamerTypeOK
<1>2. queue'[g] = Tail(queue[g]) /\ \A h \in Gamers : h # g => queue'[h] = queue[h]
  BY <1>1
<1>3. /\ queue'[g] \in Seq(Tasks) /\ Len(queue'[g]) = Len(queue[g]) - 1 /\ Len(queue[g]) \in Nat
      /\ 1 \in DOMAIN queue[g] /\ Head(queue[g]) = queue[g][1]
      /\ \A i \in DOMAIN queue'[g] :
             i \in Nat /\ i + 1 \in DOMAIN queue[g] /\ queue'[g][i] = queue[g][i + 1]
  BY <1>1, <1>2
<1>4. queue' \in [Gamers -> Seq(Tasks)]
  BY <1>1, <1>3
<1>5. \A h \in Gamers : Len(queue'[h]) <= QueueSize
  <2>1. Len(queue[g]) <= QueueSize /\ QueueSize \in Nat
    BY GamerParameters DEF GamerTypeOK, GamerParameters
  <2>2. Len(queue'[g]) <= QueueSize
    BY <1>3, <2>1
  <2> QED
    BY <1>2, <2>2 DEF GamerTypeOK
<1> QED
  BY <1>2, <1>3, <1>4, <1>5

LEMMA Parameters ==
    /\ MaxGamers \in Nat /\ MaxSessions \in Nat /\ Gamers \subseteq Nat /\ Sessions \subseteq Nat
    /\ None \notin Sessions /\ NoGamer \notin Gamers /\ None = 0 /\ NoGamer = 0
    /\ \A g : g \in Gamers <=> g \in Nat /\ 1 <= g /\ g <= MaxGamers
    /\ \A s : s \in Sessions <=> s \in Nat /\ 1 <= s /\ s <= MaxSessions
BY GamerParameters DEF GamerParameters, Gamers, Sessions, None, NoGamer

(* The parts of the type invariant.                                         *)
IndexTypes == made \in 0..MaxGamers /\ bySess \in [Sessions -> 0..made] /\ byGid \in 0..made
StateTypes ==
    /\ playerSess \in [Gamers -> Sessions \cup {None}]
    /\ online \in [Gamers -> BOOLEAN] /\ stopped \in [Gamers -> BOOLEAN]
    /\ \A g \in Gamers : playerSess[g] = None <=> g > made
QueueTypes == queue \in [Gamers -> Seq(Tasks)] /\ \A g \in Gamers : Len(queue[g]) <= QueueSize
ReqTypes ==
    /\ req \in [pc : {"idle", "find", "index", "gid", "replace", "task", "del_sess", "del_gid"},
                op : {"none", "login", "reconnect", "switch"},
                sess : Sessions \cup {None}, gamer : 0..made, old : Sessions \cup {None}]
    /\ req.pc \in {"index", "gid", "replace", "task", "del_sess", "del_gid"} => req.gamer # NoGamer
    /\ req.op \in {"login", "reconnect"} => req.sess \in 1..asked
    /\ req.pc = "replace" => req.old # None
AskTypes ==
    answered \subseteq 1..asked /\ givenUp \subseteq 1..asked /\ asked \in 0..MaxSessions
KickTypes ==
    /\ kick \in [pc : {"idle", "load", "store"}, sess : Sessions \cup {None}, gamer : 0..made]
    /\ kick.pc # "idle" => kick.gamer # NoGamer /\ kick.sess # None
RestTypes ==
    /\ drain \subseteq Sessions /\ drainGid \in BOOLEAN
    /\ stopping \in BOOLEAN /\ stopPc \in {"no", "offline", "done"}

Types == IndexTypes /\ StateTypes /\ QueueTypes /\ ReqTypes /\ AskTypes /\ KickTypes /\ RestTypes

LEMMA TypeParts == Types <=> GamerTypeOK
BY DEF Types, GamerTypeOK, IndexTypes, StateTypes, QueueTypes, ReqTypes, AskTypes, KickTypes, RestTypes

(* What the steps need of the types.                                        *)
LEMMA TypeFacts ==
    ASSUME GamerTypeOK
    PROVE  /\ made \in Nat /\ made <= MaxGamers /\ asked \in Nat /\ asked <= MaxSessions
           /\ byGid \in Nat /\ byGid <= made /\ (byGid # NoGamer => byGid \in Gamers)
           /\ req.gamer \in Nat /\ req.gamer <= made /\ (req.gamer # NoGamer => req.gamer \in Gamers)
           /\ kick.gamer \in Nat /\ kick.gamer <= made /\ (kick.gamer # NoGamer => kick.gamer \in Gamers)
           /\ req.sess \in Sessions \cup {None} /\ kick.sess \in Sessions \cup {None}
           /\ \A g \in Gamers : playerSess[g] \in Sessions \cup {None}
           /\ \A g \in Gamers : g <= made => playerSess[g] \in Sessions
           /\ \A s \in Sessions : bySess[s] \in Nat /\ bySess[s] <= made
           /\ \A s \in answered : s \in Sessions /\ s <= asked
           /\ \A s \in 1..asked : s \in Sessions
<1>1. made \in Nat /\ made <= MaxGamers /\ asked \in Nat /\ asked <= MaxSessions
  BY Parameters DEF GamerTypeOK
<1>2. byGid \in Nat /\ byGid <= made /\ \A s \in Sessions : bySess[s] \in Nat /\ bySess[s] <= made
  BY <1>1 DEF GamerTypeOK
<1>3. /\ req.gamer \in 0..made /\ kick.gamer \in 0..made
      /\ req.sess \in Sessions \cup {None} /\ kick.sess \in Sessions \cup {None}
  BY DEF GamerTypeOK
<1>4. \A g \in Gamers : playerSess[g] \in Sessions \cup {None} /\ (playerSess[g] = None <=> g > made)
  BY DEF GamerTypeOK
<1>5. \A g \in Nat : g # NoGamer /\ g <= made => g \in Gamers
  BY <1>1, Parameters
<1>6. \A s \in 1..asked : s \in Sessions /\ s <= asked
  BY <1>1, Parameters
<1>7. answered \subseteq 1..asked
  BY DEF GamerTypeOK
<1>8. \A g \in Gamers : g <= made => playerSess[g] \in Sessions
  BY <1>1, <1>4, Parameters
<1> QED
  BY <1>1, <1>2, <1>3, <1>4, <1>5, <1>6, <1>7, <1>8

-----------------------------------------------------------------------------
(* The queues, when they stay as they are, grow or shrink.                  *)
Keeps == \A s \in Nat : Known(s) => Known(s)'

LEMMA QueueKept ==
    ASSUME GamerInv, UNCHANGED queue, made' \in Nat, made' >= made, answered \subseteq answered', givenUp \subseteq givenUp', Keeps
    PROVE  QueueTypes' /\ QueueInv' /\ OrderInv'
<1>1. QueueTypes'
  BY DEF GamerInv, GamerTypeOK, QueueTypes
<1>2. ASSUME NEW g \in Gamers, NEW i \in DOMAIN queue[g]
      PROVE  /\ g <= made' /\ Known(queue[g][i].sess)'
             /\ queue[g][i].kind = "online" => queue[g][i].sess # None
             /\ queue[g][i].kind = "message" => queue[g][i].sess \in answered' \cup givenUp'
  <2>1. queue[g][i].sess \in Nat
    BY QueueFacts, Parameters DEF GamerInv, Tasks
  <2>2. g \in Nat /\ made \in Nat /\ g <= made
    BY TypeFacts, Parameters DEF GamerInv, QueueInv
  <2>3. Known(queue[g][i].sess)'
    BY <2>1 DEF GamerInv, QueueInv, Keeps
  <2> QED
    BY <2>2, <2>3 DEF GamerInv, QueueInv
<1>3. QueueInv'
  BY <1>2 DEF QueueInv
<1>4. OrderInv'
  BY DEF GamerInv, OrderInv
<1> QED
  BY <1>1, <1>3, <1>4

LEMMA QueueGrows ==
    ASSUME GamerInv, NEW g \in Gamers, g <= made, NEW t \in Tasks, Accepts(g), Add(g, t),
           made' = made, answered \subseteq answered', givenUp \subseteq givenUp', Keeps, Known(t.sess)',
           t.kind = "online" => t.sess # None,
           t.kind = "message" => t.sess \in answered' \cup givenUp',
           t.kind \in {"login", "online"} => t.sess \notin answered
    PROVE  QueueTypes' /\ QueueInv' /\ OrderInv'
<1>1. QueueTypes'
  BY Added DEF GamerInv, QueueTypes
<1>2. \A h \in Gamers : \A i \in DOMAIN queue'[h] :
          \/ i \in DOMAIN queue[h] /\ queue'[h][i] = queue[h][i]
          \/ h = g /\ i = Len(queue[g]) + 1 /\ queue'[h][i] = t
  BY Added DEF GamerInv
<1>3. \A h \in Gamers : \A i \in DOMAIN queue'[h] :
          /\ h <= made' /\ Known(queue[h][i].sess)'
          /\ queue'[h][i].kind = "online" => queue'[h][i].sess # None
          /\ queue'[h][i].kind = "message" => queue'[h][i].sess \in answered' \cup givenUp'
  <2> TAKE h \in Gamers
  <2> TAKE i \in DOMAIN queue'[h]
  <2>1. CASE i \in DOMAIN queue[h] /\ queue'[h][i] = queue[h][i]
    <3>1. PICK s \in Nat : s = queue[h][i].sess
      BY <2>1, QueueFacts, Parameters DEF GamerInv, Tasks
    <3>2. Known(s)'
      BY <2>1, <3>1 DEF GamerInv, QueueInv, Keeps
    <3>3. Known(queue[h][i].sess)'
      BY <2>1, <3>1, <3>2
    <3> QED
      BY <2>1, <3>3 DEF GamerInv, QueueInv
  <2>2. CASE h = g /\ queue'[h][i] = t
    <3>1. Known(queue[h][i].sess)'
      BY <2>2
    <3> QED
      BY <2>2, <3>1
  <2> QED
    BY <1>2, <2>1, <2>2
<1>4. QueueInv'
  BY <1>3 DEF QueueInv
<1>5. OrderInv'
  <2> SUFFICES ASSUME NEW h \in Gamers, NEW i \in DOMAIN queue'[h], NEW j \in DOMAIN queue'[h], i < j,
                      queue'[h][i].kind = "message", queue'[h][i].sess \notin givenUp',
                      queue'[h][j].kind \in {"login", "online"}
               PROVE  queue'[h][i].sess # queue'[h][j].sess
    BY DEF OrderInv
  <2>1. CASE i \in DOMAIN queue[h] /\ queue'[h][i] = queue[h][i] /\ queue'[h][j] = t
    <3>1. queue[h][i].sess \in answered
      BY <2>1 DEF GamerInv, QueueInv
    <3> QED
      BY <2>1, <3>1
  <2>2. CASE /\ i \in DOMAIN queue[h] /\ queue'[h][i] = queue[h][i]
             /\ j \in DOMAIN queue[h] /\ queue'[h][j] = queue[h][j]
    BY <2>2 DEF GamerInv, OrderInv
  <2>3. CASE h = g /\ i = Len(queue[g]) + 1
    <3>1. Len(queue[g]) \in Nat /\ DOMAIN queue[g] = 1..Len(queue[g])
      BY QueueFacts DEF GamerInv
    <3>2. j \in 1..Len(queue[g]) \/ j = Len(queue[g]) + 1
      BY <1>2, <2>3, <3>1
    <3> QED
      BY <2>3, <3>1, <3>2
  <2> QED
    BY <1>2, <2>1, <2>2, <2>3
<1> QED
  BY <1>1, <1>4, <1>5

LEMMA QueueShrinks ==
    ASSUME GamerInv, NEW g \in Gamers, queue[g] # <<>>, queue' = [queue EXCEPT ![g] = Tail(@)],
           UNCHANGED <<made, givenUp, answered>>, Keeps
    PROVE  QueueTypes' /\ QueueInv' /\ OrderInv'
<1>1. QueueTypes'
  BY Ran DEF GamerInv, QueueTypes
<1>2. \A h \in Gamers : \A i \in DOMAIN queue'[h] :
          /\ h # g => i \in DOMAIN queue[h] /\ queue'[h][i] = queue[h][i]
          /\ h = g => i \in Nat /\ i + 1 \in DOMAIN queue[h] /\ queue'[h][i] = queue[h][i + 1]
  BY Ran DEF GamerInv
<1>3. \A h \in Gamers : \A i \in DOMAIN queue'[h] :
          \E j \in DOMAIN queue[h] : queue'[h][i] = queue[h][j]
  BY <1>2
<1>4. QueueInv'
  <2>1. ASSUME NEW h \in Gamers, NEW i \in DOMAIN queue'[h]
        PROVE  /\ h <= made' /\ Known(queue[h][i].sess)'
               /\ queue'[h][i].kind = "online" => queue'[h][i].sess # None
               /\ queue'[h][i].kind = "message" => queue'[h][i].sess \in answered' \cup givenUp'
    <3>1. PICK j \in DOMAIN queue[h] : queue'[h][i] = queue[h][j]
      BY <1>3
    <3>2. PICK s \in Nat : s = queue[h][j].sess
      BY QueueFacts, Parameters DEF GamerInv, Tasks
    <3>3. Known(s)'
      BY <3>2 DEF GamerInv, QueueInv, Keeps
    <3>4. Known(queue[h][i].sess)'
      BY <3>1, <3>2, <3>3
    <3> QED
      BY <3>1, <3>4 DEF GamerInv, QueueInv
  <2> QED
    BY <2>1 DEF QueueInv
<1>5. OrderInv'
  <2> SUFFICES ASSUME NEW h \in Gamers, NEW i \in DOMAIN queue'[h], NEW j \in DOMAIN queue'[h], i < j,
                      queue'[h][i].kind = "message", queue'[h][i].sess \notin givenUp',
                      queue'[h][j].kind \in {"login", "online"}
               PROVE  queue'[h][i].sess # queue'[h][j].sess
    BY DEF OrderInv
  <2>1. CASE h = g
    <3>1. i + 1 \in DOMAIN queue[h] /\ j + 1 \in DOMAIN queue[h] /\ i + 1 < j + 1
      BY <1>2, <2>1
    <3>2. queue'[h][i] = queue[h][i + 1] /\ queue'[h][j] = queue[h][j + 1]
      BY <1>2, <2>1
    <3> QED
      BY <3>1, <3>2 DEF GamerInv, OrderInv
  <2>2. CASE h # g
    BY <1>2, <2>2 DEF GamerInv, OrderInv
  <2> QED
    BY <2>1, <2>2
<1> QED
  BY <1>1, <1>4, <1>5

LEMMA KnownKept ==
    ASSUME GamerInv, Keeps, UNCHANGED <<playerSess, kick>>
    PROVE  KnownInv'
<1>1. ASSUME NEW g \in Gamers PROVE Known(playerSess[g])'
  <2>1. PICK s \in Nat : s = playerSess[g] /\ Known(s)
    BY TypeFacts, Parameters DEF GamerInv, KnownInv
  <2> QED
    BY <2>1 DEF Keeps
<1>2. Known(kick.sess)'
  <2>1. PICK s \in Nat : s = kick.sess /\ Known(s)
    BY TypeFacts, Parameters DEF GamerInv, KnownInv
  <2> QED
    BY <2>1 DEF Keeps
<1> QED
  BY <1>1, <1>2 DEF KnownInv

-----------------------------------------------------------------------------
(* A request arrives with a new session, or to switch the gamer out.        *)
LEMMA LoginArrivesStep ==
    ASSUME GamerInv, NEW op \in {"login", "reconnect"}, LoginArrives(op)
    PROVE  GamerInv'
<1>1. /\ req.pc = "idle" /\ asked < MaxSessions /\ asked' = asked + 1
      /\ req' = [pc |-> "find", op |-> op, sess |-> asked + 1, gamer |-> NoGamer, old |-> None]
      /\ UNCHANGED <<made, bySess, byGid, playerSess, online, stopped, queue, givenUp, answered,
                     kick, drain, drainGid, stopping, stopPc>>
  BY DEF LoginArrives, Arrive, Idle, indexVars, stateVars, otherVars
<1>2. asked \in Nat /\ made \in Nat /\ asked + 1 \in Sessions
  BY <1>1, TypeFacts, Parameters DEF GamerInv
<1>3. Keeps
  BY <1>1, <1>2 DEF Keeps, Known
<1>4. QueueTypes' /\ QueueInv' /\ OrderInv' /\ KnownInv'
  BY <1>1, <1>2, <1>3, QueueKept, KnownKept
<1>5. Types'
  <2>1. IndexTypes' /\ StateTypes' /\ KickTypes' /\ RestTypes'
    BY <1>1 DEF GamerInv, GamerTypeOK, IndexTypes, StateTypes, KickTypes, RestTypes
  <2>2. ReqTypes'
    BY <1>1, <1>2, Parameters DEF ReqTypes
  <2>3. AskTypes'
    BY <1>1, <1>2, Parameters DEF GamerInv, GamerTypeOK, AskTypes
  <2> QED
    BY <1>4, <2>1, <2>2, <2>3 DEF Types
<1>6. ReqInv'
  BY <1>1, <1>2, TypeFacts DEF GamerInv, ReqInv, Entering
<1>7. IndexInv'
  BY <1>1 DEF GamerInv, IndexInv, Reachable, Live
<1> QED
  BY <1>4, <1>5, <1>6, <1>7, TypeParts, PTL DEF GamerInv

LEMMA SwitchArrivesStep ==
    ASSUME GamerInv, SwitchArrives
    PROVE  GamerInv'
<1>1. /\ req' = [pc |-> "find", op |-> "switch", sess |-> None, gamer |-> NoGamer, old |-> None]
      /\ UNCHANGED <<made, bySess, byGid, playerSess, online, stopped, queue, asked, givenUp, answered,
                     kick, drain, drainGid, stopping, stopPc>>
  BY DEF SwitchArrives, Arrive, Idle, indexVars, stateVars, otherVars
<1>2. Keeps
  BY <1>1 DEF Keeps, Known, Entering
<1>3. QueueTypes' /\ QueueInv' /\ OrderInv' /\ KnownInv'
  BY <1>1, <1>2, QueueKept, KnownKept, TypeFacts DEF GamerInv
<1>4. Types'
  <2>1. IndexTypes' /\ StateTypes' /\ KickTypes' /\ RestTypes' /\ AskTypes'
    BY <1>1 DEF GamerInv, GamerTypeOK, IndexTypes, StateTypes, KickTypes, RestTypes, AskTypes
  <2>2. ReqTypes'
    BY <1>1, TypeFacts, Parameters DEF ReqTypes, GamerInv
  <2> QED
    BY <1>3, <2>1, <2>2 DEF Types
<1>5. ReqInv'
  BY <1>1 DEF ReqInv, Entering
<1>6. IndexInv'
  BY <1>1 DEF GamerInv, IndexInv, Reachable, Live
<1> QED
  BY <1>3, <1>4, <1>5, <1>6, TypeParts, PTL DEF GamerInv

(* A request ends: nobody enters, whatever it is answered.                  *)
LEMMA AnswerStep ==
    ASSUME GamerInv, req' = Idle, answered' \in {answered, answered \cup {req.sess}},
           givenUp' \in {givenUp, givenUp \cup {req.sess}},
           req.op \in {"login", "reconnect"} \/ UNCHANGED <<givenUp, answered>>,
           UNCHANGED <<made, indexVars, stateVars, stopped, queue, asked, otherVars>>
    PROVE  GamerInv'
<1>1. /\ req' = [pc |-> "idle", op |-> "none", sess |-> None, gamer |-> NoGamer, old |-> None]
      /\ UNCHANGED <<made, bySess, byGid, playerSess, online, stopped, queue, asked,
                     kick, drain, drainGid, stopping, stopPc>>
  BY DEF Idle, indexVars, stateVars, otherVars
<1>2. Keeps
  BY <1>1 DEF Keeps, Known, Entering
<1>3. QueueTypes' /\ QueueInv' /\ OrderInv' /\ KnownInv'
  BY <1>1, <1>2, QueueKept, KnownKept, TypeFacts DEF GamerInv
<1>4. Types'
  <2>1. IndexTypes' /\ StateTypes' /\ KickTypes' /\ RestTypes'
    BY <1>1 DEF GamerInv, GamerTypeOK, IndexTypes, StateTypes, KickTypes, RestTypes
  <2>2. ReqTypes'
    BY <1>1, TypeFacts, Parameters DEF ReqTypes, GamerInv
  <2>3. AskTypes'
    BY <1>1 DEF GamerInv, GamerTypeOK, AskTypes
  <2> QED
    BY <1>3, <2>1, <2>2, <2>3 DEF Types
<1>5. ReqInv'
  BY <1>1 DEF ReqInv, Entering
<1>6. IndexInv'
  BY <1>1 DEF GamerInv, IndexInv, Reachable, Live
<1> QED
  BY <1>3, <1>4, <1>5, <1>6, TypeParts, PTL DEF GamerInv

(* Login of a gamer in memory, and of a new one.                            *)
LEMMA LoginFindStep ==
    ASSUME GamerInv, LoginFind
    PROVE  GamerInv'
<1>1. CASE stopped[byGid]
  BY <1>1, AnswerStep DEF LoginFind, Answer, stateVars
<1>2. CASE ~stopped[byGid]
  <2>1. /\ req.pc = "find" /\ req.op = "login" /\ byGid # NoGamer
        /\ req' = [req EXCEPT !.pc = "task", !.gamer = byGid]
        /\ playerSess' = [playerSess EXCEPT ![byGid] = req.sess]
        /\ online' = [online EXCEPT ![byGid] = TRUE]
        /\ UNCHANGED <<made, bySess, byGid, stopped, queue, asked, givenUp, answered,
                       kick, drain, drainGid, stopping, stopPc>>
    BY <1>2 DEF LoginFind, indexVars, otherVars
  <2>2. PICK s \in Sessions : s = req.sess /\ s <= asked
    BY <2>1, TypeFacts DEF GamerInv, GamerTypeOK
  <2>3. byGid \in Gamers /\ byGid \in Nat /\ byGid <= made /\ made \in Nat
    BY <2>1, TypeFacts DEF GamerInv
  <2>4. req' = [pc |-> "task", op |-> "login", sess |-> s, gamer |-> byGid, old |-> req.old]
    BY <2>1, <2>2 DEF GamerInv, GamerTypeOK
  <2>5. Keeps
    BY <2>1, <2>4 DEF Keeps, Known
  <2>6. QueueTypes' /\ QueueInv' /\ OrderInv'
    BY <2>1, <2>3, <2>5, QueueKept
  <2>7. Types'
    <3>1. IndexTypes' /\ KickTypes' /\ RestTypes' /\ AskTypes'
      BY <2>1 DEF GamerInv, GamerTypeOK, IndexTypes, KickTypes, RestTypes, AskTypes
    <3>2. StateTypes'
      BY <2>1, <2>2, <2>3, Parameters DEF GamerInv, GamerTypeOK, StateTypes
    <3>3. ReqTypes'
      BY <2>1, <2>2, <2>3, <2>4, Parameters DEF GamerInv, GamerTypeOK, ReqTypes
    <3> QED
      BY <2>6, <3>1, <3>2, <3>3 DEF Types
  <2>8. ReqInv'
    BY <2>1, <2>2, <2>4 DEF GamerInv, ReqInv, Entering
  <2>9. KnownInv'
    <3>1. ASSUME NEW g \in Gamers PROVE Known(playerSess[g])'
      <4>1. PICK r \in Nat : r = playerSess[g] /\ Known(r)'
        BY <2>5, TypeFacts, Parameters DEF GamerInv, KnownInv, Keeps
      <4>2. playerSess'[g] = IF g = byGid THEN s ELSE r
        BY <2>1, <2>2, <4>1 DEF GamerInv, GamerTypeOK
      <4>3. Known(s)'
        BY <2>1, <2>2, <2>4 DEF Known
      <4> QED
        BY <4>1, <4>2, <4>3
    <3>2. PICK r \in Nat : r = kick.sess /\ Known(r)'
      BY <2>5, TypeFacts, Parameters DEF GamerInv, KnownInv, Keeps
    <3> QED
      BY <2>1, <3>1, <3>2 DEF KnownInv
  <2>10. IndexInv'
    BY <2>1, <2>4 DEF GamerInv, IndexInv, Reachable, Live
  <2> QED
    BY <2>6, <2>7, <2>8, <2>9, <2>10, TypeParts, PTL DEF GamerInv
<1> QED
  BY <1>1, <1>2

LEMMA LoginCreateStep ==
    ASSUME GamerInv, LoginCreate
    PROVE  GamerInv'
<1>1. /\ req.pc = "find" /\ req.op = "login" /\ byGid = NoGamer /\ made < MaxGamers
      /\ made' = made + 1
      /\ playerSess' = [playerSess EXCEPT ![made + 1] = req.sess]
      /\ online' = [online EXCEPT ![made + 1] = TRUE]
      /\ req' = [req EXCEPT !.pc = "index", !.gamer = made + 1]
      /\ UNCHANGED <<bySess, byGid, stopped, queue, asked, givenUp, answered,
                     kick, drain, drainGid, stopping, stopPc>>
  BY DEF LoginCreate, indexVars, otherVars
<1>2. PICK s \in Sessions : s = req.sess /\ s <= asked /\ s \in 1..asked
  BY <1>1, TypeFacts DEF GamerInv, GamerTypeOK
<1>3. PICK g \in Gamers : g = made + 1 /\ made \in Nat /\ g \in Nat /\ g # NoGamer
  BY <1>1, TypeFacts, Parameters DEF GamerInv
<1>4. req' = [pc |-> "index", op |-> "login", sess |-> s, gamer |-> g, old |-> req.old]
  BY <1>1, <1>2, <1>3 DEF GamerInv, GamerTypeOK
<1>5. Keeps
  BY <1>1, <1>4 DEF Keeps, Known
<1>6. QueueTypes' /\ QueueInv' /\ OrderInv'
  BY <1>1, <1>3, <1>5, QueueKept
<1>7. Types'
  <2>1. RestTypes' /\ AskTypes'
    BY <1>1 DEF GamerInv, GamerTypeOK, RestTypes, AskTypes
  <2>2. 0..made \subseteq 0..g /\ g \in 0..g /\ g \in 0..MaxGamers /\ made' = g
    BY <1>1, <1>3, Parameters
  <2>3. IndexTypes'
    BY <1>1, <2>2 DEF GamerInv, GamerTypeOK, IndexTypes
  <2>4. KickTypes'
    BY <1>1, <2>2 DEF GamerInv, GamerTypeOK, KickTypes
  <2>5. StateTypes'
    <3>1. playerSess' = [playerSess EXCEPT ![g] = s] /\ online' = [online EXCEPT ![g] = TRUE]
      BY <1>1, <1>2, <1>3
    <3>2. \A h \in Gamers : h # g => (playerSess[h] = None <=> h > made') /\ playerSess'[h] = playerSess[h]
      BY <1>1, <1>3, <3>1, Parameters DEF GamerInv, GamerTypeOK
    <3>3. playerSess'[g] = s /\ s # None /\ ~(g > made')
      BY <1>3, <2>2, <3>1, Parameters DEF GamerInv, GamerTypeOK
    <3> QED
      BY <1>1, <3>1, <3>2, <3>3 DEF GamerInv, GamerTypeOK, StateTypes
  <2>6. ReqTypes'
    BY <1>1, <1>2, <1>3, <1>4, <2>2 DEF GamerInv, GamerTypeOK, ReqTypes
  <2> QED
    BY <1>6, <2>1, <2>3, <2>4, <2>5, <2>6 DEF Types
<1>8. ReqInv'
  BY <1>1, <1>2, <1>4 DEF GamerInv, ReqInv, Entering
<1>9. KnownInv'
  <2>1. ASSUME NEW h \in Gamers PROVE Known(playerSess[h])'
    <3>1. PICK r \in Nat : r = playerSess[h] /\ Known(r)'
      BY <1>5, TypeFacts, Parameters DEF GamerInv, KnownInv, Keeps
    <3>2. playerSess'[h] = IF h = g THEN s ELSE r
      BY <1>1, <1>2, <1>3, <3>1 DEF GamerInv, GamerTypeOK
    <3>3. Known(s)'
      BY <1>1, <1>2, <1>4 DEF Known
    <3> QED
      BY <3>1, <3>2, <3>3
  <2>2. PICK r \in Nat : r = kick.sess /\ Known(r)'
    BY <1>5, TypeFacts, Parameters DEF GamerInv, KnownInv, Keeps
  <2> QED
    BY <1>1, <2>1, <2>2 DEF KnownInv
<1>10. IndexInv'
  BY <1>1, <1>4 DEF GamerInv, IndexInv, Reachable, Live
<1> QED
  BY <1>6, <1>7, <1>8, <1>9, <1>10, TypeParts, PTL DEF GamerInv

(* AddGamer: byGid is empty meanwhile, so no entry is lost.                 *)
LEMMA AddBySessStep ==
    ASSUME GamerInv, AddBySess
    PROVE  GamerInv'
<1>1. /\ req.pc = "index" /\ req.op = "login" /\ byGid = NoGamer
      /\ bySess' = [bySess EXCEPT ![req.sess] = req.gamer]
      /\ req' = [req EXCEPT !.pc = "gid"]
      /\ UNCHANGED <<made, byGid, playerSess, online, stopped, queue, asked, givenUp, answered,
                     kick, drain, drainGid, stopping, stopPc>>
  BY DEF AddBySess, GamerInv, ReqInv, stateVars, otherVars
<1>2. PICK s \in Sessions : s = req.sess /\ s \in 1..asked
  BY <1>1, TypeFacts DEF GamerInv, GamerTypeOK
<1>3. req' = [pc |-> "gid", op |-> "login", sess |-> s, gamer |-> req.gamer, old |-> req.old]
  BY <1>1, <1>2 DEF GamerInv, GamerTypeOK
<1>4. Keeps
  BY <1>1, <1>3 DEF Keeps, Known
<1>5. QueueTypes' /\ QueueInv' /\ OrderInv' /\ KnownInv'
  BY <1>1, <1>4, QueueKept, KnownKept, TypeFacts DEF GamerInv
<1>6. bySess' \in [Sessions -> 0..made] /\ bySess'[s] = req.gamer
  BY <1>1, <1>2 DEF GamerInv, GamerTypeOK
<1>7. Types'
  <2>1. IndexTypes' /\ StateTypes' /\ KickTypes' /\ RestTypes' /\ AskTypes'
    BY <1>1, <1>6 DEF GamerInv, GamerTypeOK, IndexTypes, StateTypes, KickTypes, RestTypes, AskTypes
  <2>2. ReqTypes'
    BY <1>1, <1>2, <1>3 DEF ReqTypes, GamerInv, GamerTypeOK
  <2> QED
    BY <1>5, <2>1, <2>2 DEF Types
<1>8. ReqInv'
  BY <1>1, <1>2, <1>3 DEF GamerInv, ReqInv, Entering
<1>9. IndexInv'
  BY <1>1, <1>3, <1>6 DEF IndexInv, Reachable, Live
<1> QED
  BY <1>5, <1>7, <1>8, <1>9, TypeParts, PTL DEF GamerInv

LEMMA AddByGidStep ==
    ASSUME GamerInv, AddByGid
    PROVE  GamerInv'
<1>1. /\ req.pc = "gid" /\ req.op = "login" /\ byGid' = req.gamer
      /\ req' = [req EXCEPT !.pc = "task"]
      /\ UNCHANGED <<made, bySess, playerSess, online, stopped, queue, asked, givenUp, answered,
                     kick, drain, drainGid, stopping, stopPc>>
  BY DEF AddByGid, GamerInv, ReqInv, stateVars, otherVars
<1>2. PICK s \in Sessions : s = req.sess /\ s \in 1..asked
  BY <1>1, TypeFacts DEF GamerInv, GamerTypeOK
<1>3. req' = [pc |-> "task", op |-> "login", sess |-> s, gamer |-> req.gamer, old |-> req.old]
  BY <1>1, <1>2 DEF GamerInv, GamerTypeOK
<1>4. Keeps
  BY <1>1, <1>3 DEF Keeps, Known
<1>5. QueueTypes' /\ QueueInv' /\ OrderInv' /\ KnownInv'
  BY <1>1, <1>4, QueueKept, KnownKept, TypeFacts DEF GamerInv
<1>6. Types'
  <2>1. IndexTypes' /\ StateTypes' /\ KickTypes' /\ RestTypes' /\ AskTypes'
    BY <1>1 DEF GamerInv, GamerTypeOK, IndexTypes, StateTypes, KickTypes, RestTypes, AskTypes
  <2>2. ReqTypes'
    BY <1>1, <1>2, <1>3 DEF ReqTypes, GamerInv, GamerTypeOK
  <2> QED
    BY <1>5, <2>1, <2>2 DEF Types
<1>7. ReqInv'
  BY <1>1, <1>2, <1>3 DEF GamerInv, ReqInv, Entering
<1>8. IndexInv'
  <2>1. stopped[req.gamer] \/ bySess[s] = req.gamer
    BY <1>1, <1>2 DEF GamerInv, IndexInv
  <2> QED
    BY <1>1, <1>3, <2>1 DEF IndexInv, Reachable, Live
<1> QED
  BY <1>5, <1>6, <1>7, <1>8, TypeParts, PTL DEF GamerInv

(* ReplaceGamerSessId: the old session is not the new one.                  *)
LEMMA ReconnectFindStep ==
    ASSUME GamerInv, ReconnectFind
    PROVE  GamerInv'
<1>1. CASE ~Live(byGid)
  BY <1>1, AnswerStep DEF ReconnectFind, Answer, indexVars
<1>2. CASE Live(byGid)
  <2>1. /\ req.pc = "find" /\ req.op = "reconnect" /\ byGid # NoGamer
        /\ bySess' = [bySess EXCEPT ![req.sess] = byGid]
        /\ req' = [req EXCEPT !.pc = "replace", !.gamer = byGid, !.old = playerSess[byGid]]
        /\ UNCHANGED <<made, byGid, playerSess, online, stopped, queue, asked, givenUp, answered,
                       kick, drain, drainGid, stopping, stopPc>>
    BY <1>2 DEF ReconnectFind, stateVars, otherVars, Live
  <2>2. PICK s \in Sessions : s = req.sess /\ s \in 1..asked
    BY <2>1, TypeFacts DEF GamerInv, GamerTypeOK
  <2>3. byGid \in Gamers /\ playerSess[byGid] \in Sessions
    BY <2>1, TypeFacts DEF GamerInv
  <2>4. req' = [pc |-> "replace", op |-> "reconnect", sess |-> s, gamer |-> byGid,
                old |-> playerSess[byGid]]
    BY <2>1, <2>2 DEF GamerInv, GamerTypeOK
  <2>5. playerSess[byGid] # s
    BY <2>1, <2>2, <2>3 DEF GamerInv, KnownInv, Known, Entering
  <2>6. Keeps
    BY <2>1, <2>4 DEF Keeps, Known
  <2>7. QueueTypes' /\ QueueInv' /\ OrderInv' /\ KnownInv'
    BY <2>1, <2>6, QueueKept, KnownKept, TypeFacts DEF GamerInv
  <2>8. bySess' \in [Sessions -> 0..made] /\ bySess'[s] = byGid
    BY <2>1, <2>2 DEF GamerInv, GamerTypeOK
  <2>9. Types'
    <3>1. IndexTypes' /\ StateTypes' /\ KickTypes' /\ RestTypes' /\ AskTypes'
      BY <2>1, <2>8 DEF GamerInv, GamerTypeOK, IndexTypes, StateTypes, KickTypes, RestTypes, AskTypes
    <3>2. ReqTypes'
      BY <2>1, <2>2, <2>3, <2>4, Parameters DEF ReqTypes, GamerInv, GamerTypeOK
    <3> QED
      BY <2>7, <3>1, <3>2 DEF Types
  <2>10. ReqInv'
    BY <2>1, <2>2, <2>4 DEF GamerInv, ReqInv, Entering
  <2>11. IndexInv'
    <3>1. req'.pc = "replace" /\ req'.sess = s /\ req'.old = playerSess[byGid]
      BY <2>4
    <3>4. byGid' = byGid
      BY <2>1
    <3>2. bySess'[req'.sess] = byGid'
      BY <2>8, <3>1, <3>4
    <3>3. Reachable'
      BY <2>8, <3>4 DEF Reachable
    <3> QED
      BY <2>5, <3>1, <3>2, <3>3 DEF IndexInv
  <2> QED
    BY <2>7, <2>9, <2>10, <2>11, TypeParts, PTL DEF GamerInv
<1> QED
  BY <1>1, <1>2

LEMMA ReplaceOldStep ==
    ASSUME GamerInv, ReplaceOld
    PROVE  GamerInv'
<1>1. /\ req.pc = "replace" /\ req.op = "reconnect"
      /\ bySess' = [bySess EXCEPT ![req.old] = NoGamer]
      /\ req' = [req EXCEPT !.pc = "task"]
      /\ UNCHANGED <<made, byGid, playerSess, online, stopped, queue, asked, givenUp, answered,
                     kick, drain, drainGid, stopping, stopPc>>
  BY DEF ReplaceOld, GamerInv, ReqInv, stateVars, otherVars
<1>2. PICK s \in Sessions : s = req.sess /\ s \in 1..asked
  BY <1>1, TypeFacts DEF GamerInv, GamerTypeOK
<1>3. req' = [pc |-> "task", op |-> "reconnect", sess |-> s, gamer |-> req.gamer, old |-> req.old]
  BY <1>1, <1>2 DEF GamerInv, GamerTypeOK
<1>4. Keeps
  BY <1>1, <1>3 DEF Keeps, Known
<1>5. QueueTypes' /\ QueueInv' /\ OrderInv' /\ KnownInv'
  BY <1>1, <1>4, QueueKept, KnownKept, TypeFacts DEF GamerInv
<1>6. /\ bySess' \in [Sessions -> 0..made]
      /\ \A r \in Sessions : r # req.old => bySess'[r] = bySess[r]
  <2>1. NoGamer \in 0..made
    BY TypeFacts, Parameters DEF GamerInv
  <2> QED
    BY <1>1, <2>1 DEF GamerInv, GamerTypeOK
<1>7. Types'
  <2>1. IndexTypes' /\ StateTypes' /\ KickTypes' /\ RestTypes' /\ AskTypes'
    BY <1>1, <1>6 DEF GamerInv, GamerTypeOK, IndexTypes, StateTypes, KickTypes, RestTypes, AskTypes
  <2>2. ReqTypes'
    BY <1>1, <1>2, <1>3 DEF ReqTypes, GamerInv, GamerTypeOK
  <2> QED
    BY <1>5, <2>1, <2>2 DEF Types
<1>8. ReqInv'
  BY <1>1, <1>2, <1>3 DEF GamerInv, ReqInv, Entering
<1>9. IndexInv'
  <2>1. s # req.old /\ (Live(byGid) => bySess[s] = byGid)
    BY <1>1, <1>2 DEF GamerInv, IndexInv
  <2> QED
    BY <1>1, <1>3, <1>6, <2>1 DEF IndexInv, Reachable, Live
<1> QED
  BY <1>5, <1>7, <1>8, <1>9, TypeParts, PTL DEF GamerInv

(* The task is queued before the request is answered, or it fails.          *)
LEMMA EnqueueLoginStep ==
    ASSUME GamerInv, EnqueueLogin
    PROVE  GamerInv'
<1>1. /\ req.pc = "task" /\ Entering
      /\ UNCHANGED <<made, indexVars, stateVars, stopped, asked, otherVars>>
  BY DEF EnqueueLogin, GamerInv, ReqInv
<1>2. CASE ~Accepts(req.gamer)
  BY <1>1, <1>2, AnswerStep DEF EnqueueLogin, Answer
<1>3. CASE Accepts(req.gamer)
  <2>1. PICK t : /\ t = Task(IF req.op = "login" THEN "login" ELSE "online", req.sess)
                 /\ Add(req.gamer, t)
    BY <1>3 DEF EnqueueLogin
  <2>2. /\ req' = [pc |-> "idle", op |-> "none", sess |-> None, gamer |-> NoGamer, old |-> None]
        /\ answered' = answered \cup {req.sess} /\ givenUp' = givenUp
        /\ UNCHANGED <<made, bySess, byGid, playerSess, online, stopped, asked,
                       kick, drain, drainGid, stopping, stopPc>>
    BY <1>1, <1>3 DEF EnqueueLogin, Answer, Idle, indexVars, stateVars, otherVars
  <2>3. PICK s \in Sessions : s = req.sess /\ s \in 1..asked /\ s <= asked
    BY <1>1, TypeFacts DEF GamerInv, GamerTypeOK, Entering
  <2>4. req.gamer \in Gamers /\ req.gamer <= made /\ made \in Nat
    BY <1>1, TypeFacts DEF GamerInv, GamerTypeOK
  <2>5. t \in Tasks /\ t.sess = s /\ t.kind \in {"login", "online"}
    BY <2>1, <2>3 DEF Task, Tasks
  <2>6. Keeps /\ Known(s)'
    BY <2>2, <2>3 DEF Keeps, Known, Entering
  <2>7. s \notin answered /\ s # None
    BY <1>1, <2>3, Parameters DEF GamerInv, ReqInv
  <2>8. QueueTypes' /\ QueueInv' /\ OrderInv'
    <3>1. Known(t.sess)'
      BY <2>5, <2>6
    <3> QED
      BY <1>3, <2>1, <2>2, <2>4, <2>5, <2>6, <2>7, <3>1, QueueGrows
  <2>9. KnownInv'
    BY <2>2, <2>6, KnownKept
  <2>10. Types'
    <3>1. IndexTypes' /\ StateTypes' /\ KickTypes' /\ RestTypes'
      BY <2>2 DEF GamerInv, GamerTypeOK, IndexTypes, StateTypes, KickTypes, RestTypes
    <3>2. ReqTypes'
      BY <2>2, <2>4, Parameters DEF ReqTypes
    <3>3. AskTypes'
      BY <2>2, <2>3 DEF GamerInv, GamerTypeOK, AskTypes
    <3> QED
      BY <2>8, <3>1, <3>2, <3>3 DEF Types
  <2>11. ReqInv'
    BY <2>2 DEF ReqInv, Entering
  <2>12. IndexInv'
    BY <2>2 DEF GamerInv, IndexInv, Reachable, Live
  <2> QED
    BY <2>8, <2>9, <2>10, <2>11, <2>12, TypeParts, PTL DEF GamerInv
<1> QED
  BY <1>2, <1>3

-----------------------------------------------------------------------------
(* Switching out, and the drain: an entry is dropped with its gamer.        *)
LEMMA SwitchFindStep ==
    ASSUME GamerInv, SwitchFind
    PROVE  GamerInv'
<1>1. /\ req.pc = "find" /\ req.op = "switch"
      /\ UNCHANGED <<made, indexVars, stateVars, stopped, asked, givenUp, answered, otherVars>>
  BY DEF SwitchFind
<1>2. CASE ~(byGid # NoGamer /\ Accepts(byGid))
  BY <1>1, <1>2, AnswerStep DEF SwitchFind
<1>3. CASE byGid # NoGamer /\ Accepts(byGid)
  <2>1. PICK t : t = Task("offline", None) /\ Add(byGid, t)
    BY <1>3 DEF SwitchFind
  <2>2. /\ req' = [req EXCEPT !.pc = "del_sess", !.gamer = byGid]
        /\ UNCHANGED <<made, bySess, byGid, playerSess, online, stopped, asked, givenUp, answered,
                       kick, drain, drainGid, stopping, stopPc>>
    BY <1>3 DEF SwitchFind, indexVars, stateVars, otherVars
  <2>3. byGid \in Gamers /\ byGid <= made /\ made \in Nat
    BY <1>3, TypeFacts DEF GamerInv
  <2>4. req' = [pc |-> "del_sess", op |-> "switch", sess |-> req.sess, gamer |-> byGid, old |-> req.old]
    BY <1>1, <2>2 DEF GamerInv, GamerTypeOK
  <2>5. t \in Tasks /\ t.sess = None /\ t.kind = "offline"
    BY <2>1 DEF Task, Tasks
  <2>6. Keeps /\ Known(None)'
    BY <2>2, <2>4, TypeFacts, Parameters DEF Keeps, Known, Entering, GamerInv
  <2>7. QueueTypes' /\ QueueInv' /\ OrderInv'
    <3>1. Known(t.sess)'
      BY <2>5, <2>6
    <3> QED
      BY <1>3, <2>1, <2>2, <2>3, <2>5, <2>6, <3>1, QueueGrows
  <2>8. KnownInv'
    BY <2>2, <2>6, KnownKept
  <2>9. Types'
    <3>1. IndexTypes' /\ StateTypes' /\ KickTypes' /\ RestTypes' /\ AskTypes'
      BY <2>2 DEF GamerInv, GamerTypeOK, IndexTypes, StateTypes, KickTypes, RestTypes, AskTypes
    <3>2. ReqTypes'
      BY <1>3, <2>2, <2>4 DEF GamerInv, GamerTypeOK, ReqTypes
    <3> QED
      BY <2>7, <3>1, <3>2 DEF Types
  <2>10. ReqInv'
    <3>1. req'.pc = "del_sess" /\ req'.op = "switch"
      BY <2>4
    <3> QED
      BY <3>1 DEF ReqInv, Entering
  <2>11. IndexInv'
    BY <2>2, <2>4 DEF GamerInv, IndexInv, Reachable, Live
  <2> QED
    BY <2>7, <2>8, <2>9, <2>10, <2>11, TypeParts, PTL DEF GamerInv
<1> QED
  BY <1>2, <1>3

(* The gamer whose entry goes is stopped; no other loses an entry.          *)
LEMMA DeleteKeepsIndex ==
    ASSUME GamerInv, NEW s \in Sessions, DelBySess(s), UNCHANGED <<byGid, made>>,
           \/ UNCHANGED req
           \/ req'.pc = "del_gid"
    PROVE  IndexInv' /\ bySess' \in [Sessions -> 0..made] /\ stopped' \in [Gamers -> BOOLEAN]
<1>1. /\ bySess' = [bySess EXCEPT ![s] = NoGamer]
      /\ \A g \in Gamers : stopped'[g] = (stopped[g] \/ g = bySess[s])
      /\ stopped' = [g \in Gamers |-> stopped[g] \/ g \in {bySess[s]}]
  BY DEF DelBySess, StopAll
<1>2. /\ \A r \in Sessions : r # s => bySess'[r] = bySess[r]
      /\ bySess' \in [Sessions -> 0..made]
  <2>1. NoGamer \in 0..made
    BY TypeFacts, Parameters DEF GamerInv
  <2> QED
    BY <1>1, <2>1 DEF GamerInv, GamerTypeOK
<1>3. stopped' \in [Gamers -> BOOLEAN]
  <2>1. \A g \in Gamers : (stopped[g] \/ g \in {bySess[s]}) \in BOOLEAN
    BY Zenon
  <2> QED
    BY <1>1, <2>1, Zenon
<1>4. byGid' = byGid /\ (byGid # NoGamer => byGid \in Gamers)
  BY TypeFacts DEF GamerInv
<1>5. Live(byGid)' => Live(byGid) /\ bySess[s] # byGid
  BY <1>1, <1>4 DEF Live
<1>6. Reachable'
  <2> SUFFICES ASSUME Live(byGid)' PROVE \E r \in Sessions : bySess'[r] = byGid
    BY <1>4 DEF Reachable
  <2>1. PICK r \in Sessions : bySess[r] = byGid
    BY <1>5 DEF GamerInv, IndexInv, Reachable
  <2>2. r # s
    BY <1>5, <2>1
  <2> QED
    BY <1>2, <2>1, <2>2
<1>7. req'.pc = "gid" => stopped'[req'.gamer] \/ bySess'[req'.sess] = req'.gamer
  <2> SUFFICES ASSUME req' = req, req.pc = "gid"
               PROVE  stopped'[req.gamer] \/ bySess'[req.sess] = req.gamer
    OBVIOUS
  <2>1. req.gamer \in Gamers /\ req.sess \in Sessions
    BY TypeFacts DEF GamerInv, GamerTypeOK, ReqInv
  <2>2. stopped[req.gamer] \/ bySess[req.sess] = req.gamer
    BY DEF GamerInv, IndexInv
  <2>3. CASE stopped[req.gamer]
    BY <1>1, <2>1, <2>3
  <2>4. CASE bySess[req.sess] = req.gamer /\ req.sess = s
    BY <1>1, <2>1, <2>4
  <2>5. CASE bySess[req.sess] = req.gamer /\ req.sess # s
    BY <1>2, <2>1, <2>5
  <2> QED
    BY <2>2, <2>3, <2>4, <2>5
<1>8. req'.pc = "replace" => req'.sess # req'.old /\ (Live(byGid)' => bySess'[req'.sess] = byGid')
  <2> SUFFICES ASSUME req' = req, req.pc = "replace"
               PROVE  req.sess # req.old /\ (Live(byGid)' => bySess'[req.sess] = byGid)
    BY <1>4
  <2>1. req.sess \in Sessions
    BY TypeFacts DEF GamerInv, GamerTypeOK, ReqInv
  <2>2. req.sess # req.old /\ (Live(byGid) => bySess[req.sess] = byGid)
    BY DEF GamerInv, IndexInv
  <2>3. Live(byGid)' => req.sess # s
    BY <1>5, <2>2
  <2> QED
    BY <1>2, <1>5, <2>1, <2>2, <2>3
<1> QED
  BY <1>2, <1>3, <1>6, <1>7, <1>8 DEF IndexInv

LEMMA SwitchDelSessStep ==
    ASSUME GamerInv, SwitchDelSess
    PROVE  GamerInv'
<1>1. /\ req.pc = "del_sess" /\ DelBySess(playerSess[req.gamer])
      /\ req' = [req EXCEPT !.pc = "del_gid"]
      /\ UNCHANGED <<made, byGid, playerSess, online, queue, asked, givenUp, answered,
                     kick, drain, drainGid, stopping, stopPc>>
  BY DEF SwitchDelSess, stateVars, otherVars
<1>2. /\ req' = [pc |-> "del_gid", op |-> req.op, sess |-> req.sess, gamer |-> req.gamer,
                 old |-> req.old]
      /\ req.gamer # NoGamer
  BY <1>1 DEF GamerInv, GamerTypeOK
<1>3. playerSess[req.gamer] \in Sessions
  BY <1>2, TypeFacts DEF GamerInv
<1>4. Keeps
  BY <1>1, <1>2 DEF Keeps, Known
<1>5. QueueTypes' /\ QueueInv' /\ OrderInv' /\ KnownInv'
  BY <1>1, <1>4, QueueKept, KnownKept, TypeFacts DEF GamerInv
<1>6. IndexInv' /\ bySess' \in [Sessions -> 0..made] /\ stopped' \in [Gamers -> BOOLEAN]
  BY <1>1, <1>2, <1>3, DeleteKeepsIndex
<1>7. Types'
  <2>1. IndexTypes' /\ StateTypes' /\ KickTypes' /\ RestTypes' /\ AskTypes'
    BY <1>1, <1>6 DEF GamerInv, GamerTypeOK, IndexTypes, StateTypes, KickTypes, RestTypes, AskTypes
  <2>2. ReqTypes'
    BY <1>1, <1>2 DEF GamerInv, GamerTypeOK, ReqTypes
  <2> QED
    BY <1>5, <2>1, <2>2 DEF Types
<1>8. ReqInv'
  BY <1>1, <1>2 DEF GamerInv, ReqInv, Entering
<1> QED
  BY <1>5, <1>6, <1>7, <1>8, TypeParts, PTL DEF GamerInv

LEMMA SwitchDelGidStep ==
    ASSUME GamerInv, SwitchDelGid
    PROVE  GamerInv'
<1>1. /\ byGid' = NoGamer
      /\ req' = [pc |-> "idle", op |-> "none", sess |-> None, gamer |-> NoGamer, old |-> None]
      /\ UNCHANGED <<made, bySess, playerSess, online, stopped, queue, asked, givenUp, answered,
                     kick, drain, drainGid, stopping, stopPc>>
  BY DEF SwitchDelGid, Idle, stateVars, otherVars
<1>2. NoGamer \in 0..made
  BY TypeFacts, Parameters DEF GamerInv
<1>3. Keeps
  BY <1>1 DEF Keeps, Known, Entering
<1>4. QueueTypes' /\ QueueInv' /\ OrderInv' /\ KnownInv'
  BY <1>1, <1>3, QueueKept, KnownKept, TypeFacts DEF GamerInv
<1>5. Types'
  <2>1. IndexTypes' /\ StateTypes' /\ KickTypes' /\ RestTypes' /\ AskTypes'
    BY <1>1, <1>2 DEF GamerInv, GamerTypeOK, IndexTypes, StateTypes, KickTypes, RestTypes, AskTypes
  <2>2. ReqTypes'
    BY <1>1, <1>2 DEF ReqTypes
  <2> QED
    BY <1>4, <2>1, <2>2 DEF Types
<1>6. ReqInv'
  BY <1>1 DEF ReqInv, Entering
<1>7. IndexInv'
  BY <1>1 DEF IndexInv, Reachable, Live
<1> QED
  BY <1>4, <1>5, <1>6, <1>7, TypeParts, PTL DEF GamerInv

(* Steps that leave the request alone.                                      *)
LEMMA SameRequest ==
    ASSUME GamerInv, UNCHANGED <<made, req, asked, givenUp, answered>>
    PROVE  Keeps /\ ReqTypes' /\ AskTypes'
BY DEF Keeps, Known, Entering, GamerInv, GamerTypeOK, ReqTypes, AskTypes

LEMMA DrainDelSessStep ==
    ASSUME GamerInv, NEW s \in Sessions, DrainDelSess(s)
    PROVE  GamerInv'
<1>1. /\ DelBySess(s) /\ drain' = drain \ {s} /\ drainGid' = TRUE
      /\ UNCHANGED <<made, byGid, playerSess, online, queue, req, asked, givenUp, answered,
                     kick, stopping, stopPc>>
  BY DEF DrainDelSess, stateVars
<1>2. Keeps /\ ReqTypes' /\ AskTypes'
  BY <1>1, SameRequest
<1>3. QueueTypes' /\ QueueInv' /\ OrderInv' /\ KnownInv'
  BY <1>1, <1>2, QueueKept, KnownKept, TypeFacts DEF GamerInv
<1>4. IndexInv' /\ bySess' \in [Sessions -> 0..made] /\ stopped' \in [Gamers -> BOOLEAN]
  BY <1>1, DeleteKeepsIndex
<1>5. IndexTypes' /\ StateTypes' /\ KickTypes' /\ RestTypes'
  BY <1>1, <1>4 DEF GamerInv, GamerTypeOK, IndexTypes, StateTypes, KickTypes, RestTypes
<1>6. ReqInv'
  BY <1>1 DEF GamerInv, ReqInv, Entering
<1> QED
  BY <1>2, <1>3, <1>4, <1>5, <1>6, TypeParts, PTL DEF GamerInv, Types

LEMMA DrainDelGidStep ==
    ASSUME GamerInv, DrainDelGid
    PROVE  GamerInv'
<1>1. /\ byGid' = NoGamer /\ drainGid' = FALSE
      /\ UNCHANGED <<made, bySess, playerSess, online, stopped, queue, req, asked, givenUp, answered,
                     kick, drain, stopping, stopPc>>
  BY DEF DrainDelGid, stateVars
<1>2. Keeps /\ ReqTypes' /\ AskTypes'
  BY <1>1, SameRequest
<1>3. QueueTypes' /\ QueueInv' /\ OrderInv' /\ KnownInv'
  BY <1>1, <1>2, QueueKept, KnownKept, TypeFacts DEF GamerInv
<1>4. NoGamer \in 0..made
  BY TypeFacts, Parameters DEF GamerInv
<1>5. IndexTypes' /\ StateTypes' /\ KickTypes' /\ RestTypes'
  BY <1>1, <1>4 DEF GamerInv, GamerTypeOK, IndexTypes, StateTypes, KickTypes, RestTypes
<1>6. ReqInv' /\ IndexInv'
  BY <1>1 DEF GamerInv, ReqInv, Entering, IndexInv, Reachable, Live
<1> QED
  BY <1>2, <1>3, <1>5, <1>6, TypeParts, PTL DEF GamerInv, Types

-----------------------------------------------------------------------------
(* The goroutine of a gamer, messages, kicks and the stop of the manager.   *)
LEMMA RunTaskStep ==
    ASSUME GamerInv, NEW g \in Gamers, RunTask(g)
    PROVE  GamerInv'
<1>1. /\ queue[g] # <<>> /\ queue' = [queue EXCEPT ![g] = Tail(@)]
      /\ UNCHANGED <<made, bySess, byGid, stopped, req, asked, givenUp, answered,
                     kick, drain, drainGid, stopping, stopPc>>
  BY DEF RunTask, Runs, indexVars, otherVars
<1>2. Keeps /\ ReqTypes' /\ AskTypes'
  BY <1>1, SameRequest
<1>3. QueueTypes' /\ QueueInv' /\ OrderInv'
  BY <1>1, <1>2, QueueShrinks
<1>4. PICK t \in Tasks :
          /\ t = Head(queue[g]) /\ g <= made /\ Known(t.sess)
          /\ t.kind = "online" => t.sess \in Sessions
  <2>1. 1 \in DOMAIN queue[g] /\ Head(queue[g]) = queue[g][1]
    BY <1>1, Ran DEF GamerInv
  <2>2. queue[g][1] \in Tasks /\ (queue[g][1].sess = None \/ queue[g][1].sess \in Sessions)
    BY <2>1, QueueFacts DEF GamerInv, Tasks
  <2>3. /\ g <= made /\ Known(queue[g][1].sess)
        /\ queue[g][1].kind = "online" => queue[g][1].sess # None
    BY <2>1 DEF GamerInv, QueueInv
  <2> QED
    BY <2>1, <2>2, <2>3
<1>5. /\ playerSess' = IF t.kind = "online" THEN [playerSess EXCEPT ![g] = t.sess] ELSE playerSess
      /\ online' = IF t.kind \in {"online", "offline"}
                   THEN [online EXCEPT ![g] = t.kind = "online"] ELSE online
  BY <1>4 DEF RunTask
<1>6. \A h \in Gamers :
          \/ playerSess'[h] = playerSess[h]
          \/ h = g /\ t.kind = "online" /\ playerSess'[h] = t.sess
  BY <1>5 DEF GamerInv, GamerTypeOK
<1>7. StateTypes'
  <2>1. playerSess' \in [Gamers -> Sessions \cup {None}]
    BY <1>4, <1>5 DEF GamerInv, GamerTypeOK
  <2>2. online' \in [Gamers -> BOOLEAN]
    BY <1>5 DEF GamerInv, GamerTypeOK
  <2>3. \A h \in Gamers : playerSess'[h] = None <=> h > made
    <3>1. ~(g > made)
      BY <1>4, TypeFacts, Parameters DEF GamerInv
    <3> QED
      BY <1>4, <1>6, <3>1, Parameters DEF GamerInv, GamerTypeOK
  <2> QED
    BY <1>1, <2>1, <2>2, <2>3 DEF GamerInv, GamerTypeOK, StateTypes
<1>8. KnownInv'
  <2>1. ASSUME NEW h \in Gamers PROVE Known(playerSess[h])'
    <3>1. PICK r \in Nat : r = playerSess[h] /\ Known(r)
      BY TypeFacts, Parameters DEF GamerInv, KnownInv
    <3>2. PICK u : u = t.sess /\ (t.kind = "online" => u \in Nat) /\ Known(u)
      BY <1>4, Parameters
    <3>3. Known(r)' /\ (t.kind = "online" => Known(u)')
      BY <1>2, <3>1, <3>2 DEF Keeps
    <3> QED
      BY <1>6, <3>1, <3>2, <3>3
  <2>2. PICK r \in Nat : r = kick.sess /\ Known(r)'
    BY <1>2, TypeFacts, Parameters DEF GamerInv, KnownInv, Keeps
  <2> QED
    BY <1>1, <2>1, <2>2 DEF KnownInv
<1>9. IndexTypes' /\ KickTypes' /\ RestTypes'
  BY <1>1 DEF GamerInv, GamerTypeOK, IndexTypes, KickTypes, RestTypes
<1>10. ReqInv' /\ IndexInv'
  BY <1>1 DEF GamerInv, ReqInv, Entering, IndexInv, Reachable, Live
<1> QED
  BY <1>2, <1>3, <1>7, <1>8, <1>9, <1>10, TypeParts, PTL DEF GamerInv, Types

LEMMA RouteStep ==
    ASSUME GamerInv, NEW s \in Sessions, Route(s)
    PROVE  GamerInv'
<1>1. /\ s \in answered \cup givenUp'
      /\ givenUp' = givenUp \/ (Entering /\ s = req.sess /\ givenUp' = givenUp \cup {s})
      /\ UNCHANGED <<made, bySess, byGid, playerSess, online, stopped, req, asked, answered,
                     kick, drain, drainGid, stopping, stopPc>>
  BY DEF Route, Entering, indexVars, stateVars
<1>2. Keeps /\ ReqTypes' /\ AskTypes'
  <2>1. Keeps /\ ReqTypes'
    BY <1>1 DEF Keeps, Known, Entering, GamerInv, GamerTypeOK, ReqTypes
  <2>2. Entering => req.sess \in 1..asked
    BY DEF GamerInv, GamerTypeOK, Entering
  <2> QED
    BY <1>1, <2>1, <2>2 DEF GamerInv, GamerTypeOK, AskTypes
<1>3. QueueTypes' /\ QueueInv' /\ OrderInv'
  <2>1. CASE UNCHANGED queue
    BY <1>1, <1>2, <2>1, QueueKept, TypeFacts DEF GamerInv
  <2>2. CASE byGid # NoGamer /\ playerSess[byGid] = s /\ Accepts(byGid) /\ Add(byGid, Task("message", s))
    <3>1. PICK t : t = Task("message", s) /\ Add(byGid, t)
      BY <2>2
    <3>2. t \in Tasks /\ t.kind = "message" /\ t.sess = s
      BY <3>1 DEF Task, Tasks
    <3>3. byGid \in Gamers /\ byGid <= made /\ s \in Nat
      BY <2>2, TypeFacts, Parameters DEF GamerInv
    <3>4. Known(s)
      BY <2>2, <3>3 DEF GamerInv, KnownInv
    <3>5. Known(s)'
      BY <1>2, <3>3, <3>4 DEF Keeps
    <3>6. Known(t.sess)'
      BY <3>2, <3>5
    <3> QED
      BY <1>1, <1>2, <2>2, <3>1, <3>2, <3>3, <3>6, QueueGrows
  <2> QED
    BY <2>1, <2>2 DEF Route
<1>4. KnownInv'
  BY <1>1, <1>2, KnownKept
<1>5. IndexTypes' /\ StateTypes' /\ KickTypes' /\ RestTypes'
  BY <1>1 DEF GamerInv, GamerTypeOK, IndexTypes, StateTypes, KickTypes, RestTypes
<1>6. ReqInv' /\ IndexInv'
  BY <1>1 DEF GamerInv, ReqInv, Entering, IndexInv, Reachable, Live
<1> QED
  BY <1>2, <1>3, <1>4, <1>5, <1>6, TypeParts, PTL DEF GamerInv, Types

LEMMA OtherSteps ==
    ASSUME GamerInv, UNCHANGED <<made, bySess, byGid, playerSess, online, stopped, queue, req,
                                 asked, givenUp, answered, kick, drain, drainGid, stopping, stopPc>>
    PROVE  GamerInv'
BY DEF GamerInv, GamerTypeOK, ReqInv, KnownInv, Known, Entering, QueueInv, OrderInv, IndexInv,
       Reachable, Live

(* A kick holds a session that its gamer had.                               *)
LEMMA KickStep ==
    ASSUME GamerInv, UNCHANGED <<made, bySess, byGid, playerSess, online, stopped, queue, req,
                                 asked, givenUp, answered, drain, drainGid, stopping, stopPc>>,
           KickTypes', \E g \in Gamers : kick.sess' \in {kick.sess, playerSess[g]}
    PROVE  GamerInv'
<1>1. Keeps /\ ReqTypes' /\ AskTypes'
  BY SameRequest
<1>2. QueueTypes' /\ QueueInv' /\ OrderInv'
  BY <1>1, QueueKept, TypeFacts DEF GamerInv
<1>3. KnownInv'
  <2>1. ASSUME NEW g \in Gamers PROVE Known(playerSess[g])'
    <3>1. PICK r \in Nat : r = playerSess[g] /\ Known(r)'
      BY <1>1, TypeFacts, Parameters DEF GamerInv, KnownInv, Keeps
    <3> QED
      BY <3>1
  <2>2. PICK r \in Nat : r = kick.sess' /\ Known(r)
    BY TypeFacts, Parameters DEF GamerInv, KnownInv
  <2>3. Known(kick.sess)'
    BY <1>1, <2>2 DEF Keeps
  <2> QED
    BY <2>1, <2>3 DEF KnownInv
<1>4. IndexTypes' /\ StateTypes' /\ RestTypes'
  BY DEF GamerInv, GamerTypeOK, IndexTypes, StateTypes, RestTypes
<1>5. ReqInv' /\ IndexInv'
  BY DEF GamerInv, ReqInv, Entering, IndexInv, Reachable, Live
<1> QED
  BY <1>1, <1>2, <1>3, <1>4, <1>5, TypeParts, PTL DEF GamerInv, Types

LEMMA KickMatchStep ==
    ASSUME GamerInv, NEW s \in Sessions, KickMatch(s)
    PROVE  GamerInv'
<1>1. kick.pc = "idle" /\ UNCHANGED <<made, bySess, byGid, playerSess, online, stopped, queue, req,
                                      asked, givenUp, answered, drain, drainGid, stopping, stopPc>>
  BY DEF KickMatch, indexVars, stateVars
<1>2. CASE ~Matches(s)
  <2>1. kick' = kick
    BY <1>2 DEF KickMatch
  <2> QED
    BY <1>1, <2>1, OtherSteps
<1>3. CASE Matches(s)
  <2>1. kick' = [pc |-> "load", sess |-> s, gamer |-> byGid] /\ byGid # NoGamer /\ s = playerSess[byGid]
    BY <1>3 DEF KickMatch, Matches
  <2>2. byGid \in Gamers
    BY <2>1, TypeFacts DEF GamerInv
  <2>3. KickTypes'
    BY <1>1, <2>1, Parameters DEF KickTypes, GamerInv, GamerTypeOK
  <2>4. kick.sess' = playerSess[byGid]
    BY <2>1
  <2> QED
    BY <1>1, <2>2, <2>3, <2>4, KickStep
<1> QED
  BY <1>2, <1>3

LEMMA KickLoadStep ==
    ASSUME GamerInv, KickLoad
    PROVE  GamerInv'
<1>1. /\ kick.pc = "load" /\ kick' = [kick EXCEPT !.pc = "store", !.sess = playerSess[kick.gamer]]
      /\ UNCHANGED <<made, bySess, byGid, playerSess, online, stopped, queue, req,
                     asked, givenUp, answered, drain, drainGid, stopping, stopPc>>
  BY DEF KickLoad, indexVars, stateVars
<1>2. kick.gamer \in Gamers /\ playerSess[kick.gamer] \in Sessions
  BY <1>1, TypeFacts DEF GamerInv, GamerTypeOK
<1>3. kick' = [pc |-> "store", sess |-> playerSess[kick.gamer], gamer |-> kick.gamer]
  BY <1>1 DEF GamerInv, GamerTypeOK
<1>4. KickTypes'
  BY <1>1, <1>2, <1>3, Parameters DEF KickTypes, GamerInv, GamerTypeOK
<1>5. kick.sess' = playerSess[kick.gamer]
  BY <1>3
<1> QED
  BY <1>1, <1>2, <1>4, <1>5, KickStep

LEMMA KickStoreStep ==
    ASSUME GamerInv, KickStore
    PROVE  GamerInv'
<1>1. /\ kick.pc = "store"
      /\ playerSess' = [playerSess EXCEPT ![kick.gamer] = kick.sess]
      /\ online' = [online EXCEPT ![kick.gamer] = FALSE]
      /\ kick' = [pc |-> "idle", sess |-> None, gamer |-> NoGamer]
      /\ UNCHANGED <<made, bySess, byGid, stopped, queue, req, asked, givenUp, answered,
                     drain, drainGid, stopping, stopPc>>
  BY DEF KickStore, NoKick, indexVars
<1>2. Keeps /\ ReqTypes' /\ AskTypes'
  BY <1>1, SameRequest
<1>3. QueueTypes' /\ QueueInv' /\ OrderInv'
  BY <1>1, <1>2, QueueKept, TypeFacts DEF GamerInv
<1>4. kick.gamer \in Gamers /\ kick.gamer <= made /\ kick.sess \in Sessions
  BY <1>1, TypeFacts DEF GamerInv, GamerTypeOK
<1>5. \A h \in Gamers : playerSess'[h] = IF h = kick.gamer THEN kick.sess ELSE playerSess[h]
  BY <1>1 DEF GamerInv, GamerTypeOK
<1>6. StateTypes'
  <2>1. ~(kick.gamer > made)
    BY <1>4, TypeFacts DEF GamerInv
  <2>2. \A h \in Gamers : playerSess'[h] = None <=> h > made
    BY <1>4, <1>5, <2>1, Parameters DEF GamerInv, GamerTypeOK
  <2>3. playerSess' \in [Gamers -> Sessions \cup {None}] /\ online' \in [Gamers -> BOOLEAN]
    BY <1>1, <1>4 DEF GamerInv, GamerTypeOK
  <2> QED
    BY <1>1, <2>2, <2>3 DEF GamerInv, GamerTypeOK, StateTypes
<1>7. KickTypes'
  BY <1>1, TypeFacts, Parameters DEF KickTypes, GamerInv
<1>8. KnownInv'
  <2>1. PICK k \in Nat : k = kick.sess /\ Known(k)'
    BY <1>2, TypeFacts, Parameters DEF GamerInv, KnownInv, Keeps
  <2>2. ASSUME NEW h \in Gamers PROVE Known(playerSess[h])'
    <3>1. PICK r \in Nat : r = playerSess[h] /\ Known(r)'
      BY <1>2, TypeFacts, Parameters DEF GamerInv, KnownInv, Keeps
    <3> QED
      BY <1>5, <2>1, <3>1
  <2>3. Known(None)'
    BY <1>1, TypeFacts, Parameters DEF Known, Entering, GamerInv, GamerTypeOK
  <2>4. Known(kick.sess)'
    BY <1>1, <2>3
  <2> QED
    BY <2>2, <2>4 DEF KnownInv
<1>9. IndexTypes' /\ RestTypes'
  BY <1>1 DEF GamerInv, GamerTypeOK, IndexTypes, RestTypes
<1>10. ReqInv' /\ IndexInv'
  BY <1>1 DEF GamerInv, ReqInv, Entering, IndexInv, Reachable, Live
<1> QED
  BY <1>2, <1>3, <1>6, <1>7, <1>8, <1>9, <1>10, TypeParts, PTL DEF GamerInv, Types

(* The manager stops what is indexed: fewer gamers are live.                *)
LEMMA StopStep ==
    ASSUME GamerInv, ServerStop \/ MgrOffline \/ MgrStop \/ DrainCollect
    PROVE  GamerInv'
<1>1. UNCHANGED <<made, bySess, byGid, playerSess, queue, req, asked, givenUp, answered, kick, drainGid>>
  BY DEF ServerStop, MgrOffline, MgrStop, DrainCollect, indexVars, stateVars
<1>2. /\ stopped' \in [Gamers -> BOOLEAN] /\ \A g \in Gamers : stopped[g] => stopped'[g]
  <2>1. CASE MgrStop
    <3>1. stopped' = [g \in Gamers |-> stopped[g] \/ g \in Indexed]
      BY <2>1 DEF MgrStop, StopAll
    <3> QED
      BY <3>1, Zenon
  <2>2. CASE ~MgrStop
    BY <2>2 DEF ServerStop, MgrOffline, DrainCollect, GamerInv, GamerTypeOK
  <2> QED
    BY <2>1, <2>2
<1>3. online' \in [Gamers -> BOOLEAN]
  <2>1. CASE MgrOffline
    <3>1. online' = [g \in Gamers |-> online[g] /\ g \notin Indexed]
      BY <2>1 DEF MgrOffline
    <3> QED
      BY <3>1, Zenon
  <2>2. CASE ~MgrOffline
    BY <2>2 DEF ServerStop, MgrStop, DrainCollect, stateVars, GamerInv, GamerTypeOK
  <2> QED
    BY <2>1, <2>2
<1>4. RestTypes'
  BY DEF ServerStop, MgrOffline, MgrStop, DrainCollect, GamerInv, GamerTypeOK, RestTypes
<1>5. Keeps /\ ReqTypes' /\ AskTypes'
  BY <1>1, SameRequest
<1>6. QueueTypes' /\ QueueInv' /\ OrderInv' /\ KnownInv'
  BY <1>1, <1>5, QueueKept, KnownKept, TypeFacts DEF GamerInv
<1>7. IndexTypes' /\ StateTypes' /\ KickTypes'
  BY <1>1, <1>2, <1>3 DEF GamerInv, GamerTypeOK, IndexTypes, StateTypes, KickTypes
<1>8. ReqInv'
  BY <1>1 DEF GamerInv, ReqInv, Entering
<1>9. IndexInv'
  <2>1. Live(byGid)' => Live(byGid)
    BY <1>1, <1>2, TypeFacts DEF Live, GamerInv
  <2>2. req.pc = "gid" => req.gamer \in Gamers
    BY TypeFacts DEF GamerInv, GamerTypeOK
  <2> QED
    BY <1>1, <1>2, <2>1, <2>2 DEF GamerInv, IndexInv, Reachable
<1> QED
  BY <1>4, <1>5, <1>6, <1>7, <1>8, <1>9, TypeParts, PTL DEF GamerInv, Types

-----------------------------------------------------------------------------
(* The invariant holds at first and is kept by every step.                  *)
LEMMA GamerInvInit ==
    ASSUME Init
    PROVE  GamerInv
<1>1. made = 0 /\ byGid = 0 /\ asked = 0 /\ answered = {} /\ drain = {}
  BY DEF Init, NoGamer
<1>2. /\ bySess = [s \in Sessions |-> 0]
      /\ playerSess = [g \in Gamers |-> 0]
      /\ online = [g \in Gamers |-> FALSE] /\ stopped = [g \in Gamers |-> FALSE]
      /\ queue = [g \in Gamers |-> <<>>]
  BY DEF Init, NoGamer, None
<1>3. /\ req = [pc |-> "idle", op |-> "none", sess |-> 0, gamer |-> 0, old |-> 0]
      /\ kick = [pc |-> "idle", sess |-> 0, gamer |-> 0]
  BY DEF Init, Idle, NoKick, NoGamer, None
<1>4. IndexTypes
  BY <1>1, <1>2, Parameters DEF IndexTypes
<1>5. StateTypes
  BY <1>1, <1>2, Parameters DEF StateTypes
<1>6. QueueTypes /\ QueueInv /\ OrderInv
  <2>1. \A g \in Gamers : queue[g] = <<>> /\ queue[g] \in Seq(Tasks) /\ DOMAIN queue[g] = {} /\ Len(queue[g]) = 0
    BY <1>2
  <2>2. QueueSize \in Nat
    BY GamerParameters DEF GamerParameters
  <2> QED
    BY <1>2, <2>1, <2>2 DEF QueueTypes, QueueInv, OrderInv
<1>7. ReqTypes
  BY <1>1, <1>3, Parameters DEF ReqTypes
<1>8. AskTypes /\ RestTypes
  <2>1. drainGid = FALSE /\ stopping = FALSE /\ stopPc = "no" /\ givenUp = {}
    BY DEF Init
  <2>2. {} \subseteq 1..0 /\ 0 \in 0..MaxSessions
    BY Parameters
  <2> QED
    BY <1>1, <2>1, <2>2 DEF AskTypes, RestTypes
<1>9. KickTypes
  BY <1>1, <1>3, Parameters DEF KickTypes
<1>10. ReqInv
  BY <1>3 DEF ReqInv, Entering
<1>11. KnownInv
  BY <1>1, <1>2, <1>3 DEF KnownInv, Known, Entering
<1>12. IndexInv
  BY <1>1, <1>3, Parameters DEF IndexInv, Reachable, Live
<1> QED
  BY <1>4, <1>5, <1>6, <1>7, <1>8, <1>9, <1>10, <1>11, <1>12, TypeParts DEF GamerInv, Types

LEMMA GamerInvStep ==
    ASSUME GamerInv, [Next]_gamerVars
    PROVE  GamerInv'
<1>1. ASSUME NEW op \in {"login", "reconnect"}, LoginArrives(op) PROVE GamerInv'
  BY <1>1, LoginArrivesStep
<1>2. CASE SwitchArrives
  BY <1>2, SwitchArrivesStep
<1>3. CASE Worker
  BY <1>3, LoginFindStep, LoginCreateStep, AddBySessStep, AddByGidStep, ReconnectFindStep, ReplaceOldStep,
     EnqueueLoginStep, SwitchFindStep, SwitchDelSessStep, SwitchDelGidStep DEF Worker
<1>4. ASSUME NEW g \in Gamers, RunTask(g) PROVE GamerInv'
  BY <1>4, RunTaskStep
<1>5. ASSUME NEW s \in Sessions, Route(s) \/ KickMatch(s) PROVE GamerInv'
  BY <1>5, RouteStep, KickMatchStep
<1>6. CASE KickWorker
  BY <1>6, KickLoadStep, KickStoreStep DEF KickWorker
<1>7. CASE Drainer
  BY <1>7, DrainDelSessStep, DrainDelGidStep DEF Drainer
<1>8. CASE ServerStop \/ MgrOffline \/ MgrStop \/ DrainCollect
  BY <1>8, StopStep
<1>9. CASE UNCHANGED gamerVars
  <2>1. UNCHANGED <<made, bySess, byGid, playerSess, online, stopped, queue, req,
                    asked, givenUp, answered, kick, drain, drainGid, stopping, stopPc>>
    BY <1>9 DEF gamerVars, indexVars, stateVars
  <2> QED
    BY <2>1, OtherSteps
<1> QED
  BY <1>1, <1>2, <1>3, <1>4, <1>5, <1>6, <1>7, <1>8, <1>9 DEF Next

LEMMA GamerInvAlways == Spec => []GamerInv
<1>1. Init => GamerInv
  BY GamerInvInit
<1>2. GamerInv /\ [Next]_gamerVars => GamerInv'
  BY GamerInvStep
<1> QED
  BY <1>1, <1>2, PTL DEF Spec

LEMMA OrderWithinBound ==
    ASSUME GamerInv
    PROVE  LoginRunsFirst
<1> SUFFICES ASSUME NEW g \in Gamers, NEW i \in 1..QueueSize, NEW j \in 1..QueueSize,
                    i < j, j <= Len(queue[g]),
                    queue[g][i].kind = "message", queue[g][i].sess \notin givenUp,
                    queue[g][j].kind \in {"login", "online"}
             PROVE  queue[g][i].sess # queue[g][j].sess
  BY DEF LoginRunsFirst
<1>1. i \in DOMAIN queue[g] /\ j \in DOMAIN queue[g]
  BY QueueFacts, GamerParameters DEF GamerInv, GamerParameters
<1> QED
  BY <1>1 DEF GamerInv, OrderInv

-----------------------------------------------------------------------------
(* Types of the indexes, queues and requests; gamers are numbered as they   *)
(* are made, and one that is made has a session.                            *)
THEOREM GamerTypeCorrect == Spec => []GamerTypeOK
<1>1. GamerInv => GamerTypeOK
  BY DEF GamerInv
<1> QED
  BY <1>1, GamerInvAlways, PTL

(* However AddGamer, ReplaceGamerSessId, DelGamer and the gray drain of     *)
(* GamerManager interleave, the gamer that the id leads to is stopped or    *)
(* some session leads to it, so Foreach, the drain and Stop find it.        *)
THEOREM GamersStayReachable == Spec => []Reachable
<1>1. GamerInv => Reachable
  BY DEF GamerInv, IndexInv
<1> QED
  BY <1>1, GamerInvAlways, PTL

(* Login sets the session of a gamer before it adds its task; the queue     *)
(* still holds no client message of the session before that task, unless    *)
(* the login has failed for the gate, which then routes without an answer.  *)
THEOREM LoginsRunFirst == Spec => []LoginRunsFirst
<1>1. GamerInv => LoginRunsFirst
  BY OrderWithinBound
<1> QED
  BY <1>1, GamerInvAlways, PTL
===============================================================================
