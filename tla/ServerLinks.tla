---------------------------- MODULE ServerLinks -----------------------------
(***************************************************************************)
(* The links of a gate to the logic servers that discovery tells it of:    *)
(* gate/serverlisten.go and the connecting side of deps/netmgr.  A link is *)
(* a tcpMsgQue: it dials in a goroutine of its own, its connection is      *)
(* started, registered and given up by tasks of NetMgr's one goroutine,    *)
(* the answer to its hello is handled by a worker of the async pool, and   *)
(* it is stopped in yet another goroutine.                                 *)
(*                                                                         *)
(* An instance keeps its address while it is listed, the task channel      *)
(* (100000 entries) does not fill up, and NetMgr is not stopped.  The      *)
(* network decides how a dial ends and when a connection breaks.           *)
(* RegistersAnyway and ReconnectsRegistered are faulty variants of the     *)
(* definition that follows each of them; the specification does not use    *)
(* them (README, "Mutants").                                               *)
(***************************************************************************)
EXTENDS Discovery

CONSTANTS Links,          \* link objects; one that is over is used again
          MaxLinkBreaks,  \* bound: connections that break
          MaxRefused      \* bound: links at a time whose hello was refused

ASSUME LinkParameters ==
    Links \subseteq Nat /\ {MaxLinkBreaks, MaxRefused} \subseteq Nat /\ None \notin Links \cup Instances

VARIABLES peer,     \* the instance a link is for
          conn,     \* where its connection is
          hello,    \* where its SAY_HELLO is
          server,   \* its agent is one of a server (ConnAgt.AddSvrAgt)
          agent,    \* NetMgr.sessAgent
          tasks,    \* NetMgr.taskChan
          linkBreaks

linkVars == <<peer, conn, hello, server, agent, tasks, linkBreaks>>
linksVars == <<discoveryVars, linkVars>>

Task == [kind : {"add", "register", "over"}, link : Links, id : {None}]
            \cup [kind : {"remove"}, link : {None}, id : Instances]
TaskOf(kind, l) == [kind |-> kind, link |-> l, id |-> None]
InSessMap(l) == conn[l] \in {"open", "broken"}

LinksInit ==
    /\ DiscoveryInit
    /\ peer = [l \in Links |-> None] /\ conn = [l \in Links |-> "none"]
    /\ hello = [l \in Links |-> "none"] /\ server = [l \in Links |-> FALSE]
    /\ agent = [i \in Instances |-> None]
    /\ tasks = <<>> /\ linkBreaks = 0

(* service.go's RegisterCanReconnect.                                       *)
CanReconnect(i) == Listed(i) /\ Entry(i).val = "health"

Send(task) == tasks' = Append(tasks, task)

(* A new link object, which nothing refers to.                              *)
Unused(l) ==
    /\ conn[l] = "none" /\ hello[l] = "none"
    /\ \A n \in DOMAIN tasks : tasks[n].link # l

FreshAgent(l) == [server EXCEPT ![l] = FALSE]

NewLink(l, i) ==
    /\ Unused(l) /\ \A k \in Links : Unused(k) => l <= k
    /\ peer' = [peer EXCEPT ![l] = i]
    /\ server' = FreshAgent(l)

-----------------------------------------------------------------------------
(* serverlisten.go: an instance that goes online is connected to, one that  *)
(* goes offline is removed, an update changes nothing.                      *)
OnlineInstance ==
    /\ GoesOnline
    /\ \E l \in Links : NewLink(l, Event.id) /\ conn' = [conn EXCEPT ![l] = "dialing"]
    /\ UNCHANGED tasks

OfflineInstance ==
    /\ GoesOffline
    /\ Send([kind |-> "remove", link |-> None, id |-> Event.id])
    /\ UNCHANGED <<peer, conn, server>>

UpdateInstance ==
    /\ ~GoesOnline /\ ~GoesOffline
    /\ UNCHANGED <<peer, conn, server, tasks>>

ListenEvent ==
    /\ HandleEvent
    /\ OnlineInstance \/ OfflineInstance \/ UpdateInstance
    /\ UNCHANGED <<hello, agent, linkBreaks>>

-----------------------------------------------------------------------------
(* connectOnce: dialling and the handshake.                                 *)
DialSucceeds(l) ==
    /\ conn[l] = "dialing"
    /\ conn' = [conn EXCEPT ![l] = "adding"] /\ Send(TaskOf("add", l))
    /\ UNCHANGED <<discoveryVars, peer, hello, server, agent, linkBreaks>>

(* scheduleReconnect, while the peer may be connected to.                   *)
DialFails(l) ==
    /\ conn[l] = "dialing"
    /\ conn' = [conn EXCEPT ![l] = IF CanReconnect(peer[l]) THEN "waiting" ELSE "none"]
    /\ UNCHANGED <<discoveryVars, peer, hello, server, agent, tasks, linkBreaks>>

Redial(l) ==
    /\ conn[l] = "waiting" /\ conn' = [conn EXCEPT ![l] = "dialing"]
    /\ UNCHANGED <<discoveryVars, peer, hello, server, agent, tasks, linkBreaks>>

(* read and write end, forceClose closes the connection, onDiscEvt reports. *)
LinkBreaks(l) ==
    /\ conn[l] = "open" /\ linkBreaks < MaxLinkBreaks
    /\ conn' = [conn EXCEPT ![l] = "broken"] /\ Send(TaskOf("over", l))
    /\ linkBreaks' = linkBreaks + 1
    /\ UNCHANGED <<discoveryVars, peer, hello, server, agent>>

-----------------------------------------------------------------------------
(* UpdateNetStatus, for an instance that is listed.                         *)
UpdateNetStatus(i, status) == net' = IF Listed(i) THEN [net EXCEPT ![i] = status] ELSE net
statusUnchanged == <<log, watch, rev, breaks, missed, queue, instances, index, nodes>>

(* The answer is read and posted; rspServerHello registers the session and  *)
(* marks the instance as connected.                                         *)
ReadHello(l) ==
    /\ conn[l] = "open" /\ hello[l] = "sent"
    /\ hello' = [hello EXCEPT ![l] = "answered"]
    /\ UNCHANGED <<discoveryVars, peer, conn, server, agent, tasks, linkBreaks>>

(* The hello is sent once.  It, or its answer, is dropped for good where a  *)
(* write channel is full or the async pool refuses the task (the peer's or  *)
(* the gate's, handleS2SMessage); the connection stays open.                *)
HelloRefused(l) ==
    /\ conn[l] = "open" /\ hello[l] = "sent"
    /\ Cardinality({k \in Links : hello[k] = "refused"}) < MaxRefused
    /\ hello' = [hello EXCEPT ![l] = "refused"]
    /\ UNCHANGED <<discoveryVars, peer, conn, server, agent, tasks, linkBreaks>>

RegisterSess(l) ==
    /\ hello[l] = "answered" /\ hello' = [hello EXCEPT ![l] = "registering"]
    /\ Send(TaskOf("register", l))
    /\ UNCHANGED <<discoveryVars, peer, conn, server, agent, linkBreaks>>

HelloStatus(l) ==
    /\ hello[l] = "registering" /\ hello' = [hello EXCEPT ![l] = "none"]
    /\ UpdateNetStatus(peer[l], TRUE)
    /\ UNCHANGED <<statusUnchanged, peer, conn, server, agent, tasks, linkBreaks>>

(* tcpMsgQue.stop: OnMsgQueStop marks the instance as unconnected when the  *)
(* session had been registered.  An answer not read by now is lost.         *)
StopLink(l) ==
    /\ conn[l] = "stopping" /\ conn' = [conn EXCEPT ![l] = "none"]
    /\ hello' = [hello EXCEPT ![l] = IF @ \in {"sent", "refused"} THEN "none" ELSE @]
    /\ IF server[l] THEN UpdateNetStatus(peer[l], FALSE) ELSE UNCHANGED net
    /\ UNCHANGED <<statusUnchanged, peer, server, agent, tasks, linkBreaks>>

-----------------------------------------------------------------------------
(* NetMgr.run: the tasks, in order.                                         *)
Current == Head(tasks)
RunTask(kind) == tasks # <<>> /\ Current.kind = kind /\ tasks' = Tail(tasks)
                 /\ UNCHANGED <<discoveryVars, linkBreaks>>

AddSess ==
    /\ RunTask("add")
    /\ conn' = [conn EXCEPT ![Current.link] = "open"]
    /\ hello' = [hello EXCEPT ![Current.link] = "sent"]
    /\ UNCHANGED <<peer, server, agent>>

RegistersAnyway(l) == conn[l] # "none"
Registers(l) == InSessMap(l)

RegisterTask ==
    /\ RunTask("register")
    /\ LET l == Current.link
       IN  IF Registers(l)
           THEN /\ agent' = [agent EXCEPT ![peer[l]] = l]
                /\ server' = [server EXCEPT ![l] = TRUE]
           ELSE UNCHANGED <<agent, server>>
    /\ UNCHANGED <<peer, conn, hello>>

(* decSessAgent: only the entry of this very session.                       *)
WithoutAgent(l) == [i \in Instances |-> IF agent[i] = l THEN None ELSE agent[i]]

ReconnectsRegistered(l) == server[l] /\ CanReconnect(peer[l])
Reconnects(l) == CanReconnect(peer[l])

(* The session is given up, and a new link replaces it when the peer is one *)
(* to connect to.                                                           *)
SessOver ==
    /\ RunTask("over") /\ InSessMap(Current.link)
    /\ LET l == Current.link
           given == [conn EXCEPT ![l] = "stopping"]
       IN  /\ agent' = WithoutAgent(l)
           /\ IF Reconnects(l)
              THEN \E k \in Links : NewLink(k, peer[l]) /\ conn' = [given EXCEPT ![k] = "dialing"]
              ELSE conn' = given /\ UNCHANGED <<peer, server>>
    /\ UNCHANGED hello

SessAlreadyOver ==
    /\ RunTask("over") /\ ~InSessMap(Current.link)
    /\ UNCHANGED <<peer, conn, hello, server, agent>>

(* RemoveSvr: the session that is registered for the instance, if any.      *)
RemoveSvr ==
    /\ RunTask("remove")
    /\ LET l == agent[Current.id]
       IN  IF l = None
           THEN UNCHANGED <<conn, agent>>
           ELSE conn' = [conn EXCEPT ![l] = "stopping"] /\ agent' = WithoutAgent(l)
    /\ UNCHANGED <<peer, hello, server>>

-----------------------------------------------------------------------------
Environment == (Registry \/ WatchBreaks) /\ UNCHANGED linkVars
Watching == Watcher /\ UNCHANGED linkVars
NetTask == AddSess \/ RegisterTask \/ SessOver \/ SessAlreadyOver \/ RemoveSvr
Goroutine(l) == Redial(l) \/ ReadHello(l) \/ RegisterSess(l) \/ HelloStatus(l) \/ StopLink(l)

LinksNext ==
    \/ Environment \/ Watching \/ ListenEvent \/ NetTask
    \/ \E l \in Links :
          Goroutine(l) \/ DialSucceeds(l) \/ DialFails(l) \/ LinkBreaks(l) \/ HelloRefused(l)

(* Goroutines run; every dial ends, and not every dial of an instance that  *)
(* is registered as healthy fails.                                          *)
LinksFairness ==
    /\ WF_linksVars(Watching) /\ WF_linksVars(ListenEvent) /\ WF_linksVars(NetTask)
    /\ \A l \in Links : WF_linksVars(Goroutine(l) \/ DialSucceeds(l) \/ DialFails(l))
    /\ \A i \in Instances :
          SF_linksVars(\E l \in Links :
              Registered(i) = "health" /\ peer[l] = i /\ DialSucceeds(l))

LinksSpec == LinksInit /\ [][LinksNext]_linksVars /\ LinksFairness

-----------------------------------------------------------------------------
(* Types; a link that is not connected has an agent of its own.             *)
LinksTypeOK ==
    /\ peer \in [Links -> Instances \cup {None}]
    /\ conn \in [Links -> {"none", "dialing", "waiting", "adding", "open", "broken", "stopping"}]
    /\ hello \in [Links -> {"none", "sent", "refused", "answered", "registering"}]
    /\ server \in [Links -> BOOLEAN] /\ agent \in [Instances -> Links \cup {None}]
    /\ \A l \in Links : conn[l] \in {"dialing", "waiting", "adding"} => ~server[l]
    /\ tasks \in Seq(Task) /\ linkBreaks \in 0..MaxLinkBreaks

(* Whatever the order in which a hello is answered, a connection breaks and *)
(* an instance is removed, messages for an instance are handed to a session *)
(* that NetMgr still has, and that is a link to this instance (SendMsg2Fix, *)
(* netmgr.go).                                                              *)
AgentIsHeld ==
    \A i \in Instances : agent[i] # None =>
        InSessMap(agent[i]) /\ server[agent[i]] /\ peer[agent[i]] = i

(* An instance that stays registered as healthy is in the end linked to and *)
(* stays so: connections that break and dials that fail are tried again     *)
(* (sessOverEvt, connectOnce).  There are two exceptions: a snapshot steps  *)
(* over a deletion; or an open connection to the instance has had its hello *)
(* refused, which nothing repeats while it stays open, and no other attempt *)
(* to link to the instance is under way.                                    *)
LinksOf(i) == {l \in Links : peer[l] = i /\ conn[l] # "none"}
Unheard(i) ==
    /\ \E l \in LinksOf(i) : hello[l] = "refused"
    /\ \A l \in LinksOf(i) : conn[l] = "open" /\ hello[l] \in {"refused", "none"}

EventuallyLinked ==
    \A i \in Instances :
        [](~missed) /\ <>[](Registered(i) = "health")
            => <>[](agent[i] # None \/ Unheard(i))
=============================================================================
