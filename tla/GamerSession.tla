---------------------------- MODULE GamerSession ----------------------------
(***************************************************************************)
(* One gamer id on one logic server: the gamers made for it over time, the *)
(* two indexes of GamerManager (by session and by id), the session and the *)
(* status each gamer believes in, and its task queue with the goroutine    *)
(* that drains it.                                                         *)
(*                                                                         *)
(* Login, reconnect and switch-out of one id run on one worker of the RPC  *)
(* pool, so they never overlap each other.  They do overlap the gamer's    *)
(* own goroutine, the kick from the gate (another pool), the drain of      *)
(* offline gamers when the server turns gray, the stop of the manager and  *)
(* the messages of the client that the gate connection routes.             *)
(*                                                                         *)
(* Each access to a map of the manager is one step (xsync.Map locks it),   *)
(* each access to the atomic session state is one step.  A gate gives each *)
(* session one login or one reconnect; sessions are numbered in the order  *)
(* in which they ask for it.                                               *)
(***************************************************************************)
EXTENDS Naturals, Sequences

CONSTANTS MaxSessions,  \* bound: player sessions that ask to come in
          MaxGamers,    \* bound: gamers made for the id
          MaxMessages,  \* bound: client messages
          MaxKicks,     \* bound: kicks from the gate
          MaxSwitches,  \* bound: switches to another logic server
          MaxDrains,    \* bound: gray drains
          QueueSize     \* capacity of Gamer.msgChan

ASSUME GamerParameters ==
    /\ {MaxSessions, MaxGamers, MaxMessages, MaxKicks, MaxSwitches, MaxDrains, QueueSize} \subseteq Nat
    /\ MaxGamers > 0 /\ QueueSize > 0

Gamers == 1..MaxGamers
Sessions == 1..MaxSessions
NoGamer == 0
None == 0

VARIABLES made,        \* gamers made so far
          bySess,      \* GamerManager.gamerBySessId
          byGid,       \* GamerManager.gamerByGid, at the one id
          playerSess,  \* playerSessId of each gamer's sessState
          online,      \* its status
          stopped,     \* Gamer.stopped; the queue is closed with it
          queue,       \* Gamer.msgChan
          req,         \* the request of the id the RPC pool works on
          asked,       \* number of sessions that have asked to come in
          givenUp,     \* sessions whose login has failed for the gate, as far as it shows
          answered,    \* sessions whose request was answered with success
          kick,        \* the kick the s2s pool works on
          drain,       \* sessions the gray drain still has to delete
          drainGid,    \* the drain is between its two deletes
          stopping,    \* Server.Stopping
          stopPc,      \* GamerManager.Stop
          count        \* messages, kicks, switches and drains so far

indexVars == <<bySess, byGid>>
stateVars == <<playerSess, online>>
otherVars == <<kick, drain, drainGid, stopping, stopPc, count>>
gamerVars == <<made, bySess, byGid, playerSess, online, stopped, queue, req,
               asked, givenUp, answered, kick, drain, drainGid, stopping, stopPc, count>>

Task(kind, sess) == [kind |-> kind, sess |-> sess]
Tasks == [kind : {"login", "online", "offline", "message"}, sess : Sessions \cup {None}]
Idle == [pc |-> "idle", op |-> "none", sess |-> None, gamer |-> NoGamer, old |-> None]
NoKick == [pc |-> "idle", sess |-> None, gamer |-> NoGamer]
Live(g) == g # NoGamer /\ ~stopped[g]

Init ==
    /\ made = 0
    /\ bySess = [s \in Sessions |-> NoGamer]
    /\ byGid = NoGamer
    /\ playerSess = [g \in Gamers |-> None]
    /\ online = [g \in Gamers |-> FALSE]
    /\ stopped = [g \in Gamers |-> FALSE]
    /\ queue = [g \in Gamers |-> <<>>]
    /\ req = Idle /\ asked = 0 /\ givenUp = {} /\ answered = {}
    /\ kick = NoKick /\ drain = {} /\ drainGid = FALSE
    /\ stopping = FALSE /\ stopPc = "no"
    /\ count = [messages |-> 0, kicks |-> 0, switches |-> 0, drains |-> 0]

-----------------------------------------------------------------------------
(* AddMsgTask: refused by a stopped gamer and by a full queue.  A stop      *)
(* between its check and its send makes the send panic: the task is lost as *)
(* if it had been refused.  A worker recovers and goes on; a reader recovers*)
(* and closes the connection of the whole gate, which this module leaves    *)
(* out (every session of that gate then ends).                              *)
Accepts(g) == ~stopped[g] /\ Len(queue[g]) < QueueSize
Add(g, task) == queue' = [queue EXCEPT ![g] = Append(@, task)]

(* Stop marks a gamer; those that are marked already stay so.               *)
StopAll(gs) == stopped' = [g \in Gamers |-> stopped[g] \/ g \in gs]

(* Answer ends the request; ok tells the gate that the session is in.       *)
Answer(ok) ==
    /\ req' = Idle
    /\ answered' = answered \cup (IF ok THEN {req.sess} ELSE {})
    /\ givenUp' = givenUp \cup (IF ~ok /\ req.op = "login" THEN {req.sess} ELSE {})

(* A request arrives and passes the check of Stopping, or is refused by it. *)
PassesStopping == ~stopping
Arrive(op, s) ==
    /\ req.pc = "idle" /\ PassesStopping
    /\ req' = [Idle EXCEPT !.pc = "find", !.op = op, !.sess = s]
    /\ UNCHANGED <<made, indexVars, stateVars, stopped, queue, answered>>

LoginArrives(op) ==
    /\ asked < MaxSessions
    /\ asked' = asked + 1
    /\ Arrive(op, asked')
    /\ UNCHANGED <<givenUp, otherVars>>

SwitchArrives ==
    /\ count.switches < MaxSwitches
    /\ count' = [count EXCEPT !.switches = @ + 1]
    /\ Arrive("switch", None)
    /\ UNCHANGED <<asked, givenUp, kick, drain, drainGid, stopping, stopPc>>

(* Login of a gamer that is in memory: it is online at once, under the new  *)
(* session, but the index by session is left as it is.  A stopped gamer is  *)
(* answered without an error.                                               *)
LoginFindAnswers ==
    /\ req.pc = "find" /\ req.op = "login" /\ byGid # NoGamer
    /\ answered' = answered \cup {req.sess} /\ UNCHANGED givenUp
    /\ IF stopped[byGid]
       THEN req' = Idle /\ UNCHANGED stateVars
       ELSE /\ playerSess' = [playerSess EXCEPT ![byGid] = req.sess]
            /\ online' = [online EXCEPT ![byGid] = TRUE]
            /\ req' = [req EXCEPT !.pc = "task", !.gamer = byGid]
    /\ UNCHANGED <<made, indexVars, stopped, queue, asked, otherVars>>
LoginFind ==
    /\ req.pc = "find" /\ req.op = "login" /\ byGid # NoGamer
    /\ IF stopped[byGid]
       THEN Answer(TRUE) /\ UNCHANGED stateVars
       ELSE /\ playerSess' = [playerSess EXCEPT ![byGid] = req.sess]
            /\ online' = [online EXCEPT ![byGid] = TRUE]
            /\ req' = [req EXCEPT !.pc = "task", !.gamer = byGid]
            /\ UNCHANGED <<givenUp, answered>>
    /\ UNCHANGED <<made, indexVars, stopped, queue, asked, otherVars>>

LoginCreate ==
    /\ req.pc = "find" /\ req.op = "login" /\ byGid = NoGamer
    /\ made < MaxGamers
    /\ made' = made + 1
    /\ playerSess' = [playerSess EXCEPT ![made'] = req.sess]
    /\ online' = [online EXCEPT ![made'] = TRUE]
    /\ req' = [req EXCEPT !.pc = "index", !.gamer = made']
    /\ UNCHANGED <<indexVars, stopped, queue, asked, givenUp, answered, otherVars>>

(* AddGamer: the index by session, then the index by id, then Start.        *)
AddBySess ==
    /\ req.pc = "index"
    /\ bySess' = [bySess EXCEPT ![req.sess] = req.gamer]
    /\ req' = [req EXCEPT !.pc = "gid"]
    /\ UNCHANGED <<made, byGid, stateVars, stopped, queue, asked, givenUp, answered, otherVars>>

AddByGid ==
    /\ req.pc = "gid"
    /\ byGid' = req.gamer
    /\ req' = [req EXCEPT !.pc = "task"]
    /\ UNCHANGED <<made, bySess, stateVars, stopped, queue, asked, givenUp, answered, otherVars>>

ReconnectFindUnindexed ==
    /\ req.pc = "find" /\ req.op = "reconnect"
    /\ IF ~Live(byGid)
       THEN Answer(FALSE)
       ELSE /\ req' = [req EXCEPT !.pc = "replace", !.gamer = byGid,
                                  !.old = playerSess[byGid]]
            /\ UNCHANGED <<givenUp, answered>>
    /\ UNCHANGED <<made, indexVars, stateVars, stopped, queue, asked, otherVars>>

(* Reconnect: ReplaceGamerSessId sets the new entry, then deletes the old.  *)
ReconnectFind ==
    /\ req.pc = "find" /\ req.op = "reconnect"
    /\ IF ~Live(byGid)
       THEN Answer(FALSE) /\ UNCHANGED bySess
       ELSE /\ bySess' = [bySess EXCEPT ![req.sess] = byGid]
            /\ req' = [req EXCEPT !.pc = "replace", !.gamer = byGid,
                                  !.old = playerSess[byGid]]
            /\ UNCHANGED <<givenUp, answered>>
    /\ UNCHANGED <<made, byGid, stateVars, stopped, queue, asked, otherVars>>

ReplaceOld ==
    /\ req.pc = "replace"
    /\ bySess' = [bySess EXCEPT ![req.old] = NoGamer]
    /\ req' = [req EXCEPT !.pc = "task"]
    /\ UNCHANGED <<made, byGid, stateVars, stopped, queue, asked, givenUp, answered, otherVars>>

(* The last step of both: the task that logs in, or that changes the        *)
(* session.  Without it the request fails.                                  *)
EnqueueLogin ==
    /\ req.pc = "task"
    /\ LET kind == IF req.op = "login" THEN "login" ELSE "online"
       IN  IF Accepts(req.gamer)
           THEN Add(req.gamer, Task(kind, req.sess)) /\ Answer(TRUE)
           ELSE Answer(FALSE) /\ UNCHANGED queue
    /\ UNCHANGED <<made, indexVars, stateVars, stopped, asked, otherVars>>

(* Switching out: a task sets the gamer offline, then DelGamer stops it, if *)
(* the index knows its session, and drops it from the index by id.          *)
SwitchFind ==
    /\ req.pc = "find" /\ req.op = "switch"
    /\ IF byGid # NoGamer /\ Accepts(byGid)
       THEN /\ Add(byGid, Task("offline", None))
            /\ req' = [req EXCEPT !.pc = "del_sess", !.gamer = byGid]
       ELSE req' = Idle /\ UNCHANGED queue
    /\ UNCHANGED <<made, indexVars, stateVars, stopped, asked, givenUp, answered, otherVars>>

DelBySess(s) ==
    /\ bySess' = [bySess EXCEPT ![s] = NoGamer]
    /\ StopAll({bySess[s]})

SwitchDelSess ==
    /\ req.pc = "del_sess"
    /\ DelBySess(playerSess[req.gamer])
    /\ req' = [req EXCEPT !.pc = "del_gid"]
    /\ UNCHANGED <<made, byGid, stateVars, queue, asked, givenUp, answered, otherVars>>

SwitchDelGid ==
    /\ req.pc = "del_gid"
    /\ byGid' = NoGamer
    /\ req' = Idle
    /\ UNCHANGED <<made, bySess, stateVars, stopped, queue, asked, givenUp, answered, otherVars>>

-----------------------------------------------------------------------------
(* The goroutine of a gamer: it drains the queue until it is closed AND     *)
(* empty.                                                                   *)
RunsUntilStopped(g) == queue[g] # <<>> /\ ~stopped[g]
Runs(g) == queue[g] # <<>>

RunTask(g) ==
    /\ Runs(g)
    /\ queue' = [queue EXCEPT ![g] = Tail(@)]
    /\ LET task == Head(queue[g])
       IN  /\ playerSess' = IF task.kind = "online"
                            THEN [playerSess EXCEPT ![g] = task.sess] ELSE playerSess
           /\ online' = IF task.kind \in {"online", "offline"}
                        THEN [online EXCEPT ![g] = task.kind = "online"] ELSE online
    /\ UNCHANGED <<made, indexVars, stopped, req, asked, givenUp, answered, otherVars>>

(* A client message; it reaches the gamer only under the session the gamer  *)
(* believes in.  The connection's reader waits for its login or reconnect,  *)
(* and reads on when that has failed, until the kick it posts is run.       *)
(* Reconnect sets the user and the route of the connection after its call,  *)
(* login before it: messages of a login that has failed are routed.  One    *)
(* that comes while the logic server still works on the login shows that    *)
(* the gate has given up on it (an error of the send, or no answer in time). *)
Route(s) ==
    /\ count.messages < MaxMessages
    /\ \/ s \in answered \cup givenUp /\ UNCHANGED givenUp
       \/ req.op = "login" /\ s = req.sess /\ givenUp' = givenUp \cup {s}
    /\ count' = [count EXCEPT !.messages = @ + 1]
    /\ IF byGid # NoGamer /\ playerSess[byGid] = s /\ Accepts(byGid)
       THEN Add(byGid, Task("message", s)) ELSE UNCHANGED queue
    /\ UNCHANGED <<made, indexVars, stateVars, stopped, req, asked, answered,
                   kick, drain, drainGid, stopping, stopPc>>

(* A kick: the session is matched, then SetOnlineStatus loads the state     *)
(* again and stores a copy that is offline.                                 *)
Matches(s) == byGid # NoGamer /\ playerSess[byGid] = s

KickMatch(s) ==
    /\ kick.pc = "idle" /\ s \in 1..asked /\ count.kicks < MaxKicks
    /\ count' = [count EXCEPT !.kicks = @ + 1]
    /\ kick' = IF Matches(s) THEN [pc |-> "load", sess |-> s, gamer |-> byGid] ELSE kick
    /\ UNCHANGED <<made, indexVars, stateVars, stopped, queue, req, asked, givenUp, answered,
                   drain, drainGid, stopping, stopPc>>

KickLoad ==
    /\ kick.pc = "load"
    /\ kick' = [kick EXCEPT !.pc = "store", !.sess = playerSess[kick.gamer]]
    /\ UNCHANGED <<made, indexVars, stateVars, stopped, queue, req, asked, givenUp, answered,
                   drain, drainGid, stopping, stopPc, count>>

KickStore ==
    /\ kick.pc = "store"
    /\ playerSess' = [playerSess EXCEPT ![kick.gamer] = kick.sess]
    /\ online' = [online EXCEPT ![kick.gamer] = FALSE]
    /\ kick' = NoKick
    /\ UNCHANGED <<made, indexVars, stopped, queue, req, asked, givenUp, answered,
                   drain, drainGid, stopping, stopPc, count>>

(* DrainOfflineForGray collects under the read lock, then deletes each      *)
(* target by session and by id.                                             *)
DrainCollect ==
    /\ drain = {} /\ ~drainGid /\ count.drains < MaxDrains
    /\ count' = [count EXCEPT !.drains = @ + 1]
    /\ drain' = {s \in Sessions : bySess[s] # NoGamer /\ ~online[bySess[s]]}
    /\ UNCHANGED <<made, indexVars, stateVars, stopped, queue, req, asked, givenUp, answered,
                   kick, drainGid, stopping, stopPc>>

DrainDelSess(s) ==
    /\ s \in drain /\ ~drainGid
    /\ DelBySess(s)
    /\ drain' = drain \ {s} /\ drainGid' = TRUE
    /\ UNCHANGED <<made, byGid, stateVars, queue, req, asked, givenUp, answered,
                   kick, stopping, stopPc, count>>

DrainDelGid ==
    /\ drainGid
    /\ byGid' = NoGamer /\ drainGid' = FALSE
    /\ UNCHANGED <<made, bySess, stateVars, stopped, queue, req, asked, givenUp, answered,
                   kick, drain, stopping, stopPc, count>>

(* The server stops: Stopping is set, then GamerManager.Stop sets all that  *)
(* are indexed offline, then stops them.                                    *)
Indexed == {bySess[s] : s \in Sessions} \ {NoGamer}

ServerStop ==
    /\ ~stopping /\ stopping' = TRUE
    /\ UNCHANGED <<made, indexVars, stateVars, stopped, queue, req, asked, givenUp, answered,
                   kick, drain, drainGid, stopPc, count>>

MgrOffline ==
    /\ stopping /\ stopPc = "no" /\ stopPc' = "offline"
    /\ online' = [g \in Gamers |-> online[g] /\ g \notin Indexed]
    /\ UNCHANGED <<made, indexVars, playerSess, stopped, queue, req, asked, givenUp, answered,
                   kick, drain, drainGid, stopping, count>>

MgrStop ==
    /\ stopPc = "offline" /\ stopPc' = "done"
    /\ StopAll(Indexed)
    /\ UNCHANGED <<made, indexVars, stateVars, queue, req, asked, givenUp, answered,
                   kick, drain, drainGid, stopping, count>>

-----------------------------------------------------------------------------
Worker == \/ LoginFind \/ LoginCreate \/ AddBySess \/ AddByGid
          \/ ReconnectFind \/ ReplaceOld \/ EnqueueLogin
          \/ SwitchFind \/ SwitchDelSess \/ SwitchDelGid
KickWorker == KickLoad \/ KickStore
Drainer == DrainDelGid \/ \E s \in Sessions : DrainDelSess(s)

Next ==
    \/ \E op \in {"login", "reconnect"} : LoginArrives(op)
    \/ SwitchArrives \/ Worker
    \/ \E g \in Gamers : RunTask(g)
    \/ \E s \in Sessions : Route(s) \/ KickMatch(s)
    \/ KickWorker \/ DrainCollect \/ Drainer
    \/ ServerStop \/ MgrOffline \/ MgrStop

(* A goroutine that can run is run: the gamer's and the three workers.      *)
Fairness ==
    /\ \A g \in Gamers : WF_gamerVars(RunTask(g))
    /\ WF_gamerVars(Worker) /\ WF_gamerVars(KickWorker) /\ WF_gamerVars(Drainer)

Spec == Init /\ [][Next]_gamerVars /\ Fairness

-----------------------------------------------------------------------------
(* Types, and the order of creation: only gamers that were made are         *)
(* indexed, and a gamer is indexed by id only with a session.               *)
GamerTypeOK ==
    /\ made \in 0..MaxGamers
    /\ bySess \in [Sessions -> 0..made]
    /\ byGid \in 0..made
    /\ playerSess \in [Gamers -> Sessions \cup {None}]
    /\ online \in [Gamers -> BOOLEAN] /\ stopped \in [Gamers -> BOOLEAN]
    /\ queue \in [Gamers -> Seq(Tasks)]
    /\ \A g \in Gamers : Len(queue[g]) <= QueueSize
    /\ \A g \in Gamers : playerSess[g] = None <=> g > made
    /\ req \in [pc : {"idle", "find", "index", "gid", "replace", "task", "del_sess", "del_gid"},
                op : {"none", "login", "reconnect", "switch"},
                sess : Sessions \cup {None}, gamer : 0..made, old : Sessions \cup {None}]
    /\ req.pc \in {"index", "gid", "replace", "task", "del_sess", "del_gid"} => req.gamer # NoGamer
    /\ req.op \in {"login", "reconnect"} => req.sess \in 1..asked
    /\ req.pc = "replace" => req.old # None
    /\ answered \subseteq 1..asked /\ givenUp \subseteq 1..asked /\ asked \in 0..MaxSessions
    /\ kick \in [pc : {"idle", "load", "store"}, sess : Sessions \cup {None}, gamer : 0..made]
    /\ kick.pc # "idle" => kick.gamer # NoGamer /\ kick.sess # None
    /\ drain \subseteq Sessions /\ drainGid \in BOOLEAN
    /\ stopping \in BOOLEAN /\ stopPc \in {"no", "offline", "done"}

(* The gamer that the id leads to is stopped, or some session leads to it:  *)
(* Foreach, the gray drain and Stop, which all go by session, miss no gamer *)
(* that still takes messages.  ReplaceGamerSessId, DelGamer and the drain   *)
(* change the two indexes in steps of their own.                            *)
Reachable == Live(byGid) => \E s \in Sessions : bySess[s] = byGid

(* No client message runs before the task of the login or reconnect that    *)
(* brought its session in: the order is that of the queue, although login   *)
(* sets the session before it enqueues its task.  Excepted are the logins   *)
(* the gate gave up on: the gamer takes messages of such a session as soon  *)
(* as it has the session, before the task or with no task at all, until the *)
(* gate has kicked it.                                                      *)
LoginRunsFirst ==
    \A g \in Gamers, i, j \in 1..QueueSize :
        i < j /\ j <= Len(queue[g])
        /\ queue[g][i].kind = "message" /\ queue[g][i].sess \notin givenUp
        /\ queue[g][j].kind \in {"login", "online"}
            => queue[g][i].sess # queue[g][j].sess

(* Whatever was accepted into a queue is run, also when the gamer is        *)
(* stopped, dropped from both indexes and replaced by another one.          *)
EveryTaskRuns == \A g \in Gamers : queue[g] # <<>> ~> queue[g] = <<>>
=============================================================================
