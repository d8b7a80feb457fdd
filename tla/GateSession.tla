------------------------------ MODULE GateSession ------------------------------
(***************************************************************************)
(* The sessions of one gamer on a gate: login, reconnect and logout in     *)
(* src/service/gate/module/login/handler.go, the user table of             *)
(* gate_user_mgr.go, and the end of a session through netmgr,              *)
(* ClientNetEventHandler and ClientDisconnectHandler.                      *)
(*                                                                         *)
(* Login and reconnect run in the reader goroutine of their session and    *)
(* wait there for redis, the account lock and the logic server, while the  *)
(* session may be stopped by NetMgr: stop() calls the disconnect handler   *)
(* at once, before the reader is done.  Logout runs on the async pool.     *)
(* The logic server and redis answer or fail; what they do is not          *)
(* modelled, the hash of the gamer in redis is (token and session).        *)
(*                                                                         *)
(* EvictNobody and LockIgnored are faulty variants of the definition that  *)
(* follows each of them; the specification does not use them (README,      *)
(* "Mutants").                                                             *)
(***************************************************************************)
EXTENDS Naturals, Sequences, FiniteSets

CONSTANTS
    MaxSess,      \* bound: sessions of the client
    TokenUses,    \* tokenUsedMaxTimes
    CacheTime,    \* GATE_CACHE_USER_TIME
    MaxTime       \* bound: the last moment of the clock

ASSUME GateAssumption ==
    {MaxSess, TokenUses, CacheTime, MaxTime} \subseteq Nat

Sessions == 1..MaxSess

VARIABLES
    now,
    user,      \* the GateUser in the table, if any
    cltUser,   \* sessions whose agent carries the gid
    linked,    \* NetMgr.sessMap
    ending,    \* removed from sessMap: how far stop() is
    tasks,     \* NetMgr.taskChan: the kicks
    handler,   \* the reader goroutine of each session
    logout,    \* the logout of each session on the async pool
    lock,      \* holder of the account lock in redis, or 0
    hash,      \* the gamer's online data in redis
    timers     \* when the gate_log_out timers are due

netVars   == <<linked, ending, tasks>>
redisVars == <<lock, hash>>
timeVars  == <<now, timers>>
gateVars  == <<user, cltUser, netVars, handler, logout, redisVars, timeVars>>

NoUser == [there |-> FALSE, sess |-> 0, uses |-> 0]
NewUser(s) == [there |-> TRUE, sess |-> s, uses |-> 0]

(* The gamer is authenticated and has not been on this gate. *)
GateInit ==
    /\ now = 0 /\ user = NoUser /\ cltUser = {}
    /\ linked = Sessions
    /\ ending = [s \in Sessions |-> "no"]
    /\ tasks = << >>
    /\ handler = [s \in Sessions |-> [pc |-> "ready", old |-> 0]]
    /\ logout = [s \in Sessions |-> "no"]
    /\ lock = 0 /\ hash = [token |-> TRUE, sess |-> 0]
    /\ timers = {}

At(s, pc) == handler[s].pc = pc
Goto(s, pc) == handler' = [handler EXCEPT ![s].pc = pc]

(* KickSession is a task for NetMgr's goroutine; kickSessionWithErrCode    *)
(* names the gamer, logout does not.                                       *)
Kick(s) == [sess |-> s, ofGamer |-> TRUE]
KickAnyone(s) == [sess |-> s, ofGamer |-> FALSE]

(* An attempt that fails kicks its own session and goes on at pc. *)
Fail(s, pc) ==
    /\ tasks' = Append(tasks, Kick(s)) /\ Goto(s, pc)
    /\ UNCHANGED <<user, cltUser, linked, ending, logout, redisVars, timeVars>>

-----------------------------------------------------------------------------
(* A login or a reconnect arrives; the session is not used for another.    *)
Arrive(s) ==
    /\ At(s, "ready") /\ s \in linked
    /\ Goto(s, "login") \/ Goto(s, "reconnect")
    /\ UNCHANGED <<user, cltUser, netVars, logout, redisVars, timeVars>>

LockIgnored == lock \in 0..MaxSess
LockFree == lock = 0

(* reqGamerLogin *)
LoginCheck(s) ==
    /\ At(s, "login")
    /\ \/ Fail(s, "done")
       \/ /\ hash.token /\ cltUser' = cltUser \cup {s} /\ Goto(s, "loginLock")
          /\ UNCHANGED <<user, netVars, logout, redisVars, timeVars>>

LoginLock(s) ==
    /\ At(s, "loginLock")
    /\ \/ Fail(s, "done")
       \/ /\ LockFree /\ lock' = s /\ Goto(s, "evict")
          /\ UNCHANGED <<user, cltUser, netVars, logout, hash, timeVars>>

(* The session that has the user is kicked, ... *)
EvictNobody(u) == << >>
Evicted(u) == IF u.sess = 0 THEN << >> ELSE <<Kick(u.sess)>>
LoginEvict(s) ==
    /\ At(s, "evict")
    /\ tasks' = tasks \o Evicted(user) /\ Goto(s, "add")
    /\ UNCHANGED <<user, cltUser, linked, ending, logout, redisVars, timeVars>>

(* ... and 20ms later a new user takes its place, whatever has become of it. *)
LoginAddUser(s) ==
    /\ At(s, "add")
    /\ user' = NewUser(s) /\ Goto(s, "loginRpc")
    /\ UNCHANGED <<cltUser, netVars, logout, redisVars, timeVars>>

LoginRpc(s) ==
    /\ At(s, "loginRpc")
    /\ \/ Fail(s, "unlock")
       \/ /\ Goto(s, "loginSave")
          /\ UNCHANGED <<user, cltUser, netVars, logout, redisVars, timeVars>>

(* SetGamerOnlineData writes the hash as it was read before the lock, with *)
(* the token in it.                                                        *)
Save(s, pc) ==
    /\ hash' = [token |-> TRUE, sess |-> s] /\ Goto(s, pc)
    /\ UNCHANGED <<user, cltUser, netVars, logout, lock, timeVars>>

LoginSave(s) == At(s, "loginSave") /\ Save(s, "unlock")

(* reqGamerLoginReconnect *)
ReconnectCheck(s) ==
    /\ At(s, "reconnect")
    /\ \/ Fail(s, "done")
       \/ /\ hash.token /\ Goto(s, "reconnectLock")
          /\ UNCHANGED <<user, cltUser, netVars, logout, redisVars, timeVars>>

ReconnectLock(s) ==
    /\ At(s, "reconnectLock")
    /\ \/ Fail(s, "done")
       \/ /\ LockFree /\ lock' = s /\ Goto(s, "find")
          /\ UNCHANGED <<user, cltUser, netVars, logout, hash, timeVars>>

(* CanReconnect counts the uses of the token; it also refuses the fifth    *)
(* within a minute, which may happen at any time here.                     *)
ReconnectFind(s) ==
    /\ At(s, "find")
    /\ \/ ~user.there /\ Fail(s, "unlock")
       \/ /\ user.there
          /\ user' = [user EXCEPT !.uses = @ + 1]
          /\ \/ /\ user'.uses <= TokenUses
                /\ handler' = [handler EXCEPT ![s] = [pc |-> "reconnectRpc", old |-> user.sess]]
                /\ UNCHANGED tasks
             \/ tasks' = Append(tasks, Kick(s)) /\ Goto(s, "tooMany")
          /\ UNCHANGED <<cltUser, linked, ending, logout, redisVars, timeVars>>

ReconnectTooMany(s) ==
    /\ At(s, "tooMany")
    /\ hash' = [hash EXCEPT !.token = FALSE] /\ Goto(s, "unlock")
    /\ UNCHANGED <<user, cltUser, netVars, logout, lock, timeVars>>

ReconnectRpc(s) ==
    /\ At(s, "reconnectRpc")
    /\ \/ Fail(s, "unlock")
       \/ /\ cltUser' = cltUser \cup {s} /\ Goto(s, "replace")
          /\ UNCHANGED <<user, netVars, logout, redisVars, timeVars>>

(* ReplaceSess *)
ReconnectReplace(s) ==
    /\ At(s, "replace")
    /\ LET mayReplace == user.there /\ user.sess \in {handler[s].old, 0} IN
       \/ /\ mayReplace
          /\ user' = [user EXCEPT !.sess = s] /\ Goto(s, "reconnectSave")
          /\ UNCHANGED <<cltUser, netVars, logout, redisVars, timeVars>>
       \/ ~mayReplace /\ Fail(s, "unlock")

ReconnectSave(s) == At(s, "reconnectSave") /\ Save(s, "evictOld")

ReconnectEvict(s) ==
    /\ At(s, "evictOld")
    /\ tasks' = tasks \o Evicted([sess |-> handler[s].old]) /\ Goto(s, "unlock")
    /\ UNCHANGED <<user, cltUser, linked, ending, logout, redisVars, timeVars>>

(* The watch dog goroutine of RedLock releases the lock after the handler. *)
Unlock(s) ==
    /\ At(s, "unlock")
    /\ lock' = 0 /\ Goto(s, "done")
    /\ UNCHANGED <<user, cltUser, netVars, logout, hash, timeVars>>

(* reqGamerLogout, on the async pool and without the lock. *)
LogoutArrives(s) ==
    /\ At(s, "done") /\ s \in linked \cap cltUser /\ logout[s] = "no"
    /\ logout' = [logout EXCEPT ![s] = "token"]
    /\ UNCHANGED <<user, cltUser, netVars, handler, redisVars, timeVars>>

LogoutDelToken(s) ==
    /\ logout[s] = "token"
    /\ hash' = [hash EXCEPT !.token = FALSE]
    /\ logout' = [logout EXCEPT ![s] = "kick"]
    /\ UNCHANGED <<user, cltUser, netVars, handler, lock, timeVars>>

LogoutKick(s) ==
    /\ logout[s] = "kick"
    /\ tasks' = Append(tasks, KickAnyone(s))
    /\ logout' = [logout EXCEPT ![s] = "done"]
    /\ UNCHANGED <<user, cltUser, linked, ending, handler, redisVars, timeVars>>

-----------------------------------------------------------------------------
(* NetMgr takes a session out of sessMap and starts its stop(). *)
Unlink(s) ==
    /\ linked' = linked \ {s}
    /\ ending' = [ending EXCEPT ![s] = "stop"]

KickHits(k) == k.sess \in linked /\ (k.ofGamer => k.sess \in cltUser)
RunTask ==
    /\ tasks # << >> /\ tasks' = Tail(tasks)
    /\ IF KickHits(Head(tasks)) THEN Unlink(Head(tasks).sess) ELSE UNCHANGED <<linked, ending>>
    /\ UNCHANGED <<user, cltUser, handler, logout, redisVars, timeVars>>

(* handleLoginTimeout *)
LoginTimeout(s) ==
    /\ s \in linked \ cltUser
    /\ Unlink(s)
    /\ UNCHANGED <<user, cltUser, tasks, handler, logout, redisVars, timeVars>>

(* The peer is gone.  The reader finds out when it reads, the writer when  *)
(* there is something for the session to write.                            *)
Break(s) ==
    /\ s \in linked
    /\ handler[s].pc \in {"ready", "done"} \/ user.sess = s
    /\ Unlink(s)
    /\ UNCHANGED <<user, cltUser, tasks, handler, logout, redisVars, timeVars>>

(* OnMsgQueStop and ClientDisconnectHandler: the user loses this session,  *)
(* and only this one; the same goes for the hash.  Then a timer is armed   *)
(* to remove the user; nothing cancels it.                                 *)
StopClear(s) ==
    /\ ending[s] = "stop"
    /\ IF s \in cltUser /\ user.there /\ user.sess = s
       THEN /\ user' = [user EXCEPT !.sess = 0]
            /\ ending' = [ending EXCEPT ![s] = "cleared"]
       ELSE /\ ending' = [ending EXCEPT ![s] = "done"]
            /\ UNCHANGED user
    /\ UNCHANGED <<cltUser, linked, tasks, handler, logout, redisVars, now, timers>>

StopClearOnline(s) ==
    /\ ending[s] = "cleared"
    /\ hash' = IF hash.sess = s THEN [hash EXCEPT !.sess = 0] ELSE hash
    /\ timers' = timers \cup {now + CacheTime}
    /\ ending' = [ending EXCEPT ![s] = "done"]
    /\ UNCHANGED <<user, cltUser, linked, tasks, handler, logout, lock, now>>

(* The gate_log_out timer: DelOffline. *)
Removed(u) == u.there /\ u.sess = 0
LogOutTimer(t) ==
    /\ t <= now
    /\ timers' = timers \ {t}
    /\ user' = IF Removed(user) THEN NoUser ELSE user
    /\ UNCHANGED <<cltUser, netVars, handler, logout, redisVars, now>>

Tick ==
    /\ now < MaxTime
    /\ now' = now + 1
    /\ UNCHANGED <<user, cltUser, netVars, handler, logout, redisVars, timers>>

Login(s) == LoginCheck(s) \/ LoginLock(s) \/ LoginEvict(s) \/ LoginAddUser(s) \/ LoginRpc(s) \/ LoginSave(s)
ReconnectSteps(s) ==
    \/ ReconnectCheck(s) \/ ReconnectLock(s) \/ ReconnectFind(s) \/ ReconnectTooMany(s)
    \/ ReconnectRpc(s) \/ ReconnectReplace(s) \/ ReconnectSave(s) \/ ReconnectEvict(s)
Handle(s) == Login(s) \/ ReconnectSteps(s) \/ Unlock(s)
Stop(s) == StopClear(s) \/ StopClearOnline(s)

GateNext ==
    \/ \E s \in Sessions :
          \/ Arrive(s) \/ Handle(s) \/ Stop(s) \/ Break(s) \/ LoginTimeout(s)
          \/ LogoutArrives(s) \/ LogoutDelToken(s) \/ LogoutKick(s)
    \/ RunTask \/ (\E t \in timers : LogOutTimer(t)) \/ Tick

(* Handlers return, since every call in them has a timeout; NetMgr's       *)
(* goroutine, its login timeout and the goroutines of stop() run.          *)
GateSpec ==
    /\ GateInit /\ [][GateNext]_gateVars
    /\ WF_gateVars(RunTask)
    /\ \A s \in Sessions :
          WF_gateVars(Handle(s)) /\ WF_gateVars(Stop(s)) /\ WF_gateVars(LoginTimeout(s))

-----------------------------------------------------------------------------
HandlerPcs == {"ready", "done", "unlock",
    "login", "loginLock", "evict", "add", "loginRpc", "loginSave",
    "reconnect", "reconnectLock", "find", "tooMany", "reconnectRpc", "replace", "reconnectSave", "evictOld"}

(* Where a handler is between RedLock and its cancel function. *)
LockedPcs == {"unlock", "evict", "add", "loginRpc", "loginSave",
    "find", "tooMany", "reconnectRpc", "replace", "reconnectSave", "evictOld"}

Handlers == [Sessions -> [pc : HandlerPcs, old : 0..MaxSess]]
Kicks == [sess : Sessions, ofGamer : BOOLEAN]
Hashes == [token : BOOLEAN, sess : 0..MaxSess]

GateTypes ==
    /\ now \in 0..MaxTime /\ timers \subseteq 0..(MaxTime + CacheTime)
    /\ user \in [there : BOOLEAN, sess : 0..MaxSess, uses : Nat]
    /\ cltUser \subseteq Sessions /\ linked \subseteq Sessions
    /\ ending \in [Sessions -> {"no", "stop", "cleared", "done"}]
    /\ tasks \in Seq(Kicks)
    /\ handler \in Handlers
    /\ logout \in [Sessions -> {"no", "token", "kick", "done"}]
    /\ lock \in 0..MaxSess /\ hash \in Hashes

LockHeld == \A s \in Sessions : handler[s].pc \in LockedPcs <=> lock = s

(* Types, and the account lock is held by the handler that is between      *)
(* taking and releasing it, and by no other: the 20ms wait, the RPC to     *)
(* logic and the writes to redis of two attempts never overlap.            *)
GateTypeOK == GateTypes /\ LockHeld

(* handler.go kicks whoever has the user before it, and every attempt that *)
(* fails: however logins and reconnects overlap, in the end no connection  *)
(* is left but the one the user has.                                       *)
EventuallyOneSession == <>[](linked \subseteq {user.sess})

(* A gamer that is online is not removed from the table by the timer of an *)
(* earlier absence.                                                        *)
OnlineIsKept == [][user.sess # 0 => user'.there]_gateVars
===============================================================================
