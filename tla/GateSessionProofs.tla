--------------------------- MODULE GateSessionProofs ---------------------------
(***************************************************************************)
(* Proofs about GateSession for any number of sessions, any limit of the   *)
(* token, any cache time and any clock.                                    *)
(*                                                                         *)
(* GateInv adds to GateTypeOK that a user with a session is in the table.  *)
(* The steps of a handler either fail, save the online data, or move on    *)
(* and touch one more variable; the first two have a lemma each.           *)
(***************************************************************************)
EXTENDS GateSession, TLAPS

BoundIsThere == user.sess # 0 => user.there

GateInv == GateTypes /\ LockHeld /\ BoundIsThere

(* The invariant holds at the start. *)
LEMMA GateInvInit == GateInit => GateInv
<1> SUFFICES ASSUME GateInit PROVE GateInv
  OBVIOUS
<1> USE GateAssumption DEF GateAssumption, GateInit, Sessions, NoUser
<1>1. GateTypes
  BY DEF GateTypes, HandlerPcs, Handlers, Hashes, Kicks
<1>2. LockHeld
  BY DEF LockHeld, LockedPcs
<1>3. BoundIsThere
  BY DEF BoundIsThere
<1> QED
  BY <1>1, <1>2, <1>3 DEF GateInv

-----------------------------------------------------------------------------
(* What the parts of a step do to the parts of the invariant. *)

(* Going on within the locked part, or outside of it, keeps the lock. *)
LEMMA GotoKeeps ==
    ASSUME handler \in Handlers, LockHeld, NEW s \in Sessions, NEW pc \in HandlerPcs,
           handler[s].pc \in LockedPcs <=> pc \in LockedPcs,
           Goto(s, pc), lock' = lock
    PROVE  handler' \in Handlers /\ LockHeld'
<1>1. handler' \in Handlers
  BY DEF Handlers, Goto
<1>2. \A q \in Sessions : handler'[q].pc = IF q = s THEN pc ELSE handler[q].pc
  BY DEF Handlers, Goto
<1> QED
  BY <1>1, <1>2 DEF LockHeld

(* A kick is a task of the right form. *)
LEMMA KickTyped ==
    ASSUME tasks \in Seq(Kicks), NEW s \in Sessions
    PROVE  Append(tasks, Kick(s)) \in Seq(Kicks) /\ Append(tasks, KickAnyone(s)) \in Seq(Kicks)
BY DEF Kicks, Kick, KickAnyone

(* And so is the kick of the session that has the user. *)
LEMMA EvictTyped ==
    ASSUME tasks \in Seq(Kicks), NEW u, u.sess \in 0..MaxSess
    PROVE  tasks \o Evicted(u) \in Seq(Kicks)
<1>1. Evicted(u) \in Seq(Kicks)
  <2>1. CASE u.sess = 0
    BY <2>1 DEF Evicted
  <2>2. CASE u.sess # 0
    <3>1. Kick(u.sess) \in Kicks
      BY <2>2, GateAssumption DEF Kicks, Kick, Sessions, GateAssumption
    <3> QED
      BY <3>1, <2>2 DEF Evicted
  <2> QED
    BY <2>1, <2>2
<1> QED
  BY <1>1

(* An attempt that fails. *)
LEMMA FailKeeps ==
    ASSUME GateInv, NEW s \in Sessions, NEW pc \in HandlerPcs,
           handler[s].pc \in LockedPcs <=> pc \in LockedPcs,
           Fail(s, pc)
    PROVE  GateInv'
<1>1. handler' \in Handlers /\ LockHeld'
  BY GotoKeeps DEF Fail, GateInv, GateTypes, redisVars
<1>2. tasks' \in Seq(Kicks)
  BY KickTyped DEF Fail, GateInv, GateTypes
<1> QED
  BY <1>1, <1>2 DEF Fail, GateInv, GateTypes, BoundIsThere, redisVars, timeVars

(* The online data is saved. *)
LEMMA SaveKeeps ==
    ASSUME GateInv, NEW s \in Sessions, NEW pc \in HandlerPcs,
           handler[s].pc \in LockedPcs <=> pc \in LockedPcs,
           Save(s, pc)
    PROVE  GateInv'
<1>1. handler' \in Handlers /\ LockHeld'
  BY GotoKeeps DEF Save, GateInv, GateTypes
<1>2. hash' \in Hashes
  BY GateAssumption DEF Save, Hashes, Sessions, GateAssumption
<1> QED
  BY <1>1, <1>2 DEF Save, GateInv, GateTypes, BoundIsThere, netVars, timeVars

(* The lock is taken when it is free. *)
LEMMA LockKeeps ==
    ASSUME handler \in Handlers, LockHeld, NEW s \in Sessions, NEW pc \in LockedPcs,
           LockFree, lock' = s, Goto(s, pc)
    PROVE  handler' \in Handlers /\ LockHeld' /\ lock' \in 0..MaxSess
<1>1. handler' \in Handlers
  BY DEF Handlers, Goto, HandlerPcs, LockedPcs
<1>2. \A q \in Sessions : handler'[q].pc = IF q = s THEN pc ELSE handler[q].pc
  BY DEF Handlers, Goto
<1>3. \A q \in Sessions : handler[q].pc \notin LockedPcs
  BY GateAssumption DEF LockHeld, LockFree, Sessions, GateAssumption
<1>4. LockHeld'
  BY <1>2, <1>3 DEF LockHeld
<1> QED
  BY <1>1, <1>4, GateAssumption DEF Sessions, GateAssumption

(* Every step of a login. *)
LEMMA LoginKeeps ==
    ASSUME GateInv, NEW s \in Sessions, Login(s)
    PROVE  GateInv'
<1> USE DEF At
<1>1. CASE LoginCheck(s)
  <2>1. CASE Fail(s, "done")
    BY <1>1, <2>1, FailKeeps DEF LoginCheck, HandlerPcs, LockedPcs
  <2>2. CASE ~Fail(s, "done")
    <3>1. handler' \in Handlers /\ LockHeld'
      BY <1>1, <2>2, GotoKeeps DEF LoginCheck, GateInv, GateTypes, HandlerPcs, LockedPcs, redisVars
    <3> QED
      BY <1>1, <2>2, <3>1 DEF LoginCheck, GateInv, GateTypes, BoundIsThere, netVars, redisVars, timeVars
  <2> QED
    BY <2>1, <2>2
<1>2. CASE LoginLock(s)
  <2>1. CASE Fail(s, "done")
    BY <1>2, <2>1, FailKeeps DEF LoginLock, HandlerPcs, LockedPcs
  <2>2. CASE ~Fail(s, "done")
    <3>1. handler' \in Handlers /\ LockHeld' /\ lock' \in 0..MaxSess
      BY <1>2, <2>2, LockKeeps DEF LoginLock, GateInv, GateTypes, LockedPcs
    <3> QED
      BY <1>2, <2>2, <3>1 DEF LoginLock, GateInv, GateTypes, BoundIsThere, netVars, timeVars
  <2> QED
    BY <2>1, <2>2
<1>3. CASE LoginEvict(s)
  <2>1. handler' \in Handlers /\ LockHeld'
    BY <1>3, GotoKeeps DEF LoginEvict, GateInv, GateTypes, HandlerPcs, LockedPcs, redisVars
  <2>2. tasks' \in Seq(Kicks)
    BY <1>3, EvictTyped DEF LoginEvict, GateInv, GateTypes
  <2> QED
    BY <1>3, <2>1, <2>2 DEF LoginEvict, GateInv, GateTypes, BoundIsThere, redisVars, timeVars
<1>4. CASE LoginAddUser(s)
  <2>1. handler' \in Handlers /\ LockHeld'
    BY <1>4, GotoKeeps DEF LoginAddUser, GateInv, GateTypes, HandlerPcs, LockedPcs, redisVars
  <2>2. user' \in [there : BOOLEAN, sess : 0..MaxSess, uses : Nat] /\ BoundIsThere'
    BY <1>4, GateAssumption DEF LoginAddUser, NewUser, BoundIsThere, Sessions, GateAssumption
  <2> QED
    BY <1>4, <2>1, <2>2 DEF LoginAddUser, GateInv, GateTypes, netVars, redisVars, timeVars
<1>5. CASE LoginRpc(s)
  <2>1. CASE Fail(s, "unlock")
    BY <1>5, <2>1, FailKeeps DEF LoginRpc, HandlerPcs, LockedPcs
  <2>2. CASE ~Fail(s, "unlock")
    <3>1. handler' \in Handlers /\ LockHeld'
      BY <1>5, <2>2, GotoKeeps DEF LoginRpc, GateInv, GateTypes, HandlerPcs, LockedPcs, redisVars
    <3> QED
      BY <1>5, <2>2, <3>1 DEF LoginRpc, GateInv, GateTypes, BoundIsThere, netVars, redisVars, timeVars
  <2> QED
    BY <2>1, <2>2
<1>6. CASE LoginSave(s)
  BY <1>6, SaveKeeps DEF LoginSave, HandlerPcs, LockedPcs
<1> QED
  BY <1>1, <1>2, <1>3, <1>4, <1>5, <1>6 DEF Login

(* Every step of a reconnect. *)
LEMMA ReconnectKeeps ==
    ASSUME GateInv, NEW s \in Sessions, ReconnectSteps(s)
    PROVE  GateInv'
<1> USE DEF At
<1> DEFINE Users == [there : BOOLEAN, sess : 0..MaxSess, uses : Nat]
<1>1. CASE ReconnectCheck(s)
  <2>1. CASE Fail(s, "done")
    BY <1>1, <2>1, FailKeeps DEF ReconnectCheck, HandlerPcs, LockedPcs
  <2>2. CASE ~Fail(s, "done")
    <3>1. handler' \in Handlers /\ LockHeld'
      BY <1>1, <2>2, GotoKeeps DEF ReconnectCheck, GateInv, GateTypes, HandlerPcs, LockedPcs, redisVars
    <3> QED
      BY <1>1, <2>2, <3>1 DEF ReconnectCheck, GateInv, GateTypes, BoundIsThere, netVars, redisVars, timeVars
  <2> QED
    BY <2>1, <2>2
<1>2. CASE ReconnectLock(s)
  <2>1. CASE Fail(s, "done")
    BY <1>2, <2>1, FailKeeps DEF ReconnectLock, HandlerPcs, LockedPcs
  <2>2. CASE ~Fail(s, "done")
    <3>1. handler' \in Handlers /\ LockHeld' /\ lock' \in 0..MaxSess
      BY <1>2, <2>2, LockKeeps DEF ReconnectLock, GateInv, GateTypes, LockedPcs
    <3> QED
      BY <1>2, <2>2, <3>1 DEF ReconnectLock, GateInv, GateTypes, BoundIsThere, netVars, timeVars
  <2> QED
    BY <2>1, <2>2
<1>3. CASE ReconnectFind(s)
  <2>1. CASE ~user.there
    BY <1>3, <2>1, FailKeeps DEF ReconnectFind, HandlerPcs, LockedPcs
  <2>2. CASE user.there
    <3>1. user' \in Users /\ BoundIsThere'
      <4>1. PICK n : n = user.uses + 1
        OBVIOUS
      <4>2. user' = [user EXCEPT !.uses = n]
        BY <1>3, <2>2, <4>1, Zenon DEF ReconnectFind, Fail
      <4>3. user \in Users
        BY DEF GateInv, GateTypes
      <4>4. n \in Nat
        BY <4>1, <4>3
      <4> QED
        BY <2>2, <4>2, <4>3, <4>4 DEF BoundIsThere
    <3>2. user.sess \in 0..MaxSess
      BY DEF GateInv, GateTypes
    <3>3. lock' = lock
      BY <1>3, <2>2 DEF ReconnectFind, redisVars
    <3>4. CASE handler' = [handler EXCEPT ![s] = [pc |-> "reconnectRpc", old |-> user.sess]] /\ tasks' = tasks
      <4>1. handler' \in Handlers
        BY <3>2, <3>4 DEF GateInv, GateTypes, Handlers, HandlerPcs
      <4>2. \A q \in Sessions : handler'[q].pc = IF q = s THEN "reconnectRpc" ELSE handler[q].pc
        BY <3>4 DEF GateInv, GateTypes, Handlers
      <4>3. LockHeld'
        BY <1>3, <3>3, <4>2 DEF ReconnectFind, GateInv, LockHeld, LockedPcs
      <4> QED
        BY <1>3, <2>2, <3>1, <3>4, <4>1, <4>3
        DEF ReconnectFind, GateInv, GateTypes, redisVars, timeVars
    <3>5. CASE tasks' = Append(tasks, Kick(s)) /\ Goto(s, "tooMany")
      <4>1. handler' \in Handlers /\ LockHeld'
        BY <1>3, <3>3, <3>5, GotoKeeps DEF ReconnectFind, GateInv, GateTypes, HandlerPcs, LockedPcs
      <4>2. tasks' \in Seq(Kicks)
        BY <3>5, KickTyped DEF GateInv, GateTypes
      <4> QED
        BY <1>3, <2>2, <3>1, <4>1, <4>2 DEF ReconnectFind, GateInv, GateTypes, redisVars, timeVars
    <3> QED
      BY <1>3, <2>2, <3>4, <3>5 DEF ReconnectFind
  <2> QED
    BY <2>1, <2>2
<1>4. CASE ReconnectTooMany(s)
  <2>1. handler' \in Handlers /\ LockHeld'
    BY <1>4, GotoKeeps DEF ReconnectTooMany, GateInv, GateTypes, HandlerPcs, LockedPcs
  <2>2. hash' \in Hashes
    BY <1>4 DEF ReconnectTooMany, GateInv, GateTypes, Hashes
  <2> QED
    BY <1>4, <2>1, <2>2 DEF ReconnectTooMany, GateInv, GateTypes, BoundIsThere, netVars, timeVars
<1>5. CASE ReconnectRpc(s)
  <2>1. CASE Fail(s, "unlock")
    BY <1>5, <2>1, FailKeeps DEF ReconnectRpc, HandlerPcs, LockedPcs
  <2>2. CASE ~Fail(s, "unlock")
    <3>1. handler' \in Handlers /\ LockHeld'
      BY <1>5, <2>2, GotoKeeps DEF ReconnectRpc, GateInv, GateTypes, HandlerPcs, LockedPcs, redisVars
    <3> QED
      BY <1>5, <2>2, <3>1 DEF ReconnectRpc, GateInv, GateTypes, BoundIsThere, netVars, redisVars, timeVars
  <2> QED
    BY <2>1, <2>2
<1>6. CASE ReconnectReplace(s)
  <2>1. CASE Fail(s, "unlock")
    BY <1>6, <2>1, FailKeeps DEF ReconnectReplace, HandlerPcs, LockedPcs
  <2>2. CASE ~Fail(s, "unlock")
    <3>1. handler' \in Handlers /\ LockHeld'
      BY <1>6, <2>2, GotoKeeps DEF ReconnectReplace, GateInv, GateTypes, HandlerPcs, LockedPcs, redisVars
    <3>2. user.there /\ user' = [user EXCEPT !.sess = s]
      BY <1>6, <2>2 DEF ReconnectReplace
    <3>3. user' \in Users /\ BoundIsThere'
      <4>1. user \in Users
        BY DEF GateInv, GateTypes
      <4>2. s \in 0..MaxSess
        BY GateAssumption DEF Sessions, GateAssumption
      <4> QED
        BY <3>2, <4>1, <4>2 DEF BoundIsThere
    <3> QED
      BY <1>6, <2>2, <3>1, <3>3 DEF ReconnectReplace, GateInv, GateTypes, netVars, redisVars, timeVars
  <2> QED
    BY <2>1, <2>2
<1>7. CASE ReconnectSave(s)
  BY <1>7, SaveKeeps DEF ReconnectSave, HandlerPcs, LockedPcs
<1>8. CASE ReconnectEvict(s)
  <2>1. handler' \in Handlers /\ LockHeld'
    BY <1>8, GotoKeeps DEF ReconnectEvict, GateInv, GateTypes, HandlerPcs, LockedPcs, redisVars
  <2>2. handler[s].old \in 0..MaxSess
    BY DEF GateInv, GateTypes, Handlers
  <2>3. tasks \o Evicted([sess |-> handler[s].old]) \in Seq(Kicks)
    <3>1. tasks \in Seq(Kicks) /\ [sess |-> handler[s].old].sess \in 0..MaxSess
      BY <2>2 DEF GateInv, GateTypes
    <3> QED
      BY <3>1, EvictTyped
  <2>4. tasks' \in Seq(Kicks)
    BY <1>8, <2>3 DEF ReconnectEvict
  <2> QED
    BY <1>8, <2>1, <2>4 DEF ReconnectEvict, GateInv, GateTypes, BoundIsThere, redisVars, timeVars
<1> QED
  BY <1>1, <1>2, <1>3, <1>4, <1>5, <1>6, <1>7, <1>8 DEF ReconnectSteps

(* The watch dog releases the lock. *)
LEMMA UnlockKeeps ==
    ASSUME GateInv, NEW s \in Sessions, Unlock(s)
    PROVE  GateInv'
<1>1. handler' \in Handlers
  BY DEF Unlock, Goto, GateInv, GateTypes, Handlers, HandlerPcs
<1>2. \A q \in Sessions : handler'[q].pc = IF q = s THEN "done" ELSE handler[q].pc
  BY DEF Unlock, Goto, GateInv, GateTypes, Handlers
<1>3. \A q \in Sessions : handler'[q].pc \notin LockedPcs
  BY <1>2 DEF Unlock, At, GateInv, LockHeld, LockedPcs
<1>4. LockHeld' /\ lock' \in 0..MaxSess
  BY <1>3, GateAssumption DEF Unlock, LockHeld, Sessions, GateAssumption
<1> QED
  BY <1>1, <1>4 DEF Unlock, GateInv, GateTypes, BoundIsThere, netVars, timeVars

-----------------------------------------------------------------------------
(* Every step of a logout. *)
LEMMA LogoutKeeps ==
    ASSUME GateInv, NEW s \in Sessions,
           LogoutArrives(s) \/ LogoutDelToken(s) \/ LogoutKick(s)
    PROVE  GateInv'
<1>1. CASE LogoutArrives(s)
  <2>1. LockHeld'
    BY <1>1 DEF LogoutArrives, GateInv, LockHeld, redisVars
  <2> QED
    BY <1>1, <2>1 DEF LogoutArrives, GateInv, GateTypes, BoundIsThere, netVars, redisVars, timeVars
<1>2. CASE LogoutDelToken(s)
  <2>1. LockHeld'
    BY <1>2 DEF LogoutDelToken, GateInv, LockHeld
  <2>2. hash' \in Hashes
    BY <1>2 DEF LogoutDelToken, GateInv, GateTypes, Hashes
  <2> QED
    BY <1>2, <2>1, <2>2 DEF LogoutDelToken, GateInv, GateTypes, BoundIsThere, netVars, timeVars
<1>3. CASE LogoutKick(s)
  <2>1. LockHeld'
    BY <1>3 DEF LogoutKick, GateInv, LockHeld, redisVars
  <2>2. tasks' \in Seq(Kicks)
    BY <1>3, KickTyped DEF LogoutKick, GateInv, GateTypes
  <2> QED
    BY <1>3, <2>1, <2>2 DEF LogoutKick, GateInv, GateTypes, BoundIsThere, redisVars, timeVars
<1> QED
  BY <1>1, <1>2, <1>3

(* NetMgr stops a session: for a kick, a login that took too long, or a    *)
(* connection that broke.                                                  *)
LEMMA UnlinkKeeps ==
    ASSUME GateInv, RunTask \/ (\E s \in Sessions : LoginTimeout(s) \/ Break(s))
    PROVE  GateInv'
<1>1. /\ UNCHANGED <<user, cltUser, handler, logout, lock, hash, now, timers>>
      /\ tasks' = tasks \/ (tasks # << >> /\ tasks' = Tail(tasks))
  BY DEF RunTask, LoginTimeout, Break, redisVars, timeVars
<1>2. UNCHANGED <<linked, ending>> \/ \E s \in Sessions : Unlink(s)
  BY DEF RunTask, LoginTimeout, Break, KickHits, GateInv, GateTypes
<1>3. linked' \subseteq Sessions /\ ending' \in [Sessions -> {"no", "stop", "cleared", "done"}]
  BY <1>2 DEF Unlink, GateInv, GateTypes
<1>4. tasks' \in Seq(Kicks)
  <2>1. tasks \in Seq(Kicks)
    BY DEF GateInv, GateTypes
  <2>2. CASE tasks # << >> /\ tasks' = Tail(tasks)
    BY <2>1, <2>2
  <2> QED
    BY <1>1, <2>1, <2>2
<1>5. LockHeld' /\ BoundIsThere'
  BY <1>1 DEF GateInv, LockHeld, BoundIsThere
<1> QED
  BY <1>1, <1>3, <1>4, <1>5 DEF GateInv, GateTypes

(* The disconnect handler. *)
LEMMA StopKeeps ==
    ASSUME GateInv, NEW s \in Sessions, Stop(s)
    PROVE  GateInv'
<1>1. CASE StopClear(s)
  <2>1. LockHeld'
    BY <1>1 DEF StopClear, GateInv, LockHeld, redisVars
  <2>2. /\ user' \in [there : BOOLEAN, sess : 0..MaxSess, uses : Nat]
        /\ BoundIsThere'
    BY <1>1, GateAssumption DEF StopClear, GateInv, GateTypes, BoundIsThere, GateAssumption
  <2>3. ending' \in [Sessions -> {"no", "stop", "cleared", "done"}]
    BY <1>1 DEF StopClear, GateInv, GateTypes
  <2> QED
    BY <1>1, <2>1, <2>2, <2>3 DEF StopClear, GateInv, GateTypes, redisVars
<1>2. CASE StopClearOnline(s)
  <2>1. LockHeld'
    BY <1>2 DEF StopClearOnline, GateInv, LockHeld
  <2>2. hash' \in Hashes
    BY <1>2, GateAssumption DEF StopClearOnline, GateInv, GateTypes, Hashes, GateAssumption
  <2>3. now + CacheTime \in 0..(MaxTime + CacheTime)
    BY GateAssumption DEF GateInv, GateTypes, GateAssumption
  <2>4. ending' \in [Sessions -> {"no", "stop", "cleared", "done"}]
    BY <1>2 DEF StopClearOnline, GateInv, GateTypes
  <2> QED
    BY <1>2, <2>1, <2>2, <2>3, <2>4 DEF StopClearOnline, GateInv, GateTypes, BoundIsThere
<1> QED
  BY <1>1, <1>2 DEF Stop

(* The timer and the clock. *)
LEMMA TimeKeeps ==
    ASSUME GateInv, (\E t \in timers : LogOutTimer(t)) \/ Tick
    PROVE  GateInv'
<1>1. CASE \E t \in timers : LogOutTimer(t)
  <2>1. LockHeld'
    BY <1>1 DEF LogOutTimer, GateInv, LockHeld, redisVars
  <2>2. user' \in [there : BOOLEAN, sess : 0..MaxSess, uses : Nat] /\ BoundIsThere'
    BY <1>1, GateAssumption DEF LogOutTimer, NoUser, GateInv, GateTypes, BoundIsThere, GateAssumption
  <2> QED
    BY <1>1, <2>1, <2>2 DEF LogOutTimer, GateInv, GateTypes, netVars, redisVars
<1>2. CASE Tick
  <2>1. LockHeld'
    BY <1>2 DEF Tick, GateInv, LockHeld, redisVars
  <2>2. now' \in 0..MaxTime
    BY <1>2, GateAssumption DEF Tick, GateInv, GateTypes, GateAssumption
  <2> QED
    BY <1>2, <2>1, <2>2 DEF Tick, GateInv, GateTypes, BoundIsThere, netVars, redisVars
<1> QED
  BY <1>1, <1>2

-----------------------------------------------------------------------------
(* Every step of the gate keeps the invariant. *)
LEMMA GateInvNext == GateInv /\ [GateNext]_gateVars => GateInv'
<1> SUFFICES ASSUME GateInv, [GateNext]_gateVars PROVE GateInv'
  OBVIOUS
<1>1. ASSUME NEW s \in Sessions, Arrive(s) PROVE GateInv'
  <2>1. PICK pc \in {"login", "reconnect"} : Goto(s, pc)
    BY <1>1 DEF Arrive
  <2>2. handler' \in Handlers /\ LockHeld'
    BY <1>1, <2>1, GotoKeeps DEF Arrive, At, GateInv, GateTypes, HandlerPcs, LockedPcs, redisVars
  <2> QED
    BY <1>1, <2>2 DEF Arrive, GateInv, GateTypes, BoundIsThere, netVars, redisVars, timeVars
<1>2. ASSUME NEW s \in Sessions, Handle(s) PROVE GateInv'
  BY <1>2, LoginKeeps, ReconnectKeeps, UnlockKeeps DEF Handle
<1>3. ASSUME NEW s \in Sessions, LogoutArrives(s) \/ LogoutDelToken(s) \/ LogoutKick(s) PROVE GateInv'
  BY <1>3, LogoutKeeps
<1>4. ASSUME NEW s \in Sessions, Stop(s) PROVE GateInv'
  BY <1>4, StopKeeps
<1>5. CASE RunTask \/ (\E s \in Sessions : LoginTimeout(s) \/ Break(s))
  BY <1>5, UnlinkKeeps
<1>6. CASE (\E t \in timers : LogOutTimer(t)) \/ Tick
  BY <1>6, TimeKeeps
<1>7. CASE UNCHANGED gateVars
  BY <1>7 DEF gateVars, netVars, redisVars, timeVars, GateInv, GateTypes, LockHeld, BoundIsThere
<1> QED
  BY <1>1, <1>2, <1>3, <1>4, <1>5, <1>6, <1>7 DEF GateNext

(* The invariant holds throughout. *)
LEMMA GateInvAlways == GateSpec => []GateInv
<1> QED
  BY GateInvInit, GateInvNext, PTL DEF GateSpec

(* However many logins and reconnects of a gamer overlap on the gate, the  *)
(* account lock is held by exactly the one that is between RedLock and its *)
(* cancel function, at every step of every one of them.                    *)
THEOREM GateTypeCorrect == GateSpec => []GateTypeOK
<1>1. GateInv => GateTypeOK
  BY DEF GateInv, GateTypeOK
<1> QED
  BY <1>1, GateInvAlways, PTL

(* No step removes a gamer that is online from the user table: of those    *)
(* that write the user, the login and the reconnect leave it there, the    *)
(* disconnect handler only takes its session, and the gate_log_out timer   *)
(* removes none with a session.                                            *)
THEOREM OnlineUserIsKept == GateSpec => OnlineIsKept
<1> DEFINE Kept == user.sess # 0 => user'.there
<1>1. ASSUME GateInv, [GateNext]_gateVars PROVE [Kept]_gateVars
  <2> SUFFICES ASSUME user.sess # 0, GateNext PROVE user'.there
    BY <1>1
  <2>1. user.there /\ user \in [there : BOOLEAN, sess : 0..MaxSess, uses : Nat]
    BY <1>1 DEF GateInv, GateTypes, BoundIsThere
  <2>2. CASE user' = user
    BY <2>1, <2>2
  <2>3. ASSUME NEW s \in Sessions, LoginAddUser(s) PROVE user'.there
    BY <2>3 DEF LoginAddUser, NewUser
  <2>4. ASSUME NEW s \in Sessions, ReconnectFind(s) PROVE user'.there
    BY <2>1, <2>4 DEF ReconnectFind, Fail
  <2>5. ASSUME NEW s \in Sessions, ReconnectReplace(s) PROVE user'.there
    BY <2>1, <2>5 DEF ReconnectReplace, Fail
  <2>6. ASSUME NEW s \in Sessions, StopClear(s) PROVE user'.there
    BY <2>1, <2>6 DEF StopClear
  <2>7. ASSUME NEW t \in timers, LogOutTimer(t) PROVE user'.there
    BY <2>1, <2>7 DEF LogOutTimer, Removed
  <2>8. ASSUME NEW s \in Sessions, Login(s), ~LoginAddUser(s) PROVE user' = user
    BY <2>8 DEF Login, LoginCheck, LoginLock, LoginEvict, LoginRpc, LoginSave, Fail, Save
  <2>9. ASSUME NEW s \in Sessions, ReconnectSteps(s), ~ReconnectFind(s), ~ReconnectReplace(s) PROVE user' = user
    BY <2>9 DEF ReconnectSteps, ReconnectCheck, ReconnectLock, ReconnectTooMany, ReconnectRpc,
                ReconnectSave, ReconnectEvict, Fail, Save
  <2>10. ASSUME NEW s \in Sessions,
                Arrive(s) \/ Unlock(s) \/ StopClearOnline(s) \/ Break(s) \/ LoginTimeout(s)
                \/ LogoutArrives(s) \/ LogoutDelToken(s) \/ LogoutKick(s)
         PROVE  user' = user
    BY <2>10 DEF Arrive, Unlock, StopClearOnline, Break, LoginTimeout,
                 LogoutArrives, LogoutDelToken, LogoutKick
  <2>11. CASE RunTask \/ Tick
    BY <2>2, <2>11 DEF RunTask, Tick
  <2> QED
    BY <2>2, <2>3, <2>4, <2>5, <2>6, <2>7, <2>8, <2>9, <2>10, <2>11 DEF GateNext, Handle, Stop
<1>2. GateSpec => [][Kept]_gateVars
  BY <1>1, GateInvAlways, PTL DEF GateSpec
<1> QED
  BY <1>2 DEF OnlineIsKept
=============================================================================
