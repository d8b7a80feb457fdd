----------------------------- MODULE Registrar ------------------------------
(***************************************************************************)
(* deps/etcd/registrar.go: the registration of service instances in etcd.  *)
(* An instance puts its key with a lease, only when the key is absent, and *)
(* keeps the lease alive; when the lease is lost it registers again.  Its  *)
(* value is changed by updates that read the key, check its lease and put  *)
(* the value under that condition.  Close revokes the lease.               *)
(*                                                                         *)
(* etcd is modelled from how this code uses it: a key has a value and a    *)
(* lease, transactions are atomic, and leases run out unless they are kept *)
(* alive, now and then in spite of it.  Every call may fail; a put or a    *)
(* revoke that fails may have been applied.  A lease is named by the       *)
(* registrar it was granted to and its number.                             *)
(***************************************************************************)
EXTENDS Naturals, FiniteSets

CONSTANTS Registrars,  \* registrars; a restarted process is a new one
          Keys, KeyOf, \* the key of each
          Updaters,    \* calls of Manager.UpdateSelf, each made once
          Updates,     \* the registrar each of them updates
          MaxLeases,   \* bound: leases granted to each registrar
          MaxFaults,   \* bound: calls that fail and leases that are lost
          Nil

ASSUME RegistrarParameters ==
    /\ KeyOf \in [Registrars -> Keys]
    /\ Updates \in [Updaters -> Registrars]
    /\ MaxLeases \in [Registrars -> Nat] /\ MaxFaults \in Nat
    /\ Nil \notin Registrars \cup Nat \cup (Registrars \X Nat)
                      \cup [val : Nat, lease : Registrars \X Nat]

VARIABLES kv,        \* key -> [val, lease], or Nil
          alive,     \* leases that have not run out
          lock,      \* the registration lock of each key
          loop,      \* where Register or keepAliveLoop is
          val,       \* value marshalled by registerWithNewLease
          fresh,     \* number of the last lease granted
          lease,     \* leaseID
          closed,    \* Close has been called
          self,      \* Manager.instance
          mem,       \* ServiceRegistrar.service
          upc,       \* where each update is
          copy,      \* value it carries
          seen,      \* value of the key it has read
          ulease,    \* lease it uses
          retried,   \* that is its second lease
          faults

etcdVars == <<kv, alive>>
loopVars == <<lock, loop, val, fresh>>
updateVars == <<self, mem, upc, copy, seen, ulease, retried>>
registrarVars == <<etcdVars, loopVars, lease, closed, updateVars, faults>>

Leases == Registrars \X Nat
Fresh(i) == <<i, fresh[i]>>

RegistrarInit ==
    /\ kv = [k \in Keys |-> Nil] /\ alive = {}
    /\ lock = [k \in Keys |-> Nil]
    /\ loop = [i \in Registrars |-> "new"]
    /\ val = [i \in Registrars |-> 0] /\ fresh = [i \in Registrars |-> 0]
    /\ lease = [i \in Registrars |-> Nil]
    /\ closed = [i \in Registrars |-> FALSE]
    /\ self = [i \in Registrars |-> 0] /\ mem = [i \in Registrars |-> 0]
    /\ upc = [u \in Updaters |-> "idle"] /\ copy = [u \in Updaters |-> 0]
    /\ seen = [u \in Updaters |-> Nil] /\ ulease = [u \in Updaters |-> Nil]
    /\ retried = [u \in Updaters |-> FALSE]
    /\ faults = 0

Fault == faults < MaxFaults /\ faults' = faults + 1

-----------------------------------------------------------------------------
(* etcd (external).  A put needs a lease that is alive; a lease that ends   *)
(* takes its key with it.                                                   *)
Absent(k) == kv[k] = Nil
HasLease(k, l) == ~Absent(k) /\ kv[k].lease = l

Put(k, v, l) ==
    /\ kv' = [kv EXCEPT ![k] = [val |-> v, lease |-> l]]
    /\ UNCHANGED alive

EndLease(l) ==
    /\ alive' = alive \ {l}
    /\ kv' = [k \in Keys |-> IF HasLease(k, l) THEN Nil ELSE kv[k]]

(* keepAliveLoop keeps a lease alive until its context ends; a registrar    *)
(* keeps the lease it is about to put or has just put long enough.          *)
KeptAfterClose(i) == loop[i] \in {"put", "reput", "store", "top", "keep"}
Keeps(i) == loop[i] \in {"put", "reput", "store", "top", "keep"} /\ ~closed[i]
Kept(l) == Fresh(l[1]) = l /\ Keeps(l[1])

(* A lease runs out when nobody keeps it alive, or in spite of it.          *)
LeaseExpires(l) ==
    /\ l \in alive /\ EndLease(l)
    /\ IF Kept(l) THEN Fault ELSE UNCHANGED faults
    /\ UNCHANGED <<loopVars, lease, closed, updateVars>>

-----------------------------------------------------------------------------
(* Register and reRegister, under a lock of etcd, which may be lost with    *)
(* its session.  reRegister revokes the current lease first, but the loop   *)
(* has cleared leaseID before it calls it, so there is none.                *)
Start(i) ==
    /\ loop[i] = "new"
    /\ loop' = [loop EXCEPT ![i] = "register"]
    /\ UNCHANGED <<etcdVars, lock, val, fresh, lease, closed, updateVars, faults>>

Lock(i) ==
    /\ loop[i] \in {"register", "again"} /\ ~closed[i] /\ lock[KeyOf[i]] = Nil
    /\ lock' = [lock EXCEPT ![KeyOf[i]] = i]
    /\ val' = [val EXCEPT ![i] = mem[i]]
    /\ loop' = [loop EXCEPT ![i] = IF @ = "register" THEN "grant" ELSE "regrant"]
    /\ UNCHANGED <<etcdVars, fresh, lease, closed, updateVars, faults>>

Release(i) == IF lock[KeyOf[i]] = i THEN [lock EXCEPT ![KeyOf[i]] = Nil] ELSE lock

LockExpires(k) ==
    /\ lock[k] # Nil /\ Fault
    /\ lock' = [lock EXCEPT ![k] = Nil]
    /\ UNCHANGED <<etcdVars, loop, val, fresh, lease, closed, updateVars>>

Grant(i) ==
    /\ loop[i] \in {"grant", "regrant"} /\ fresh[i] < MaxLeases[i]
    /\ fresh' = [fresh EXCEPT ![i] = @ + 1]
    /\ alive' = alive \cup {<<i, fresh[i] + 1>>}
    /\ loop' = [loop EXCEPT ![i] = IF @ = "grant" THEN "put" ELSE "reput"]
    /\ UNCHANGED <<kv, lock, val, lease, closed, updateVars, faults>>

Registering(i) == loop[i] \in {"grant", "put"}
Reregistering(i) == loop[i] \in {"regrant", "reput"}
Putting(i) == loop[i] \in {"put", "reput"}

(* Register gives up when the lock stays taken; reRegister comes again.     *)
LockFails(i) ==
    /\ loop[i] = "register" /\ (lock[KeyOf[i]] # Nil \/ closed[i])
    /\ loop' = [loop EXCEPT ![i] = "failed"]
    /\ closed' = [closed EXCEPT ![i] = TRUE]
    /\ UNCHANGED <<etcdVars, lock, val, fresh, lease, updateVars, faults>>

(* A failure closes a registrar that registers for the first time; later    *)
(* ones are repeated.  The new lease has no key then, so it makes no        *)
(* difference whether it is revoked at once or runs out.                    *)
Give(i) ==
    /\ loop' = [loop EXCEPT ![i] = IF Reregistering(i) THEN "again" ELSE "failed"]
    /\ lock' = Release(i)
    /\ closed' = [closed EXCEPT ![i] = @ \/ Registering(i)]
    /\ UNCHANGED <<val, fresh, lease, updateVars>>

(* putServiceIfAbsent: put, refused, or put without the registrar knowing.  *)
MayPutAnyway(i) == Fresh(i) \in alive
MayPut(i) == Absent(KeyOf[i]) /\ Fresh(i) \in alive

PutIfAbsent(i) ==
    /\ Putting(i) /\ MayPut(i)
    /\ Put(KeyOf[i], val[i], Fresh(i))
    /\ loop' = [loop EXCEPT ![i] = "store"]
    /\ UNCHANGED <<lock, val, fresh, lease, closed, updateVars, faults>>

PutUnnoticed(i) ==
    /\ Putting(i) /\ MayPut(i) /\ Fault
    /\ Put(KeyOf[i], val[i], Fresh(i))
    /\ Give(i)

CannotGoOn(i) == IF Putting(i) THEN ~MayPut(i) ELSE fresh[i] = MaxLeases[i]
RegisterFails(i) ==
    /\ Registering(i) \/ Reregistering(i)
    /\ IF closed[i] \/ CannotGoOn(i) THEN UNCHANGED faults ELSE Fault
    /\ Give(i)
    /\ UNCHANGED etcdVars

StoreLease(i) ==
    /\ loop[i] = "store"
    /\ lease' = [lease EXCEPT ![i] = Fresh(i)]
    /\ lock' = Release(i)
    /\ loop' = [loop EXCEPT ![i] = "top"]
    /\ UNCHANGED <<etcdVars, val, fresh, closed, updateVars, faults>>

(* keepAliveLoop: a lease that is still stored is kept alive, otherwise the *)
(* instance registers again.  The channel is closed when the lease has run  *)
(* out, or when the client believes so.                                     *)
LoopTop(i) ==
    /\ loop[i] = "top" /\ ~closed[i]
    /\ loop' = [loop EXCEPT ![i] = IF lease[i] = Nil THEN "again" ELSE "keep"]
    /\ UNCHANGED <<etcdVars, lock, val, fresh, lease, closed, updateVars, faults>>

KeepLease(i) == lease
ClearLease(i) == [lease EXCEPT ![i] = IF @ = Fresh(i) THEN Nil ELSE @]
KeepAliveLost(i) ==
    /\ loop[i] = "keep" /\ ~closed[i]
    /\ IF Fresh(i) \in alive THEN Fault ELSE UNCHANGED faults
    /\ lease' = ClearLease(i)
    /\ loop' = [loop EXCEPT ![i] = "top"]
    /\ UNCHANGED <<etcdVars, lock, val, fresh, closed, updateVars>>

(* Close ends the context and revokes the stored lease; a revoke that fails *)
(* leaves it to run out, and so does a registration that is under way.      *)
Close(i) ==
    /\ loop[i] # "new" /\ ~closed[i]
    /\ closed' = [closed EXCEPT ![i] = TRUE]
    /\ lease' = [lease EXCEPT ![i] = Nil]
    /\ \/ lease[i] \in alive /\ EndLease(lease[i]) /\ UNCHANGED faults
       \/ lease[i] \in alive /\ Fault /\ UNCHANGED etcdVars
       \/ lease[i] \notin alive /\ UNCHANGED <<etcdVars, faults>>
    /\ UNCHANGED <<loopVars, updateVars>>

-----------------------------------------------------------------------------
(* UpdateSelf copies the instance; UpdateInstanceData replaces the fields   *)
(* by the copy, and only later reads the lease.                             *)
UpdateSelf(u) ==
    LET i == Updates[u]
    IN  /\ upc[u] = "idle"
        /\ self' = [self EXCEPT ![i] = @ + 1]
        /\ copy' = [copy EXCEPT ![u] = self[i] + 1]
        /\ upc' = [upc EXCEPT ![u] = "copied"]
        /\ UNCHANGED <<etcdVars, loopVars, lease, closed, mem, seen, ulease, retried, faults>>

UpdateInstanceData(u) ==
    /\ upc[u] = "copied"
    /\ mem' = [mem EXCEPT ![Updates[u]] = copy[u]]
    /\ upc' = [upc EXCEPT ![u] = "load"]
    /\ UNCHANGED <<etcdVars, loopVars, lease, closed, self, copy, seen, ulease, retried, faults>>

(* updateValueToEtcd: without a lease the update stays in memory.           *)
AfterLoad(l) == IF l = Nil THEN "nolease" ELSE "get"
LoadLease(u) ==
    LET l == lease[Updates[u]]
    IN  /\ upc[u] = "load"
        /\ ulease' = [ulease EXCEPT ![u] = l]
        /\ upc' = [upc EXCEPT ![u] = AfterLoad(l)]
        /\ UNCHANGED <<etcdVars, loopVars, lease, closed, self, mem, copy, seen, retried, faults>>

(* errLeaseChanged: once more with the current lease if that is another.    *)
LeaseChanged(u) ==
    LET l == lease[Updates[u]]
        again == ~retried[u] /\ l # Nil /\ l # ulease[u]
    IN  /\ retried' = [retried EXCEPT ![u] = @ \/ again]
        /\ ulease' = [ulease EXCEPT ![u] = IF again THEN l ELSE @]
        /\ upc' = [upc EXCEPT ![u] = IF again THEN "get" ELSE "failed"]

Target(u) == KeyOf[Updates[u]]
GetKey(u) ==
    /\ upc[u] = "get"
    /\ IF Absent(Target(u)) \/ HasLease(Target(u), ulease[u])
       THEN /\ seen' = [seen EXCEPT ![u] = IF Absent(Target(u)) THEN Nil ELSE kv[Target(u)].val]
            /\ upc' = [upc EXCEPT ![u] = "marshal"]
            /\ UNCHANGED <<ulease, retried>>
       ELSE LeaseChanged(u) /\ UNCHANGED seen
    /\ UNCHANGED <<etcdVars, loopVars, lease, closed, self, mem, copy, faults>>

(* Equal skips the put; otherwise the value of now is marshalled.           *)
Marshal(u) ==
    LET v == mem[Updates[u]]
    IN  /\ upc[u] = "marshal"
        /\ copy' = [copy EXCEPT ![u] = v]
        /\ upc' = [upc EXCEPT ![u] = IF seen[u] = v THEN "done"
                                     ELSE IF seen[u] = Nil THEN "create" ELSE "put"]
        /\ UNCHANGED <<etcdVars, loopVars, lease, closed, self, mem, seen, ulease, retried, faults>>

(* putServiceWithSameLease and putMissingService.                           *)
Puts(u) ==
    /\ ulease[u] \in alive
    /\ IF upc[u] = "put" THEN HasLease(Target(u), ulease[u]) ELSE Absent(Target(u))
PutValue(u) ==
    /\ upc[u] \in {"put", "create"}
    /\ IF Puts(u)
       THEN /\ Put(Target(u), copy[u], ulease[u])
            /\ upc' = [upc EXCEPT ![u] = "done"]
            /\ UNCHANGED <<ulease, retried>>
       ELSE LeaseChanged(u) /\ UNCHANGED etcdVars
    /\ UNCHANGED <<loopVars, lease, closed, self, mem, copy, seen, faults>>

UpdateFails(u) ==
    /\ upc[u] \in {"get", "put", "create"}
    /\ IF closed[Updates[u]] THEN UNCHANGED faults ELSE Fault
    /\ upc' = [upc EXCEPT ![u] = "failed"]
    /\ UNCHANGED <<etcdVars, loopVars, lease, closed, self, mem, copy, seen, ulease, retried>>

-----------------------------------------------------------------------------
Registration(i) ==
    \/ Lock(i) \/ LockFails(i) \/ Grant(i) \/ PutIfAbsent(i) \/ RegisterFails(i)
    \/ StoreLease(i) \/ LoopTop(i)
Update(u) ==
    \/ UpdateInstanceData(u) \/ LoadLease(u) \/ GetKey(u) \/ Marshal(u) \/ PutValue(u)
    \/ UpdateFails(u)

RegistrarNext ==
    \/ \E i \in Registrars :
          Start(i) \/ Registration(i) \/ PutUnnoticed(i) \/ KeepAliveLost(i) \/ Close(i)
    \/ \E u \in Updaters : UpdateSelf(u) \/ Update(u)
    \/ \E l \in alive : LeaseExpires(l)
    \/ \E k \in Keys : LockExpires(k)

(* Goroutines get their turn, a lock is obtained in the end, and a lease    *)
(* that is not kept alive runs out.                                         *)
RegistrarFairness ==
    /\ \A i \in Registrars :
        /\ SF_registrarVars(Lock(i)) /\ WF_registrarVars(Registration(i))
        /\ WF_registrarVars(KeepAliveLost(i) /\ Fresh(i) \notin alive)
        /\ WF_registrarVars(\E l \in alive : l[1] = i /\ ~Kept(l) /\ LeaseExpires(l))
    /\ \A u \in Updaters : WF_registrarVars(Update(u))

RegistrarSpec == RegistrarInit /\ [][RegistrarNext]_registrarVars /\ RegistrarFairness

-----------------------------------------------------------------------------
Steps == {"new", "register", "grant", "put", "store", "top", "keep", "again",
          "regrant", "reput", "failed"}

(* Types, and an update never gets to etcd without a lease, where it would  *)
(* leave a key that no end of a lease removes.                              *)
RegistrarTypeOK ==
    /\ kv \in [Keys -> {Nil} \cup [val : Nat, lease : Leases]]
    /\ alive \subseteq Leases
    /\ lock \in [Keys -> Registrars \cup {Nil}] /\ loop \in [Registrars -> Steps]
    /\ val \in [Registrars -> Nat] /\ fresh \in [Registrars -> Nat]
    /\ lease \in [Registrars -> Leases \cup {Nil}] /\ closed \in [Registrars -> BOOLEAN]
    /\ self \in [Registrars -> Nat] /\ mem \in [Registrars -> Nat]
    /\ upc \in [Updaters -> {"idle", "copied", "load", "get", "marshal", "put", "create",
                              "done", "nolease", "failed"}]
    /\ copy \in [Updaters -> Nat] /\ seen \in [Updaters -> Nat \cup {Nil}]
    /\ ulease \in [Updaters -> Leases \cup {Nil}] /\ retried \in [Updaters -> BOOLEAN]
    /\ \A u \in Updaters : upc[u] \in {"get", "marshal", "put", "create"} => ulease[u] # Nil
    /\ faults \in 0..MaxFaults

(* An instance that has a lease which is alive owns its key: a second       *)
(* instance, or a late put of its own, never takes the key from it, even    *)
(* when the registration lock was lost on the way.                          *)
OwnerKeepsKey ==
    \A i \in Registrars : lease[i] \in alive => HasLease(KeyOf[i], lease[i])

Owns(i) == ~Absent(KeyOf[i]) /\ kv[KeyOf[i]].lease[1] = i

(* An instance that has lost its lease is registered again, unless it is    *)
(* closed, another one has taken the key, or the last lease of the bound    *)
(* has run out.                                                             *)
RegistersAgain ==
    \A i \in Registrars :
        loop[i] \in {"keep", "again"} /\ Fresh(i) \notin alive
            ~> \/ Owns(i) \/ closed[i] \/ (fresh[i] = MaxLeases[i] /\ Fresh(i) \notin alive)
               \/ \E j \in Registrars \ {i} : KeyOf[j] = KeyOf[i] /\ Owns(j)

(* A closed instance leaves etcd, even when Close met a registration that   *)
(* was under way.                                                           *)
ClosedIsGone == \A i \in Registrars : closed[i] ~> ~Owns(i)
=============================================================================
