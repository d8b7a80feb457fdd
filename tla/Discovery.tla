----------------------------- MODULE Discovery ------------------------------
(***************************************************************************)
(* Service discovery: deps/etcd/etcd_watcher.go and deps/service_mgr.  A   *)
(* ClientWatcher reads a snapshot of the keys below a prefix, then streams *)
(* the changes from the next revision; a stream that fails is replaced by  *)
(* a new snapshot.  Events reach the Manager in order, through channels    *)
(* that delay and never drop them, and it keeps a table of instances.      *)
(*                                                                         *)
(* The registry in etcd is the environment: an instance registers when its *)
(* key is absent, may announce that it stops, and its key goes away when   *)
(* it closes or its lease runs out.  A revision is a position of log.      *)
(* PresentHealthy, ReplacedUnlessStopping and IndexWithoutMove are faulty  *)
(* variants of the definition that follows each of them; the specification *)
(* does not use them (README, "Mutants").                                  *)
(***************************************************************************)
EXTENDS Naturals, Sequences, SequencesExt, FiniteSets

CONSTANTS Instances,   \* numbers of the instances of one service
          MaxChanges,  \* bound: changes of the registry
          MaxBreaks,   \* bound: streams that fail
          None

ASSUME DiscoveryParameters ==
    /\ Instances \subseteq Nat /\ IsFiniteSet(Instances)
    /\ MaxChanges \in Nat /\ MaxBreaks \in Nat

VARIABLES log,        \* changes of the registry, the last one last
          watch,      \* ClientWatcher.watchLoop: "get" or "stream"
          rev,        \* revision it has passed on
          breaks,
          queue,      \* events on their way to the Manager
          instances,  \* Service.instances, in its order
          index,      \* Service.index
          nodes,      \* nodes of Service.chash
          net,        \* NetState of each instance: NetConnect or not
          missed      \* history: a snapshot has stepped over a deletion

tableVars == <<instances, index, nodes, net>>
registryVars == <<log>>
watchVars == <<watch, rev, breaks, missed>>
discoveryVars == <<log, watch, rev, breaks, queue, instances, index, nodes, net, missed>>

Statuses == {"health", "stopping"}
Change == [id : Instances, val : Statuses \cup {None}]

(* The last entry for i in a sequence of changes, or what it was before.    *)
Latest(seq, i, before) ==
    LET at == {n \in DOMAIN seq : seq[n].id = i}
    IN  IF at = {} THEN before ELSE seq[CHOOSE n \in at : \A o \in at : o <= n].val

RegisteredAt(r, i) == Latest(SubSeq(log, 1, r), i, None)
Registered(i) == RegisteredAt(Len(log), i)

DiscoveryInit ==
    /\ log = <<>> /\ watch = "get" /\ rev = 0 /\ breaks = 0 /\ queue = <<>>
    /\ instances = <<>> /\ index = <<>> /\ nodes = {}
    /\ net = [i \in Instances |-> FALSE] /\ missed = FALSE

-----------------------------------------------------------------------------
(* The registry (external).                                                 *)
Record(i, v) ==
    /\ Len(log) < MaxChanges
    /\ log' = Append(log, [id |-> i, val |-> v])

Registry ==
    /\ \E i \in Instances :
          \/ Registered(i) = None /\ Record(i, "health")
          \/ Registered(i) = "health" /\ Record(i, "stopping")
          \/ Registered(i) # None /\ Record(i, None)
    /\ UNCHANGED <<watchVars, queue, tableVars>>

-----------------------------------------------------------------------------
(* loadSnapshot: an event for every key that is there, in the order of keys. *)
PresentHealthy == {i \in Instances : Registered(i) = "health"}
Present == {i \in Instances : Registered(i) # None}

InOrder(s) == \A m, n \in DOMAIN s : m < n => s[m] < s[n]
Snapshot(s) == [n \in DOMAIN s |-> [id |-> s[n], val |-> Registered(s[n])]]

WatchSnapshot ==
    /\ watch = "get"
    /\ \E present \in [1..Cardinality(Present) -> Present] :
          InOrder(present) /\ queue' = queue \o Snapshot(present)
    /\ rev' = Len(log) /\ watch' = "stream"
    /\ missed' = (missed \/ \E n \in (rev + 1)..Len(log) : log[n].val = None)
    /\ UNCHANGED <<registryVars, breaks, tableVars>>

WatchEvent ==
    /\ watch = "stream" /\ rev < Len(log)
    /\ queue' = Append(queue, log[rev + 1])
    /\ rev' = rev + 1
    /\ UNCHANGED <<registryVars, watch, breaks, missed, tableVars>>

(* The error is passed on, and dropped by service_mgr's watcher.            *)
WatchBreaks ==
    /\ watch = "stream" /\ breaks < MaxBreaks
    /\ watch' = "get" /\ breaks' = breaks + 1
    /\ UNCHANGED <<registryVars, rev, missed, queue, tableVars>>

-----------------------------------------------------------------------------
(* updateAndTriggerInstance for the first event of the queue.               *)
Event == Head(queue)
Listed(i) == i \in DOMAIN index
Entry(i) == instances[index[i]]

IsPut == Event.val # None

GoesOnline == IsPut /\ ~Listed(Event.id)
GoesOffline == ~IsPut /\ Listed(Event.id)

(* setInstance: a new object takes the place and the network status.        *)
ReplacedUnlessStopping(old) == IF Event.val = "stopping" THEN old ELSE Event
Replaced(old) == Event

ReplaceInstance ==
    /\ IsPut /\ Listed(Event.id)
    /\ instances' = [instances EXCEPT ![index[Event.id]] = Replaced(@)]
    /\ UNCHANGED <<index, nodes, net>>

AddInstance ==
    /\ GoesOnline
    /\ instances' = Append(instances, Event)
    /\ index' = [i \in DOMAIN index \cup {Event.id} |->
                    IF i = Event.id THEN Len(instances) + 1 ELSE index[i]]
    /\ nodes' = nodes \cup {Event.id}
    /\ net' = [net EXCEPT ![Event.id] = FALSE]

(* removeInstance: the last one moves to the place of the removed one.      *)
IndexWithoutMove(id) == [i \in DOMAIN index \ {id} |-> index[i]]
IndexWithout(id) ==
    [i \in DOMAIN index \ {id} |-> IF index[i] = Len(instances) THEN index[id] ELSE index[i]]

RemoveInstance ==
    /\ ~IsPut
    /\ IF Listed(Event.id)
       THEN /\ instances' = Front([instances EXCEPT ![index[Event.id]] = Last(instances)])
            /\ index' = IndexWithout(Event.id)
            /\ nodes' = nodes \ {Event.id}
            /\ net' = [net EXCEPT ![Event.id] = FALSE]
       ELSE UNCHANGED tableVars

HandleEvent ==
    /\ queue # <<>> /\ queue' = Tail(queue)
    /\ AddInstance \/ ReplaceInstance \/ RemoveInstance
    /\ UNCHANGED <<registryVars, watchVars>>

-----------------------------------------------------------------------------
Watcher == WatchSnapshot \/ WatchEvent
DiscoveryNext == Registry \/ Watcher \/ WatchBreaks \/ HandleEvent

(* The watcher's and the manager's goroutines run; etcd answers.            *)
DiscoverySpec == DiscoveryInit /\ [][DiscoveryNext]_discoveryVars
                     /\ WF_discoveryVars(Watcher) /\ WF_discoveryVars(HandleEvent)

-----------------------------------------------------------------------------
DiscoveryTypeOK ==
    /\ log \in Seq(Change) /\ watch \in {"get", "stream"} /\ rev \in 0..Len(log)
    /\ breaks \in 0..MaxBreaks /\ queue \in Seq(Change) /\ missed \in BOOLEAN
    /\ instances \in Seq([id : Instances, val : Statuses])
    /\ DOMAIN index \subseteq Instances /\ nodes \subseteq Instances
    /\ net \in [Instances -> BOOLEAN]

(* The index and the hash ring name exactly the instances of the sequence,  *)
(* each at its place, whatever is added and removed in between: every       *)
(* lookup of the Manager goes through them (store.go).                      *)
IndexConsistent ==
    /\ nodes = DOMAIN index /\ Cardinality(DOMAIN index) = Len(instances)
    /\ \A i \in DOMAIN index : index[i] \in DOMAIN instances /\ Entry(i).id = i

(* What the table will hold for i when the events under way are handled.    *)
Settled(i) == Latest(queue, i, IF Listed(i) THEN Entry(i).val ELSE None)

(* Snapshots, streams and their order never leave the table with anything   *)
(* but what the registry held at the watcher's revision, except for an      *)
(* instance whose deletion a snapshot has stepped over.                     *)
TableFollows ==
    \A i \in Instances :
        \/ Settled(i) = RegisteredAt(rev, i)
        \/ missed /\ RegisteredAt(rev, i) = None

(* An instance that stays registered is listed in the end, with the status  *)
(* it has registered.                                                       *)
EveryInstanceListed ==
    \A i \in Instances : \A s \in Statuses :
        <>[](Registered(i) = s) => <>[](Listed(i) /\ Entry(i).val = s)

(* deps/service_mgr/README.md: the Manager reflects the current healthy     *)
(* peers and is not a static snapshot: one that stays away is not listed    *)
(* for ever.                                                                *)
GoneIsForgotten ==
    \A i \in Instances : <>[](Registered(i) = None) => <>[]~Listed(i)
=============================================================================
