---------------------------- MODULE DiscoveryProofs ---------------------------
(***************************************************************************)
(* Proofs about service discovery: Discovery, ServerLinks and Registrar,   *)
(* for any instances, links, keys, updates and bounds.                     *)
(*                                                                         *)
(* IndexConsistent is inductive with the types and says why removing an    *)
(* instance by moving the last one to its place is sound: an index names   *)
(* the entry of its own instance, so no two instances share a place.       *)
(* AgentIsHeld is inductive with the types: whatever takes a session out   *)
(* of NetMgr's map drops its agent in the same task, and a new link object *)
(* is one that is in no map.                                               *)
(*                                                                         *)
(* Registrar: a key in etcd names a live lease whose registrar has the key *)
(* (KeyInv); leases are named by their registrar and numbered upwards, so  *)
(* a new one is nobody's (LeaseInv); between the put and the store of the  *)
(* lease the key is there already (StoreInv).  With these OwnerKeepsKey is *)
(* inductive: every put is conditional, on the key being absent or on the  *)
(* lease it already has.                                                   *)
(***************************************************************************)
EXTENDS ServerLinks, Registrar, TLAPS, FiniteSetTheorems, WellFoundedInduction

(* A finite set of numbers below a bound has a greatest one. *)
LEMMA Greatest ==
    ASSUME NEW n \in Nat, NEW S \in SUBSET (1..n), S # {}
    PROVE  \E x \in S : \A y \in S : y <= x
<1> DEFINE T == {k \in 0..n : n - k \in S}
<1> DEFINE R == OpToRel(<, Nat)
<1>1. PICK s \in S : TRUE
  OBVIOUS
<1>2. n - s \in T
  BY <1>1
<1>3. T \subseteq Nat /\ T # {}
  <2>1. \A k \in 0..n : k \in Nat
    OBVIOUS
  <2> QED
    BY <1>2, <2>1
<1>4. IsWellFoundedOn(R, Nat)
  BY NatLessThanWellFounded
<1>5. PICK k \in T : \A j \in T : <<j, k>> \notin R
  BY <1>3, <1>4, WFMin
<1>6. \A j \in T : ~(j < k)
  BY <1>3, <1>5 DEF OpToRel
<1>7. ASSUME NEW y \in S PROVE y <= n - k
  <2>1. y \in 1..n
    OBVIOUS
  <2>2. n - y \in 0..n /\ n - (n - y) = y
    BY <2>1
  <2>3. n - y \in T
    BY <2>2
  <2>4. ~(n - y < k) /\ k \in Nat
    BY <1>3, <1>6, <2>3
  <2> QED
    BY <2>1, <2>4
<1> QED
  BY <1>7

(* The status that a sequence of changes leaves is one of them, or the old. *)
LEMMA LatestType ==
    ASSUME NEW seq \in Seq(Change), NEW i, NEW before \in Statuses \cup {None}
    PROVE  Latest(seq, i, before) \in Statuses \cup {None}
<1> DEFINE at == {n \in DOMAIN seq : seq[n].id = i}
<1>1. CASE at = {}
  BY <1>1 DEF Latest
<1>2. CASE at # {}
  <2>1. at \in SUBSET (1..Len(seq)) /\ Len(seq) \in Nat
    OBVIOUS
  <2>2. \E n \in at : \A o \in at : o <= n
    BY <1>2, <2>1, Greatest
  <2> DEFINE n == CHOOSE n \in at : \A o \in at : o <= n
  <2>3. n \in DOMAIN seq
    BY <2>2
  <2>4. seq[n] \in Change
    BY <2>3
  <2>5. seq[n].val \in Statuses \cup {None}
    BY <2>4 DEF Change
  <2> QED
    BY <1>2, <2>5 DEF Latest
<1> QED
  BY <1>1, <1>2

----------------------------------------------------------------------------
(* The table of discovery. *)
DiscoveryInv == DiscoveryTypeOK /\ IndexConsistent /\ IsFiniteSet(DOMAIN index)

Entries == [id : Instances, val : Statuses]

LEMMA DiscoveryInvInit == DiscoveryInit => DiscoveryInv
<1> SUFFICES ASSUME DiscoveryInit PROVE DiscoveryInv
  OBVIOUS
<1>1. index = <<>> /\ DOMAIN index = {} /\ instances = <<>> /\ Len(instances) = 0
  BY DEF DiscoveryInit
<1>2. IsFiniteSet(DOMAIN index) /\ Cardinality(DOMAIN index) = 0
  BY <1>1, FS_EmptySet
<1>3. IndexConsistent
  BY <1>1, <1>2 DEF IndexConsistent, DiscoveryInit
<1>4. /\ log \in Seq(Change) /\ Len(log) = 0 /\ queue \in Seq(Change)
      /\ instances \in Seq([id : Instances, val : Statuses])
  BY DEF DiscoveryInit
<1>5. rev \in 0..Len(log) /\ breaks \in 0..MaxBreaks
  BY <1>4, DiscoveryParameters DEF DiscoveryInit, DiscoveryParameters
<1>6. DiscoveryTypeOK
  BY <1>1, <1>4, <1>5 DEF DiscoveryTypeOK, DiscoveryInit
<1> QED
  BY <1>2, <1>3, <1>6 DEF DiscoveryInv

(* What a key holds is a status or nothing. *)
LEMMA RegisteredType ==
    ASSUME DiscoveryTypeOK, NEW i
    PROVE  Registered(i) \in Statuses \cup {None}
<1>1. SubSeq(log, 1, Len(log)) \in Seq(Change)
  BY DEF DiscoveryTypeOK
<1> QED
  BY <1>1, LatestType DEF Registered, RegisteredAt

(* The events of a snapshot are changes. *)
LEMMA SnapshotType ==
    ASSUME DiscoveryTypeOK, NEW s \in [1..Cardinality(Present) -> Present]
    PROVE  Snapshot(s) \in Seq(Change)
<1>1. IsFiniteSet(Present) /\ Present \subseteq Instances
  BY FS_Subset, DiscoveryParameters DEF Present, DiscoveryParameters
<1>2. Cardinality(Present) \in Nat
  BY <1>1, FS_CardinalityType
<1>3. \A n \in 1..Cardinality(Present) : Snapshot(s)[n] \in Change
  BY <1>1, RegisteredType DEF Snapshot, Change
<1> QED
  BY <1>2, <1>3 DEF Snapshot

(* Steps of the registry and of the watcher leave the table alone. *)
LEMMA WatchStep ==
    ASSUME DiscoveryInv, Registry \/ Watcher \/ WatchBreaks
    PROVE  DiscoveryInv' /\ UNCHANGED tableVars
<1> USE DEF DiscoveryInv
<1>1. UNCHANGED tableVars
  BY DEF Registry, Watcher, WatchSnapshot, WatchEvent, WatchBreaks
<1>2. IndexConsistent' /\ IsFiniteSet(DOMAIN index)'
  BY <1>1 DEF IndexConsistent, tableVars, Entry
<1>3. CASE Registry
  <2> PICK i \in Instances, v \in Statuses \cup {None} : Record(i, v)
    BY <1>3 DEF Registry, Statuses
  <2>1. [id |-> i, val |-> v] \in Change
    BY DEF Change
  <2>2. log' \in Seq(Change) /\ Len(log') = Len(log) + 1
    BY <2>1 DEF Record, DiscoveryTypeOK
  <2>3. rev' \in 0..Len(log')
    BY <1>3, <2>2 DEF Registry, DiscoveryTypeOK, watchVars
  <2> QED
    BY <1>1, <1>2, <1>3, <2>2, <2>3 DEF Registry, DiscoveryTypeOK, tableVars, watchVars
<1>4. CASE WatchSnapshot
  <2>1. PICK present \in [1..Cardinality(Present) -> Present] : queue' = queue \o Snapshot(present)
    BY <1>4 DEF WatchSnapshot
  <2>2. queue' \in Seq(Change)
    BY <2>1, SnapshotType DEF DiscoveryTypeOK
  <2>3. missed' \in BOOLEAN
    BY <1>4, Zenon DEF WatchSnapshot
  <2>4. /\ rev' = Len(log) /\ watch' = "stream"
        /\ UNCHANGED <<log, breaks>>
    BY <1>4 DEF WatchSnapshot, registryVars
  <2> QED
    BY <1>1, <1>2, <2>2, <2>3, <2>4 DEF DiscoveryTypeOK, tableVars
<1>5. CASE WatchEvent
  <2>1. log[rev + 1] \in Change
    BY <1>5 DEF WatchEvent, DiscoveryTypeOK
  <2> QED
    BY <1>1, <1>2, <1>5, <2>1 DEF WatchEvent, DiscoveryTypeOK, tableVars, registryVars
<1>6. CASE WatchBreaks
  BY <1>1, <1>2, <1>6, DiscoveryParameters
  DEF WatchBreaks, DiscoveryTypeOK, tableVars, registryVars, DiscoveryParameters
<1> QED
  BY <1>1, <1>3, <1>4, <1>5, <1>6 DEF Watcher

(* The event that is handled. *)
LEMMA EventType ==
    ASSUME DiscoveryTypeOK, queue # <<>>
    PROVE  /\ Event \in Change /\ Event.id \in Instances
           /\ Event.val \in Statuses \cup {None}
           /\ Tail(queue) \in Seq(Change)
           /\ IsPut => Event \in Entries
<1>1. Event \in Change /\ Tail(queue) \in Seq(Change)
  BY DEF DiscoveryTypeOK, Event
<1> QED
  BY <1>1 DEF Change, IsPut, Entries

(* Every event leaves the sequence, the index and the ring in step.         *)
LEMMA EventStep ==
    ASSUME DiscoveryInv, HandleEvent
    PROVE  DiscoveryInv'
<1> USE DEF DiscoveryInv
<1> DEFINE id == Event.id
<1>1. /\ id \in Instances /\ queue' \in Seq(Change)
      /\ IsPut => Event \in Entries
  BY EventType DEF HandleEvent
<1>2. instances \in Seq(Entries) /\ Len(instances) \in Nat
  BY DEF DiscoveryTypeOK, Entries
<1>3. UNCHANGED <<log, watch, rev, breaks, missed>>
  BY DEF HandleEvent, registryVars, watchVars
<1>4. \A i \in DOMAIN index : index[i] \in 1..Len(instances) /\ instances[index[i]].id = i
  BY <1>2 DEF IndexConsistent, Entry
<1>5. SUFFICES /\ instances' \in Seq(Entries) /\ DOMAIN index' \subseteq Instances
               /\ nodes' = DOMAIN index' /\ net' \in [Instances -> BOOLEAN]
               /\ IsFiniteSet(DOMAIN index') /\ Cardinality(DOMAIN index') = Len(instances')
               /\ \A i \in DOMAIN index' :
                      index'[i] \in 1..Len(instances') /\ instances'[index'[i]].id = i
  BY <1>1, <1>3 DEF DiscoveryTypeOK, IndexConsistent, Entry, Entries
<1>6. CASE AddInstance
  <2>1. /\ IsPut /\ id \notin DOMAIN index
        /\ instances' = Append(instances, Event)
        /\ index' = [i \in DOMAIN index \cup {id} |->
                        IF i = id THEN Len(instances) + 1 ELSE index[i]]
        /\ nodes' = nodes \cup {id} /\ net' = [net EXCEPT ![id] = FALSE]
    BY <1>6 DEF AddInstance, GoesOnline, Listed
  <2>2. instances' \in Seq(Entries) /\ Len(instances') = Len(instances) + 1
        /\ instances'[Len(instances) + 1] = Event
        /\ \A n \in 1..Len(instances) : instances'[n] = instances[n]
    BY <1>1, <1>2, <2>1
  <2>3. IsFiniteSet(DOMAIN index') /\ Cardinality(DOMAIN index') = Len(instances')
    <3>1. DOMAIN index' = DOMAIN index \cup {id}
      BY <2>1
    <3>2. /\ IsFiniteSet(DOMAIN index \cup {id})
          /\ Cardinality(DOMAIN index \cup {id}) = Cardinality(DOMAIN index) + 1
      BY <2>1, FS_AddElement
    <3>3. Cardinality(DOMAIN index) = Len(instances)
      BY DEF IndexConsistent
    <3> QED
      BY <2>2, <3>1, <3>2, <3>3
  <2>4. \A i \in DOMAIN index' :
            index'[i] \in 1..Len(instances') /\ instances'[index'[i]].id = i
    BY <1>2, <1>4, <2>1, <2>2
  <2>5. net' \in [Instances -> BOOLEAN]
    BY <1>1, <2>1 DEF DiscoveryTypeOK
  <2> QED
    BY <1>1, <2>1, <2>2, <2>3, <2>4, <2>5 DEF DiscoveryTypeOK, IndexConsistent
<1>7. CASE ReplaceInstance
  <2>1. /\ IsPut /\ id \in DOMAIN index
        /\ instances' = [instances EXCEPT ![index[id]] = Event]
        /\ UNCHANGED <<index, nodes, net>>
    BY <1>7 DEF ReplaceInstance, Replaced, Listed
  <2>2. instances' \in Seq(Entries) /\ Len(instances') = Len(instances)
    BY <1>1, <1>2, <1>4, <2>1
  <2>3. \A i \in DOMAIN index : instances'[index[i]].id = i
    BY <1>2, <1>4, <2>1
  <2> QED
    BY <1>4, <2>1, <2>2, <2>3 DEF DiscoveryTypeOK, IndexConsistent
<1>8. CASE RemoveInstance
  <2>1. CASE id \notin DOMAIN index
    BY <1>2, <1>4, <1>8, <2>1
    DEF RemoveInstance, Listed, tableVars, DiscoveryTypeOK, IndexConsistent
  <2>2. CASE id \in DOMAIN index
    <3> DEFINE n == Len(instances)
               moved == [instances EXCEPT ![index[id]] = instances[n]]
    <3>1. n >= 1 /\ n \in 1..n /\ index[id] \in 1..n
      BY <1>2, <1>4, <2>2
    <3>2. moved \in Seq(Entries) /\ Len(moved) = n
      BY <1>2, <3>1
    <3>3. /\ instances' = SubSeq(moved, 1, n - 1)
          /\ index' = IndexWithout(id)
          /\ nodes' = nodes \ {id} /\ net' = [net EXCEPT ![id] = FALSE]
      BY <1>8, <2>2, <3>2 DEF RemoveInstance, Listed, Front, Last
    <3>4. /\ instances' \in Seq(Entries) /\ Len(instances') = n - 1
          /\ \A k \in 1..n - 1 : instances'[k] = moved[k]
      BY <3>1, <3>2, <3>3
    <3>5. DOMAIN index' = DOMAIN index \ {id}
      BY <3>3 DEF IndexWithout
    <3>6. IsFiniteSet(DOMAIN index') /\ Cardinality(DOMAIN index') = n - 1
      BY <2>2, <3>5, FS_RemoveElement DEF IndexConsistent
    <3>7. ASSUME NEW i \in DOMAIN index'
          PROVE  index'[i] \in 1..n - 1 /\ instances'[index'[i]].id = i
      <4>1. i \in DOMAIN index /\ i # id /\ index[i] \in 1..n /\ index[i] # index[id]
        BY <1>4, <2>2, <3>5, <3>7
      <4>2. CASE index[i] = n
        <5>1. index'[i] = index[id] /\ index[id] \in 1..n - 1
          BY <1>2, <3>1, <3>3, <3>5, <4>1, <4>2 DEF IndexWithout
        <5>2. instances'[index'[i]] = instances[n]
          BY <1>2, <3>1, <3>4, <5>1
        <5> QED
          BY <1>4, <4>1, <4>2, <5>1, <5>2
      <4>3. CASE index[i] # n
        <5>1. index'[i] = index[i] /\ index[i] \in 1..n - 1
          BY <1>2, <3>3, <3>5, <4>1, <4>3 DEF IndexWithout
        <5>2. instances'[index'[i]] = instances[index[i]]
          BY <1>2, <3>1, <3>4, <4>1, <5>1
        <5> QED
          BY <1>4, <4>1, <5>1, <5>2
      <4> QED
        BY <4>2, <4>3
    <3>8. net' \in [Instances -> BOOLEAN]
      BY <1>1, <3>3 DEF DiscoveryTypeOK
    <3> QED
      BY <3>3, <3>4, <3>5, <3>6, <3>7, <3>8 DEF DiscoveryTypeOK, IndexConsistent
  <2> QED
    BY <2>1, <2>2
<1> QED
  BY <1>6, <1>7, <1>8 DEF HandleEvent

LEMMA DiscoveryInvStep ==
    ASSUME DiscoveryInv, [DiscoveryNext]_discoveryVars
    PROVE  DiscoveryInv'
<1>1. CASE Registry \/ Watcher \/ WatchBreaks
  BY <1>1, WatchStep
<1>2. CASE HandleEvent
  BY <1>2, EventStep
<1>3. CASE UNCHANGED discoveryVars
  BY <1>3 DEF DiscoveryInv, discoveryVars, DiscoveryTypeOK, IndexConsistent, Entry
<1> QED
  BY <1>1, <1>2, <1>3 DEF DiscoveryNext

LEMMA DiscoveryInvariant == DiscoverySpec => []DiscoveryInv
<1>1. DiscoveryInit => DiscoveryInv
  BY DiscoveryInvInit
<1>2. DiscoveryInv /\ [DiscoveryNext]_discoveryVars => DiscoveryInv'
  BY DiscoveryInvStep
<1> QED
  BY <1>1, <1>2, PTL DEF DiscoverySpec

(* Types of the watch and the table: every entry has a status, so a         *)
(* deletion is never stored as an instance.                                 *)
THEOREM DiscoveryTypeCorrect == DiscoverySpec => []DiscoveryTypeOK
<1>1. DiscoveryInv => DiscoveryTypeOK
  BY DEF DiscoveryInv
<1> QED
  BY <1>1, DiscoveryInvariant, PTL

(* For any instances, in any order of additions and removals: the index and *)
(* the hash ring name exactly the instances of the sequence, each at its    *)
(* place (store.go moves the last one to the place of the removed one).     *)
THEOREM TableIsIndexed == DiscoverySpec => []IndexConsistent
<1>1. DiscoveryInv => IndexConsistent
  BY DEF DiscoveryInv
<1> QED
  BY <1>1, DiscoveryInvariant, PTL

----------------------------------------------------------------------------
(* What the table will hold, against what the registry held.                *)
LastAt(seq, i, n) ==
    n \in DOMAIN seq /\ seq[n].id = i /\ \A o \in DOMAIN seq : seq[o].id = i => o <= n
Without(seq, i) == \A n \in DOMAIN seq : seq[n].id # i

(* Latest is the entry at the last place with this id, or what was before.  *)
LEMMA LatestNone ==
    ASSUME NEW seq, NEW i, NEW before, Without(seq, i)
    PROVE  Latest(seq, i, before) = before
<1>1. {n \in DOMAIN seq : seq[n].id = i} = {}
  BY DEF Without
<1> QED
  BY <1>1 DEF Latest

LEMMA LatestAt ==
    ASSUME NEW seq \in Seq(Change), NEW i, NEW before, NEW n, LastAt(seq, i, n)
    PROVE  Latest(seq, i, before) = seq[n].val
<1> DEFINE at == {m \in DOMAIN seq : seq[m].id = i}
<1>1. n \in at /\ \A o \in at : o <= n
  BY DEF LastAt
<1>2. DOMAIN seq \subseteq Nat
  OBVIOUS
<1>3. \A m \in at : (\A o \in at : o <= m) => m = n
  BY <1>1, <1>2
<1>4. (CHOOSE m \in at : \A o \in at : o <= m) = n
  BY <1>1, <1>3
<1> QED
  BY <1>1, <1>4 DEF Latest

LEMMA LastOrWithout ==
    ASSUME NEW seq \in Seq(Change), NEW i
    PROVE  Without(seq, i) \/ \E n \in DOMAIN seq : LastAt(seq, i, n)
<1> DEFINE at == {m \in DOMAIN seq : seq[m].id = i}
<1>1. CASE at = {}
  BY <1>1 DEF Without
<1>2. CASE at # {}
  <2>1. at \in SUBSET (1..Len(seq)) /\ Len(seq) \in Nat
    OBVIOUS
  <2>2. PICK n \in at : \A o \in at : o <= n
    BY <1>2, <2>1, Greatest
  <2> QED
    BY <2>2 DEF LastAt
<1> QED
  BY <1>1, <1>2

(* One more change. *)
LEMMA LatestAppend ==
    ASSUME NEW seq \in Seq(Change), NEW e \in Change, NEW i, NEW before
    PROVE  Latest(Append(seq, e), i, before) =
               IF e.id = i THEN e.val ELSE Latest(seq, i, before)
<1> DEFINE s == Append(seq, e)
<1>1. /\ s \in Seq(Change) /\ Len(seq) \in Nat /\ Len(s) = Len(seq) + 1
      /\ s[Len(seq) + 1] = e /\ \A n \in 1..Len(seq) : s[n] = seq[n]
      /\ DOMAIN s = 1..Len(seq) + 1 /\ DOMAIN seq = 1..Len(seq)
  OBVIOUS
<1> HIDE DEF s
<1>2. CASE e.id = i
  <2>1. LastAt(s, i, Len(seq) + 1)
    BY <1>1, <1>2 DEF LastAt
  <2>2. Latest(s, i, before) = s[Len(seq) + 1].val
    BY <1>1, <2>1, LatestAt
  <2> QED
    BY <1>1, <1>2, <2>2 DEF s
<1>3. CASE e.id # i /\ Without(seq, i)
  <2>1. Without(s, i)
    BY <1>1, <1>3 DEF Without
  <2> QED
    BY <1>3, <2>1, LatestNone DEF s
<1>4. CASE e.id # i /\ \E n \in DOMAIN seq : LastAt(seq, i, n)
  <2>1. PICK n \in DOMAIN seq : LastAt(seq, i, n)
    BY <1>4
  <2>2. LastAt(s, i, n) /\ s[n] = seq[n]
    BY <1>1, <1>4, <2>1 DEF LastAt
  <2>3. Latest(s, i, before) = s[n].val /\ Latest(seq, i, before) = seq[n].val
    BY <1>1, <2>1, <2>2, LatestAt
  <2> QED
    BY <1>4, <2>2, <2>3 DEF s
<1> QED
  BY <1>2, <1>3, <1>4, LastOrWithout

(* The first change counts as what was before the others.                   *)
LEMMA LatestTail ==
    ASSUME NEW seq \in Seq(Change), seq # <<>>, NEW i, NEW before
    PROVE  Latest(seq, i, before) =
               Latest(Tail(seq), i, IF Head(seq).id = i THEN Head(seq).val ELSE before)
<1> DEFINE t == Tail(seq)
<1>1. /\ t \in Seq(Change) /\ Len(seq) \in Nat \ {0} /\ Len(t) = Len(seq) - 1
      /\ Head(seq) = seq[1] /\ \A n \in 1..Len(seq) - 1 : t[n] = seq[n + 1]
      /\ DOMAIN t = 1..Len(seq) - 1 /\ DOMAIN seq = 1..Len(seq)
  OBVIOUS
<1> HIDE DEF t
<1>2. CASE \E n \in DOMAIN t : LastAt(t, i, n)
  <2>1. PICK n \in DOMAIN t : LastAt(t, i, n)
    BY <1>2
  <2>2. n + 1 \in DOMAIN seq /\ seq[n + 1] = t[n] /\ seq[n + 1].id = i
    BY <1>1, <2>1 DEF LastAt
  <2>3. ASSUME NEW o \in DOMAIN seq, seq[o].id = i PROVE o <= n + 1
    <3>1. CASE o = 1
      BY <1>1, <2>1, <3>1
    <3>2. CASE o # 1
      <4>1. o - 1 \in DOMAIN t /\ t[o - 1] = seq[o] /\ o \in Nat /\ n \in Nat
        BY <1>1, <2>1, <3>2
      <4>2. o - 1 <= n
        BY <2>1, <2>3, <4>1 DEF LastAt
      <4> QED
        BY <4>1, <4>2
    <3> QED
      BY <3>1, <3>2
  <2>4. LastAt(seq, i, n + 1)
    BY <2>2, <2>3 DEF LastAt
  <2>5. \A b : Latest(t, i, b) = t[n].val
    BY <1>1, <2>1, LatestAt
  <2>6. Latest(seq, i, before) = seq[n + 1].val
    BY <2>4, LatestAt
  <2> QED
    BY <2>2, <2>5, <2>6 DEF t
<1>3. CASE Without(t, i)
  <2>1. \A o \in DOMAIN seq : o # 1 => o - 1 \in DOMAIN t /\ t[o - 1] = seq[o]
    BY <1>1
  <2>2. \A o \in DOMAIN seq : o # 1 => seq[o].id # i
    BY <1>3, <2>1 DEF Without
  <2>3. CASE Head(seq).id = i
    <3>1. LastAt(seq, i, 1)
      BY <1>1, <2>2, <2>3 DEF LastAt
    <3> QED
      BY <1>1, <1>3, <2>3, <3>1, LatestAt, LatestNone DEF t
  <2>4. CASE Head(seq).id # i
    <3>1. Without(seq, i)
      BY <1>1, <2>2, <2>4 DEF Without
    <3> QED
      BY <1>3, <2>4, <3>1, LatestNone DEF t
  <2> QED
    BY <2>3, <2>4
<1> QED
  BY <1>1, <1>2, <1>3, LastOrWithout

(* A snapshot says of every key what is registered, once.                   *)
LEMMA LatestSnapshot ==
    ASSUME DiscoveryTypeOK, NEW i \in Instances, NEW before,
           NEW s \in [1..Cardinality(Present) -> Present], InOrder(s)
    PROVE  Latest(queue \o Snapshot(s), i, before) =
               IF Registered(i) = None THEN Latest(queue, i, before) ELSE Registered(i)
<1> DEFINE k == Cardinality(Present)
           q == queue \o Snapshot(s)
<1>1. IsFiniteSet(Present) /\ Present \subseteq Nat
  BY FS_Subset, DiscoveryParameters DEF Present, DiscoveryParameters
<1>2. k \in Nat /\ IsFiniteSet(1..k) /\ Cardinality(1..k) = k
  BY <1>1, FS_CardinalityType, FS_Interval
<1>3. \A m, n \in 1..k : s[m] = s[n] => m = n
  <2>1. \A m, n \in 1..k : s[m] \in Nat /\ s[n] \in Nat /\ (m < n => s[m] < s[n])
    BY <1>1 DEF InOrder
  <2> QED
    BY <1>2, <2>1
<1>4. s \in Injection(1..k, Present)
  BY <1>3 DEF Injection, IsInjective
<1>5. s \in Surjection(1..k, Present)
  BY <1>1, <1>2, <1>4, FS_Injection
<1>6. Snapshot(s) \in Seq(Change) /\ queue \in Seq(Change) /\ Len(queue) \in Nat
  BY SnapshotType DEF DiscoveryTypeOK
<1>7. Len(Snapshot(s)) = k /\ \A n \in 1..k :
          Snapshot(s)[n].id = s[n] /\ Snapshot(s)[n].val = Registered(s[n])
  BY <1>2, <1>6 DEF Snapshot
<1>8. /\ q \in Seq(Change) /\ DOMAIN q = 1..Len(queue) + k /\ DOMAIN queue = 1..Len(queue)
      /\ \A n \in 1..Len(queue) : q[n] = queue[n]
      /\ \A n \in 1..k : q[Len(queue) + n].id = s[n]
                            /\ q[Len(queue) + n].val = Registered(s[n])
      /\ \A n \in DOMAIN q \ DOMAIN queue : n - Len(queue) \in 1..k
                            /\ q[n].id = s[n - Len(queue)]
  BY <1>2, <1>6, <1>7
<1>9. q \in Seq(Change)
  BY <1>8
<1> HIDE DEF q
<1>10. ASSUME Registered(i) # None PROVE Latest(q, i, before) = Registered(i)
  <2>1. PICK n \in 1..k : s[n] = i
    BY <1>5, <1>10 DEF Surjection, Present
  <2>2. Len(queue) + n \in DOMAIN q /\ q[Len(queue) + n].id = i
    BY <1>2, <1>6, <1>8, <2>1
  <2>3. ASSUME NEW o \in DOMAIN q, q[o].id = i PROVE o <= Len(queue) + n
    <3>1. CASE o \in DOMAIN queue
      BY <1>6, <1>8, <3>1
    <3>2. CASE o \notin DOMAIN queue
      <4>1. o - Len(queue) = n
        BY <1>3, <1>8, <2>1, <2>3, <3>2
      <4> QED
        BY <1>2, <1>6, <1>8, <4>1
    <3> QED
      BY <3>1, <3>2
  <2>4. LastAt(q, i, Len(queue) + n)
    BY <2>2, <2>3 DEF LastAt
  <2>5. Latest(q, i, before) = q[Len(queue) + n].val
    BY <1>9, <2>4, LatestAt
  <2>6. q[Len(queue) + n].val = Registered(i)
    BY <1>8, <2>1
  <2> QED
    BY <2>5, <2>6
<1>11. ASSUME Registered(i) = None PROVE Latest(q, i, before) = Latest(queue, i, before)
  <2>1. \A n \in DOMAIN q \ DOMAIN queue : q[n].id # i
    BY <1>8, <1>11 DEF Present
  <2>2. CASE Without(queue, i)
    <3>1. Without(q, i)
      BY <1>8, <2>1, <2>2 DEF Without
    <3> QED
      BY <2>2, <3>1, LatestNone
  <2>3. CASE \E n \in DOMAIN queue : LastAt(queue, i, n)
    <3>1. PICK n \in DOMAIN queue : LastAt(queue, i, n)
      BY <2>3
    <3>2. LastAt(q, i, n) /\ q[n] = queue[n]
      BY <1>2, <1>6, <1>8, <2>1, <3>1 DEF LastAt
    <3>3. Latest(q, i, before) = q[n].val /\ Latest(queue, i, before) = queue[n].val
      BY <1>6, <1>9, <3>1, <3>2, LatestAt
    <3> QED
      BY <3>2, <3>3
  <2> QED
    BY <1>6, <2>2, <2>3, LastOrWithout
<1> QED
  BY <1>10, <1>11, Zenon DEF q

FollowInv == DiscoveryInv /\ TableFollows

(* What the table holds for i now.                                          *)
Held(i) == IF Listed(i) THEN Entry(i).val ELSE None

(* The log up to a revision does not change; one more entry is an append.   *)
LEMMA Revisions ==
    ASSUME DiscoveryTypeOK
    PROVE  /\ \A r \in 0..Len(log) : SubSeq(log, 1, r) \in Seq(Change)
           /\ \A r \in 0..Len(log) : \A e \in Change :
                  SubSeq(Append(log, e), 1, r) = SubSeq(log, 1, r)
           /\ \A r \in 0..Len(log) - 1 :
                  SubSeq(log, 1, r + 1) = Append(SubSeq(log, 1, r), log[r + 1])
<1>1. log \in Seq(Change) /\ Len(log) \in Nat
  BY DEF DiscoveryTypeOK
<1>2. \A r \in 0..Len(log) : SubSeq(log, 1, r) \in Seq(Change)
  BY <1>1
<1>3. ASSUME NEW r \in 0..Len(log), NEW e \in Change
      PROVE  SubSeq(Append(log, e), 1, r) = SubSeq(log, 1, r)
  <2>1. Append(log, e) \in Seq(Change) /\ Len(Append(log, e)) = Len(log) + 1
        /\ \A n \in 1..r : Append(log, e)[n] = log[n]
    BY <1>1, <1>3
  <2> QED
    BY <1>1, <2>1
<1>4. ASSUME NEW r \in 0..Len(log) - 1
      PROVE  SubSeq(log, 1, r + 1) = Append(SubSeq(log, 1, r), log[r + 1])
  BY <1>1
<1> QED
  BY <1>2, <1>3, <1>4

LEMMA FollowInit == DiscoveryInit => TableFollows
<1> SUFFICES ASSUME DiscoveryInit, NEW i \in Instances
             PROVE  Settled(i) = RegisteredAt(rev, i)
  BY DEF TableFollows
<1>1. queue = <<>> /\ rev = 0 /\ log = <<>> /\ ~Listed(i)
  BY DEF DiscoveryInit, Listed
<1>2. Without(queue, i) /\ Without(SubSeq(log, 1, rev), i)
  BY <1>1 DEF Without
<1> QED
  BY <1>1, <1>2, LatestNone DEF Settled, RegisteredAt

(* An event that is handled becomes what the table holds.                   *)
LEMMA HeldStep ==
    ASSUME DiscoveryInv, HandleEvent, NEW i \in Instances
    PROVE  Held(i)' = IF Event.id = i THEN Event.val ELSE Held(i)
<1> USE DEF DiscoveryInv
<1> DEFINE id == Event.id
<1>1. id \in Instances /\ (IsPut => Event \in Entries)
  BY EventType DEF HandleEvent
<1>2. instances \in Seq(Entries) /\ Len(instances) \in Nat
  BY DEF DiscoveryTypeOK, Entries
<1>3. \A j \in DOMAIN index : index[j] \in 1..Len(instances) /\ instances[index[j]].id = j
  BY <1>2 DEF IndexConsistent, Entry
<1>4. Held(i) = IF i \in DOMAIN index THEN instances[index[i]].val ELSE None
  BY DEF Held, Listed, Entry
<1>5. Held(i)' = IF i \in DOMAIN index' THEN instances'[index'[i]].val ELSE None
  BY DEF Held, Listed, Entry
<1>6. CASE AddInstance
  <2>1. /\ id \notin DOMAIN index
        /\ instances' = Append(instances, Event)
        /\ index' = [j \in DOMAIN index \cup {id} |->
                        IF j = id THEN Len(instances) + 1 ELSE index[j]]
    BY <1>6 DEF AddInstance, GoesOnline, Listed
  <2>2. instances'[Len(instances) + 1] = Event
        /\ \A n \in 1..Len(instances) : instances'[n] = instances[n]
    BY <1>2, <2>1
  <2>3. CASE i = id
    BY <1>5, <2>1, <2>2, <2>3
  <2>4. CASE i # id
    BY <1>3, <1>4, <1>5, <2>1, <2>2, <2>4
  <2> QED
    BY <2>3, <2>4
<1>7. CASE ReplaceInstance
  <2>1. /\ id \in DOMAIN index /\ UNCHANGED index
        /\ instances' = [instances EXCEPT ![index[id]] = Event]
    BY <1>7 DEF ReplaceInstance, Replaced, Listed
  <2>2. CASE i = id
    BY <1>2, <1>3, <1>5, <2>1, <2>2
  <2>3. CASE i # id
    BY <1>2, <1>3, <1>4, <1>5, <2>1, <2>3
  <2> QED
    BY <2>2, <2>3
<1>8. CASE RemoveInstance
  <2>1. Event.val = None
    BY <1>8 DEF RemoveInstance, IsPut
  <2>2. CASE id \notin DOMAIN index
    <3>1. UNCHANGED <<instances, index>>
      BY <1>8, <2>2 DEF RemoveInstance, Listed, tableVars
    <3> QED
      BY <1>4, <1>5, <2>1, <2>2, <3>1
  <2>3. CASE id \in DOMAIN index
    <3> DEFINE n == Len(instances)
               moved == [instances EXCEPT ![index[id]] = instances[n]]
    <3>1. n \in 1..n /\ index[id] \in 1..n
      BY <1>2, <1>3, <2>3
    <3>2. moved \in Seq(Entries) /\ Len(moved) = n
      BY <1>2, <3>1
    <3>3. /\ instances' = SubSeq(moved, 1, n - 1)
          /\ index' = IndexWithout(id)
      BY <1>8, <2>3, <3>2 DEF RemoveInstance, Listed, Front, Last
    <3>4. \A k \in 1..n - 1 : instances'[k] = moved[k]
      BY <3>1, <3>2, <3>3
    <3>5. DOMAIN index' = DOMAIN index \ {id}
      BY <3>3 DEF IndexWithout
    <3>6. CASE i = id \/ i \notin DOMAIN index
      BY <1>4, <1>5, <2>1, <3>5, <3>6
    <3>7. CASE i # id /\ i \in DOMAIN index
      <4>1. i \in DOMAIN index' /\ index[i] \in 1..n /\ index[i] # index[id]
        BY <1>3, <2>3, <3>5, <3>7
      <4>2. instances'[index'[i]] = instances[index[i]]
        <5>1. CASE index[i] = n
          <6>1. index'[i] = index[id] /\ index[id] \in 1..n - 1
            BY <1>2, <3>1, <3>3, <3>5, <4>1, <5>1 DEF IndexWithout
          <6> QED
            BY <1>2, <3>1, <3>4, <5>1, <6>1
        <5>2. CASE index[i] # n
          <6>1. index'[i] = index[i] /\ index[i] \in 1..n - 1
            BY <1>2, <3>3, <3>5, <4>1, <5>2 DEF IndexWithout
          <6> QED
            BY <1>2, <3>1, <3>4, <4>1, <6>1
        <5> QED
          BY <5>1, <5>2
      <4> QED
        BY <1>4, <1>5, <3>7, <4>1, <4>2
    <3> QED
      BY <3>6, <3>7
  <2> QED
    BY <2>2, <2>3
<1> QED
  BY <1>6, <1>7, <1>8 DEF HandleEvent

LEMMA FollowStep ==
    ASSUME FollowInv, [DiscoveryNext]_discoveryVars
    PROVE  FollowInv'
<1> USE DEF FollowInv
<1>1. DiscoveryInv'
  BY DiscoveryInvStep
<1>2. SUFFICES ASSUME NEW i \in Instances
               PROVE  (\/ Settled(i) = RegisteredAt(rev, i)
                       \/ missed /\ RegisteredAt(rev, i) = None)'
  BY <1>1 DEF TableFollows
<1>3. Settled(i) = RegisteredAt(rev, i) \/ (missed /\ RegisteredAt(rev, i) = None)
  BY DEF TableFollows
<1>4. DiscoveryTypeOK /\ queue \in Seq(Change) /\ rev \in 0..Len(log) /\ Len(log) \in Nat
  BY DEF DiscoveryInv, DiscoveryTypeOK
<1>5. Settled(i) = Latest(queue, i, Held(i)) /\ Settled(i)' = Latest(queue', i, Held(i)')
  BY DEF Settled, Held, Latest
<1>6. UNCHANGED tableVars => Held(i)' = Held(i)
  BY DEF Held, Listed, Entry, tableVars
<1>7. CASE Registry
  <2>1. UNCHANGED <<rev, missed, queue>> /\ UNCHANGED tableVars
    BY <1>7 DEF Registry, watchVars
  <2>2. PICK e \in Change : log' = Append(log, e)
    BY <1>7 DEF Registry, Record, Change, Statuses
  <2>3. RegisteredAt(rev, i)' = RegisteredAt(rev, i)
    BY <1>4, <2>1, <2>2, Revisions DEF RegisteredAt
  <2> QED
    BY <1>3, <1>5, <1>6, <2>1, <2>3
<1>8. CASE WatchSnapshot
  <2>1. PICK s \in [1..Cardinality(Present) -> Present] :
            InOrder(s) /\ queue' = queue \o Snapshot(s)
    BY <1>8 DEF WatchSnapshot
  <2>2. /\ UNCHANGED log /\ UNCHANGED tableVars /\ rev' = Len(log)
        /\ missed' = (missed \/ \E n \in (rev + 1)..Len(log) : log[n].val = None)
    BY <1>8 DEF WatchSnapshot, registryVars
  <2>3. RegisteredAt(rev, i)' = Registered(i)
    BY <2>2 DEF Registered, RegisteredAt
  <2>4. Settled(i)' = IF Registered(i) = None THEN Settled(i) ELSE Registered(i)
    BY <1>4, <1>5, <1>6, <2>1, <2>2, LatestSnapshot
  <2>5. CASE Registered(i) # None \/ missed \/ RegisteredAt(rev, i) = None
    BY <1>3, <2>2, <2>3, <2>4, <2>5
  <2>6. CASE Registered(i) = None /\ RegisteredAt(rev, i) # None
    <3> DEFINE all == SubSeq(log, 1, Len(log))
               old == SubSeq(log, 1, rev)
    <3>1. /\ all \in Seq(Change) /\ old \in Seq(Change)
          /\ DOMAIN all = 1..Len(log) /\ DOMAIN old = 1..rev
          /\ \A n \in 1..Len(log) : all[n] = log[n]
          /\ \A n \in 1..rev : old[n] = log[n]
      BY <1>4 DEF DiscoveryTypeOK
    <3>2. Latest(all, i, None) = None /\ Latest(old, i, None) # None
      BY <2>6 DEF Registered, RegisteredAt
    <3> HIDE DEF all, old
    <3>3. PICK m \in DOMAIN old : LastAt(old, i, m)
      BY <3>1, <3>2, LatestNone, LastOrWithout
    <3>4. all[m].id = i /\ m \in DOMAIN all
      BY <1>4, <3>1, <3>3 DEF LastAt
    <3>5. PICK n \in DOMAIN all : LastAt(all, i, n)
      BY <3>1, <3>4, LastOrWithout DEF Without
    <3>6. all[n].val = None
      BY <3>1, <3>2, <3>5, LatestAt
    <3>7. n \notin 1..rev
      <4> SUFFICES ASSUME n \in 1..rev PROVE FALSE
        OBVIOUS
      <4>1. \A o \in DOMAIN old : o \in DOMAIN all /\ old[o] = all[o]
        BY <1>4, <3>1
      <4>2. n \in DOMAIN old
        BY <3>1
      <4>3. LastAt(old, i, n)
        BY <3>5, <4>1, <4>2 DEF LastAt
      <4>4. old \in Seq(Change)
        BY <3>1
      <4>5. Latest(old, i, None) = old[n].val
        BY <4>3, <4>4, LatestAt
      <4> QED
        BY <3>2, <3>6, <4>1, <4>2, <4>5
    <3>8. n \in (rev + 1)..Len(log) /\ log[n].val = None
      BY <1>4, <3>1, <3>6, <3>7
    <3>9. missed'
      BY <2>2, <3>8
    <3> QED
      BY <2>3, <2>6, <3>9
  <2> QED
    BY <2>5, <2>6
<1>9. CASE WatchEvent
  <2>1. /\ queue' = Append(queue, log[rev + 1]) /\ rev' = rev + 1 /\ rev < Len(log)
        /\ UNCHANGED <<log, missed>> /\ UNCHANGED tableVars
    BY <1>9 DEF WatchEvent, registryVars
  <2>2. log[rev + 1] \in Change /\ SubSeq(log, 1, rev) \in Seq(Change)
    BY <1>4, <2>1 DEF DiscoveryTypeOK
  <2>3. SubSeq(log, 1, rev + 1) = Append(SubSeq(log, 1, rev), log[rev + 1])
    BY <1>4, <2>1, Revisions
  <2>4. RegisteredAt(rev, i)' = Latest(SubSeq(log, 1, rev + 1), i, None)
    BY <2>1 DEF RegisteredAt
  <2>5. RegisteredAt(rev, i)' = IF log[rev + 1].id = i THEN log[rev + 1].val
                                ELSE RegisteredAt(rev, i)
    <3> DEFINE old == SubSeq(log, 1, rev)
               e == log[rev + 1]
    <3>1. old \in Seq(Change) /\ e \in Change
      BY <2>2
    <3>2. RegisteredAt(rev, i)' = Latest(Append(old, e), i, None)
      BY <2>3, <2>4, Zenon
    <3>3. RegisteredAt(rev, i) = Latest(old, i, None)
      BY DEF RegisteredAt
    <3> HIDE DEF old, e
    <3>4. Latest(Append(old, e), i, None) = IF e.id = i THEN e.val ELSE Latest(old, i, None)
      BY <3>1, LatestAppend
    <3> QED
      BY <3>2, <3>3, <3>4, Zenon DEF e
  <2>6. Settled(i)' = IF log[rev + 1].id = i THEN log[rev + 1].val ELSE Settled(i)
    BY <1>4, <1>5, <1>6, <2>1, <2>2, LatestAppend
  <2> QED
    BY <1>3, <2>1, <2>5, <2>6
<1>10. CASE WatchBreaks
  <2>1. UNCHANGED <<log, rev, missed, queue>> /\ UNCHANGED tableVars
    BY <1>10 DEF WatchBreaks, registryVars
  <2> QED
    BY <1>3, <1>5, <1>6, <2>1 DEF RegisteredAt
<1>11. CASE HandleEvent
  <2>1. queue # <<>> /\ queue' = Tail(queue) /\ UNCHANGED <<log, rev, missed>>
    BY <1>11 DEF HandleEvent, registryVars, watchVars
  <2>2. Held(i)' = IF Head(queue).id = i THEN Head(queue).val ELSE Held(i)
    BY <1>11, HeldStep DEF Event
  <2>3. Settled(i)' = Settled(i)
    BY <1>4, <1>5, <2>1, <2>2, LatestTail
  <2> QED
    BY <1>3, <2>1, <2>3 DEF RegisteredAt
<1>12. CASE UNCHANGED discoveryVars
  <2>1. UNCHANGED <<log, rev, missed, queue>> /\ UNCHANGED tableVars
    BY <1>12 DEF discoveryVars, tableVars
  <2> QED
    BY <1>3, <1>5, <1>6, <2>1 DEF RegisteredAt
<1> QED
  BY <1>7, <1>8, <1>9, <1>10, <1>11, <1>12 DEF DiscoveryNext, Watcher

(* For any instances and any bounds on changes and breaks: when the events  *)
(* under way are handled, the table holds what the registry held at the     *)
(* watcher's revision, except for an instance whose deletion a snapshot has *)
(* stepped over (loadSnapshot, watchFromRevision, setInstance,              *)
(* removeInstance).                                                         *)
THEOREM TableFollowsRegistry == DiscoverySpec => []TableFollows
<1>1. DiscoveryInit => FollowInv
  BY DiscoveryInvInit, FollowInit DEF FollowInv
<1>2. FollowInv /\ [DiscoveryNext]_discoveryVars => FollowInv'
  BY FollowStep
<1>3. FollowInv => TableFollows
  BY DEF FollowInv
<1> QED
  BY <1>1, <1>2, <1>3, PTL DEF DiscoverySpec

----------------------------------------------------------------------------
(* The links. *)
LinksInv == DiscoveryInv /\ LinksTypeOK /\ AgentIsHeld

LEMMA LinksInvInit == LinksInit => LinksInv
<1> SUFFICES ASSUME LinksInit PROVE LinksInv
  OBVIOUS
<1>1. DiscoveryInv
  BY DiscoveryInvInit DEF LinksInit
<1>2. tasks \in Seq(Task) /\ linkBreaks \in 0..MaxLinkBreaks
  BY LinkParameters DEF LinksInit, LinkParameters
<1>3. LinksTypeOK
  BY <1>2 DEF LinksTypeOK, LinksInit
<1>4. AgentIsHeld
  BY DEF AgentIsHeld, LinksInit
<1> QED
  BY <1>1, <1>3, <1>4 DEF LinksInv

(* The status of a connection is no part of the table. *)
LEMMA StatusStep ==
    ASSUME DiscoveryInv, UNCHANGED statusUnchanged, net' \in [Instances -> BOOLEAN]
    PROVE  DiscoveryInv'
BY DEF DiscoveryInv, DiscoveryTypeOK, IndexConsistent, Entry, statusUnchanged

LEMMA UpdateNetStatusType ==
    ASSUME DiscoveryTypeOK, NEW i, NEW status \in BOOLEAN, UpdateNetStatus(i, status)
    PROVE  net' \in [Instances -> BOOLEAN]
BY DEF UpdateNetStatus, DiscoveryTypeOK

LEMMA TableStep ==
    ASSUME LinksInv, [LinksNext]_linksVars
    PROVE  DiscoveryInv'
<1> USE DEF LinksInv
<1>1. CASE Environment \/ Watching
  BY <1>1, WatchStep DEF Environment, Watching
<1>2. CASE ListenEvent
  BY <1>2, EventStep DEF ListenEvent
<1>3. CASE UNCHANGED discoveryVars
  BY <1>3, DiscoveryInvStep
<1>4. ASSUME NEW l \in Links, HelloStatus(l) PROVE DiscoveryInv'
  BY <1>4, StatusStep, UpdateNetStatusType DEF HelloStatus, DiscoveryInv
<1>5. ASSUME NEW l \in Links, StopLink(l) PROVE DiscoveryInv'
  <2>1. net' \in [Instances -> BOOLEAN]
    BY <1>5, UpdateNetStatusType DEF StopLink, DiscoveryInv, DiscoveryTypeOK
  <2> QED
    BY <1>5, <2>1, StatusStep DEF StopLink
<1>6. CASE NetTask
  BY <1>3, <1>6 DEF NetTask, AddSess, RegisterTask, SessOver, SessAlreadyOver, RemoveSvr, RunTask
<1>7. ASSUME NEW l \in Links,
             Redial(l) \/ ReadHello(l) \/ HelloRefused(l) \/ RegisterSess(l)
               \/ DialSucceeds(l) \/ DialFails(l) \/ LinkBreaks(l)
      PROVE  DiscoveryInv'
  BY <1>3, <1>7 DEF Redial, ReadHello, HelloRefused, RegisterSess, DialSucceeds, DialFails, LinkBreaks
<1>8. CASE UNCHANGED linksVars
  BY <1>3, <1>8 DEF linksVars
<1> QED
  BY <1>1, <1>2, <1>4, <1>5, <1>6, <1>7, <1>8 DEF LinksNext, Goroutine

(* A queued task is one of Task, and what is queued behind it still is.     *)
LEMMA TaskType ==
    ASSUME LinksTypeOK, NEW kind, RunTask(kind)
    PROVE  /\ Current \in Task /\ Current.kind = kind /\ tasks' \in Seq(Task)
           /\ kind # "remove" => Current.link \in Links
           /\ kind = "remove" => Current.id \in Instances
<1>1. Current \in Task /\ tasks' \in Seq(Task) /\ Current.kind = kind
  BY DEF LinksTypeOK, RunTask, Current
<1> QED
  BY <1>1 DEF Task

LEMMA SendType ==
    ASSUME LinksTypeOK, NEW task \in Task, Send(task)
    PROVE  tasks' \in Seq(Task)
BY DEF LinksTypeOK, Send

(* The dial of a new link: nobody has it as agent.                          *)
LEMMA NewLinkStep ==
    ASSUME LinksTypeOK, AgentIsHeld, NEW k \in Links, NEW i \in Instances, NewLink(k, i)
    PROVE  /\ conn[k] = "none"
           /\ \A j \in Instances : agent[j] # k
           /\ peer' \in [Links -> Instances \cup {None}] /\ server' \in [Links -> BOOLEAN]
           /\ server'[k] = FALSE
           /\ \A l \in Links \ {k} : peer'[l] = peer[l] /\ server'[l] = server[l]
<1>1. conn[k] = "none"
  BY DEF NewLink, Unused
<1>2. k # None
  BY LinkParameters DEF LinkParameters
<1>3. \A j \in Instances : agent[j] # k
  BY <1>1, <1>2 DEF AgentIsHeld, InSessMap
<1> QED
  BY <1>1, <1>3 DEF NewLink, FreshAgent, LinksTypeOK

(* A step that keeps agents, and what an agent is about.                    *)
LEMMA AgentsKept ==
    ASSUME AgentIsHeld, NEW D \in SUBSET Instances,
           \A i \in D : agent'[i] = None,
           \A i \in Instances \ D : agent'[i] = agent[i],
           \A i \in Instances \ D : agent[i] # None =>
               LET l == agent[i]
               IN  /\ InSessMap(l) => InSessMap(l)'
                   /\ server'[l] = server[l] /\ peer'[l] = peer[l]
    PROVE  AgentIsHeld'
BY DEF AgentIsHeld, InSessMap

LEMMA LinksInvStep ==
    ASSUME LinksInv, [LinksNext]_linksVars
    PROVE  LinksInv'
<1> USE DEF LinksInv
<1>1. DiscoveryInv'
  BY TableStep
<1>2. SUFFICES LinksTypeOK' /\ AgentIsHeld'
  BY <1>1
<1>3. None \notin Links /\ None \notin Instances
  BY LinkParameters DEF LinkParameters
<1>4. CASE UNCHANGED linkVars
  BY <1>4 DEF linkVars, LinksTypeOK, AgentIsHeld, InSessMap
<1>5. CASE ListenEvent
  <2>1. Event.id \in Instances
    BY <1>5, EventType DEF ListenEvent, HandleEvent, DiscoveryInv
  <2>2. UNCHANGED <<hello, agent, linkBreaks>>
    BY <1>5 DEF ListenEvent
  <2>3. CASE OnlineInstance
    <3>1. PICK k \in Links : NewLink(k, Event.id) /\ conn' = [conn EXCEPT ![k] = "dialing"]
      BY <2>3 DEF OnlineInstance
    <3>2. /\ conn[k] = "none" /\ \A j \in Instances : agent[j] # k
          /\ peer' \in [Links -> Instances \cup {None}] /\ server' \in [Links -> BOOLEAN]
          /\ server'[k] = FALSE
          /\ \A l \in Links \ {k} : peer'[l] = peer[l] /\ server'[l] = server[l]
      BY <2>1, <3>1, NewLinkStep
    <3>3. LinksTypeOK'
      BY <2>2, <2>3, <3>1, <3>2 DEF OnlineInstance, LinksTypeOK
    <3>4. AgentIsHeld'
      <4>1. ASSUME NEW i \in Instances, agent[i] # None
            PROVE  /\ InSessMap(agent[i]) => InSessMap(agent[i])'
                   /\ server'[agent[i]] = server[agent[i]] /\ peer'[agent[i]] = peer[agent[i]]
        <5>1. agent[i] \in Links /\ agent[i] # k
          BY <3>2, <4>1 DEF LinksTypeOK
        <5>2. conn'[agent[i]] = conn[agent[i]]
          BY <3>1, <5>1 DEF LinksTypeOK
        <5> QED
          BY <2>2, <3>2, <5>1, <5>2 DEF InSessMap
      <4> QED
        BY <2>2, <4>1 DEF AgentIsHeld
    <3> QED
      BY <3>3, <3>4
  <2>4. CASE OfflineInstance
    <3>1. [kind |-> "remove", link |-> None, id |-> Event.id] \in Task
      BY <2>1 DEF Task
    <3>2. tasks' \in Seq(Task) /\ UNCHANGED <<peer, conn, server>>
      BY <2>4, <3>1, SendType DEF OfflineInstance
    <3> QED
      BY <2>2, <3>2 DEF LinksTypeOK, AgentIsHeld, InSessMap
  <2>5. CASE UpdateInstance
    BY <2>2, <2>5 DEF UpdateInstance, LinksTypeOK, AgentIsHeld, InSessMap
  <2> QED
    BY <1>5, <2>3, <2>4, <2>5 DEF ListenEvent
<1>6. ASSUME NEW l \in Links, DialSucceeds(l) PROVE LinksTypeOK' /\ AgentIsHeld'
  <2>1. TaskOf("add", l) \in Task
    BY DEF TaskOf, Task
  <2>2. tasks' \in Seq(Task)
    BY <1>6, <2>1, SendType DEF DialSucceeds
  <2> QED
    BY <1>3, <1>6, <2>2 DEF DialSucceeds, LinksTypeOK, AgentIsHeld, InSessMap
<1>7. ASSUME NEW l \in Links, DialFails(l) \/ Redial(l) PROVE LinksTypeOK' /\ AgentIsHeld'
  BY <1>3, <1>7 DEF DialFails, Redial, LinksTypeOK, AgentIsHeld, InSessMap
<1>8. ASSUME NEW l \in Links, LinkBreaks(l) PROVE LinksTypeOK' /\ AgentIsHeld'
  <2>1. TaskOf("over", l) \in Task
    BY DEF TaskOf, Task
  <2>2. tasks' \in Seq(Task)
    BY <1>8, <2>1, SendType DEF LinkBreaks
  <2>3. linkBreaks' \in 0..MaxLinkBreaks
    BY <1>8, LinkParameters DEF LinkBreaks, LinksTypeOK, LinkParameters
  <2> QED
    BY <1>3, <1>8, <2>2, <2>3 DEF LinkBreaks, LinksTypeOK, AgentIsHeld, InSessMap
<1>9. ASSUME NEW l \in Links, ReadHello(l) \/ HelloRefused(l) \/ HelloStatus(l)
      PROVE  LinksTypeOK' /\ AgentIsHeld'
  <2>1. /\ UNCHANGED <<peer, conn, server, agent, tasks, linkBreaks>>
        /\ hello' \in [Links -> {"none", "sent", "refused", "answered", "registering"}]
    BY <1>9 DEF ReadHello, HelloRefused, HelloStatus, LinksTypeOK
  <2> QED
    BY <2>1 DEF LinksTypeOK, AgentIsHeld, InSessMap
<1>10. ASSUME NEW l \in Links, RegisterSess(l) PROVE LinksTypeOK' /\ AgentIsHeld'
  <2>1. TaskOf("register", l) \in Task
    BY DEF TaskOf, Task
  <2>2. tasks' \in Seq(Task)
    BY <1>10, <2>1, SendType DEF RegisterSess
  <2> QED
    BY <1>10, <2>2 DEF RegisterSess, LinksTypeOK, AgentIsHeld, InSessMap
<1>11. ASSUME NEW l \in Links, StopLink(l) PROVE LinksTypeOK' /\ AgentIsHeld'
  BY <1>3, <1>11 DEF StopLink, LinksTypeOK, AgentIsHeld, InSessMap
<1>12. CASE AddSess
  BY <1>3, <1>12, TaskType DEF AddSess, RunTask, LinksTypeOK, AgentIsHeld, InSessMap
<1>13. CASE RegisterTask
  <2>1. RunTask("register") /\ UNCHANGED <<peer, conn, hello, linkBreaks>>
    BY <1>13 DEF RegisterTask, RunTask
  <2>2. Current.link \in Links /\ tasks' \in Seq(Task)
    BY <2>1, TaskType
  <2> DEFINE l == Current.link
  <2>3. CASE InSessMap(l)
    <3>1. agent' = [agent EXCEPT ![peer[l]] = l] /\ server' = [server EXCEPT ![l] = TRUE]
      BY <1>13, <2>3 DEF RegisterTask, Registers
    <3>2. LinksTypeOK'
      BY <2>1, <2>2, <2>3, <3>1 DEF LinksTypeOK, InSessMap
    <3>3. ASSUME NEW i \in Instances, agent'[i] # None
          PROVE  (InSessMap(agent[i]) /\ server[agent[i]] /\ peer[agent[i]] = i)'
      <4>1. CASE agent'[i] = l /\ peer[l] = i
        BY <2>1, <2>2, <2>3, <3>1, <4>1 DEF LinksTypeOK, InSessMap
      <4>2. CASE agent'[i] = agent[i]
        BY <2>1, <3>1, <3>3, <4>2 DEF LinksTypeOK, AgentIsHeld, InSessMap
      <4> QED
        BY <3>1, <4>1, <4>2 DEF LinksTypeOK
    <3> QED
      BY <3>2, <3>3 DEF AgentIsHeld
  <2>4. CASE ~InSessMap(l)
    BY <1>13, <2>1, <2>2, <2>4 DEF RegisterTask, Registers, LinksTypeOK, AgentIsHeld, InSessMap
  <2> QED
    BY <2>3, <2>4
<1>14. CASE SessOver
  <2>1. /\ RunTask("over") /\ UNCHANGED <<hello, linkBreaks>> /\ InSessMap(Current.link)
        /\ agent' = WithoutAgent(Current.link)
    BY <1>14 DEF SessOver, RunTask
  <2>2. Current.link \in Links /\ tasks' \in Seq(Task)
    BY <2>1, TaskType
  <2> DEFINE l == Current.link
             D == {i \in Instances : agent[i] = l}
  <2>3. /\ agent' \in [Instances -> Links \cup {None}]
        /\ \A i \in D : agent'[i] = None /\ \A j \in Instances \ D : agent'[j] = agent[j]
        /\ \A i \in Instances \ D : agent'[i] = agent[i] /\ agent[i] # l
    BY <2>1 DEF WithoutAgent, LinksTypeOK
  <2>4. CASE Reconnects(l)
    <3>1. PICK k \in Links : NewLink(k, peer[l])
              /\ conn' = [[conn EXCEPT ![l] = "stopping"] EXCEPT ![k] = "dialing"]
      BY <1>14, <2>4 DEF SessOver
    <3>2. peer[l] \in Instances
      BY <2>2, <2>4 DEF Reconnects, CanReconnect, Listed, DiscoveryInv, DiscoveryTypeOK
    <3>3. /\ conn[k] = "none" /\ \A j \in Instances : agent[j] # k
          /\ peer' \in [Links -> Instances \cup {None}] /\ server' \in [Links -> BOOLEAN]
          /\ server'[k] = FALSE
          /\ \A m \in Links \ {k} : peer'[m] = peer[m] /\ server'[m] = server[m]
      BY <3>1, <3>2, NewLinkStep
    <3>4. k # l
      BY <2>1, <3>3 DEF InSessMap
    <3>5. LinksTypeOK'
      BY <2>1, <2>2, <2>3, <3>1, <3>3, <3>4 DEF LinksTypeOK
    <3>6. AgentIsHeld'
      <4>1. ASSUME NEW i \in Instances \ D, agent[i] # None
            PROVE  /\ InSessMap(agent[i]) => InSessMap(agent[i])'
                   /\ server'[agent[i]] = server[agent[i]] /\ peer'[agent[i]] = peer[agent[i]]
        <5>1. agent[i] \in Links /\ agent[i] # l /\ agent[i] # k
          BY <2>3, <3>3, <4>1 DEF LinksTypeOK
        <5>2. conn'[agent[i]] = conn[agent[i]]
          BY <2>2, <3>1, <5>1 DEF LinksTypeOK
        <5> QED
          BY <2>3, <4>1, <3>3, <5>1, <5>2 DEF InSessMap
      <4> QED
        BY <2>3, <4>1, AgentsKept
    <3> QED
      BY <3>5, <3>6
  <2>5. CASE ~Reconnects(l)
    <3>1. conn' = [conn EXCEPT ![l] = "stopping"] /\ UNCHANGED <<peer, server>>
      BY <1>14, <2>5 DEF SessOver
    <3>2. LinksTypeOK'
      BY <2>1, <2>2, <2>3, <3>1 DEF LinksTypeOK
    <3>3. AgentIsHeld'
      BY <2>2, <2>3, <3>1, AgentsKept DEF InSessMap, LinksTypeOK
    <3> QED
      BY <3>2, <3>3
  <2> QED
    BY <2>4, <2>5
<1>15. CASE SessAlreadyOver
  BY <1>15, TaskType DEF SessAlreadyOver, RunTask, LinksTypeOK, AgentIsHeld, InSessMap
<1>16. CASE RemoveSvr
  <2>1. /\ RunTask("remove") /\ UNCHANGED <<peer, hello, server, linkBreaks>>
    BY <1>16 DEF RemoveSvr, RunTask
  <2>2. Current.id \in Instances /\ tasks' \in Seq(Task)
    BY <2>1, TaskType
  <2> DEFINE l == agent[Current.id]
             D == {i \in Instances : agent[i] = l}
  <2>3. CASE l = None
    BY <1>16, <2>1, <2>2, <2>3 DEF RemoveSvr, LinksTypeOK, AgentIsHeld, InSessMap
  <2>4. CASE l # None
    <3>1. conn' = [conn EXCEPT ![l] = "stopping"] /\ agent' = WithoutAgent(l) /\ l \in Links
      BY <1>16, <2>2, <2>4 DEF RemoveSvr, LinksTypeOK
    <3>2. /\ agent' \in [Instances -> Links \cup {None}]
          /\ \A i \in D : agent'[i] = None
          /\ \A i \in Instances \ D : agent'[i] = agent[i] /\ agent[i] # l
      BY <3>1 DEF WithoutAgent, LinksTypeOK
    <3>3. LinksTypeOK'
      BY <2>1, <2>2, <3>1, <3>2 DEF LinksTypeOK
    <3>4. AgentIsHeld'
      BY <2>1, <3>1, <3>2, AgentsKept DEF InSessMap, LinksTypeOK
    <3> QED
      BY <3>3, <3>4
  <2> QED
    BY <2>3, <2>4
<1> QED
  BY <1>4, <1>5, <1>6, <1>7, <1>8, <1>9, <1>10, <1>11, <1>12, <1>13, <1>14, <1>15, <1>16
  DEF LinksNext, Environment, Watching, NetTask, Goroutine, linksVars

LEMMA LinksInvariant == LinksSpec => []LinksInv
<1>1. LinksInit => LinksInv
  BY LinksInvInit
<1>2. LinksInv /\ [LinksNext]_linksVars => LinksInv'
  BY LinksInvStep
<1> QED
  BY <1>1, <1>2, PTL DEF LinksSpec

(* Types of the links: in particular a connection that is being made has an *)
(* agent of its own, that of no server (tcpMsgQue, ConnAgt).                *)
THEOREM LinksTypeCorrect == LinksSpec => []LinksTypeOK
<1>1. LinksInv => LinksTypeOK
  BY DEF LinksInv
<1> QED
  BY <1>1, LinksInvariant, PTL

(* For any instances and links: the agent of an instance is a session that  *)
(* NetMgr holds, and a link to this instance, whatever the order in which   *)
(* hellos are answered, connections break and instances are removed.        *)
THEOREM AgentsAreHeld == LinksSpec => []AgentIsHeld
<1>1. LinksInv => AgentIsHeld
  BY DEF LinksInv
<1> QED
  BY <1>1, LinksInvariant, PTL

-----------------------------------------------------------------------------
(* Registration. *)

KeyInv ==
    \A k \in Keys : ~Absent(k) =>
        kv[k].lease \in alive /\ KeyOf[kv[k].lease[1]] = k

LeaseInv ==
    /\ \A l \in alive : l[2] <= fresh[l[1]]
    /\ \A i \in Registrars : lease[i] # Nil =>
           lease[i][1] = i /\ lease[i][2] <= fresh[i]
    /\ \A u \in Updaters : ulease[u] # Nil =>
           ulease[u][1] = Updates[u] /\ ulease[u][2] <= fresh[Updates[u]]

StoreInv ==
    \A i \in Registrars : loop[i] = "store" /\ Fresh(i) \in alive =>
        HasLease(KeyOf[i], Fresh(i))

RegistrarInv == RegistrarTypeOK /\ KeyInv /\ LeaseInv /\ StoreInv /\ OwnerKeepsKey

----------------------------------------------------------------------------
(* A lease is the pair of its registrar and its number. *)
LEMMA LeaseParts ==
    ASSUME NEW l \in Leases
    PROVE  l[1] \in Registrars /\ l[2] \in Nat /\ l = <<l[1], l[2]>>
BY DEF Leases

(* A registrar's last lease is a lease. *)
LEMMA FreshIsLease ==
    ASSUME RegistrarTypeOK, NEW i \in Registrars
    PROVE  /\ Fresh(i) \in Leases /\ Fresh(i) # Nil
           /\ Fresh(i)[1] = i /\ Fresh(i)[2] = fresh[i]
BY RegistrarParameters DEF RegistrarTypeOK, Fresh, Leases, RegistrarParameters

(* Nothing is registered at first. *)
LEMMA RegistrarInvInit == RegistrarInit => RegistrarInv
BY RegistrarParameters
DEF RegistrarInit, RegistrarInv, RegistrarTypeOK, KeyInv, LeaseInv, StoreInv,
    OwnerKeepsKey, Absent, RegistrarParameters, Steps

----------------------------------------------------------------------------
(* What a put and the end of a lease do to the keys.                        *)
LEMMA PutEffect ==
    ASSUME RegistrarTypeOK, NEW k \in Keys, NEW v \in Nat, NEW l \in Leases, Put(k, v, l)
    PROVE  /\ kv' \in [Keys -> {Nil} \cup [val : Nat, lease : Leases]]
           /\ alive' = alive
           /\ HasLease(k, l)' /\ kv'[k].lease = l
           /\ \A j \in Keys \ {k} : kv'[j] = kv[j]
<1>1. [val |-> v, lease |-> l] \in [val : Nat, lease : Leases]
  OBVIOUS
<1>2. [val |-> v, lease |-> l] # Nil
  BY <1>1, RegistrarParameters DEF RegistrarParameters, Leases
<1>3. kv' = [kv EXCEPT ![k] = [val |-> v, lease |-> l]] /\ alive' = alive
  BY DEF Put
<1> QED
  BY <1>1, <1>2, <1>3 DEF RegistrarTypeOK, HasLease, Absent

LEMMA EndLeaseEffect ==
    ASSUME RegistrarTypeOK, NEW l, EndLease(l)
    PROVE  /\ kv' \in [Keys -> {Nil} \cup [val : Nat, lease : Leases]]
           /\ alive' = alive \ {l} /\ alive' \subseteq Leases
           /\ \A k \in Keys : kv'[k] = kv[k] \/ kv'[k] = Nil
           /\ \A k \in Keys : HasLease(k, l) => kv'[k] = Nil
           /\ \A k \in Keys : ~HasLease(k, l) => kv'[k] = kv[k]
BY DEF RegistrarTypeOK, EndLease

(* A failed registration and a lease that has changed keep the types. *)
LEMMA GiveTypes ==
    ASSUME RegistrarTypeOK, NEW i \in Registrars, Give(i)
    PROVE  /\ closed' \in [Registrars -> BOOLEAN] /\ loop' \in [Registrars -> Steps]
           /\ lock' \in [Keys -> Registrars \cup {Nil}]
           /\ UNCHANGED <<val, fresh, lease, self, mem, upc, copy, seen, ulease, retried>>
<1>1. (closed[i] \/ Registering(i)) \in BOOLEAN
  OBVIOUS
<1>2. closed' = [closed EXCEPT ![i] = closed[i] \/ Registering(i)]
  BY DEF Give
<1>3. closed' \in [Registrars -> BOOLEAN]
  BY <1>1, <1>2, Zenon DEF RegistrarTypeOK
<1>4. loop' \in [Registrars -> Steps] /\ lock' \in [Keys -> Registrars \cup {Nil}]
  BY RegistrarParameters DEF Give, RegistrarTypeOK, Steps, Release, RegistrarParameters
<1> QED
  BY <1>3, <1>4 DEF Give, updateVars

LEMMA LeaseChangedTypes ==
    ASSUME RegistrarTypeOK, NEW u \in Updaters, LeaseChanged(u)
    PROVE  /\ retried' \in [Updaters -> BOOLEAN]
           /\ ulease' \in [Updaters -> Leases \cup {Nil}]
           /\ ulease'[u] # ulease[u] => ulease'[u] = lease[Updates[u]]
           /\ \A x \in Updaters \ {u} : ulease'[x] = ulease[x] /\ upc'[x] = upc[x]
           /\ upc' \in [Updaters -> {"idle", "copied", "load", "get", "marshal", "put",
                                     "create", "done", "nolease", "failed"}]
           /\ upc'[u] = "failed" \/ (upc'[u] = "get" /\ ulease'[u] # Nil)
<1> DEFINE again == ~retried[u] /\ lease[Updates[u]] # Nil /\ lease[Updates[u]] # ulease[u]
<1>1. (retried[u] \/ again) \in BOOLEAN
  OBVIOUS
<1>2. retried' = [retried EXCEPT ![u] = retried[u] \/ again]
  BY DEF LeaseChanged
<1>3. retried' \in [Updaters -> BOOLEAN]
  BY <1>1, <1>2, Zenon DEF RegistrarTypeOK
<1> QED
  BY <1>3, RegistrarParameters DEF LeaseChanged, RegistrarTypeOK, RegistrarParameters

(* Every step keeps the types. *)
LEMMA TypesStep ==
    ASSUME RegistrarTypeOK, [RegistrarNext]_registrarVars
    PROVE  RegistrarTypeOK'
<1>0. /\ KeyOf \in [Registrars -> Keys] /\ Updates \in [Updaters -> Registrars]
      /\ MaxFaults \in Nat
  BY RegistrarParameters DEF RegistrarParameters
<1> USE <1>0 DEF RegistrarTypeOK
<1>1. CASE \E i \in Registrars : Start(i)
  BY <1>1 DEF Start, etcdVars, updateVars, Steps
<1>2. CASE \E i \in Registrars : LockFails(i)
  BY <1>2 DEF LockFails, etcdVars, updateVars, Steps
<1>3. CASE \E i \in Registrars : LoopTop(i)
  BY <1>3 DEF LoopTop, etcdVars, updateVars, Steps
<1>4. CASE \E i \in Registrars : Lock(i)
  BY <1>4 DEF Lock, etcdVars, updateVars, Steps
<1>5. CASE \E i \in Registrars : StoreLease(i)
  BY <1>5, FreshIsLease DEF StoreLease, Release, etcdVars, updateVars, Steps
<1>6. CASE \E i \in Registrars : Grant(i)
  BY <1>6 DEF Grant, etcdVars, updateVars, Steps, Leases
<1>7. CASE \E i \in Registrars : PutIfAbsent(i) \/ PutUnnoticed(i)
  <2> PICK i \in Registrars : PutIfAbsent(i) \/ PutUnnoticed(i)
    BY <1>7
  <2>1. Put(KeyOf[i], val[i], Fresh(i))
    BY DEF PutIfAbsent, PutUnnoticed
  <2>2. /\ kv' \in [Keys -> {Nil} \cup [val : Nat, lease : Leases]]
        /\ alive' = alive
    BY <2>1, PutEffect, FreshIsLease
  <2> QED
    <3>1. CASE PutIfAbsent(i)
      BY <2>2, <3>1 DEF PutIfAbsent, updateVars, Steps
    <3>2. CASE PutUnnoticed(i)
      <4>1. Give(i)
        BY <3>2 DEF PutUnnoticed
      <4> QED
        BY <2>2, <3>2, <4>1, GiveTypes DEF PutUnnoticed, Fault
    <3> QED
      BY <3>1, <3>2
<1>8. CASE \E i \in Registrars : RegisterFails(i)
  <2> PICK i \in Registrars : RegisterFails(i)
    BY <1>8
  <2>1. Give(i)
    BY DEF RegisterFails
  <2> QED
    BY <2>1, GiveTypes DEF RegisterFails, Fault, etcdVars
<1>9. CASE \E i \in Registrars : KeepAliveLost(i)
  BY <1>9 DEF KeepAliveLost, ClearLease, Fault, etcdVars, updateVars, Steps
<1>10. CASE \E i \in Registrars : Close(i)
  <2> PICK i \in Registrars : Close(i)
    BY <1>10
  <2>1. /\ kv' \in [Keys -> {Nil} \cup [val : Nat, lease : Leases]]
        /\ alive' \subseteq Leases
    BY EndLeaseEffect DEF Close, etcdVars
  <2> QED
    BY <2>1 DEF Close, Fault, loopVars, updateVars
<1>11. CASE \E u \in Updaters : UpdateSelf(u)
  BY <1>11 DEF UpdateSelf, etcdVars, loopVars
<1>12. CASE \E u \in Updaters : UpdateInstanceData(u)
  BY <1>12 DEF UpdateInstanceData, etcdVars, loopVars
<1>13. CASE \E u \in Updaters : LoadLease(u)
  BY <1>13 DEF LoadLease, AfterLoad, etcdVars, loopVars
<1>14. CASE \E u \in Updaters : Marshal(u)
  BY <1>14 DEF Marshal, etcdVars, loopVars
<1>15. CASE \E u \in Updaters : UpdateFails(u)
  BY <1>15 DEF UpdateFails, Fault, etcdVars, loopVars
<1>16. CASE \E u \in Updaters : GetKey(u)
  <2> PICK u \in Updaters : GetKey(u)
    BY <1>16
  <2>1. CASE Absent(Target(u)) \/ HasLease(Target(u), ulease[u])
    BY <2>1 DEF GetKey, Absent, Target, etcdVars, loopVars
  <2>2. CASE ~(Absent(Target(u)) \/ HasLease(Target(u), ulease[u]))
    <3>1. LeaseChanged(u)
      BY <2>2 DEF GetKey
    <3> QED
      BY <2>2, <3>1, LeaseChangedTypes DEF GetKey, etcdVars, loopVars
  <2> QED
    BY <2>1, <2>2
<1>17. CASE \E u \in Updaters : PutValue(u)
  <2> PICK u \in Updaters : PutValue(u)
    BY <1>17
  <2>1. CASE Puts(u)
    <3>1. Put(Target(u), copy[u], ulease[u]) /\ ulease[u] \in Leases
      BY <2>1 DEF PutValue, Puts
    <3>2. /\ kv' \in [Keys -> {Nil} \cup [val : Nat, lease : Leases]]
          /\ alive' = alive
      BY <3>1, PutEffect DEF Target
    <3> QED
      BY <2>1, <3>2 DEF PutValue, loopVars
  <2>2. CASE ~Puts(u)
    <3>1. LeaseChanged(u)
      BY <2>2 DEF PutValue
    <3> QED
      BY <2>2, <3>1, LeaseChangedTypes DEF PutValue, etcdVars, loopVars
  <2> QED
    BY <2>1, <2>2
<1>18. CASE \E l \in alive : LeaseExpires(l)
  BY <1>18, EndLeaseEffect DEF LeaseExpires, Fault, loopVars, updateVars
<1>19. CASE \E k \in Keys : LockExpires(k)
  BY <1>19 DEF LockExpires, Fault, etcdVars, updateVars
<1>20. CASE UNCHANGED registrarVars
  BY <1>20 DEF registrarVars, etcdVars, loopVars, updateVars
<1> QED
  BY <1>1, <1>2, <1>3, <1>4, <1>5, <1>6, <1>7, <1>8, <1>9, <1>10,
     <1>11, <1>12, <1>13, <1>14, <1>15, <1>16, <1>17, <1>18, <1>19, <1>20
  DEF RegistrarNext, Registration, Update

----------------------------------------------------------------------------
KeyFacts == KeyInv /\ LeaseInv /\ StoreInv /\ OwnerKeepsKey

(* A step that leaves etcd alone, forgets leases, or takes one over from    *)
(* the registrar into an update.                                            *)
LEMMA QuietStep ==
    ASSUME RegistrarInv, UNCHANGED <<kv, alive, fresh>>,
           \A i \in Registrars : lease'[i] \in {lease[i], Nil},
           \A u \in Updaters : ulease'[u] \in {ulease[u], lease[Updates[u]]},
           \A i \in Registrars : loop'[i] = "store" => loop[i] = "store"
    PROVE  KeyFacts'
<1> USE DEF RegistrarInv
<1>1. KeyInv'
  BY DEF KeyInv, Absent
<1>2. LeaseInv'
  <2>1. \A l \in alive' : l[2] <= fresh'[l[1]]
    BY DEF LeaseInv
  <2>2. \A i \in Registrars : lease'[i] # Nil => lease'[i][1] = i /\ lease'[i][2] <= fresh'[i]
    BY DEF LeaseInv
  <2>3. \A u \in Updaters : Updates[u] \in Registrars
    BY RegistrarParameters DEF RegistrarParameters
  <2>4. \A u \in Updaters : ulease'[u] # Nil =>
            ulease'[u][1] = Updates[u] /\ ulease'[u][2] <= fresh'[Updates[u]]
    BY <2>3 DEF LeaseInv
  <2> QED
    BY <2>1, <2>2, <2>4 DEF LeaseInv
<1>3. StoreInv'
  BY DEF StoreInv, HasLease, Absent, Fresh
<1>4. OwnerKeepsKey'
  <2>1. Nil \notin alive
    BY RegistrarParameters DEF RegistrarTypeOK, RegistrarParameters, Leases
  <2> QED
    BY <2>1 DEF OwnerKeepsKey, HasLease, Absent
<1> QED
  BY <1>1, <1>2, <1>3, <1>4 DEF KeyFacts

(* A lease that ends takes its own key and no other.                        *)
LEMMA EndStep ==
    ASSUME RegistrarInv, NEW l, EndLease(l), UNCHANGED <<fresh, loop, ulease>>,
           \A i \in Registrars : lease'[i] \in {lease[i], Nil}
    PROVE  KeyFacts'
<1> USE DEF RegistrarInv
<1>1. /\ alive' = alive \ {l}
      /\ \A k \in Keys : HasLease(k, l) => kv'[k] = Nil
      /\ \A k \in Keys : ~HasLease(k, l) => kv'[k] = kv[k]
  BY EndLeaseEffect
<1>2. KeyInv'
  BY <1>1 DEF KeyInv, Absent, HasLease
<1>3. LeaseInv'
  BY <1>1 DEF LeaseInv
<1>4. \A i \in Registrars : KeyOf[i] \in Keys
  BY RegistrarParameters DEF RegistrarParameters
<1>5. StoreInv'
  BY <1>1, <1>4 DEF StoreInv, HasLease, Absent, Fresh
<1>6. OwnerKeepsKey'
  <2>1. Nil \notin alive
    BY RegistrarParameters DEF RegistrarTypeOK, RegistrarParameters, Leases
  <2> QED
    BY <1>1, <1>4, <2>1 DEF OwnerKeepsKey, HasLease, Absent
<1> QED
  BY <1>2, <1>3, <1>5, <1>6 DEF KeyFacts

(* A put finds the key absent or held by the lease it is made with.         *)
LEMMA PutStep ==
    ASSUME RegistrarInv, NEW i \in Registrars, NEW l \in alive, l[1] = i,
           NEW v \in Nat, Put(KeyOf[i], v, l),
           Absent(KeyOf[i]) \/ HasLease(KeyOf[i], l),
           UNCHANGED <<fresh, lease, ulease>>,
           \A j \in Registrars : loop'[j] = "store" =>
               loop[j] = "store" \/ (j = i /\ l = Fresh(i))
    PROVE  KeyFacts'
<1> USE DEF RegistrarInv
<1>1. KeyOf[i] \in Keys /\ l \in Leases /\ \A j \in Registrars : KeyOf[j] \in Keys
  BY RegistrarParameters DEF RegistrarParameters, RegistrarTypeOK
<1>2. /\ alive' = alive
      /\ HasLease(KeyOf[i], l)' /\ kv'[KeyOf[i]].lease = l
      /\ \A k \in Keys \ {KeyOf[i]} : kv'[k] = kv[k]
  BY <1>1, PutEffect
<1>3. KeyInv'
  BY <1>1, <1>2 DEF KeyInv, Absent
<1>4. LeaseInv'
  BY <1>2 DEF LeaseInv
<1>5. \A j \in Registrars : \A m : HasLease(KeyOf[j], m) => HasLease(KeyOf[j], m)'
  <2> TAKE j \in Registrars
  <2>1. CASE KeyOf[j] = KeyOf[i]
    BY <1>2, <2>1 DEF HasLease, Absent
  <2>2. CASE KeyOf[j] # KeyOf[i]
    BY <1>1, <1>2, <2>2 DEF HasLease, Absent
  <2> QED
    BY <2>1, <2>2
<1>6. StoreInv'
  <2> SUFFICES ASSUME NEW j \in Registrars, loop'[j] = "store", Fresh(j) \in alive
               PROVE  HasLease(KeyOf[j], Fresh(j))'
    BY <1>2 DEF StoreInv, Fresh
  <2>1. CASE loop[j] = "store"
    <3>1. HasLease(KeyOf[j], Fresh(j))
      BY <2>1 DEF StoreInv
    <3> QED
      BY <1>5, <3>1 DEF Fresh, HasLease, Absent
  <2>2. CASE j = i /\ l = Fresh(i)
    BY <1>2, <2>2 DEF Fresh, HasLease, Absent
  <2> QED
    BY <2>1, <2>2
<1>7. OwnerKeepsKey'
  BY <1>2, <1>5 DEF OwnerKeepsKey, HasLease, Absent
<1> QED
  BY <1>3, <1>4, <1>6, <1>7 DEF KeyFacts

(* Every step keeps the keys with their owners. *)
LEMMA RegistrarInvStep ==
    ASSUME RegistrarInv, [RegistrarNext]_registrarVars
    PROVE  RegistrarInv'
<1>1. RegistrarTypeOK'
  BY TypesStep DEF RegistrarInv
<1>0. /\ \A u \in Updaters : Updates[u] \in Registrars
      /\ \A i \in Registrars : KeyOf[i] \in Keys
  BY RegistrarParameters DEF RegistrarParameters
<1> USE DEF RegistrarInv
<1>2. CASE \E i \in Registrars : Start(i) \/ Lock(i) \/ LockFails(i) \/ RegisterFails(i)
                                   \/ LoopTop(i) \/ KeepAliveLost(i)
  <2> PICK i \in Registrars : Start(i) \/ Lock(i) \/ LockFails(i) \/ RegisterFails(i)
                               \/ LoopTop(i) \/ KeepAliveLost(i)
    BY <1>2
  <2>1. UNCHANGED <<kv, alive, fresh, ulease>>
    BY DEF Start, Lock, LockFails, RegisterFails, Give, LoopTop, KeepAliveLost,
       etcdVars, updateVars
  <2>2. \A j \in Registrars : lease'[j] \in {lease[j], Nil}
    BY DEF Start, Lock, LockFails, RegisterFails, Give, LoopTop, KeepAliveLost,
       ClearLease, RegistrarTypeOK
  <2>3. \A j \in Registrars : loop'[j] = "store" => loop[j] = "store"
    BY DEF Start, Lock, LockFails, RegisterFails, Give, LoopTop, KeepAliveLost,
       RegistrarTypeOK
  <2> QED
    BY <1>1, <2>1, <2>2, <2>3, QuietStep DEF KeyFacts
<1>3. CASE \E u \in Updaters : UpdateSelf(u) \/ UpdateInstanceData(u) \/ LoadLease(u)
                                  \/ GetKey(u) \/ Marshal(u) \/ UpdateFails(u)
  <2> PICK u \in Updaters : UpdateSelf(u) \/ UpdateInstanceData(u) \/ LoadLease(u)
                              \/ GetKey(u) \/ Marshal(u) \/ UpdateFails(u)
    BY <1>3
  <2>1. UNCHANGED <<kv, alive, fresh, lease, loop>>
    BY DEF UpdateSelf, UpdateInstanceData, LoadLease, GetKey, Marshal, UpdateFails,
       etcdVars, loopVars
  <2>2. \A x \in Updaters : ulease'[x] \in {ulease[x], lease[Updates[x]]}
    BY LeaseChangedTypes DEF UpdateSelf, UpdateInstanceData, LoadLease, GetKey, Marshal,
       UpdateFails, RegistrarTypeOK
  <2> QED
    BY <1>1, <2>1, <2>2, QuietStep DEF KeyFacts
<1>4. CASE \E u \in Updaters : PutValue(u)
  <2> PICK u \in Updaters : PutValue(u)
    BY <1>4
  <2>1. UNCHANGED <<fresh, lease, loop>>
    BY DEF PutValue, loopVars
  <2>2. CASE Puts(u)
    <3>1. /\ Put(KeyOf[Updates[u]], copy[u], ulease[u]) /\ UNCHANGED ulease
          /\ ulease[u] \in alive
          /\ Absent(KeyOf[Updates[u]]) \/ HasLease(KeyOf[Updates[u]], ulease[u])
      BY <2>2 DEF PutValue, Puts, Target
    <3>2. ulease[u][1] = Updates[u] /\ copy[u] \in Nat
      BY <3>1, RegistrarParameters
      DEF LeaseInv, RegistrarTypeOK, RegistrarParameters, Leases
    <3> QED
      BY <1>0, <1>1, <2>1, <3>1, <3>2, PutStep DEF KeyFacts
  <2>3. CASE ~Puts(u)
    <3>1. UNCHANGED <<kv, alive>> /\ LeaseChanged(u)
      BY <2>3 DEF PutValue, etcdVars
    <3>2. \A x \in Updaters : ulease'[x] \in {ulease[x], lease[Updates[x]]}
      BY <3>1, LeaseChangedTypes
    <3> QED
      BY <1>1, <2>1, <3>1, <3>2, QuietStep DEF KeyFacts
  <2> QED
    BY <1>1, <2>2, <2>3
<1>5. CASE \E i \in Registrars : PutIfAbsent(i) \/ PutUnnoticed(i)
  <2> PICK i \in Registrars : PutIfAbsent(i) \/ PutUnnoticed(i)
    BY <1>5
  <2>1. /\ Put(KeyOf[i], val[i], Fresh(i)) /\ Fresh(i) \in alive /\ Absent(KeyOf[i])
        /\ UNCHANGED <<fresh, lease, ulease>>
    BY DEF PutIfAbsent, PutUnnoticed, MayPut, Give, updateVars
  <2>2. Fresh(i)[1] = i /\ val[i] \in Nat
    BY FreshIsLease DEF RegistrarTypeOK
  <2>3. \A j \in Registrars : loop'[j] = "store" => loop[j] = "store" \/ j = i
    BY DEF PutIfAbsent, PutUnnoticed, Give, RegistrarTypeOK
  <2> QED
    BY <1>1, <2>1, <2>2, <2>3, PutStep DEF KeyFacts
<1>6. CASE \E i \in Registrars : Close(i)
  <2> PICK i \in Registrars : Close(i)
    BY <1>6
  <2>1. /\ UNCHANGED <<fresh, loop, ulease>>
        /\ \A j \in Registrars : lease'[j] \in {lease[j], Nil}
        /\ EndLease(lease[i]) \/ UNCHANGED <<kv, alive>>
    BY DEF Close, loopVars, updateVars, etcdVars, RegistrarTypeOK
  <2> QED
    BY <1>1, <2>1, EndStep, QuietStep DEF KeyFacts
<1>7. CASE \E l \in alive : LeaseExpires(l)
  <2> PICK l \in alive : LeaseExpires(l)
    BY <1>7
  <2> QED
    BY <1>1, EndStep DEF LeaseExpires, loopVars, updateVars, KeyFacts
<1>8. CASE \E k \in Keys : LockExpires(k)
  BY <1>1, <1>8, QuietStep DEF LockExpires, etcdVars, updateVars, KeyFacts
<1>9. CASE \E i \in Registrars : StoreLease(i)
  <2> PICK i \in Registrars : StoreLease(i)
    BY <1>9
  <2>1. /\ UNCHANGED <<kv, alive, fresh, ulease>>
        /\ lease'[i] = Fresh(i) /\ \A j \in Registrars \ {i} : lease'[j] = lease[j]
        /\ \A j \in Registrars : loop'[j] = "store" => loop[j] = "store"
        /\ loop[i] = "store"
    BY DEF StoreLease, etcdVars, updateVars, RegistrarTypeOK
  <2>2. KeyInv' /\ StoreInv'
    BY <2>1 DEF KeyInv, Absent, StoreInv, HasLease, Fresh
  <2>3. LeaseInv'
    <3>1. Fresh(i)[1] = i /\ Fresh(i)[2] <= fresh[i]
      BY FreshIsLease DEF RegistrarTypeOK
    <3> QED
      BY <2>1, <3>1 DEF LeaseInv
  <2>4. OwnerKeepsKey'
    <3> SUFFICES ASSUME NEW j \in Registrars, lease'[j] \in alive'
                 PROVE  HasLease(KeyOf[j], lease[j])'
      BY DEF OwnerKeepsKey
    <3>1. HasLease(KeyOf[j], lease'[j])
      BY <2>1 DEF StoreInv, OwnerKeepsKey
    <3> QED
      BY <2>1, <3>1 DEF HasLease, Absent
  <2> QED
    BY <1>1, <2>2, <2>3, <2>4
<1>10. CASE \E i \in Registrars : Grant(i)
  <2> PICK i \in Registrars : Grant(i)
    BY <1>10
  <2> DEFINE l == <<i, fresh[i] + 1>>
  <2>1. /\ UNCHANGED <<kv, lease, ulease>>
        /\ alive' = alive \cup {l}
        /\ fresh'[i] = fresh[i] + 1 /\ \A j \in Registrars \ {i} : fresh'[j] = fresh[j]
        /\ loop'[i] # "store" /\ \A j \in Registrars \ {i} : loop'[j] = loop[j]
    BY DEF Grant, updateVars, RegistrarTypeOK
  <2>2. \A j \in Registrars : lease[j] # l
    <3> SUFFICES ASSUME NEW j \in Registrars, lease[j] = l PROVE FALSE
      OBVIOUS
    <3>1. lease[j] # Nil
      BY RegistrarParameters DEF RegistrarParameters, RegistrarTypeOK
    <3>2. j = i /\ l[2] <= fresh[i]
      BY <3>1 DEF LeaseInv
    <3> QED
      BY <3>2 DEF RegistrarTypeOK
  <2>3. KeyInv'
    BY <2>1 DEF KeyInv, Absent
  <2>4. LeaseInv'
    <3>1. \A m \in alive' : m[2] <= fresh'[m[1]]
      <4> SUFFICES ASSUME NEW m \in alive' PROVE m[2] <= fresh'[m[1]]
        OBVIOUS
      <4>1. CASE m = l
        BY <2>1, <4>1 DEF RegistrarTypeOK
      <4>2. CASE m \in alive
        <5>1. m[1] \in Registrars /\ m[2] \in Nat /\ m[2] <= fresh[m[1]]
          BY <4>2, LeaseParts DEF LeaseInv, RegistrarTypeOK
        <5>2. fresh[m[1]] \in Nat /\ fresh[m[1]] <= fresh'[m[1]]
          BY <2>1, <5>1 DEF RegistrarTypeOK
        <5>3. fresh'[m[1]] \in Nat
          BY <1>1, <5>1 DEF RegistrarTypeOK
        <5> QED
          BY <5>1, <5>2, <5>3
      <4> QED
        BY <2>1, <4>1, <4>2
    <3>2. \A j \in Registrars : fresh[j] \in Nat /\ fresh'[j] \in Nat /\ fresh[j] <= fresh'[j]
      BY <1>1, <2>1 DEF RegistrarTypeOK
    <3>3. \A j \in Registrars : lease[j] # Nil => lease[j][1] = j /\ lease[j][2] <= fresh'[j]
      BY <3>2, LeaseParts DEF LeaseInv, RegistrarTypeOK
    <3>4. \A u \in Updaters : ulease[u] # Nil =>
              ulease[u][1] = Updates[u] /\ ulease[u][2] <= fresh'[Updates[u]]
      BY <1>0, <3>2, LeaseParts DEF LeaseInv, RegistrarTypeOK
    <3> QED
      BY <2>1, <3>1, <3>3, <3>4 DEF LeaseInv
  <2>5. StoreInv'
    <3> SUFFICES ASSUME NEW j \in Registrars, loop'[j] = "store", Fresh(j)' \in alive'
                 PROVE  HasLease(KeyOf[j], Fresh(j))'
      BY DEF StoreInv
    <3>1. j # i /\ Fresh(j)' = Fresh(j) /\ Fresh(j) # l
      BY <2>1 DEF Fresh
    <3> QED
      BY <2>1, <3>1 DEF StoreInv, HasLease, Absent
  <2>6. OwnerKeepsKey'
    BY <2>1, <2>2 DEF OwnerKeepsKey, HasLease, Absent
  <2> QED
    BY <1>1, <2>3, <2>4, <2>5, <2>6
<1>11. CASE UNCHANGED registrarVars
  BY <1>1, <1>11, QuietStep DEF registrarVars, etcdVars, loopVars, updateVars, KeyFacts
<1> QED
  BY <1>1, <1>2, <1>3, <1>4, <1>5, <1>6, <1>7, <1>8, <1>9, <1>10, <1>11
  DEF RegistrarNext, Registration, Update, KeyFacts

LEMMA RegistrarInvariant == RegistrarSpec => []RegistrarInv
<1>1. RegistrarInit => RegistrarInv
  BY RegistrarInvInit
<1>2. RegistrarInv /\ [RegistrarNext]_registrarVars => RegistrarInv'
  BY RegistrarInvStep
<1> QED
  BY <1>1, <1>2, PTL DEF RegistrarSpec

(* Types: in particular an update that has come to etcd carries a lease     *)
(* (updateValueToEtcd returns without one), so every key it writes has a    *)
(* lease and goes away with it.                                             *)
THEOREM RegistrarTypeCorrect == RegistrarSpec => []RegistrarTypeOK
<1>1. RegistrarInv => RegistrarTypeOK
  BY DEF RegistrarInv
<1> QED
  BY <1>1, RegistrarInvariant, PTL

(* For any number of instances that share keys, updates and faults: an      *)
(* instance whose lease is alive owns its key, although the registration    *)
(* lock may be lost at any moment (putServiceIfAbsent,                      *)
(* putServiceWithSameLease, putMissingService).                             *)
THEOREM OwnersKeepTheirKeys == RegistrarSpec => []OwnerKeepsKey
<1>1. RegistrarInv => OwnerKeepsKey
  BY DEF RegistrarInv
<1> QED
  BY <1>1, RegistrarInvariant, PTL

===============================================================================
