------------------------- MODULE BattleServiceProofs -------------------------
(***************************************************************************)
(* Proofs about BattleDeltas and BattleService, for every configuration.   *)
(*                                                                         *)
(* The room and one receiver: MirrorComplete is inductive once it is known *)
(* that only allocated tower ids are ever reported as merged; a fresh id   *)
(* must not be hidden by a merge that is still pending.                    *)
(*                                                                         *)
(* The service: views and batches are compared thing by thing (Key).       *)
(* ServiceInv says what a joined client may still lack: what is pending,   *)
(* and what a batch under way to it brings.  EndInv says how far the       *)
(* settlement is; it makes the service a refinement of BattleSettlement.   *)
(***************************************************************************)
EXTENDS BattleDeltas, BattleService, BattleRoomProofs

(* Reported merges name towers that once existed. *)
MergedAllocated == deltas.merged \subseteq 1 .. nextTowerID - 1

DeltaInv == TypeOK /\ MergedAllocated /\ MirrorComplete

(* The towers a receiver has after applying the batch. *)
TowersOf(v, d) ==
    [t \in (DOMAIN d.towers \union DOMAIN v.towers) \ d.merged |->
        Overlay(d.towers, v.towers)[t]]

(* MirrorComplete, one conjunct for each kind of entity. *)
PlayersMirrored  == players = Overlay(deltas.players, mirror.players)
MinersMirrored   == {<<m, miners[m].owner>> : m \in DOMAIN miners}
                        = mirror.miners \union deltas.miners
TowersMirrored   == towers = TowersOf(mirror, deltas)
MonstersMirrored == monsters = Overlay(deltas.monsters, mirror.monsters)
Mirrored == PlayersMirrored /\ MinersMirrored /\ TowersMirrored /\ MonstersMirrored

(* Views are equal exactly when their four parts are. *)
LEMMA MirrorParts == (MirrorComplete <=> Mirrored) /\ (MirrorComplete' <=> Mirrored')
<1>1. \A d, m : DOMAIN Overlay(d, m) = DOMAIN d \union DOMAIN m
  BY DEF Overlay
<1>2. QED
  BY <1>1
     DEF MirrorComplete, Mirrored, PlayersMirrored, MinersMirrored, TowersMirrored,
         MonstersMirrored, ApplyDeltas, SnapshotView, TowersOf

(* Appending a delta to a batch is writing its value to the view. *)
LEMMA OverlayPut ==
    ASSUME NEW d, NEW m, NEW k, NEW v
    PROVE  Overlay(Put(d, k, v), m) = Put(Overlay(d, m), k, v)
BY DEF Overlay, Put

(* Writing to a key that is there is Go's assignment to it. *)
LEMMA PutExcept ==
    ASSUME NEW S, NEW T, NEW f \in [S -> T], NEW k \in S, NEW v
    PROVE  Put(f, k, v) = [f EXCEPT ![k] = v]
BY DEF Put

(* The player's new resources are in the batch. *)
LEMMA SpendMirrored ==
    ASSUME TypeOK, PlayersMirrored, NEW p \in Players, NEW gold, NEW mana,
           Spend(p, gold, mana), deltas'.players = ResourceDelta(p), UNCHANGED mirror
    PROVE  PlayersMirrored'
<1>1. players \in [Players -> Resources]
  BY DEF TypeOK
<1>2. players' = [players EXCEPT ![p] = players'[p]]
  BY <1>1 DEF Spend
<1>3. players' = Put(players, p, players'[p])
  BY <1>1, <1>2, PutExcept
<1>4. players' = Overlay(Put(deltas.players, p, players'[p]), mirror.players)
  BY <1>3, OverlayPut DEF PlayersMirrored
<1>5. QED
  BY <1>4 DEF PlayersMirrored, ResourceDelta

(* A tower written to the room and to the batch, while its id is not among *)
(* the merged ones. *)
LEMMA TowerMirrored ==
    ASSUME TowersMirrored, NEW t, NEW tower, t \notin deltas.merged,
           towers' = Put(towers, t, tower),
           deltas'.towers = Put(deltas.towers, t, tower),
           deltas'.merged = deltas.merged, UNCHANGED mirror
    PROVE  TowersMirrored'
BY DEF TowersMirrored, TowersOf, Overlay, Put

(* Every operation appends a delta for everything it changes. *)
LEMMA DeltaInvStep ==
    ASSUME DeltaInv, [DeltaNext]_deltaSpecVars
    PROVE  DeltaInv'
<1> USE DEF DeltaInv
<1>1. [Next]_roomVars
  BY DEF DeltaNext, Flush, RoomStep, Next, deltaSpecVars
<1>2. TypeOK'
  BY <1>1, TypeOKStep
<1>3. Mirrored
  BY MirrorParts
<1>4. SUFFICES MergedAllocated' /\ Mirrored'
  BY <1>2, MirrorParts
<1>5. ASSUME NEW p \in Players, NEW g \in GridIDs, BuildTower(p, g), UNCHANGED mirror
      PROVE  MergedAllocated' /\ Mirrored'
  <2> DEFINE tower == Tower(p, NextTowerType(p), 1, g)
  <2>1. /\ deltas'.players = ResourceDelta(p) /\ deltas'.miners = deltas.miners
        /\ deltas'.towers = Put(deltas.towers, nextTowerID, tower)
        /\ deltas'.merged = deltas.merged /\ deltas'.monsters = deltas.monsters
    BY <1>5 DEF BuildTower, Emit
  <2>2. nextTowerID \in Nat /\ nextTowerID' = nextTowerID + 1
    BY <1>5 DEF BuildTower, TypeOK
  <2>3. MergedAllocated' /\ nextTowerID \notin deltas.merged
    BY <2>1, <2>2 DEF MergedAllocated
  <2>4. PlayersMirrored'
    BY <1>3, <1>5, <2>1, SpendMirrored DEF Mirrored, BuildTower
  <2>5. towers' = Put(towers, nextTowerID, tower)
    BY <1>5 DEF BuildTower
  <2>6. TowersMirrored'
    BY <1>3, <1>5, <2>1, <2>3, <2>5, TowerMirrored DEF Mirrored
  <2>7. MinersMirrored' /\ MonstersMirrored'
    BY <1>3, <1>5, <2>1
       DEF Mirrored, MinersMirrored, MonstersMirrored, BuildTower, minerVars, monsterVars
  <2>8. QED
    BY <2>3, <2>4, <2>6, <2>7 DEF Mirrored
<1>6. ASSUME NEW p \in Players, NEW t \in DOMAIN towers, RerollTower(p, t), UNCHANGED mirror
      PROVE  MergedAllocated' /\ Mirrored'
  <2> DEFINE tower == Tower(p, NextTowerType(p), towers[t].level, towers[t].grid)
  <2>1. /\ deltas'.players = ResourceDelta(p) /\ deltas'.miners = deltas.miners
        /\ deltas'.towers = Put(deltas.towers, t, tower)
        /\ deltas'.merged = deltas.merged /\ deltas'.monsters = deltas.monsters
    BY <1>6 DEF RerollTower, Emit
  <2>2. MergedAllocated'
    BY <1>6, <2>1 DEF MergedAllocated, RerollTower
  <2>3. PlayersMirrored'
    BY <1>3, <1>6, <2>1, SpendMirrored DEF Mirrored, RerollTower
  <2>4. towers' = Put(towers, t, tower)
    <3>1. towers' = [towers EXCEPT ![t] = tower]
      BY <1>6 DEF RerollTower
    <3>2. towers = [u \in DOMAIN towers |-> towers[u]]
      BY <1>3 DEF Mirrored, TowersMirrored, TowersOf
    <3>3. QED
      BY ONLY <3>1, <3>2, t \in DOMAIN towers DEF Put
  <2>5. t \notin deltas.merged
    BY <1>3, <1>6 DEF Mirrored, TowersMirrored, TowersOf
  <2>6. TowersMirrored'
    BY <1>3, <1>6, <2>1, <2>4, <2>5, TowerMirrored DEF Mirrored
  <2>7. MinersMirrored' /\ MonstersMirrored'
    BY <1>3, <1>6, <2>1
       DEF Mirrored, MinersMirrored, MonstersMirrored, RerollTower, minerVars, monsterVars
  <2>8. QED
    BY <2>2, <2>3, <2>6, <2>7 DEF Mirrored
<1>7. ASSUME NEW p \in Players, NEW main \in DOMAIN towers, NEW material \in DOMAIN towers,
             MergeTower(p, main, material), UNCHANGED mirror
      PROVE  MergedAllocated' /\ Mirrored'
  <2> DEFINE tower == Tower(p, NextTowerType(p), towers[main].level + 1, towers[main].grid)
  <2>1. /\ deltas'.players = deltas.players /\ deltas'.miners = deltas.miners
        /\ deltas'.towers = Put(deltas.towers, main, tower)
        /\ deltas'.merged = deltas.merged \union {material}
        /\ deltas'.monsters = deltas.monsters
    BY <1>7 DEF MergeTower, Emit
  <2>2. MergedAllocated'
    BY <1>7, <2>1 DEF MergedAllocated, MergeTower, TypeOK
  <2>3. /\ towers' = [u \in DOMAIN towers \ {material} |->
                         IF u = main THEN tower ELSE towers[u]]
        /\ main # material
    BY <1>7 DEF MergeTower, Mergeable
  <2>4. TowersMirrored'
    <3>1. mirror' = mirror /\ TowersMirrored
      BY <1>3, <1>7 DEF Mirrored
    <3>2. main \in DOMAIN deltas.towers \union DOMAIN mirror.towers
      BY <3>1 DEF TowersMirrored, TowersOf
    <3>3. /\ DOMAIN Put(deltas.towers, main, tower) = DOMAIN deltas.towers \union {main}
          /\ \A u \in DOMAIN Put(deltas.towers, main, tower) :
                 Put(deltas.towers, main, tower)[u]
                     = IF u = main THEN tower ELSE deltas.towers[u]
      BY DEF Put
    <3>4. DOMAIN towers' = DOMAIN TowersOf(mirror', deltas')
      <4>1. DOMAIN towers' = DOMAIN towers \ {material}
        BY ONLY <2>3
      <4>2. DOMAIN towers
                = (DOMAIN deltas.towers \union DOMAIN mirror.towers) \ deltas.merged
        BY ONLY <3>1 DEF TowersMirrored, TowersOf, Overlay
      <4>3. DOMAIN TowersOf(mirror', deltas')
                = (DOMAIN deltas'.towers \union DOMAIN mirror'.towers) \ deltas'.merged
        BY DEF TowersOf, Overlay
      <4>4. DOMAIN deltas'.towers = DOMAIN deltas.towers \union {main}
        BY ONLY <2>1, <3>3
      <4>5. QED
        BY ONLY <2>1, <3>1, <3>2, <4>1, <4>2, <4>3, <4>4
    <3>5. ASSUME NEW u \in DOMAIN towers'
          PROVE  towers'[u] = TowersOf(mirror', deltas')[u]
      <4>1. u \in DOMAIN towers \ {material}
        BY <2>3
      <4>2. CASE u = main
        <5>1. Overlay(deltas'.towers, mirror'.towers)[u] = tower
          BY ONLY <2>1, <3>3, <4>2 DEF Overlay
        <5>2. QED
          BY ONLY <2>3, <3>4, <4>1, <4>2, <5>1, u \in DOMAIN towers' DEF TowersOf
      <4>3. CASE u # main
        <5>1. Overlay(deltas'.towers, mirror'.towers)[u]
                  = Overlay(deltas.towers, mirror.towers)[u]
          <6>1. u \in DOMAIN deltas.towers \union DOMAIN mirror.towers
            BY ONLY <3>1, <4>1 DEF TowersMirrored, TowersOf
          <6>2. QED
            BY ONLY <2>1, <3>1, <3>3, <4>3, <6>1 DEF Overlay
        <5>2. towers[u] = Overlay(deltas.towers, mirror.towers)[u]
          BY ONLY <3>1, <4>1 DEF TowersMirrored, TowersOf
        <5>3. QED
          BY ONLY <2>3, <3>4, <4>1, <4>3, <5>1, <5>2, u \in DOMAIN towers' DEF TowersOf
      <4>4. QED
        BY <4>2, <4>3
    <3>6. QED
      BY ONLY <2>3, <3>4, <3>5 DEF TowersMirrored, TowersOf
  <2>5. PlayersMirrored' /\ MinersMirrored' /\ MonstersMirrored'
    BY <1>3, <1>7, <2>1
       DEF Mirrored, PlayersMirrored, MinersMirrored, MonstersMirrored, MergeTower,
           minerVars, monsterVars
  <2>6. QED
    BY <2>2, <2>4, <2>5 DEF Mirrored
<1>8. ASSUME NEW p \in Players, BuyMiner(p), UNCHANGED mirror
      PROVE  MergedAllocated' /\ Mirrored'
  <2>1. /\ deltas'.players = ResourceDelta(p)
        /\ deltas'.miners = deltas.miners \union {<<nextMinerID, p>>}
        /\ deltas'.towers = deltas.towers /\ deltas'.merged = deltas.merged
        /\ deltas'.monsters = deltas.monsters
    BY <1>8 DEF BuyMiner, Emit
  <2>2. PlayersMirrored'
    BY <1>3, <1>8, <2>1, SpendMirrored DEF Mirrored, BuyMiner
  <2>3. miners' = Put(miners, nextMinerID, [owner |-> p, next |-> serverTick + Interval])
    BY <1>8 DEF BuyMiner
  <2>4. nextMinerID \notin DOMAIN miners
    <3>1. DOMAIN miners = 1 .. nextMinerID - 1 /\ nextMinerID \in Nat
      BY DEF TypeOK
    <3>2. QED
      BY ONLY <3>1
  <2>5. {<<m, miners'[m].owner>> : m \in DOMAIN miners'}
            = {<<m, miners[m].owner>> : m \in DOMAIN miners} \union {<<nextMinerID, p>>}
    BY ONLY <2>3, <2>4 DEF Put
  <2>6. MinersMirrored'
    BY <1>3, <1>8, <2>1, <2>5 DEF Mirrored, MinersMirrored
  <2>7. MergedAllocated' /\ TowersMirrored' /\ MonstersMirrored'
    BY <1>3, <1>8, <2>1
       DEF MergedAllocated, Mirrored, TowersMirrored, TowersOf, MonstersMirrored, BuyMiner,
           towerVars, monsterVars
  <2>8. QED
    BY <2>2, <2>6, <2>7 DEF Mirrored
<1>9. ASSUME AdvanceTick, UNCHANGED mirror
      PROVE  MergedAllocated' /\ Mirrored'
  <2> DEFINE now    == serverTick + 1
             paid   == {p \in Players : ProducedMana(p, now) > 0}
             moving == {x \in DOMAIN MonstersAfter(now) : Present(x).status = "ALIVE"}
  <2>1. /\ deltas'.players = Overlay([p \in paid |-> players'[p]], deltas.players)
        /\ deltas'.miners = deltas.miners /\ deltas'.towers = deltas.towers
        /\ deltas'.merged = deltas.merged
        /\ deltas'.monsters = Overlay([x \in moving |-> MonstersAfter(now)[x]], deltas.monsters)
    BY <1>9 DEF AdvanceTick, EmitTick
  <2>2. PlayersMirrored'
    <3>1. players' = [p \in Players |-> [gold |-> players[p].gold,
                                        mana |-> players[p].mana + ProducedMana(p, now)]]
      BY <1>9 DEF AdvanceTick, Produce
    <3>2. players \in [Players -> Resources] /\ now \in Nat
      BY DEF TypeOK
    <3>3. \A p \in Players : ProducedMana(p, now) \in Nat
      BY <3>2, ProducedManaType
    <3>4. \A p \in Players \ paid : players'[p] = players[p]
      BY ONLY <3>1, <3>2, <3>3 DEF Resources
    <3>5. players = Overlay(deltas.players, mirror.players)
      BY <1>3 DEF Mirrored, PlayersMirrored
    <3>6. players' = Overlay(Overlay([p \in paid |-> players'[p]], deltas.players),
                             mirror.players)
      BY ONLY <3>1, <3>2, <3>4, <3>5 DEF Overlay
    <3>7. QED
      BY <1>9, <2>1, <3>6 DEF PlayersMirrored
  <2>3. MonstersMirrored'
    <3>1. monsters' = MonstersAfter(now)
      BY <1>9 DEF AdvanceTick
    <3>2. /\ DOMAIN MonstersAfter(now) = DOMAIN monsters \union Spawning(now)
          /\ MonstersAfter(now) = [x \in DOMAIN MonstersAfter(now) |-> MonstersAfter(now)[x]]
      BY DEF MonstersAfter
    <3>3. \A x \in DOMAIN MonstersAfter(now) \ moving :
              x \in DOMAIN monsters /\ MonstersAfter(now)[x] = monsters[x]
      BY DEF MonstersAfter, Present, Newborn, Walk
    <3>4. monsters = Overlay(deltas.monsters, mirror.monsters)
      BY <1>3 DEF Mirrored, MonstersMirrored
    <3>5. MonstersAfter(now)
              = Overlay(Overlay([x \in moving |-> MonstersAfter(now)[x]], deltas.monsters),
                        mirror.monsters)
      BY ONLY <3>2, <3>3, <3>4 DEF Overlay
    <3>6. QED
      BY <1>9, <2>1, <3>1, <3>5 DEF MonstersMirrored
  <2>4. MinersMirrored'
    <3>1. /\ DOMAIN miners' = DOMAIN miners
          /\ \A m \in DOMAIN miners : miners'[m].owner = miners[m].owner
      BY <1>9 DEF AdvanceTick, Produce
    <3>2. QED
      BY <1>3, <1>9, <2>1, <3>1 DEF Mirrored, MinersMirrored
  <2>5. MergedAllocated' /\ TowersMirrored'
    BY <1>3, <1>9, <2>1
       DEF MergedAllocated, Mirrored, TowersMirrored, TowersOf, AdvanceTick, towerVars
  <2>6. QED
    BY <2>2, <2>3, <2>4, <2>5 DEF Mirrored
<1>10. ASSUME Start \/ Abort \/ MarkSettled \/ UNCHANGED roomVars, UNCHANGED mirror
       PROVE  MergedAllocated' /\ Mirrored'
  <2>1. UNCHANGED <<deltas, players, miners, towers, monsters, nextTowerID>>
    BY <1>10 DEF Start, Abort, MarkSettled, roomVars, towerVars, minerVars, monsterVars
  <2>2. QED
    BY <1>3, <1>10, <2>1
       DEF Mirrored, MergedAllocated, PlayersMirrored, MinersMirrored, TowersMirrored,
           TowersOf, MonstersMirrored
<1>11. ASSUME Flush
       PROVE  MergedAllocated' /\ Mirrored'
  <2>1. UNCHANGED <<players, miners, towers, monsters, nextTowerID>> /\ deltas' = NoDeltas
    BY <1>11 DEF Flush, FlushDeltas, towerVars, minerVars, monsterVars
  <2>2. mirror' = SnapshotView
    BY <1>11 DEF Flush, MirrorComplete
  <2>3. /\ mirror'.players = players /\ mirror'.towers = towers /\ mirror'.monsters = monsters
        /\ mirror'.miners = {<<m, miners[m].owner>> : m \in DOMAIN miners}
    BY <2>2 DEF SnapshotView
  <2>4. /\ players = [p \in DOMAIN players |-> players[p]]
        /\ towers = [t \in DOMAIN towers |-> towers[t]]
        /\ monsters = [x \in DOMAIN monsters |-> monsters[x]]
    BY <1>3 DEF Mirrored, PlayersMirrored, TowersMirrored, MonstersMirrored, TowersOf, Overlay
  <2>5. /\ deltas'.players = EmptyFcn /\ deltas'.towers = EmptyFcn
        /\ deltas'.monsters = EmptyFcn /\ deltas'.merged = {} /\ deltas'.miners = {}
        /\ DOMAIN EmptyFcn = {}
    BY <2>1 DEF NoDeltas, EmptyFcn
  <2>6. \A f : f = [x \in DOMAIN f |-> f[x]] => Overlay(EmptyFcn, f) = f
    BY DEF Overlay, EmptyFcn
  <2>7. PlayersMirrored' /\ MonstersMirrored' /\ MinersMirrored'
    BY <2>1, <2>3, <2>4, <2>5, <2>6 DEF PlayersMirrored, MonstersMirrored, MinersMirrored
  <2>8. TowersMirrored'
    BY <2>1, <2>3, <2>4, <2>5, <2>6 DEF TowersMirrored, TowersOf
  <2>9. QED
    BY <2>5, <2>7, <2>8 DEF MergedAllocated, Mirrored
<1>12. CASE UNCHANGED deltaSpecVars
  BY <1>10, <1>12 DEF deltaSpecVars
<1>13. CASE RoomStep
  BY <1>5, <1>6, <1>7, <1>8, <1>9, <1>10, <1>13 DEF RoomStep, PlayerOp, OpOf
<1>14. QED
  BY <1>11, <1>12, <1>13 DEF DeltaNext

(* The snapshot of the new room is the room, and there are no deltas yet. *)
LEMMA DeltaInvInit == DeltaInit => DeltaInv
<1> SUFFICES ASSUME DeltaInit PROVE DeltaInv
  OBVIOUS
<1>1. TypeOK
  BY RoomTypeInit DEF DeltaInit
<1>2. /\ deltas.players = EmptyFcn /\ deltas.towers = EmptyFcn
      /\ deltas.monsters = EmptyFcn /\ deltas.merged = {} /\ deltas.miners = {}
  BY DEF DeltaInit, Init, NoDeltas
<1>3. /\ mirror.players = players /\ mirror.towers = towers /\ mirror.monsters = monsters
      /\ mirror.miners = {<<m, miners[m].owner>> : m \in DOMAIN miners}
  BY DEF DeltaInit, SnapshotView
<1>4. players = [p \in DOMAIN players |-> players[p]]
  BY <1>1 DEF TypeOK
<1>5. towers = EmptyFcn /\ monsters = EmptyFcn
  BY DEF DeltaInit, Init
<1>6. Mirrored
  BY <1>2, <1>3, <1>4, <1>5
     DEF Mirrored, PlayersMirrored, MinersMirrored, TowersMirrored, TowersOf,
         MonstersMirrored, Overlay, EmptyFcn
<1>7. QED
  BY <1>1, <1>2, <1>6, MirrorParts DEF DeltaInv, MergedAllocated

(* Whatever the operations, ticks and flushes and their order, a snapshot  *)
(* and the deltas after it are the authoritative state (the append*Delta   *)
(* calls of room.go, applied as in DeltasToProto's order).                 *)
THEOREM DeltasComplete == DeltaSpec => []MirrorComplete
<1>1. DeltaInit => DeltaInv
  BY DeltaInvInit
<1>2. DeltaInv /\ [DeltaNext]_deltaSpecVars => DeltaInv'
  BY DeltaInvStep
<1>3. DeltaInv => MirrorComplete
  BY DEF DeltaInv
<1>4. QED
  BY <1>1, <1>2, <1>3, PTL DEF DeltaSpec

(* Applying a batch twice is applying it once: deltas carry absolute values. *)
LEMMA ApplyIdempotent ==
    ASSUME NEW v, NEW d
    PROVE  ApplyDeltas(ApplyDeltas(v, d), d) = ApplyDeltas(v, d)
<1> DEFINE once  == ApplyDeltas(v, d)
           known == Overlay(d.towers, v.towers)
<1>1. \A e, m : Overlay(e, Overlay(e, m)) = Overlay(e, m)
  BY DEF Overlay
<1>2. once = [players  |-> Overlay(d.players, v.players),
              miners   |-> v.miners \union d.miners,
              towers   |-> [t \in DOMAIN known \ d.merged |-> known[t]],
              monsters |-> Overlay(d.monsters, v.monsters)]
  BY DEF ApplyDeltas
<1>3. /\ once.players = Overlay(d.players, v.players)
      /\ once.miners = v.miners \union d.miners
      /\ once.towers = [t \in DOMAIN known \ d.merged |-> known[t]]
      /\ once.monsters = Overlay(d.monsters, v.monsters)
  BY ONLY <1>2
<1>4. [t \in DOMAIN Overlay(d.towers, once.towers) \ d.merged |->
          Overlay(d.towers, once.towers)[t]]
          = [t \in DOMAIN known \ d.merged |-> known[t]]
  BY ONLY <1>3 DEF Overlay
<1>5. ApplyDeltas(once, d)
          = [players  |-> Overlay(d.players, once.players),
             miners   |-> once.miners \union d.miners,
             towers   |-> [t \in DOMAIN Overlay(d.towers, once.towers) \ d.merged |->
                              Overlay(d.towers, once.towers)[t]],
             monsters |-> Overlay(d.monsters, once.monsters)]
  BY DEF ApplyDeltas
<1>6. once.miners \union d.miners = once.miners
  BY ONLY <1>3
<1>7. /\ Overlay(d.players, once.players) = once.players
      /\ Overlay(d.monsters, once.monsters) = once.monsters
  BY ONLY <1>1, <1>3
<1>8. QED
  BY ONLY <1>2, <1>3, <1>4, <1>5, <1>6, <1>7

(* A join between two flushes is not set back by the batch that follows:    *)
(* the room's state already is a state the pending batch was applied to.    *)
THEOREM PendingDeltasCurrent == DeltaSpec => []PendingIsCurrent
<1>1. MirrorComplete => PendingIsCurrent
  BY ApplyIdempotent DEF MirrorComplete, PendingIsCurrent
<1>2. QED
  BY <1>1, DeltasComplete, PTL

----------------------------------------------------------------------------
(* The service: what a view holds of each thing of the room.  The things   *)
(* are the players with their resources, the towers, the miners, which are *)
(* there or not, and the monsters.                                         *)

Key == ({"player"} \X Players) \union ({"tower"} \X Nat)
           \union ({"miner"} \X (Nat \X Players)) \union ({"monster"} \X MonsterIDs)

Entry(f, x) == IF x \in DOMAIN f THEN {f[x]} ELSE {}
At(v, k) ==
    IF k[1] = "player" THEN Entry(v.players, k[2])
    ELSE IF k[1] = "tower" THEN Entry(v.towers, k[2])
    ELSE IF k[1] = "miner" THEN {k[2]} \intersect v.miners
    ELSE Entry(v.monsters, k[2])

(* What a batch says of a thing, if it touches it.                          *)
Touches(d, k) ==
    IF k[1] = "player" THEN k[2] \in DOMAIN d.players
    ELSE IF k[1] = "tower" THEN k[2] \in DOMAIN d.towers \union d.merged
    ELSE IF k[1] = "miner" THEN k[2] \in d.miners
    ELSE k[2] \in DOMAIN d.monsters
Says(d, k) ==
    IF k[1] = "player" THEN Entry(d.players, k[2])
    ELSE IF k[1] = "tower" THEN IF k[2] \in d.merged THEN {} ELSE Entry(d.towers, k[2])
    ELSE IF k[1] = "miner" THEN {k[2]}
    ELSE Entry(d.monsters, k[2])

IsMap(f, S) == f = [x \in DOMAIN f |-> f[x]] /\ DOMAIN f \subseteq S
IsView(v) ==
    /\ v = [players |-> v.players, miners |-> v.miners, towers |-> v.towers,
            monsters |-> v.monsters]
    /\ IsMap(v.players, Players) /\ IsMap(v.towers, Nat) /\ IsMap(v.monsters, MonsterIDs)
    /\ v.miners \subseteq Nat \X Players
IsBatch(d) ==
    /\ DOMAIN d.players \subseteq Players /\ DOMAIN d.towers \subseteq Nat
    /\ DOMAIN d.monsters \subseteq MonsterIDs /\ d.miners \subseteq Nat \X Players

(* A thing is one of the four. *)
LEMMA KeyCases ==
    ASSUME NEW k \in Key
    PROVE  \/ k[1] = "player" /\ k[2] \in Players
           \/ k[1] = "tower" /\ k[2] \in Nat
           \/ k[1] = "miner" /\ k[2] \in Nat \X Players
           \/ k[1] = "monster" /\ k[2] \in MonsterIDs
BY DEF Key

LEMMA ViewNotUnknown == ASSUME NEW v, IsView(v) PROVE v # NoView
<1>1. DOMAIN [players |-> v.players, miners |-> v.miners, towers |-> v.towers,
              monsters |-> v.monsters] = {"players", "miners", "towers", "monsters"}
  OBVIOUS
<1>2. DOMAIN NoView = {"known"}
  BY DEF NoView
<1>3. QED
  BY <1>1, <1>2 DEF IsView

(* Views that hold the same of everything are the same. *)
LEMMA ViewsAlike ==
    ASSUME NEW v, NEW w, IsView(v), IsView(w), \A k \in Key : At(v, k) = At(w, k)
    PROVE  v = w
<1>1. \A p \in Players : Entry(v.players, p) = Entry(w.players, p)
  <2> SUFFICES ASSUME NEW p \in Players PROVE Entry(v.players, p) = Entry(w.players, p)
    OBVIOUS
  <2>1. <<"player", p>> \in Key
    BY DEF Key
  <2>2. QED
    BY <2>1 DEF At
<1>2. \A t \in Nat : Entry(v.towers, t) = Entry(w.towers, t)
  <2> SUFFICES ASSUME NEW t \in Nat PROVE Entry(v.towers, t) = Entry(w.towers, t)
    OBVIOUS
  <2>1. <<"tower", t>> \in Key
    BY DEF Key
  <2>2. QED
    BY <2>1 DEF At
<1>3. \A m \in Nat \X Players : {m} \intersect v.miners = {m} \intersect w.miners
  <2> SUFFICES ASSUME NEW m \in Nat \X Players
               PROVE  {m} \intersect v.miners = {m} \intersect w.miners
    OBVIOUS
  <2>1. <<"miner", m>> \in Key
    BY DEF Key
  <2>2. QED
    BY <2>1 DEF At
<1>4. \A x \in MonsterIDs : Entry(v.monsters, x) = Entry(w.monsters, x)
  <2> SUFFICES ASSUME NEW x \in MonsterIDs PROVE Entry(v.monsters, x) = Entry(w.monsters, x)
    OBVIOUS
  <2>1. <<"monster", x>> \in Key
    BY DEF Key
  <2>2. QED
    BY <2>1 DEF At
<1>5. ASSUME NEW S, NEW f, NEW g, IsMap(f, S), IsMap(g, S), \A x \in S : Entry(f, x) = Entry(g, x)
      PROVE  f = g
  <2>1. DOMAIN f = DOMAIN g
    BY <1>5 DEF IsMap, Entry
  <2>2. \A x \in DOMAIN f : f[x] = g[x]
    BY <1>5 DEF IsMap, Entry
  <2>3. QED
    BY <1>5, <2>1, <2>2 DEF IsMap
<1>6. v.players = w.players /\ v.towers = w.towers /\ v.monsters = w.monsters
  BY <1>1, <1>2, <1>4, <1>5 DEF IsView
<1>7. v.miners = w.miners
  BY <1>3 DEF IsView
<1>8. QED
  BY <1>6, <1>7 DEF IsView

(* ApplyDeltas, thing by thing. *)
LEMMA ApplyAt ==
    ASSUME NEW v, NEW d, NEW k \in Key
    PROVE  At(ApplyDeltas(v, d), k) = IF Touches(d, k) THEN Says(d, k) ELSE At(v, k)
<1> DEFINE w == ApplyDeltas(v, d)
<1>1. /\ w.players = Overlay(d.players, v.players) /\ w.miners = v.miners \union d.miners
      /\ w.towers = TowersOf(v, d) /\ w.monsters = Overlay(d.monsters, v.monsters)
  <2>1. DOMAIN Overlay(d.towers, v.towers) = DOMAIN d.towers \union DOMAIN v.towers
    BY DEF Overlay
  <2>2. QED
    BY <2>1 DEF ApplyDeltas, TowersOf
<1> HIDE DEF w
<1>2. \A x : Entry(Overlay(d.players, v.players), x)
                 = IF x \in DOMAIN d.players THEN Entry(d.players, x) ELSE Entry(v.players, x)
  BY DEF Entry, Overlay
<1>3. \A x : Entry(Overlay(d.monsters, v.monsters), x)
                 = IF x \in DOMAIN d.monsters THEN Entry(d.monsters, x) ELSE Entry(v.monsters, x)
  BY DEF Entry, Overlay
<1>4. \A x : Entry(TowersOf(v, d), x)
                 = IF x \in d.merged THEN {}
                   ELSE IF x \in DOMAIN d.towers THEN Entry(d.towers, x) ELSE Entry(v.towers, x)
  BY DEF Entry, TowersOf, Overlay
<1>5. At(w, k) = IF Touches(d, k) THEN Says(d, k) ELSE At(v, k)
  <2>1. CASE k[1] = "player"
    BY <1>1, <1>2, <2>1 DEF At, Touches, Says
  <2>2. CASE k[1] = "tower"
    BY <1>1, <1>4, <2>2 DEF At, Touches, Says
  <2>3. CASE k[1] = "miner"
    BY <1>1, <2>3 DEF At, Touches, Says
  <2>4. CASE k[1] = "monster"
    BY <1>1, <1>3, <2>4 DEF At, Touches, Says
  <2>5. QED
    BY <2>1, <2>2, <2>3, <2>4, KeyCases
<1>6. QED
  BY <1>5 DEF w

LEMMA ApplyView ==
    ASSUME NEW v, NEW d, IsView(v), IsBatch(d)
    PROVE  IsView(ApplyDeltas(v, d))
<1>1. ASSUME NEW S, NEW f, NEW g, DOMAIN f \subseteq S, DOMAIN g \subseteq S
      PROVE  IsMap(Overlay(f, g), S)
  BY <1>1 DEF IsMap, Overlay
<1>2. IsMap(Overlay(d.players, v.players), Players) /\ IsMap(Overlay(d.monsters, v.monsters), MonsterIDs)
  BY <1>1 DEF IsView, IsBatch, IsMap
<1> DEFINE known  == Overlay(d.towers, v.towers)
           towers1 == [t \in DOMAIN known \ d.merged |-> known[t]]
<1>3. IsMap(towers1, Nat)
  <2>1. DOMAIN known \subseteq Nat
    BY DEF IsView, IsBatch, IsMap, Overlay
  <2> HIDE DEF known
  <2>2. QED
    BY <2>1 DEF IsMap
<1>4. v.miners \union d.miners \subseteq Nat \X Players
  BY DEF IsView, IsBatch
<1>5. ApplyDeltas(v, d) = [players |-> Overlay(d.players, v.players), miners |-> v.miners \union d.miners,
                           towers |-> towers1, monsters |-> Overlay(d.monsters, v.monsters)]
  BY DEF ApplyDeltas
<1> HIDE DEF towers1
<1>6. QED
  BY <1>2, <1>3, <1>4, <1>5 DEF IsView

LEMMA NothingTouched ==
    IsBatch(NoDeltas) /\ \A k \in Key : ~Touches(NoDeltas, k)
<1>1. /\ DOMAIN NoDeltas.players = {} /\ DOMAIN NoDeltas.towers = {} /\ NoDeltas.merged = {}
      /\ NoDeltas.miners = {} /\ DOMAIN NoDeltas.monsters = {}
  BY DEF NoDeltas, EmptyFcn
<1>2. QED
  BY <1>1 DEF IsBatch, Touches

----------------------------------------------------------------------------
(* The room of the service: whatever changes is pending.                   *)

(* Pending deltas are of the room's things and hold their current values.  *)
MapCurrent(f, d) == \A x \in DOMAIN d : x \in DOMAIN f /\ d[x] = f[x]
TowersCurrent ==
    \A t \in DOMAIN deltas.towers \union deltas.merged :
        IF t \in deltas.merged THEN t \notin DOMAIN towers
        ELSE t \in DOMAIN towers /\ deltas.towers[t] = towers[t]
Owned == {<<m, miners[m].owner>> : m \in DOMAIN miners}
PendingInv ==
    /\ MapCurrent(players, deltas.players) /\ MapCurrent(monsters, deltas.monsters)
    /\ TowersCurrent /\ deltas.miners \subseteq Owned /\ MergedAllocated

(* The room's maps are maps. *)
RoomMaps == IsMap(players, Players) /\ IsMap(towers, Nat) /\ IsMap(monsters, MonsterIDs)

RoomInv == TypeOK /\ RoomMaps /\ PendingInv

(* What the service does to the room between two flushes. *)
Moves == AdvanceTick \/ (\E p \in Players : OpOf(p)) \/ MarkSettled \/ UNCHANGED roomVars

LEMMA RoomView ==
    ASSUME RoomInv
    PROVE  IsView(SnapshotView) /\ IsBatch(deltas)
<1>1. \A m \in DOMAIN miners : m \in Nat /\ miners[m].owner \in Players
  BY DEF RoomInv, TypeOK
<1>2. Owned \subseteq Nat \X Players
  BY <1>1 DEF Owned
<1>3. SnapshotView = [players |-> players, miners |-> Owned, towers |-> towers, monsters |-> monsters]
  BY DEF SnapshotView, Owned
<1>4. IsView(SnapshotView)
  BY <1>2, <1>3 DEF IsView, RoomInv, RoomMaps
<1>5. /\ DOMAIN deltas.players \subseteq Players /\ DOMAIN deltas.monsters \subseteq MonsterIDs
      /\ deltas.miners \subseteq Nat \X Players
  BY <1>2 DEF RoomInv, PendingInv, MapCurrent, RoomMaps, IsMap
<1>6. DOMAIN deltas.towers \subseteq Nat
  <2> SUFFICES ASSUME NEW t \in DOMAIN deltas.towers PROVE t \in Nat
    OBVIOUS
  <2>1. CASE t \in deltas.merged
    BY <2>1 DEF RoomInv, PendingInv, MergedAllocated
  <2>2. CASE t \notin deltas.merged
    BY <2>2 DEF RoomInv, PendingInv, TowersCurrent, RoomMaps, IsMap
  <2>3. QED
    BY <2>1, <2>2
<1>7. QED
  BY <1>4, <1>5, <1>6 DEF IsBatch

(* Deltas of a map after a change: nothing that was pending is forgotten,   *)
(* what is pending is current, and the rest has not changed.                *)
Follows(f, g, d, e) ==
    /\ DOMAIN d \subseteq DOMAIN e /\ MapCurrent(g, e)
    /\ \A x : x \notin DOMAIN e => Entry(f, x) = Entry(g, x)

LEMMA WriteFollows ==
    ASSUME NEW f, NEW d, NEW x, NEW v, MapCurrent(f, d)
    PROVE  Follows(f, Put(f, x, v), d, Put(d, x, v))
BY DEF Follows, MapCurrent, Put, Entry

LEMMA SameFollows ==
    ASSUME NEW f, NEW d, MapCurrent(f, d)
    PROVE  Follows(f, f, d, d)
BY DEF Follows

(* The same for towers and miners. *)
TowersFollow ==
    /\ DOMAIN deltas.towers \union deltas.merged \subseteq DOMAIN deltas'.towers \union deltas'.merged
    /\ TowersCurrent'
    /\ \A t : t \notin DOMAIN deltas'.towers \union deltas'.merged =>
                  Entry(towers, t) = Entry(towers', t)
MinersFollow ==
    /\ deltas.miners \subseteq deltas'.miners /\ deltas'.miners \subseteq Owned'
    /\ Owned \ deltas'.miners = Owned' \ deltas'.miners
RoomFollows ==
    /\ Follows(players, players', deltas.players, deltas'.players)
    /\ Follows(monsters, monsters', deltas.monsters, deltas'.monsters)
    /\ TowersFollow /\ MinersFollow

LEMMA SpendFollows ==
    ASSUME RoomInv, NEW p \in Players, NEW gold, NEW mana,
           Spend(p, gold, mana), deltas'.players = ResourceDelta(p)
    PROVE  Follows(players, players', deltas.players, deltas'.players) /\ IsMap(players', Players)
<1>1. players \in [Players -> Resources]
  BY DEF RoomInv, TypeOK
<1>2. PICK v : v = [gold |-> players[p].gold - gold, mana |-> players[p].mana - mana]
  OBVIOUS
<1>3. players' = Put(players, p, v)
  <2>1. players' = [players EXCEPT ![p] = v]
    BY <1>2 DEF Spend
  <2>2. QED
    BY ONLY <1>1, <2>1, p \in Players, PutExcept
<1>4. players'[p] = v
  BY <1>1, <1>3 DEF Put
<1>5. deltas'.players = Put(deltas.players, p, v)
  BY <1>4 DEF ResourceDelta
<1>6. Follows(players, Put(players, p, v), deltas.players, Put(deltas.players, p, v))
  BY WriteFollows DEF RoomInv, PendingInv
<1>7. IsMap(players', Players)
  BY <1>1, <1>3 DEF IsMap, Put
<1>8. QED
  BY <1>3, <1>5, <1>6, <1>7

(* A tower is written: built, or changed in place. *)
LEMMA TowerFollows ==
    ASSUME RoomInv, NEW t \in Nat, NEW tower, t \notin deltas.merged,
           towers' = Put(towers, t, tower),
           deltas'.towers = Put(deltas.towers, t, tower), deltas'.merged = deltas.merged
    PROVE  TowersFollow /\ IsMap(towers', Nat)
<1>1. IsMap(towers, Nat) /\ TowersCurrent
  BY DEF RoomInv, RoomMaps, PendingInv
<1>2. IsMap(towers', Nat)
  BY <1>1 DEF IsMap, Put
<1>3. /\ DOMAIN towers' = DOMAIN towers \union {t} /\ towers'[t] = tower
      /\ \A u \in DOMAIN towers : u # t => towers'[u] = towers[u]
  BY DEF Put
<1>4. /\ DOMAIN deltas'.towers = DOMAIN deltas.towers \union {t} /\ deltas'.towers[t] = tower
      /\ \A u \in DOMAIN deltas.towers : u # t => deltas'.towers[u] = deltas.towers[u]
  BY DEF Put
<1>5. TowersCurrent'
  BY <1>1, <1>3, <1>4 DEF TowersCurrent
<1>6. \A u : u # t => Entry(towers, u) = Entry(towers', u)
  BY <1>3 DEF Entry
<1>7. QED
  BY <1>2, <1>4, <1>5, <1>6 DEF TowersFollow

LEMMA BuildFollows ==
    ASSUME RoomInv, NEW p \in Players, NEW g \in GridIDs, BuildTower(p, g)
    PROVE  RoomFollows /\ RoomMaps' /\ MergedAllocated'
<1> DEFINE tower == Tower(p, NextTowerType(p), 1, g)
<1>1. /\ deltas'.players = ResourceDelta(p) /\ deltas'.miners = deltas.miners
      /\ deltas'.towers = Put(deltas.towers, nextTowerID, tower)
      /\ deltas'.merged = deltas.merged /\ deltas'.monsters = deltas.monsters
  BY DEF BuildTower, Emit
<1>2. nextTowerID \in Nat /\ nextTowerID' = nextTowerID + 1
  BY DEF BuildTower, RoomInv, TypeOK
<1>3. MergedAllocated' /\ nextTowerID \notin deltas.merged
  BY <1>1, <1>2 DEF MergedAllocated, RoomInv, PendingInv
<1>4. Follows(players, players', deltas.players, deltas'.players) /\ IsMap(players', Players)
  BY <1>1, SpendFollows DEF BuildTower
<1>5. towers' = Put(towers, nextTowerID, tower)
  BY DEF BuildTower
<1> HIDE DEF tower
<1>6. TowersFollow /\ IsMap(towers', Nat)
  BY <1>1, <1>2, <1>3, <1>5, TowerFollows
<1>7. UNCHANGED <<miners, monsters>>
  BY DEF BuildTower, minerVars, monsterVars
<1>8. Follows(monsters, monsters', deltas.monsters, deltas'.monsters) /\ IsMap(monsters', MonsterIDs)
  BY <1>1, <1>7, SameFollows DEF RoomInv, PendingInv, RoomMaps
<1>9. MinersFollow
  BY <1>1, <1>7 DEF MinersFollow, Owned, RoomInv, PendingInv
<1>10. QED
  BY <1>3, <1>4, <1>6, <1>8, <1>9 DEF RoomFollows, RoomMaps

LEMMA RerollFollows ==
    ASSUME RoomInv, NEW p \in Players, NEW t \in DOMAIN towers, RerollTower(p, t)
    PROVE  RoomFollows /\ RoomMaps' /\ MergedAllocated'
<1> DEFINE tower == Tower(p, NextTowerType(p), towers[t].level, towers[t].grid)
<1>1. /\ deltas'.players = ResourceDelta(p) /\ deltas'.miners = deltas.miners
      /\ deltas'.towers = Put(deltas.towers, t, tower)
      /\ deltas'.merged = deltas.merged /\ deltas'.monsters = deltas.monsters
  BY DEF RerollTower, Emit
<1>2. MergedAllocated'
  BY <1>1 DEF MergedAllocated, RerollTower, RoomInv, PendingInv
<1>3. Follows(players, players', deltas.players, deltas'.players) /\ IsMap(players', Players)
  BY <1>1, SpendFollows DEF RerollTower
<1>4. t \in Nat /\ t \notin deltas.merged
  BY DEF RoomInv, RoomMaps, IsMap, PendingInv, TowersCurrent
<1>5. towers' = [towers EXCEPT ![t] = tower]
  BY DEF RerollTower
<1> HIDE DEF tower
<1>6. towers' = Put(towers, t, tower)
  <2>1. towers = [u \in DOMAIN towers |-> towers[u]]
    BY DEF RoomInv, RoomMaps, IsMap
  <2>2. QED
    BY ONLY <1>5, <2>1, t \in DOMAIN towers DEF Put
<1>7. TowersFollow /\ IsMap(towers', Nat)
  BY <1>1, <1>4, <1>6, TowerFollows
<1>8. UNCHANGED <<miners, monsters>>
  BY DEF RerollTower, minerVars, monsterVars
<1>9. Follows(monsters, monsters', deltas.monsters, deltas'.monsters) /\ IsMap(monsters', MonsterIDs)
  BY <1>1, <1>8, SameFollows DEF RoomInv, PendingInv, RoomMaps
<1>10. MinersFollow
  BY <1>1, <1>8 DEF MinersFollow, Owned, RoomInv, PendingInv
<1>11. QED
  BY <1>2, <1>3, <1>7, <1>9, <1>10 DEF RoomFollows, RoomMaps

LEMMA MergeFollows ==
    ASSUME RoomInv, NEW p \in Players, NEW main \in DOMAIN towers,
           NEW material \in DOMAIN towers, MergeTower(p, main, material)
    PROVE  RoomFollows /\ RoomMaps' /\ MergedAllocated'
<1> DEFINE tower == Tower(p, NextTowerType(p), towers[main].level + 1, towers[main].grid)
<1>1. /\ deltas'.players = deltas.players /\ deltas'.miners = deltas.miners
      /\ deltas'.towers = Put(deltas.towers, main, tower)
      /\ deltas'.merged = deltas.merged \union {material} /\ deltas'.monsters = deltas.monsters
  BY DEF MergeTower, Emit
<1>2. /\ towers' = [t \in DOMAIN towers \ {material} |-> IF t = main THEN tower ELSE towers[t]]
      /\ main # material /\ nextTowerID' = nextTowerID
  BY DEF MergeTower, Mergeable
<1> HIDE DEF tower
<1>3. MergedAllocated'
  BY <1>1, <1>2 DEF MergedAllocated, RoomInv, PendingInv, TypeOK
<1>4. IsMap(towers', Nat)
  BY <1>2 DEF IsMap, RoomInv, RoomMaps
<1>5. TowersCurrent /\ main \notin deltas.merged
  BY DEF RoomInv, PendingInv, TowersCurrent
<1>6. /\ DOMAIN towers' = DOMAIN towers \ {material} /\ towers'[main] = tower
      /\ \A t \in DOMAIN towers : t \notin {main, material} => towers'[t] = towers[t]
  BY <1>2
<1>7. /\ DOMAIN deltas'.towers = DOMAIN deltas.towers \union {main} /\ deltas'.towers[main] = tower
      /\ \A t \in DOMAIN deltas.towers : t # main => deltas'.towers[t] = deltas.towers[t]
  BY <1>1 DEF Put
<1>8. TowersCurrent'
  BY <1>1, <1>2, <1>5, <1>6, <1>7 DEF TowersCurrent
<1>9. \A t : t \notin {main, material} => Entry(towers, t) = Entry(towers', t)
  BY <1>6 DEF Entry
<1>10. TowersFollow
  BY <1>1, <1>7, <1>8, <1>9 DEF TowersFollow
<1>11. UNCHANGED <<players, miners, monsters>>
  BY DEF MergeTower, minerVars, monsterVars
<1>12. /\ Follows(monsters, monsters', deltas.monsters, deltas'.monsters) /\ IsMap(monsters', MonsterIDs)
       /\ Follows(players, players', deltas.players, deltas'.players) /\ IsMap(players', Players)
  BY <1>1, <1>11, SameFollows DEF RoomInv, PendingInv, RoomMaps
<1>13. MinersFollow
  BY <1>1, <1>11 DEF MinersFollow, Owned, RoomInv, PendingInv
<1>14. QED
  BY <1>3, <1>4, <1>10, <1>12, <1>13 DEF RoomFollows, RoomMaps

LEMMA MinerFollows ==
    ASSUME RoomInv, NEW p \in Players, BuyMiner(p)
    PROVE  RoomFollows /\ RoomMaps' /\ MergedAllocated'
<1>1. /\ deltas'.players = ResourceDelta(p)
      /\ deltas'.miners = deltas.miners \union {<<nextMinerID, p>>}
      /\ deltas'.towers = deltas.towers /\ deltas'.merged = deltas.merged
      /\ deltas'.monsters = deltas.monsters
  BY DEF BuyMiner, Emit
<1>2. Follows(players, players', deltas.players, deltas'.players) /\ IsMap(players', Players)
  BY <1>1, SpendFollows DEF BuyMiner
<1>3. miners' = Put(miners, nextMinerID, [owner |-> p, next |-> serverTick + Interval])
  BY DEF BuyMiner
<1>4. nextMinerID \notin DOMAIN miners
  <2>1. DOMAIN miners = 1 .. nextMinerID - 1 /\ nextMinerID \in Nat
    BY DEF RoomInv, TypeOK
  <2>2. QED
    BY ONLY <2>1
<1>5. Owned' = Owned \union {<<nextMinerID, p>>}
  BY ONLY <1>3, <1>4 DEF Put, Owned
<1>6. MinersFollow
  BY <1>1, <1>5 DEF MinersFollow, RoomInv, PendingInv
<1>7. UNCHANGED <<towers, nextTowerID, monsters>>
  BY DEF BuyMiner, towerVars, monsterVars
<1>8. Follows(monsters, monsters', deltas.monsters, deltas'.monsters) /\ IsMap(monsters', MonsterIDs)
  BY <1>1, <1>7, SameFollows DEF RoomInv, PendingInv, RoomMaps
<1>9. TowersFollow /\ IsMap(towers', Nat) /\ MergedAllocated'
  BY <1>1, <1>7 DEF TowersFollow, TowersCurrent, MergedAllocated, RoomInv, PendingInv, RoomMaps
<1>10. QED
  BY <1>2, <1>6, <1>8, <1>9 DEF RoomFollows, RoomMaps

(* A tick: deltas of the players that were paid and of what walked.         *)
LEMMA OverlayFollows ==
    ASSUME NEW f, NEW g, NEW d, NEW e, MapCurrent(f, d), DOMAIN f \subseteq DOMAIN g,
           \A x \in DOMAIN e : x \in DOMAIN g /\ e[x] = g[x],
           \A x \in DOMAIN g \ DOMAIN e : x \in DOMAIN f /\ g[x] = f[x]
    PROVE  Follows(f, g, d, Overlay(e, d))
<1>1. /\ DOMAIN Overlay(e, d) = DOMAIN e \union DOMAIN d
      /\ \A x \in DOMAIN Overlay(e, d) : Overlay(e, d)[x] = IF x \in DOMAIN e THEN e[x] ELSE d[x]
  BY DEF Overlay
<1>2. MapCurrent(g, Overlay(e, d))
  BY <1>1 DEF MapCurrent
<1>3. \A x : x \notin DOMAIN e => Entry(f, x) = Entry(g, x)
  BY DEF Entry
<1>4. QED
  BY <1>1, <1>2, <1>3 DEF Follows

LEMMA TickFollows ==
    ASSUME RoomInv, AdvanceTick
    PROVE  RoomFollows /\ RoomMaps' /\ MergedAllocated'
<1> DEFINE now    == serverTick + 1
           paid   == {p \in Players : ProducedMana(p, now) > 0}
           moving == {x \in DOMAIN MonstersAfter(now) : Present(x).status = "ALIVE"}
           e1 == [p \in paid |-> players'[p]]
           e2 == [x \in moving |-> MonstersAfter(now)[x]]
<1>1. /\ deltas'.players = Overlay(e1, deltas.players)
      /\ deltas'.miners = deltas.miners /\ deltas'.towers = deltas.towers
      /\ deltas'.merged = deltas.merged
      /\ deltas'.monsters = Overlay(e2, deltas.monsters)
  BY DEF AdvanceTick, EmitTick
<1>2. players' = [p \in Players |-> [gold |-> players[p].gold,
                                    mana |-> players[p].mana + ProducedMana(p, now)]]
  BY DEF AdvanceTick, Produce
<1>3. players \in [Players -> Resources] /\ now \in Nat /\ TypeOK
  BY DEF RoomInv, TypeOK
<1>4. \A p \in Players : ProducedMana(p, now) \in Nat
  BY <1>3, ProducedManaType
<1>5. \A p \in Players \ paid : players'[p] = players[p]
  BY ONLY <1>2, <1>3, <1>4 DEF Resources
<1>6. IsMap(players', Players) /\ DOMAIN players' = Players
  BY <1>2 DEF IsMap
<1>7. Follows(players, players', deltas.players, deltas'.players)
  <2>1. DOMAIN e1 = paid /\ paid \subseteq Players /\ \A p \in paid : e1[p] = players'[p]
    OBVIOUS
  <2>2. DOMAIN players = Players /\ MapCurrent(players, deltas.players)
    BY <1>3 DEF RoomInv, PendingInv
  <2>3. PICK e, g : e = e1 /\ g = players'
    OBVIOUS
  <2> HIDE DEF paid, e1
  <2>4. Follows(players, g, deltas.players, Overlay(e, deltas.players))
    BY <1>5, <1>6, <2>1, <2>2, <2>3, OverlayFollows
  <2>5. QED
    BY <1>1, <2>3, <2>4
<1>8. monsters' = MonstersAfter(now)
  BY DEF AdvanceTick
<1>9. /\ DOMAIN MonstersAfter(now) = DOMAIN monsters \union Spawning(now)
      /\ MonstersAfter(now) = [x \in DOMAIN MonstersAfter(now) |-> MonstersAfter(now)[x]]
  BY DEF MonstersAfter
<1>10. \A x \in DOMAIN MonstersAfter(now) \ moving :
           x \in DOMAIN monsters /\ MonstersAfter(now)[x] = monsters[x]
  BY DEF MonstersAfter, Present, Newborn, Walk
<1>11. IsMap(monsters', MonsterIDs)
  BY <1>8, <1>9 DEF IsMap, RoomInv, RoomMaps, Spawning
<1>12. Follows(monsters, monsters', deltas.monsters, deltas'.monsters)
  <2>1. DOMAIN e2 = moving /\ moving \subseteq DOMAIN monsters' /\ \A x \in moving : e2[x] = monsters'[x]
    BY <1>8
  <2>2. MapCurrent(monsters, deltas.monsters)
    BY DEF RoomInv, PendingInv
  <2>3. DOMAIN monsters \subseteq DOMAIN monsters'
    BY <1>8, <1>9
  <2>4. \A x \in DOMAIN monsters' \ moving : x \in DOMAIN monsters /\ monsters'[x] = monsters[x]
    BY <1>8, <1>10
  <2>5. PICK e, g : e = e2 /\ g = monsters'
    OBVIOUS
  <2> HIDE DEF moving, e2
  <2>6. Follows(monsters, g, deltas.monsters, Overlay(e, deltas.monsters))
    BY <2>1, <2>2, <2>3, <2>4, <2>5, OverlayFollows
  <2>7. QED
    BY <1>1, <2>5, <2>6
<1>13. MinersFollow
  <2>1. Owned' = Owned
    BY DEF AdvanceTick, Produce, Owned
  <2>2. QED
    BY <1>1, <2>1 DEF MinersFollow, RoomInv, PendingInv
<1>14. UNCHANGED <<towers, nextTowerID>>
  BY DEF AdvanceTick, towerVars
<1>15. TowersFollow /\ IsMap(towers', Nat) /\ MergedAllocated'
  BY <1>1, <1>14 DEF TowersFollow, TowersCurrent, MergedAllocated, RoomInv, PendingInv, RoomMaps
<1>16. QED
  BY <1>6, <1>7, <1>11, <1>12, <1>13, <1>15 DEF RoomFollows, RoomMaps

(* Every step of the room that is not a flush. *)
LEMMA MovesFollow ==
    ASSUME RoomInv, Moves
    PROVE  RoomInv' /\ RoomFollows
<1>1. [Next]_roomVars
  BY DEF Moves, Next, PlayerOp
<1>2. TypeOK'
  BY <1>1, TypeOKStep DEF RoomInv
<1>3. RoomFollows /\ RoomMaps' /\ MergedAllocated'
  <2>1. CASE AdvanceTick
    BY <2>1, TickFollows
  <2>2. ASSUME NEW p \in Players, OpOf(p)
        PROVE  RoomFollows /\ RoomMaps' /\ MergedAllocated'
    BY <2>2, BuildFollows, RerollFollows, MergeFollows, MinerFollows DEF OpOf
  <2>3. CASE UNCHANGED <<players, monsters, miners, towers, nextTowerID, deltas>>
    <3>1. /\ Follows(players, players', deltas.players, deltas'.players)
          /\ Follows(monsters, monsters', deltas.monsters, deltas'.monsters)
      BY <2>3, SameFollows DEF RoomInv, PendingInv
    <3>2. TowersFollow /\ RoomMaps' /\ MergedAllocated'
      BY <2>3 DEF TowersFollow, TowersCurrent, RoomMaps, MergedAllocated, RoomInv, PendingInv
    <3>3. MinersFollow
      BY <2>3 DEF MinersFollow, Owned, RoomInv, PendingInv
    <3>4. QED
      BY <3>1, <3>2, <3>3 DEF RoomFollows
  <2>4. MarkSettled \/ UNCHANGED roomVars =>
            UNCHANGED <<players, monsters, miners, towers, nextTowerID, deltas>>
    BY DEF MarkSettled, roomVars, towerVars, minerVars, monsterVars
  <2>5. QED
    BY <2>1, <2>2, <2>3, <2>4 DEF Moves
<1>4. PendingInv'
  BY <1>3 DEF RoomFollows, Follows, TowersFollow, MinersFollow, PendingInv
<1>5. QED
  BY <1>2, <1>3, <1>4 DEF RoomInv

(* What is pending of a thing is what the room holds of it. *)
LEMMA PendingSays ==
    ASSUME RoomInv, NEW k \in Key, Touches(deltas, k)
    PROVE  Says(deltas, k) = At(SnapshotView, k)
<1>1. /\ SnapshotView.players = players /\ SnapshotView.towers = towers
      /\ SnapshotView.miners = Owned /\ SnapshotView.monsters = monsters
  BY DEF SnapshotView, Owned
<1>2. PendingInv
  BY DEF RoomInv
<1>3. CASE k[1] = "player"
  BY <1>1, <1>2, <1>3 DEF PendingInv, MapCurrent, At, Says, Touches, Entry
<1>4. CASE k[1] = "tower"
  BY <1>1, <1>2, <1>4 DEF PendingInv, TowersCurrent, At, Says, Touches, Entry
<1>5. CASE k[1] = "miner"
  BY <1>1, <1>2, <1>5 DEF PendingInv, At, Says, Touches
<1>6. CASE k[1] = "monster"
  BY <1>1, <1>2, <1>6 DEF PendingInv, MapCurrent, At, Says, Touches, Entry
<1>7. QED
  BY <1>3, <1>4, <1>5, <1>6, KeyCases

(* Thing by thing: a step adds to what is pending, and what is then not     *)
(* pending has not changed.                                                 *)
LEMMA FollowsAt ==
    ASSUME RoomFollows, NEW k \in Key
    PROVE  /\ Touches(deltas, k) => Touches(deltas', k)
           /\ ~Touches(deltas', k) => At(SnapshotView', k) = At(SnapshotView, k)
<1>1. /\ SnapshotView.players = players /\ SnapshotView.towers = towers
      /\ SnapshotView.miners = Owned /\ SnapshotView.monsters = monsters
      /\ SnapshotView'.players = players' /\ SnapshotView'.towers = towers'
      /\ SnapshotView'.miners = Owned' /\ SnapshotView'.monsters = monsters'
  BY DEF SnapshotView, Owned
<1>2. CASE k[1] = "player"
  BY <1>1, <1>2 DEF RoomFollows, Follows, At, Touches
<1>3. CASE k[1] = "tower"
  BY <1>1, <1>3 DEF RoomFollows, TowersFollow, At, Touches
<1>4. CASE k[1] = "miner"
  <2>1. /\ deltas.miners \subseteq deltas'.miners
        /\ Owned \ deltas'.miners = Owned' \ deltas'.miners
    BY DEF RoomFollows, MinersFollow
  <2>2. k[2] \notin deltas'.miners => (k[2] \in Owned <=> k[2] \in Owned')
    BY ONLY <2>1
  <2>3. QED
    BY <1>1, <1>4, <2>1, <2>2 DEF At, Touches
<1>5. CASE k[1] = "monster"
  BY <1>1, <1>5 DEF RoomFollows, Follows, At, Touches
<1>6. QED
  BY <1>2, <1>3, <1>4, <1>5, KeyCases

(* A flush empties what is pending and changes nothing else. *)
LEMMA FlushKeeps ==
    ASSUME RoomInv, FlushDeltas
    PROVE  RoomInv' /\ SnapshotView' = SnapshotView /\ \A k \in Key : ~Touches(deltas', k)
<1>1. [Next]_roomVars
  BY DEF Next
<1>2. TypeOK'
  BY <1>1, TypeOKStep DEF RoomInv
<1>3. deltas' = NoDeltas /\ UNCHANGED <<players, monsters, miners, towers>>
  BY DEF FlushDeltas, towerVars, minerVars, monsterVars
<1>4. /\ DOMAIN NoDeltas.players = {} /\ DOMAIN NoDeltas.towers = {} /\ NoDeltas.merged = {}
      /\ NoDeltas.miners = {} /\ DOMAIN NoDeltas.monsters = {}
  BY DEF NoDeltas, EmptyFcn
<1>5. RoomMaps' /\ PendingInv'
  BY <1>3, <1>4
     DEF RoomInv, RoomMaps, PendingInv, MapCurrent, TowersCurrent, MergedAllocated
<1>6. SnapshotView' = SnapshotView
  BY <1>3 DEF SnapshotView
<1>7. QED
  BY <1>2, <1>3, <1>5, <1>6, NothingTouched DEF RoomInv

LEMMA RoomInit == Init => RoomInv
<1> SUFFICES ASSUME Init PROVE RoomInv
  OBVIOUS
<1>1. TypeOK
  BY RoomTypeInit
<1>2. /\ deltas = NoDeltas /\ towers = EmptyFcn /\ monsters = EmptyFcn /\ miners = EmptyFcn
      /\ players = [p \in Players |-> [gold |-> InitialGold, mana |-> InitialMana]]
  BY DEF Init
<1>3. /\ DOMAIN NoDeltas.players = {} /\ DOMAIN NoDeltas.towers = {} /\ NoDeltas.merged = {}
      /\ NoDeltas.miners = {} /\ DOMAIN NoDeltas.monsters = {}
  BY DEF NoDeltas, EmptyFcn
<1>4. RoomMaps
  BY <1>2 DEF RoomMaps, IsMap, EmptyFcn
<1>5. PendingInv
  BY <1>2, <1>3 DEF PendingInv, MapCurrent, TowersCurrent, MergedAllocated
<1>6. QED
  BY <1>1, <1>4, <1>5 DEF RoomInv

----------------------------------------------------------------------------
(* The service: what a joined client does not have yet is pending, or in a  *)
(* batch that is on its way to it.                                          *)

UnderWay == {b \in Broadcasters : batch[b] # NoBatch}

(* The batch will be, or is being, sent to the session. *)
Concerns(b, s) == pc[b] = "address" \/ s \in targets[b]

(* What the client has, or will have when the reply to its join arrives. *)
Base(s)   == IF pc[s] = "joinReply" THEN reply[s] ELSE view[s]
Joined(s) == Bound(s) /\ pc[s] # "snapshot" /\ Base(s) # NoView

Covered(s, k) ==
    \/ Touches(deltas, k)
    \/ \E b \in UnderWay : Concerns(b, s) /\ Touches(batch[b].deltas, k)
Newest(b, k) ==
    /\ b \in UnderWay /\ Touches(batch[b].deltas, k)
    /\ \A c \in UnderWay : Touches(batch[c].deltas, k) => batch[c].number <= batch[b].number

IsPc(f)     == f = [b \in Broadcasters |-> f[b]]
IsClient(v) == v = [s \in Sessions |-> v[s]] /\ \A s \in Sessions : v[s] = NoView \/ IsView(v[s])
ServiceTypes ==
    /\ IsPc(pc) /\ flushes \in Nat
    /\ batch = [b \in Broadcasters |-> batch[b]] /\ targets = [b \in Broadcasters |-> targets[b]]
    /\ \A b \in Broadcasters : IsBatch(batch[b].deltas)
    /\ IsClient(view) /\ IsClient(reply)

(* Batches exist from the flush to the send, and have numbers of their own. *)
BatchInv ==
    /\ \A b \in Broadcasters : b \in UnderWay <=> pc[b] \in {"address", "send"}
    /\ \A b \in Broadcasters : targets[b] # {} => pc[b] = "send"
    /\ \A b \in UnderWay : batch[b].number \in 1 .. flushes
    /\ \A b, c \in UnderWay : batch[b].number = batch[c].number => b = c

(* Batches have been addressed in the order they were flushed in, and a     *)
(* session that gets one gets every later one.                              *)
OrderInv ==
    /\ \A b, c \in UnderWay :
           pc[b] = "send" /\ pc[c] = "address" => batch[b].number < batch[c].number
    /\ \A s \in Sessions, b, c \in UnderWay :
           Bound(s) /\ s \in targets[b] /\ pc[c] = "send" /\ batch[b].number < batch[c].number
               => s \in targets[c]

(* The last word on a thing that is not pending is right. *)
LatestInv ==
    \A k \in Key, b \in Broadcasters :
        ~Touches(deltas, k) /\ Newest(b, k) => Says(batch[b].deltas, k) = At(SnapshotView, k)

SyncedInv ==
    \A s \in Sessions, k \in Key :
        Joined(s) /\ ~Covered(s, k) => At(Base(s), k) = At(SnapshotView, k)

CastInv    == OrderInv /\ LatestInv /\ SyncedInv
ServiceInv == RoomInv /\ ServiceTypes /\ BatchInv /\ (overtaken \/ CastInv)

(* Steps that leave clients, bindings and batches alone. *)
Marked == {"address", "send", "snapshot", "joinReply"}
LEMMA QuietStep ==
    ASSUME ServiceInv, Moves, UNCHANGED <<view, reply, joinedSess, castVars>>,
           IsPc(pc'),
           \A b \in Broadcasters : pc'[b] = pc[b] \/ (pc[b] \notin Marked /\ pc'[b] \notin Marked)
    PROVE  ServiceInv'
<1>1. RoomInv' /\ RoomFollows
  BY MovesFollow DEF ServiceInv
<1>2. UNCHANGED <<batch, targets, overtaken, flushes, UnderWay>>
  BY DEF castVars, UnderWay
<1>3. \A b \in Broadcasters : \A label \in Marked : pc'[b] = label <=> pc[b] = label
  OBVIOUS
<1>4. ServiceTypes'
  BY <1>2, <1>3 DEF ServiceInv, ServiceTypes, Broadcasters, IsClient, Marked
<1>5. BatchInv'
  BY <1>2, <1>3 DEF ServiceInv, BatchInv, Marked, UnderWay
<1>6. \A s \in Sessions : (Bound(s) <=> Bound(s)') /\ Base(s)' = Base(s) /\ (Joined(s)' <=> Joined(s))
  BY <1>2, <1>3 DEF Bound, Base, Joined, Marked, Broadcasters
<1>7. ASSUME CastInv PROVE CastInv'
  <2>1. OrderInv'
    BY <1>2, <1>3, <1>6, <1>7 DEF CastInv, OrderInv, Marked, UnderWay
  <2>2. LatestInv'
    <3> SUFFICES ASSUME NEW k \in Key, NEW b \in Broadcasters, ~Touches(deltas', k), Newest(b, k)'
                 PROVE  Says(batch[b].deltas, k) = At(SnapshotView', k)
      BY <1>2 DEF LatestInv
    <3>1. Newest(b, k)
      BY <1>2 DEF Newest
    <3>2. ~Touches(deltas, k) /\ At(SnapshotView', k) = At(SnapshotView, k)
      BY <1>1, FollowsAt
    <3>3. QED
      BY <1>7, <3>1, <3>2 DEF CastInv, LatestInv
  <2>3. SyncedInv'
    <3> SUFFICES ASSUME NEW s \in Sessions, NEW k \in Key, Joined(s)', ~Covered(s, k)'
                 PROVE  At(Base(s), k) = At(SnapshotView', k)
      BY <1>6 DEF SyncedInv
    <3>1. ~Touches(deltas', k)
      BY DEF Covered
    <3>2. ~Touches(deltas, k) /\ At(SnapshotView', k) = At(SnapshotView, k)
      BY <1>1, <3>1, FollowsAt
    <3>3. Joined(s) /\ ~Covered(s, k)
      BY <1>2, <1>3, <1>6, <3>2 DEF Covered, Concerns, Marked, UnderWay
    <3>4. QED
      BY <1>7, <3>2, <3>3 DEF CastInv, SyncedInv
  <2>4. QED
    BY <2>1, <2>2, <2>3 DEF CastInv
<1>8. QED
  BY <1>1, <1>2, <1>4, <1>5, <1>7 DEF ServiceInv

LEMMA GotoStep ==
    ASSUME IsPc(pc), NEW b \in Broadcasters, NEW label,
           Goto(b, label)
    PROVE  /\ IsPc(pc') /\ pc'[b] = label
           /\ \A c \in Broadcasters : c # b => pc'[c] = pc[c]
BY DEF Goto, IsPc

LEMMA RoomKept ==
    ASSUME RoomInv, UNCHANGED roomVars
    PROVE  RoomInv' /\ SnapshotView' = SnapshotView /\ deltas' = deltas
<1>1. RoomInv'
  BY MovesFollow DEF Moves
<1>2. QED
  BY <1>1 DEF roomVars, SnapshotView, towerVars, minerVars, monsterVars

(* A session joins: it is bound before its snapshot is taken. *)
LEMMA BindStep ==
    ASSUME ServiceInv, NEW s \in Sessions, JoinBind(s)
    PROVE  ServiceInv'
<1>1. RoomInv' /\ SnapshotView' = SnapshotView /\ deltas' = deltas
  BY RoomKept DEF JoinBind, ServiceInv
<1>2. UNCHANGED <<batch, targets, flushes, view, reply, UnderWay>>
  BY DEF JoinBind, clientVars, UnderWay
<1>3. /\ s \in Broadcasters /\ pc[s] = "idle" /\ Goto(s, "snapshot")
      /\ IsPc(pc)
  BY DEF JoinBind, StartRequest, Broadcasters, ServiceInv, ServiceTypes
<1>4. /\ pc'[s] = "snapshot" /\ IsPc(pc')
      /\ \A b \in Broadcasters : b # s => pc'[b] = pc[b]
  BY <1>3, GotoStep
<1>5. ServiceTypes'
  BY <1>2, <1>4 DEF ServiceInv, ServiceTypes, Broadcasters, IsClient
<1>6. BatchInv'
  BY <1>2, <1>3, <1>4 DEF ServiceInv, BatchInv, UnderWay
<1>7. /\ PlayerOf \in [Sessions -> Players]
      /\ joinedSess' = Put(joinedSess, PlayerOf[s], s)
  BY SessionAssumption DEF JoinBind
<1>8. \A t \in Sessions : t # s /\ Bound(t)' => Bound(t)
  BY <1>7 DEF Bound, Put
<1>9. ASSUME CastInv, ~Returns(s) PROVE CastInv'
  <2>1. \A b \in UnderWay : pc[b] = pc'[b] /\ b # s
    BY <1>3, <1>4 DEF ServiceInv, BatchInv, UnderWay
  <2>2. \A b \in Broadcasters : s \in targets[b] => Bound(s)
    BY <1>9 DEF Returns
  <2>3. OrderInv'
    BY <1>2, <1>8, <1>9, <2>1, <2>2 DEF CastInv, OrderInv, UnderWay
  <2>4. LatestInv'
    BY <1>1, <1>2, <1>9 DEF CastInv, LatestInv, Newest
  <2>5. SyncedInv'
    <3> SUFFICES ASSUME NEW t \in Sessions, NEW k \in Key, Joined(t)', ~Covered(t, k)'
                 PROVE  At(Base(t)', k) = At(SnapshotView', k)
      BY DEF SyncedInv
    <3>1. t # s /\ t \in Broadcasters /\ Bound(t)
      BY <1>4, <1>8 DEF Joined, Broadcasters
    <3>2. Base(t)' = Base(t) /\ Joined(t)
      BY <1>2, <1>4, <3>1 DEF Base, Joined
    <3>3. ~Covered(t, k)
      BY <1>1, <1>2, <2>1 DEF Covered, Concerns
    <3>4. QED
      BY <1>1, <1>9, <3>2, <3>3 DEF CastInv, SyncedInv
  <2>6. QED
    BY <2>3, <2>4, <2>5 DEF CastInv
<1>10. overtaken' = (overtaken \/ Returns(s))
  BY DEF JoinBind
<1>11. QED
  <2>1. CASE overtaken \/ Returns(s)
    BY <1>1, <1>5, <1>6, <1>10, <2>1 DEF ServiceInv
  <2>2. CASE ~(overtaken \/ Returns(s))
    BY <1>1, <1>5, <1>6, <1>9, <2>2 DEF ServiceInv
  <2>3. QED
    BY <2>1, <2>2

LEMMA SnapshotStep ==
    ASSUME ServiceInv, NEW s \in Sessions, JoinSnapshot(s)
    PROVE  ServiceInv'
<1>1. RoomInv' /\ SnapshotView' = SnapshotView /\ deltas' = deltas
  BY RoomKept DEF JoinSnapshot, ServiceInv
<1>2. UNCHANGED <<batch, targets, flushes, overtaken, joinedSess, view, UnderWay>>
  BY DEF JoinSnapshot, clientVars, castVars, UnderWay
<1>3. /\ s \in Broadcasters /\ pc[s] = "snapshot" /\ Goto(s, "joinReply")
      /\ IsPc(pc)
  BY DEF JoinSnapshot, Broadcasters, ServiceInv, ServiceTypes
<1>4. /\ pc'[s] = "joinReply" /\ IsPc(pc')
      /\ \A b \in Broadcasters : b # s => pc'[b] = pc[b]
  BY <1>3, GotoStep
<1>5. reply' = [reply EXCEPT ![s] = SnapshotView] /\ IsClient(reply)
  BY DEF JoinSnapshot, ServiceInv, ServiceTypes
<1>6. IsView(SnapshotView) /\ SnapshotView # NoView
  BY RoomView, ViewNotUnknown DEF ServiceInv
<1>7. reply'[s] = SnapshotView /\ \A t \in Sessions : t # s => reply'[t] = reply[t]
  BY <1>5 DEF IsClient
<1>8. IsClient(reply')
  BY <1>5, <1>6, <1>7 DEF IsClient
<1>9. ServiceTypes'
  BY <1>2, <1>4, <1>6, <1>7, <1>8 DEF ServiceInv, ServiceTypes, Broadcasters
<1>10. BatchInv'
  BY <1>2, <1>3, <1>4 DEF ServiceInv, BatchInv, UnderWay
<1>11. ASSUME CastInv PROVE CastInv'
  <2>1. \A b \in UnderWay : pc[b] = pc'[b] /\ b # s
    BY <1>3, <1>4 DEF ServiceInv, BatchInv, UnderWay
  <2>2. \A t \in Sessions : Bound(t)' <=> Bound(t)
    BY <1>2 DEF Bound
  <2>3. OrderInv'
    BY <1>2, <1>11, <2>1, <2>2 DEF CastInv, OrderInv, UnderWay
  <2>4. LatestInv'
    BY <1>1, <1>2, <1>11 DEF CastInv, LatestInv, Newest
  <2>5. SyncedInv'
    <3> SUFFICES ASSUME NEW t \in Sessions, NEW k \in Key, Joined(t)', ~Covered(t, k)'
                 PROVE  At(Base(t)', k) = At(SnapshotView', k)
      BY DEF SyncedInv
    <3>1. CASE t = s
      BY <1>1, <1>4, <1>7, <3>1 DEF Base
    <3>2. CASE t # s
      <4>1. t \in Broadcasters
        BY DEF Broadcasters
      <4>2. Base(t)' = Base(t) /\ Joined(t)
        BY <1>2, <1>4, <1>7, <2>2, <3>2, <4>1 DEF Base, Joined
      <4>3. ~Covered(t, k)
        BY <1>1, <1>2, <2>1 DEF Covered, Concerns
      <4>4. QED
        BY <1>1, <1>11, <4>2, <4>3 DEF CastInv, SyncedInv
    <3>3. QED
      BY <3>1, <3>2
  <2>6. QED
    BY <2>3, <2>4, <2>5 DEF CastInv
<1>12. QED
  BY <1>1, <1>2, <1>9, <1>10, <1>11 DEF ServiceInv

LEMMA ReplyStep ==
    ASSUME ServiceInv, NEW s \in Sessions, JoinReply(s)
    PROVE  ServiceInv'
<1>1. RoomInv' /\ SnapshotView' = SnapshotView /\ deltas' = deltas
  BY RoomKept DEF JoinReply, ServiceInv
<1>2. UNCHANGED <<batch, targets, flushes, overtaken, joinedSess, UnderWay>>
  BY DEF JoinReply, castVars, UnderWay
<1>3. /\ s \in Broadcasters /\ pc[s] = "joinReply" /\ Goto(s, "idle")
      /\ IsPc(pc)
  BY DEF JoinReply, Broadcasters, ServiceInv, ServiceTypes
<1>4. /\ pc'[s] = "idle" /\ IsPc(pc')
      /\ \A b \in Broadcasters : b # s => pc'[b] = pc[b]
  BY <1>3, GotoStep
<1>0. PICK received \in {reply[s], NoView} : view' = [view EXCEPT ![s] = received]
  BY DEF JoinReply
<1>5. /\ reply' = [reply EXCEPT ![s] = NoView] /\ view' = [view EXCEPT ![s] = received]
      /\ IsClient(reply) /\ IsClient(view)
  BY <1>0 DEF JoinReply, ServiceInv, ServiceTypes
<1>6. /\ reply'[s] = NoView /\ view'[s] = received
      /\ \A t \in Sessions : t # s => reply'[t] = reply[t] /\ view'[t] = view[t]
  BY <1>5 DEF IsClient
<1>7. IsClient(reply') /\ IsClient(view')
  BY <1>5, <1>6 DEF IsClient
<1>8. ServiceTypes'
  BY <1>2, <1>4, <1>6, <1>7 DEF ServiceInv, ServiceTypes, Broadcasters
<1>9. BatchInv'
  BY <1>2, <1>3, <1>4 DEF ServiceInv, BatchInv, UnderWay
<1>10. ASSUME CastInv PROVE CastInv'
  <2>1. \A b \in UnderWay : pc[b] = pc'[b] /\ b # s
    BY <1>3, <1>4 DEF ServiceInv, BatchInv, UnderWay
  <2>2. \A t \in Sessions : /\ t \in Broadcasters /\ (Bound(t)' <=> Bound(t))
                            /\ Joined(t)' => Joined(t) /\ Base(t)' = Base(t)
    BY <1>2, <1>3, <1>4, <1>6 DEF Bound, Base, Joined, Broadcasters
  <2>3. OrderInv'
    BY <1>2, <1>10, <2>1, <2>2 DEF CastInv, OrderInv, UnderWay
  <2>4. LatestInv'
    BY <1>1, <1>2, <1>10 DEF CastInv, LatestInv, Newest
  <2>5. \A t \in Sessions, k \in Key : Covered(t, k)' <=> Covered(t, k)
    BY <1>1, <1>2, <2>1 DEF Covered, Concerns
  <2>6. SyncedInv'
    BY <1>1, <1>10, <2>2, <2>5 DEF CastInv, SyncedInv
  <2>7. QED
    BY <2>3, <2>4, <2>6 DEF CastInv
<1>11. QED
  BY <1>1, <1>2, <1>8, <1>9, <1>10 DEF ServiceInv

(* A flush: what was pending becomes the newest batch. *)
LEMMA FlushStep ==
    ASSUME ServiceInv, NEW b \in Broadcasters, CastFlush(b), deltas # NoDeltas
    PROVE  ServiceInv'
<1>1. RoomInv' /\ SnapshotView' = SnapshotView /\ \A k \in Key : ~Touches(deltas', k)
  BY FlushKeeps DEF CastFlush, ServiceInv
<1>2. UNCHANGED <<targets, overtaken, joinedSess, view, reply>> /\ flushes' = flushes + 1
  BY DEF CastFlush, handlerVars
<1>3. /\ pc[b] = "flush" /\ Goto(b, "address") /\ IsPc(pc) /\ flushes \in Nat
      /\ batch' = [batch EXCEPT ![b] = [number |-> flushes + 1, deltas |-> deltas]]
      /\ batch = [c \in Broadcasters |-> batch[c]]
  BY DEF CastFlush, ServiceInv, ServiceTypes
<1>4. /\ pc'[b] = "address" /\ IsPc(pc')
      /\ \A c \in Broadcasters : c # b => pc'[c] = pc[c]
  BY <1>3, GotoStep
<1>5. /\ batch' = [c \in Broadcasters |-> batch'[c]]
      /\ batch'[b].number = flushes + 1 /\ batch'[b].deltas = deltas
      /\ \A c \in Broadcasters : c # b => batch'[c] = batch[c]
  BY <1>3
<1>6. /\ b \notin UnderWay /\ targets[b] = {}
      /\ \A c \in UnderWay : batch[c].number \in 1 .. flushes
  BY <1>3 DEF ServiceInv, BatchInv
<1>7. UnderWay' = UnderWay \union {b}
  <2>1. batch'[b] # NoBatch
    BY <1>3, <1>5 DEF NoBatch
  <2>2. QED
    BY <1>5, <2>1 DEF UnderWay
<1>8. ServiceTypes'
  <2>1. IsBatch(deltas)
    BY RoomView DEF ServiceInv
  <2>2. \A c \in Broadcasters : IsBatch(batch'[c].deltas)
    BY <1>5, <2>1 DEF ServiceInv, ServiceTypes
  <2>3. /\ flushes' \in Nat /\ IsClient(view') /\ IsClient(reply')
        /\ targets' = [c \in Broadcasters |-> targets'[c]]
    BY <1>2, <1>3 DEF ServiceInv, ServiceTypes
  <2>4. QED
    BY <1>4, <1>5, <2>2, <2>3 DEF ServiceTypes
<1>9. BatchInv'
  BY <1>2, <1>3, <1>4, <1>5, <1>6, <1>7 DEF ServiceInv, BatchInv
<1>10. ASSUME CastInv PROVE CastInv'
  <2>1. \A c \in UnderWay : c # b /\ c \in Broadcasters /\ pc'[c] = pc[c] /\ batch'[c] = batch[c]
    BY <1>4, <1>5, <1>6 DEF UnderWay
  <2>2. \A s \in Sessions : Bound(s)' <=> Bound(s)
    BY <1>2 DEF Bound
  <2>3. OrderInv'
    <3>1. \A c, d \in UnderWay' :
              pc'[c] = "send" /\ pc'[d] = "address" => batch'[c].number < batch'[d].number
      BY <1>3, <1>4, <1>5, <1>6, <1>7, <1>10, <2>1 DEF CastInv, OrderInv
    <3>2. \A s \in Sessions, c, d \in UnderWay' :
              Bound(s)' /\ s \in targets'[c] /\ pc'[d] = "send"
                        /\ batch'[c].number < batch'[d].number => s \in targets'[d]
      BY <1>2, <1>4, <1>6, <1>7, <1>10, <2>1, <2>2 DEF CastInv, OrderInv
    <3>3. QED
      BY <3>1, <3>2 DEF OrderInv
  <2>4. LatestInv'
    <3> SUFFICES ASSUME NEW k \in Key, NEW c \in Broadcasters, Newest(c, k)'
                 PROVE  Says(batch'[c].deltas, k) = At(SnapshotView, k)
      BY <1>1 DEF LatestInv
    <3>1. c \in UnderWay' /\ Touches(batch'[c].deltas, k)
          /\ \A d \in UnderWay' : Touches(batch'[d].deltas, k) => batch'[d].number <= batch'[c].number
      BY DEF Newest
    <3>2. CASE c = b
      BY <1>5, <3>1, <3>2, PendingSays DEF ServiceInv
    <3>3. CASE c # b
      <4>1. c \in UnderWay /\ batch'[c] = batch[c] /\ batch[c].number \in 1 .. flushes
        BY <1>6, <1>7, <2>1, <3>1, <3>3
      <4>2. ~Touches(deltas, k)
        BY <1>3, <1>5, <1>7, <3>1, <4>1
      <4>3. Newest(c, k)
        BY <1>7, <2>1, <3>1, <4>1 DEF Newest
      <4>4. QED
        BY <1>10, <4>1, <4>2, <4>3 DEF CastInv, LatestInv
    <3>4. QED
      BY <3>2, <3>3
  <2>5. SyncedInv'
    <3> SUFFICES ASSUME NEW s \in Sessions, NEW k \in Key, Joined(s)', ~Covered(s, k)'
                 PROVE  At(Base(s)', k) = At(SnapshotView, k)
      BY <1>1 DEF SyncedInv
    <3>1. s \in Broadcasters
      BY DEF Broadcasters
    <3>2. Base(s)' = Base(s) /\ Joined(s)
      BY <1>2, <1>3, <1>4, <2>2, <3>1 DEF Base, Joined
    <3>3. \A c \in UnderWay' : Touches(batch'[c].deltas, k) => pc'[c] # "address" /\ s \notin targets[c]
      BY <1>2 DEF Covered, Concerns
    <3>4. ~Touches(deltas, k)
      BY <1>4, <1>5, <1>7, <3>3
    <3>5. ~Covered(s, k)
      BY <1>7, <2>1, <3>3, <3>4 DEF Covered, Concerns
    <3>6. QED
      BY <1>10, <3>2, <3>5 DEF CastInv, SyncedInv
  <2>6. QED
    BY <2>3, <2>4, <2>5 DEF CastInv
<1>11. QED
  BY <1>1, <1>2, <1>8, <1>9, <1>10 DEF ServiceInv

(* A batch gets its addressees: every session that is bound now. *)
LEMMA AddressStep ==
    ASSUME ServiceInv, NEW b \in Broadcasters, CastAddress(b)
    PROVE  ServiceInv'
<1>1. RoomInv' /\ SnapshotView' = SnapshotView /\ deltas' = deltas
  BY RoomKept DEF CastAddress, ServiceInv
<1>2. UNCHANGED <<batch, flushes, joinedSess, view, reply, UnderWay>>
  BY DEF CastAddress, handlerVars, clientVars, UnderWay
<1>3. /\ pc[b] = "address" /\ Goto(b, "send") /\ IsPc(pc)
      /\ targets' = [targets EXCEPT ![b] = Addressees]
      /\ targets = [c \in Broadcasters |-> targets[c]]
  BY DEF CastAddress, ServiceInv, ServiceTypes
<1>4. /\ pc'[b] = "send" /\ IsPc(pc')
      /\ \A c \in Broadcasters : c # b => pc'[c] = pc[c]
  BY <1>3, GotoStep
<1>5. /\ targets' = [c \in Broadcasters |-> targets'[c]] /\ targets'[b] = Addressees
      /\ \A c \in Broadcasters : c # b => targets'[c] = targets[c]
  BY <1>3
<1>6. b \in UnderWay
  BY <1>3 DEF ServiceInv, BatchInv
<1>7. ServiceTypes'
  BY <1>2, <1>3, <1>4, <1>5 DEF ServiceInv, ServiceTypes, Broadcasters
<1>8. BatchInv'
  BY <1>2, <1>3, <1>4, <1>5, <1>6 DEF ServiceInv, BatchInv, UnderWay
<1> DEFINE late == \E c \in Broadcasters : Earlier(c, b) /\ pc[c] = "address"
<1>9. ASSUME CastInv, ~late PROVE CastInv'
  <2>1. \A c \in UnderWay : /\ c \in Broadcasters
                            /\ batch[c].number < batch[b].number => pc[c] # "address"
    BY <1>9 DEF UnderWay, Earlier
  <2>2. \A s \in Sessions : (Bound(s)' <=> Bound(s)) /\ (Bound(s) => s \in Addressees)
    BY <1>2 DEF Bound, Addressees
  <2>3. \A c, d \in UnderWay : /\ batch[c].number \in Nat
                               /\ batch[c].number = batch[d].number => c = d
    BY DEF ServiceInv, BatchInv, ServiceTypes
  <2>4. OrderInv'
    <3>1. \A c, d \in UnderWay :
              pc'[c] = "send" /\ pc'[d] = "address" => batch[c].number < batch[d].number
      BY <1>4, <1>6, <1>9, <2>1, <2>3 DEF CastInv, OrderInv
    <3>2. ASSUME NEW s \in Sessions, NEW c \in UnderWay, NEW d \in UnderWay,
                 Bound(s), s \in targets'[c], pc'[d] = "send", batch[c].number < batch[d].number
          PROVE  s \in targets'[d]
      <4>1. CASE d = b
        BY <1>5, <2>2, <3>2, <4>1
      <4>2. CASE d # b
        <5>1. pc[d] = "send" /\ targets'[d] = targets[d]
          BY <1>4, <1>5, <2>1, <3>2, <4>2
        <5>2. c # b
          BY <1>3, <1>6, <1>9, <2>3, <3>2, <5>1 DEF CastInv, OrderInv
        <5>3. s \in targets[c]
          BY <1>5, <2>1, <3>2, <5>2
        <5>4. QED
          BY <1>9, <3>2, <5>1, <5>3 DEF CastInv, OrderInv
      <4>3. QED
        BY <4>1, <4>2
    <3>3. QED
      BY <1>2, <2>2, <3>1, <3>2 DEF OrderInv
  <2>5. LatestInv'
    BY <1>1, <1>2, <1>9 DEF CastInv, LatestInv, Newest
  <2>6. SyncedInv'
    <3> SUFFICES ASSUME NEW s \in Sessions, NEW k \in Key, Joined(s)', ~Covered(s, k)'
                 PROVE  At(Base(s)', k) = At(SnapshotView', k)
      BY DEF SyncedInv
    <3>1. s \in Broadcasters
      BY DEF Broadcasters
    <3>2. Base(s)' = Base(s) /\ Joined(s)
      BY <1>2, <1>3, <1>4, <2>2, <3>1 DEF Base, Joined
    <3>3. ~Touches(deltas, k)
          /\ \A c \in UnderWay : Touches(batch[c].deltas, k) => pc'[c] # "address" /\ s \notin targets'[c]
      BY <1>1, <1>2 DEF Covered, Concerns
    <3>4. ~Touches(batch[b].deltas, k)
      BY <1>5, <1>6, <2>2, <3>2, <3>3 DEF Joined
    <3>5. ~Covered(s, k)
      BY <1>4, <1>5, <2>1, <3>3, <3>4 DEF Covered, Concerns
    <3>6. QED
      BY <1>1, <1>9, <3>2, <3>5 DEF CastInv, SyncedInv
  <2>7. QED
    BY <2>4, <2>5, <2>6 DEF CastInv
<1>10. overtaken' = (overtaken \/ late)
  BY DEF CastAddress
<1> HIDE DEF late
<1>11. QED
  <2>1. CASE overtaken \/ late
    BY <1>1, <1>7, <1>8, <1>10, <2>1 DEF ServiceInv
  <2>2. CASE ~(overtaken \/ late)
    BY <1>1, <1>7, <1>8, <1>9, <2>2 DEF ServiceInv
  <2>3. QED
    BY <2>1, <2>2

(* What a batch does to the clients it goes to and reaches. *)
LEMMA ReceivedAt ==
    ASSUME NEW v, NEW b \in Broadcasters, IsClient(v), IsBatch(batch[b].deltas), NEW lost
    PROVE  /\ IsClient(Received(v, b, lost))
           /\ \A s \in Sessions : Received(v, b, lost)[s] # NoView => v[s] # NoView
           /\ \A s \in Sessions, k \in Key : Received(v, b, lost)[s] # NoView =>
                  At(Received(v, b, lost)[s], k) =
                      IF s \in targets[b] /\ Touches(batch[b].deltas, k)
                      THEN Says(batch[b].deltas, k) ELSE At(v[s], k)
<1> DEFINE r == Received(v, b, lost)
<1>1. \A s \in Sessions : r[s] = IF s \in lost THEN NoView
                                ELSE IF s \in targets[b] /\ v[s] # NoView
                                THEN ApplyDeltas(v[s], batch[b].deltas) ELSE v[s]
  BY DEF Received
<1>2. \A s \in Sessions : v[s] # NoView => /\ IsView(ApplyDeltas(v[s], batch[b].deltas))
                                           /\ ApplyDeltas(v[s], batch[b].deltas) # NoView
  BY ApplyView, ViewNotUnknown DEF IsClient
<1>3. r = [s \in Sessions |-> r[s]]
  BY DEF Received
<1> HIDE DEF r
<1>4. IsClient(r)
  BY <1>1, <1>2, <1>3 DEF IsClient
<1>5. ASSUME NEW s \in Sessions, NEW k \in Key, r[s] # NoView
      PROVE  At(r[s], k) = IF s \in targets[b] /\ Touches(batch[b].deltas, k)
                           THEN Says(batch[b].deltas, k) ELSE At(v[s], k)
  <2>1. At(ApplyDeltas(v[s], batch[b].deltas), k) =
            IF Touches(batch[b].deltas, k) THEN Says(batch[b].deltas, k) ELSE At(v[s], k)
    BY ApplyAt
  <2>2. s \notin lost /\ v[s] # NoView
    BY <1>1, <1>5
  <2>3. CASE s \in targets[b]
    BY <1>1, <2>1, <2>2, <2>3
  <2>4. CASE s \notin targets[b]
    BY <1>1, <2>2, <2>4
  <2>5. QED
    BY <2>3, <2>4
<1>6. \A s \in Sessions : r[s] # NoView => v[s] # NoView
  BY <1>1
<1>7. QED
  BY <1>4, <1>5, <1>6 DEF r

(* A batch is sent: the oldest one, unless the history is marked.           *)
LEMMA SendStep ==
    ASSUME ServiceInv, NEW b \in Broadcasters, CastSend(b)
    PROVE  ServiceInv'
<1>1. RoomInv' /\ SnapshotView' = SnapshotView /\ deltas' = deltas
  BY RoomKept DEF CastSend, ServiceInv
<1>2. UNCHANGED <<flushes, joinedSess>>
  BY DEF CastSend
<1>3. /\ pc[b] = "send" /\ Goto(b, "sent") /\ IsPc(pc)
      /\ targets' = [targets EXCEPT ![b] = {}] /\ batch' = [batch EXCEPT ![b] = NoBatch]
      /\ targets = [c \in Broadcasters |-> targets[c]] /\ batch = [c \in Broadcasters |-> batch[c]]
      /\ IsClient(view) /\ IsClient(reply) /\ IsBatch(batch[b].deltas)
  BY DEF CastSend, ServiceInv, ServiceTypes
<1>0. PICK lost : view' = Received(view, b, lost) /\ reply' = Received(reply, b, lost)
  BY DEF CastSend
<1>4. /\ pc'[b] = "sent" /\ IsPc(pc')
      /\ \A c \in Broadcasters : c # b => pc'[c] = pc[c]
  BY <1>3, GotoStep
<1>5. /\ targets' = [c \in Broadcasters |-> targets'[c]] /\ targets'[b] = {}
      /\ \A c \in Broadcasters : c # b => targets'[c] = targets[c]
      /\ batch' = [c \in Broadcasters |-> batch'[c]] /\ batch'[b] = NoBatch
      /\ \A c \in Broadcasters : c # b => batch'[c] = batch[c]
  BY <1>3
<1>6. UnderWay' = UnderWay \ {b} /\ b \in UnderWay
  BY <1>3, <1>5 DEF ServiceInv, BatchInv, UnderWay
<1>7. /\ IsClient(view') /\ IsClient(reply')
      /\ \A s \in Sessions : /\ view'[s] # NoView => view[s] # NoView
                             /\ reply'[s] # NoView => reply[s] # NoView
      /\ \A s \in Sessions, k \in Key :
             /\ view'[s] # NoView => At(view'[s], k) =
                    IF s \in targets[b] /\ Touches(batch[b].deltas, k)
                    THEN Says(batch[b].deltas, k) ELSE At(view[s], k)
             /\ reply'[s] # NoView => At(reply'[s], k) =
                    IF s \in targets[b] /\ Touches(batch[b].deltas, k)
                    THEN Says(batch[b].deltas, k) ELSE At(reply[s], k)
  BY <1>0, <1>3, ReceivedAt
<1>8. ServiceTypes'
  <2>1. IsBatch(NoBatch.deltas)
    BY NothingTouched DEF NoBatch
  <2>2. \A c \in Broadcasters : IsBatch(batch'[c].deltas)
    BY <1>5, <2>1 DEF ServiceInv, ServiceTypes
  <2>3. QED
    BY <1>2, <1>4, <1>5, <1>7, <2>2 DEF ServiceInv, ServiceTypes, Broadcasters
<1>9. BatchInv'
  BY <1>2, <1>4, <1>5, <1>6 DEF ServiceInv, BatchInv, UnderWay
<1> DEFINE late == \E c \in Broadcasters : Earlier(c, b)
<1>10. ASSUME CastInv, ~late PROVE CastInv'
  <2>1. \A c, d \in UnderWay : /\ c \in Broadcasters /\ batch[c].number \in Nat
                               /\ batch[c].number = batch[d].number => c = d
    BY DEF ServiceInv, BatchInv, ServiceTypes, UnderWay
  <2>2. \A c \in UnderWay : c # b => batch[b].number < batch[c].number
    BY <1>6, <1>10, <2>1 DEF Earlier, UnderWay
  <2>3. \A s \in Sessions : /\ s \in Broadcasters /\ (Bound(s)' <=> Bound(s))
                            /\ Joined(s)' => Joined(s)
    BY <1>2, <1>3, <1>4, <1>7 DEF Bound, Base, Joined, Broadcasters
  <2>4. \A s \in Sessions, k \in Key : Joined(s)' =>
            At(Base(s)', k) = IF s \in targets[b] /\ Touches(batch[b].deltas, k)
                              THEN Says(batch[b].deltas, k) ELSE At(Base(s), k)
    BY <1>3, <1>4, <1>7, <2>3 DEF Base, Joined
  <2>5. \A c \in UnderWay' : /\ c \in UnderWay /\ c # b /\ batch'[c] = batch[c]
                             /\ pc'[c] = pc[c] /\ targets'[c] = targets[c]
    BY <1>4, <1>5, <1>6, <2>1
  <2>6. OrderInv'
    BY <1>10, <2>3, <2>5 DEF CastInv, OrderInv
  <2>7. LatestInv'
    <3> SUFFICES ASSUME NEW k \in Key, NEW c \in Broadcasters, ~Touches(deltas, k), Newest(c, k)'
                 PROVE  Says(batch'[c].deltas, k) = At(SnapshotView, k)
      BY <1>1 DEF LatestInv
    <3>1. c \in UnderWay' /\ Touches(batch'[c].deltas, k)
          /\ \A d \in UnderWay' : Touches(batch'[d].deltas, k) => batch'[d].number <= batch'[c].number
      BY DEF Newest
    <3>2. Newest(c, k) /\ batch'[c] = batch[c]
      BY <1>6, <2>1, <2>2, <2>5, <3>1 DEF Newest
    <3>3. QED
      BY <1>10, <3>2 DEF CastInv, LatestInv
  <2>8. SyncedInv'
    <3> SUFFICES ASSUME NEW s \in Sessions, NEW k \in Key, Joined(s)', ~Covered(s, k)'
                 PROVE  At(Base(s)', k) = At(SnapshotView, k)
      BY <1>1 DEF SyncedInv
    <3>0. Joined(s)
      BY <2>3
    <3>1. ~Touches(deltas, k)
      BY <1>1 DEF Covered
    <3>2. \A c \in UnderWay : c # b /\ Touches(batch[c].deltas, k) => ~Concerns(c, s)
      BY <1>6, <2>5 DEF Covered, Concerns
    <3>3. CASE s \in targets[b] /\ Touches(batch[b].deltas, k)
      <4>1. \A c \in UnderWay : c # b => ~Touches(batch[c].deltas, k)
        <5> SUFFICES ASSUME NEW c \in UnderWay, c # b, Touches(batch[c].deltas, k) PROVE FALSE
          OBVIOUS
        <5>1. pc[c] = "send" /\ s \notin targets[c]
          BY <2>1, <3>2 DEF Concerns, ServiceInv, BatchInv
        <5>2. batch[b].number < batch[c].number /\ Bound(s)
          BY <2>2, <3>0 DEF Joined
        <5>3. QED
          BY <1>6, <1>10, <3>3, <5>1, <5>2 DEF CastInv, OrderInv
      <4>2. Newest(b, k)
        BY <1>6, <2>1, <3>3, <4>1 DEF Newest
      <4>3. Says(batch[b].deltas, k) = At(SnapshotView, k)
        BY <1>10, <3>1, <4>2 DEF CastInv, LatestInv
      <4>4. QED
        BY <2>4, <3>3, <4>3
    <3>4. CASE ~(s \in targets[b] /\ Touches(batch[b].deltas, k))
      <4>1. ~Covered(s, k)
        BY <1>3, <3>1, <3>2, <3>4 DEF Covered, Concerns
      <4>2. At(Base(s), k) = At(SnapshotView, k)
        BY <1>10, <3>0, <4>1 DEF CastInv, SyncedInv
      <4>3. QED
        BY <2>4, <3>4, <4>2
    <3>5. QED
      BY <3>3, <3>4
  <2>9. QED
    BY <2>6, <2>7, <2>8 DEF CastInv
<1>11. overtaken' = (overtaken \/ late)
  BY DEF CastSend
<1> HIDE DEF late
<1>12. QED
  <2>1. CASE overtaken \/ late
    BY <1>1, <1>8, <1>9, <1>11, <2>1 DEF ServiceInv
  <2>2. CASE ~(overtaken \/ late)
    BY <1>1, <1>8, <1>9, <1>10, <2>2 DEF ServiceInv
  <2>3. QED
    BY <2>1, <2>2

----------------------------------------------------------------------------
(* Every step of the service, and what joined clients see.                  *)

LEMMA QuietGoto ==
    ASSUME ServiceInv, Moves, UNCHANGED <<view, reply, joinedSess, castVars>>,
           NEW b \in Broadcasters, NEW label, pc[b] \notin Marked, label \notin Marked,
           Goto(b, label)
    PROVE  ServiceInv'
<1>1. IsPc(pc)
  BY DEF ServiceInv, ServiceTypes
<1>2. /\ pc'[b] = label /\ IsPc(pc')
      /\ \A c \in Broadcasters : c # b => pc'[c] = pc[c]
  BY <1>1, GotoStep
<1>3. QED
  BY <1>2, QuietStep

LEMMA HandlerKeeps ==
    ASSUME ServiceInv, NEW s \in Sessions,
           JoinBind(s) \/ OpMatch(s) \/ JoinSnapshot(s) \/ JoinReply(s)
               \/ OpCheckState(s) \/ OpApply(s) \/ OpRefused(s) \/ OpReply(s)
    PROVE  ServiceInv'
<1>1. s \in Broadcasters /\ PlayerOf[s] \in Players
  BY SessionAssumption DEF Broadcasters
<1>2. CASE OpMatch(s)
  <2>1. /\ Moves /\ UNCHANGED <<view, reply, joinedSess, castVars>>
        /\ pc[s] = "idle" /\ Goto(s, "checkState")
    BY <1>2 DEF OpMatch, StartRequest, Moves, clientVars
  <2>2. QED
    BY <1>1, <2>1, QuietGoto DEF Marked
<1>3. CASE OpCheckState(s) \/ OpRefused(s) \/ OpReply(s)
  <2>1. /\ Moves /\ UNCHANGED <<view, reply, joinedSess, castVars>>
        /\ pc[s] \in {"checkState", "apply", "sent"} /\ (Goto(s, "idle") \/ Goto(s, "apply"))
    BY <1>3 DEF OpCheckState, OpRefused, OpReply, Moves, clientVars, handlerVars
  <2>2. QED
    BY <1>1, <2>1, QuietGoto DEF Marked
<1>4. CASE OpApply(s)
  <2>1. /\ OpOf(PlayerOf[s]) /\ UNCHANGED <<view, reply, joinedSess, castVars>>
        /\ pc[s] = "apply" /\ Goto(s, "flush")
    BY <1>4 DEF OpApply, clientVars, handlerVars
  <2>2. Moves
    BY <1>1, <2>1 DEF Moves
  <2>3. QED
    BY <1>1, <2>1, <2>2, QuietGoto DEF Marked
<1>5. QED
  BY <1>2, <1>3, <1>4, BindStep, SnapshotStep, ReplyStep

LEMMA BroadcastKeeps ==
    ASSUME ServiceInv, NEW b \in Broadcasters, Broadcast(b)
    PROVE  ServiceInv'
<1>1. CASE CastFlush(b) /\ deltas = NoDeltas
  <2>1. UNCHANGED <<clockVars, settled, players, towerVars, minerVars, monsterVars, deltas>>
    BY <1>1 DEF CastFlush, FlushDeltas
  <2>2. Moves
    BY ONLY <2>1 DEF Moves, roomVars
  <2>3. /\ UNCHANGED <<view, reply, joinedSess, castVars>>
        /\ pc[b] = "flush" /\ Goto(b, "sent")
    BY <1>1 DEF CastFlush, handlerVars, castVars
  <2>4. QED
    BY <2>2, <2>3, QuietGoto DEF Marked
<1>2. QED
  BY <1>1, FlushStep, AddressStep, SendStep DEF Broadcast

LEMMA LoopKeeps ==
    ASSUME ServiceInv, LoopStep
    PROVE  ServiceInv'
<1>1. TickLoop \in Broadcasters
  BY DEF Broadcasters
<1>2. CASE RunRoomTick \/ LoopExit \/ FinishBattleRoom
  <2>1. /\ Moves /\ UNCHANGED <<view, reply, joinedSess, castVars>>
        /\ pc[TickLoop] \in {"select", "sent"}
        /\ \E label \in {"flush", "exited", "select"} : Goto(TickLoop, label)
    BY <1>2 DEF RunRoomTick, LoopExit, FinishBattleRoom, Moves, clientVars, handlerVars
  <2>2. QED
    BY <1>1, <2>1, QuietGoto DEF Marked
<1>3. QED
  BY <1>1, <1>2, BroadcastKeeps DEF LoopStep

LEMMA SettleKeeps ==
    ASSUME ServiceInv, SettleStep \/ UNCHANGED serviceVars
    PROVE  ServiceInv'
<1>1. Moves /\ UNCHANGED <<view, reply, joinedSess, castVars, pc>>
  BY DEF SettleStep, SettleMark, SettleBuild, SettleSend, StopRoomLoop, AwaitLoop,
         Moves, clientVars, handlerVars, serviceVars
<1>2. IsPc(pc')
  BY <1>1 DEF ServiceInv, ServiceTypes
<1>3. QED
  BY <1>1, <1>2, QuietStep

LEMMA ServiceInvStep ==
    ASSUME ServiceInv, [ServiceNext]_serviceVars
    PROVE  ServiceInv'
<1>1. \A s \in Sessions : s \in Broadcasters
  BY DEF Broadcasters
<1>2. ASSUME NEW s \in Sessions, JoinBind(s) \/ OpMatch(s) \/ HandlerStep(s)
      PROVE  ServiceInv'
  BY <1>1, <1>2, HandlerKeeps, BroadcastKeeps DEF HandlerStep
<1>3. QED
  BY <1>2, LoopKeeps, SettleKeeps DEF ServiceNext

LEMMA ServiceInvInit == ServiceInit => ServiceInv
<1> SUFFICES ASSUME ServiceInit PROVE ServiceInv
  OBVIOUS
<1>1. RoomInv
  BY RoomInit DEF ServiceInit
<1>2. /\ pc = [b \in Broadcasters |-> IF b = TickLoop THEN "select" ELSE "idle"]
      /\ reply = [s \in Sessions |-> NoView] /\ view = [s \in Sessions |-> NoView]
      /\ batch = [b \in Broadcasters |-> NoBatch] /\ targets = [b \in Broadcasters |-> {}]
      /\ flushes = 0 /\ joinedSess = EmptyFcn
  BY DEF ServiceInit
<1>3. IsBatch(NoBatch.deltas)
  BY NothingTouched DEF NoBatch
<1>4. ServiceTypes
  BY <1>2, <1>3 DEF ServiceTypes, IsPc, IsClient, Broadcasters
<1>5. UnderWay = {}
  BY <1>2 DEF UnderWay
<1>6. BatchInv
  BY <1>2, <1>5 DEF BatchInv
<1>7. \A s \in Sessions : ~Joined(s)
  BY <1>2 DEF Joined, Base
<1>8. CastInv
  BY <1>5, <1>7 DEF CastInv, OrderInv, LatestInv, SyncedInv, Newest
<1>9. QED
  BY <1>1, <1>4, <1>6, <1>8 DEF ServiceInv

(* Nothing under way and nothing pending: nothing is left to differ in.     *)
LEMMA QuietConverged == ServiceInv => ClientsConverge
<1> SUFFICES ASSUME ServiceInv, Quiet, ~overtaken, NEW s \in Sessions, Bound(s), view[s] # NoView
             PROVE  view[s] = SnapshotView
  BY DEF ClientsConverge
<1>1. pc[s] = "idle" /\ \A b \in Broadcasters : pc[b] \notin {"address", "send"}
  BY DEF Quiet, Broadcasters
<1>2. UnderWay = {}
  BY <1>1 DEF ServiceInv, BatchInv, UnderWay
<1>3. Joined(s) /\ Base(s) = view[s]
  BY <1>1 DEF Joined, Base
<1>4. \A k \in Key : ~Covered(s, k)
  BY <1>2, NothingTouched DEF Covered, Quiet
<1>5. \A k \in Key : At(view[s], k) = At(SnapshotView, k)
  BY <1>3, <1>4 DEF ServiceInv, CastInv, SyncedInv
<1>6. IsView(view[s]) /\ IsView(SnapshotView)
  BY RoomView DEF ServiceInv, ServiceTypes, IsClient
<1>7. QED
  BY <1>5, <1>6, ViewsAlike

(* For every number of players and sessions, with any number of joins,      *)
(* operations and ticks in flight, and whichever sends fail: when the room  *)
(* is quiet, a client that lost nothing since the snapshot of its join has  *)
(* exactly the state of the room, unless a batch overtook another.          *)
THEOREM ClientsStayInStep == ServiceSpec => []ClientsConverge
<1>1. ServiceInv /\ [ServiceNext]_serviceVars => ServiceInv'
  BY ServiceInvStep
<1>2. QED
  BY <1>1, ServiceInvInit, QuietConverged, PTL DEF ServiceSpec

----------------------------------------------------------------------------
(* The settlement: the service refines BattleSettlement, step by step.      *)

(* The room's clock and outcome in the service, which never calls Start or  *)
(* Abort: the clock starts at 0 and reaches the timeout only in closing.    *)
RoomEnd ==
    /\ startTick = 0 /\ (state = "CREATED" => serverTick = 0)
    /\ state # "CLOSED" => finishReason = "NONE" /\ serverTick < Timeout
    /\ state = "CLOSED" => /\ finishReason \in {"WIN", "LOSE", "TIMEOUT"}
                           /\ endTick \in 1 .. Timeout

(* The settlement goroutine runs once, on a closed room, and has sent       *)
(* nothing before it gets to its send.                                      *)
SettleInv ==
    /\ sawClosed => state = "CLOSED"
    /\ settleOnce <=> settlePc # "none"
    /\ settlePc # "none" => state = "CLOSED"
    /\ settlePc \in {"none", "mark", "build", "send"} => reports = <<>>
    /\ settlePc = "send" => /\ settlement.reason = finishReason
                            /\ settlement.startTick = startTick /\ settlement.endTick = endTick

EndInv == TypeOK /\ RoomEnd /\ SettleInv

endVars == <<state, startTick, endTick, finishReason>>

(* A tick either leaves the outcome open or decides it. *)
LEMMA TickEnds ==
    ASSUME TypeOK, RoomEnd, AdvanceTick
    PROVE  /\ RoomEnd' /\ state # "CLOSED" /\ finishReason = "NONE"
           /\ state' # "CLOSED" => finishReason' = "NONE"
<1> DEFINE now     == serverTick + 1
           started == IF state = "CREATED" THEN serverTick ELSE startTick
<1>1. /\ serverTick \in Nat /\ Timeout \in Nat \ {0}
      /\ state # "CLOSED" /\ finishReason = "NONE" /\ serverTick < Timeout /\ started = 0
  BY ParameterTypes DEF TypeOK, RoomEnd, AdvanceTick, CanAdvance
<1>2. serverTick' = now /\ startTick' = started
  BY DEF AdvanceTick
<1>3. \A n, m : /\ Outcome(n, m) \in {"WIN", "LOSE", "TIMEOUT", "NONE"}
                /\ Outcome(n, m) = "NONE" => ~(n - m >= Timeout)
  BY DEF Outcome
<1>4. /\ Outcome(now, started) # "NONE" =>
             state' = "CLOSED" /\ finishReason' = Outcome(now, started) /\ endTick' = now
      /\ Outcome(now, started) = "NONE" =>
             state' = "RUNNING" /\ finishReason' = finishReason
  BY DEF AdvanceTick, Finish
<1>5. PICK o, n : o = Outcome(now, started) /\ n = now
  OBVIOUS
<1>6. /\ n = serverTick + 1 /\ started = 0
      /\ o \in {"WIN", "LOSE", "TIMEOUT", "NONE"} /\ (o = "NONE" => ~(n - 0 >= Timeout))
  BY <1>1, <1>3, <1>5
<1> HIDE DEF now, started
<1>7. RoomEnd' /\ (state' # "CLOSED" => finishReason' = "NONE")
  <2>1. CASE o = "NONE"
    BY <1>1, <1>2, <1>4, <1>5, <1>6, <2>1 DEF RoomEnd
  <2>2. CASE o # "NONE"
    BY <1>1, <1>2, <1>4, <1>5, <1>6, <2>2 DEF RoomEnd
  <2>3. QED
    BY <2>1, <2>2
<1>8. QED
  BY <1>1, <1>7

(* Nothing else that the service does to the room touches its end. *)
LEMMA OpKeepsEnd ==
    ASSUME (\E p \in Players : OpOf(p)) \/ MarkSettled \/ FlushDeltas \/ UNCHANGED roomVars
    PROVE  UNCHANGED <<endVars, serverTick>>
<1>1. ASSUME NEW p \in Players, OpOf(p) PROVE UNCHANGED clockVars
  BY <1>1 DEF OpOf, BuildTower, RerollTower, MergeTower, BuyMiner
<1>2. MarkSettled \/ FlushDeltas \/ UNCHANGED roomVars => UNCHANGED clockVars
  BY DEF MarkSettled, FlushDeltas, roomVars
<1>3. UNCHANGED clockVars => UNCHANGED <<endVars, serverTick>>
  BY DEF clockVars, endVars
<1>4. QED
  BY <1>1, <1>2, <1>3

(* What a step of the service does to the end of the room, to the loop's     *)
(* view of it and to the settlement.                                        *)
StepKinds ==
    \/ RunRoomTick
    \/ FinishBattleRoom
    \/ SettleStep
    \/ UNCHANGED <<endVars, serverTick, sawClosed, settleOnce, settleVars>>

LEMMA ServiceSteps ==
    ASSUME [ServiceNext]_serviceVars
    PROVE  [Next]_roomVars /\ StepKinds
<1> DEFINE Other == (\E p \in Players : OpOf(p)) \/ FlushDeltas \/ UNCHANGED roomVars
           Rest  == UNCHANGED <<sawClosed, settleOnce, settleVars>>
<1>1. ASSUME NEW b, Broadcast(b) PROVE Other /\ Rest
  BY <1>1 DEF Broadcast, CastFlush, CastAddress, CastSend, loopVars
<1>2. ASSUME NEW s \in Sessions, JoinBind(s) \/ OpMatch(s) \/ HandlerStep(s)
      PROVE  Other /\ Rest
  <2>1. PlayerOf[s] \in Players
    BY SessionAssumption
  <2>2. QED
    BY <1>1, <1>2, <2>1
       DEF JoinBind, OpMatch, HandlerStep, JoinSnapshot, JoinReply, OpCheckState, OpApply,
           OpRefused, OpReply, loopVars
<1>3. LoopExit \/ UNCHANGED serviceVars => UNCHANGED roomVars /\ Rest
  BY DEF LoopExit, loopVars, serviceVars
<1>4. CASE RunRoomTick
  <2>1. [Next]_roomVars
    BY <1>4 DEF RunRoomTick, Next
  <2>2. QED
    BY <1>4, <2>1 DEF StepKinds
<1>5. CASE FinishBattleRoom
  <2>1. [Next]_roomVars
    BY <1>5 DEF FinishBattleRoom
  <2>2. QED
    BY <1>5, <2>1 DEF StepKinds
<1>6. CASE SettleStep
  <2>1. [Next]_roomVars
    BY <1>6 DEF SettleStep, SettleMark, SettleBuild, SettleSend, StopRoomLoop, AwaitLoop, Next
  <2>2. QED
    BY <1>6, <2>1 DEF StepKinds
<1>7. CASE Other /\ Rest
  <2>1. [Next]_roomVars
    BY <1>7 DEF Next, PlayerOp
  <2>2. UNCHANGED <<endVars, serverTick>>
    BY <1>7, OpKeepsEnd
  <2>3. QED
    BY <1>7, <2>1, <2>2 DEF StepKinds
<1> HIDE DEF Other, Rest
<1>8. [ServiceNext]_serviceVars =>
          \/ Other /\ Rest
          \/ LoopExit \/ UNCHANGED serviceVars \/ RunRoomTick \/ FinishBattleRoom \/ SettleStep
  BY <1>1, <1>2 DEF ServiceNext, LoopStep
<1>9. QED
  BY <1>3, <1>4, <1>5, <1>6, <1>7, <1>8 DEF Other

LEMMA EndInvStep ==
    ASSUME EndInv, [ServiceNext]_serviceVars
    PROVE  EndInv'
<1>1. TypeOK'
  BY ServiceSteps, TypeOKStep DEF EndInv
<1>2. CASE RunRoomTick
  <2>1. AdvanceTick \/ (state = "CLOSED" /\ UNCHANGED roomVars)
    BY <1>2 DEF RunRoomTick
  <2>2. sawClosed' = (state' = "CLOSED") /\ UNCHANGED <<settleOnce, settleVars>>
    BY <1>2 DEF RunRoomTick
  <2>3. CASE AdvanceTick
    <3>1. RoomEnd' /\ state # "CLOSED"
      BY <2>3, TickEnds DEF EndInv
    <3>2. QED
      BY <1>1, <2>2, <3>1 DEF EndInv, SettleInv, settleVars
  <2>4. CASE state = "CLOSED" /\ UNCHANGED roomVars
    <3>1. UNCHANGED <<endVars, serverTick>>
      BY <2>4, OpKeepsEnd
    <3>2. QED
      BY <1>1, <2>2, <2>4, <3>1 DEF EndInv, RoomEnd, SettleInv, settleVars, endVars
  <2>5. QED
    BY <2>1, <2>3, <2>4
<1>3. CASE FinishBattleRoom
  <2>1. UNCHANGED <<endVars, serverTick>>
    BY <1>3, OpKeepsEnd DEF FinishBattleRoom
  <2>2. QED
    BY <1>1, <1>3, <2>1 DEF FinishBattleRoom, SettleDue, EndInv, RoomEnd, SettleInv, endVars
<1>4. CASE SettleStep
  <2>1. UNCHANGED <<endVars, serverTick>> /\ UNCHANGED <<sawClosed, settleOnce>>
    <3>1. MarkSettled \/ UNCHANGED roomVars
      BY <1>4 DEF SettleStep, SettleMark, SettleBuild, SettleSend, StopRoomLoop, AwaitLoop
    <3>2. UNCHANGED <<sawClosed, settleOnce>>
      BY <1>4 DEF SettleStep, SettleMark, SettleBuild, SettleSend, StopRoomLoop, AwaitLoop, loopVars
    <3>3. QED
      BY <3>1, <3>2, OpKeepsEnd
  <2>2. RoomEnd'
    BY <2>1 DEF EndInv, RoomEnd, endVars
  <2>3. CASE SettleBuild
    BY <1>1, <2>1, <2>2, <2>3 DEF SettleBuild, EndInv, SettleInv, endVars
  <2>4. CASE SettleMark \/ SettleSend \/ StopRoomLoop \/ AwaitLoop
    BY <1>1, <2>1, <2>2, <2>4
       DEF SettleMark, SettleSend, AfterSend, StopRoomLoop, AfterStop, AwaitLoop,
           EndInv, SettleInv, endVars
  <2>5. QED
    BY <1>4, <2>3, <2>4 DEF SettleStep
<1>5. CASE UNCHANGED <<endVars, serverTick, sawClosed, settleOnce, settleVars>>
  BY <1>1, <1>5 DEF EndInv, RoomEnd, SettleInv, endVars, settleVars
<1>6. QED
  BY <1>2, <1>3, <1>4, <1>5, ServiceSteps DEF StepKinds

LEMMA EndInvInit == ServiceInit => EndInv
<1> SUFFICES ASSUME ServiceInit PROVE EndInv
  OBVIOUS
<1>1. TypeOK
  BY RoomTypeInit DEF ServiceInit
<1>2. RoomEnd
  BY ParameterTypes DEF ServiceInit, Init, RoomEnd
<1>3. SettleInv
  BY DEF ServiceInit, SettleInv
<1>4. QED
  BY <1>1, <1>2, <1>3 DEF EndInv

(* The abstract state of a state of the service. *)
Reported == [i \in DOMAIN reports |->
                 <<reports[i].reason, reports[i].startTick, reports[i].endTick>>]
FinalOutcomes == {"WIN", "LOSE", "TIMEOUT"} \X {0} \X (1 .. Timeout)

LEMMA OneReport ==
    ASSUME reports = <<>>, reports' = Append(reports, settlement)
    PROVE  /\ Reported = <<>>
           /\ Reported' = <<(<<settlement.reason, settlement.startTick, settlement.endTick>>)>>
<1>1. DOMAIN reports = {} /\ DOMAIN reports' = {1} /\ reports'[1] = settlement
  OBVIOUS
<1>2. Reported = <<>>
  BY <1>1 DEF Reported
<1>3. Reported' = [i \in {1} |-> <<settlement.reason, settlement.startTick, settlement.endTick>>]
  BY <1>1 DEF Reported
<1>4. QED
  BY <1>2, <1>3

LEMMA VerdictCases ==
    ASSUME EndInv
    PROVE  /\ state # "CLOSED" => Verdict = <<>>
           /\ state = "CLOSED" => /\ Verdict = <<finishReason, startTick, endTick>>
                                  /\ Verdict \in FinalOutcomes /\ Verdict # <<>>
BY DEF EndInv, RoomEnd, Verdict, FinalOutcomes

(* Every step decides the outcome, reports it, or does neither. *)
LEMMA SettlementStep ==
    ASSUME EndInv, [ServiceNext]_serviceVars
    PROVE  \/ Verdict = <<>> /\ Verdict' \in FinalOutcomes /\ Reported' = Reported
           \/ Verdict # <<>> /\ Reported = <<>> /\ Reported' = <<Verdict>> /\ Verdict' = Verdict
           \/ Verdict' = Verdict /\ Reported' = Reported
<1>1. EndInv'
  BY EndInvStep
<1>2. UNCHANGED endVars => Verdict' = Verdict
  BY DEF endVars, Verdict
<1>3. UNCHANGED reports => Reported' = Reported
  BY DEF Reported
<1>4. (state # "CLOSED")' => (Verdict = <<>>)'
  BY <1>1, VerdictCases, PTL
<1>5. (state = "CLOSED")' => (Verdict \in FinalOutcomes)'
  BY <1>1, VerdictCases, PTL
<1>6. CASE RunRoomTick
  <2>1. UNCHANGED reports
    BY <1>6 DEF RunRoomTick, settleVars
  <2>2. CASE AdvanceTick
    <3>1. Verdict = <<>>
      BY <2>2, TickEnds, VerdictCases DEF EndInv
    <3>2. Verdict' = <<>> \/ Verdict' \in FinalOutcomes
      BY <1>4, <1>5
    <3>3. QED
      BY <1>3, <2>1, <3>1, <3>2
  <2>3. CASE UNCHANGED roomVars
    BY <1>2, <1>3, <2>1, <2>3, OpKeepsEnd
  <2>4. QED
    BY <1>6, <2>2, <2>3 DEF RunRoomTick
<1>7. CASE SettleSend
  <2>1. UNCHANGED endVars
    BY <1>7, OpKeepsEnd DEF SettleSend
  <2>2. /\ settlePc = "send" /\ reports = <<>> /\ reports' = Append(reports, settlement)
        /\ state = "CLOSED" /\ settlement.reason = finishReason
        /\ settlement.startTick = startTick /\ settlement.endTick = endTick
    BY <1>7 DEF SettleSend, EndInv, SettleInv
  <2>3. Reported = <<>> /\ Reported' = <<(<<finishReason, startTick, endTick>>)>>
    BY <2>2, OneReport
  <2>4. QED
    BY <1>2, <2>1, <2>2, <2>3, VerdictCases
<1>8. CASE FinishBattleRoom \/ SettleMark \/ SettleBuild \/ StopRoomLoop \/ AwaitLoop
  <2>1. UNCHANGED reports /\ (MarkSettled \/ UNCHANGED roomVars)
    BY <1>8 DEF FinishBattleRoom, SettleMark, SettleBuild, StopRoomLoop, AwaitLoop
  <2>2. QED
    BY <1>2, <1>3, <2>1, OpKeepsEnd
<1>9. CASE UNCHANGED <<endVars, serverTick, sawClosed, settleOnce, settleVars>>
  BY <1>2, <1>3, <1>9 DEF settleVars
<1>10. QED
  BY <1>6, <1>7, <1>8, <1>9, ServiceSteps DEF StepKinds, SettleStep

(* The room runs in the service as it does alone. *)
THEOREM ServiceRunsTheRoom == ServiceSpec => Init /\ [][Next]_roomVars
<1>1. ServiceInit => Init
  BY DEF ServiceInit
<1>2. [ServiceNext]_serviceVars => [Next]_roomVars
  BY ServiceSteps
<1>3. QED
  BY <1>1, <1>2, PTL DEF ServiceSpec

(* One outcome is decided, and that one is reported, once, whatever the     *)
(* clients, the tick loop and the settlement goroutine do between the locks:*)
(* the safety half of ReportsOneOutcome.                                    *)
THEOREM OutcomeIsReportedOnce ==
    ServiceSpec => Settlements!OutcomeInit
                       /\ [][Settlements!OutcomeNext]_(Settlements!outcomeVars)
<1>1. ServiceInit => Settlements!OutcomeInit
  <2> SUFFICES ASSUME ServiceInit PROVE Settlements!OutcomeInit
    OBVIOUS
  <2>1. reports = <<>> /\ finishReason = "NONE"
    BY DEF ServiceInit, Init
  <2>2. Reported = <<>> /\ Verdict = <<>>
    BY <2>1 DEF Reported, Verdict
  <2>3. QED
    BY <2>2 DEF Settlements!OutcomeInit, Reported
<1>2. EndInv /\ [ServiceNext]_serviceVars
          => [Settlements!OutcomeNext]_(Settlements!outcomeVars)
  <2> SUFFICES ASSUME EndInv, [ServiceNext]_serviceVars
               PROVE  [Settlements!OutcomeNext]_(Settlements!outcomeVars)
    OBVIOUS
  <2>1. CASE Verdict = <<>> /\ Verdict' \in FinalOutcomes /\ Reported' = Reported
    BY <2>1 DEF Settlements!OutcomeNext, Settlements!Decide, Reported, FinalOutcomes
  <2>2. CASE Verdict # <<>> /\ Reported = <<>> /\ Reported' = <<Verdict>> /\ Verdict' = Verdict
    BY <2>2 DEF Settlements!OutcomeNext, Settlements!Report, Reported
  <2>3. CASE Verdict' = Verdict /\ Reported' = Reported
    BY <2>3 DEF Settlements!outcomeVars, Reported
  <2>4. QED
    BY <2>1, <2>2, <2>3, SettlementStep
<1>3. EndInv /\ [ServiceNext]_serviceVars => EndInv'
  BY EndInvStep
<1>4. QED
  BY <1>1, <1>2, <1>3, EndInvInit, PTL DEF ServiceSpec

(* The outcome is the one the room's final state calls for, also when       *)
(* operations slip in between the check of the room's state and the lock.   *)
THEOREM OutcomeStaysSound == ServiceSpec => []OutcomeSound
<1>1. ServiceInit => TypeOK /\ WaveInv /\ DamageAccounted /\ OutcomeSound
  BY RoomTypeInit, WaveInvInit, DamageInit, OutcomeInit DEF ServiceInit
<1>2. TypeOK /\ WaveInv /\ DamageAccounted /\ OutcomeSound /\ [ServiceNext]_serviceVars
          => (TypeOK /\ WaveInv /\ DamageAccounted /\ OutcomeSound)'
  BY ServiceSteps, TypeOKStep, WaveInvStep, DamageStep, OutcomeStep
<1>3. QED
  BY <1>1, <1>2, PTL DEF ServiceSpec
==============================================================================
