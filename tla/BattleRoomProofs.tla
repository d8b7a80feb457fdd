--------------------------- MODULE BattleRoomProofs ---------------------------
(***************************************************************************)
(* Proofs about BattleRoom for every configuration ConfigAssumption        *)
(* allows: any players, grids, decks, costs and waves.                     *)
(*                                                                         *)
(* TypeOK is inductive by itself.  GridConsistent, MinersOnSchedule and    *)
(* GoldConserved rest on TypeOK only.  MonstersOnSchedule, DamageAccounted *)
(* and OutcomeSound rest on WaveInv, which says how far each wave has been *)
(* spawned; OutcomeSound needs DamageAccounted as well.  Each is proved    *)
(* with one step per action of Next.                                       *)
(***************************************************************************)
EXTENDS BattleRoom, FiniteSetTheorems, TLAPS

----------------------------------------------------------------------------
(* Constants. *)

(* Costs and initial amounts are natural numbers. *)
LEMMA AmountTypes ==
    /\ InitialGold \in Nat /\ InitialMana \in Nat /\ BuildCostGold \in Nat
    /\ RerollCostMana \in Nat /\ MinerCostGold \in Nat /\ MinerProduceMana \in Nat
BY ConfigAssumption DEF ConfigAssumption

(* NewRoom's defaults leave every normalised parameter positive. *)
LEMMA ParameterTypes ==
    /\ MaxLevel \in Nat \ {0} /\ InitialHP \in Nat \ {0} /\ Damage \in Nat \ {0}
    /\ Timeout \in Nat \ {0} /\ Interval \in Nat \ {0}
BY ConfigAssumption
   DEF ConfigAssumption, OrDefault, MaxLevel, InitialHP, Damage, Timeout, Interval

(* The same for the waves that NewRoom keeps. *)
LEMMA WaveTypes ==
    ASSUME NEW w \in WaveIDs
    PROVE  /\ Waves[w] \in Wave /\ Gap(w) \in Nat \ {0}
           /\ Speed(w) \in Nat \ {0} /\ Path(w) \in Nat \ {0}
<1>1. Waves[w] \in Wave
  BY ConfigAssumption DEF ConfigAssumption, WaveIDs
<1>2. QED
  BY <1>1 DEF Wave, OrDefault, Gap, Speed, Path

(* There are finitely many waves and finitely many monsters in all. *)
LEMMA MonsterIDsFinite == IsFiniteSet(WaveIDs) /\ IsFiniteSet(MonsterIDs)
<1>1. IsFiniteSet(WaveIDs)
  <2>1. DOMAIN Waves = 1 .. Len(Waves) /\ Len(Waves) \in Nat
    BY ConfigAssumption DEF ConfigAssumption
  <2>2. IsFiniteSet(DOMAIN Waves)
    BY <2>1, FS_Interval
  <2>3. QED
    BY <2>2, FS_Subset DEF WaveIDs
<1>2. DEFINE f == [w \in WaveIDs |-> {w} \X (1 .. Waves[w].count)]
<1>3. IsFiniteSet({f[w] : w \in WaveIDs})
  <2>1. f \in Surjection(WaveIDs, {f[w] : w \in WaveIDs})
    BY DEF Surjection
  <2>2. QED
    BY <1>1, <2>1, FS_Surjection
<1>4. \A T \in {f[w] : w \in WaveIDs} : IsFiniteSet(T)
  <2>1. SUFFICES ASSUME NEW w \in WaveIDs
                 PROVE  IsFiniteSet({w} \X (1 .. Waves[w].count))
    OBVIOUS
  <2>2. Waves[w].count \in Int
    BY WaveTypes DEF Wave
  <2>3. IsFiniteSet(1 .. Waves[w].count)
    BY <2>2, FS_Interval
  <2>4. QED
    BY <2>3, FS_Singleton, FS_Product
<1>5. MonsterIDs = UNION {f[w] : w \in WaveIDs}
  BY DEF MonsterIDs
<1>6. QED
  BY <1>1, <1>3, <1>4, <1>5, FS_UNION

----------------------------------------------------------------------------
(* What one tick computes, given well-typed state. *)

(* The catch-up loop of a miner runs a natural number of rounds. *)
LEMMA PayoutsType ==
    ASSUME TypeOK, NEW m \in DOMAIN miners, NEW now \in Nat
    PROVE  Payouts(m, now) \in Nat
<1>1. miners[m].next \in Nat /\ Interval \in Nat \ {0}
  BY ParameterTypes DEF TypeOK
<1>2. \A a \in Nat, b \in Nat \ {0} : a \div b \in Nat
  OBVIOUS
<1>3. CASE now >= miners[m].next
  <2>1. (now - miners[m].next) \div Interval \in Nat
    BY <1>1, <1>2, <1>3
  <2>2. QED
    BY <1>1, <2>1 DEF Payouts
<1>4. CASE now < miners[m].next
  BY <1>4 DEF Payouts
<1>5. QED
  BY <1>1, <1>3, <1>4

(* The mana a player earns in a tick is a natural number: the payouts of   *)
(* finitely many miners are counted.                                       *)
LEMMA ProducedManaType ==
    ASSUME TypeOK, NEW p \in Players, NEW now \in Nat
    PROVE  ProducedMana(p, now) \in Nat
<1>1. IsFiniteSet((DOMAIN miners) \X (1 .. now))
  <2>1. IsFiniteSet(DOMAIN miners)
    <3>1. DOMAIN miners = 1 .. (nextMinerID - 1) /\ nextMinerID - 1 \in Int
      BY DEF TypeOK
    <3>2. QED
      BY <3>1, FS_Interval
  <2>2. IsFiniteSet(1 .. now)
    BY FS_Interval
  <2>3. QED
    BY <2>1, <2>2, FS_Product
<1>2. DEFINE due == {x \in (DOMAIN miners) \X (1 .. now) :
                        miners[x[1]].owner = p /\ x[2] <= Payouts(x[1], now)}
<1>3. Cardinality(due) \in Nat
  <2>1. due \in SUBSET ((DOMAIN miners) \X (1 .. now))
    OBVIOUS
  <2>2. IsFiniteSet(due)
    BY ONLY <1>1, <2>1, FS_Subset
  <2>3. QED
    BY ONLY <2>2, FS_CardinalityType
<1>4. MinerProduceMana \in Nat
  BY ConfigAssumption DEF ConfigAssumption
<1>5. ProducedMana(p, now) = MinerProduceMana * Cardinality(due)
  BY DEF ProducedMana
<1>6. \A a, b \in Nat : a * b \in Nat
  OBVIOUS
<1>7. QED
  BY ONLY <1>3, <1>4, <1>5, <1>6

(* A monster that walks stays a monster. *)
LEMMA WalkType ==
    ASSUME NEW x \in MonsterIDs, NEW monster \in Monsters
    PROVE  Walk(x, monster) \in Monsters
<1>1. Speed(x[1]) \in Nat /\ Path(x[1]) \in Nat
  <2>1. x[1] \in WaveIDs
    BY DEF MonsterIDs
  <2>2. QED
    BY <2>1, WaveTypes
<1>2. QED
  BY <1>1 DEF Walk, Monsters

(* Spawning and walking keep the monsters well typed, and only finitely    *)
(* many monsters spawn or arrive.                                          *)
LEMMA MonstersAfterType ==
    ASSUME TypeOK, NEW now \in Nat
    PROVE  /\ DOMAIN MonstersAfter(now) = DOMAIN monsters \union Spawning(now)
           /\ DOMAIN MonstersAfter(now) \subseteq MonsterIDs
           /\ \A x \in DOMAIN MonstersAfter(now) : MonstersAfter(now)[x] \in Monsters
           /\ Cardinality(Arrivals(now)) \in Nat
           /\ \A w : Cardinality({x \in Spawning(now) : x[1] = w}) \in Nat
<1>1. /\ DOMAIN MonstersAfter(now) = DOMAIN monsters \union Spawning(now)
      /\ DOMAIN monsters \union Spawning(now) \subseteq MonsterIDs
  BY DEF MonstersAfter, Spawning, TypeOK
<1>2. \A x \in DOMAIN MonstersAfter(now) : Present(x) \in Monsters
  BY DEF Present, Newborn, Monsters, TypeOK
<1>3. \A x \in DOMAIN MonstersAfter(now) : MonstersAfter(now)[x] \in Monsters
  BY <1>1, <1>2, WalkType DEF MonstersAfter
<1>4. Arrivals(now) \in SUBSET MonsterIDs
  BY <1>1 DEF Arrivals
<1>5. \A w : {x \in Spawning(now) : x[1] = w} \in SUBSET MonsterIDs
  BY <1>1
<1>6. \A T \in SUBSET MonsterIDs : Cardinality(T) \in Nat
  BY MonsterIDsFinite, FS_Subset, FS_CardinalityType
<1>7. QED
  BY <1>1, <1>3, <1>4, <1>5, <1>6

(* The base never falls below zero. *)
LEMMA HPAfterType ==
    ASSUME TypeOK, NEW now \in Nat
    PROVE  HPAfter(now) \in Nat
<1>1. Damage * Cardinality(Arrivals(now)) \in Nat
  <2>1. \A a, b \in Nat : a * b \in Nat
    OBVIOUS
  <2>2. QED
    BY <2>1, MonstersAfterType, ParameterTypes
<1>2. QED
  BY <1>1 DEF HPAfter, TypeOK

----------------------------------------------------------------------------
(* Type correctness. *)

(* Paying what one can afford leaves natural amounts. *)
LEMMA SpendType ==
    ASSUME TypeOK, NEW p \in Players, NEW gold \in Nat, NEW mana \in Nat,
           CanAfford(p, gold, mana), Spend(p, gold, mana)
    PROVE  players' \in [Players -> Resources]
BY DEF CanAfford, Spend, TypeOK, Resources

(* Every pool that towers are drawn from holds tower types. *)
LEMMA NextTowerTypeType ==
    ASSUME TypeOK, NEW p \in Players
    PROVE  NextTowerType(p) \in Int
BY ConfigAssumption DEF ConfigAssumption, NextTowerType, TypeOK

(* A well-typed state stays well typed under every room operation: the     *)
(* affordability checks keep gold and mana natural, the level check keeps  *)
(* merged towers within MaxLevel, and new ids stay below the counters.     *)
LEMMA TypeOKStep ==
    ASSUME TypeOK, [Next]_roomVars
    PROVE  TypeOK'
<1> USE ParameterTypes
<1>1. ASSUME NEW p \in Players, NEW g \in GridIDs, BuildTower(p, g)
      PROVE  TypeOK'
  <2>1. players' \in [Players -> Resources]
    BY <1>1, SpendType, AmountTypes DEF BuildTower
  <2>2. Tower(p, NextTowerType(p), 1, g) \in Towers
    <3>1. NextTowerType(p) \in Int
      BY NextTowerTypeType
    <3>2. QED
      BY <3>1 DEF Towers, Tower
  <2>3. /\ DOMAIN towers' \subseteq 1 .. nextTowerID' - 1
        /\ \A t \in DOMAIN towers' : towers'[t] \in Towers
    BY <1>1, <2>2 DEF BuildTower, Put, TypeOK
  <2>4. DOMAIN gridTower' \subseteq GridIDs
    BY <1>1 DEF BuildTower, Put, TypeOK
  <2>5. /\ nextTowerID' \in Nat \ {0} /\ randomIndex' \in Nat
        /\ UNCHANGED <<clockVars, settled, minerVars, monsterVars>>
    BY <1>1 DEF BuildTower, TypeOK
  <2>6. QED
    BY ONLY TypeOK, <2>1, <2>3, <2>4, <2>5
       DEF TypeOK, clockVars, minerVars, monsterVars
<1>2. ASSUME NEW p \in Players, NEW t \in DOMAIN towers, RerollTower(p, t)
      PROVE  TypeOK'
  <2>1. players' \in [Players -> Resources]
    BY <1>2, SpendType, AmountTypes DEF RerollTower
  <2>2. Tower(p, NextTowerType(p), towers[t].level, towers[t].grid) \in Towers
    <3>1. NextTowerType(p) \in Int
      BY NextTowerTypeType
    <3>2. QED
      BY <3>1 DEF Towers, Tower, TypeOK
  <2>3. /\ DOMAIN towers' \subseteq 1 .. nextTowerID' - 1
        /\ \A u \in DOMAIN towers' : towers'[u] \in Towers
    BY <1>2, <2>2 DEF RerollTower, TypeOK
  <2>4. /\ nextTowerID' \in Nat \ {0} /\ randomIndex' \in Nat
        /\ UNCHANGED <<clockVars, settled, minerVars, gridTower, monsterVars>>
    BY <1>2 DEF RerollTower, TypeOK
  <2>5. QED
    BY ONLY TypeOK, <2>1, <2>3, <2>4
       DEF TypeOK, clockVars, minerVars, monsterVars
<1>3. ASSUME NEW p \in Players, NEW main \in DOMAIN towers,
             NEW material \in DOMAIN towers, MergeTower(p, main, material)
      PROVE  TypeOK'
  <2>1. Tower(p, NextTowerType(p), towers[main].level + 1, towers[main].grid) \in Towers
    <3>1. NextTowerType(p) \in Int
      BY NextTowerTypeType
    <3>2. towers[main].level < MaxLevel /\ towers[main] \in Towers
      BY <1>3 DEF MergeTower, Mergeable, OwnPairBelowMax, TypeOK
    <3>3. QED
      BY <3>1, <3>2 DEF Towers, Tower
  <2>2. /\ DOMAIN towers' \subseteq 1 .. nextTowerID' - 1
        /\ \A u \in DOMAIN towers' : towers'[u] \in Towers
    BY <1>3, <2>1 DEF MergeTower, TypeOK
  <2>3. DOMAIN gridTower' \subseteq GridIDs
    BY <1>3 DEF MergeTower, FreeGrid, TypeOK
  <2>4. QED
    BY <1>3, <2>2, <2>3 DEF MergeTower, TypeOK, clockVars, minerVars, monsterVars
<1>4. ASSUME NEW p \in Players, BuyMiner(p)
      PROVE  TypeOK'
  <2>1. players' \in [Players -> Resources]
    BY <1>4, SpendType, AmountTypes DEF BuyMiner
  <2>2. /\ DOMAIN miners' = 1 .. nextMinerID' - 1
        /\ \A m \in DOMAIN miners' : miners'[m] \in [owner : Players, next : Nat]
    BY <1>4 DEF BuyMiner, Put, TypeOK
  <2>3. QED
    BY <1>4, <2>1, <2>2 DEF BuyMiner, TypeOK, clockVars, towerVars, monsterVars
<1>5. ASSUME AdvanceTick
      PROVE  TypeOK'
  <2> DEFINE now == serverTick + 1
  <2>1. now \in Nat
    BY DEF TypeOK
  <2>2. players' \in [Players -> Resources]
    <3>1. players' = [p \in Players |-> [gold |-> players[p].gold,
                                         mana |-> players[p].mana + ProducedMana(p, now)]]
      BY <1>5 DEF AdvanceTick, Produce
    <3>2. \A p \in Players : ProducedMana(p, now) \in Nat
      BY <2>1, ProducedManaType
    <3>3. players \in [Players -> Resources]
      BY DEF TypeOK
    <3>4. QED
      BY ONLY <3>1, <3>2, <3>3 DEF Resources
  <2>3. /\ DOMAIN miners' = 1 .. nextMinerID' - 1
        /\ \A m \in DOMAIN miners' : miners'[m] \in [owner : Players, next : Nat]
    <3>1. \A a, b \in Nat : a * b \in Nat
      OBVIOUS
    <3>2. \A m \in DOMAIN miners : Interval * Payouts(m, now) \in Nat
      BY <2>1, <3>1, PayoutsType
    <3>3. QED
      BY <1>5, <3>2 DEF AdvanceTick, Produce, TypeOK
  <2>4. /\ DOMAIN monsters' \subseteq MonsterIDs
        /\ \A x \in DOMAIN monsters' : monsters'[x] \in Monsters
    BY <1>5, <2>1, MonstersAfterType DEF AdvanceTick
  <2>5. spawned' \in [WaveIDs -> Nat]
    <3>1. spawned' = [w \in WaveIDs |->
                         spawned[w] + Cardinality({x \in Spawning(now) : x[1] = w})]
      BY <1>5 DEF AdvanceTick, SpawnedAfter
    <3>2. \A w \in WaveIDs : Cardinality({x \in Spawning(now) : x[1] = w}) \in Nat
      BY <2>1, MonstersAfterType
    <3>3. spawned \in [WaveIDs -> Nat]
      BY DEF TypeOK
    <3>4. \A w \in WaveIDs :
             spawned[w] + Cardinality({x \in Spawning(now) : x[1] = w}) \in Nat
      BY ONLY <3>2, <3>3
    <3>5. QED
      BY ONLY <3>1, <3>4
  <2>6. waveFinished' \in [WaveIDs -> BOOLEAN]
    BY <1>5 DEF AdvanceTick, FinishedAfter
  <2>7. baseHP' \in Nat
    BY <1>5, <2>1, HPAfterType DEF AdvanceTick
  <2>8. /\ state' \in {"CREATED", "RUNNING", "CLOSED"} /\ finishReason' \in Reasons
        /\ serverTick' \in Nat /\ startTick' \in Nat /\ endTick' \in Nat
    BY <1>5, <2>1 DEF AdvanceTick, Outcome, Finish, Reasons, TypeOK
  <2>9. QED
    BY <1>5, <2>2, <2>3, <2>4, <2>5, <2>6, <2>7, <2>8
       DEF AdvanceTick, TypeOK, towerVars
<1>6. ASSUME Start \/ Abort \/ MarkSettled \/ FlushDeltas
      PROVE  TypeOK'
  BY <1>6 DEF Start, Abort, Finish, MarkSettled, FlushDeltas, TypeOK, Reasons,
              clockVars, towerVars, minerVars, monsterVars
<1>7. CASE UNCHANGED roomVars
  BY <1>7 DEF TypeOK, roomVars, clockVars, towerVars, minerVars, monsterVars
<1>8. QED
  BY <1>1, <1>2, <1>3, <1>4, <1>5, <1>6, <1>7 DEF Next, PlayerOp, OpOf

(* The new room is well typed. *)
LEMMA RoomTypeInit == Init => TypeOK
<1> SUFFICES ASSUME Init PROVE TypeOK
  OBVIOUS
<1>1. players \in [Players -> Resources]
  BY AmountTypes DEF Init, Resources
<1>2. /\ miners = EmptyFcn /\ towers = EmptyFcn /\ gridTower = EmptyFcn
      /\ monsters = EmptyFcn /\ DOMAIN EmptyFcn = {}
  BY DEF Init, EmptyFcn
<1>3. DOMAIN miners = 1 .. nextMinerID - 1
  <2>1. nextMinerID = 1
    BY DEF Init
  <2>2. 1 .. 1 - 1 = {}
    OBVIOUS
  <2>3. QED
    BY ONLY <1>2, <2>1, <2>2
<1>4. /\ state \in {"CREATED", "RUNNING", "CLOSED"}
      /\ serverTick \in Nat /\ startTick \in Nat /\ endTick \in Nat
      /\ finishReason \in Reasons /\ settled \in BOOLEAN /\ baseHP \in Nat
      /\ nextTowerID \in Nat \ {0} /\ nextMinerID \in Nat \ {0} /\ randomIndex \in Nat
  <2>1. /\ state = "CREATED" /\ serverTick = 0 /\ startTick = 0 /\ endTick = 0
        /\ finishReason = "NONE" /\ settled = FALSE /\ baseHP = InitialHP
        /\ nextTowerID = 1 /\ nextMinerID = 1 /\ randomIndex = 0
    BY DEF Init
  <2>2. InitialHP \in Nat
    BY ParameterTypes
  <2>3. settled \in BOOLEAN
    BY ONLY <2>1
  <2>4. QED
    BY ONLY <2>1, <2>2, <2>3 DEF Reasons
<1>5. spawned \in [WaveIDs -> Nat] /\ waveFinished \in [WaveIDs -> BOOLEAN]
  BY DEF Init
<1>6. QED
  BY ONLY <1>1, <1>2, <1>3, <1>4, <1>5 DEF TypeOK

(* Gold and mana are never negative, no tower passes the highest level, ids *)
(* stay below their counters: for every configuration, in every state.      *)
THEOREM RoomTypeCorrect == Spec => []TypeOK
<1>1. Init => TypeOK
  BY RoomTypeInit
<1>2. TypeOK /\ [Next]_roomVars => TypeOK'
  BY TypeOKStep
<1>3. QED
  BY <1>1, <1>2, PTL DEF Spec

----------------------------------------------------------------------------
(* The grid index. *)

(* Operations that leave both maps alone leave them consistent. *)
LEMMA GridUntouched ==
    ASSUME GridConsistent, UNCHANGED <<towers, gridTower>>
    PROVE  GridConsistent'
BY DEF GridConsistent

(* BuildTower enters a fresh id under a free grid, RerollTower keeps every  *)
(* grid, and MergeTower takes the material out of both maps.                *)
LEMMA GridConsistentStep ==
    ASSUME TypeOK, GridConsistent, [Next]_roomVars
    PROVE  GridConsistent'
<1>1. ASSUME NEW p \in Players, NEW g \in GridIDs, BuildTower(p, g)
      PROVE  GridConsistent'
  <2> DEFINE tower == Tower(p, NextTowerType(p), 1, g)
  <2>1. nextTowerID \notin DOMAIN towers
    <3>1. DOMAIN towers \subseteq 1 .. nextTowerID - 1 /\ nextTowerID \in Nat
      BY DEF TypeOK
    <3>2. QED
      BY ONLY <3>1
  <2>2. /\ towers' = Put(towers, nextTowerID, tower)
        /\ gridTower' = Put(gridTower, g, nextTowerID)
        /\ g \notin DOMAIN gridTower
    BY <1>1 DEF BuildTower
  <2>3. tower.grid = g
    BY DEF Tower
  <2>4. QED
    BY ONLY GridConsistent, <2>1, <2>2, <2>3 DEF GridConsistent, Put
<1>2. ASSUME NEW p \in Players, NEW t \in DOMAIN towers, RerollTower(p, t)
      PROVE  GridConsistent'
  <2> DEFINE tower == Tower(p, NextTowerType(p), towers[t].level, towers[t].grid)
  <2>1. towers' = [towers EXCEPT ![t] = tower] /\ gridTower' = gridTower
    BY <1>2 DEF RerollTower
  <2>2. tower.grid = towers[t].grid
    BY DEF Tower
  <2>3. QED
    BY ONLY GridConsistent, <2>1, <2>2 DEF GridConsistent
<1>3. ASSUME NEW p \in Players, NEW main \in DOMAIN towers,
             NEW material \in DOMAIN towers, MergeTower(p, main, material)
      PROVE  GridConsistent'
  <2> DEFINE tower == Tower(p, NextTowerType(p), towers[main].level + 1, towers[main].grid)
  <2>1. /\ towers' = [t \in DOMAIN towers \ {material} |->
                         IF t = main THEN tower ELSE towers[t]]
        /\ gridTower' = [g \in DOMAIN gridTower \ {towers[material].grid} |-> gridTower[g]]
        /\ main # material
    BY <1>3 DEF MergeTower, FreeGrid, Mergeable
  <2>2. tower.grid = towers[main].grid
    BY DEF Tower
  <2>3. QED
    BY ONLY GridConsistent, <2>1, <2>2 DEF GridConsistent
<1>4. ASSUME NEW p \in Players, BuyMiner(p)
      PROVE  GridConsistent'
  BY <1>4, GridUntouched DEF BuyMiner, towerVars
<1>5. CASE AdvanceTick \/ Start \/ Abort \/ MarkSettled \/ FlushDeltas
  BY <1>5, GridUntouched
     DEF AdvanceTick, Start, Abort, MarkSettled, FlushDeltas, towerVars
<1>6. CASE UNCHANGED roomVars
  BY <1>6, GridUntouched DEF roomVars, towerVars
<1>7. QED
  BY <1>1, <1>2, <1>3, <1>4, <1>5, <1>6 DEF Next, PlayerOp, OpOf

(* A grid always holds exactly the tower that stands on it. *)
THEOREM GridIndexCorrect == Spec => []GridConsistent
<1>1. Init => GridConsistent
  BY DEF Init, GridConsistent, EmptyFcn
<1>2. TypeOK /\ GridConsistent /\ [Next]_roomVars => GridConsistent'
  BY GridConsistentStep
<1>3. QED
  BY <1>1, <1>2, RoomTypeCorrect, PTL DEF Spec

----------------------------------------------------------------------------
(* The miners' schedule. *)

(* On schedule before a tick, a miner is paid at most once in it. *)
LEMMA OnePayout ==
    ASSUME TypeOK, MinersOnSchedule, NEW m \in DOMAIN miners
    PROVE  LET next == miners[m].next + Interval * Payouts(m, serverTick + 1)
           IN  next > serverTick + 1 /\ next <= serverTick + 1 + Interval
<1>1. /\ serverTick \in Nat /\ Interval \in Nat \ {0} /\ miners[m].next \in Nat
      /\ miners[m].next > serverTick /\ miners[m].next <= serverTick + Interval
  BY ParameterTypes DEF TypeOK, MinersOnSchedule
<1>2. CASE serverTick + 1 < miners[m].next
  <2>1. Payouts(m, serverTick + 1) = 0
    BY <1>2 DEF Payouts
  <2>2. QED
    BY ONLY <1>1, <1>2, <2>1
<1>3. CASE serverTick + 1 = miners[m].next
  <2>1. \A b \in Nat \ {0} : 0 \div b = 0
    OBVIOUS
  <2>2. serverTick + 1 - miners[m].next = 0 /\ ~(serverTick + 1 < miners[m].next)
    BY ONLY <1>1, <1>3
  <2>3. Payouts(m, serverTick + 1) = 1
    BY ONLY <1>1, <2>1, <2>2 DEF Payouts
  <2>4. QED
    BY ONLY <1>1, <1>3, <2>3
<1>4. QED
  BY ONLY <1>1, <1>2, <1>3

(* BuyMiner schedules one interval ahead; a tick pays what has become due. *)
LEMMA MinersOnScheduleStep ==
    ASSUME TypeOK, MinersOnSchedule, [Next]_roomVars
    PROVE  MinersOnSchedule'
<1>1. ASSUME NEW p \in Players, BuyMiner(p)
      PROVE  MinersOnSchedule'
  <2>1. /\ miners' = Put(miners, nextMinerID, [owner |-> p, next |-> serverTick + Interval])
        /\ serverTick' = serverTick
    BY <1>1 DEF BuyMiner, clockVars
  <2>2. serverTick \in Nat /\ Interval \in Nat \ {0}
    BY ParameterTypes DEF TypeOK
  <2>3. QED
    BY ONLY MinersOnSchedule, <2>1, <2>2 DEF MinersOnSchedule, Put, Interval
<1>2. ASSUME AdvanceTick
      PROVE  MinersOnSchedule'
  <2>1. /\ serverTick' = serverTick + 1
        /\ miners' = [m \in DOMAIN miners |->
                         [owner |-> miners[m].owner,
                          next  |-> miners[m].next
                                        + Interval * Payouts(m, serverTick + 1)]]
    BY <1>2 DEF AdvanceTick, Produce
  <2>2. QED
    BY <2>1, OnePayout DEF MinersOnSchedule
<1>3. ASSUME PlayerOp, ~\E p \in Players : BuyMiner(p)
      PROVE  UNCHANGED <<serverTick, miners>>
  BY <1>3 DEF PlayerOp, OpOf, BuildTower, RerollTower, MergeTower, clockVars, minerVars
<1>4. ASSUME Start \/ Abort \/ MarkSettled \/ FlushDeltas \/ UNCHANGED roomVars
      PROVE  UNCHANGED <<serverTick, miners>>
  BY <1>4 DEF Start, Abort, MarkSettled, FlushDeltas, roomVars, clockVars, minerVars
<1>5. ASSUME UNCHANGED <<serverTick, miners>>
      PROVE  MinersOnSchedule'
  BY <1>5 DEF MinersOnSchedule
<1>6. QED
  BY <1>1, <1>2, <1>3, <1>4, <1>5 DEF Next

(* No miner is ever overdue or more than one interval ahead, so the         *)
(* catch-up loop of produceMinerMana never pays a miner twice in a tick.    *)
THEOREM MinersStayOnSchedule == Spec => []MinersOnSchedule
<1>1. Init => MinersOnSchedule
  BY DEF Init, MinersOnSchedule, EmptyFcn
<1>2. TypeOK /\ MinersOnSchedule /\ [Next]_roomVars => MinersOnSchedule'
  BY MinersOnScheduleStep
<1>3. QED
  BY <1>1, <1>2, RoomTypeCorrect, PTL DEF Spec

----------------------------------------------------------------------------
(* Facts about the operators of the waves. *)

(* Spawning i monsters at a gap of g ticks takes until a moment that a      *)
(* division finds again.                                                    *)
LEMMA DivBound ==
    ASSUME NEW i \in Nat, NEW d \in Nat, NEW g \in Nat \ {0}
    PROVE  i * g <= d <=> i <= d \div g
<1> DEFINE q == d \div g
<1>1. q \in Nat /\ q * g <= d /\ d < (q + 1) * g
  OBVIOUS
<1> HIDE DEF q
<1>2. \A a, b \in Nat : a <= b => a * g <= b * g
  OBVIOUS
<1>3. ASSUME i <= q PROVE i * g <= d
  <2>1. i * g <= q * g
    BY ONLY <1>1, <1>2, <1>3, i \in Nat
  <2>2. i * g \in Nat /\ q * g \in Nat
    BY ONLY <1>1, i \in Nat, g \in Nat
  <2>3. QED
    BY ONLY <1>1, <2>1, <2>2, d \in Nat
<1>4. ASSUME i * g <= d PROVE i <= q
  <2>1. q \in Nat
    BY <1>1
  <2>2. ASSUME q + 1 <= i
        PROVE  FALSE
    <3>1. (q + 1) * g <= i * g
      BY ONLY <1>2, <2>1, <2>2, i \in Nat
    <3>2. i * g \in Nat /\ (q + 1) * g \in Nat
      BY ONLY <2>1, i \in Nat, g \in Nat
    <3>3. QED
      BY ONLY <1>1, <1>4, <3>1, <3>2, d \in Nat
  <2>3. QED
    BY ONLY <2>1, <2>2, i \in Nat
<1>5. QED
  BY ONLY <1>3, <1>4 DEF q

(* A monster is not due before its wave starts, and the ones of a wave are  *)
(* due in their order: up to a tick, those up to a number.                  *)
LEMMA DueInOrder ==
    ASSUME NEW w \in WaveIDs, NEW now \in Nat, now >= Waves[w].start,
           NEW i \in Nat \ {0}
    PROVE  now >= DueTick(w, i) <=> i <= (now - Waves[w].start) \div Gap(w) + 1
<1> DEFINE d == now - Waves[w].start
<1>1. Gap(w) \in Nat \ {0} /\ Waves[w].start \in Int
  BY WaveTypes DEF Wave
<1>2. d \in Nat /\ i - 1 \in Nat
  BY <1>1
<1>3. (i - 1) * Gap(w) <= d <=> i - 1 <= d \div Gap(w)
  BY ONLY <1>1, <1>2, DivBound
<1>4. (i - 1) * Gap(w) \in Nat /\ d \div Gap(w) \in Nat
  BY ONLY <1>1, <1>2
<1>5. now >= DueTick(w, i) <=> (i - 1) * Gap(w) <= d
  <2> DEFINE k == (i - 1) * Gap(w)
  <2>1. DueTick(w, i) = Waves[w].start + k
    BY DEF DueTick
  <2>2. k \in Nat
    BY <1>4
  <2> HIDE DEF k
  <2>3. now >= Waves[w].start + k <=> k <= d
    BY ONLY <1>1, <2>2, now \in Nat
  <2>4. QED
    BY ONLY <2>1, <2>3 DEF k
<1>6. QED
  BY ONLY <1>3, <1>4, <1>5, i \in Nat

LEMMA DueAfterStart ==
    ASSUME NEW w \in WaveIDs, NEW i \in Nat \ {0}
    PROVE  DueTick(w, i) \in Int /\ DueTick(w, i) >= Waves[w].start
<1>1. Gap(w) \in Nat \ {0} /\ Waves[w].start \in Int
  BY WaveTypes DEF Wave
<1>2. i - 1 \in Nat
  OBVIOUS
<1>3. (i - 1) * Gap(w) \in Nat
  BY ONLY <1>1, <1>2
<1>4. QED
  BY ONLY <1>1, <1>3 DEF DueTick

(* One value paired with each of a .. b. *)
LEMMA PairsSize ==
    ASSUME NEW w, NEW a \in Nat, NEW b \in Nat, a <= b + 1
    PROVE  Cardinality({w} \X (a .. b)) = b - a + 1
<1> DEFINE f == [i \in a .. b |-> <<w, i>>]
<1>1. f \in [a .. b -> {w} \X (a .. b)]
  OBVIOUS
<1>2. \A i, j \in a .. b : f[i] = f[j] => i = j
  OBVIOUS
<1>3. \A x \in {w} \X (a .. b) : x[2] \in a .. b /\ f[x[2]] = x
  OBVIOUS
<1>4. f \in Bijection(a .. b, {w} \X (a .. b))
  <2>1. f \in Injection(a .. b, {w} \X (a .. b))
    BY ONLY <1>1, <1>2 DEF Injection, IsInjective
  <2>2. f \in Surjection(a .. b, {w} \X (a .. b))
    BY ONLY <1>1, <1>3 DEF Surjection
  <2>3. QED
    BY ONLY <2>1, <2>2 DEF Bijection
<1>5. ExistsBijection(a .. b, {w} \X (a .. b))
  BY <1>4 DEF ExistsBijection
<1>6. IsFiniteSet(a .. b) /\ Cardinality(a .. b) = b - a + 1
  BY FS_Interval
<1>7. QED
  BY ONLY <1>5, <1>6, FS_Bijection

(* Monsters are pairs of a wave and a number. *)
LEMMA MonsterPairs ==
    /\ \A x \in MonsterIDs : /\ x = <<x[1], x[2]>> /\ x[1] \in WaveIDs
                             /\ x[2] \in 1 .. Waves[x[1]].count /\ x[2] \in Nat \ {0}
    /\ \A w \in WaveIDs : \A i \in 1 .. Waves[w].count : <<w, i>> \in MonsterIDs
    /\ \A w \in WaveIDs : Waves[w].count \in Nat \ {0}
<1>1. \A w \in WaveIDs : Waves[w].count \in Nat \ {0}
  <2>1. SUFFICES ASSUME NEW w \in WaveIDs PROVE Waves[w].count \in Nat \ {0}
    OBVIOUS
  <2>2. Waves[w].count \in Int /\ Waves[w].count > 0
    BY WaveTypes DEF Wave, WaveIDs
  <2>3. QED
    BY ONLY <2>2
<1>2. QED
  BY <1>1 DEF MonsterIDs

----------------------------------------------------------------------------
(* The waves. *)

(* SpawnedCount of a wave stays within the wave, the monsters that exist    *)
(* are the first ones of each wave, as many as the count says, and a wave   *)
(* is finished only after all of its monsters were spawned.                 *)
WaveInv ==
    /\ \A w \in WaveIDs : spawned[w] <= Waves[w].count
    /\ DOMAIN monsters = {x \in MonsterIDs : x[2] <= spawned[x[1]]}
    /\ \A w \in WaveIDs : waveFinished[w] => spawned[w] = Waves[w].count

(* What one wave spawns in a tick is the next stretch of its numbers. *)
LEMMA SpawningStretch ==
    ASSUME TypeOK, WaveInv, NEW now \in Nat, NEW w \in WaveIDs
    PROVE  \E k \in Nat :
              /\ spawned[w] <= k /\ k <= Waves[w].count
              /\ {x \in Spawning(now) : x[1] = w} = {w} \X (spawned[w] + 1 .. k)
<1> DEFINE c == Waves[w].count
           n == spawned[w]
           part == {x \in Spawning(now) : x[1] = w}
<1>1. c \in Nat \ {0} /\ n \in Nat /\ n <= c /\ Waves[w].start \in Int
      /\ Gap(w) \in Nat \ {0}
  BY MonsterPairs, WaveTypes DEF WaveInv, TypeOK, Wave
<1>2. part = {x \in {w} \X (1 .. c) : /\ ~waveFinished[w] /\ now >= Waves[w].start
                                      /\ x[2] > n /\ now >= DueTick(w, x[2])}
  BY MonsterPairs DEF Spawning
<1>3. CASE waveFinished[w] \/ ~(now >= Waves[w].start)
  <2>1. part = {}
    BY ONLY <1>2, <1>3
  <2>2. {w} \X (n + 1 .. n) = {}
    BY ONLY <1>1
  <2>3. QED
    BY ONLY <1>1, <2>1, <2>2
<1>4. CASE ~waveFinished[w] /\ now >= Waves[w].start
  <2> DEFINE q == (now - Waves[w].start) \div Gap(w) + 1
             k == IF q < n THEN n ELSE IF q > c THEN c ELSE q
  <2>1. q \in Nat
    <3>1. now - Waves[w].start \in Nat
      BY ONLY <1>1, <1>4, now \in Nat
    <3>2. QED
      BY ONLY <1>1, <3>1
  <2>2. \A i \in 1 .. c : now >= DueTick(w, i) <=> i <= q
    <3>1. SUFFICES ASSUME NEW i \in 1 .. c PROVE now >= DueTick(w, i) <=> i <= q
      OBVIOUS
    <3>2. i \in Nat \ {0}
      BY ONLY <1>1
    <3>3. QED
      BY ONLY <1>4, <3>2, w \in WaveIDs, now \in Nat, DueInOrder
  <2> HIDE DEF q
  <2>3. k \in Nat /\ n <= k /\ k <= c
    BY ONLY <1>1, <2>1
  <2>4. \A i \in 1 .. c : i > n /\ i <= q <=> i \in n + 1 .. k
    BY ONLY <1>1, <2>1
  <2>5. \A i \in n + 1 .. k : i \in 1 .. c
    BY ONLY <1>1, <2>3
  <2> HIDE DEF k
  <2>6. part = {w} \X (n + 1 .. k)
    BY ONLY <1>2, <1>4, <2>2, <2>4, <2>5
  <2>7. QED
    BY ONLY <2>3, <2>6
<1>5. QED
  BY <1>3, <1>4

(* After the spawn loop the count of each wave is right again. *)
LEMMA SpawnedAgain ==
    ASSUME TypeOK, WaveInv, NEW now \in Nat
    PROVE  /\ \A w \in WaveIDs : /\ SpawnedAfter(now)[w] \in Nat
                                 /\ spawned[w] <= SpawnedAfter(now)[w]
                                 /\ SpawnedAfter(now)[w] <= Waves[w].count
           /\ DOMAIN monsters \union Spawning(now)
                 = {x \in MonsterIDs : x[2] <= SpawnedAfter(now)[x[1]]}
<1>1. ASSUME NEW w \in WaveIDs
      PROVE  /\ SpawnedAfter(now)[w] \in Nat
             /\ spawned[w] <= SpawnedAfter(now)[w]
             /\ SpawnedAfter(now)[w] <= Waves[w].count
             /\ \A i \in 1 .. Waves[w].count :
                    <<w, i>> \in Spawning(now) <=>
                        i > spawned[w] /\ i <= SpawnedAfter(now)[w]
  <2>1. PICK k \in Nat :
              /\ spawned[w] <= k /\ k <= Waves[w].count
              /\ {x \in Spawning(now) : x[1] = w} = {w} \X (spawned[w] + 1 .. k)
    BY <1>1, SpawningStretch
  <2>2. spawned[w] \in Nat
    BY DEF TypeOK
  <2>3. Cardinality({w} \X (spawned[w] + 1 .. k)) = k - (spawned[w] + 1) + 1
    <3>1. spawned[w] + 1 \in Nat /\ spawned[w] + 1 <= k + 1
      BY ONLY <2>1, <2>2
    <3>2. QED
      BY ONLY <3>1, k \in Nat, PairsSize
  <2>4. SpawnedAfter(now)[w] = k
    <3>1. SpawnedAfter(now)[w] = spawned[w] + Cardinality({x \in Spawning(now) : x[1] = w})
      BY DEF SpawnedAfter
    <3>2. Cardinality({x \in Spawning(now) : x[1] = w}) = k - (spawned[w] + 1) + 1
      BY ONLY <2>1, <2>3
    <3>3. spawned[w] + (k - (spawned[w] + 1) + 1) = k
      BY ONLY <2>2, k \in Nat
    <3>4. QED
      BY ONLY <3>1, <3>2, <3>3
  <2>5. \A i \in 1 .. Waves[w].count :
            <<w, i>> \in Spawning(now) <=> i > spawned[w] /\ i <= k
    <3>1. \A i \in 1 .. Waves[w].count :
              <<w, i>> \in Spawning(now) <=> <<w, i>> \in {x \in Spawning(now) : x[1] = w}
      OBVIOUS
    <3>2. \A i \in 1 .. Waves[w].count :
              <<w, i>> \in {w} \X (spawned[w] + 1 .. k) <=> i > spawned[w] /\ i <= k
      BY ONLY <2>1, <2>2
    <3>3. QED
      BY ONLY <2>1, <3>1, <3>2
  <2>6. QED
    BY ONLY <2>1, <2>4, <2>5
<1>2. ASSUME NEW x \in MonsterIDs
      PROVE  x \in DOMAIN monsters \union Spawning(now)
                <=> x[2] <= SpawnedAfter(now)[x[1]]
  <2>1. /\ x = <<x[1], x[2]>> /\ x[1] \in WaveIDs
        /\ x[2] \in 1 .. Waves[x[1]].count /\ x[2] \in Nat
    BY MonsterPairs
  <2>2. x \in DOMAIN monsters <=> x[2] <= spawned[x[1]]
    BY DEF WaveInv
  <2>3. spawned[x[1]] \in Nat
    BY <2>1 DEF TypeOK
  <2>4. x \in Spawning(now) <=> x[2] > spawned[x[1]] /\ x[2] <= SpawnedAfter(now)[x[1]]
    BY <1>1, <2>1
  <2>5. SpawnedAfter(now)[x[1]] \in Nat /\ spawned[x[1]] <= SpawnedAfter(now)[x[1]]
    BY <1>1, <2>1
  <2>6. QED
    BY ONLY <2>1, <2>2, <2>3, <2>4, <2>5
<1>3. DOMAIN monsters \union Spawning(now) \subseteq MonsterIDs
  BY MonstersAfterType
<1>4. QED
  BY <1>1, <1>2, <1>3

(* A tick keeps the counts of the waves. *)
LEMMA WaveInvTick ==
    ASSUME TypeOK, WaveInv, AdvanceTick
    PROVE  WaveInv'
<1> DEFINE now == serverTick + 1
<1>1. now \in Nat
  BY DEF TypeOK
<1>2. /\ monsters' = MonstersAfter(now) /\ spawned' = SpawnedAfter(now)
      /\ waveFinished' = FinishedAfter(now)
  BY DEF AdvanceTick
<1> HIDE DEF now
<1>3. DOMAIN monsters' = {x \in MonsterIDs : x[2] <= spawned'[x[1]]}
  BY <1>1, <1>2, MonstersAfterType, SpawnedAgain
<1>4. ASSUME NEW w \in WaveIDs
      PROVE  /\ spawned'[w] <= Waves[w].count
             /\ waveFinished'[w] => spawned'[w] = Waves[w].count
  <2>1. /\ SpawnedAfter(now)[w] \in Nat /\ spawned[w] <= SpawnedAfter(now)[w]
        /\ SpawnedAfter(now)[w] <= Waves[w].count
    BY <1>1, SpawnedAgain
  <2>2. waveFinished[w] => spawned[w] = Waves[w].count
    BY DEF WaveInv
  <2>3. FinishedAfter(now)[w] => waveFinished[w] \/ SpawnedAfter(now)[w] >= Waves[w].count
    BY DEF FinishedAfter
  <2>4. Waves[w].count \in Nat
    BY MonsterPairs
  <2>5. QED
    BY ONLY <1>2, <2>1, <2>2, <2>3, <2>4
<1>5. QED
  BY ONLY <1>3, <1>4 DEF WaveInv

(* Only a tick touches the clock, the base and the monsters. *)
LEMMA TickOnly ==
    ASSUME [Next]_roomVars
    PROVE  AdvanceTick \/ UNCHANGED <<serverTick, baseHP, monsters, spawned, waveFinished>>
<1>1. CASE PlayerOp
  <2>1. UNCHANGED <<clockVars, monsterVars>>
    BY <1>1 DEF PlayerOp, OpOf, BuildTower, RerollTower, MergeTower, BuyMiner
  <2>2. QED
    BY ONLY <2>1 DEF clockVars, monsterVars
<1>2. CASE Start \/ Abort \/ MarkSettled \/ FlushDeltas
  BY <1>2 DEF Start, Abort, MarkSettled, FlushDeltas, clockVars, monsterVars
<1>3. CASE UNCHANGED roomVars
  BY <1>3 DEF roomVars, clockVars, monsterVars
<1>4. QED
  BY <1>1, <1>2, <1>3 DEF Next

LEMMA WaveInvStep ==
    ASSUME TypeOK, WaveInv, [Next]_roomVars
    PROVE  WaveInv'
<1>1. CASE UNCHANGED <<serverTick, baseHP, monsters, spawned, waveFinished>>
  BY <1>1 DEF WaveInv
<1>2. QED
  BY <1>1, TickOnly, WaveInvTick

LEMMA NoMonstersAtFirst ==
    ASSUME Init
    PROVE  /\ DOMAIN monsters = {} /\ Arrived = {} /\ serverTick = 0
           /\ \A w \in WaveIDs : spawned[w] = 0 /\ waveFinished[w] = FALSE
<1>1. monsters = EmptyFcn /\ DOMAIN EmptyFcn = {} /\ serverTick = 0
  BY DEF Init, EmptyFcn
<1>2. \A w \in WaveIDs : spawned[w] = 0 /\ waveFinished[w] = FALSE
  BY DEF Init
<1>3. QED
  BY ONLY <1>1, <1>2 DEF Arrived

LEMMA WaveInvInit == Init => WaveInv
<1> SUFFICES ASSUME Init PROVE WaveInv
  OBVIOUS
<1>1. /\ DOMAIN monsters = {}
      /\ \A w \in WaveIDs : spawned[w] = 0 /\ waveFinished[w] = FALSE
  BY NoMonstersAtFirst
<1>2. /\ \A x \in MonsterIDs : x[1] \in WaveIDs /\ x[2] \in Nat \ {0}
      /\ \A w \in WaveIDs : Waves[w].count \in Nat \ {0}
  BY MonsterPairs
<1>3. \A x \in MonsterIDs : ~(x[2] <= spawned[x[1]])
  BY ONLY <1>1, <1>2
<1>4. QED
  BY ONLY <1>1, <1>2, <1>3 DEF WaveInv

----------------------------------------------------------------------------
(* The closed form of the simulation. *)

LEMMA SpawnTickType ==
    ASSUME NEW x \in MonsterIDs
    PROVE  /\ SpawnTick(x) \in Nat \ {0} /\ DueTick(x[1], x[2]) \in Int
           /\ DueTick(x[1], x[2]) >= Waves[x[1]].start /\ Waves[x[1]].start \in Int
           /\ Speed(x[1]) \in Nat \ {0} /\ Path(x[1]) \in Nat \ {0}
<1>1. x[1] \in WaveIDs /\ x[2] \in Nat \ {0}
  BY MonsterPairs
<1>2. Waves[x[1]].start \in Int
  BY <1>1, WaveTypes DEF Wave
<1>3. QED
  BY <1>1, <1>2, DueAfterStart, WaveTypes DEF SpawnTick

(* A tick spawns what is due by then and was not spawned before. *)
LEMMA SpawningIsDue ==
    ASSUME TypeOK, WaveInv, NEW now \in Nat \ {0}
    PROVE  Spawning(now) = {x \in MonsterIDs : x \notin DOMAIN monsters /\ SpawnTick(x) <= now}
<1> SUFFICES ASSUME NEW x \in MonsterIDs
             PROVE  x \in Spawning(now) <=> x \notin DOMAIN monsters /\ SpawnTick(x) <= now
  BY DEF Spawning
<1>1. /\ x[1] \in WaveIDs /\ x[2] \in 1 .. Waves[x[1]].count /\ x[2] \in Nat
      /\ Waves[x[1]].count \in Nat
  BY MonsterPairs
<1>2. /\ spawned[x[1]] \in Nat
      /\ waveFinished[x[1]] => spawned[x[1]] = Waves[x[1]].count
      /\ x \in DOMAIN monsters <=> x[2] <= spawned[x[1]]
  BY <1>1 DEF WaveInv, TypeOK
<1>3. SpawnTick(x) <= now <=> DueTick(x[1], x[2]) <= now
  BY SpawnTickType DEF SpawnTick
<1>4. x \in Spawning(now) <=> /\ ~waveFinished[x[1]] /\ now >= Waves[x[1]].start
                              /\ x[2] > spawned[x[1]] /\ now >= DueTick(x[1], x[2])
  BY DEF Spawning
<1>5. /\ DueTick(x[1], x[2]) \in Int
      /\ DueTick(x[1], x[2]) >= Waves[x[1]].start /\ Waves[x[1]].start \in Int
  BY SpawnTickType
<1>6. QED
  BY ONLY <1>1, <1>2, <1>3, <1>4, <1>5, now \in Nat

(* The way of one monster after one more tick. *)
LEMMA OneStepFurther ==
    ASSUME NEW t \in Nat, NEW a \in Nat, NEW s \in Nat
    PROVE  /\ s * (t + 1 - a + 1) = s * (t - a + 1) + s
           /\ s * (t - a + 1) \in Int
           /\ t = a - 1 => s * (t - a + 1) = 0
OBVIOUS

LEMMA WalkedTick ==
    ASSUME TypeOK, WaveInv, MonstersOnSchedule, AdvanceTick
    PROVE  MonstersOnSchedule'
<1>1. PICK t : t = serverTick
  OBVIOUS
<1> DEFINE now == t + 1
<1>2. /\ t \in Nat /\ serverTick' = now /\ monsters' = MonstersAfter(now)
  BY <1>1 DEF AdvanceTick, TypeOK
<1>3. /\ DOMAIN monsters' = DOMAIN monsters \union Spawning(now)
      /\ DOMAIN monsters' \subseteq MonsterIDs
  <2>1. now \in Nat
    BY <1>2
  <2>2. /\ DOMAIN MonstersAfter(now) = DOMAIN monsters \union Spawning(now)
        /\ DOMAIN MonstersAfter(now) \subseteq MonsterIDs
    BY <2>1, MonstersAfterType
  <2>3. QED
    BY ONLY <1>2, <2>2
<1>4. Spawning(now) = {x \in MonsterIDs : x \notin DOMAIN monsters /\ SpawnTick(x) <= now}
  BY <1>2, SpawningIsDue
<1>5. DOMAIN monsters = {x \in MonsterIDs : SpawnTick(x) <= t}
  BY <1>1 DEF MonstersOnSchedule
<1>6. \A x \in MonsterIDs : SpawnTick(x) \in Nat
  BY SpawnTickType
<1>7. DOMAIN monsters' = {x \in MonsterIDs : SpawnTick(x) <= now}
  BY ONLY <1>2, <1>3, <1>4, <1>5, <1>6
<1>8. ASSUME NEW x \in DOMAIN monsters'
      PROVE  /\ monsters'[x].progress = Walked(x)'
             /\ monsters'[x].status = "ARRIVED" <=> Walked(x)' = Path(x[1])
  <2>1. PICK a \in Nat, s \in Nat \ {0}, p \in Nat \ {0} :
            a = SpawnTick(x) /\ s = Speed(x[1]) /\ p = Path(x[1])
    BY <1>3, <1>8, SpawnTickType
  <2>2. PICK way : way = s * (t - a + 1)
    OBVIOUS
  <2>3. way \in Int /\ s * (now - a + 1) = way + s /\ (t = a - 1 => way = 0)
    BY ONLY <2>2, <1>2, a \in Nat, s \in Nat, OneStepFurther
  <2>4. Walked(x)' = IF way + s >= p THEN p ELSE way + s
    <3>1. Walked(x)' = IF s * (now - a + 1) >= p THEN p ELSE s * (now - a + 1)
      BY <1>2, <2>1 DEF Walked, SpawnTick, DueTick, Speed, Path, Gap
    <3>2. QED
      BY ONLY <2>3, <3>1
  <2>5. monsters'[x] = IF Present(x).status # "ALIVE" THEN Present(x)
                       ELSE IF Present(x).progress + s >= p
                            THEN [progress |-> p, status |-> "ARRIVED"]
                            ELSE [progress |-> Present(x).progress + s, status |-> "ALIVE"]
    <3>1. monsters'[x] = Walk(x, Present(x))
      BY <1>2, <1>3, <1>8 DEF MonstersAfter
    <3>2. QED
      BY ONLY <2>1, <3>1 DEF Walk
  <2>6. CASE x \in DOMAIN monsters
    <3>1. Present(x) = monsters[x] /\ monsters[x] \in Monsters
      BY <2>6 DEF Present, TypeOK
    <3>2. PICK m \in Monsters : m = Present(x)
      BY <3>1
    <3>3. /\ m.progress = IF way >= p THEN p ELSE way
          /\ m.status = "ARRIVED" <=> m.progress = p
      BY <1>1, <2>1, <2>2, <2>6, <3>1, <3>2 DEF MonstersOnSchedule, Walked
    <3>4. m.progress \in Nat /\ m.status \in {"ALIVE", "ARRIVED"}
      BY ONLY m \in Monsters DEF Monsters
    <3>5. CASE m.status = "ARRIVED"
      BY ONLY <2>1, <2>3, <2>4, <2>5, <3>2, <3>3, <3>4, <3>5
    <3>6. CASE m.status = "ALIVE"
      BY ONLY <2>1, <2>3, <2>4, <2>5, <3>2, <3>3, <3>4, <3>6
    <3>7. QED
      BY ONLY <3>4, <3>5, <3>6
  <2>7. CASE x \notin DOMAIN monsters
    <3>1. Present(x) = [progress |-> 0, status |-> "ALIVE"]
      BY <2>7 DEF Present, Newborn
    <3>2. x \in MonsterIDs /\ a <= now /\ ~(a <= t)
      BY <1>3, <1>5, <1>7, <1>8, <2>1, <2>7
    <3>3. way = 0
      BY ONLY <1>2, <2>3, <3>2, a \in Nat
    <3>4. QED
      BY ONLY <2>1, <2>4, <2>5, <3>1, <3>3
  <2>8. QED
    BY <2>6, <2>7
<1>9. (DOMAIN monsters = {x \in MonsterIDs : SpawnTick(x) <= serverTick})'
  <2>1. MonsterIDs' = MonsterIDs /\ \A x : SpawnTick(x)' = SpawnTick(x)
    BY DEF MonsterIDs, WaveIDs, SpawnTick, DueTick, Gap
  <2>2. QED
    BY <1>2, <1>7, <2>1
<1>10. QED
  BY <1>8, <1>9 DEF MonstersOnSchedule, Path

(* Nothing but a tick changes what the closed form speaks of. *)
LEMMA WalkedStep ==
    ASSUME TypeOK, WaveInv, MonstersOnSchedule, [Next]_roomVars
    PROVE  MonstersOnSchedule'
<1>1. CASE UNCHANGED <<serverTick, baseHP, monsters, spawned, waveFinished>>
  BY <1>1 DEF MonstersOnSchedule, Walked
<1>2. QED
  BY <1>1, TickOnly, WalkedTick

LEMMA WalkedInit == Init => MonstersOnSchedule
<1> SUFFICES ASSUME Init PROVE MonstersOnSchedule
  OBVIOUS
<1>1. DOMAIN monsters = {} /\ serverTick = 0
  BY NoMonstersAtFirst
<1>2. \A x \in MonsterIDs : SpawnTick(x) \in Nat \ {0}
  BY SpawnTickType
<1>3. \A x \in MonsterIDs : ~(SpawnTick(x) <= serverTick)
  BY ONLY <1>1, <1>2
<1>4. QED
  BY ONLY <1>1, <1>3 DEF MonstersOnSchedule

(* The count of each wave is right in every state. *)
LEMMA WaveInvAlways == Spec => [](TypeOK /\ WaveInv)
<1>1. WaveInv /\ TypeOK /\ [Next]_roomVars => WaveInv'
  BY WaveInvStep
<1>2. QED
  BY <1>1, WaveInvInit, RoomTypeCorrect, PTL DEF Spec

(* At every tick the monsters are where their schedule says, for every      *)
(* start, gap, speed and path of every wave.                                *)
THEOREM MonstersStayOnSchedule == Spec => []MonstersOnSchedule
<1>1. TypeOK /\ WaveInv /\ MonstersOnSchedule /\ [Next]_roomVars => MonstersOnSchedule'
  BY WalkedStep
<1>2. QED
  BY <1>1, WalkedInit, WaveInvAlways, PTL DEF Spec

----------------------------------------------------------------------------
(* Damage and the end of the waves. *)

(* Monsters of a tick that have arrived: those that had before, and the     *)
(* tick's arrivals, never the same one twice.                               *)
LEMMA ArrivedTick ==
    ASSUME TypeOK, AdvanceTick
    PROVE  /\ Arrived' = Arrived \union Arrivals(serverTick + 1)
           /\ Arrived \intersect Arrivals(serverTick + 1) = {}
           /\ IsFiniteSet(Arrived) /\ IsFiniteSet(Arrivals(serverTick + 1))
<1>1. PICK now \in Nat : now = serverTick + 1
  BY DEF TypeOK
<1>2. monsters' = MonstersAfter(now)
  BY <1>1 DEF AdvanceTick
<1>3. /\ DOMAIN MonstersAfter(now) = DOMAIN monsters \union Spawning(now)
      /\ DOMAIN MonstersAfter(now) \subseteq MonsterIDs
      /\ \A x \in DOMAIN MonstersAfter(now) : MonstersAfter(now)[x] \in Monsters
  BY MonstersAfterType
<1>4. \A x \in DOMAIN monsters : Present(x) = monsters[x]
  BY DEF Present
<1>5. \A x \in DOMAIN MonstersAfter(now) :
          x \notin DOMAIN monsters => Present(x).status = "ALIVE"
  BY DEF Present, Newborn
<1>6. \A x \in DOMAIN MonstersAfter(now) :
          Present(x).status # "ALIVE" => MonstersAfter(now)[x] = Present(x)
  BY <1>3 DEF MonstersAfter, Walk
<1>7. Arrivals(now) = {x \in DOMAIN MonstersAfter(now) :
                          Present(x).status = "ALIVE"
                              /\ MonstersAfter(now)[x].status = "ARRIVED"}
  BY <1>3 DEF Arrivals
<1>8. \A x \in DOMAIN monsters : monsters[x].status \in {"ALIVE", "ARRIVED"}
  BY DEF TypeOK, Monsters
<1>9. Arrived' = {x \in DOMAIN MonstersAfter(now) : MonstersAfter(now)[x].status = "ARRIVED"}
  BY <1>2 DEF Arrived
<1>10. Arrived' = Arrived \union Arrivals(now) /\ Arrived \intersect Arrivals(now) = {}
  BY ONLY <1>3, <1>4, <1>5, <1>6, <1>7, <1>8, <1>9 DEF Arrived
<1>11. Arrived \in SUBSET MonsterIDs /\ Arrivals(now) \in SUBSET MonsterIDs
  BY <1>3, <1>7 DEF Arrived, TypeOK
<1>12. IsFiniteSet(Arrived) /\ IsFiniteSet(Arrivals(now))
  BY ONLY <1>11, MonsterIDsFinite, FS_Subset
<1>13. QED
  BY ONLY <1>1, <1>10, <1>12

(* Taking the damage in two parts is taking it at once, also when the base  *)
(* falls in the first.                                                      *)
Remaining(damage) == IF InitialHP - damage < 0 THEN 0 ELSE InitialHP - damage

LEMMA DamageAdds ==
    ASSUME NEW a \in Nat, NEW b \in Nat
    PROVE  Remaining(a + b) = IF Remaining(a) - b < 0 THEN 0 ELSE Remaining(a) - b
BY ParameterTypes DEF Remaining

(* A wave is finished by a tick exactly when its monsters have arrived.     *)
LEMMA FinishedTick ==
    ASSUME TypeOK, WaveInv, DamageAccounted, AdvanceTick, NEW w \in WaveIDs
    PROVE  waveFinished'[w] <=> {x \in MonsterIDs : x[1] = w} \subseteq Arrived'
<1>1. PICK now \in Nat : now = serverTick + 1
  BY DEF TypeOK
<1>2. /\ monsters' = MonstersAfter(now) /\ spawned' = SpawnedAfter(now)
      /\ waveFinished' = FinishedAfter(now)
  BY <1>1 DEF AdvanceTick
<1>3. PICK ms, sp : ms = monsters' /\ sp = spawned'
  OBVIOUS
<1>4. /\ DOMAIN ms = {x \in MonsterIDs : x[2] <= sp[x[1]]}
      /\ sp[w] <= Waves[w].count
  BY <1>3, WaveInvTick DEF WaveInv
<1>5. \A x \in DOMAIN ms : ms[x].status \in {"ALIVE", "ARRIVED"}
  BY <1>2, <1>3, MonstersAfterType DEF Monsters
<1>6. waveFinished'[w] <=>
          \/ waveFinished[w]
          \/ /\ sp[w] >= Waves[w].count
             /\ \A x \in DOMAIN ms : x[1] = w => ms[x].status # "ALIVE"
  BY <1>2, <1>3 DEF FinishedAfter
<1>7. Arrived' = {x \in DOMAIN ms : ms[x].status = "ARRIVED"}
  BY <1>3 DEF Arrived
<1>8. waveFinished[w] <=> {x \in MonsterIDs : x[1] = w} \subseteq Arrived
  BY DEF DamageAccounted
<1>9. Arrived \subseteq Arrived'
  BY ArrivedTick
<1>10. /\ \A x \in MonsterIDs : x[2] \in 1 .. Waves[x[1]].count
       /\ Waves[w].count \in Nat \ {0} /\ <<w, Waves[w].count>> \in MonsterIDs
  BY MonsterPairs
<1>11. sp[w] \in Nat
  BY <1>2, <1>3, SpawnedAgain
<1>12. sp[w] >= Waves[w].count <=> {x \in MonsterIDs : x[1] = w} \subseteq DOMAIN ms
  <2>1. ASSUME sp[w] >= Waves[w].count
        PROVE  {x \in MonsterIDs : x[1] = w} \subseteq DOMAIN ms
    BY ONLY <1>4, <1>10, <1>11, <2>1
  <2>2. ASSUME {x \in MonsterIDs : x[1] = w} \subseteq DOMAIN ms
        PROVE  sp[w] >= Waves[w].count
    <3>1. <<w, Waves[w].count>>[1] = w /\ <<w, Waves[w].count>>[2] = Waves[w].count
      OBVIOUS
    <3>2. Waves[w].count <= sp[w]
      BY ONLY <1>4, <1>10, <2>2, <3>1
    <3>3. QED
      BY ONLY <1>10, <1>11, <3>2
  <2>3. QED
    BY <2>1, <2>2
<1>13. QED
  BY ONLY <1>4, <1>5, <1>6, <1>7, <1>8, <1>9, <1>12

LEMMA DamageTick ==
    ASSUME TypeOK, WaveInv, DamageAccounted, AdvanceTick
    PROVE  DamageAccounted'
<1>1. PICK now \in Nat : now = serverTick + 1
  BY DEF TypeOK
<1>2. PICK n \in Nat, m \in Nat :
          n = Cardinality(Arrived) /\ m = Cardinality(Arrivals(now))
  BY <1>1, ArrivedTick, FS_CardinalityType
<1>3. Cardinality(Arrived') = n + m
  <2>1. PICK A, B : A = Arrived /\ B = Arrivals(now)
    OBVIOUS
  <2>2. /\ IsFiniteSet(A) /\ IsFiniteSet(B) /\ A \intersect B = {}
        /\ Arrived' = A \union B
    BY <1>1, <2>1, ArrivedTick
  <2>3. Cardinality(A \union B) = Cardinality(A) + Cardinality(B) - Cardinality(A \intersect B)
    BY ONLY <2>2, FS_Union
  <2>4. Cardinality({}) = 0
    BY ONLY FS_EmptySet
  <2>5. Cardinality(A \union B) = n + m - 0
    BY ONLY <1>2, <2>1, <2>2, <2>3, <2>4
  <2>6. QED
    BY ONLY <2>2, <2>5, n \in Nat, m \in Nat
<1>4. Damage * (n + m) = Damage * n + Damage * m /\ Damage * n \in Nat /\ Damage * m \in Nat
  <2>1. \A d, a, b \in Nat : d * (a + b) = d * a + d * b /\ d * a \in Nat /\ d * b \in Nat
    OBVIOUS
  <2>2. QED
    BY ONLY <2>1, ParameterTypes
<1>5. baseHP = Remaining(Damage * n)
  BY <1>2 DEF DamageAccounted, Remaining
<1>6. baseHP' = IF baseHP - Damage * m < 0 THEN 0 ELSE baseHP - Damage * m
  BY <1>1, <1>2 DEF AdvanceTick, HPAfter
<1>7. baseHP' = Remaining(Damage * (n + m))
  BY ONLY <1>4, <1>5, <1>6, DamageAdds
<1>8. baseHP' = LET hp == InitialHP - Damage * Cardinality(Arrived')
                IN  IF hp < 0 THEN 0 ELSE hp
  BY ONLY <1>3, <1>7 DEF Remaining
<1>9. \A w \in WaveIDs : waveFinished'[w] <=> {x \in MonsterIDs : x[1] = w} \subseteq Arrived'
  BY FinishedTick
<1>10. QED
  BY <1>8, <1>9 DEF DamageAccounted

LEMMA DamageStep ==
    ASSUME TypeOK, WaveInv, DamageAccounted, [Next]_roomVars
    PROVE  DamageAccounted'
<1>1. CASE UNCHANGED <<serverTick, baseHP, monsters, spawned, waveFinished>>
  BY <1>1 DEF DamageAccounted, Arrived
<1>2. QED
  BY <1>1, TickOnly, DamageTick

LEMMA DamageInit == Init => DamageAccounted
<1> SUFFICES ASSUME Init PROVE DamageAccounted
  OBVIOUS
<1>1. Arrived = {} /\ \A w \in WaveIDs : waveFinished[w] = FALSE
  BY NoMonstersAtFirst
<1>2. baseHP = InitialHP
  BY DEF Init
<1>3. Cardinality(Arrived) = 0
  BY ONLY <1>1, FS_EmptySet
<1>4. \A w \in WaveIDs : <<w, Waves[w].count>> \in {x \in MonsterIDs : x[1] = w}
  BY MonsterPairs
<1>5. InitialHP - Damage * 0 = InitialHP /\ ~(InitialHP < 0)
  BY ParameterTypes
<1>6. QED
  BY ONLY <1>1, <1>2, <1>3, <1>4, <1>5 DEF DamageAccounted

LEMMA DamageAlways == Spec => [](TypeOK /\ WaveInv /\ DamageAccounted)
<1>1. TypeOK /\ WaveInv /\ DamageAccounted /\ [Next]_roomVars => DamageAccounted'
  BY DamageStep
<1>2. QED
  BY <1>1, DamageInit, WaveInvAlways, PTL DEF Spec

(* The base pays for each arrival once, and a wave is finished exactly when *)
(* all of its monsters have arrived.                                        *)
THEOREM DamageIsAccounted == Spec => []DamageAccounted
BY DamageAlways, PTL

----------------------------------------------------------------------------
(* The outcome. *)

(* All waves are finished exactly when all monsters have arrived. *)
LEMMA AllFinished ==
    ASSUME DamageAccounted
    PROVE  (WaveIDs # {} /\ \A w \in WaveIDs : waveFinished[w]) <=> AllArrived
<1>1. \A x \in MonsterIDs : x[1] \in WaveIDs
  BY MonsterPairs
<1>2. \A w \in WaveIDs : waveFinished[w] <=> {x \in MonsterIDs : x[1] = w} \subseteq Arrived
  BY DEF DamageAccounted
<1>3. QED
  BY ONLY <1>1, <1>2 DEF AllArrived

(* A tick closes the room with the outcome that its result calls for, or    *)
(* leaves it open with none due.                                            *)
LEMMA OutcomeTick ==
    ASSUME TypeOK, WaveInv, DamageAccounted, OutcomeSound, AdvanceTick
    PROVE  OutcomeSound'
<1>1. PICK now \in Nat, started \in Nat, hp \in Nat, arrived \in BOOLEAN, reason \in Reasons :
          /\ now = serverTick + 1 /\ started = startTick' /\ hp = baseHP'
          /\ arrived = AllArrived' /\ reason = finishReason'
  <2>1. startTick' \in Nat /\ baseHP' \in Nat /\ serverTick + 1 \in Nat
        /\ finishReason' \in Reasons
    <3>1. TypeOK'
      BY TypeOKStep DEF Next
    <3>2. QED
      BY <3>1 DEF TypeOK
  <2>2. AllArrived' \in BOOLEAN
    BY DEF AllArrived
  <2>3. QED
    BY <2>1, <2>2
<1>2. DamageAccounted'
  BY DamageTick
<1>3. (WaveIDs # {} /\ \A w \in WaveIDs : FinishedAfter(now)[w]) <=> arrived
  <2>1. (WaveIDs # {} /\ \A w \in WaveIDs : waveFinished[w])' <=> AllArrived'
    BY <1>2, AllFinished, PTL
  <2>2. waveFinished' = FinishedAfter(now)
    BY <1>1 DEF AdvanceTick
  <2>3. QED
    BY <1>1, <2>1, <2>2
<1>4. hp = HPAfter(now)
  BY <1>1 DEF AdvanceTick
<1>5. Outcome(now, started) = IF hp <= 0 THEN "LOSE"
                              ELSE IF now - started >= Timeout THEN "TIMEOUT"
                              ELSE IF arrived THEN "WIN" ELSE "NONE"
  BY ONLY <1>3, <1>4 DEF Outcome
<1>6. /\ state # "CLOSED" /\ serverTick' = now
      /\ started = IF state = "CREATED" THEN serverTick ELSE startTick
      /\ IF Outcome(now, started) # "NONE"
         THEN state' = "CLOSED" /\ reason = Outcome(now, started) /\ endTick' = now
         ELSE state' = "RUNNING" /\ reason = finishReason
  BY <1>1 DEF AdvanceTick, CanAdvance, Finish
<1>7. finishReason = "NONE" /\ serverTick - startTick < Timeout
  BY <1>6 DEF OutcomeSound
<1>8. now - started <= Timeout
  BY <1>1, <1>6, <1>7, ParameterTypes DEF TypeOK
<1>9. Timeout \in Nat \ {0}
  BY ParameterTypes
<1>10. /\ state' = "CLOSED" <=> reason # "NONE"
       /\ reason = "LOSE" => hp = 0
       /\ reason = "TIMEOUT" => hp > 0 /\ endTick' - started = Timeout
       /\ reason = "WIN" => hp > 0 /\ arrived /\ endTick' - started < Timeout
       /\ reason \in {"NONE", "ABORT"} => hp > 0 /\ ~arrived /\ now - started < Timeout
  BY ONLY <1>5, <1>6, <1>7, <1>8, <1>9, now \in Nat, started \in Nat, hp \in Nat
<1>11. QED
  BY ONLY <1>1, <1>6, <1>10, ParameterTypes DEF OutcomeSound, Timeout

LEMMA OutcomeStep ==
    ASSUME TypeOK, WaveInv, DamageAccounted, OutcomeSound, [Next]_roomVars
    PROVE  OutcomeSound'
<1>1. CASE AdvanceTick
  BY <1>1, OutcomeTick
<1>2. ASSUME UNCHANGED <<serverTick, baseHP, monsters, spawned, waveFinished>>
      PROVE  UNCHANGED <<serverTick, baseHP, AllArrived>>
  BY <1>2 DEF AllArrived, Arrived
<1>3. CASE Start
  <2>1. UNCHANGED <<serverTick, baseHP, monsters, spawned, waveFinished>>
    BY <1>3 DEF Start, monsterVars
  <2>2. /\ state = "CREATED" /\ state' = "RUNNING" /\ startTick' = serverTick
        /\ UNCHANGED <<finishReason, endTick>>
    BY <1>3 DEF Start
  <2>3. serverTick \in Nat /\ Timeout \in Nat \ {0} /\ finishReason \in Reasons
    BY ParameterTypes DEF TypeOK
  <2>4. QED
    BY ONLY OutcomeSound, <1>2, <2>1, <2>2, <2>3 DEF OutcomeSound, Timeout
<1>4. CASE Abort
  <2>1. UNCHANGED <<serverTick, baseHP, monsters, spawned, waveFinished>>
    BY <1>4 DEF Abort, monsterVars
  <2>2. /\ state # "CLOSED" /\ state' = "CLOSED" /\ finishReason' = "ABORT"
        /\ UNCHANGED startTick
    BY <1>4 DEF Abort, CanAbort, Finish
  <2>3. QED
    BY ONLY OutcomeSound, <1>2, <2>1, <2>2 DEF OutcomeSound, Timeout
<1>5. CASE PlayerOp \/ MarkSettled \/ FlushDeltas \/ UNCHANGED roomVars
  <2>1. UNCHANGED <<clockVars, monsterVars>>
    <3>1. CASE PlayerOp
      BY <3>1 DEF PlayerOp, OpOf, BuildTower, RerollTower, MergeTower, BuyMiner
    <3>2. CASE MarkSettled \/ FlushDeltas \/ UNCHANGED roomVars
      BY <3>2 DEF MarkSettled, FlushDeltas, roomVars
    <3>3. QED
      BY <1>5, <3>1, <3>2
  <2>2. UNCHANGED <<state, serverTick, startTick, endTick, finishReason, baseHP, monsters>>
    BY ONLY <2>1 DEF clockVars, monsterVars
  <2>3. QED
    BY ONLY OutcomeSound, <2>2 DEF OutcomeSound, AllArrived, Arrived, Timeout
<1>6. QED
  BY <1>1, <1>3, <1>4, <1>5 DEF Next

LEMMA OutcomeInit == Init => OutcomeSound
<1> SUFFICES ASSUME Init PROVE OutcomeSound
  OBVIOUS
<1>1. /\ state = "CREATED" /\ finishReason = "NONE" /\ baseHP = InitialHP
      /\ serverTick = 0 /\ startTick = 0
  BY DEF Init
<1>2. ~AllArrived
  <2>1. Arrived = {}
    BY NoMonstersAtFirst
  <2>2. \A w \in WaveIDs : <<w, Waves[w].count>> \in MonsterIDs
    BY MonsterPairs
  <2>3. QED
    BY ONLY <2>1, <2>2 DEF AllArrived
<1>3. InitialHP \in Nat \ {0} /\ Timeout \in Nat \ {0}
  BY ParameterTypes
<1>4. QED
  BY ONLY <1>1, <1>2, <1>3 DEF OutcomeSound

(* The recorded outcome is always the one the final state calls for, and an *)
(* open room has none due: defeat before timeout before victory.            *)
THEOREM OutcomeIsSound == Spec => []OutcomeSound
<1>1. TypeOK /\ WaveInv /\ DamageAccounted /\ OutcomeSound /\ [Next]_roomVars
          => OutcomeSound'
  BY OutcomeStep
<1>2. QED
  BY <1>1, OutcomeInit, DamageAlways, PTL DEF Spec

----------------------------------------------------------------------------
(* Gold. *)

(* Powers of two, counted as sets of subsets. *)
LEMMA PowerOfTwo ==
    ASSUME NEW n \in Nat
    PROVE  /\ 2 ^ n \in Nat \ {0}
           /\ 2 ^ n = Cardinality(SUBSET (1 .. n)) /\ IsFiniteSet(SUBSET (1 .. n))
<1>1. IsFiniteSet(1 .. n) /\ Cardinality(1 .. n) = n
  <2>1. /\ IsFiniteSet(1 .. n)
        /\ Cardinality(1 .. n) = IF 1 > n THEN 0 ELSE n - 1 + 1
    BY FS_Interval
  <2>2. QED
    BY ONLY <2>1, n \in Nat
<1>2. IsFiniteSet(SUBSET (1 .. n)) /\ Cardinality(SUBSET (1 .. n)) = 2 ^ n
  BY <1>1, FS_SUBSET
<1>3. SUBSET (1 .. n) # {}
  BY ONLY {} \in SUBSET (1 .. n)
<1>4. Cardinality(SUBSET (1 .. n)) \in Nat \ {0}
  BY ONLY <1>2, <1>3, FS_CardinalityType, FS_EmptySet
<1>5. QED
  BY ONLY <1>2, <1>4

LEMMA PowersDouble ==
    /\ 2 ^ 0 = 1
    /\ \A n \in Nat : 2 ^ (n + 1) = 2 ^ n + 2 ^ n
<1>1. 2 ^ 0 = 1
  <2>1. 1 .. 0 = {} /\ SUBSET {} = {{}}
    OBVIOUS
  <2>2. Cardinality({{}}) = 1
    BY ONLY FS_Singleton
  <2>3. 2 ^ 0 = Cardinality(SUBSET (1 .. 0))
    BY ONLY PowerOfTwo, 0 \in Nat
  <2>4. QED
    BY ONLY <2>1, <2>2, <2>3
<1>2. ASSUME NEW n \in Nat
      PROVE  2 ^ (n + 1) = 2 ^ n + 2 ^ n
  <2> DEFINE S == SUBSET (1 .. n)
             f == [T \in S |-> T \union {n + 1}]
             R == {T \union {n + 1} : T \in S}
  <2>1. /\ 2 ^ n = Cardinality(S) /\ IsFiniteSet(S) /\ 2 ^ n \in Nat
        /\ 2 ^ (n + 1) = Cardinality(SUBSET (1 .. n + 1))
    BY PowerOfTwo, n + 1 \in Nat
  <2>2. n + 1 \notin 1 .. n /\ (1 .. n + 1) = (1 .. n) \union {n + 1}
    OBVIOUS
  <2>3. f \in Bijection(S, R)
    <3>1. f \in [S -> R]
      OBVIOUS
    <3>2. \A T, U \in S : f[T] = f[U] => T = U
      <4>1. ASSUME NEW T \in S, NEW U \in S, f[T] = f[U] PROVE T = U
        <5>1. T \union {n + 1} = U \union {n + 1} /\ n + 1 \notin T /\ n + 1 \notin U
          BY <2>2, <4>1
        <5>2. T = (T \union {n + 1}) \ {n + 1} /\ U = (U \union {n + 1}) \ {n + 1}
          BY ONLY <5>1
        <5>3. QED
          BY ONLY <5>1, <5>2
      <4>2. QED
        BY <4>1
    <3>3. \A V \in R : \E T \in S : f[T] = V
      OBVIOUS
    <3>4. f \in Injection(S, R)
      BY ONLY <3>1, <3>2 DEF Injection, IsInjective
    <3>5. f \in Surjection(S, R)
      BY ONLY <3>1, <3>3 DEF Surjection
    <3>6. QED
      BY ONLY <3>4, <3>5 DEF Bijection
  <2>4. IsFiniteSet(R) /\ Cardinality(R) = Cardinality(S)
    <3>1. ExistsBijection(S, R)
      BY <2>3 DEF ExistsBijection
    <3>2. QED
      BY ONLY <2>1, <3>1, FS_Bijection
  <2>5. SUBSET (1 .. n + 1) = S \union R
    <3>1. ASSUME NEW V \in SUBSET (1 .. n + 1) PROVE V \in S \union R
      <4>1. CASE n + 1 \in V
        <5>1. V \ {n + 1} \in S
          BY ONLY <2>2, V \in SUBSET (1 .. n + 1)
        <5>2. V = (V \ {n + 1}) \union {n + 1}
          BY ONLY <4>1
        <5>3. QED
          BY ONLY <5>1, <5>2
      <4>2. CASE n + 1 \notin V
        <5>1. V \in S
          BY ONLY <2>2, <4>2, V \in SUBSET (1 .. n + 1)
        <5>2. QED
          BY ONLY <5>1
      <4>3. QED
        BY <4>1, <4>2
    <3>2. \A T \in S : T \in SUBSET (1 .. n + 1) /\ T \union {n + 1} \in SUBSET (1 .. n + 1)
      BY ONLY <2>2
    <3>3. ASSUME NEW V \in S \union R PROVE V \in SUBSET (1 .. n + 1)
      <4>1. CASE V \in S
        BY ONLY <3>2, <4>1
      <4>2. CASE V \in R
        <5>1. PICK T \in S : V = T \union {n + 1}
          BY <4>2
        <5>2. QED
          BY ONLY <3>2, <5>1
      <4>3. QED
        BY <4>1, <4>2
    <3>4. SUBSET (1 .. n + 1) \subseteq S \union R
      BY <3>1
    <3>5. QED
      BY <3>3, <3>4
  <2>6. S \intersect R = {}
    BY <2>2
  <2> HIDE DEF S, R
  <2>7. Cardinality(S \union R) = Cardinality(S) + Cardinality(R) - 0
    BY ONLY <2>1, <2>4, <2>6, FS_Union, FS_EmptySet
  <2>8. PICK c \in Nat : c = 2 ^ n
    BY <2>1
  <2>9. 2 ^ (n + 1) = c + c - 0
    BY ONLY <2>1, <2>4, <2>5, <2>7, <2>8
  <2>10. QED
    BY ONLY <2>8, <2>9
<1>3. QED
  BY <1>1, <1>2

LEMMA PowersGrow ==
    ASSUME NEW m \in Nat, NEW n \in Nat, m <= n
    PROVE  2 ^ m <= 2 ^ n
<1>1. SUBSET (1 .. m) \in SUBSET (SUBSET (1 .. n))
  OBVIOUS
<1>2. IsFiniteSet(SUBSET (1 .. n))
  BY PowerOfTwo
<1>3. Cardinality(SUBSET (1 .. m)) <= Cardinality(SUBSET (1 .. n))
  BY ONLY <1>1, <1>2, FS_Subset
<1>4. QED
  BY ONLY <1>3, PowerOfTwo, m \in Nat, n \in Nat

(* What a tower of a level took to build, and the units of gold, one for    *)
(* each build, that a player has on a board.                                *)
Cost == [level \in 1 .. MaxLevel |-> 2 ^ (level - 1)]

Units(board, p) ==
    {x \in (DOMAIN board) \X (1 .. Cost[MaxLevel]) :
        board[x[1]].owner = p /\ x[2] <= Cost[board[x[1]].level]}

LEMMA CostFacts ==
    /\ Cost \in [1 .. MaxLevel -> Nat \ {0}] /\ Cost[1] = 1
    /\ \A level \in 1 .. MaxLevel :
           /\ Cost[level] <= Cost[MaxLevel]
           /\ level < MaxLevel => Cost[level + 1] = Cost[level] + Cost[level]
<1>1. MaxLevel \in Nat \ {0}
  BY ParameterTypes
<1>2. \A level \in 1 .. MaxLevel : level - 1 \in Nat
  BY <1>1
<1>3. \A n \in Nat : 2 ^ n \in Nat \ {0}
  BY PowerOfTwo
<1>4. Cost \in [1 .. MaxLevel -> Nat \ {0}]
  BY ONLY <1>2, <1>3 DEF Cost
<1>5. Cost[1] = 1
  <2>1. 1 \in 1 .. MaxLevel /\ 1 - 1 = 0
    BY <1>1
  <2>2. QED
    BY ONLY <2>1, PowersDouble DEF Cost
<1>6. ASSUME NEW level \in 1 .. MaxLevel
      PROVE  Cost[level] <= Cost[MaxLevel]
  <2>1. /\ level - 1 \in Nat /\ MaxLevel - 1 \in Nat /\ level - 1 <= MaxLevel - 1
        /\ MaxLevel \in 1 .. MaxLevel
    BY <1>1
  <2>2. 2 ^ (level - 1) <= 2 ^ (MaxLevel - 1)
    BY ONLY <2>1, PowersGrow
  <2>3. QED
    BY ONLY <2>1, <2>2, level \in 1 .. MaxLevel DEF Cost
<1>7. ASSUME NEW level \in 1 .. MaxLevel, level < MaxLevel
      PROVE  Cost[level + 1] = Cost[level] + Cost[level]
  <2>1. level - 1 \in Nat /\ level + 1 \in 1 .. MaxLevel /\ level + 1 - 1 = level - 1 + 1
    BY <1>1, <1>7
  <2>2. 2 ^ (level - 1 + 1) = 2 ^ (level - 1) + 2 ^ (level - 1)
    BY ONLY <2>1, PowersDouble
  <2>3. Cost[level + 1] = 2 ^ (level - 1 + 1) /\ Cost[level] = 2 ^ (level - 1)
    BY ONLY <2>1, level \in 1 .. MaxLevel DEF Cost
  <2>4. QED
    BY ONLY <2>2, <2>3
<1>8. QED
  BY <1>4, <1>5, <1>6, <1>7

(* Builds counts units, of which a board has finitely many. *)
LEMMA BuildsAreUnits ==
    ASSUME TypeOK, NEW p \in Players
    PROVE  /\ IsFiniteSet(Units(towers, p)) /\ Cardinality(Units(towers, p)) \in Nat
           /\ Builds(p) = Cardinality(Units(towers, p))
<1>1. IsFiniteSet(DOMAIN towers)
  <2>1. DOMAIN towers \in SUBSET (1 .. nextTowerID - 1) /\ nextTowerID - 1 \in Int
    BY DEF TypeOK
  <2>2. QED
    BY ONLY <2>1, FS_Interval, FS_Subset
<1>2. Cost[MaxLevel] \in Nat
  <2>1. MaxLevel \in 1 .. MaxLevel
    BY ParameterTypes
  <2>2. QED
    BY ONLY <2>1, CostFacts
<1>3. IsFiniteSet((DOMAIN towers) \X (1 .. Cost[MaxLevel]))
  <2>1. IsFiniteSet(1 .. Cost[MaxLevel])
    BY <1>2, FS_Interval
  <2>2. QED
    BY ONLY <1>1, <2>1, FS_Product
<1>4. Units(towers, p) \in SUBSET ((DOMAIN towers) \X (1 .. Cost[MaxLevel]))
  BY DEF Units
<1>5. IsFiniteSet(Units(towers, p))
  BY ONLY <1>3, <1>4, FS_Subset
<1>6. Units(towers, p) = {x \in (DOMAIN towers) \X (1 .. 2 ^ (MaxLevel - 1)) :
                    towers[x[1]].owner = p /\ x[2] <= 2 ^ (towers[x[1]].level - 1)}
  <2>1. \A t \in DOMAIN towers : towers[t].level \in 1 .. MaxLevel
    BY DEF TypeOK, Towers
  <2>2. MaxLevel \in 1 .. MaxLevel
    BY ParameterTypes
  <2>3. \A level \in 1 .. MaxLevel : Cost[level] = 2 ^ (level - 1)
    BY DEF Cost
  <2>4. QED
    BY ONLY <2>1, <2>2, <2>3 DEF Units
<1>7. QED
  BY ONLY <1>5, <1>6, FS_CardinalityType DEF Builds

LEMMA MinersFinite ==
    ASSUME TypeOK, NEW p \in Players
    PROVE  IsFiniteSet(MinersOf(p)) /\ Cardinality(MinersOf(p)) \in Nat
<1>1. MinersOf(p) \in SUBSET (1 .. nextMinerID - 1) /\ nextMinerID - 1 \in Int
  BY DEF TypeOK, MinersOf
<1>2. IsFiniteSet(1 .. nextMinerID - 1)
  BY ONLY <1>1, FS_Interval
<1>3. IsFiniteSet(MinersOf(p))
  BY ONLY <1>1, <1>2, FS_Subset
<1>4. QED
  BY ONLY <1>3, FS_CardinalityType

(* The balance of one player with u units on the board and m miners. *)
Balanced(gold, u, m) == gold + BuildCostGold * u + MinerCostGold * m = InitialGold

LEMMA BalanceKept ==
    ASSUME NEW gold \in Nat, NEW u \in Nat, NEW m \in Nat, Balanced(gold, u, m)
    PROVE  /\ Balanced(gold - BuildCostGold, u + 1, m)
           /\ Balanced(gold - MinerCostGold, u, m + 1)
<1>1. \A c, n \in Nat : c * (n + 1) = c * n + c /\ c * n \in Nat
  OBVIOUS
<1>2. /\ BuildCostGold * (u + 1) = BuildCostGold * u + BuildCostGold
      /\ MinerCostGold * (m + 1) = MinerCostGold * m + MinerCostGold
      /\ BuildCostGold * u \in Nat /\ MinerCostGold * m \in Nat
  BY <1>1, AmountTypes
<1>3. QED
  BY ONLY <1>2, AmountTypes, gold \in Nat, Balanced(gold, u, m) DEF Balanced

LEMMA GoldByUnits ==
    ASSUME TypeOK
    PROVE  GoldConserved <=>
               \A p \in Players : Balanced(players[p].gold, Cardinality(Units(towers, p)),
                                           Cardinality(MinersOf(p)))
BY BuildsAreUnits DEF GoldConserved, Balanced

(* A new tower is one unit of its owner. *)
LEMMA UnitsBuilt ==
    ASSUME TypeOK, NEW q \in Players, NEW p \in Players, NEW type, NEW g
    PROVE  LET board == Put(towers, nextTowerID, Tower(q, type, 1, g))
           IN  Cardinality(Units(board, p)) =
                   Cardinality(Units(towers, p)) + (IF p = q THEN 1 ELSE 0)
<1> DEFINE board == Put(towers, nextTowerID, Tower(q, type, 1, g))
           new == <<nextTowerID, 1>>
<1>1. nextTowerID \notin DOMAIN towers
  <2>1. DOMAIN towers \subseteq 1 .. nextTowerID - 1 /\ nextTowerID \in Nat
    BY DEF TypeOK
  <2>2. QED
    BY ONLY <2>1
<1>2. /\ DOMAIN board = DOMAIN towers \union {nextTowerID}
      /\ \A t \in DOMAIN towers : board[t] = towers[t]
      /\ board[nextTowerID].owner = q /\ board[nextTowerID].level = 1
  BY <1>1 DEF Put, Tower
<1>3. Cost[1] = 1 /\ Cost[MaxLevel] \in Nat \ {0}
  <2>1. MaxLevel \in 1 .. MaxLevel
    BY ParameterTypes
  <2>2. QED
    BY ONLY <2>1, CostFacts
<1>4. PICK N \in Nat \ {0} : N = Cost[MaxLevel]
  BY <1>3
<1> HIDE DEF board
<1>5. \A x \in (DOMAIN board) \X (1 .. N) :
          x \in Units(board, p) <=> x \in Units(towers, p) \/ (x = new /\ p = q)
  <2>1. \A x \in (DOMAIN board) \X (1 .. N) :
            x \in Units(board, p) <=>
                board[x[1]].owner = p /\ x[2] <= Cost[board[x[1]].level]
    BY ONLY <1>4 DEF Units
  <2>2. \A x \in (DOMAIN towers) \X (1 .. N) :
            x \in Units(towers, p) <=>
                towers[x[1]].owner = p /\ x[2] <= Cost[towers[x[1]].level]
    BY ONLY <1>4 DEF Units
  <2>3. \A x \in Units(towers, p) : x[1] \in DOMAIN towers
    BY DEF Units
  <2>4. ASSUME NEW x \in (DOMAIN board) \X (1 .. N)
        PROVE  x \in Units(board, p) <=> x \in Units(towers, p) \/ (x = new /\ p = q)
    <3>1. x = <<x[1], x[2]>> /\ x[1] \in DOMAIN board /\ x[2] \in 1 .. N
      OBVIOUS
    <3>2. CASE x[1] \in DOMAIN towers
      <4>1. x \in (DOMAIN towers) \X (1 .. N) /\ x # new
        BY ONLY <1>1, <3>1, <3>2
      <4>2. QED
        BY ONLY <1>2, <2>1, <2>2, <3>2, <4>1, x \in (DOMAIN board) \X (1 .. N)
    <3>3. CASE x[1] = nextTowerID
      <4>1. x \notin Units(towers, p)
        BY ONLY <1>1, <2>3, <3>3
      <4>2. x[2] <= Cost[1] <=> x = new
        BY ONLY <1>3, <3>1, <3>3
      <4>3. QED
        BY ONLY <1>2, <2>1, <3>3, <4>1, <4>2, x \in (DOMAIN board) \X (1 .. N)
    <3>4. QED
      BY ONLY <1>2, <3>1, <3>2, <3>3
  <2>5. QED
    BY <2>4
<1>6. /\ Units(board, p) \subseteq (DOMAIN board) \X (1 .. N)
      /\ Units(towers, p) \subseteq (DOMAIN board) \X (1 .. N)
      /\ new \in (DOMAIN board) \X (1 .. N)
  BY ONLY <1>2, <1>4 DEF Units
<1>7. Units(board, p) = IF p = q THEN Units(towers, p) \union {new} ELSE Units(towers, p)
  BY ONLY <1>5, <1>6
<1>8. new \notin Units(towers, p)
  BY ONLY <1>1 DEF Units
<1>9. IsFiniteSet(Units(towers, p)) /\ Cardinality(Units(towers, p)) \in Nat
  BY BuildsAreUnits
<1>10. Cardinality(Units(towers, p) \union {new}) = Cardinality(Units(towers, p)) + 1
  BY ONLY <1>8, <1>9, FS_AddElement
<1>11. Cardinality(Units(board, p)) =
           Cardinality(Units(towers, p)) + (IF p = q THEN 1 ELSE 0)
  <2>1. CASE p = q
    BY ONLY <1>7, <1>10, <2>1
  <2>2. CASE p # q
    BY ONLY <1>7, <1>9, <2>2
  <2>3. QED
    BY ONLY <2>1, <2>2
<1>12. QED
  BY ONLY <1>11 DEF board

(* A board with the same towers of the same owners and levels has the same  *)
(* units, whatever the types.                                               *)
LEMMA UnitsRerolled ==
    ASSUME NEW before, NEW after, NEW p, DOMAIN after = DOMAIN before,
           \A t \in DOMAIN before : /\ after[t].owner = before[t].owner
                                    /\ after[t].level = before[t].level
    PROVE  Units(after, p) = Units(before, p)
BY DEF Units

(* A merge gives the units of the material to the main tower. *)
LEMMA UnitsMerged ==
    ASSUME TypeOK, NEW q \in Players, NEW p \in Players, NEW board,
           NEW main \in DOMAIN towers, NEW material \in DOMAIN towers,
           Mergeable(q, main, material), DOMAIN board = DOMAIN towers \ {material},
           \A t \in DOMAIN board : t # main => board[t] = towers[t],
           board[main].owner = q, board[main].level = towers[main].level + 1
    PROVE  Cardinality(Units(board, p)) = Cardinality(Units(towers, p))
<1>1. /\ main # material /\ towers[main].owner = q /\ towers[material].owner = q
      /\ towers[main].level = towers[material].level /\ towers[main].level < MaxLevel
      /\ towers[main].level \in 1 .. MaxLevel
  BY DEF Mergeable, OwnPairBelowMax, TypeOK, Towers
<1>2. PICK level \in 1 .. MaxLevel : level = towers[main].level /\ level < MaxLevel
  BY ONLY <1>1
<1>3. PICK n \in Nat \ {0}, N \in Nat \ {0} :
          /\ n = Cost[level] /\ N = Cost[MaxLevel] /\ Cost[level + 1] = n + n /\ n + n <= N
  <2>1. /\ level \in 1 .. MaxLevel /\ level + 1 \in 1 .. MaxLevel /\ MaxLevel \in 1 .. MaxLevel
    BY <1>2, ParameterTypes
  <2>2. /\ Cost[level] \in Nat \ {0} /\ Cost[MaxLevel] \in Nat \ {0}
        /\ Cost[level + 1] = Cost[level] + Cost[level]
        /\ Cost[level + 1] <= Cost[MaxLevel]
    BY ONLY <1>2, <2>1, CostFacts
  <2>3. QED
    BY ONLY <2>2
<1>4. /\ DOMAIN board = DOMAIN towers \ {material}
      /\ \A t \in DOMAIN board : t # main => board[t] = towers[t]
      /\ main \in DOMAIN board /\ board[main].owner = q /\ board[main].level = level + 1
  BY <1>1, <1>2
<1>5. CASE p # q
  <2>1. \A x \in (DOMAIN towers) \X (1 .. N) : x \in Units(board, p) <=> x \in Units(towers, p)
    BY ONLY <1>1, <1>3, <1>4, <1>5 DEF Units
  <2>2. /\ Units(board, p) \subseteq (DOMAIN towers) \X (1 .. N)
        /\ Units(towers, p) \subseteq (DOMAIN towers) \X (1 .. N)
    BY ONLY <1>3, <1>4 DEF Units
  <2>3. Units(board, p) = Units(towers, p)
    BY ONLY <2>1, <2>2
  <2>4. QED
    BY ONLY <2>3
<1>6. CASE p = q
  <2> DEFINE U == Units(towers, p)
             gone == {material} \X (1 .. n)
             more == {main} \X (n + 1 .. n + n)
  <2>1. /\ U \subseteq (DOMAIN towers) \X (1 .. N)
        /\ \A x \in (DOMAIN towers) \X (1 .. N) :
               x \in U <=> towers[x[1]].owner = p /\ x[2] <= Cost[towers[x[1]].level]
    BY ONLY <1>3 DEF Units
  <2>2. /\ Units(board, p) \subseteq (DOMAIN towers) \X (1 .. N)
        /\ \A x \in (DOMAIN towers) \X (1 .. N) :
               x \in Units(board, p) <=> /\ x[1] # material /\ board[x[1]].owner = p
                                         /\ x[2] <= Cost[board[x[1]].level]
    BY ONLY <1>3, <1>4 DEF Units
  <2> HIDE DEF U
  <2>3. gone \subseteq U
    BY ONLY <1>1, <1>2, <1>3, <1>6, <2>1
  <2>4. more \intersect (U \ gone) = {}
    BY ONLY <1>1, <1>2, <1>3, <2>1
  <2>5. Units(board, p) = (U \ gone) \union more
    <3>1. gone \subseteq (DOMAIN towers) \X (1 .. N) /\ more \subseteq (DOMAIN towers) \X (1 .. N)
      BY ONLY <1>3
    <3>2. ASSUME NEW x \in (DOMAIN towers) \X (1 .. N)
          PROVE  x \in Units(board, p) <=> x \in (U \ gone) \union more
      <4>1. x = <<x[1], x[2]>> /\ x[1] \in DOMAIN towers /\ x[2] \in 1 .. N
        OBVIOUS
      <4>2. CASE x[1] = material
        <5>1. x \notin more /\ x \notin Units(board, p)
          BY ONLY <1>1, <2>2, <4>2, x \in (DOMAIN towers) \X (1 .. N)
        <5>2. x \in U => x \in gone
          BY ONLY <1>1, <1>2, <1>3, <2>1, <4>1, <4>2, x \in (DOMAIN towers) \X (1 .. N)
        <5>3. QED
          BY ONLY <5>1, <5>2
      <4>3. CASE x[1] = main
        <5>1. x \notin gone /\ (x \in U <=> x[2] <= n)
          BY ONLY <1>1, <1>2, <1>3, <1>6, <2>1, <4>3, x \in (DOMAIN towers) \X (1 .. N)
        <5>2. x \in Units(board, p) <=> x[2] <= n + n
          BY ONLY <1>1, <1>3, <1>4, <1>6, <2>2, <4>3, x \in (DOMAIN towers) \X (1 .. N)
        <5>3. x \in more <=> x[2] > n /\ x[2] <= n + n
          BY ONLY <4>1, <4>3, n \in Nat
        <5>4. QED
          BY ONLY <4>1, <5>1, <5>2, <5>3, n \in Nat
      <4>4. CASE x[1] # main /\ x[1] # material
        <5>1. x \notin gone /\ x \notin more
          BY ONLY <4>4
        <5>2. x \in Units(board, p) <=> x \in U
          BY ONLY <1>4, <2>1, <2>2, <4>1, <4>4, x \in (DOMAIN towers) \X (1 .. N)
        <5>3. QED
          BY ONLY <5>1, <5>2
      <4>5. QED
        BY ONLY <4>2, <4>3, <4>4
    <3>3. QED
      BY ONLY <2>1, <2>2, <3>1, <3>2
  <2>6. IsFiniteSet(U) /\ Cardinality(U) \in Nat
    BY BuildsAreUnits DEF U
  <2>7. Cardinality(gone) = n /\ Cardinality(more) = n
    <3>1. Cardinality({material} \X (1 .. n)) = n - 1 + 1
      <4>1. 1 \in Nat /\ n \in Nat /\ 1 <= n + 1
        OBVIOUS
      <4>2. QED
        BY ONLY <4>1, PairsSize
    <3>2. Cardinality({main} \X (n + 1 .. n + n)) = n + n - (n + 1) + 1
      <4>1. n + 1 \in Nat /\ n + n \in Nat /\ n + 1 <= n + n + 1
        OBVIOUS
      <4>2. PICK a \in Nat, b \in Nat : a = n + 1 /\ b = n + n
        BY ONLY <4>1
      <4>3. Cardinality({main} \X (a .. b)) = b - a + 1
        BY ONLY <4>1, <4>2, PairsSize
      <4>4. QED
        BY ONLY <4>2, <4>3
    <3>3. n - 1 + 1 = n /\ n + n - (n + 1) + 1 = n
      OBVIOUS
    <3>4. QED
      BY ONLY <3>1, <3>2, <3>3
  <2>8. IsFiniteSet(gone) /\ IsFiniteSet(more)
    <3>1. IsFiniteSet(1 .. n) /\ IsFiniteSet(n + 1 .. n + n)
      BY FS_Interval
    <3>2. QED
      BY ONLY <3>1, FS_Singleton, FS_Product
  <2> HIDE DEF gone, more
  <2>9. /\ IsFiniteSet(U \ gone)
        /\ Cardinality(U \ gone) = Cardinality(U) - Cardinality(gone)
    <3>1. U \intersect gone = gone
      BY ONLY <2>3
    <3>2. QED
      BY ONLY <2>6, <3>1, FS_Difference
  <2>10. Cardinality((U \ gone) \union more) = Cardinality(U \ gone) + Cardinality(more) - 0
    <3>1. (U \ gone) \intersect more = {} /\ Cardinality({}) = 0
      BY ONLY <2>4, FS_EmptySet
    <3>2. QED
      BY ONLY <2>8, <2>9, <3>1, FS_Union
  <2>11. PICK u \in Nat : u = Cardinality(U)
    BY <2>6
  <2>12. Cardinality(Units(board, p)) = u - n + n - 0
    BY ONLY <2>5, <2>7, <2>9, <2>10, <2>11
  <2>13. Cardinality(Units(board, p)) = Cardinality(U)
    BY ONLY <2>11, <2>12, n \in Nat
  <2>14. QED
    BY ONLY <2>13 DEF U
<1>7. QED
  BY <1>5, <1>6

(* The balances of the state that a step leads to. *)
LEMMA GoldByUnitsNext ==
    ASSUME TypeOK'
    PROVE  GoldConserved' <=>
               \A p \in Players : Balanced(players'[p].gold, Cardinality(Units(towers', p)),
                                           Cardinality(MinersOf(p)'))
<1>1. TypeOK' => (GoldConserved <=>
               \A p \in Players : Balanced(players[p].gold, Cardinality(Units(towers, p)),
                                           Cardinality(MinersOf(p))))'
  BY GoldByUnits, PTL
<1>2. QED
  BY <1>1 DEF Units, Balanced, Cost, MaxLevel

(* Every operation moves gold within the balance of its player. *)
LEMMA GoldStep ==
    ASSUME TypeOK, GoldConserved, [Next]_roomVars
    PROVE  GoldConserved'
<1>1. \A p \in Players : Balanced(players[p].gold, Cardinality(Units(towers, p)),
                                  Cardinality(MinersOf(p)))
  BY GoldByUnits
<1>2. SUFFICES ASSUME NEW p \in Players
               PROVE  Balanced(players'[p].gold, Cardinality(Units(towers', p)),
                               Cardinality(MinersOf(p)'))
  BY TypeOKStep, GoldByUnitsNext
<1>3. PICK gold \in Nat, u \in Nat, m \in Nat :
          /\ gold = players[p].gold /\ u = Cardinality(Units(towers, p))
          /\ m = Cardinality(MinersOf(p)) /\ Balanced(gold, u, m)
  <2>1. players[p].gold \in Nat
    BY DEF TypeOK, Resources
  <2>2. QED
    BY <1>1, <2>1, BuildsAreUnits, MinersFinite
<1>4. ASSUME players'[p].gold = gold, Cardinality(Units(towers', p)) = u,
             MinersOf(p)' = MinersOf(p)
      PROVE  Balanced(players'[p].gold, Cardinality(Units(towers', p)),
                      Cardinality(MinersOf(p)'))
  BY ONLY <1>3, <1>4
<1>5. ASSUME NEW q \in Players, NEW cost \in Nat, NEW mana, Spend(q, cost, mana)
      PROVE  players'[p].gold = IF p = q THEN gold - cost ELSE gold
  BY <1>3, <1>5 DEF Spend, TypeOK
<1>6. ASSUME NEW q \in Players, NEW g \in GridIDs, BuildTower(q, g)
      PROVE  Balanced(players'[p].gold, Cardinality(Units(towers', p)),
                      Cardinality(MinersOf(p)'))
  <2>1. players'[p].gold = IF p = q THEN gold - BuildCostGold ELSE gold
    BY <1>5, <1>6, AmountTypes DEF BuildTower
  <2>2. towers' = Put(towers, nextTowerID, Tower(q, NextTowerType(q), 1, g))
    BY <1>6 DEF BuildTower
  <2>3. Cardinality(Units(towers', p)) = u + (IF p = q THEN 1 ELSE 0)
    BY <1>3, <2>2, UnitsBuilt
  <2>4. MinersOf(p)' = MinersOf(p)
    BY <1>6 DEF BuildTower, minerVars, MinersOf
  <2>5. CASE p = q
    <3>1. Balanced(gold - BuildCostGold, u + 1, m)
      BY ONLY <1>3, BalanceKept
    <3>2. QED
      BY ONLY <1>3, <2>1, <2>3, <2>4, <2>5, <3>1
  <2>6. CASE p # q
    <3>1. Cardinality(Units(towers', p)) = u
      BY ONLY <2>3, <2>6, u \in Nat
    <3>2. QED
      BY ONLY <1>3, <2>1, <2>4, <2>6, <3>1
  <2>7. QED
    BY ONLY <2>5, <2>6
<1>7. ASSUME NEW q \in Players, NEW t \in DOMAIN towers, RerollTower(q, t)
      PROVE  Balanced(players'[p].gold, Cardinality(Units(towers', p)),
                      Cardinality(MinersOf(p)'))
  <2>1. players'[p].gold = gold
    <3>1. Spend(q, 0, RerollCostMana)
      BY <1>7 DEF RerollTower
    <3>2. players'[p].gold = IF p = q THEN gold - 0 ELSE gold
      BY <1>5, <3>1
    <3>3. QED
      BY ONLY <3>2, gold \in Nat
  <2>2. Units(towers', p) = Units(towers, p)
    <3>1. /\ towers' = [towers EXCEPT ![t] = Tower(q, NextTowerType(q), towers[t].level,
                                                   towers[t].grid)]
          /\ towers[t].owner = q
      BY <1>7 DEF RerollTower
    <3>2. /\ DOMAIN towers' = DOMAIN towers
          /\ \A v \in DOMAIN towers : /\ towers'[v].owner = towers[v].owner
                                      /\ towers'[v].level = towers[v].level
      BY ONLY <3>1 DEF Tower
    <3>3. QED
      BY ONLY <3>2, UnitsRerolled
  <2>3. MinersOf(p)' = MinersOf(p)
    BY <1>7 DEF RerollTower, minerVars, MinersOf
  <2>4. QED
    BY <1>3, <1>4, <2>1, <2>2, <2>3
<1>8. ASSUME NEW q \in Players, NEW main \in DOMAIN towers,
             NEW material \in DOMAIN towers, MergeTower(q, main, material)
      PROVE  Balanced(players'[p].gold, Cardinality(Units(towers', p)),
                      Cardinality(MinersOf(p)'))
  <2>1. Cardinality(Units(towers', p)) = u
    <3>1. /\ Mergeable(q, main, material)
          /\ towers' = [t \in DOMAIN towers \ {material} |->
                           IF t = main
                           THEN Tower(q, NextTowerType(q), towers[main].level + 1,
                                      towers[main].grid)
                           ELSE towers[t]]
      BY <1>8 DEF MergeTower
    <3>2. PICK board : board = towers'
      OBVIOUS
    <3>3. /\ DOMAIN board = DOMAIN towers \ {material}
          /\ \A t \in DOMAIN board : t # main => board[t] = towers[t]
          /\ board[main].owner = q /\ board[main].level = towers[main].level + 1
      BY <3>1, <3>2 DEF Tower, Mergeable
    <3>4. Cardinality(Units(board, p)) = Cardinality(Units(towers, p))
      BY <3>1, <3>3, UnitsMerged
    <3>5. QED
      BY ONLY <1>3, <3>2, <3>4
  <2>2. players' = players /\ miners' = miners
    BY <1>8 DEF MergeTower, minerVars
  <2>3. players'[p].gold = gold /\ MinersOf(p)' = MinersOf(p)
    BY <1>3, <2>2 DEF MinersOf
  <2>4. QED
    BY <1>4, <2>1, <2>3
<1>9. ASSUME NEW q \in Players, BuyMiner(q)
      PROVE  Balanced(players'[p].gold, Cardinality(Units(towers', p)),
                      Cardinality(MinersOf(p)'))
  <2>1. players'[p].gold = IF p = q THEN gold - MinerCostGold ELSE gold
    BY <1>5, <1>9, AmountTypes DEF BuyMiner
  <2>2. Cardinality(Units(towers', p)) = u
    BY <1>3, <1>9 DEF BuyMiner, towerVars
  <2>3. PICK i : i = nextMinerID /\ i \notin DOMAIN miners
    <3>1. DOMAIN miners = 1 .. nextMinerID - 1 /\ nextMinerID \in Nat
      BY DEF TypeOK
    <3>2. QED
      BY ONLY <3>1
  <2>4. miners' = Put(miners, i, [owner |-> q, next |-> serverTick + Interval])
    BY <1>9, <2>3 DEF BuyMiner
  <2>5. MinersOf(p)' = IF p = q THEN MinersOf(p) \union {i} ELSE MinersOf(p)
    BY ONLY <2>3, <2>4 DEF MinersOf, Put
  <2>6. CASE p = q
    <3>1. Cardinality(MinersOf(p) \union {i}) = m + 1
      <4>1. i \notin MinersOf(p)
        BY ONLY <2>3 DEF MinersOf
      <4>2. IsFiniteSet(MinersOf(p))
        BY MinersFinite
      <4>3. QED
        BY ONLY <1>3, <4>1, <4>2, FS_AddElement
    <3>2. Balanced(gold - MinerCostGold, u, m + 1)
      BY ONLY <1>3, BalanceKept
    <3>3. QED
      BY ONLY <2>1, <2>2, <2>5, <2>6, <3>1, <3>2
  <2>7. CASE p # q
    BY ONLY <1>3, <2>1, <2>2, <2>5, <2>7
  <2>8. QED
    BY ONLY <2>6, <2>7
<1>10. CASE AdvanceTick
  <2>1. /\ players' = [r \in Players |-> [gold |-> players[r].gold,
                         mana |-> players[r].mana + ProducedMana(r, serverTick + 1)]]
        /\ miners' = [i \in DOMAIN miners |->
                         [owner |-> miners[i].owner,
                          next  |-> miners[i].next + Interval * Payouts(i, serverTick + 1)]]
    BY <1>10 DEF AdvanceTick, Produce
  <2>2. players'[p].gold = gold /\ MinersOf(p)' = MinersOf(p)
    BY ONLY <1>3, <2>1, p \in Players DEF MinersOf
  <2>3. Cardinality(Units(towers', p)) = u
    BY <1>3, <1>10 DEF AdvanceTick, towerVars
  <2>4. QED
    BY <1>4, <2>2, <2>3
<1>11. CASE Start \/ Abort \/ MarkSettled \/ FlushDeltas \/ UNCHANGED roomVars
  <2>1. UNCHANGED <<players, towers, miners>>
    BY <1>11 DEF Start, Abort, MarkSettled, FlushDeltas, roomVars, towerVars, minerVars
  <2>2. QED
    BY <1>3, <1>4, <2>1 DEF MinersOf
<1>12. QED
  BY <1>6, <1>7, <1>8, <1>9, <1>10, <1>11 DEF Next, PlayerOp, OpOf

LEMMA GoldInit == Init => GoldConserved
<1> SUFFICES ASSUME Init PROVE GoldConserved
  OBVIOUS
<1>1. TypeOK /\ towers = EmptyFcn /\ miners = EmptyFcn /\ DOMAIN EmptyFcn = {}
  BY RoomTypeInit DEF Init, EmptyFcn
<1>2. \A p \in Players : Units(towers, p) = {} /\ MinersOf(p) = {}
  BY ONLY <1>1 DEF Units, MinersOf
<1>3. \A p \in Players : players[p].gold = InitialGold
  BY DEF Init
<1>4. InitialGold + BuildCostGold * 0 + MinerCostGold * 0 = InitialGold
  BY AmountTypes
<1>5. Cardinality({}) = 0
  BY ONLY FS_EmptySet
<1>6. \A p \in Players : Balanced(players[p].gold, Cardinality(Units(towers, p)),
                                  Cardinality(MinersOf(p)))
  BY ONLY <1>2, <1>3, <1>4, <1>5 DEF Balanced
<1>7. QED
  BY ONLY <1>1, <1>6, GoldByUnits

(* No interleaving of builds, rerolls, merges and purchases mints or burns  *)
(* gold: each player's gold, towers at their cost and miners make up what   *)
(* the player had at first.                                                 *)
THEOREM GoldIsConserved == Spec => []GoldConserved
<1>1. TypeOK /\ GoldConserved /\ [Next]_roomVars => GoldConserved'
  BY GoldStep
<1>2. QED
  BY <1>1, GoldInit, RoomTypeCorrect, PTL DEF Spec

----------------------------------------------------------------------------
(* Finality. *)

(* Player operations are accepted by a closed room, yet no operation of a   *)
(* closed room touches its clock, its outcome, its base or its monsters.    *)
THEOREM ClosedRoomIsFinal == Spec => ClosedIsFinal
<1>1. [Next]_roomVars =>
          [state = "CLOSED" => UNCHANGED <<clockVars, monsterVars>>]_roomVars
  <2> SUFFICES ASSUME [Next]_roomVars, state = "CLOSED"
               PROVE  UNCHANGED <<clockVars, monsterVars>>
    OBVIOUS
  <2>1. CASE PlayerOp
    BY <2>1 DEF PlayerOp, OpOf, BuildTower, RerollTower, MergeTower, BuyMiner
  <2>2. ~AdvanceTick /\ ~Start /\ ~Abort
    BY DEF AdvanceTick, CanAdvance, Start, Abort, CanAbort
  <2>3. CASE MarkSettled \/ FlushDeltas
    BY <2>3 DEF MarkSettled, FlushDeltas
  <2>4. CASE UNCHANGED roomVars
    BY <2>4 DEF roomVars
  <2>5. QED
    BY <2>1, <2>2, <2>3, <2>4 DEF Next
<1>2. QED
  BY <1>1, PTL DEF Spec, ClosedIsFinal
==============================================================================
