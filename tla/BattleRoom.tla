------------------------------ MODULE BattleRoom ------------------------------
(***************************************************************************)
(* The authoritative battle room of src/src/service/battle/sync/room.go:   *)
(* players with gold and mana, towers on a grid, mana miners, monster      *)
(* waves walking to the base, and the tick that drives them.  Every method *)
(* of Room is one action, because the battle service calls each of them    *)
(* under battleRoom.mu.                                                    *)
(*                                                                         *)
(* Data kept abstract: a monster is named by its wave and its number in    *)
(* the wave (the allocated MonsterID is not modelled), its HP, type, route *)
(* and reward never change or are never read by the room, and an error     *)
(* code is only the fact that the operation was refused.                   *)
(*                                                                         *)
(* The pending deltas are kept in last-writer-wins form.  Every Delta      *)
(* carries absolute values (gold and mana, a TowerSnapshot, a              *)
(* MonsterSnapshot) and FlushDeltas hands out the whole list at once, so   *)
(* what a receiver sees of a list is the last value given for each player, *)
(* tower and monster; a merged tower id is never allocated again.          *)
(*                                                                         *)
(* CanAffordAnything, ResourceDeltaForgotten, MergeableAnyLevel, KeepGrid, *)
(* PayoutsOneLate, SpawningLate, HPAfterRecount, FinishedWhenSpawned and   *)
(* OutcomeVictoryFirst are faulty variants of the definition that follows  *)
(* each of them; the specification does not use them (README, "Mutants").  *)
(***************************************************************************)
EXTENDS Integers, Sequences, FiniteSets

CONSTANTS
    Players,              \* player ids given to AddPlayer
    GridIDs,              \* grid ids a client may name in build_tower
    BuildGridsByPlayer,   \* partial function, player -> set of grids
    RandomTowerTypes,     \* RoomConfig.RandomTowerTypes, a sequence
    DefaultTowerDeck,     \* RoomConfig.DefaultTowerDeck, a sequence
    TowerDeck,            \* [Players -> sequence], the deck AddPlayer is given
    InitialGold, InitialMana,
    BuildCostGold, RerollCostMana, MinerCostGold,
    MinerProduceMana, MinerProduceInterval,
    TowerMaxLevel, BaseHP, MonsterDamage, WaveTimeoutTick,
    Waves                 \* sequence of [start, count, gap, speed, path]

VARIABLES
    state,          \* "CREATED", "RUNNING" or "CLOSED"
    serverTick, startTick, endTick,
    finishReason,   \* "NONE" until finish
    settled,
    baseHP,
    nextTowerID, nextMinerID,
    randomIndex,    \* number of tower types drawn so far
    players,        \* [Players -> [gold, mana]]
    miners,         \* miner id -> [owner, next]
    towers,         \* tower id -> [owner, type, level, grid]
    gridTower,      \* grid id -> tower id
    monsters,       \* <<wave, number>> -> [progress, status]
    spawned,        \* wave -> SpawnedCount
    waveFinished,   \* wave -> Finished
    deltas          \* pending deltas, last-writer-wins form

clockVars   == <<state, serverTick, startTick, endTick, finishReason, baseHP>>
monsterVars == <<monsters, spawned, waveFinished>>
towerVars   == <<towers, gridTower, nextTowerID, randomIndex>>
minerVars   == <<miners, nextMinerID>>
roomVars    == <<clockVars, settled, players, towerVars, minerVars,
                 monsterVars, deltas>>

----------------------------------------------------------------------------
(* NewRoom's defaults. *)

OrDefault(v, d) == IF v <= 0 THEN d ELSE v

MaxLevel == OrDefault(TowerMaxLevel, 5)
InitialHP == OrDefault(BaseHP, 3)
Damage   == OrDefault(MonsterDamage, 1)
Timeout  == OrDefault(WaveTimeoutTick, 600)
Interval == OrDefault(MinerProduceInterval, 1)

(* Waves without monsters are dropped; a wave keeps its index as its id. *)
WaveIDs  == {w \in DOMAIN Waves : Waves[w].count > 0}
Gap(w)   == OrDefault(Waves[w].gap, 1)
Speed(w) == OrDefault(Waves[w].speed, 1)
Path(w)  == OrDefault(Waves[w].path, 100)

MonsterIDs == UNION {{w} \X (1 .. Waves[w].count) : w \in WaveIDs}

(* The wave's i-th monster is due at this tick. *)
DueTick(w, i) == Waves[w].start + (i - 1) * Gap(w)

(* AddPlayer: an empty deck is replaced by the default one. *)
Deck(p) == IF TowerDeck[p] = <<>> THEN DefaultTowerDeck ELSE TowerDeck[p]
Pool(p) == IF RandomTowerTypes = <<>> THEN Deck(p) ELSE RandomTowerTypes

Wave == [start : Int, count : Int, gap : Int, speed : Int, path : Int]

(* createRoom refuses an empty player list, and AddPlayer a player without *)
(* a deck.  Amounts of the configuration are never negative.               *)
ASSUME ConfigAssumption ==
    /\ Players # {} /\ IsFiniteSet(Players)
    /\ DOMAIN BuildGridsByPlayer \subseteq Players
    /\ \A p \in DOMAIN BuildGridsByPlayer : BuildGridsByPlayer[p] \subseteq GridIDs
    /\ \A p \in Players : Pool(p) \in Seq(Int) /\ Len(Pool(p)) > 0
    /\ InitialGold \in Nat /\ InitialMana \in Nat
    /\ BuildCostGold \in Nat /\ RerollCostMana \in Nat /\ MinerCostGold \in Nat
    /\ MinerProduceMana \in Nat /\ MinerProduceInterval \in Int
    /\ TowerMaxLevel \in Int /\ BaseHP \in Int
    /\ MonsterDamage \in Int /\ WaveTimeoutTick \in Int
    /\ Waves \in Seq(Wave)

----------------------------------------------------------------------------
(* Go maps: the empty one, m[k] = v, and m overlaid with a newer one. *)
EmptyFcn == [x \in {} |-> x]
Put(m, k, v) == [x \in DOMAIN m \union {k} |-> IF x = k THEN v ELSE m[x]]
Overlay(newer, m) ==
    [x \in DOMAIN newer \union DOMAIN m |-> IF x \in DOMAIN newer THEN newer[x] ELSE m[x]]

NoDeltas == [players |-> EmptyFcn, miners |-> {}, towers |-> EmptyFcn,
             merged |-> {}, monsters |-> EmptyFcn]

(* NewRoom followed by AddPlayer for every player. *)
Init ==
    /\ state = "CREATED"
    /\ serverTick = 0 /\ startTick = 0 /\ endTick = 0
    /\ finishReason = "NONE" /\ settled = FALSE
    /\ baseHP = InitialHP
    /\ nextTowerID = 1 /\ nextMinerID = 1 /\ randomIndex = 0
    /\ players = [p \in Players |-> [gold |-> InitialGold, mana |-> InitialMana]]
    /\ miners = EmptyFcn /\ towers = EmptyFcn /\ gridTower = EmptyFcn
    /\ monsters = EmptyFcn
    /\ spawned = [w \in WaveIDs |-> 0]
    /\ waveFinished = [w \in WaveIDs |-> FALSE]
    /\ deltas = NoDeltas

----------------------------------------------------------------------------
(* Player operations.  None of them looks at the room's state. *)

CanBuildOn(p, g) ==
    \/ DOMAIN BuildGridsByPlayer = {}
    \/ p \in DOMAIN BuildGridsByPlayer /\ g \in BuildGridsByPlayer[p]

NextTowerType(p) == Pool(p)[(randomIndex % Len(Pool(p))) + 1]

CanAffordAnything(p, gold, mana) == TRUE
CanAfford(p, gold, mana) == players[p].gold >= gold /\ players[p].mana >= mana

Spend(p, gold, mana) ==
    players' = [players EXCEPT ![p] =
                   [gold |-> players[p].gold - gold, mana |-> players[p].mana - mana]]

ResourceDeltaForgotten(p) == deltas.players
ResourceDelta(p) == Put(deltas.players, p, players'[p])

(* The deltas an operation appends. *)
Emit(playerDeltas, minerDeltas, towerDeltas, merged) ==
    deltas' = [players |-> playerDeltas, miners |-> minerDeltas, towers |-> towerDeltas,
               merged |-> merged, monsters |-> deltas.monsters]

Tower(p, type, level, g) == [owner |-> p, type |-> type, level |-> level, grid |-> g]

BuildTower(p, g) ==
    /\ CanBuildOn(p, g)
    /\ g \notin DOMAIN gridTower
    /\ CanAfford(p, BuildCostGold, 0)
    /\ Spend(p, BuildCostGold, 0)
    /\ LET tower == Tower(p, NextTowerType(p), 1, g)
       IN  /\ towers' = Put(towers, nextTowerID, tower)
           /\ Emit(ResourceDelta(p), deltas.miners,
                   Put(deltas.towers, nextTowerID, tower), deltas.merged)
    /\ gridTower' = Put(gridTower, g, nextTowerID)
    /\ nextTowerID' = nextTowerID + 1
    /\ randomIndex' = randomIndex + 1
    /\ UNCHANGED <<clockVars, settled, minerVars, monsterVars>>

RerollTower(p, t) ==
    /\ t \in DOMAIN towers
    /\ towers[t].owner = p
    /\ CanAfford(p, 0, RerollCostMana)
    /\ Spend(p, 0, RerollCostMana)
    /\ LET tower == Tower(p, NextTowerType(p), towers[t].level, towers[t].grid)
       IN  /\ towers' = [towers EXCEPT ![t] = tower]
           /\ Emit(ResourceDelta(p), deltas.miners,
                   Put(deltas.towers, t, tower), deltas.merged)
    /\ randomIndex' = randomIndex + 1
    /\ UNCHANGED <<clockVars, settled, gridTower, nextTowerID, minerVars, monsterVars>>

OwnPairBelowMax(p, main, material) ==
    /\ {main, material} \subseteq DOMAIN towers
    /\ towers[main].owner = p /\ towers[material].owner = p
    /\ towers[main].type = towers[material].type
    /\ towers[main].level < MaxLevel

MergeableAnyLevel(p, main, material) ==
    OwnPairBelowMax(p, main, material) /\ main # material

Mergeable(p, main, material) ==
    /\ OwnPairBelowMax(p, main, material)
    /\ towers[main].level = towers[material].level
    /\ main # material

KeepGrid(t) == gridTower
FreeGrid(t) == [g \in DOMAIN gridTower \ {towers[t].grid} |-> gridTower[g]]

MergeTower(p, main, material) ==
    /\ Mergeable(p, main, material)
    /\ LET tower == Tower(p, NextTowerType(p), towers[main].level + 1, towers[main].grid)
       IN  /\ towers' = [t \in DOMAIN towers \ {material} |->
                            IF t = main THEN tower ELSE towers[t]]
           /\ Emit(deltas.players, deltas.miners,
                   Put(deltas.towers, main, tower), deltas.merged \union {material})
    /\ gridTower' = FreeGrid(material)
    /\ randomIndex' = randomIndex + 1
    /\ UNCHANGED <<clockVars, settled, players, nextTowerID, minerVars, monsterVars>>

BuyMiner(p) ==
    /\ CanAfford(p, MinerCostGold, 0)
    /\ Spend(p, MinerCostGold, 0)
    /\ miners' = Put(miners, nextMinerID, [owner |-> p, next |-> serverTick + Interval])
    /\ nextMinerID' = nextMinerID + 1
    /\ Emit(ResourceDelta(p), deltas.miners \union {<<nextMinerID, p>>},
            deltas.towers, deltas.merged)
    /\ UNCHANGED <<clockVars, settled, towerVars, monsterVars>>

----------------------------------------------------------------------------
(* One round of AdvanceToTick's loop, in the order of the code: produce,   *)
(* spawn, advance, clean up, check for the end.                            *)

(* Rounds of the inner loop of produceMinerMana for miner m. *)
PayoutsOneLate(m, now) ==
    IF now <= miners[m].next THEN 0 ELSE ((now - miners[m].next) \div Interval) + 1
Payouts(m, now) ==
    IF now < miners[m].next THEN 0 ELSE ((now - miners[m].next) \div Interval) + 1

ProducedMana(p, now) ==
    MinerProduceMana * Cardinality({x \in (DOMAIN miners) \X (1 .. now) :
                                        /\ miners[x[1]].owner = p
                                        /\ x[2] <= Payouts(x[1], now)})

SpawningLate(now) ==
    {x \in MonsterIDs : ~waveFinished[x[1]] /\ x[2] > spawned[x[1]] /\ now > DueTick(x[1], x[2])}

(* Monsters the spawn loop creates at tick now. *)
Spawning(now) ==
    {x \in MonsterIDs : /\ ~waveFinished[x[1]]
                        /\ now >= Waves[x[1]].start
                        /\ x[2] > spawned[x[1]]
                        /\ now >= DueTick(x[1], x[2])}

(* A living monster walks; it arrives when it reaches the end of its path. *)
Walk(x, monster) ==
    LET progress == monster.progress + Speed(x[1])
    IN  IF monster.status # "ALIVE" THEN monster
        ELSE IF progress >= Path(x[1])
             THEN [progress |-> Path(x[1]), status |-> "ARRIVED"]
             ELSE [progress |-> progress, status |-> "ALIVE"]

Newborn == [progress |-> 0, status |-> "ALIVE"]

Present(x) == IF x \in DOMAIN monsters THEN monsters[x] ELSE Newborn

(* Monsters, waves and base after spawn, advance and clean up. *)
MonstersAfter(now) ==
    [x \in DOMAIN monsters \union Spawning(now) |-> Walk(x, Present(x))]

Arrivals(now) ==
    {x \in DOMAIN monsters \union Spawning(now) :
        Present(x).status = "ALIVE" /\ MonstersAfter(now)[x].status = "ARRIVED"}

HPAfterRecount(now) ==
    LET hp == baseHP - Damage * Cardinality(
                  {x \in DOMAIN MonstersAfter(now) : MonstersAfter(now)[x].status = "ARRIVED"})
    IN  IF hp < 0 THEN 0 ELSE hp
HPAfter(now) ==
    LET hp == baseHP - Damage * Cardinality(Arrivals(now))
    IN  IF hp < 0 THEN 0 ELSE hp

SpawnedAfter(now) ==
    [w \in WaveIDs |-> spawned[w] + Cardinality({x \in Spawning(now) : x[1] = w})]

(* A wave is finished when all of its monsters are spawned and none walks.  *)
FinishedWhenSpawned(now) ==
    [w \in WaveIDs |-> waveFinished[w] \/ SpawnedAfter(now)[w] >= Waves[w].count]
FinishedAfter(now) ==
    [w \in WaveIDs |->
        \/ waveFinished[w]
        \/ /\ SpawnedAfter(now)[w] >= Waves[w].count
           /\ \A x \in DOMAIN MonstersAfter(now) :
                  x[1] = w => MonstersAfter(now)[x].status # "ALIVE"]

OutcomeVictoryFirst(now, started) ==
    IF WaveIDs # {} /\ \A w \in WaveIDs : FinishedAfter(now)[w] THEN "WIN"
    ELSE IF HPAfter(now) <= 0 THEN "LOSE"
    ELSE IF now - started >= Timeout THEN "TIMEOUT"
    ELSE "NONE"

(* checkFinishConditions: defeat first, then the timeout, then victory. *)
Outcome(now, started) ==
    IF HPAfter(now) <= 0 THEN "LOSE"
    ELSE IF now - started >= Timeout THEN "TIMEOUT"
    ELSE IF WaveIDs # {} /\ \A w \in WaveIDs : FinishedAfter(now)[w] THEN "WIN"
    ELSE "NONE"

(* finish(reason) on a room that is not closed. *)
Finish(reason, now) ==
    /\ state' = "CLOSED" /\ finishReason' = reason /\ endTick' = now

CanAdvance == state # "CLOSED"

(* Deltas of the players that were paid and the monsters that walked. *)
EmitTick(now) ==
    LET paid   == {p \in Players : ProducedMana(p, now) > 0}
        moving == {x \in DOMAIN MonstersAfter(now) : Present(x).status = "ALIVE"}
    IN  deltas' = [players  |-> Overlay([p \in paid |-> players'[p]], deltas.players),
                   miners   |-> deltas.miners,
                   towers   |-> deltas.towers,
                   merged   |-> deltas.merged,
                   monsters |-> Overlay([x \in moving |-> MonstersAfter(now)[x]],
                                        deltas.monsters)]

Produce(now) ==
    /\ players' = [p \in Players |-> [gold |-> players[p].gold,
                                      mana |-> players[p].mana + ProducedMana(p, now)]]
    /\ miners' = [m \in DOMAIN miners |->
                      [owner |-> miners[m].owner,
                       next  |-> miners[m].next + Interval * Payouts(m, now)]]

AdvanceTick ==
    LET now     == serverTick + 1
        started == IF state = "CREATED" THEN serverTick ELSE startTick
    IN  /\ CanAdvance
        /\ serverTick' = now
        /\ startTick' = started
        /\ Produce(now)
        /\ monsters' = MonstersAfter(now)
        /\ spawned' = SpawnedAfter(now)
        /\ waveFinished' = FinishedAfter(now)
        /\ baseHP' = HPAfter(now)
        /\ EmitTick(now)
        /\ IF Outcome(now, started) # "NONE"
           THEN Finish(Outcome(now, started), now)
           ELSE state' = "RUNNING" /\ UNCHANGED <<finishReason, endTick>>
        /\ UNCHANGED <<settled, towerVars, nextMinerID>>

Start ==
    /\ state = "CREATED"
    /\ state' = "RUNNING"
    /\ startTick' = serverTick
    /\ UNCHANGED <<serverTick, endTick, finishReason, baseHP, settled, players,
                   towerVars, minerVars, monsterVars, deltas>>

CanAbort == state # "CLOSED"

Abort ==
    /\ CanAbort
    /\ Finish("ABORT", serverTick)
    /\ UNCHANGED <<serverTick, startTick, baseHP, settled, players,
                   towerVars, minerVars, monsterVars, deltas>>

MarkSettled ==
    /\ ~settled
    /\ settled' = TRUE
    /\ UNCHANGED <<clockVars, players, towerVars, minerVars, monsterVars, deltas>>

FlushDeltas ==
    /\ deltas' = NoDeltas
    /\ UNCHANGED <<clockVars, settled, players, towerVars, minerVars, monsterVars>>

(* The part of a Snapshot that deltas keep up to date.  NextProduceTick of *)
(* a miner is in the snapshot but in no delta, so a miner is only its id   *)
(* and owner here.                                                         *)
SnapshotView ==
    [players  |-> players,
     miners   |-> {<<m, miners[m].owner>> : m \in DOMAIN miners},
     towers   |-> towers,
     monsters |-> monsters]

(* A batch of deltas applied to a view: absolute values overwrite, and the *)
(* material of a merge disappears.                                         *)
ApplyDeltas(view, batch) ==
    LET known == Overlay(batch.towers, view.towers)
    IN  [players  |-> Overlay(batch.players, view.players),
         miners   |-> view.miners \union batch.miners,
         towers   |-> [t \in DOMAIN known \ batch.merged |-> known[t]],
         monsters |-> Overlay(batch.monsters, view.monsters)]

OpOf(p) ==
    \/ \E g \in GridIDs : BuildTower(p, g)
    \/ \E t \in DOMAIN towers : RerollTower(p, t)
    \/ \E main, material \in DOMAIN towers : MergeTower(p, main, material)
    \/ BuyMiner(p)

PlayerOp == \E p \in Players : OpOf(p)

Next == AdvanceTick \/ Start \/ Abort \/ MarkSettled \/ FlushDeltas \/ PlayerOp

(* The room's ticker goroutine (startRoomLoop) never stops before the room *)
(* is closed; players owe nothing.                                         *)
Spec == Init /\ [][Next]_roomVars /\ WF_roomVars(AdvanceTick)

----------------------------------------------------------------------------
(* Properties. *)

Reasons == {"NONE", "WIN", "LOSE", "TIMEOUT", "ABORT"}
Resources == [gold : Nat, mana : Nat]
Towers == [owner : Players, type : Int, level : 1 .. MaxLevel, grid : GridIDs]
Monsters == [progress : Nat, status : {"ALIVE", "ARRIVED"}]

(* Every variable of the room has its type; in particular gold and mana    *)
(* never go below zero and no merge passes the highest level (BuildTower,  *)
(* RerollTower, MergeTower and BuyMiner check before they take).           *)
TypeOK ==
    /\ state \in {"CREATED", "RUNNING", "CLOSED"}
    /\ serverTick \in Nat /\ startTick \in Nat /\ endTick \in Nat
    /\ finishReason \in Reasons
    /\ settled \in BOOLEAN
    /\ baseHP \in Nat
    /\ nextTowerID \in Nat \ {0} /\ nextMinerID \in Nat \ {0} /\ randomIndex \in Nat
    /\ players \in [Players -> Resources]
    /\ DOMAIN miners = 1 .. nextMinerID - 1
    /\ \A m \in DOMAIN miners : miners[m] \in [owner : Players, next : Nat]
    /\ DOMAIN towers \subseteq 1 .. nextTowerID - 1
    /\ \A t \in DOMAIN towers : towers[t] \in Towers
    /\ DOMAIN gridTower \subseteq GridIDs
    /\ DOMAIN monsters \subseteq MonsterIDs
    /\ \A x \in DOMAIN monsters : monsters[x] \in Monsters
    /\ spawned \in [WaveIDs -> Nat]
    /\ waveFinished \in [WaveIDs -> BOOLEAN]

(* Room.towers and Room.gridTower are two indexes of one relation: a grid  *)
(* holds exactly the tower that stands on it.  BuildTower, RerollTower and *)
(* MergeTower each update one or both of the maps.                         *)
GridConsistent ==
    /\ \A g \in DOMAIN gridTower :
           gridTower[g] \in DOMAIN towers /\ towers[gridTower[g]].grid = g
    /\ \A t \in DOMAIN towers :
           towers[t].grid \in DOMAIN gridTower /\ gridTower[towers[t].grid] = t

(* No miner is ever overdue or scheduled further than one interval ahead:  *)
(* the catch-up loop of produceMinerMana leaves NextProduceTick in         *)
(* (serverTick, serverTick + interval], also for a miner just bought.      *)
MinersOnSchedule ==
    \A m \in DOMAIN miners :
        miners[m].next > serverTick /\ miners[m].next <= serverTick + Interval

(* The incremental simulation has a closed form: at tick T the i-th monster *)
(* of a wave exists iff it was due by T, and has walked one step per tick   *)
(* since, up to the end of its path (spawnWaveMonsters, advanceMonsters).   *)
SpawnTick(x) == IF DueTick(x[1], x[2]) < 1 THEN 1 ELSE DueTick(x[1], x[2])
Walked(x) ==
    LET way == Speed(x[1]) * (serverTick - SpawnTick(x) + 1)
    IN  IF way >= Path(x[1]) THEN Path(x[1]) ELSE way
MonstersOnSchedule ==
    /\ DOMAIN monsters = {x \in MonsterIDs : SpawnTick(x) <= serverTick}
    /\ \A x \in DOMAIN monsters :
           /\ monsters[x].progress = Walked(x)
           /\ monsters[x].status = "ARRIVED" <=> Walked(x) = Path(x[1])

(* The base has lost one MonsterDamage for each monster that arrived, never *)
(* twice for the same one, and a wave is finished exactly when all of its   *)
(* monsters have arrived (advanceMonsters, cleanupFinishedWaves).           *)
Arrived == {x \in DOMAIN monsters : monsters[x].status = "ARRIVED"}
DamageAccounted ==
    /\ baseHP = LET hp == InitialHP - Damage * Cardinality(Arrived)
                IN  IF hp < 0 THEN 0 ELSE hp
    /\ \A w \in WaveIDs :
           waveFinished[w] <=> {x \in MonsterIDs : x[1] = w} \subseteq Arrived

(* The recorded outcome is the one the final state calls for, with defeat   *)
(* before timeout before victory, and a room still open has no outcome due  *)
(* (checkFinishConditions runs after every tick).                           *)
AllArrived == WaveIDs # {} /\ MonsterIDs \subseteq Arrived
OutcomeSound ==
    /\ state = "CLOSED" <=> finishReason # "NONE"
    /\ finishReason = "LOSE" => baseHP = 0
    /\ finishReason = "TIMEOUT" => baseHP > 0 /\ endTick - startTick = Timeout
    /\ finishReason = "WIN" =>
           baseHP > 0 /\ AllArrived /\ endTick - startTick < Timeout
    /\ finishReason \in {"NONE", "ABORT"} =>
           baseHP > 0 /\ ~AllArrived /\ serverTick - startTick < Timeout

(* Gold is conserved: what a player has, what stands on the grid (a tower   *)
(* of level n took 2^(n-1) builds) and the miners make up the initial gold, *)
(* so no interleaving of builds, merges and purchases mints or burns gold.  *)
Builds(p) ==
    Cardinality({x \in (DOMAIN towers) \X (1 .. 2 ^ (MaxLevel - 1)) :
                    towers[x[1]].owner = p /\ x[2] <= 2 ^ (towers[x[1]].level - 1)})
MinersOf(p) == {m \in DOMAIN miners : miners[m].owner = p}
GoldConserved ==
    \A p \in Players :
        players[p].gold + BuildCostGold * Builds(p)
            + MinerCostGold * Cardinality(MinersOf(p)) = InitialGold

(* A closed room is final: the clock, the outcome, the base, the waves and  *)
(* the monsters never change again (AdvanceToTick and finish return early). *)
ClosedIsFinal ==
    [][state = "CLOSED" => UNCHANGED <<clockVars, monsterVars>>]_roomVars
==============================================================================
