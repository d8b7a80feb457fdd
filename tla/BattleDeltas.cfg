SPECIFICATION DeltaSpec
CONSTANTS
    Players <- MCPlayers
    GridIDs <- MCGrids
    BuildGridsByPlayer <- MCBuildGrids
    RandomTowerTypes <- NoTypes
    DefaultTowerDeck <- MCDeck
    TowerDeck <- MCDecks
    Waves <- MCWaves
    InitialGold = 4
    InitialMana = 0
    BuildCostGold = 1
    RerollCostMana = 1
    MinerCostGold = 2
    MinerProduceMana = 1
    MinerProduceInterval = 2
    TowerMaxLevel = 2
    BaseHP = 5
    MonsterDamage = 2
    WaveTimeoutTick = 4
INVARIANTS
    TypeOK
    GridConsistent
    GoldConserved
    MinersOnSchedule
    MonstersOnSchedule
    DamageAccounted
    OutcomeSound
    MirrorComplete
