SPECIFICATION ServiceSpec
CONSTANTS
    Players <- MCPlayers
    GridIDs <- OneGrid
    BuildGridsByPlayer <- NoBuildGrids
    RandomTowerTypes <- NoTypes
    DefaultTowerDeck <- MCDeck
    TowerDeck <- MCDecks
    Waves <- OneWave
    Sessions <- TwoClients
    PlayerOf <- EachItsPlayer
    InitialGold = 1
    InitialMana = 0
    BuildCostGold = 1
    RerollCostMana = 1
    MinerCostGold = 2
    MinerProduceMana = 1
    MinerProduceInterval = 1
    TowerMaxLevel = 2
    BaseHP = 3
    MonsterDamage = 1
    WaveTimeoutTick = 3
    MaxRequests = 2
INVARIANTS
    OutcomeSound
    ClientsConverge
PROPERTIES
    ReportsOneOutcome
    BattleEnds
CHECK_DEADLOCK FALSE
