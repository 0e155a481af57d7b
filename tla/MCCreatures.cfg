SPECIFICATION CreaturesSpec
CONSTANTS
    Players = {p1}
    Monsters = {m1, m2}
    Places = {1, 3}
    Slots = {1}
    Home = 1
    MaxSummons = 1
    MaxDying = 1
    Nobody = Nobody
INVARIANTS ReferencesExact PointersAreLive  SpawnLooksAfter DyingIsChecked
SYMMETRY Symmetry
