SPECIFICATION Spec
CONSTANTS
    p1 = p1
    p2 = p2
    m1 = m1
    m2 = m2
    m3 = m3
    m4 = m4
    m5 = m5
    s1 = s1
    Nobody = Nobody
    Player = {p1, p2}
    Mob = {m1, m2, m3, m4, m5}
    Shot = {}
    MaxHp = 1
    MobHp = 1
    HazardDmg = 0
    MeleeDmg = 1
    ShotDmg = 1
    RegenAmt = 1
    HealTicks = 0
    RespawnTicks = 0
    AtkTicks = 0
    CorpseTicks = 0
    SpawnTicks = 1
    KnifeTicks = 0
    Volley = 0
    InitialMax = 2
    HardCap = 2
    Growth = 0
    Portion = 1
SYMMETRY Pawns
INVARIANTS
    MobsBounded
