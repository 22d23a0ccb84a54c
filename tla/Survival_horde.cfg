SPECIFICATION FairSpec
CONSTANTS
    p1 = p1
    p2 = p2
    m1 = m1
    m2 = m2
    m3 = m3
    m4 = m4
    m5 = m5
    s1 = s1
    Nobody = Nobody
    Player = {p1, p2}
    Mob = {m1, m2}
    Shot = {s1}
    MaxHp = 2
    MobHp = 2
    HazardDmg = 1
    MeleeDmg = 1
    ShotDmg = 1
    RegenAmt = 1
    HealTicks = 1
    RespawnTicks = 1
    AtkTicks = 1
    CorpseTicks = 0
    SpawnTicks = 1
    KnifeTicks = 0
    Volley = 1
    InitialMax = 1
    HardCap = 2
    Growth = 1
    Portion = 1
INVARIANTS
    DeadHaveNoHp
    DeadAreHeld
    KillsCounted
PROPERTIES
    DeadMoveOn
