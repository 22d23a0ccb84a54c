SPECIFICATION Spec
CONSTANTS
    v1 = v1
    v2 = v2
    p1 = p1
    p2 = p2
    Viewer = {v1}
    Peer = {p1, p2}
    PeerOf <- Alone
    Chunk = {c1}
    Mover = {m1}
    Override = {m1}
    None = None
    MaxVersion = 1
    MaxWire = 2
INVARIANTS
    NoChangeLost
    SnapshotMatches
    MessagesApply
PROPERTY
    NeverBack
