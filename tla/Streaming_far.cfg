SPECIFICATION Spec
CONSTANTS
    v1 = v1
    v2 = v2
    p1 = p1
    p2 = p2
    Viewer = {v1, v2}
    Peer = {p1, p2}
    PeerOf <- Alone
    Chunk = {c1}
    Mover = {}
    Override = {}
    None = None
    MaxVersion = 1
    MaxWire = 2
INVARIANT
    NoChangeLost
