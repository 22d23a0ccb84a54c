SPECIFICATION FairSpec
CONSTANTS
    v1 = v1
    v2 = v2
    p1 = p1
    p2 = p2
    Viewer = {v1, v2}
    Peer = {p1, p2}
    PeerOf <- Together
    Chunk = {}
    Mover = {m1}
    Override = {m1}
    None = None
    MaxVersion = 0
    MaxWire = 1
PROPERTY
    GhostsFade
