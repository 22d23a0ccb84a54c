SPECIFICATION Spec
CONSTANTS
    Peer = {p1, p2}
    Views = 2
    Table = {onfoot, riding}
    Joining = onfoot
    MaxUp = 1
    MaxDown = 2
SYMMETRY Peers
INVARIANTS
    OneEntityPerView
    NoOrphans
    NothingDropped
    WelcomeFirst
    SameView
