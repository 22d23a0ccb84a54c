SPECIFICATION Spec
CONSTANTS
    ArrayLen = 3
    Bytes <- ByteChoices
    Desc <- pkt_entity_view_desc
    Blank <- NoView
    Views <- EntityViews
    RunMax = 4
INVARIANTS
    NoMixUp
    OnlyCutOffFails
    WholeViewArrives
