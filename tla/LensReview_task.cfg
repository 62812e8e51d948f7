SPECIFICATION Spec
SYMMETRY KeySymmetry
CONSTANTS
    l1 = l1
    general = general
    a = a
    b = b
    k1 = k1
    k2 = k2
    Lens <- Slate
    Maintainer = maintainer
    General = general
    NoLens = NoLens
    Variant <- Models
    Secondary <- Second
    Key <- Keys
    MaxFastRounds = 1
    MaxRequeues = 2
    MaxRetries = 1
CHECK_DEADLOCK FALSE
INVARIANTS EveryCallAccounted AnsweredOnEvidence
PROPERTIES EvidenceGrows
