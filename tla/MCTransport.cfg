\* Two connections with up to two requests each, cut anywhere, over two transports
\* that are started and stopped; the engine throws on one of its rules.
CONSTANTS
    c1 = c1
    c2 = c2
    None = None
    Undefined = Undefined
    Conditions <- AllConditions
    Rules <- TwoRules
    FailClosed = FALSE
    Garbled <- Replaced
    HeadLength = 2
    Connections <- TwoConnections
    Scripts <- ThreeScripts
    MaxStarts = 2

SPECIFICATION Spec
SYMMETRY Symmetry
INVARIANTS
    AnswersFit
    MetricsAgree
    NoServerLost
CHECK_DEADLOCK FALSE
