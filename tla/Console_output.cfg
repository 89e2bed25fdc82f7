SPECIFICATION Spec
CONSTANTS
    m1 = m1
    m2 = m2
    Nobody = Nobody
    Modules <- TwoModules
    Messages <- TwoMessages
    CustomColors <- ThreeColors
    DefaultWord = 7
    Setups <- SomeSetups
CHECK_DEADLOCK FALSE
INVARIANTS
    TypeOK
    ColorsAsFormatted
    LinesWhole
    AutomaticIsClean
    ConsoleRestored
