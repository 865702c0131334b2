SPECIFICATION WalkSpec
CONSTANT
    Units = {0, 1, 2, 3}
CHECK_DEADLOCK FALSE
INVARIANTS
    ComponentsAreCycles
PROPERTIES
    WavesAreLevels
    EndsWithWaves
