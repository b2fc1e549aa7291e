SPECIFICATION Spec
CONSTANTS
    a = a  b = b  fist = fist  sword = sword  bag = bag  corpse = corpse
    None = None
    Chars <- TwoChars
    Pulses <- OnePulse
    Things <- TwoThings
    Bodies <- OneBody
    Weapons <- Sword
    Containers <- TwoContainers
    DepthCap = 1
    MaxMishaps = 2
    MaxVerbs = 4
INVARIANTS
    CorpseTracked
PROPERTIES
    Implements
    CorpseGoes
CHECK_DEADLOCK FALSE
