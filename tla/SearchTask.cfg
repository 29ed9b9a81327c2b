SPECIFICATION Spec
CONSTANTS
    x = x  y = y  z = z  NONE = NONE  NOID = NOID
    Value <- MCValue
    Spell <- MCSpell
    Written <- MCWritten
    Addresses <- MCAddresses
    MaxBag = 3
    Pointless = {z}
    RETRIES = 2
INVARIANTS TypeOK NearestFound WrittenFound LevelTells
PROPERTY Implements
