SPECIFICATION KbSpec
CONSTANTS
    KbDevice = {"k1", "k2"}
    KbVirtual = {}
    MaxKbMods = 1
    MaxKbCount = 1
INVARIANTS ModifiersFromKeys
