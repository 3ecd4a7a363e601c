SPECIFICATION ConfigSpec
CONSTANTS
    Files <- FilesDef
    Edits = {3}
INVARIANTS
    MissingKeysKeepDefaults
