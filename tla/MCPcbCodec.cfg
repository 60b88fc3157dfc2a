SPECIFICATION Spec
CONSTANTS
    Batches <- MCBatches
    Null = Null
    Unset = Unset
INVARIANTS WritesAreDisjoint PartsMatchSerial RoundTrips PrefixesAreRefused
