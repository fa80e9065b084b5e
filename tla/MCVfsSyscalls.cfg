SPECIFICATION Spec
CONSTANTS
    Sessions = {s1, s2}
INVARIANTS TypeOK Relayed NoPayloadLeft OnlyKnownWild
PROPERTIES OnlyKnownCrashes
SYMMETRY Symmetry
