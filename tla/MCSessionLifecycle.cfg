\* Three streams over two actors of one or two slots each.
SPECIFICATION Spec
CONSTANTS
    nemo = nemo
    NoActor = NoActor
    NoModel = NoModel
    Session = {s1, s2, s3}
    Actor = {a1, a2}
    Model = {nemo}
    Slots <- MCSlots
    NoManifest = NoManifest
    RegisterAlone = TRUE
    Wants <- MCWants
SYMMETRY MCSymmetry
INVARIANTS
    TypeOK
    OpenIsPlaced
    NeverRefused
    SlotsReturned
    LifecycleInv
PROPERTIES
    EvictionSparesStreams
