\* One stream, one actor: a client that goes away at the wrong moment.
SPECIFICATION Spec
CONSTANTS
    nemo = nemo
    NoActor = NoActor
    NoModel = NoModel
    Session = {s1}
    Actor = {a1}
    Model = {nemo}
    Slots <- MCSlots
    NoManifest = NoManifest
    RegisterAlone = TRUE
    Wants <- MCWants
PROPERTIES
    SlotReturned
