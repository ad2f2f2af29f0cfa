\* Frames that arrive whole, cut, or changed in one byte.
SPECIFICATION Spec
CONSTANTS
    Base = 4
    Magic <- MagicBytes
    Headers <- SomeHeaders
    Payloads <- SomePayloads
    BufferSizes = {42, 45}
    None = None
INVARIANTS
    RoundTrip
    CutRefused
    AcceptsOnlyFrames
CHECK_DEADLOCK FALSE
