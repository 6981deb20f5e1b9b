SPECIFICATION Spec
CONSTANTS
    Decoders <- MCDecoders
    ExecType <- MCExecType
    Decode <- MCDecode
    CountLimit = 256
    NotIdentifiers <- MCNotIdentifiers
INVARIANTS
    CutAgrees
    ValuesAreTheirBits
    PayloadApart
    OwnFrameMatches
    CompareExact
