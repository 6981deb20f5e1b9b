SPECIFICATION Spec
CONSTANTS
    Decoders <- MCDecoders
    ExecType <- MCExecType
    Decode <- MCDecode
    CountLimit = 256
INVARIANTS
    TreeRebuilt
    AllOffered
PROPERTY DecodeTerminates
