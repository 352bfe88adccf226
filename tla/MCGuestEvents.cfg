CONSTANTS
    Streams <- MCStreams
    Exports <- MCExports
    Docs <- MCDocs
    BufferSize = 4
SPECIFICATION Spec
CHECK_DEADLOCK FALSE
INVARIANTS EachByteOnce CrashesWhenNested TrueMeansAll
