CONSTANTS
    MaxCalls = 2
    ChunkSamples <- MCChunkSamples
    TS_MOD <- MCTsMod
    MaxSends = 2
SPECIFICATION Spec
PROPERTY NoUseAfterFree
