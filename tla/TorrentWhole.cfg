\* The same files: can every chunk be served?
SPECIFICATION Spec
CONSTANTS
    FileSizes <- SmallFiles
    ChunkSizes <- SmallChunks
INVARIANT EveryChunkServed
CHECK_DEADLOCK FALSE
