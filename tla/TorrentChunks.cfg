\* Every file of up to sixteen bytes, cut into chunks of up to seven.
SPECIFICATION Spec
CONSTANTS
    FileSizes <- SmallFiles
    ChunkSizes <- SmallChunks
INVARIANTS RangesTile ServedIsChecked
CHECK_DEADLOCK FALSE
