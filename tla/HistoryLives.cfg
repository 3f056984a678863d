\* Two jobs over three lives of the process: crashes, failed logins, saves and reloads that
\* fail, and torrent files that are lost or replaced.
SPECIFICATION Spec
CONSTANTS
    t1 = t1  t2 = t2  f1 = f1  f2 = f2  p1 = p1  p2 = p2  c1 = c1  c2 = c2
    NoTorrent = NoTorrent
    Torrents = {t1, t2}
    FilesOf <- TwoTorrents
    Chunks = {c1, c2}
    Paths = {p1, p2}
    MaxJobs = 2
    MaxEnds = 3
SYMMETRY ChunkSymmetry
INVARIANTS TypeOK BitsAreBytes JobsSurvive ReloadRestores
CHECK_DEADLOCK FALSE
