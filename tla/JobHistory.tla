----------------------------- MODULE JobHistory -----------------------------
(***************************************************************************)
(* The jobs of a client over several lives of its process.  A clean end    *)
(* writes them to the history file, a start reads them back; the history   *)
(* names torrent files, which may have been deleted or replaced since, and *)
(* whatever the process does between two clean ends is lost in a crash.    *)
(* A torrent file that cannot be read stands for one that was deleted.     *)
(*                                                                         *)
(* A file stands for its content and its place: nobody but the client      *)
(* changes the files it downloads or offers.                               *)
(***************************************************************************)
EXTENDS Integers, Sequences, FiniteSets, SequencesExt

CONSTANTS
    Torrents, FilesOf,      \* torrents, and the files in them
    Chunks,                 \* the chunks of a file
    Paths,                  \* where torrent files are kept
    MaxJobs, MaxEnds,       \* bounds: jobs added, and lives of the process
    NoTorrent

Files == UNION {FilesOf[t] : t \in Torrents}

ASSUME SetsAssumption ==
    /\ \A t \in Torrents : FilesOf[t] # {}
    /\ NoTorrent \notin Torrents /\ Paths # {}
ASSUME BoundsAssumption == MaxJobs \in Nat /\ MaxEnds \in Nat

VARIABLES
    pc,             \* "down", "login", "reloading", "up", "ending" before the save, "saving",
                    \* or "failed" in a save
    torrentAt,      \* the torrent in a torrent file
    written,        \* the chunks of each file that are on the disk
    history,        \* the history file: an entry for each job
    jobs,           \* jobs_, in the order of the handles
    torrent_ids_,
    torrent_path,   \* torrent_path_map_
    bitmap_map,     \* DownloadInfo::bitmap_map: a bitmap for some of the files
    entries,        \* ReloadJobHistory: what is left of the history it read
    mine,           \* history variable: the jobs that nothing has excused from surviving
    unchecked,      \* history variable: files that were offered and not there as a whole
    added, ends

adds     == <<added, unchecked>>
diskVars == <<torrentAt, written, history>>
memVars  == <<jobs, torrent_ids_, torrent_path, bitmap_map>>
vars == <<pc, diskVars, memVars, entries, mine, adds, ends>>

\* No bitmap for any file.
NoBitmaps == [f \in {} |-> {}]

Init ==
    /\ pc = "down" /\ added = 0 /\ ends = 0
    /\ torrentAt \in [Paths -> Torrents \cup {NoTorrent}]
    /\ written = [f \in Files |-> {}] /\ history = << >>
    /\ jobs = << >> /\ torrent_ids_ = {} /\ entries = << >> /\ mine = {} /\ unchecked = {}
    /\ torrent_path = [t \in Torrents |-> CHOOSE p \in Paths : TRUE]
    /\ bitmap_map = [t \in Torrents |-> NoBitmaps]

NotRegistered(t) == FALSE
HasThisTorrent(t) == t \in torrent_ids_
Listed == Range(jobs)
-----------------------------------------------------------------------------
(* New jobs, and what they do.                                             *)

\* The constructor of JobInfo makes an empty bitmap for each file that is needed, and
\* AddNewUploadJob sets all bits.
EmptyBitmaps(needs) == [f \in needs |-> {}]
FullBitmaps(needs)  == [f \in needs |-> Chunks]

AddNewJob(t, p, bitmaps) ==
    /\ torrent_ids_' = torrent_ids_ \cup {t}
    /\ jobs' = Append(jobs, t)
    /\ torrent_path' = [torrent_path EXCEPT ![t] = p]
    /\ bitmap_map' = [bitmap_map EXCEPT ![t] = bitmaps]

\* A caller may leave files out.
Needs(t) == SUBSET FilesOf[t] \ {{}}

Add(t, p, bitmaps) ==
    /\ pc = "up" /\ added < MaxJobs /\ added' = added + 1
    /\ torrentAt[p] = t /\ ~HasThisTorrent(t)
    /\ AddNewJob(t, p, bitmaps) /\ mine' = mine \cup {t}
    /\ UNCHANGED <<pc, diskVars, entries, ends>>

AddNewDownloadJob(t, p) ==
    \E needs \in Needs(t) : Add(t, p, EmptyBitmaps(needs)) /\ UNCHANGED unchecked

\* All files are offered, also those that are not on the disk: JobInfo creates a file that
\* is missing, filled with zeros.
AddNewUploadJob(t, p) ==
    /\ Add(t, p, FullBitmaps(FilesOf[t]))
    /\ unchecked' = unchecked \cup {f \in FilesOf[t] : written[f] # Chunks}

\* The jobs of a torrent file that changes are not found again.
UsersOf(p) == {t \in Torrents : torrent_path[t] = p}
              \cup {history[i].torrent : i \in {j \in DOMAIN history : history[j].path = p}}

Writes(p, t) == torrentAt' = [torrentAt EXCEPT ![p] = t] /\ mine' = mine \ UsersOf(p)

\* The files are there and a torrent file is made of them; or the assertion about its
\* serialization throws when it has been emptied; or an error is returned, which main
\* ignores to go on with the torrent file of before.
MakeTorrent(t, p) ==
    /\ pc = "up"
    /\ \/ /\ torrentAt[p] # t /\ Writes(p, t) /\ UNCHANGED pc
          /\ written' = [f \in Files |-> IF f \in FilesOf[t] THEN Chunks ELSE written[f]]
       \/ Writes(p, NoTorrent) /\ pc' = "ending" /\ UNCHANGED written
       \/ UNCHANGED <<pc, torrentAt, written, mine>>
    /\ UNCHANGED <<history, memVars, entries, adds, ends>>

DeleteTorrent(p) ==
    /\ pc \in {"up", "down"} /\ torrentAt[p] # NoTorrent
    /\ Writes(p, NoTorrent)
    /\ UNCHANGED <<pc, written, history, memVars, entries, adds, ends>>

RemoveJob(t) ==
    /\ pc = "up" /\ \E i \in DOMAIN jobs : jobs[i] = t /\ jobs' = RemoveAt(jobs, i)
    /\ mine' = mine \ {t}
    /\ UNCHANGED <<pc, diskVars, torrent_ids_, torrent_path, bitmap_map, entries, adds, ends>>

\* A task writes the verified bytes of a chunk; onFinished sets the bit.
Downloads(t, f) == pc \in {"up", "saving"} /\ t \in Listed /\ f \in DOMAIN bitmap_map[t]

WriteChunk(t, f, c) ==
    /\ Downloads(t, f) /\ c \notin written[f]
    /\ written' = [written EXCEPT ![f] = @ \cup {c}]
    /\ UNCHANGED <<pc, torrentAt, history, memVars, entries, mine, adds, ends>>

SetBit(t, f, c) ==
    /\ Downloads(t, f) /\ c \in written[f] \ bitmap_map[t][f]
    /\ bitmap_map' = [bitmap_map EXCEPT ![t][f] = @ \cup {c}]
    /\ UNCHANGED <<pc, diskVars, jobs, torrent_ids_, torrent_path, entries, mine, adds, ends>>
-----------------------------------------------------------------------------
(* uninitialize: SaveJobHistory.                                           *)

\* To open the stream is to empty the file.
Open ==
    /\ pc \in {"up", "ending"} /\ pc' = "saving" /\ history' = << >>
    /\ UNCHANGED <<torrentAt, written, memVars, entries, mine, adds, ends>>

\* Every file of the torrent is asked for its bitmap: one that was not needed has
\* none, and the null pointer throws.
HasBitmaps(t) == FilesOf[t] \subseteq DOMAIN bitmap_map[t]

JobHistoryInfo(t) ==
    [path |-> torrent_path[t], torrent |-> t,
     bits |-> [f \in FilesOf[t] |-> bitmap_map[t][f]]]

Ends == pc' = "down" /\ ends' = ends + 1

\* The torrents that a list of entries leads to.
Found(list) == {t \in Torrents : \E i \in DOMAIN list :
                    list[i].torrent = t /\ torrentAt[list[i].path] = t}

\* The file cannot be opened, and keeps the history of an earlier life.
OpenFails ==
    /\ pc \in {"up", "ending"} /\ mine' = mine \cap Found(history)
    /\ Ends /\ UNCHANGED <<diskVars, memVars, entries, adds>>

Saved == [i \in DOMAIN jobs |-> JobHistoryInfo(jobs[i])]

Serialize ==
    /\ pc = "saving" /\ (\A t \in Listed : HasBitmaps(t)) /\ history' = Saved
    /\ Ends /\ UNCHANGED <<torrentAt, written, memVars, entries, mine, adds>>

\* Only the first entries get into the file, or the process is killed while it writes.
SerializeFails ==
    /\ pc = "saving" /\ \A t \in Listed : HasBitmaps(t)
    /\ \E n \in 0..(Len(jobs) - 1) : history' = SubSeq(Saved, 1, n)
    /\ mine' = mine \cap Found(history')
    /\ Ends /\ UNCHANGED <<torrentAt, written, memVars, entries, adds>>

\* The exception ends the process, and the file stays as it is: empty.
SaveFails ==
    /\ pc = "saving" /\ \E t \in Listed : ~HasBitmaps(t)
    /\ pc' = "failed" /\ ends' = ends + 1 /\ mine' = {}
    /\ UNCHANGED <<diskVars, memVars, entries, adds>>

\* What the history file names survives.
Crash ==
    /\ pc \in {"login", "reloading", "up", "ending", "saving"}
    /\ mine' = mine \cap Found(history)
    /\ Ends /\ UNCHANGED <<diskVars, memVars, entries, adds>>
-----------------------------------------------------------------------------
(* main: LoginTracker, and ReloadJobHistory.                               *)

Start ==
    /\ pc \in {"down", "failed"} /\ ends < MaxEnds /\ pc' = "login"
    /\ jobs' = << >> /\ torrent_ids_' = {} /\ entries' = << >>
    /\ UNCHANGED <<diskVars, torrent_path, bitmap_map, mine, adds, ends>>

\* A client that downloads ends when the tracker does not answer, and its end saves
\* no job over those of the history.
LoginFails ==
    /\ pc = "login" /\ pc' = "ending" /\ mine' = {}
    /\ UNCHANGED <<diskVars, memVars, entries, adds, ends>>

ReloadJobHistory ==
    /\ pc = "login" /\ pc' = "reloading" /\ entries' = history
    /\ UNCHANGED <<diskVars, memVars, mine, adds, ends>>

\* The history cannot be opened or parsed.  The error is ignored, and the next save puts
\* its jobs in the place of those that were not read.
ReloadFails ==
    /\ pc = "login" /\ pc' = "up" /\ mine' = {}
    /\ UNCHANGED <<diskVars, memVars, entries, adds, ends>>

\* The blocks of a bitmap, cut to its number of bits.
NoBits(bits)       == {}
AllBits(bits)      == Chunks
ReloadedBits(bits) == bits

\* The names in the history are the files needed now; the bitmaps are taken over,
\* also those of files the torrent no longer has.
ReloadedBitmaps(t, e) ==
    [f \in DOMAIN e.bits |-> ReloadedBits(e.bits[f])]

\* A torrent that cannot be parsed is passed over.
AfterBreak(rest)    == << >>
AfterContinue(rest) == rest

SkipJob ==
    /\ pc = "reloading" /\ entries # << >> /\ torrentAt[Head(entries).path] = NoTorrent
    /\ entries' = AfterContinue(Tail(entries))
    /\ UNCHANGED <<pc, diskVars, memVars, mine, adds, ends>>

ReloadOneJob ==
    /\ pc = "reloading" /\ entries # << >>
    /\ LET e == Head(entries)
           t == torrentAt[e.path]
       IN t # NoTorrent /\ ~HasThisTorrent(t) /\ AddNewJob(t, e.path, ReloadedBitmaps(t, e))
    /\ entries' = Tail(entries)
    /\ UNCHANGED <<pc, diskVars, mine, adds, ends>>

\* The assertion that a torrent is new throws out of main, and uninitialize saves
\* what has been reloaded.
RepeatsTorrent ==
    pc = "reloading" /\ entries # << >> /\ HasThisTorrent(torrentAt[Head(entries).path])

AssertFails ==
    /\ RepeatsTorrent /\ pc' = "ending" /\ mine' = mine \cap Listed
    /\ UNCHANGED <<diskVars, memVars, entries, adds, ends>>

Reloaded ==
    /\ pc = "reloading" /\ entries = << >> /\ pc' = "up"
    /\ UNCHANGED <<diskVars, memVars, entries, mine, adds, ends>>

JobStep ==
    \/ \E t \in Torrents, p \in Paths : \/ AddNewDownloadJob(t, p) \/ AddNewUploadJob(t, p)
                                        \/ MakeTorrent(t, p)
    \/ \E p \in Paths : DeleteTorrent(p)
    \/ \E t \in Torrents : \/ RemoveJob(t)
                           \/ \E f \in FilesOf[t], c \in Chunks : \/ WriteChunk(t, f, c)
                                                                  \/ SetBit(t, f, c)

Next ==
    \/ JobStep \/ Open \/ OpenFails \/ Serialize \/ SerializeFails \/ SaveFails \/ Crash
    \/ Start \/ LoginFails \/ ReloadJobHistory \/ ReloadFails
    \/ SkipJob \/ ReloadOneJob \/ AssertFails \/ Reloaded

Spec == Init /\ [][Next]_vars
-----------------------------------------------------------------------------
Bitmap == UNION {[fs -> SUBSET Chunks] : fs \in SUBSET Files}
HistoryEntry == [path : Paths, torrent : Torrents, bits : Bitmap]

TypeOK ==
    /\ pc \in {"down", "login", "reloading", "up", "ending", "saving", "failed"}
    /\ torrentAt \in [Paths -> Torrents \cup {NoTorrent}]
    /\ written \in [Files -> SUBSET Chunks]
    /\ \A s \in {history, entries} : \A i \in DOMAIN s : s[i] \in HistoryEntry
    /\ Listed \subseteq torrent_ids_ /\ torrent_ids_ \subseteq Torrents
    /\ \A i, j \in DOMAIN jobs : jobs[i] = jobs[j] => i = j
    /\ torrent_path \in [Torrents -> Paths] /\ bitmap_map \in [Torrents -> Bitmap]
    /\ mine \subseteq Torrents /\ unchecked \subseteq Files
    /\ added \in 0..MaxJobs /\ ends \in 0..MaxEnds

\* A bit of a bitmap, in memory or in the history, stands for bytes on the disk, through
\* every crash and restart, but for the files of AddNewUploadJob, which sets all bits
\* whether the files are there or not.
BitsAreBytes ==
    /\ \A t \in Listed : \A f \in DOMAIN bitmap_map[t] \ unchecked :
          bitmap_map[t][f] \subseteq written[f]
    /\ \A i \in DOMAIN history : \A f \in DOMAIN history[i].bits \ unchecked :
          history[i].bits[f] \subseteq written[f]

\* A job that was not removed, and whose torrent file stayed what it was, is there after
\* every restart, unless it was lost in one of these ways: a crash came before the end of
\* the save; the save could not open or write the file, or threw; a login failed; the
\* history could not be read; or the reload's assertion failed before it.
JobsSurvive ==
    mine \subseteq CASE pc \in {"up", "ending", "saving"} -> Listed
                     [] pc \in {"down", "login", "failed"} -> Found(history)
                     [] OTHER -> Listed \cup Found(entries)

\* After a restart the bitmaps are those that were saved.
ReloadRestores ==
    pc = "reloading" /\ entries = << >> =>
        \A i \in DOMAIN history :
            LET t == torrentAt[history[i].path]
            IN t = history[i].torrent => t \in Listed /\ bitmap_map[t] = history[i].bits
=============================================================================
