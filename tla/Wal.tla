-------------------------------- MODULE Wal ---------------------------------
(***************************************************************************)
(* src/wal.{h,cpp}: the write-ahead log of one process and its two files,  *)
(* path_ and path_ + ".1".                                                 *)
(*                                                                         *)
(* mutex_ serialises append, set_path and replay, so there is one call at  *)
(* a time and pc says how far it has got.  What can come between its steps *)
(* is a crash: the process dies, the files stay, and the next process      *)
(* constructs a WAL on the same path.  An append is one line; the file     *)
(* size is counted in lines.  A line that was being written when the       *)
(* process died may reach the file without its end ("torn").               *)
(*                                                                         *)
(* Entries are numbered by the history variable `appends`, because         *)
(* seq_counter_ starts again at 0 in every process.                        *)
(***************************************************************************)
EXTENDS Naturals, Sequences

CONSTANTS
    Paths,          \* the paths the log may be given
    InitialPath,    \* the path the constructor gets
    MaxEntries,     \* max_size_bytes_, in lines
    Faults,         \* what may go wrong, and whether set_path is called at all
    MaxFaults,      \* bound: how often
    MaxAppends,     \* bound: calls of append
    MaxCrashes      \* bound: crashes

ASSUME WalAssumption ==
    /\ InitialPath \in Paths /\ "closed" \notin Paths
    /\ MaxEntries \in Nat \ {0}
    /\ Faults \subseteq {"rename", "open", "set_path"}
    /\ MaxFaults \in Nat
    /\ MaxAppends \in Nat
    /\ MaxCrashes \in Nat

VARIABLES
    live,           \* the lines of the file at each path
    rotated,        \* the lines of the file at each path + ".1"
    missing,        \* the paths where there is no file
    path_,
    stream,         \* the path wal_file_ is open on, or "closed"
    good,           \* wal_file_ tests true: neither failbit nor badbit
    seq_counter_,
    pc,
    appends,        \* history: appends begun; the number of the current entry
    written,        \* history: the lines that reached a file, in order
    acked,          \* history: entries whose append returned
    calm,           \* history: in this process no rename threw and set_path was not called
    trusted,        \* history: entries whose append returned while it was calm
    faults,         \* history: faults so far
    replayed,       \* what the replay in progress has handed to the handler
    crashes

vars == <<live, rotated, missing, path_, stream, good, seq_counter_, pc, appends, written,
          acked, calm, trusted, faults, replayed, crashes>>
files == <<live, rotated, missing>>
handle == <<path_, stream, good>>
history == <<written, acked, calm, trusted>>

Whole(n) == [entry |-> n, whole |-> TRUE]
Torn(n) == [entry |-> n, whole |-> FALSE]

Closed == "closed"

Fault(kind) == kind \in Faults /\ faults < MaxFaults /\ faults' = faults + 1

\* WAL::WAL, the first time and on a later start.
Init ==
    /\ live = [p \in Paths |-> <<>>]
    /\ rotated = [p \in Paths |-> <<>>]
    /\ missing = Paths \ {InitialPath}
    /\ path_ = InitialPath
    /\ stream = InitialPath
    /\ good = TRUE
    /\ seq_counter_ = 0
    /\ pc = "idle"
    /\ appends = 0
    /\ written = <<>>
    /\ acked = {}
    /\ calm = TRUE
    /\ trusted = {}
    /\ faults = 0
    /\ replayed = <<>>
    /\ crashes = 0

(***************************************************************************)
(* append.                                                                 *)
(***************************************************************************)
\* append takes mutex_ and numbers the entry.
AppendCall ==
    /\ pc = "idle"
    /\ appends < MaxAppends
    /\ appends' = appends + 1
    /\ seq_counter_' = seq_counter_ + 1
    /\ pc' = "write"
    /\ UNCHANGED <<files, handle, history, faults, replayed, crashes>>

\* The line reaches the file wal_file_ is open on.
Write(line) ==
    /\ live' = [live EXCEPT ![stream] = Append(@, line)]
    /\ written' = Append(written, line)

\* `if (wal_file_)` guards the write; on a closed stream the write itself fails
\* and sets badbit.  Neither is reported to the caller.
AppendWrite ==
    /\ pc = "write"
    /\ \/ good /\ stream # Closed /\ Write(Whole(appends)) /\ UNCHANGED good
       \/ good /\ stream = Closed /\ good' = FALSE /\ UNCHANGED <<live, written>>
       \/ ~good /\ UNCHANGED <<live, written, good>>
    /\ pc' = "size"
    /\ UNCHANGED <<rotated, missing, path_, stream, seq_counter_, appends, acked, calm,
                   trusted, faults, replayed, crashes>>

\* Bug: file_size reports a missing file as empty instead of throwing.
AppendSize_NoThrow ==
    /\ pc = "size"
    /\ pc' = IF path_ \notin missing /\ Len(live[path_]) >= MaxEntries THEN "close"
                                                                      ELSE "notify"
    /\ UNCHANGED <<files, handle, seq_counter_, appends, history, faults, replayed,
                   crashes>>

\* file_size(path_) throws if there is no such file; otherwise it decides on rotation.
AppendSize ==
    /\ pc = "size"
    /\ \/ path_ \in missing /\ pc' = "idle"
       \/ /\ path_ \notin missing
          /\ pc' = IF Len(live[path_]) >= MaxEntries THEN "close" ELSE "notify"
    /\ UNCHANGED <<files, handle, seq_counter_, appends, history, faults, replayed,
                   crashes>>

\* rotate: wal_file_.close(), which sets failbit if the stream is closed already.
RotateClose ==
    /\ pc = "close"
    /\ good' = (good /\ stream # Closed)
    /\ stream' = Closed
    /\ pc' = "rename"
    /\ UNCHANGED <<files, path_, seq_counter_, appends, history, faults, replayed,
                   crashes>>

\* rotate: rename onto path_ + ".1", replacing what was there; or it throws.
RotateRename ==
    /\ pc = "rename"
    /\ \/ /\ rotated' = [rotated EXCEPT ![path_] = live[path_]]
          /\ live' = [live EXCEPT ![path_] = <<>>]
          /\ missing' = missing \cup {path_}
          /\ pc' = "open"
          /\ UNCHANGED <<calm, faults>>
       \/ /\ Fault("rename")
          /\ calm' = FALSE
          /\ pc' = "idle"
          /\ UNCHANGED files
    /\ UNCHANGED <<handle, seq_counter_, appends, written, acked, trusted, replayed,
                   crashes>>

\* Bug: the log is opened with ios::trunc.
OpenLog_Truncates(p) ==
    /\ live' = [live EXCEPT ![p] = <<>>]
    /\ missing' = missing \ {p}
    /\ stream' = p
    /\ good' = TRUE

\* open_log (ios::app) on a closed stream creates the file if there is none and keeps
\* its lines if there is one; a success clears the error bits.
OpenLog(p) ==
    /\ missing' = missing \ {p}
    /\ stream' = p
    /\ good' = TRUE
    /\ UNCHANGED live

\* open_log that fails sets failbit; the exception leaves the caller.
OpenFails == good' = FALSE /\ UNCHANGED <<live, missing, stream>>

RotateOpen ==
    /\ pc = "open"
    /\ \/ OpenLog(path_) /\ pc' = "notify" /\ UNCHANGED faults
       \/ Fault("open") /\ OpenFails /\ pc' = "idle"
    /\ UNCHANGED <<rotated, path_, seq_counter_, appends, history, replayed, crashes>>

\* The handler is called and append returns: the entry is acknowledged.
AppendReturn ==
    /\ pc = "notify"
    /\ acked' = acked \cup {appends}
    /\ trusted' = IF calm THEN trusted \cup {appends} ELSE trusted
    /\ pc' = "idle"
    /\ UNCHANGED <<files, handle, seq_counter_, appends, written, calm, faults,
                   replayed, crashes>>

(***************************************************************************)
(* set_path and replay.                                                    *)
(***************************************************************************)
\* path_ changes first; open on a stream that is open already always fails.
SetPath(p) ==
    /\ pc = "idle"
    /\ Fault("set_path")
    /\ calm' = FALSE
    /\ path_' = p
    /\ IF stream = Closed THEN OpenLog(p) ELSE OpenFails
    /\ UNCHANGED <<rotated, seq_counter_, pc, appends, written, acked, trusted,
                   replayed, crashes>>

\* Line i can be parsed back: it is whole, and no torn line runs into it.
Parses(file, i) == file[i].whole /\ (i = 1 \/ file[i - 1].whole)

\* Bug: replay goes through the rotated file and leaves the current one out.
ReplaySource_Rotated == rotated[path_]

\* What replay reads: the file at path_, not the rotated one.
ReplaySource == live[path_]

Replay ==
    /\ pc = "idle"
    /\ replayed' = [i \in DOMAIN ReplaySource |->
                       [entry |-> ReplaySource[i].entry, intact |-> Parses(ReplaySource, i)]]
    /\ pc' = "replay"
    /\ UNCHANGED <<files, handle, seq_counter_, appends, history, faults, crashes>>

ReplayReturn ==
    /\ pc = "replay"
    /\ replayed' = <<>>
    /\ pc' = "idle"
    /\ UNCHANGED <<files, handle, seq_counter_, appends, history, faults, crashes>>

(***************************************************************************)
(* Crash and restart.                                                      *)
(***************************************************************************)
Crash ==
    /\ pc # "down"
    /\ crashes < MaxCrashes
    /\ \/ UNCHANGED <<live, written>>
       \/ pc = "write" /\ good /\ stream # Closed /\ Write(Torn(appends))
    /\ pc' = "down"
    /\ stream' = Closed
    /\ good' = FALSE
    /\ crashes' = crashes + 1
    /\ UNCHANGED <<rotated, missing, path_, seq_counter_, appends, acked, calm, trusted,
                   faults, replayed>>

Restart ==
    /\ pc = "down"
    /\ path_' = InitialPath
    /\ OpenLog(InitialPath)
    /\ seq_counter_' = 0
    /\ pc' = "idle"
    /\ replayed' = <<>>
    /\ calm' = TRUE
    /\ UNCHANGED <<rotated, appends, written, acked, trusted, faults, crashes>>

Next ==
    \/ AppendCall \/ AppendWrite \/ AppendSize
    \/ RotateClose \/ RotateRename \/ RotateOpen
    \/ AppendReturn
    \/ \E p \in Paths : SetPath(p)
    \/ Replay \/ ReplayReturn
    \/ Crash \/ Restart

Spec == Init /\ [][Next]_vars

(***************************************************************************)
(* Properties.                                                             *)
(***************************************************************************)
Entries == 1..MaxAppends
Lines == [entry : Entries, whole : BOOLEAN]

\* The type of every variable.
TypeOK ==
    /\ live \in [Paths -> Seq(Lines)]
    /\ rotated \in [Paths -> Seq(Lines)]
    /\ missing \in SUBSET Paths
    /\ path_ \in Paths
    /\ stream \in Paths \cup {Closed}
    /\ good \in BOOLEAN
    /\ seq_counter_ \in 0..appends
    /\ pc \in {"idle", "write", "size", "close", "rename", "open", "notify", "replay", "down"}
    /\ appends \in 0..MaxAppends
    /\ written \in Seq(Lines)
    /\ acked \in SUBSET Entries
    /\ calm \in BOOLEAN
    /\ trusted \in SUBSET acked
    /\ faults \in 0..MaxFaults
    /\ replayed \in Seq([entry : Entries, intact : BOOLEAN])
    /\ crashes \in 0..MaxCrashes

\* "Sync WAL before ack": an append that returned has its whole line in a log file,
\* whatever crashed and whichever open failed before; only a process in which a rename
\* threw or set_path was called may acknowledge what it has not written.
AckedIsWritten == \A n \in trusted : \E i \in DOMAIN written : written[i] = Whole(n)

\* The two files of the log, oldest line first.
Kept == rotated[InitialPath] \o live[InitialPath]

\* append keeps the log at max_size_bytes_: what comes on top is a line per crash and
\* per fault, however often the process restarts with a file at the limit.
LiveBounded == Len(live[InitialPath]) <= MaxEntries + crashes + faults

\* A crash or a failed open at any point of a rotation loses nothing recent: the two
\* files together are the latest lines written, in order, at least MaxEntries of them,
\* and the live one stays bounded (LiveBounded).
RecentKept ==
    /\ Len(Kept) <= Len(written)
    /\ \A i \in 1..Len(Kept) : Kept[i] = written[Len(written) - Len(Kept) + i]
    /\ Len(Kept) >= MaxEntries \/ Len(Kept) = Len(written)
    /\ LiveBounded

Delivered == {n \in Entries : \E i \in DOMAIN replayed :
                                  replayed[i] = [entry |-> n, intact |-> TRUE]}

\* The line of entry n was written right behind a torn one.
Glued(n) == \E i \in DOMAIN written : i > 1 /\ written[i].entry = n /\ ~written[i - 1].whole

\* What replay misses is older than all it delivers (it was rotated away) or ran
\* into a line torn by a crash: there is no other gap in what it delivers.
ReplayGapless ==
    pc = "replay" =>
        \A n \in trusted : n \in Delivered \/ Glued(n) \/ \A m \in Delivered : n < m

=============================================================================
