----------------------------- MODULE WalProofs ------------------------------
(***************************************************************************)
(* Theorems about Wal for any limit on the size of the log, any number of  *)
(* appends, crashes and faults of every kind.                              *)
(*                                                                         *)
(* IInv is inductive for any paths and carries AckedIsWritten: while a     *)
(* process is calm, its stream is good exactly when the file is there, so  *)
(* an append that gets past file_size has written its line (CalmInv).      *)
(* What the two files hold is a statement about one path.  OnePathInv adds *)
(* it, for the log that stays where it was opened (OnePath): the two files *)
(* are the latest lines written (SuffixInv), and the live one is longer    *)
(* than the limit only by what crashes and faults have kept (BoundInv).    *)
(***************************************************************************)
EXTENDS Wal, SequenceTheorems, TLAPS

\* A file that is not there has no lines; the stream is open on a file that is there, and on
\* none in the middle of a rotation, which begins only when the log is full.
FileInv ==
    /\ \A p \in missing : live[p] = <<>>
    /\ stream \notin missing
    /\ pc \in {"rename", "open"} => stream = Closed
    /\ pc \in {"close", "rename"} => Len(live[path_]) >= MaxEntries

\* Each line carries a later entry than the line before it, none after the current one.
OrderInv ==
    /\ pc \notin {"idle", "replay", "down"} => appends > 0
    /\ \A i \in DOMAIN written : written[i].entry <= appends
    /\ pc = "write" => \A i \in DOMAIN written : written[i].entry < appends
    /\ \A i, j \in DOMAIN written : i < j => written[i].entry < written[j].entry

IsWritten(n) == \E i \in DOMAIN written : written[i] = Whole(n)

\* In a calm process the stream is open and good, or a failed open has left neither a good
\* stream nor a file: then file_size throws before the append is acknowledged.
CalmInv ==
    calm /\ pc # "down" =>
        /\ path_ = InitialPath
        /\ \/ /\ pc \in {"idle", "write", "replay", "size", "close", "notify"}
              /\ good /\ stream = path_ /\ path_ \notin missing
           \/ /\ pc \in {"idle", "write", "replay", "size"}
              /\ ~good /\ stream = Closed /\ path_ \in missing
           \/ pc = "rename" /\ good /\ path_ \notin missing
           \/ pc = "open" /\ path_ \in missing
        /\ pc \in {"close", "rename", "open", "notify"} => IsWritten(appends)
        /\ pc = "size" /\ good => IsWritten(appends)

IInv == TypeOK /\ FileInv /\ OrderInv /\ CalmInv /\ AckedIsWritten

\* The log stays where the constructor opened it: set_path, if it is called, names the same
\* path again.
OnePath == "set_path" \in Faults => Paths = {InitialPath}

PathInv == path_ = InitialPath /\ stream \in {InitialPath, Closed}

\* s is the end of t.
Ends(s, t) ==
    /\ Len(s) <= Len(t)
    /\ \A i \in 1..Len(s) : s[i] = t[Len(t) - Len(s) + i]

\* RecentKept without its bound.
SuffixInv ==
    /\ Ends(Kept, written)
    /\ Len(Kept) >= MaxEntries \/ Len(Kept) = Len(written)

\* An append adds at most the line that makes the log rotate.
BoundInv ==
    /\ Len(live[InitialPath]) <= MaxEntries + crashes + faults
    /\ pc \notin {"size", "close", "rename"} =>
           Len(live[InitialPath]) < MaxEntries + crashes + faults

OnePathInv == PathInv /\ SuffixInv /\ BoundInv /\ ReplayGapless

-----------------------------------------------------------------------------
(* Any paths: IInv is inductive. *)

\* What the assumptions on the constants give the leaves below.
LEMMA Constants ==
    /\ InitialPath \in Paths /\ Closed \notin Paths
    /\ MaxEntries \in Nat \ {0} /\ MaxFaults \in Nat /\ MaxAppends \in Nat /\ MaxCrashes \in Nat
    /\ Entries = 1..MaxAppends
  BY WalAssumption DEF Closed, Entries

\* The constructor on a path where there is no log yet.
LEMMA InitIInv == Init => IInv
  <1> SUFFICES ASSUME Init PROVE IInv
    OBVIOUS
  <1>1. TypeOK
    <2>1. /\ live \in [Paths -> Seq(Lines)] /\ rotated \in [Paths -> Seq(Lines)]
          /\ written \in Seq(Lines) /\ replayed \in Seq([entry : Entries, intact : BOOLEAN])
      BY DEF Init
    <2>2. missing \in SUBSET Paths /\ path_ \in Paths /\ stream \in Paths \cup {Closed}
      BY Constants DEF Init
    <2>3. good \in BOOLEAN /\ calm \in BOOLEAN
      BY DEF Init
    <2>4. /\ seq_counter_ \in 0..appends /\ appends \in 0..MaxAppends /\ faults \in 0..MaxFaults
          /\ crashes \in 0..MaxCrashes
      BY Constants DEF Init
    <2> QED
      BY <2>1, <2>2, <2>3, <2>4 DEF Init, TypeOK
  <1>2. FileInv /\ OrderInv /\ CalmInv /\ AckedIsWritten
    BY Constants DEF Init, FileInv, OrderInv, CalmInv, AckedIsWritten
  <1> QED
    BY <1>1, <1>2 DEF IInv

\* The types of the sequences.
LEMMA SeqFacts ==
    ASSUME TypeOK
    PROVE  /\ written \in Seq(Lines) /\ Len(written) \in Nat /\ DOMAIN written = 1..Len(written)
           /\ \A i \in DOMAIN written : written[i] \in Lines /\ written[i].entry \in Entries
           /\ \A p \in Paths : live[p] \in Seq(Lines) /\ Len(live[p]) \in Nat
           /\ appends \in Nat
  <1>1. /\ written \in Seq(Lines) /\ Len(written) \in Nat /\ DOMAIN written = 1..Len(written)
        /\ \A i \in DOMAIN written : written[i] \in Lines
    BY LenProperties, ElementOfSeq DEF TypeOK
  <1>2. \A p \in Paths : live[p] \in Seq(Lines) /\ Len(live[p]) \in Nat
    BY LenProperties DEF TypeOK
  <1>3. appends \in Nat
    BY Constants DEF TypeOK
  <1> QED
    BY <1>1, <1>2, <1>3 DEF Lines

\* An append under way has numbered its entry.
LEMMA CurrentFacts ==
    ASSUME IInv, pc \notin {"idle", "replay", "down"}
    PROVE  appends \in Entries
  BY Constants DEF IInv, OrderInv, TypeOK

\* A line is written: it is the last one of the file and of all that was written.
LEMMA WriteFacts ==
    ASSUME TypeOK, stream # Closed, NEW line \in Lines, Write(line)
    PROVE  /\ live' \in [Paths -> Seq(Lines)] /\ written' \in Seq(Lines)
           /\ stream \in Paths
           /\ live'[stream] = Append(live[stream], line)
           /\ Len(live'[stream]) = Len(live[stream]) + 1
           /\ \A p \in Paths : p # stream => live'[p] = live[p]
           /\ Len(written') = Len(written) + 1
           /\ DOMAIN written' = 1..(Len(written) + 1)
           /\ \A i \in DOMAIN written : written'[i] = written[i]
           /\ written'[Len(written) + 1] = line
  <1>1. stream \in Paths
    BY DEF TypeOK
  <1>2. written \in Seq(Lines) /\ DOMAIN written = 1..Len(written) /\ Len(written) \in Nat
        /\ live[stream] \in Seq(Lines)
    BY <1>1, SeqFacts
  <1>3. /\ written' \in Seq(Lines)
        /\ Len(written') = Len(written) + 1
        /\ DOMAIN written' = 1..(Len(written) + 1)
        /\ \A i \in DOMAIN written : written'[i] = written[i]
        /\ written'[Len(written) + 1] = line
    BY <1>2, AppendProperties, LenProperties DEF Write
  <1>4. Append(live[stream], line) \in Seq(Lines)
        /\ Len(Append(live[stream], line)) = Len(live[stream]) + 1
    BY <1>2, AppendProperties
  <1>5. /\ live' \in [Paths -> Seq(Lines)]
        /\ live'[stream] = Append(live[stream], line)
        /\ \A p \in Paths : p # stream => live'[p] = live[p]
    BY <1>1, <1>4 DEF Write, TypeOK
  <1> QED
    BY <1>1, <1>3, <1>4, <1>5

\* The line of the current entry keeps the lines in order, and what was written stays written.
LEMMA WriteOrder ==
    ASSUME IInv, pc = "write", stream # Closed, NEW line \in Lines, line.entry = appends,
           Write(line)
    PROVE  /\ \A i \in DOMAIN written' : written'[i].entry <= appends
           /\ \A i, j \in DOMAIN written' : i < j => written'[i].entry < written'[j].entry
           /\ \A n : IsWritten(n) => \E i \in DOMAIN written' : written'[i] = Whole(n)
  <1> USE DEF IInv
  <1>1. /\ DOMAIN written' = 1..(Len(written) + 1) /\ Len(written) \in Nat
        /\ DOMAIN written = 1..Len(written)
        /\ \A i \in DOMAIN written : written'[i] = written[i]
        /\ written'[Len(written) + 1] = line
        /\ appends \in Nat
    BY WriteFacts, SeqFacts
  <1>2. \A i \in DOMAIN written : written'[i].entry < appends
    BY <1>1 DEF OrderInv
  <1>3. \A i \in DOMAIN written : written'[i].entry \in Nat
    BY <1>1, SeqFacts, Constants
  <1>4. \A i \in DOMAIN written' : written'[i].entry <= appends
    BY <1>1, <1>2, <1>3
  <1>5. ASSUME NEW i \in DOMAIN written', NEW j \in DOMAIN written', i < j
        PROVE  written'[i].entry < written'[j].entry
    <2>1. i \in DOMAIN written
      BY <1>1, <1>5
    <2>2. CASE j \in DOMAIN written
      BY <1>1, <1>5, <2>1, <2>2 DEF OrderInv
    <2>3. CASE j = Len(written) + 1
      BY <1>1, <1>2, <2>1, <2>3
    <2> QED
      BY <1>1, <2>2, <2>3
  <1>6. \A n : IsWritten(n) => \E i \in DOMAIN written' : written'[i] = Whole(n)
    BY <1>1 DEF IsWritten
  <1> QED
    BY <1>4, <1>5, <1>6

\* append takes mutex_ and numbers its entry.
LEMMA AppendCallStep ==
    ASSUME IInv, AppendCall
    PROVE  IInv'
  <1> USE DEF IInv, files, handle, history
  <1>1. /\ pc = "idle" /\ pc' = "write" /\ appends' = appends + 1
        /\ UNCHANGED <<live, rotated, missing, path_, stream, good, written, acked, calm, trusted,
                       faults, replayed, crashes>>
    BY DEF AppendCall
  <1>2. appends' \in 0..MaxAppends /\ seq_counter_' \in 0..appends' /\ appends \in Nat
    BY Constants DEF AppendCall, TypeOK
  <1>3. TypeOK'
    BY <1>1, <1>2 DEF TypeOK
  <1>4. FileInv' /\ CalmInv' /\ AckedIsWritten'
    BY <1>1 DEF FileInv, CalmInv, AckedIsWritten
  <1>5. OrderInv'
    <2>1. \A i \in DOMAIN written : written[i].entry \in Nat
      BY SeqFacts, Constants
    <2> QED
      BY <1>1, <1>2, <2>1 DEF OrderInv
  <1> QED
    BY <1>3, <1>4, <1>5

\* append writes its line, if the stream is good.
LEMMA AppendWriteStep ==
    ASSUME IInv, AppendWrite
    PROVE  IInv'
  <1> USE DEF IInv
  <1>1. /\ pc = "write" /\ pc' = "size"
        /\ UNCHANGED <<rotated, missing, path_, stream, seq_counter_, appends, acked, calm,
                       trusted, faults, replayed, crashes>>
    BY DEF AppendWrite
  <1>2. CASE good /\ stream # Closed /\ Write(Whole(appends)) /\ UNCHANGED good
    <2>1. Whole(appends) \in Lines /\ Whole(appends).entry = appends
      BY <1>1, CurrentFacts DEF Whole, Lines
    <2>2. /\ live' \in [Paths -> Seq(Lines)] /\ written' \in Seq(Lines)
          /\ stream \in Paths /\ Len(written) \in Nat
          /\ \A p \in Paths : p # stream => live'[p] = live[p]
          /\ DOMAIN written' = 1..(Len(written) + 1)
          /\ written'[Len(written) + 1] = Whole(appends)
      BY <1>2, <2>1, WriteFacts, SeqFacts
    <2>3. /\ \A i \in DOMAIN written' : written'[i].entry <= appends
          /\ \A i, j \in DOMAIN written' : i < j => written'[i].entry < written'[j].entry
          /\ \A n : IsWritten(n) => \E i \in DOMAIN written' : written'[i] = Whole(n)
      BY <1>1, <1>2, <2>1, WriteOrder
    <2>4. TypeOK'
      BY <1>1, <1>2, <2>2 DEF TypeOK
    <2>5. FileInv'
      BY <1>1, <2>2 DEF FileInv, TypeOK
    <2>6. OrderInv'
      BY <1>1, <2>3 DEF OrderInv
    <2>7. \E i \in DOMAIN written' : written'[i] = Whole(appends)
      BY <2>2
    <2>8. CalmInv'
      BY <1>1, <1>2, <2>7, Constants DEF CalmInv, IsWritten, Whole
    <2>9. AckedIsWritten'
      BY <1>1, <2>3 DEF AckedIsWritten, IsWritten, Whole
    <2> QED
      BY <2>4, <2>5, <2>6, <2>8, <2>9
  <1>3. CASE ~(good /\ stream # Closed) /\ good' = FALSE /\ UNCHANGED <<live, written>>
    <2>1. TypeOK'
      BY <1>1, <1>3 DEF TypeOK
    <2>2. FileInv' /\ OrderInv' /\ AckedIsWritten'
      BY <1>1, <1>3 DEF FileInv, OrderInv, AckedIsWritten
    <2>3. CalmInv'
      BY <1>1, <1>3, Constants DEF CalmInv
    <2> QED
      BY <2>1, <2>2, <2>3
  <1> QED
    BY <1>2, <1>3 DEF AppendWrite, TypeOK

\* append looks at the size of the file, which throws if a failed open has left none.
LEMMA AppendSizeStep ==
    ASSUME IInv, AppendSize
    PROVE  IInv'
  <1> USE DEF IInv
  <1>1. /\ pc = "size"
        /\ \/ path_ \in missing /\ pc' = "idle"
           \/ path_ \notin missing /\ pc' = "close" /\ Len(live[path_]) >= MaxEntries
           \/ path_ \notin missing /\ pc' = "notify"
        /\ UNCHANGED <<live, rotated, missing, path_, stream, good, seq_counter_, appends, written,
                       acked, calm, trusted, faults, replayed, crashes>>
    BY DEF AppendSize, files, handle, history
  <1>2. TypeOK'
    BY <1>1 DEF TypeOK
  <1>3. FileInv' /\ OrderInv' /\ AckedIsWritten'
    BY <1>1 DEF FileInv, OrderInv, AckedIsWritten
  <1>4. CalmInv'
    BY <1>1, Constants DEF CalmInv, IsWritten
  <1> QED
    BY <1>2, <1>3, <1>4

\* rotate closes the stream.
LEMMA RotateCloseStep ==
    ASSUME IInv, RotateClose
    PROVE  IInv'
  <1> USE DEF IInv
  <1>1. /\ pc = "close" /\ pc' = "rename" /\ stream' = Closed
        /\ good' = (good /\ stream # Closed)
        /\ UNCHANGED <<live, rotated, missing, path_, seq_counter_, appends, written, acked, calm,
                       trusted, faults, replayed, crashes>>
    BY DEF RotateClose, files, history
  <1>2. good' \in BOOLEAN
    BY <1>1
  <1>3. TypeOK'
    BY <1>1, <1>2 DEF TypeOK
  <1>4. FileInv'
    BY <1>1, Constants DEF FileInv, TypeOK
  <1>5. OrderInv' /\ AckedIsWritten'
    BY <1>1 DEF OrderInv, AckedIsWritten
  <1>6. CalmInv'
    BY <1>1, Constants DEF CalmInv, IsWritten
  <1> QED
    BY <1>3, <1>4, <1>5, <1>6

\* rotate renames the file, or throws.
LEMMA RotateRenameStep ==
    ASSUME IInv, RotateRename
    PROVE  IInv'
  <1> USE DEF IInv
  <1>1. /\ pc = "rename"
        /\ UNCHANGED <<path_, stream, good, seq_counter_, appends, written, acked, trusted,
                       replayed, crashes>>
    BY DEF RotateRename, handle
  <1>2. CASE /\ rotated' = [rotated EXCEPT ![path_] = live[path_]]
             /\ live' = [live EXCEPT ![path_] = <<>>]
             /\ missing' = missing \cup {path_}
             /\ pc' = "open"
             /\ UNCHANGED <<calm, faults>>
    <2>1. /\ live' \in [Paths -> Seq(Lines)] /\ rotated' \in [Paths -> Seq(Lines)]
          /\ missing' \in SUBSET Paths /\ live'[path_] = <<>>
          /\ \A p \in Paths : p # path_ => live'[p] = live[p]
      BY <1>2, EmptySeq DEF TypeOK
    <2>2. TypeOK'
      BY <1>1, <1>2, <2>1 DEF TypeOK
    <2>3. FileInv'
      BY <1>1, <1>2, <2>1, Constants DEF FileInv, TypeOK
    <2>4. OrderInv' /\ AckedIsWritten'
      BY <1>1, <1>2 DEF OrderInv, AckedIsWritten
    <2>5. CalmInv'
      BY <1>1, <1>2 DEF CalmInv, IsWritten
    <2> QED
      BY <2>2, <2>3, <2>4, <2>5
  <1>3. CASE Fault("rename") /\ calm' = FALSE /\ pc' = "idle" /\ UNCHANGED files
    <2>1. faults' \in 0..MaxFaults
      BY <1>3, Constants DEF Fault, TypeOK
    <2>2. TypeOK'
      BY <1>1, <1>3, <2>1 DEF TypeOK, files
    <2>3. FileInv' /\ OrderInv' /\ AckedIsWritten' /\ CalmInv'
      BY <1>1, <1>3 DEF FileInv, OrderInv, AckedIsWritten, CalmInv, files
    <2> QED
      BY <2>2, <2>3
  <1> QED
    BY <1>2, <1>3 DEF RotateRename

\* rotate opens a new log, or throws.
LEMMA RotateOpenStep ==
    ASSUME IInv, RotateOpen
    PROVE  IInv'
  <1> USE DEF IInv
  <1>1. /\ pc = "open" /\ stream = Closed
        /\ UNCHANGED <<live, rotated, path_, seq_counter_, appends, written, acked, calm, trusted,
                       replayed, crashes>>
    BY DEF RotateOpen, OpenLog, OpenFails, history, FileInv
  <1>2. CASE OpenLog(path_) /\ pc' = "notify" /\ UNCHANGED faults
    <2>1. good' = TRUE /\ stream' = path_ /\ missing' = missing \ {path_}
      BY <1>2 DEF OpenLog
    <2>2. TypeOK'
      BY <1>1, <1>2, <2>1 DEF TypeOK
    <2>3. FileInv' /\ OrderInv' /\ AckedIsWritten'
      BY <1>1, <1>2, <2>1 DEF FileInv, OrderInv, AckedIsWritten
    <2>4. CalmInv'
      BY <1>1, <1>2, <2>1 DEF CalmInv, IsWritten
    <2> QED
      BY <2>2, <2>3, <2>4
  <1>3. CASE Fault("open") /\ OpenFails /\ pc' = "idle"
    <2>1. faults' \in 0..MaxFaults
      BY <1>3, Constants DEF Fault, TypeOK
    <2>2. good' = FALSE /\ UNCHANGED <<missing, stream>>
      BY <1>3 DEF OpenFails
    <2>3. TypeOK'
      BY <1>1, <1>3, <2>1, <2>2 DEF TypeOK
    <2>4. FileInv' /\ OrderInv' /\ AckedIsWritten'
      BY <1>1, <1>3, <2>2 DEF FileInv, OrderInv, AckedIsWritten
    <2>5. CalmInv'
      BY <1>1, <1>3, <2>2 DEF CalmInv
    <2> QED
      BY <2>3, <2>4, <2>5
  <1> QED
    BY <1>2, <1>3 DEF RotateOpen

\* append returns: a calm process has written the line.
LEMMA AppendReturnStep ==
    ASSUME IInv, AppendReturn
    PROVE  IInv'
  <1> USE DEF IInv
  <1>1. /\ pc = "notify" /\ pc' = "idle"
        /\ acked' = acked \cup {appends}
        /\ trusted' = IF calm THEN trusted \cup {appends} ELSE trusted
        /\ UNCHANGED <<live, rotated, missing, path_, stream, good, seq_counter_, appends, written,
                       calm, faults, replayed, crashes>>
    BY DEF AppendReturn, files, handle
  <1>2. acked' \in SUBSET Entries /\ trusted' \in SUBSET acked'
    BY <1>1, CurrentFacts DEF TypeOK
  <1>3. TypeOK'
    BY <1>1, <1>2 DEF TypeOK
  <1>4. FileInv' /\ OrderInv'
    BY <1>1 DEF FileInv, OrderInv
  <1>5. CalmInv'
    BY <1>1 DEF CalmInv
  <1>6. AckedIsWritten'
    BY <1>1 DEF AckedIsWritten, CalmInv, IsWritten, Whole
  <1> QED
    BY <1>3, <1>4, <1>5, <1>6

\* set_path: the process is no longer calm.
LEMMA SetPathStep ==
    ASSUME IInv, NEW p \in Paths, SetPath(p)
    PROVE  IInv'
  <1> USE DEF IInv
  <1>1. /\ pc = "idle" /\ pc' = pc /\ calm' = FALSE /\ path_' = p
        /\ good' \in BOOLEAN /\ stream' \in Paths \cup {Closed}
        /\ missing' \in SUBSET Paths /\ missing' \subseteq missing /\ stream' \notin missing'
        /\ UNCHANGED <<live, rotated, seq_counter_, appends, written, acked, trusted, replayed,
                       crashes>>
    <2>1. /\ pc = "idle" /\ pc' = pc /\ calm' = FALSE /\ path_' = p
          /\ UNCHANGED <<live, rotated, seq_counter_, appends, written, acked, trusted, replayed,
                         crashes>>
      BY DEF SetPath, OpenLog, OpenFails
    <2>2. \/ good' = TRUE /\ stream' = p /\ missing' = missing \ {p}
          \/ good' = FALSE /\ UNCHANGED <<missing, stream>>
      BY DEF SetPath, OpenLog, OpenFails
    <2>3. good' \in BOOLEAN
      BY <2>2
    <2>4. /\ stream' \in Paths \cup {Closed} /\ missing' \in SUBSET Paths
          /\ missing' \subseteq missing /\ stream' \notin missing'
      BY <2>2 DEF TypeOK, FileInv
    <2> QED
      BY <2>1, <2>3, <2>4
  <1>2. faults' \in 0..MaxFaults
    BY Constants DEF SetPath, Fault, TypeOK
  <1>3. TypeOK'
    BY <1>1, <1>2 DEF TypeOK
  <1>4. FileInv' /\ OrderInv' /\ AckedIsWritten' /\ CalmInv'
    BY <1>1 DEF FileInv, OrderInv, AckedIsWritten, CalmInv
  <1> QED
    BY <1>3, <1>4

\* replay reads the file and returns: the log stays as it is.
LEMMA ReplayStep ==
    ASSUME IInv, Replay \/ ReplayReturn
    PROVE  IInv'
  <1> USE DEF IInv
  <1> DEFINE Read == [entry : Entries, intact : BOOLEAN]
  <1>1. /\ pc \in {"idle", "replay"} /\ pc' \in {"idle", "replay"}
        /\ UNCHANGED <<live, rotated, missing, path_, stream, good, seq_counter_, appends, written,
                       acked, calm, trusted, faults, crashes>>
    BY DEF Replay, ReplayReturn, files, handle, history
  <1>2. replayed' \in Seq(Read)
    <2>1. CASE Replay
      <3> DEFINE file == live[path_]
      <3>1. file \in Seq(Lines) /\ Len(file) \in Nat /\ DOMAIN file = 1..Len(file)
            /\ \A i \in DOMAIN file : file[i] \in Lines
        BY LenProperties, ElementOfSeq DEF TypeOK
      <3>2. replayed' = [i \in 1..Len(file) |->
                            [entry |-> file[i].entry, intact |-> Parses(file, i)]]
        BY <2>1, <3>1 DEF Replay, ReplaySource
      <3> HIDE DEF file
      <3>3. \A i \in 1..Len(file) : /\ file[i].entry \in Entries
                                    /\ Parses(file, i) \in BOOLEAN
        <4>1. \A i \in 1..Len(file) : file[i].entry \in Entries
          BY <3>1 DEF Lines
        <4>2. \A i \in 1..Len(file) : Parses(file, i) \in BOOLEAN
          <5> TAKE i \in 1..Len(file)
          <5>1. file[i].whole \in BOOLEAN
            BY <3>1 DEF Lines
          <5> QED
            BY <5>1 DEF Parses
        <4> QED
          BY <4>1, <4>2
      <3>4. replayed' \in [1..Len(file) -> Read]
        BY <3>2, <3>3
      <3> QED
        <4> HIDE DEF Read
        <4> QED
          BY <3>1, <3>4, SeqDef
    <2>2. CASE ReplayReturn
      BY <2>2 DEF ReplayReturn
    <2> QED
      BY <2>1, <2>2
  <1>3. TypeOK'
    BY <1>1, <1>2 DEF TypeOK
  <1>4. FileInv' /\ OrderInv' /\ AckedIsWritten'
    BY <1>1 DEF FileInv, OrderInv, AckedIsWritten
  <1>5. CalmInv'
    BY <1>1 DEF CalmInv
  <1> QED
    BY <1>3, <1>4, <1>5

\* The process dies, perhaps in the middle of a line; the files stay.
LEMMA CrashStep ==
    ASSUME IInv, Crash
    PROVE  IInv'
  <1> USE DEF IInv
  <1>1. /\ pc' = "down" /\ stream' = Closed /\ good' = FALSE /\ crashes' = crashes + 1
        /\ crashes < MaxCrashes
        /\ UNCHANGED <<rotated, missing, path_, seq_counter_, appends, acked, calm, trusted,
                       faults, replayed>>
    BY DEF Crash
  <1>2. crashes' \in 0..MaxCrashes /\ good' \in BOOLEAN
    <2>1. crashes' \in 0..MaxCrashes
      BY <1>1, Constants DEF TypeOK
    <2> QED
      BY <1>1, <2>1
  <1>3. Closed \notin missing
    BY Constants DEF TypeOK
  <1>4. CASE UNCHANGED <<live, written>>
    <2>1. TypeOK'
      BY <1>1, <1>2, <1>4 DEF TypeOK
    <2>2. FileInv' /\ OrderInv' /\ AckedIsWritten' /\ CalmInv'
      BY <1>1, <1>3, <1>4 DEF FileInv, OrderInv, AckedIsWritten, CalmInv
    <2> QED
      BY <2>1, <2>2
  <1>5. CASE pc = "write" /\ good /\ stream # Closed /\ Write(Torn(appends))
    <2>1. Torn(appends) \in Lines /\ Torn(appends).entry = appends
      BY <1>5, CurrentFacts DEF Torn, Lines
    <2>2. /\ live' \in [Paths -> Seq(Lines)] /\ written' \in Seq(Lines) /\ stream \in Paths
          /\ \A p \in Paths : p # stream => live'[p] = live[p]
      BY <1>5, <2>1, WriteFacts
    <2>3. /\ \A i \in DOMAIN written' : written'[i].entry <= appends
          /\ \A i, j \in DOMAIN written' : i < j => written'[i].entry < written'[j].entry
          /\ \A n : IsWritten(n) => \E i \in DOMAIN written' : written'[i] = Whole(n)
      BY <1>5, <2>1, WriteOrder
    <2>4. TypeOK'
      BY <1>1, <1>2, <2>2 DEF TypeOK
    <2>5. FileInv'
      BY <1>1, <1>3, <2>2 DEF FileInv, TypeOK
    <2>6. OrderInv' /\ CalmInv'
      BY <1>1, <2>3 DEF OrderInv, CalmInv
    <2>7. AckedIsWritten'
      BY <1>1, <2>3 DEF AckedIsWritten, IsWritten, Whole
    <2> QED
      BY <2>4, <2>5, <2>6, <2>7
  <1> QED
    BY <1>4, <1>5 DEF Crash

\* The next process opens the log: calm again, with a file that is there.
LEMMA RestartStep ==
    ASSUME IInv, Restart
    PROVE  IInv'
  <1> USE DEF IInv
  <1>1. /\ pc' = "idle" /\ path_' = InitialPath /\ stream' = InitialPath /\ good' = TRUE
        /\ missing' = missing \ {InitialPath} /\ seq_counter_' = 0 /\ replayed' = <<>>
        /\ calm' = TRUE
        /\ UNCHANGED <<live, rotated, appends, written, acked, trusted, faults, crashes>>
    BY DEF Restart, OpenLog
  <1>2. TypeOK'
    <2>1. seq_counter_' \in 0..appends
      BY <1>1, Constants DEF TypeOK
    <2>2. replayed' \in Seq([entry : Entries, intact : BOOLEAN])
      BY <1>1
    <2> QED
      BY <1>1, <2>1, <2>2, Constants DEF TypeOK
  <1>3. FileInv' /\ OrderInv' /\ AckedIsWritten' /\ CalmInv'
    BY <1>1 DEF FileInv, OrderInv, AckedIsWritten, CalmInv
  <1> QED
    BY <1>2, <1>3

\* Every step of the log and every crash preserves the invariant.
LEMMA NextIInv == IInv /\ [Next]_vars => IInv'
  <1> SUFFICES ASSUME IInv, [Next]_vars PROVE IInv'
    OBVIOUS
  <1>1. CASE Next
    BY <1>1, AppendCallStep, AppendWriteStep, AppendSizeStep, RotateCloseStep, RotateRenameStep,
       RotateOpenStep, AppendReturnStep, SetPathStep, ReplayStep, CrashStep, RestartStep
       DEF Next
  <1>2. CASE UNCHANGED vars
    BY <1>2 DEF vars, IInv, TypeOK, FileInv, OrderInv, CalmInv, IsWritten, AckedIsWritten
  <1> QED
    BY <1>1, <1>2

\* Every reachable state of the log satisfies the inductive invariant.
THEOREM Inductive == Spec => []IInv
  BY InitIInv, NextIInv, PTL DEF Spec

\* An append that returned in a process without a failed rename or a set_path has its whole
\* line in a file, at any path, whatever crashed and whichever open failed.
THEOREM AckedWritten == Spec => []AckedIsWritten
  BY Inductive, PTL DEF IInv

-----------------------------------------------------------------------------
(* One path: what the two files hold. *)

\* The live file is the end of whatever the two files together are the end of.
LEMMA EndsRight ==
    ASSUME NEW r \in Seq(Lines), NEW l \in Seq(Lines), NEW w \in Seq(Lines), Ends(r \o l, w)
    PROVE  Ends(l, w) /\ Len(l) <= Len(r \o l)
  <1>1. /\ Len(r) \in Nat /\ Len(l) \in Nat /\ Len(w) \in Nat
        /\ Len(r \o l) = Len(r) + Len(l)
        /\ \A i \in 1..(Len(r) + Len(l)) :
               (r \o l)[i] = IF i <= Len(r) THEN r[i] ELSE l[i - Len(r)]
    BY LenProperties, ConcatProperties
  <1>2. ASSUME NEW i \in 1..Len(l) PROVE l[i] = w[Len(w) - Len(l) + i]
    <2>1. /\ Len(r) + i \in 1..(Len(r) + Len(l)) /\ ~(Len(r) + i <= Len(r))
          /\ (Len(r) + i) - Len(r) = i
          /\ Len(w) - (Len(r) + Len(l)) + (Len(r) + i) = Len(w) - Len(l) + i
      BY <1>1
    <2>2. (r \o l)[Len(r) + i] = l[i]
      BY <1>1, <2>1
    <2>3. (r \o l)[Len(r) + i] = w[Len(w) - (Len(r) + Len(l)) + (Len(r) + i)]
      BY <1>1, <2>1 DEF Ends
    <2> QED
      BY <2>1, <2>2, <2>3
  <1>3. Len(l) <= Len(w) /\ Len(l) <= Len(r \o l)
    BY <1>1 DEF Ends
  <1> QED
    BY <1>2, <1>3 DEF Ends

\* A line that is written to the live file and counted as written keeps the files the end of
\* what was written.
LEMMA EndsAppend ==
    ASSUME NEW r \in Seq(Lines), NEW l \in Seq(Lines), NEW w \in Seq(Lines), NEW x \in Lines,
           Ends(r \o l, w)
    PROVE  /\ Ends(r \o Append(l, x), Append(w, x))
           /\ Len(r \o l) \in Nat /\ Len(r \o Append(l, x)) = Len(r \o l) + 1
  <1>1. /\ Len(r) \in Nat /\ Len(l) \in Nat /\ Len(w) \in Nat
        /\ Len(r \o l) = Len(r) + Len(l)
        /\ \A i \in 1..(Len(r) + Len(l)) :
               (r \o l)[i] = IF i <= Len(r) THEN r[i] ELSE l[i - Len(r)]
    BY LenProperties, ConcatProperties
  <1>2. /\ Append(l, x) \in Seq(Lines) /\ Len(Append(l, x)) = Len(l) + 1
        /\ \A i \in 1..Len(l) : Append(l, x)[i] = l[i]
        /\ Append(l, x)[Len(l) + 1] = x
        /\ Len(Append(w, x)) = Len(w) + 1
        /\ \A i \in 1..Len(w) : Append(w, x)[i] = w[i]
        /\ Append(w, x)[Len(w) + 1] = x
    BY AppendProperties
  <1> DEFINE a == r \o Append(l, x)
             n == Len(r) + Len(l)
  <1>3. /\ Len(a) = n + 1
        /\ \A i \in 1..(n + 1) :
               a[i] = IF i <= Len(r) THEN r[i] ELSE Append(l, x)[i - Len(r)]
    <2>1. /\ Len(a) = Len(r) + Len(Append(l, x))
          /\ \A i \in 1..(Len(r) + Len(Append(l, x))) :
                 a[i] = IF i <= Len(r) THEN r[i] ELSE Append(l, x)[i - Len(r)]
      BY <1>2, ConcatProperties
    <2>2. Len(r) + Len(Append(l, x)) = n + 1
      BY <1>1, <1>2
    <2> QED
      BY <2>1, <2>2
  <1> HIDE DEF a
  <1>4. \A i \in 1..n : a[i] = (r \o l)[i]
    BY <1>1, <1>2, <1>3
  <1>5. a[n + 1] = x
    BY <1>1, <1>2, <1>3
  <1>6. n <= Len(w) /\ \A i \in 1..n : (r \o l)[i] = w[Len(w) - n + i]
    BY <1>1 DEF Ends
  <1>7. ASSUME NEW i \in 1..(n + 1)
        PROVE  a[i] = Append(w, x)[(Len(w) + 1) - (n + 1) + i]
    <2>1. CASE i \in 1..n
      <3>1. (Len(w) + 1) - (n + 1) + i = Len(w) - n + i /\ Len(w) - n + i \in 1..Len(w)
        BY <1>1, <1>6, <2>1
      <3> QED
        BY <1>2, <1>4, <1>6, <2>1, <3>1
    <2>2. CASE i = n + 1
      <3>1. (Len(w) + 1) - (n + 1) + i = Len(w) + 1
        BY <1>1, <2>2
      <3> QED
        BY <1>2, <1>5, <2>2, <3>1
    <2>3. i \in 1..n \/ i = n + 1
      BY <1>1
    <2> QED
      BY <2>1, <2>2, <2>3
  <1>8. Ends(a, Append(w, x))
    <2>1. n + 1 <= Len(w) + 1
      BY <1>1, <1>6
    <2> QED
      BY <1>2, <1>3, <1>7, <2>1 DEF Ends
  <1> QED
    BY <1>1, <1>3, <1>8 DEF a

\* The types of the two files at the initial path.
LEMMA KeptFacts ==
    ASSUME TypeOK
    PROVE  /\ rotated[InitialPath] \in Seq(Lines) /\ live[InitialPath] \in Seq(Lines)
           /\ Len(live[InitialPath]) \in Nat /\ Len(Kept) \in Nat /\ Len(written) \in Nat
           /\ crashes \in Nat /\ faults \in Nat
  <1>1. rotated[InitialPath] \in Seq(Lines) /\ live[InitialPath] \in Seq(Lines)
    BY Constants DEF TypeOK
  <1>2. Kept \in Seq(Lines)
    BY <1>1, ConcatProperties DEF Kept
  <1>3. /\ Len(live[InitialPath]) \in Nat /\ Len(Kept) \in Nat /\ Len(written) \in Nat
    BY <1>1, <1>2, LenProperties, SeqFacts
  <1>4. crashes \in Nat /\ faults \in Nat
    BY Constants DEF TypeOK
  <1> QED
    BY <1>1, <1>3, <1>4

\* The log of the first process: both files are empty.
LEMMA InitOnePath == Init => OnePathInv
  <1> SUFFICES ASSUME Init PROVE OnePathInv
    OBVIOUS
  <1>1. live[InitialPath] = <<>> /\ Kept = <<>> /\ written = <<>>
    BY Constants, ConcatEmptySeq, EmptySeq DEF Init, Kept
  <1>2. SuffixInv
    BY <1>1, Constants DEF SuffixInv, Ends
  <1>3. PathInv /\ BoundInv /\ ReplayGapless
    BY <1>1, Constants DEF Init, PathInv, BoundInv, ReplayGapless
  <1> QED
    BY <1>2, <1>3 DEF OnePathInv

\* The path and the stream never leave the initial path.
LEMMA PathStep ==
    ASSUME OnePath, PathInv, Next
    PROVE  PathInv'
  <1> USE DEF PathInv, handle
  <1>1. CASE \E p \in Paths : SetPath(p)
    <2>1. PICK p \in Paths : SetPath(p)
      BY <1>1
    <2>2. p = InitialPath
      BY <2>1 DEF SetPath, Fault, OnePath
    <2> QED
      BY <2>1, <2>2 DEF SetPath, OpenLog, OpenFails
  <1>2. CASE ~\E p \in Paths : SetPath(p)
    BY <1>2 DEF Next, AppendCall, AppendWrite, AppendSize, RotateClose, RotateRename, RotateOpen,
                AppendReturn, Replay, ReplayReturn, Crash, Restart, OpenLog, OpenFails
  <1> QED
    BY <1>1, <1>2

\* The files change in two ways: a line is written, or the log is rotated.
LEMMA FileCases ==
    ASSUME IInv, PathInv, Next
    PROVE  \/ UNCHANGED <<live, rotated, written>>
           \/ /\ pc = "write" /\ UNCHANGED rotated
              /\ \E line \in Lines : stream = InitialPath /\ stream # Closed /\ Write(line)
           \/ /\ pc = "rename" /\ UNCHANGED written
              /\ rotated' = [rotated EXCEPT ![InitialPath] = live[InitialPath]]
              /\ live' = [live EXCEPT ![InitialPath] = <<>>]
  <1> USE DEF files, history
  <1>1. CASE AppendWrite
    <2>1. pc = "write" /\ UNCHANGED rotated
      BY <1>1 DEF AppendWrite
    <2>2. Whole(appends) \in Lines
      BY <2>1, CurrentFacts DEF Whole, Lines
    <2> QED
      BY <1>1, <2>1, <2>2 DEF AppendWrite, PathInv
  <1>2. CASE Crash
    <2>1. ASSUME pc = "write" PROVE Torn(appends) \in Lines
      BY <2>1, CurrentFacts DEF Torn, Lines
    <2> QED
      BY <1>2, <2>1 DEF Crash, PathInv
  <1>3. CASE RotateRename
    BY <1>3 DEF RotateRename, PathInv
  <1>4. CASE ~(AppendWrite \/ Crash \/ RotateRename)
    BY <1>4 DEF Next, AppendCall, AppendSize, RotateClose, RotateOpen, AppendReturn, SetPath,
                Replay, ReplayReturn, Restart, OpenLog, OpenFails
  <1> QED
    BY <1>1, <1>2, <1>3, <1>4

\* The two files stay the latest lines written: a rotation drops the older file only when the
\* other one is full.
LEMMA SuffixStep ==
    ASSUME IInv, PathInv, SuffixInv, Next
    PROVE  SuffixInv'
  <1> DEFINE r == rotated[InitialPath]
             l == live[InitialPath]
  <1>1. /\ r \in Seq(Lines) /\ l \in Seq(Lines) /\ written \in Seq(Lines)
        /\ Len(l) \in Nat /\ Len(Kept) \in Nat /\ Len(written) \in Nat
        /\ Ends(r \o l, written) /\ Kept = r \o l
        /\ Len(r \o l) >= MaxEntries \/ Len(r \o l) = Len(written)
    BY KeptFacts, SeqFacts DEF IInv, SuffixInv, Kept
  <1>2. CASE UNCHANGED <<live, rotated, written>>
    BY <1>2 DEF SuffixInv, Ends, Kept
  <1>3. ASSUME UNCHANGED rotated, NEW line \in Lines, stream = InitialPath, stream # Closed,
               Write(line)
        PROVE  SuffixInv'
    <2>1. live'[InitialPath] = Append(l, line) /\ written' = Append(written, line)
          /\ Len(written') = Len(written) + 1
      BY <1>3, WriteFacts DEF IInv, Write
    <2>2. Kept' = r \o Append(l, line)
      BY <1>3, <2>1 DEF Kept
    <2> HIDE DEF r, l
    <2>3. /\ Ends(r \o Append(l, line), Append(written, line))
          /\ Len(r \o l) \in Nat /\ Len(r \o Append(l, line)) = Len(r \o l) + 1
      BY <1>1, EndsAppend
    <2>4. Ends(Kept', written') /\ Len(Kept') = Len(r \o l) + 1
      BY <2>1, <2>2, <2>3
    <2>5. Len(Kept') >= MaxEntries \/ Len(Kept') = Len(written')
      BY <1>1, <2>1, <2>3, <2>4, Constants
    <2> QED
      BY <2>4, <2>5 DEF SuffixInv, Ends
  <1>4. CASE /\ pc = "rename" /\ UNCHANGED written
             /\ rotated' = [rotated EXCEPT ![InitialPath] = live[InitialPath]]
             /\ live' = [live EXCEPT ![InitialPath] = <<>>]
    <2>1. rotated'[InitialPath] = l /\ live'[InitialPath] = <<>>
      BY <1>4, Constants DEF IInv, TypeOK
    <2>2. Kept' = l
      BY <1>1, <2>1, ConcatEmptySeq DEF Kept
    <2>3. Ends(l, written)
      BY <1>1, EndsRight
    <2>4. Len(l) >= MaxEntries
      BY <1>4 DEF IInv, FileInv, PathInv
    <2> QED
      BY <1>4, <2>2, <2>3, <2>4 DEF SuffixInv, Ends
  <1> QED
    BY <1>2, <1>3, <1>4, FileCases

\* append lets the live file grow past the limit by one line per crash and per fault at most.
LEMMA BoundStep ==
    ASSUME IInv, PathInv, BoundInv, Next
    PROVE  BoundInv'
  <1> DEFINE n == Len(live[InitialPath])
  <1> USE DEF files, handle, history
  <1>1. /\ n \in Nat /\ crashes \in Nat /\ faults \in Nat /\ MaxEntries \in Nat \ {0}
        /\ path_ = InitialPath
    BY KeptFacts, Constants DEF IInv, PathInv
  <1>2. /\ n <= MaxEntries + crashes + faults
        /\ pc \notin {"size", "close", "rename"} => n < MaxEntries + crashes + faults
    BY DEF BoundInv
  <1>3. ASSUME NEW line \in Lines, stream = InitialPath, stream # Closed, Write(line)
        PROVE  Len(live'[InitialPath]) = n + 1
    BY <1>3, WriteFacts DEF IInv
  <1> DEFINE m == Len(live'[InitialPath])
             Bound == /\ m <= MaxEntries + crashes' + faults'
                      /\ pc' \notin {"size", "close", "rename"} =>
                             m < MaxEntries + crashes' + faults'
  <1> SUFFICES Bound
    BY DEF BoundInv
  <1>4. CASE AppendWrite
    <2>1. pc = "write" /\ pc' = "size" /\ UNCHANGED <<crashes, faults>>
      BY <1>4 DEF AppendWrite
    <2>2. m = n \/ m = n + 1
      <3>1. Whole(appends) \in Lines
        BY <2>1, CurrentFacts DEF Whole, Lines
      <3> QED
        BY <1>3, <1>4, <3>1 DEF AppendWrite, PathInv
    <2> QED
      BY <1>1, <1>2, <2>1, <2>2
  <1>5. CASE AppendSize
    <2>1. pc = "size" /\ m = n /\ UNCHANGED <<crashes, faults>>
      BY <1>5 DEF AppendSize
    <2>2. CASE path_ \in missing /\ pc' = "idle"
      <3>1. n = 0
        BY <1>1, <2>2, EmptySeq DEF IInv, FileInv
      <3> QED
        BY <1>1, <2>1, <2>2, <3>1
    <2>3. CASE pc' = IF Len(live[path_]) >= MaxEntries THEN "close" ELSE "notify"
      BY <1>1, <1>2, <2>1, <2>3
    <2> QED
      BY <1>5, <2>2, <2>3 DEF AppendSize
  <1>6. CASE RotateRename
    <2>1. pc = "rename" /\ UNCHANGED crashes
      BY <1>6 DEF RotateRename
    <2>2. CASE live' = [live EXCEPT ![path_] = <<>>] /\ pc' = "open" /\ UNCHANGED faults
      <3>1. live'[InitialPath] = <<>>
        BY <1>1, <2>2, Constants DEF IInv, TypeOK
      <3>2. m = 0
        BY <3>1, EmptySeq
      <3> QED
        BY <1>1, <2>1, <2>2, <3>2
    <2>3. CASE Fault("rename") /\ pc' = "idle" /\ UNCHANGED files
      BY <1>1, <1>2, <2>1, <2>3 DEF Fault
    <2> QED
      BY <1>6, <2>2, <2>3 DEF RotateRename
  <1>7. CASE Crash
    <2>1. pc' = "down" /\ crashes' = crashes + 1 /\ UNCHANGED faults
      BY <1>7 DEF Crash
    <2>2. m = n \/ (pc = "write" /\ m = n + 1)
      <3>1. ASSUME pc = "write" PROVE Torn(appends) \in Lines
        BY <3>1, CurrentFacts DEF Torn, Lines
      <3> QED
        BY <1>3, <1>7, <3>1 DEF Crash, PathInv
    <2> QED
      BY <1>1, <1>2, <2>1, <2>2
  <1>8. CASE RotateClose
    BY <1>1, <1>2, <1>8 DEF RotateClose
  <1>9. CASE \E p \in Paths : SetPath(p)
    BY <1>1, <1>2, <1>9 DEF SetPath, Fault, OpenLog, OpenFails
  <1>10. CASE RotateOpen
    BY <1>1, <1>2, <1>10 DEF RotateOpen, Fault, OpenLog, OpenFails
  <1>11. CASE AppendCall \/ AppendReturn \/ Replay \/ ReplayReturn \/ Restart
    BY <1>1, <1>2, <1>11 DEF AppendCall, AppendReturn, Replay, ReplayReturn, Restart, OpenLog
  <1> QED
    BY <1>4, <1>5, <1>6, <1>7, <1>8, <1>9, <1>10, <1>11 DEF Next

\* What replay misses was rotated away, and is older, or stands behind a torn line.
LEMMA ReplayGap ==
    ASSUME IInv, PathInv, SuffixInv, Replay
    PROVE  ReplayGapless'
  <1> DEFINE file == live[InitialPath]
             d == Len(written) - Len(file)
  <1>1. /\ file \in Seq(Lines) /\ Len(file) \in Nat /\ DOMAIN file = 1..Len(file)
        /\ Len(written) \in Nat /\ DOMAIN written = 1..Len(written)
        /\ \A i \in DOMAIN written : written[i].entry \in Nat
    BY KeptFacts, SeqFacts, LenProperties, Constants DEF IInv
  <1>2. /\ replayed' = [i \in 1..Len(file) |->
                            [entry |-> file[i].entry, intact |-> Parses(file, i)]]
        /\ UNCHANGED <<written, trusted>>
    BY <1>1 DEF Replay, ReplaySource, PathInv, history
  <1>3. d \in 0..Len(written) /\ \A i \in 1..Len(file) : file[i] = written[d + i]
    <2>1. Ends(file, written)
      BY KeptFacts, SeqFacts, EndsRight DEF IInv, SuffixInv, Kept
    <2>2. Len(file) <= Len(written) /\ \A i \in 1..Len(file) : file[i] = written[d + i]
      BY <2>1 DEF Ends
    <2>3. d \in 0..Len(written)
      <3> HIDE DEF file
      <3> QED
        BY <1>1, <2>2
    <2> QED
      BY <2>2, <2>3
  <1> HIDE DEF file, d
  <1> SUFFICES ASSUME NEW n \in trusted
               PROVE  n \in Delivered' \/ Glued(n)' \/ \A m \in Delivered' : n < m
    BY <1>2 DEF ReplayGapless, Delivered, Glued
  <1>4. n \in Entries
    BY DEF IInv, TypeOK
  <1>5. PICK i \in 1..Len(written) : written[i] = [entry |-> n, whole |-> TRUE]
    BY <1>1 DEF IInv, AckedIsWritten, Whole
  <1>6. CASE i > d
    <2> DEFINE p == i - d
    <2>1. p \in 1..Len(file) /\ d + p = i
      BY <1>1, <1>3, <1>6 DEF d
    <2>2. file[p] = [entry |-> n, whole |-> TRUE]
      BY <1>3, <1>5, <2>1
    <2> HIDE DEF p
    <2>3. CASE p = 1 \/ file[p - 1].whole
      <3>1. Parses(file, p) = TRUE
        BY <2>2, <2>3 DEF Parses
      <3>2. replayed'[p] = [entry |-> n, intact |-> TRUE] /\ p \in DOMAIN replayed'
        <4>1. /\ p \in DOMAIN replayed'
              /\ replayed'[p] = [entry |-> file[p].entry, intact |-> Parses(file, p)]
          BY <1>2, <2>1
        <4> QED
          BY <2>2, <3>1, <4>1
      <3> QED
        BY <1>4, <3>2 DEF Delivered
    <2>4. CASE p # 1 /\ ~file[p - 1].whole
      <3>1. p - 1 \in 1..Len(file) /\ i > 1 /\ d + (p - 1) = i - 1
        <4>1. d \in Nat
          BY <1>1, <1>3
        <4>2. p \in Nat /\ p > 1 /\ p <= Len(file)
          BY <1>1, <2>1, <2>4
        <4> QED
          BY <1>1, <2>1, <4>1, <4>2
      <3>2. file[p - 1] = written[i - 1]
        BY <1>3, <3>1
      <3>3. i \in DOMAIN written /\ written[i].entry = n /\ ~written[i - 1].whole
        BY <1>1, <1>5, <2>4, <3>2
      <3> QED
        BY <1>2, <3>1, <3>3 DEF Glued
    <2> QED
      BY <2>3, <2>4
  <1>7. CASE ~(i > d)
    <2>1. ASSUME NEW m \in Delivered' PROVE n < m
      <3>1. PICK q \in 1..Len(file) : replayed'[q] = [entry |-> m, intact |-> TRUE]
        BY <1>2 DEF Delivered
      <3>2. m = file[q].entry
        BY <1>2, <3>1
      <3>3. i \in DOMAIN written /\ d + q \in DOMAIN written /\ i < d + q
        BY <1>1, <1>3, <1>7 DEF d
      <3>4. written[i].entry < written[d + q].entry
        BY <3>3 DEF IInv, OrderInv
      <3> QED
        BY <1>3, <1>5, <3>2, <3>4
    <2> QED
      BY <2>1
  <1> QED
    BY <1>6, <1>7

\* Every step of a log that stays at its path preserves what its files hold.
LEMMA NextOnePath ==
    ASSUME OnePath
    PROVE  IInv /\ OnePathInv /\ [Next]_vars => OnePathInv'
  <1> SUFFICES ASSUME IInv, OnePathInv, [Next]_vars PROVE OnePathInv'
    OBVIOUS
  <1> USE DEF OnePathInv
  <1>1. CASE Next
    <2>1. PathInv' /\ SuffixInv' /\ BoundInv'
      BY <1>1, PathStep, SuffixStep, BoundStep
    <2>2. CASE Replay
      BY <2>1, <2>2, ReplayGap
    <2>3. CASE ~Replay
      <3>1. pc' # "replay"
        BY <1>1, <2>3 DEF Next, AppendCall, AppendWrite, AppendSize, RotateClose, RotateRename,
                          RotateOpen, AppendReturn, SetPath, ReplayReturn, Crash, Restart
      <3> QED
        BY <2>1, <3>1 DEF ReplayGapless
    <2> QED
      BY <2>2, <2>3
  <1>2. CASE UNCHANGED vars
    BY <1>2 DEF vars, PathInv, SuffixInv, Ends, Kept, BoundInv, ReplayGapless, Delivered, Glued
  <1> QED
    BY <1>1, <1>2

\* Every reachable state of a log that stays at its path satisfies the stronger invariant.
THEOREM InductiveOnePath ==
    ASSUME OnePath
    PROVE  Spec => [](IInv /\ OnePathInv)
  <1>1. Init => IInv /\ OnePathInv
    BY InitIInv, InitOnePath
  <1>2. IInv /\ OnePathInv /\ [Next]_vars => (IInv /\ OnePathInv)'
    BY NextIInv, NextOnePath
  <1> QED
    BY <1>1, <1>2, PTL DEF Spec

\* A crash or a failed open anywhere in a rotation loses nothing recent, and the live file
\* stays bounded, for a log that is not moved by set_path.
THEOREM Recent ==
    ASSUME OnePath
    PROVE  Spec => []RecentKept
  <1>1. ASSUME IInv, OnePathInv PROVE RecentKept
    BY <1>1 DEF OnePathInv, SuffixInv, Ends, BoundInv, RecentKept, LiveBounded
  <1> QED
    BY <1>1, InductiveOnePath, PTL

\* What replay misses of a log that is not moved by set_path is older than all it delivers,
\* or ran into a line torn by a crash.
THEOREM Gapless ==
    ASSUME OnePath
    PROVE  Spec => []ReplayGapless
  <1>1. IInv /\ OnePathInv => ReplayGapless
    BY DEF OnePathInv
  <1> QED
    BY <1>1, InductiveOnePath, PTL
=============================================================================
