----------------------------- MODULE ResultLog -----------------------------
(***************************************************************************)
(* CSVCallback (search/callback.py) over successive sessions of loop-explore*)
(* on one output file, with crashes between and inside the writes.          *)
(*                                                                          *)
(* A key is a sample with its backend.  The file is a sequence of lines; a  *)
(* line records what csv.DictReader will make of it, not its characters.    *)
(* `cache` is the file as processes read it, `disk` what fsync has secured: *)
(* a crash of the process loses nothing of the cache, a crash of the        *)
(* machine (or a full disk) any part of what disk lacks.                    *)
(***************************************************************************)
EXTENDS Integers, Sequences, FiniteSets, SequencesExt

CONSTANTS
  Keys,        \* recorded samples, each with its backend
  MaxLines     \* bound on the length of the file

VARIABLES
  tears,         \* whether a crash may leave part of a line: constant
  cache, disk,   \* sequences of lines
  session,       \* "closed", or the mode of the running session
  seen,          \* _seen_keys
  writing,       \* <<k>> between the flush of k's row and its entry in seen
  acked          \* keys whose row fsync has reported on disk

vars == <<tears, cache, disk, session, seen, writing, acked>>

\* Lines ending in a line terminator ...
Header  == [kind |-> "header"]
Row(k)  == [kind |-> "row", key |-> k]
Junk    == [kind |-> "junk"]
\* ... and cut ones, that the next write continues: the header, a row cut within
\* its first column, further on, or just before its terminator.
TornHeader   == [kind |-> "tornHeader"]
TornStart    == [kind |-> "tornStart"]
TornMiddle   == [kind |-> "tornMiddle"]
TornEnd(k)   == [kind |-> "tornEnd", key |-> k]

Open(line) == line.kind \in {"tornHeader", "tornStart", "tornMiddle", "tornEnd"}

Lines == {Header, Junk, TornHeader, TornStart, TornMiddle}
           \cup {Row(k) : k \in Keys} \cup {TornEnd(k) : k \in Keys}

\* _load_existing_rows: without a whole first line the columns have no names.
Readable(file) ==
  IF file = << >> \/ file[1].kind # "header" THEN {}
  ELSE {file[i].key : i \in {j \in DOMAIN file : file[j].kind \in {"row", "tornEnd"}}}

\* What a row makes of the cut line it continues.  The digits of a cut first
\* column join the row's own: it is read as some other sample, recorded or not.
Merged(line, k) ==
  IF line.kind = "tornStart" THEN {Row(j) : j \in Keys \ {k}} \cup {Junk} ELSE {Junk}

AfterAppend(file, k) ==
  IF file # << >> /\ Open(Last(file))
  THEN {Front(file) \o <<line>> : line \in Merged(Last(file), k)}
  ELSE {Append(file, Row(k))}

Torn(line) ==
  CASE line.kind = "header" -> {TornHeader}
    [] line.kind = "row"    -> {TornStart, TornMiddle, TornEnd(line.key)}
    [] OTHER                -> {}

Init ==
  /\ tears \in BOOLEAN
  /\ cache = << >> /\ disk = << >>
  /\ session = "closed"
  /\ seen = {} /\ writing = << >> /\ acked = {}

\* Mutant: resume reads the file and then opens it with "w".
BeginTruncates(mode) ==
  /\ session = "closed"
  /\ session' = mode
  /\ seen' = IF mode = "resume" THEN Readable(cache) ELSE {}
  /\ cache' = <<Header>> /\ disk' = << >>
  /\ acked' = IF mode = "write" THEN {} ELSE acked
  /\ UNCHANGED <<tears, writing>>

\* The constructor.  Only resume reads the file back; only write truncates it; the
\* header goes to an empty file, flushed but not synced.
Begin(mode) ==
  /\ session = "closed"
  /\ session' = mode
  /\ seen' = IF mode = "resume" THEN Readable(cache) ELSE {}
  /\ cache' = IF mode = "write" \/ cache = << >> THEN <<Header>> ELSE cache
  /\ disk' = IF mode = "write" THEN << >> ELSE disk
  /\ acked' = IF mode = "write" THEN {} ELSE acked
  /\ UNCHANGED <<tears, writing>>

\* Mutant: the keys are looked up in the wrong mode.
SkipsOnAppend(k) == session = "append" /\ k \in seen

\* A result in error or, on resume, an already seen one changes nothing.
Skips(k) == session = "resume" /\ k \in seen

\* _write_row up to the flush.
WriteRow(k) ==
  /\ session # "closed" /\ writing = << >> /\ ~ Skips(k)
  /\ Len(cache) < MaxLines
  /\ cache' \in AfterAppend(cache, k)
  /\ writing' = <<k>>
  /\ UNCHANGED <<tears, disk, session, seen, acked>>

\* os.fsync, and the key is seen.
Synced ==
  /\ writing # << >>
  /\ disk' = cache
  /\ seen' = seen \cup {writing[1]} /\ acked' = acked \cup {writing[1]}
  /\ writing' = << >>
  /\ UNCHANGED <<tears, cache, session>>

\* An OSError of fsync is only logged: the key is seen all the same.
SyncFails ==
  /\ writing # << >>
  /\ seen' = seen \cup {writing[1]}
  /\ writing' = << >>
  /\ UNCHANGED <<tears, cache, disk, session, acked>>

\* The run ends: __del__ closes the file, without fsync.
End ==
  /\ session # "closed" /\ writing = << >>
  /\ session' = "closed" /\ seen' = {}
  /\ UNCHANGED <<tears, cache, disk, writing, acked>>

\* What a crash leaves: the secured lines, some of the others, part of the next.
Survivors ==
  LET prefixes == {SubSeq(cache, 1, n) : n \in Len(disk) .. Len(cache)}
      torn(n)  == {SubSeq(cache, 1, n - 1) \o <<line>> : line \in Torn(cache[n])}
  IN  {disk} \cup prefixes
        \cup IF tears THEN UNION {torn(n) : n \in Len(disk) + 1 .. Len(cache)} ELSE {}

Crash ==
  /\ cache' \in Survivors
  /\ disk' = cache'
  /\ session' = "closed" /\ seen' = {} /\ writing' = << >>
  /\ UNCHANGED <<tears, acked>>

-----------------------------------------------------------------------------
(* Properties. *)

Rows(k) == {i \in DOMAIN cache : cache[i] = Row(k)}

\* A row that fsync has secured is read back by every later session, until the
\* file is rewritten: resume does skip it.  Where crashes cut lines, a secured row
\* may continue a cut line and be lost to resume, but its line is never lost, and
\* no two secured rows share one.
RecordedStaysRecorded ==
  IF tears THEN Cardinality(acked) <= Len(cache) ELSE acked \subseteq Readable(cache)

=============================================================================
