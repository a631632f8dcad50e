------------------------- MODULE ResumedSearchProofs -------------------------
(***************************************************************************)
(* What a file of results is worth after any number of sessions and         *)
(* crashes, for any number of results and any length of the file.           *)
(***************************************************************************)
EXTENDS ResumedSearch, TLAPS, SequenceTheorems, FiniteSetTheorems

TypeOK ==
  /\ tears \in BOOLEAN /\ failed \in BOOLEAN
  /\ cache \in Seq(Log!Lines) /\ disk \in Seq(Log!Lines)
  /\ modes \in {{"resume"}, Modes} /\ session \in modes \cup {"closed"}
  /\ seen \subseteq Results /\ acked \subseteq Results /\ good \subseteq Results
  /\ writing \in {<< >>} \cup {<<k>> : k \in Results}
  /\ next \in 1 .. NResults + 1
  /\ session = "closed" => writing = << >>

\* The lines of a file that no later write continues.
Closed(file) == IF file # << >> /\ Log!Open(file[Len(file)]) THEN Len(file) - 1 ELSE Len(file)

\* A cut line costs no secured row its line: the disk has a line of its own for each,
\* and the row being written one more.
LinesAreKept ==
  /\ Len(disk) <= Len(cache)
  /\ disk # << >> /\ Log!Open(cache[Len(disk)]) => Log!Open(disk[Len(disk)])
  /\ Cardinality(acked) <= Closed(disk)
  /\ Closed(disk) <= Closed(cache)
  /\ writing # << >> => Closed(disk) < Closed(cache)

HasRow(file, k) == \E i \in 2 .. Len(file) : file[i] = Log!Row(k)

\* Without cut lines, the disk has the beginning of the cache, which is a header and rows.
FileIsRows ==
  /\ cache # << >> => cache[1] = Log!Header
  /\ session # "closed" => cache # << >>
  /\ \A i \in 2 .. Len(cache) : \E k \in Results : cache[i] = Log!Row(k)
  /\ \A i \in 1 .. Len(disk) : disk[i] = cache[i]

\* What the keys in memory say of the file.
KeysAreRows ==
  /\ \A k \in acked : HasRow(disk, k)
  /\ \A k \in seen \cup good : session # "closed" => HasRow(cache, k)
  /\ \A k \in Results : writing = <<k>> => HasRow(cache, k)
  /\ session = "resume" =>
       \A k \in Results : HasRow(cache, k) => k \in seen \/ writing = <<k>>

\* A search that is always resumed writes no row twice ...
RowsDiffer ==
  modes = {"resume"} => \A i, j \in 2 .. Len(cache) : cache[i] = cache[j] => i = j

\* ... and without failures it writes them in order: the results the session came past
\* are rows, the last of which may be the one being written.
RowsAreInOrder ==
  modes = {"resume"} /\ ~ failed =>
    /\ \A i \in 2 .. Len(cache) : cache[i] = Log!Row(i - 1)
    /\ session # "closed" => next <= Len(cache)
    /\ \A k \in Results : writing = <<k>> => k + 1 = Len(cache)

RowsAreKept == FileIsRows /\ KeysAreRows /\ RowsDiffer /\ RowsAreInOrder

IInv == TypeOK /\ LinesAreKept /\ (~ tears => RowsAreKept)

-----------------------------------------------------------------------------
(* Lines and files. *)

\* Lines of different kinds differ, and rows of different keys.
LEMMA LineKinds ==
  /\ Log!Header.kind = "header" /\ Log!Junk.kind = "junk" /\ ~ Log!Open(Log!Header)
  /\ \A k : /\ Log!Row(k).kind = "row" /\ Log!Row(k) # Log!Header /\ Log!Row(k).key = k
            /\ ~ Log!Open(Log!Row(k))
  /\ \A j, k : Log!Row(j) = Log!Row(k) => j = k
  /\ ~ Log!Open(Log!Junk)
<1>1. \A k : Log!Row(k).kind = "row" /\ Log!Row(k).key = k
  BY DEF Log!Row
<1>2. Log!Header.kind = "header" /\ Log!Junk.kind = "junk"
  BY DEF Log!Header, Log!Junk
<1> QED
  BY <1>1, <1>2 DEF Log!Open

LEMMA LinesTyped ==
  /\ Log!Header \in Log!Lines /\ Log!Junk \in Log!Lines
  /\ \A k \in Results : Log!Row(k) \in Log!Lines
  BY DEF Log!Lines

\* What is left of a line is a line.
LEMMA TornLines == \A line \in Log!Lines : Log!Torn(line) \subseteq Log!Lines
  BY DEF Log!Torn, Log!Lines, Log!Header, Log!Junk, Log!TornHeader, Log!TornStart, Log!TornMiddle,
         Log!Row, Log!TornEnd

\* The first n lines of a file.
LEMMA Beginning ==
  ASSUME NEW S, NEW s \in Seq(S), NEW n \in 0 .. Len(s)
  PROVE  /\ SubSeq(s, 1, n) \in Seq(S) /\ Len(SubSeq(s, 1, n)) = n
         /\ \A i \in 1 .. n : SubSeq(s, 1, n)[i] = s[i]
<1>1. Len(s) \in Nat /\ \A i \in 1 .. n : s[i] \in S
  BY LenProperties, ElementOfSeq
<1>2. n \in Int /\ 1 \in Int
  BY <1>1
<1>3. /\ SubSeq(s, 1, n) \in Seq(S)
      /\ Len(SubSeq(s, 1, n)) = IF 1 <= n THEN n - 1 + 1 ELSE 0
      /\ \A i \in 1 .. n - 1 + 1 : SubSeq(s, 1, n)[i] = s[1 + i - 1]
  BY <1>1, <1>2, SubSeqProperties
<1> QED
  BY <1>1, <1>2, <1>3

\* A row is appended, or takes the place of the cut line it continues.
LEMMA Appended ==
  ASSUME NEW file \in Seq(Log!Lines), NEW k \in Results, NEW new \in Log!AfterAppend(file, k)
  PROVE  /\ new \in Seq(Log!Lines) /\ new # << >>
         /\ Len(new) = Closed(file) + 1 /\ Closed(new) = Len(new)
         /\ \A i \in 1 .. Closed(file) : new[i] = file[i]
         /\ Closed(file) = Len(file) => new[Len(new)] = Log!Row(k)
<1>1. Len(file) \in Nat /\ (file = << >> <=> Len(file) = 0)
  BY EmptySeq, LenProperties
<1>2. CASE file # << >> /\ Log!Open(file[Len(file)])
  <2>1. PICK line \in Log!Merged(Log!Last(file), k) : new = Log!Front(file) \o <<line>>
    BY <1>2 DEF Log!AfterAppend, Log!Last
  <2>2. line \in Log!Lines /\ ~ Log!Open(line)
    BY <2>1, LineKinds, LinesTyped DEF Log!Merged
  <2>3. /\ Log!Front(file) \in Seq(Log!Lines) /\ Len(Log!Front(file)) = Len(file) - 1
        /\ \A i \in 1 .. Len(file) - 1 : Log!Front(file)[i] = file[i]
    <3>1. Len(file) - 1 \in 0 .. Len(file)
      BY <1>1, <1>2
    <3> QED
      BY <3>1, Beginning DEF Log!Front
  <2>4. <<line>> \in Seq(Log!Lines) /\ Len(<<line>>) = 1 /\ <<line>>[1] = line
    BY <2>2
  <2>5. /\ new \in Seq(Log!Lines) /\ Len(new) = Len(file)
        /\ \A i \in 1 .. Len(file) : new[i] = IF i <= Len(file) - 1 THEN file[i] ELSE line
    BY <1>1, <1>2, <2>1, <2>3, <2>4, ConcatProperties
  <2> QED
    BY <1>1, <1>2, <2>2, <2>5, EmptySeq DEF Closed
<1>3. CASE ~ (file # << >> /\ Log!Open(file[Len(file)]))
  <2>1. new = Append(file, Log!Row(k))
    BY <1>3 DEF Log!AfterAppend, Log!Last
  <2>2. /\ new \in Seq(Log!Lines) /\ new # << >> /\ Len(new) = Len(file) + 1
        /\ \A i \in 1 .. Len(file) : new[i] = file[i]
        /\ new[Len(file) + 1] = Log!Row(k)
    BY <2>1, LinesTyped, AppendProperties
  <2> QED
    BY <1>1, <1>3, <2>2, LineKinds DEF Closed
<1> QED
  BY <1>2, <1>3

\* A crash leaves every secured line, and each keeps a line of its own.
LEMMA Survived ==
  ASSUME TypeOK, LinesAreKept, NEW new \in Log!Survivors
  PROVE  /\ new \in Seq(Log!Lines) /\ Closed(disk) <= Closed(new)
         /\ ~ tears /\ FileIsRows =>
              /\ Len(new) \in Len(disk) .. Len(cache)
              /\ \A i \in 1 .. Len(new) : new[i] = cache[i]
<1>1. Len(cache) \in Nat /\ Len(disk) \in Nat /\ Len(disk) <= Len(cache)
  BY LenProperties DEF TypeOK, LinesAreKept
<1>2. CASE new = disk
  <2>1. Closed(disk) \in Int
    BY <1>1 DEF Closed
  <2> QED
    BY <1>1, <1>2, <2>1 DEF TypeOK, FileIsRows
<1>3. ASSUME NEW n \in Len(disk) .. Len(cache), new = SubSeq(cache, 1, n)
      PROVE  /\ new \in Seq(Log!Lines) /\ Closed(disk) <= Closed(new)
             /\ Len(new) = n /\ \A i \in 1 .. n : new[i] = cache[i]
  <2>1. /\ new \in Seq(Log!Lines) /\ Len(new) = n
        /\ \A i \in 1 .. n : new[i] = cache[i]
    BY <1>1, <1>3, Beginning DEF TypeOK
  <2>2. Closed(disk) <= Closed(new)
    BY <1>1, <2>1, EmptySeq DEF Closed, TypeOK, LinesAreKept
  <2> QED
    BY <2>1, <2>2
<1>4. ASSUME NEW n \in Len(disk) + 1 .. Len(cache), NEW line \in Log!Lines,
             new = SubSeq(cache, 1, n - 1) \o <<line>>
      PROVE  new \in Seq(Log!Lines) /\ Closed(disk) <= Closed(new)
  <2>1. SubSeq(cache, 1, n - 1) \in Seq(Log!Lines) /\ Len(SubSeq(cache, 1, n - 1)) = n - 1
    <3>1. n - 1 \in 0 .. Len(cache)
      BY <1>1
    <3> QED
      BY <3>1, Beginning DEF TypeOK
  <2>2. <<line>> \in Seq(Log!Lines) /\ Len(<<line>>) = 1
    OBVIOUS
  <2>3. new \in Seq(Log!Lines) /\ Len(new) = n
    BY <1>1, <1>4, <2>1, <2>2, ConcatProperties
  <2> QED
    BY <1>1, <2>3 DEF Closed
<1>5. tears \/ new = disk \/ \E n \in Len(disk) .. Len(cache) : new = SubSeq(cache, 1, n)
  BY DEF Log!Survivors, TypeOK
<1>6. \/ new = disk \/ \E n \in Len(disk) .. Len(cache) : new = SubSeq(cache, 1, n)
      \/ \E n \in Len(disk) + 1 .. Len(cache), line \in Log!Lines :
           new = SubSeq(cache, 1, n - 1) \o <<line>>
  <2>1. CASE \E n \in Len(disk) + 1 .. Len(cache) : \E line \in Log!Torn(cache[n]) :
               new = SubSeq(cache, 1, n - 1) \o <<line>>
    <3>1. \A n \in Len(disk) + 1 .. Len(cache) : Log!Torn(cache[n]) \subseteq Log!Lines
      BY <1>1, TornLines, ElementOfSeq DEF TypeOK
    <3> QED
      BY <2>1, <3>1
  <2> QED
    BY <2>1 DEF Log!Survivors
<1> QED
  BY <1>1, <1>2, <1>3, <1>4, <1>5, <1>6

-----------------------------------------------------------------------------
(* Every step keeps the inductive invariant. *)

LEMMA InitInv == Init => IInv
<1> SUFFICES ASSUME Init PROVE IInv
  OBVIOUS
<1>1. Cardinality({}) = 0
  BY FS_EmptySet
<1>2. TypeOK
  <2>1. << >> \in Seq(Log!Lines)
    BY EmptySeq
  <2>2. 1 \in 1 .. NResults + 1
    BY ResumedSearchAssumption
  <2>3. failed \in BOOLEAN
    BY DEF Init
  <2> QED
    BY <2>1, <2>2, <2>3 DEF Init, Log!Init, TypeOK
<1>3. LinesAreKept
  BY <1>1, EmptySeq DEF Init, Log!Init, LinesAreKept, Closed
<1>4. FileIsRows /\ KeysAreRows /\ RowsDiffer /\ RowsAreInOrder
  BY DEF Init, Log!Init, FileIsRows, KeysAreRows, RowsDiffer, RowsAreInOrder, HasRow
<1> QED
  BY <1>2, <1>3, <1>4 DEF IInv, RowsAreKept

\* The keys a file is read for are samples of the search.
LEMMA KeysRead ==
  ASSUME TypeOK PROVE Log!Readable(cache) \subseteq Results
<1>1. \A i \in DOMAIN cache : cache[i] \in Log!Lines
  BY LenProperties, ElementOfSeq DEF TypeOK
<1>2. \A line \in Log!Lines : line.kind \in {"row", "tornEnd"} => line.key \in Results
  BY DEF Log!Lines, Log!Header, Log!Junk, Log!TornHeader, Log!TornStart, Log!TornMiddle, Log!Row,
         Log!TornEnd
<1> QED
  BY <1>1, <1>2 DEF Log!Readable

LEMMA TypeInv == TypeOK /\ LinesAreKept /\ [Next]_vars => TypeOK'
<1> SUFFICES ASSUME TypeOK, LinesAreKept, [Next]_vars PROVE TypeOK'
  OBVIOUS
<1> USE ResumedSearchAssumption
<1>1. CASE Start
  <2>1. PICK mode \in modes : Log!Begin(mode)
    BY <1>1 DEF Start
  <2>2. <<Log!Header>> \in Seq(Log!Lines) /\ << >> \in Seq(Log!Lines)
    BY LinesTyped
  <2> QED
    BY <1>1, <2>1, <2>2, KeysRead DEF Start, Log!Begin, TypeOK
<1>2. CASE EvaluateFails \/ EvaluateSkipped
  <2>1. next' \in 1 .. NResults + 1 /\ next \in Results
    BY <1>2 DEF EvaluateFails, EvaluateSkipped, Evaluated, TypeOK, Results
  <2>2. good' \subseteq Results /\ failed' \in BOOLEAN
    BY <1>2, <2>1 DEF EvaluateFails, EvaluateSkipped, TypeOK
  <2> QED
    BY <1>2, <2>1, <2>2 DEF EvaluateFails, EvaluateSkipped, TypeOK, logvars
<1>3. CASE EvaluateWritten
  <2>1. next \in Results
    BY <1>3 DEF EvaluateWritten, Evaluated, TypeOK, Results
  <2>2. cache' \in Seq(Log!Lines)
    BY <1>3, <2>1, Appended DEF EvaluateWritten, Log!WriteRow, TypeOK
  <2> QED
    BY <1>3, <2>1, <2>2 DEF EvaluateWritten, Evaluated, Log!WriteRow, TypeOK, Results
<1>4. CASE Sync
  BY <1>4 DEF Sync, Log!Synced, Log!SyncFails, TypeOK
<1>5. CASE Finish
  BY <1>5 DEF Finish, Log!End, TypeOK
<1>6. CASE Crash
  BY <1>6, Survived DEF Crash, Log!Crash, TypeOK
<1>7. CASE UNCHANGED vars
  BY <1>7 DEF vars, logvars, TypeOK
<1> QED
  BY <1>1, <1>2, <1>3, <1>4, <1>5, <1>6, <1>7 DEF Next

LEMMA LinesInv == TypeOK /\ LinesAreKept /\ [Next]_vars => LinesAreKept'
<1> SUFFICES ASSUME TypeOK, LinesAreKept, [Next]_vars PROVE LinesAreKept'
  OBVIOUS
<1> USE ResumedSearchAssumption
<1>1. /\ Len(cache) \in Nat /\ Len(disk) \in Nat
      /\ cache # << >> => Len(cache) # 0
      /\ disk # << >> => Len(disk) # 0
  BY LenProperties, EmptySeq DEF TypeOK
<1>2. IsFiniteSet(acked) /\ Cardinality(acked) \in Nat
  <2>1. IsFiniteSet(Results)
    BY FS_Interval DEF Results
  <2>2. IsFiniteSet(acked)
    BY <2>1, FS_Subset DEF TypeOK
  <2> QED
    BY <2>2, FS_CardinalityType
<1>3. CASE Start
  <2>1. PICK mode \in modes : Log!Begin(mode)
    BY <1>3 DEF Start
  <2>2. Len(<<Log!Header>>) = 1 /\ <<Log!Header>>[1] = Log!Header /\ Len(<< >>) = 0
    OBVIOUS
  <2>3. CASE mode = "write"
    BY <2>1, <2>2, <2>3, LineKinds, FS_EmptySet DEF Log!Begin, TypeOK, LinesAreKept, Closed
  <2>4. CASE mode # "write" /\ cache = << >>
    <3>1. Len(disk) = 0
      BY <1>1, <2>2, <2>4 DEF LinesAreKept
    <3> QED
      BY <1>1, <2>1, <2>2, <2>4, <3>1, LineKinds DEF Log!Begin, TypeOK, LinesAreKept, Closed
  <2>5. CASE mode # "write" /\ cache # << >>
    BY <2>1, <2>5 DEF Log!Begin, LinesAreKept, Closed
  <2> QED
    BY <2>3, <2>4, <2>5
<1>4. CASE EvaluateFails \/ EvaluateSkipped
  BY <1>4 DEF EvaluateFails, EvaluateSkipped, logvars, LinesAreKept, Closed
<1>5. CASE EvaluateWritten
  <2>1. next \in Results
    BY <1>5 DEF EvaluateWritten, Evaluated, TypeOK, Results
  <2>2. /\ cache' # << >> /\ Len(cache') = Closed(cache) + 1 /\ Closed(cache') = Len(cache')
        /\ \A i \in 1 .. Closed(cache) : cache'[i] = cache[i]
    BY <1>5, <2>1, Appended DEF EvaluateWritten, Log!WriteRow, TypeOK
  <2>3. Closed(cache) \in Nat /\ Len(cache) <= Closed(cache) + 1 /\ Closed(cache) <= Len(cache)
    BY <1>1 DEF Closed
  <2>4. UNCHANGED <<disk, acked>>
    BY <1>5 DEF EvaluateWritten, Log!WriteRow
  <2>5. ~ Log!Open(cache'[Len(cache')])
    BY <2>2, <2>3 DEF Closed
  <2>6. disk # << >> /\ Log!Open(cache'[Len(disk)]) => Log!Open(disk[Len(disk)])
    BY <1>1, <2>2, <2>3, <2>5 DEF LinesAreKept
  <2>7. Closed(disk) \in Nat
    BY <1>1 DEF Closed
  <2>8. Closed(disk)' = Closed(disk)
    BY <2>4 DEF Closed
  <2> QED
    BY <1>1, <1>2, <2>2, <2>3, <2>4, <2>6, <2>7, <2>8 DEF LinesAreKept
<1>6. CASE Sync
  <2>1. UNCHANGED cache /\ writing' = << >> /\ writing # << >>
    BY <1>6 DEF Sync, Log!Synced, Log!SyncFails
  <2>2. CASE Log!Synced
    <3>1. acked' = acked \cup {writing[1]} /\ disk' = cache
      BY <2>2 DEF Log!Synced
    <3>2. Cardinality(acked') <= Cardinality(acked) + 1
      BY <1>2, <3>1, FS_AddElement
    <3>3. Closed(disk) \in Nat /\ Closed(cache) \in Nat
      BY <1>1 DEF Closed
    <3>4. Cardinality(acked') \in Nat
      BY <1>2, <3>1, FS_AddElement, FS_CardinalityType
    <3> QED
      BY <1>1, <1>2, <2>1, <3>1, <3>2, <3>3, <3>4 DEF LinesAreKept, Closed
  <2>3. CASE Log!SyncFails
    BY <2>1, <2>3 DEF Log!SyncFails, LinesAreKept, Closed
  <2> QED
    BY <1>6, <2>2, <2>3 DEF Sync
<1>7. CASE Finish
  BY <1>7 DEF Finish, Log!End, LinesAreKept, Closed
<1>8. CASE Crash
  <2>1. cache' \in Seq(Log!Lines) /\ Closed(disk) <= Closed(cache')
    BY <1>8, Survived DEF Crash, Log!Crash
  <2>2. UNCHANGED acked /\ disk' = cache' /\ writing' = << >>
    BY <1>8 DEF Crash, Log!Crash
  <2>3. Closed(disk) \in Nat /\ Closed(cache') \in Nat /\ Len(cache') \in Nat
    BY <1>1, <2>1, LenProperties, EmptySeq DEF Closed
  <2> QED
    BY <1>2, <2>1, <2>2, <2>3 DEF LinesAreKept, Closed
<1>9. CASE UNCHANGED vars
  BY <1>9 DEF vars, logvars, LinesAreKept, Closed
<1> QED
  BY <1>3, <1>4, <1>5, <1>6, <1>7, <1>8, <1>9 DEF Next

\* What is read of a file without cut lines is its rows.
LEMMA RowsRead ==
  ASSUME TypeOK, FileIsRows, cache # << >>, NEW k \in Results
  PROVE  k \in Log!Readable(cache) <=> HasRow(cache, k)
<1>1. /\ Len(cache) \in Nat \ {0} /\ DOMAIN cache = 1 .. Len(cache)
      /\ cache[1] = Log!Header
  BY LenProperties, EmptySeq DEF TypeOK, FileIsRows
<1>2. ASSUME NEW i \in DOMAIN cache, cache[i].kind \in {"row", "tornEnd"}, cache[i].key = k
      PROVE  HasRow(cache, k)
  <2>1. i \in 2 .. Len(cache)
    BY <1>1, <1>2, LineKinds
  <2>2. PICK j \in Results : cache[i] = Log!Row(j)
    BY <2>1 DEF FileIsRows
  <2> QED
    BY <1>2, <2>1, <2>2, LineKinds DEF HasRow
<1>3. HasRow(cache, k) =>
        \E i \in DOMAIN cache : cache[i].kind \in {"row", "tornEnd"} /\ cache[i].key = k
  BY <1>1, LineKinds DEF HasRow
<1> QED
  BY <1>1, <1>2, <1>3, LineKinds DEF Log!Readable

LEMMA StartRows == TypeOK /\ LinesAreKept /\ RowsAreKept /\ Start => RowsAreKept'
<1> SUFFICES ASSUME TypeOK, LinesAreKept, RowsAreKept, Start PROVE RowsAreKept'
  OBVIOUS
<1>1. PICK mode \in modes : Log!Begin(mode)
  BY DEF Start
<1>2. /\ writing = << >> /\ UNCHANGED <<tears, writing, modes, failed>>
      /\ next' = 1 /\ good' = {} /\ session' = mode /\ session = "closed"
  BY <1>1 DEF Start, Log!Begin, TypeOK
<1>3. \A k : << >> # <<k>>
  OBVIOUS
<1>4. Len(disk) \in Nat /\ Len(cache) \in Nat /\ Len(disk) <= Len(cache)
  BY LenProperties DEF TypeOK, LinesAreKept
<1>5. CASE mode = "write" \/ cache = << >>
  <2>1. cache' = <<Log!Header>> /\ Len(cache') = 1 /\ cache'[1] = Log!Header
    BY <1>1, <1>5 DEF Log!Begin
  <2>2. Len(disk') = 0
    BY <1>1, <1>4, <1>5 DEF Log!Begin
  <2>3. seen' = {}
    BY <1>1, <1>5 DEF Log!Begin, Log!Readable
  <2>4. \A k \in acked' : HasRow(disk', k)
    BY <1>1, <1>5 DEF Log!Begin, RowsAreKept, KeysAreRows
  <2>5. \A k : ~ HasRow(cache', k)
    BY <2>1 DEF HasRow
  <2>6. FileIsRows'
    BY <2>1, <2>2 DEF FileIsRows
  <2>7. KeysAreRows'
    BY <1>2, <1>3, <2>3, <2>4, <2>5 DEF KeysAreRows
  <2>8. RowsDiffer' /\ RowsAreInOrder'
    BY <1>2, <1>3, <2>1 DEF RowsDiffer, RowsAreInOrder
  <2> QED
    BY <2>6, <2>7, <2>8 DEF RowsAreKept
<1>6. CASE mode # "write" /\ cache # << >>
  <2>1. UNCHANGED <<cache, disk, acked>>
    BY <1>1, <1>6 DEF Log!Begin
  <2>2. seen' = IF mode = "resume" THEN Log!Readable(cache) ELSE {}
    BY <1>1 DEF Log!Begin
  <2>3. \A k \in Results : k \in Log!Readable(cache) <=> HasRow(cache, k)
    BY <1>6, RowsRead DEF RowsAreKept
  <2>4. Log!Readable(cache) \subseteq Results
    BY KeysRead
  <2>5. FileIsRows' /\ RowsDiffer'
    BY <1>2, <1>6, <2>1 DEF FileIsRows, RowsDiffer, RowsAreKept
  <2>6. KeysAreRows'
    <3>1. \A k \in acked' : HasRow(disk', k)
      BY <2>1 DEF RowsAreKept, KeysAreRows
    <3>2. \A k \in seen' \cup good' : session' # "closed" => HasRow(cache', k)
      BY <1>2, <2>1, <2>2, <2>3, <2>4
    <3>3. session' = "resume" =>
            \A k \in Results : HasRow(cache', k) => k \in seen' \/ writing' = <<k>>
      BY <1>2, <2>1, <2>2, <2>3
    <3> QED
      BY <1>2, <1>3, <3>1, <3>2, <3>3 DEF KeysAreRows
  <2>7. RowsAreInOrder'
    <3>1. 1 <= Len(cache)
      BY <1>4, <1>6, EmptySeq DEF TypeOK
    <3> QED
      BY <1>2, <1>3, <2>1, <3>1 DEF RowsAreKept, RowsAreInOrder
  <2> QED
    BY <2>5, <2>6, <2>7 DEF RowsAreKept
<1> QED
  BY <1>5, <1>6

LEMMA SkippedRows ==
  TypeOK /\ RowsAreKept /\ (EvaluateFails \/ EvaluateSkipped) => RowsAreKept'
<1> SUFFICES ASSUME TypeOK, RowsAreKept, EvaluateFails \/ EvaluateSkipped PROVE RowsAreKept'
  OBVIOUS
<1>1. UNCHANGED <<logvars, modes>> /\ session # "closed" /\ next \in Results /\ next' = next + 1
  BY DEF EvaluateFails, EvaluateSkipped, Evaluated, TypeOK, Results
<1>2. FileIsRows' /\ RowsDiffer'
  BY <1>1 DEF RowsAreKept, FileIsRows, RowsDiffer, logvars
<1>3. CASE EvaluateFails
  <2>1. failed' /\ UNCHANGED good
    BY <1>3 DEF EvaluateFails
  <2>2. KeysAreRows'
    BY <1>1, <2>1 DEF RowsAreKept, KeysAreRows, logvars
  <2>3. RowsAreInOrder'
    BY <2>1 DEF RowsAreInOrder
  <2> QED
    BY <1>2, <2>2, <2>3 DEF RowsAreKept
<1>4. CASE EvaluateSkipped
  <2>1. next \in seen /\ good' = good \cup {next} /\ UNCHANGED failed
    BY <1>4 DEF EvaluateSkipped, Log!Skips
  <2>2. HasRow(cache, next)
    BY <1>1, <2>1 DEF RowsAreKept, KeysAreRows
  <2>3. KeysAreRows'
    BY <1>1, <2>1, <2>2 DEF RowsAreKept, KeysAreRows, logvars
  <2>4. modes = {"resume"} /\ ~ failed => next + 1 <= Len(cache)
    <3> SUFFICES ASSUME modes = {"resume"}, ~ failed PROVE next + 1 <= Len(cache)
      OBVIOUS
    <3>1. PICK i \in 2 .. Len(cache) : cache[i] = Log!Row(next)
      BY <2>2 DEF HasRow
    <3>2. cache[i] = Log!Row(i - 1)
      BY <3>1 DEF RowsAreKept, RowsAreInOrder
    <3>3. next = i - 1
      BY <3>1, <3>2, LineKinds
    <3> QED
      BY <3>1, <3>3
  <2>5. RowsAreInOrder'
    BY <1>1, <2>1, <2>4 DEF RowsAreKept, RowsAreInOrder, logvars
  <2> QED
    BY <1>2, <2>3, <2>5 DEF RowsAreKept
<1> QED
  BY <1>3, <1>4

LEMMA WrittenRows == TypeOK /\ LinesAreKept /\ RowsAreKept /\ EvaluateWritten => RowsAreKept'
<1> SUFFICES ASSUME TypeOK, LinesAreKept, RowsAreKept, EvaluateWritten PROVE RowsAreKept'
  OBVIOUS
<1>1. /\ session # "closed" /\ next \in Results /\ writing = << >> /\ ~ Log!Skips(next)
      /\ next' = next + 1 /\ writing' = <<next>> /\ good' = good \cup {next}
      /\ UNCHANGED <<tears, disk, session, seen, acked, modes, failed>>
      /\ cache' \in Log!AfterAppend(cache, next)
  BY DEF EvaluateWritten, Evaluated, Log!WriteRow, TypeOK, Results
<1>2. Len(cache) \in Nat \ {0} /\ Len(disk) \in Nat /\ Len(disk) <= Len(cache)
  BY <1>1, EmptySeq, LenProperties DEF TypeOK, LinesAreKept, RowsAreKept, FileIsRows
<1>3. Closed(cache) = Len(cache)
  <2>1. cache[Len(cache)] = Log!Header \/ \E k \in Results : cache[Len(cache)] = Log!Row(k)
    BY <1>1, <1>2 DEF RowsAreKept, FileIsRows
  <2> QED
    BY <2>1, LineKinds DEF Closed
<1>4. /\ Len(cache') = Len(cache) + 1 /\ cache'[Len(cache) + 1] = Log!Row(next)
      /\ \A i \in 1 .. Len(cache) : cache'[i] = cache[i]
  BY <1>1, <1>3, Appended DEF TypeOK
<1>5. \A k : HasRow(cache', k) <=> HasRow(cache, k) \/ k = next
  BY <1>2, <1>4, LineKinds DEF HasRow
<1>6. modes = {"resume"} => session = "resume" /\ ~ HasRow(cache, next)
  BY <1>1 DEF TypeOK, Log!Skips, RowsAreKept, KeysAreRows
<1>7. FileIsRows'
  BY <1>1, <1>2, <1>4 DEF RowsAreKept, FileIsRows
<1>8. KeysAreRows'
  BY <1>1, <1>5 DEF RowsAreKept, KeysAreRows
<1>9. RowsDiffer'
  BY <1>1, <1>2, <1>4, <1>6 DEF RowsAreKept, RowsDiffer, HasRow
<1>10. RowsAreInOrder'
  <2> SUFFICES ASSUME modes = {"resume"}, ~ failed PROVE RowsAreInOrder'
    BY <1>1 DEF RowsAreInOrder
  <2>1. next <= Len(cache) /\ \A i \in 2 .. Len(cache) : cache[i] = Log!Row(i - 1)
    BY <1>1 DEF RowsAreKept, RowsAreInOrder
  <2>2. next = Len(cache)
    <3>1. ASSUME next < Len(cache) PROVE HasRow(cache, next)
      <4>1. next + 1 \in 2 .. Len(cache)
        BY <1>1, <1>2, <3>1 DEF Results
      <4>2. cache[next + 1] = Log!Row(next)
        BY <1>1, <2>1, <4>1 DEF Results
      <4> QED
        BY <4>1, <4>2 DEF HasRow
    <3> QED
      BY <1>1, <1>2, <1>6, <2>1, <3>1 DEF Results
  <2>3. \A i \in 2 .. Len(cache') : cache'[i] = Log!Row(i - 1)
    BY <1>2, <1>4, <2>1, <2>2
  <2>4. \A k : writing' = <<k>> => k = next
    BY <1>1
  <2> QED
    BY <1>1, <1>2, <1>4, <2>2, <2>3, <2>4 DEF RowsAreInOrder
<1> QED
  BY <1>7, <1>8, <1>9, <1>10 DEF RowsAreKept

LEMMA SyncRows == TypeOK /\ LinesAreKept /\ RowsAreKept /\ Sync => RowsAreKept'
<1> SUFFICES ASSUME TypeOK, LinesAreKept, RowsAreKept, Sync PROVE RowsAreKept'
  OBVIOUS
<1>1. /\ UNCHANGED <<cache, session, modes, next, good, failed>> /\ writing' = << >>
      /\ seen' = seen \cup {writing[1]}
      /\ \/ disk' = disk /\ acked' = acked
         \/ disk' = cache /\ acked' = acked \cup {writing[1]}
  BY DEF Sync, Log!Synced, Log!SyncFails
<1>2. PICK k \in Results : writing = <<k>>
  BY DEF Sync, Log!Synced, Log!SyncFails, TypeOK
<1>3. HasRow(cache, k) /\ writing[1] = k
  BY <1>2 DEF RowsAreKept, KeysAreRows
<1>4. \A j : HasRow(disk, j) => HasRow(cache, j)
  BY LenProperties DEF HasRow, TypeOK, LinesAreKept, RowsAreKept, FileIsRows
<1>5. FileIsRows' /\ RowsDiffer'
  BY <1>1 DEF RowsAreKept, FileIsRows, RowsDiffer
<1>6. KeysAreRows'
  <2>1. \A j \in acked' : HasRow(disk', j)
    BY <1>1, <1>3, <1>4 DEF RowsAreKept, KeysAreRows
  <2>2. \A j \in seen' \cup good' : session' # "closed" => HasRow(cache', j)
    BY <1>1, <1>3 DEF RowsAreKept, KeysAreRows
  <2>3. session' = "resume" => \A j \in Results : HasRow(cache', j) => j \in seen'
    BY <1>1, <1>2, <1>3 DEF RowsAreKept, KeysAreRows
  <2> QED
    BY <1>1, <2>1, <2>2, <2>3 DEF KeysAreRows
<1>7. RowsAreInOrder'
  BY <1>1 DEF RowsAreKept, RowsAreInOrder
<1> QED
  BY <1>5, <1>6, <1>7 DEF RowsAreKept

LEMMA ClosedRows ==
  TypeOK /\ LinesAreKept /\ RowsAreKept /\ ~ tears /\ (Finish \/ Crash) => RowsAreKept'
<1> SUFFICES ASSUME TypeOK, LinesAreKept, RowsAreKept, ~ tears, Finish \/ Crash
             PROVE  RowsAreKept'
  OBVIOUS
<1>1. /\ session' = "closed" /\ writing' = << >>
      /\ UNCHANGED <<tears, acked, modes, failed>>
  BY DEF Finish, Crash, Log!End, Log!Crash
<1>2. Len(cache) \in Nat /\ Len(disk) \in Nat /\ Len(disk) <= Len(cache)
  BY LenProperties DEF TypeOK, LinesAreKept
<1>3. /\ Len(cache') \in Len(disk) .. Len(cache)
      /\ \A i \in 1 .. Len(cache') : cache'[i] = cache[i]
      /\ disk' \in {disk, cache'} /\ cache' \in Seq(Log!Lines)
  <2>1. CASE Finish
    BY <1>2, <2>1 DEF Finish, Log!End, TypeOK
  <2>2. CASE Crash
    BY <2>2, Survived DEF Crash, Log!Crash, RowsAreKept
  <2> QED
    BY <2>1, <2>2
<1>4. FileIsRows'
  <2>1. cache' # << >> => Len(cache') # 0
    BY <1>3, EmptySeq
  <2> QED
    BY <1>1, <1>2, <1>3, <2>1, EmptySeq DEF RowsAreKept, FileIsRows
<1>5. KeysAreRows'
  <2>1. \A k : HasRow(disk, k) => HasRow(cache', k)
    BY <1>2, <1>3 DEF HasRow, RowsAreKept, FileIsRows
  <2> QED
    BY <1>1, <1>3, <2>1 DEF RowsAreKept, KeysAreRows
<1>6. RowsDiffer'
  BY <1>1, <1>2, <1>3 DEF RowsAreKept, RowsDiffer
<1>7. RowsAreInOrder'
  BY <1>1, <1>2, <1>3 DEF RowsAreKept, RowsAreInOrder
<1> QED
  BY <1>4, <1>5, <1>6, <1>7 DEF RowsAreKept

LEMMA NextInv == IInv /\ [Next]_vars => IInv'
<1> SUFFICES ASSUME IInv, [Next]_vars PROVE IInv'
  OBVIOUS
<1>1. TypeOK' /\ LinesAreKept'
  BY TypeInv, LinesInv DEF IInv
<1>2. tears' = tears
  BY DEF Next, Start, EvaluateFails, EvaluateSkipped, EvaluateWritten, Sync, Finish, Crash, logvars,
         vars, Log!Begin, Log!WriteRow, Log!Synced, Log!SyncFails, Log!End, Log!Crash
<1>3. ASSUME ~ tears PROVE RowsAreKept'
  <2>1. CASE UNCHANGED vars
    BY <1>3, <2>1 DEF IInv, vars, logvars, RowsAreKept, FileIsRows, KeysAreRows, RowsDiffer,
                      RowsAreInOrder
  <2> QED
    BY <1>3, <2>1, StartRows, SkippedRows, WrittenRows, SyncRows, ClosedRows DEF IInv, Next
<1> QED
  BY <1>1, <1>2, <1>3 DEF IInv

-----------------------------------------------------------------------------
(* Theorems. *)

\* The instance counts as this module does.
LEMMA SameCardinality == \A S : Log!Cardinality(S) = Cardinality(S)
  BY DEF Cardinality, Log!Cardinality

\* Every reachable state satisfies the inductive invariant.
THEOREM Invariant == Spec => []IInv
  BY InitInv, NextInv, PTL DEF Spec

\* A row that fsync has secured is read back by every later session; where crashes cut
\* lines, no two secured rows share a line and none loses its own.
THEOREM SecuredRowsAreKept == Spec => []RecordedStaysRecorded
<1>1. IInv => RecordedStaysRecorded
  <2> SUFFICES ASSUME IInv PROVE RecordedStaysRecorded
    OBVIOUS
  <2>1. Len(cache) \in Nat /\ Len(disk) \in Nat
    BY LenProperties DEF IInv, TypeOK
  <2>2. CASE tears
    <3>1. IsFiniteSet(Results)
      BY ResumedSearchAssumption, FS_Interval DEF Results
    <3>2. Cardinality(acked) \in Nat
      BY <3>1, FS_Subset, FS_CardinalityType DEF IInv, TypeOK
    <3>3. Closed(cache) <= Len(cache) /\ Closed(cache) \in Int /\ Closed(disk) \in Int
      BY <2>1 DEF Closed
    <3>4. Cardinality(acked) <= Closed(disk) /\ Closed(disk) <= Closed(cache)
      BY DEF IInv, LinesAreKept
    <3>5. Cardinality(acked) <= Len(cache)
      BY <2>1, <3>2, <3>3, <3>4
    <3> QED
      BY <2>2, <3>5, SameCardinality DEF RecordedStaysRecorded, Log!RecordedStaysRecorded
  <2>3. CASE ~ tears
    <3>1. ASSUME NEW k \in acked PROVE k \in Log!Readable(cache)
      <4>1. HasRow(disk, k) /\ k \in Results
        BY <2>3 DEF IInv, TypeOK, RowsAreKept, KeysAreRows
      <4>2. HasRow(cache, k) /\ cache # << >>
        BY <2>1, <2>3, <4>1, EmptySeq DEF IInv, LinesAreKept, RowsAreKept, FileIsRows, HasRow
      <4> QED
        BY <2>3, <4>1, <4>2, RowsRead DEF IInv, RowsAreKept
    <3> QED
      BY <2>3, <3>1 DEF RecordedStaysRecorded, Log!RecordedStaysRecorded
  <2> QED
    BY <2>2, <2>3
<1> QED
  BY <1>1, Invariant, PTL

\* An interrupted and resumed search leaves a beginning of the file of one uninterrupted
\* run; after failures, exactly one row for each result without error.
THEOREM ResumedIsWhole == Spec => []ResumedFileIsWhole
<1>1. ASSUME IInv PROVE ResumedFileIsThatOfOneRun
  <2> SUFFICES ASSUME modes = {"resume"}, ~ failed, ~ tears
               PROVE  \E n \in 0 .. NResults + 1 : cache = SubSeq(WholeFile, 1, n)
    BY DEF ResumedFileIsThatOfOneRun
  <2> DEFINE rows == [k \in Results |-> Log!Row(k)]
  <2>1. Len(cache) \in Nat /\ cache \in Seq(Log!Lines)
    BY <1>1, LenProperties DEF IInv, TypeOK
  <2>2. rows \in Seq(Log!Lines) /\ Len(rows) = NResults
    BY ResumedSearchAssumption, LinesTyped DEF Results
  <2>3. /\ WholeFile \in Seq(Log!Lines) /\ Len(WholeFile) = NResults + 1
        /\ WholeFile[1] = Log!Header
        /\ \A i \in 2 .. NResults + 1 : WholeFile[i] = Log!Row(i - 1)
    <3>1. <<Log!Header>> \in Seq(Log!Lines) /\ Len(<<Log!Header>>) = 1 /\ <<Log!Header>>[1] = Log!Header
      BY LinesTyped
    <3> QED
      BY <2>2, <3>1, ConcatProperties, ResumedSearchAssumption DEF WholeFile, Results
  <2>4. /\ cache # << >> => cache[1] = Log!Header
        /\ \A i \in 2 .. Len(cache) : cache[i] = Log!Row(i - 1)
    BY <1>1 DEF IInv, RowsAreKept, FileIsRows, RowsAreInOrder
  <2>5. Len(cache) <= NResults + 1
    <3> SUFFICES ASSUME Len(cache) > 1 PROVE Len(cache) <= NResults + 1
      BY <2>1, ResumedSearchAssumption
    <3>1. PICK k \in Results : cache[Len(cache)] = Log!Row(k)
      BY <1>1, <2>1 DEF IInv, RowsAreKept, FileIsRows
    <3>2. k = Len(cache) - 1
      BY <2>1, <2>4, <3>1, LineKinds
    <3> QED
      BY <2>1, <3>2, ResumedSearchAssumption DEF Results
  <2>6. Len(cache) \in 0 .. Len(WholeFile)
    BY <2>1, <2>3, <2>5, ResumedSearchAssumption
  <2>7. /\ SubSeq(WholeFile, 1, Len(cache)) \in Seq(Log!Lines)
        /\ Len(SubSeq(WholeFile, 1, Len(cache))) = Len(cache)
        /\ \A i \in 1 .. Len(cache) : SubSeq(WholeFile, 1, Len(cache))[i] = WholeFile[i]
    BY <2>3, <2>6, Beginning
  <2>8. \A i \in 1 .. Len(cache) : cache[i] = WholeFile[i]
    BY <2>1, <2>3, <2>4, <2>5, EmptySeq, ResumedSearchAssumption
  <2>9. cache = SubSeq(WholeFile, 1, Len(cache))
    BY <2>1, <2>7, <2>8, SeqEqual
  <2> QED
    BY <2>3, <2>6, <2>9
<1>2. ASSUME IInv PROVE OneRowPerGoodResult
  <2> SUFFICES ASSUME ~ tears
               PROVE  /\ modes = {"resume"} => \A k \in Results : Cardinality(Log!Rows(k)) <= 1
                      /\ session # "closed" => \A k \in good : Log!Rows(k) # {}
    BY DEF OneRowPerGoodResult
  <2>1. /\ DOMAIN cache = 1 .. Len(cache) /\ Len(cache) \in Nat
        /\ 1 \in DOMAIN cache => cache[1] = Log!Header
    BY <1>2, LenProperties, EmptySeq DEF IInv, TypeOK, RowsAreKept, FileIsRows
  <2>2. ASSUME modes = {"resume"}, NEW k \in Results PROVE Cardinality(Log!Rows(k)) <= 1
    <3>1. \A i \in Log!Rows(k) : i \in 2 .. Len(cache) /\ cache[i] = Log!Row(k)
      BY <2>1, LineKinds DEF Log!Rows
    <3>2. \A i, j \in Log!Rows(k) : i = j
      BY <1>2, <2>2, <3>1 DEF IInv, RowsAreKept, RowsDiffer
    <3>3. CASE Log!Rows(k) = {}
      BY <3>3, FS_EmptySet
    <3>4. ASSUME NEW i \in Log!Rows(k) PROVE Cardinality(Log!Rows(k)) = 1
      <4>1. Log!Rows(k) = {i}
        BY <3>2
      <4> QED
        BY <4>1, FS_Singleton
    <3> QED
      BY <3>3, <3>4
  <2>3. ASSUME session # "closed", NEW k \in good PROVE Log!Rows(k) # {}
    <3>1. HasRow(cache, k)
      BY <1>2, <2>3 DEF IInv, RowsAreKept, KeysAreRows
    <3> QED
      BY <2>1, <3>1 DEF HasRow, Log!Rows
  <2> QED
    BY <2>2, <2>3
<1> QED
  BY <1>1, <1>2, Invariant, PTL DEF ResumedFileIsWhole
=============================================================================
