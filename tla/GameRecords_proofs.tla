-------------------------- MODULE GameRecords_proofs --------------------------
(***************************************************************************)
(* The theorems about GameRecords, for every set of opponents, every bound *)
(* of the league and of the retries, and any number of games and of        *)
(* processes killed.                                                       *)
(*                                                                         *)
(* The steps of a write, and a kill inside one, move contents between the  *)
(* three generations of a file or lose them; they make none up.  So what   *)
(* holds of the values begun to be written holds of all that is ever read. *)
(***************************************************************************)
EXTENDS GameRecords, TLAPS, SequenceTheorems

Parts == {"tmp", "target", "prev"}
Content == Nat \cup Seq(Rows) \cup {Absent, Torn}
Triples == [tmp : Content, target : Content, prev : Content]
Writes == [file : Kinds, step : {"tmp", "rotate", "replace"},
           value : Nat \cup Seq(Rows), tries : 0 .. Retries]

(* What file k holds, or is about to.                                      *)
Held(k) == {file[k].tmp, file[k].target, file[k].prev}
             \cup (IF write.file = k THEN {write.value} ELSE {})

Shape ==
  /\ file \in [Kinds -> Triples]
  /\ write \in Writes \cup {NoWrite}
  /\ phase \in Phases
  /\ {declared, completed, counted} \subseteq Nat
  /\ started \in 0 .. MaxGames
  /\ crashes \in 0 .. MaxCrashes /\ torn \in 0 .. crashes

(* The counter is written while its game is recorded, and then only.       *)
Phasing ==
  /\ write.file = "counter" <=> phase = "recording"
  /\ phase \in {"declared", "playing"} => write = NoWrite

(* No generation of the counter exceeds the games that had an outcome.     *)
Honest ==
  /\ \A v \in Held("counter") : Readable(v) => v \in Nat /\ v <= completed
  /\ write.file = "counter" => write.value \in Nat
  /\ declared <= completed

(* While no replace was torn, one generation that is read has the count.   *)
Kept ==
  torn = 0 =>
    LET f == file["counter"] IN
    /\ f.target # Torn
    /\ f.target # Absent => f.target >= counted
    /\ f.target = Absent => counted = 0 \/ (Readable(f.prev) /\ f.prev >= counted)
    /\ write.file = "counter" =>
         /\ write.value > counted
         /\ write.step \in {"rotate", "replace"} => f.tmp = write.value
         /\ write.step = "replace" => f.target = Absent

(* The rows of a ledger within its bounds.                                 *)
Bounded(rows) ==
  /\ rows \in Seq(Rows)
  /\ Len(rows) <= MaxGamesPerTeam
  /\ \A i, j \in 1 .. Len(rows) :
       rows[i].scored /\ rows[j].scored /\ rows[i].opponent = rows[j].opponent => i = j
  /\ \A i, j \in 1 .. Len(rows) : i < j => rows[i].game < rows[j].game

(* The games still to be recorded, and those still to be played, come      *)
(* after every one that is on record.                                      *)
Underway == phase \in {"declared", "playing"}
Past(g) == g \in Nat /\ g <= started /\ (Underway => g < started)
Recorded ==
  /\ \A v \in Held("ledger") : Readable(v) =>
       /\ Bounded(v)
       /\ \A i \in 1 .. Len(v) : Past(v[i].game) /\ \A g \in due : v[i].game < g
  /\ write.file = "ledger" => write.value \in Seq(Rows)
  /\ \A g \in due : Past(g)

GInv == Shape /\ Phasing /\ Honest /\ Kept /\ Recorded

-----------------------------------------------------------------------------
(* What the steps of a write do to a file.                                 *)

Cells(f) == {f.tmp, f.target, f.prev}
Next3(f, v) ==
  {TmpWritten(f, v), Rotated(f), Replaced(f)}
    \cup HalfWritten(f) \cup HalfRotated(f) \cup HalfReplaced(f)

(* No step makes contents up.                                              *)
LEMMA StepCells ==
  ASSUME NEW f \in Triples, NEW v \in Nat \cup Seq(Rows), NEW g \in Next3(f, v)
  PROVE  g \in Triples /\ Cells(g) \subseteq Cells(f) \cup {v, Absent, Torn}
<1>1. /\ f.tmp \in Content /\ f.target \in Content /\ f.prev \in Content
      /\ Absent \in Content /\ Torn \in Content /\ v \in Content
  BY DEF Triples, Content
<1>2. CASE g = TmpWritten(f, v)
  BY <1>1, <1>2 DEF TmpWritten, Triples, Cells
<1>3. CASE g = Rotated(f)
  BY <1>1, <1>3 DEF Rotated, Triples, Cells
<1>4. CASE g = Replaced(f)
  BY <1>1, <1>4 DEF Replaced, Triples, Cells
<1>5. CASE g \in HalfWritten(f)
  BY <1>1, <1>5 DEF HalfWritten, Triples, Cells
<1>6. CASE g \in HalfRotated(f)
  BY <1>1, <1>6 DEF HalfRotated, Triples, Cells
<1>7. CASE g \in HalfReplaced(f)
  BY <1>1, <1>7 DEF HalfReplaced, Triples, Cells
<1> QED
  BY <1>2, <1>3, <1>4, <1>5, <1>6, <1>7 DEF Next3

LEMMA WriteFacts ==
  ASSUME Shape
  PROVE  /\ write = NoWrite => write.file = "none"
         /\ write # NoWrite =>
              /\ write.file \in Kinds /\ write.value \in Nat \cup Seq(Rows)
              /\ write.step \in {"tmp", "rotate", "replace"} /\ write.tries \in 0 .. Retries
              /\ write \in Writes
         /\ \A k \in Kinds : file[k] \in Triples
BY DEF Shape, Writes, NoWrite, Kinds

(* The steps on the disk: those of a write, and the ends of a process.     *)
DiskStep == WriteTmp \/ Rotate \/ Replace \/ Denied \/ CrashBetween \/ CrashInside

(* One file moves one step, and no process starts.                         *)
LEMMA DiskMoves ==
  ASSUME Shape, DiskStep
  PROVE  /\ file' = file \/ \E g \in Next3(file[write.file], write.value) :
                               file' = [file EXCEPT ![write.file] = g]
         /\ write' \in {NoWrite, [write EXCEPT !.step = "rotate"], [write EXCEPT !.step = "replace"]}
              \/ (write.tries < Retries /\ write' = [write EXCEPT !.tries = @ + 1])
         /\ write = NoWrite => file' = file /\ write' = NoWrite
         /\ phase' \in {phase, "idle"}
         /\ UNCHANGED <<declared, started, completed, due>>
         /\ counted' \in {counted, counted + 1}
         /\ crashes' \in {crashes, crashes + 1} /\ crashes' <= MaxCrashes
         /\ torn' = torn \/ (torn' = torn + 1 /\ crashes' = crashes + 1)
<1> DEFINE f == file[write.file]
<1>1. crashes <= MaxCrashes /\ crashes \in Nat /\ MaxCrashes \in Nat
  BY RecordBounds DEF Shape
<1>2. CASE WriteTmp
  BY <1>1, <1>2 DEF WriteTmp, Next3
<1>3. CASE Rotate
  BY <1>1, <1>3 DEF Rotate, Next3
<1>4. CASE Replace
  BY <1>1, <1>4 DEF Replace, EndPhase, Next3
<1>5. CASE Denied
  BY <1>1, <1>5 DEF Denied, EndPhase
<1>6. CASE CrashBetween
  BY <1>1, <1>6 DEF CrashBetween, Kill
<1>7. CASE CrashInside
  <2>1. PICK g \in CASE write.step = "tmp"    -> HalfWritten(f)
                     [] write.step = "rotate" -> HalfRotated(f)
                     [] OTHER                 -> HalfReplaced(f) :
          /\ file' = [file EXCEPT ![write.file] = g]
          /\ torn' = IF g.target = Torn /\ f.target # Torn THEN torn + 1 ELSE torn
    BY <1>7 DEF CrashInside
  <2>2. g \in Next3(f, write.value)
    BY <2>1 DEF Next3
  <2>3. /\ write' = NoWrite /\ phase' = "idle" /\ write # NoWrite
        /\ crashes' = crashes + 1 /\ crashes < MaxCrashes
        /\ UNCHANGED <<declared, started, completed, due, counted>>
    BY <1>7 DEF CrashInside, Kill
  <2>4. \E h \in Next3(f, write.value) : file' = [file EXCEPT ![write.file] = h]
    BY <2>1, <2>2
  <2>5. torn' = torn \/ (torn' = torn + 1 /\ crashes' = crashes + 1)
    BY <2>1, <2>3
  <2>6. crashes' \in {crashes, crashes + 1} /\ crashes' <= MaxCrashes
    BY <1>1, <2>3
  <2> QED
    BY <2>3, <2>4, <2>5, <2>6
<1> QED
  BY <1>2, <1>3, <1>4, <1>5, <1>6, <1>7 DEF DiskStep

(* A write that goes on is of the same value, to the same file.            *)
LEMMA WriteGoesOn ==
  ASSUME Shape, DiskStep
  PROVE  /\ write' \in Writes \cup {NoWrite}
         /\ write'.file = "none" \/ (write'.file = write.file /\ write'.value = write.value)
         /\ write' # NoWrite => write # NoWrite
<1>1. write = NoWrite => write' = NoWrite
  BY DiskMoves
<1>2. NoWrite.file = "none"
  BY DEF NoWrite
<1>3. CASE write' = NoWrite
  BY <1>2, <1>3
<1>4. CASE write' # NoWrite
  <2>1. write # NoWrite
    BY <1>1, <1>4
  <2>2. write \in Writes /\ write.tries \in 0 .. Retries
    BY <2>1, WriteFacts
  <2>3. CASE write' \in {[write EXCEPT !.step = "rotate"], [write EXCEPT !.step = "replace"]}
    BY <2>1, <2>2, <2>3 DEF Writes
  <2>4. CASE write.tries < Retries /\ write' = [write EXCEPT !.tries = @ + 1]
    <3>1. write.tries + 1 \in 0 .. Retries
      BY <2>2, <2>4, RecordBounds
    <3> QED
      BY <2>1, <2>2, <2>4, <3>1 DEF Writes
  <2> QED
    BY <1>4, <2>3, <2>4, DiskMoves
<1> QED
  BY <1>3, <1>4

LEMMA DiskHeld ==
  ASSUME Shape, DiskStep
  PROVE  /\ Shape'
         /\ \A k \in Kinds : Held(k)' \subseteq Held(k) \cup {Absent, Torn}
<1>1. /\ file \in [Kinds -> Triples]
      /\ write \in Writes \cup {NoWrite}
      /\ phase \in Phases /\ "idle" \in Phases
      /\ {declared, completed, counted} \subseteq Nat
      /\ started \in 0 .. MaxGames
      /\ crashes \in Nat /\ crashes <= MaxCrashes /\ torn \in Nat /\ torn <= crashes /\ MaxCrashes \in Nat
  BY RecordBounds DEF Shape, Phases
<1>2. CASE file' = file
  <2>1. Held("counter")' \subseteq Held("counter") /\ Held("ledger")' \subseteq Held("ledger")
    BY <1>2, WriteGoesOn DEF Held
  <2> QED
    BY <1>1, <1>2, <2>1, WriteGoesOn, DiskMoves DEF Shape, Kinds
<1>3. CASE file' # file
  <2>1. write # NoWrite
    BY <1>3, DiskMoves
  <2>2. write.file \in Kinds /\ write.value \in Nat \cup Seq(Rows) /\ file[write.file] \in Triples
    BY <2>1, WriteFacts
  <2>3. PICK g \in Next3(file[write.file], write.value) : file' = [file EXCEPT ![write.file] = g]
    BY <1>3, DiskMoves
  <2>4. /\ g \in Triples
        /\ Cells(g) \subseteq Cells(file[write.file]) \cup {write.value, Absent, Torn}
    BY <2>2, <2>3, StepCells
  <2>5. /\ file' \in [Kinds -> Triples]
        /\ \A k \in Kinds : file'[k] = IF k = write.file THEN g ELSE file[k]
    BY <1>1, <2>2, <2>3, <2>4
  <2>6. ASSUME NEW k \in Kinds
        PROVE  Held(k)' \subseteq Held(k) \cup {Absent, Torn}
    <3>1. CASE k = write.file
      <4>1. Cells(file'[k]) \subseteq Held(k) \cup {Absent, Torn}
        BY <2>4, <2>5, <3>1 DEF Held, Cells
      <4>2. write'.file = k => write'.value \in Held(k)
        BY <3>1, WriteGoesOn DEF Held, Kinds
      <4> QED
        BY <4>1, <4>2 DEF Held, Cells
    <3>2. CASE k # write.file
      BY <2>5, <3>2, WriteGoesOn DEF Held, Kinds
    <3> QED
      BY <3>1, <3>2
  <2> QED
    BY <1>1, <2>5, <2>6, WriteGoesOn, DiskMoves DEF Shape
<1> QED
  BY <1>2, <1>3

-----------------------------------------------------------------------------
(* Steps on the disk preserve the invariant.                               *)

LEMMA DiskPhasing ==
  ASSUME Shape, Phasing, DiskStep
  PROVE  Phasing'
<1>1. CASE phase' = phase /\ write'.file = write.file
  BY <1>1, WriteFacts, WriteGoesOn DEF Phasing, Shape
<1>2. CASE write' = NoWrite /\ phase' = EndPhase
  <2>1. CASE write.file = "counter"
    BY <1>2, <2>1 DEF Phasing, NoWrite, EndPhase
  <2>2. CASE write.file # "counter"
    BY <1>2, <2>2 DEF Phasing, NoWrite, EndPhase
  <2> QED
    BY <2>1, <2>2
<1>3. CASE write' = NoWrite /\ phase' = "idle"
  BY <1>3 DEF Phasing, NoWrite
<1>4. ASSUME write # NoWrite, write' = [write EXCEPT !.step = "rotate"] \/ write' = [write EXCEPT !.step = "replace"]
                               \/ write' = [write EXCEPT !.tries = @ + 1]
      PROVE  write'.file = write.file
  BY <1>4, WriteFacts DEF Writes
<1>5. CASE WriteTmp
  BY <1>1, <1>4, <1>5 DEF WriteTmp
<1>6. CASE Rotate
  BY <1>1, <1>4, <1>6 DEF Rotate
<1>7. CASE Replace
  BY <1>2, <1>7 DEF Replace
<1>8. CASE Denied
  BY <1>1, <1>2, <1>4, <1>8 DEF Denied
<1>9. CASE CrashBetween \/ CrashInside
  BY <1>3, <1>9 DEF CrashBetween, CrashInside, Kill
<1> QED
  BY <1>5, <1>6, <1>7, <1>8, <1>9 DEF DiskStep

LEMMA DiskHonest ==
  ASSUME Shape, Honest, DiskStep
  PROVE  Honest'
<1>1. /\ Held("counter")' \subseteq Held("counter") \cup {Absent, Torn}
      /\ UNCHANGED <<declared, completed>>
      /\ write'.file = "none" \/ (write'.file = write.file /\ write'.value = write.value)
  BY DiskHeld, DiskMoves, WriteGoesOn DEF Kinds
<1> QED
  BY <1>1 DEF Honest, Readable

LEMMA DiskRecorded ==
  ASSUME Shape, Recorded, DiskStep
  PROVE  Recorded'
<1>1. /\ Held("ledger")' \subseteq Held("ledger") \cup {Absent, Torn}
      /\ UNCHANGED <<started, due>>
      /\ write'.file = "none" \/ (write'.file = write.file /\ write'.value = write.value)
      /\ phase' \in {phase, "idle"}
  BY DiskHeld, DiskMoves, WriteGoesOn DEF Kinds
<1>2. \A g : Past(g) => Past(g)'
  BY <1>1 DEF Past, Underway
<1>3. ASSUME NEW v \in Held("ledger")', Readable(v)
      PROVE  /\ Bounded(v)
             /\ \A i \in 1 .. Len(v) : Past(v[i].game)' /\ \A g \in due' : v[i].game < g
  <2>1. v \in Held("ledger")
    BY <1>1, <1>3 DEF Readable
  <2>2. /\ Bounded(v)
        /\ \A i \in 1 .. Len(v) : Past(v[i].game) /\ \A g \in due : v[i].game < g
    BY <1>3, <2>1 DEF Recorded
  <2> QED
    BY <1>1, <1>2, <2>2
<1>4. \A g \in due' : Past(g)'
  BY <1>1, <1>2 DEF Recorded
<1>5. write'.file = "ledger" => write'.value \in Seq(Rows)
  BY <1>1 DEF Recorded
<1> QED
  BY <1>3, <1>4, <1>5 DEF Recorded

(* What Kept says of the file while no counter is written.                 *)
Settled(f) ==
  /\ f.target # Torn
  /\ f.target # Absent => f.target >= counted
  /\ f.target = Absent => counted = 0 \/ (Readable(f.prev) /\ f.prev >= counted)

LEMMA DiskKept ==
  ASSUME GInv, DiskStep
  PROVE  Kept'
<1>1. Shape /\ Phasing /\ Honest /\ Kept /\ Shape'
  BY DiskHeld DEF GInv
<1>2. counted \in Nat /\ {Absent, Torn} \cap Nat = {} /\ Absent # Torn
  BY <1>1, MarkersAreNoCounts, AbsentNotTorn DEF Shape
<1> SUFFICES ASSUME torn' = 0
             PROVE  /\ Settled(file["counter"])'
                    /\ write'.file = "counter" =>
                         /\ write'.value > counted'
                         /\ write'.step \in {"rotate", "replace"} => file'["counter"].tmp = write'.value
                         /\ write'.step = "replace" => file'["counter"].target = Absent
  BY DEF Kept, Settled
<1>3. torn = 0
  <2>1. torn \in Nat /\ (torn' = torn \/ torn' = torn + 1)
    BY <1>1, DiskMoves DEF Shape
  <2> QED
    BY <2>1
<1>4. /\ Settled(file["counter"])
      /\ write.file = "counter" =>
           /\ write.value > counted
           /\ write.step \in {"rotate", "replace"} => file["counter"].tmp = write.value
           /\ write.step = "replace" => file["counter"].target = Absent
  BY <1>1, <1>3 DEF Kept, Settled
<1>5. NoWrite.file = "none"
  BY DEF NoWrite
<1>6. CASE write = NoWrite \/ write.file = "ledger"
  <2>1. file'["counter"] = file["counter"]
    <3>1. CASE file' = file
      BY <3>1
    <3>2. CASE file' # file
      <4>1. PICK g : file' = [file EXCEPT !["ledger"] = g]
        <5>1. write # NoWrite /\ write.file = "ledger"
          BY <1>1, <1>6, <3>2, DiskMoves
        <5> QED
          BY <1>1, <3>2, <5>1, DiskMoves
      <4> QED
        BY <1>1, <4>1 DEF Shape, Kinds
    <3> QED
      BY <3>1, <3>2
  <2>2. counted' = counted
    <3>1. write.file # "counter"
      BY <1>5, <1>6
    <3> QED
      BY <3>1, <1>6 DEF DiskStep, WriteTmp, Rotate, Replace, Denied, CrashBetween, CrashInside
  <2>3. write'.file # "counter"
    BY <1>5, <1>6, <1>1, WriteGoesOn
  <2> QED
    BY <1>4, <2>1, <2>2, <2>3 DEF Settled, Readable
<1>7. CASE write # NoWrite /\ write.file = "counter"
  <2> DEFINE f == file["counter"]
  <2>1. /\ f \in Triples /\ write \in Writes /\ file \in [Kinds -> Triples]
        /\ write.value \in Nat /\ write.value > counted
        /\ "counter" \in Kinds
    BY <1>1, <1>4, <1>7, WriteFacts DEF Kinds, Shape, Honest
  <2>2. CASE WriteTmp
    <3>1. /\ file'["counter"] = TmpWritten(f, write.value) /\ counted' = counted
          /\ write' = [write EXCEPT !.step = "rotate"]
      BY <1>7, <2>1, <2>2 DEF WriteTmp
    <3>2. /\ file'["counter"].tmp = write.value
          /\ file'["counter"].target = f.target /\ file'["counter"].prev = f.prev
      BY <2>1, <3>1 DEF TmpWritten, Triples
    <3>3. write'.value = write.value /\ write'.step = "rotate"
      BY <2>1, <3>1 DEF Writes
    <3> QED
      BY <1>4, <2>1, <3>1, <3>2, <3>3 DEF Settled, Readable
  <2>3. CASE Rotate
    <3>1. /\ file'["counter"] = Rotated(f) /\ counted' = counted
          /\ write' = [write EXCEPT !.step = "replace"] /\ write.step = "rotate"
      BY <1>7, <2>1, <2>3 DEF Rotate
    <3>2. /\ file'["counter"].tmp = f.tmp /\ file'["counter"].target = Absent
          /\ file'["counter"].prev = IF f.target = Absent THEN f.prev ELSE f.target
      BY <2>1, <3>1 DEF Rotated, Triples
    <3>3. write'.value = write.value /\ write'.step = "replace"
      BY <2>1, <3>1 DEF Writes
    <3> QED
      BY <1>2, <1>4, <1>7, <2>1, <3>1, <3>2, <3>3 DEF Settled, Readable
  <2>4. CASE Replace
    <3>1. /\ file'["counter"] = Replaced(f) /\ counted' = counted + 1
          /\ write' = NoWrite /\ f.tmp = write.value
      BY <1>4, <1>7, <2>1, <2>4 DEF Replace
    <3>2. file'["counter"].target = write.value
      BY <2>1, <3>1 DEF Replaced, Triples
    <3>3. write.value # Absent /\ write.value # Torn /\ write.value >= counted + 1
      BY <1>2, <2>1
    <3> QED
      BY <1>5, <3>1, <3>2, <3>3 DEF Settled
  <2>5. CASE Denied \/ CrashBetween
    <3>1. file' = file /\ counted' = counted
      BY <2>5 DEF Denied, CrashBetween
    <3>2. write' = NoWrite \/ (write'.value = write.value /\ write'.step = write.step)
      BY <2>1, <2>5 DEF Denied, CrashBetween, Kill, Writes
    <3> QED
      BY <1>4, <1>5, <1>7, <3>1, <3>2 DEF Settled, Readable
  <2>6. CASE CrashInside
    <3>1. PICK g \in CASE write.step = "tmp"    -> HalfWritten(f)
                       [] write.step = "rotate" -> HalfRotated(f)
                       [] OTHER                 -> HalfReplaced(f) :
            /\ file' = [file EXCEPT !["counter"] = g]
            /\ torn' = IF g.target = Torn /\ f.target # Torn THEN torn + 1 ELSE torn
      BY <1>7, <2>6 DEF CrashInside
    <3>2. counted' = counted /\ write' = NoWrite /\ file'["counter"] = g
      BY <2>1, <2>6, <3>1 DEF CrashInside, Kill
    <3>3. Settled(g)
      <4>1. CASE write.step = "tmp"
        <5>1. g.target = f.target /\ g.prev = f.prev
          BY <2>1, <3>1, <4>1 DEF HalfWritten, Triples
        <5> QED
          BY <1>4, <5>1 DEF Settled, Readable
      <4>2. CASE write.step = "rotate"
        <5>1. g.target = f.target /\ f.target # Absent
          BY <2>1, <3>1, <4>2 DEF HalfRotated, Triples
        <5> QED
          BY <1>4, <5>1 DEF Settled
      <4>3. CASE write.step # "tmp" /\ write.step # "rotate"
        <5>1. write.step = "replace" /\ f.tmp = write.value
          BY <1>4, <1>7, <2>1, <4>3 DEF Writes
        <5>2. g \in HalfReplaced(f)
          BY <3>1, <4>3
        <5>3. CASE g.target = Torn
          BY <1>3, <1>4, <3>1, <5>3 DEF Settled
        <5>4. CASE g.target = write.value
          BY <1>2, <2>1, <5>4 DEF Settled
        <5> QED
          BY <2>1, <5>1, <5>2, <5>3, <5>4 DEF HalfReplaced, Triples
      <4> QED
        BY <4>1, <4>2, <4>3
    <3> QED
      BY <1>5, <3>2, <3>3 DEF Settled, Readable
  <2> QED
    BY <2>2, <2>3, <2>4, <2>5, <2>6 DEF DiskStep
<1> QED
  BY <1>1, <1>6, <1>7, WriteFacts DEF Kinds

-----------------------------------------------------------------------------
(* What is read.                                                           *)

LEMMA CounterRead ==
  ASSUME Shape, Honest
  PROVE  ReadCounter \in Nat /\ ReadCounter <= completed /\ completed \in Nat
<1>1. completed \in Nat
  BY DEF Shape
<1>2. Load(file["counter"]) \in Held("counter")
  BY DEF Load, Held
<1> QED
  BY <1>1, <1>2 DEF ReadCounter, Honest

LEMMA CounterNotLost ==
  ASSUME Shape, Honest, Kept, torn = 0
  PROVE  ReadCounter >= counted
<1> DEFINE f == file["counter"]
<1>1. counted \in Nat /\ ReadCounter \in Nat
  BY CounterRead DEF Shape
<1>2. /\ f.target # Torn
      /\ f.target # Absent => f.target >= counted
      /\ f.target = Absent => counted = 0 \/ (Readable(f.prev) /\ f.prev >= counted)
  BY DEF Kept
<1>3. CASE f.target # Absent
  BY <1>2, <1>3 DEF ReadCounter, Load, Readable
<1>4. CASE f.target = Absent /\ Readable(f.prev)
  BY <1>1, <1>2, <1>4 DEF ReadCounter, Load, Readable
<1>5. CASE f.target = Absent /\ ~Readable(f.prev)
  BY <1>1, <1>2, <1>5
<1> QED
  BY <1>3, <1>4, <1>5

LEMMA LedgerRead ==
  ASSUME Shape, Recorded, ~LedgerRaises
  PROVE  /\ Bounded(ReadLedger) \/ ReadLedger = <<>>
         /\ ReadLedger \in Seq(Rows)
         /\ \A i \in 1 .. Len(ReadLedger) :
              Past(ReadLedger[i].game) /\ \A g \in due : ReadLedger[i].game < g
<1> DEFINE f == file["ledger"]
<1>1. CASE f.target = Absent
  <2>1. ReadLedger = <<>> /\ 1 .. Len(<<>>) = {}
    BY <1>1 DEF ReadLedger
  <2> QED
    BY <2>1
<1>2. CASE f.target # Absent
  <2>1. ReadLedger = Load(f)
    BY <1>2 DEF ReadLedger
  <2>2. Load(f) \in Held("ledger") /\ Readable(Load(f))
    BY <1>2 DEF Load, Held, LedgerRaises, Readable
  <2> QED
    BY <2>1, <2>2 DEF Recorded, Bounded
<1> QED
  BY <1>1, <1>2

(* An entry that is not refused keeps the ledger within its bounds.        *)
LEMMA EntryBounded ==
  ASSUME NEW rows \in Seq(Rows), Bounded(rows) \/ rows = <<>>,
         NEW o \in Opponent, NEW scored \in BOOLEAN, NEW g \in Nat,
         ~Refused(rows, o, scored), \A i \in 1 .. Len(rows) : rows[i].game < g
  PROVE  Bounded(Append(rows, [game |-> g, opponent |-> o, scored |-> scored]))
<1> DEFINE e == [game |-> g, opponent |-> o, scored |-> scored]
<1> DEFINE more == Append(rows, e)
<1>1. e \in Rows /\ e.game = g /\ e.opponent = o /\ e.scored = scored
  BY DEF Rows
<1> HIDE DEF e
<1>2. /\ more \in Seq(Rows) /\ Len(more) = Len(rows) + 1 /\ Len(rows) \in Nat
      /\ \A i \in 1 .. Len(rows) : more[i] = rows[i]
      /\ more[Len(rows) + 1] = e
  BY <1>1, AppendProperties
<1> HIDE DEF more
<1>3. Len(rows) < MaxGamesPerTeam /\ MaxGamesPerTeam \in Nat
  BY <1>2, RecordBounds DEF Refused
<1>4. scored => \A i \in 1 .. Len(rows) : ~(rows[i].scored /\ rows[i].opponent = o)
  <2>1. DOMAIN rows = 1 .. Len(rows)
    OBVIOUS
  <2> QED
    BY <2>1 DEF Refused, RangeOf
<1>5. /\ \A i, j \in 1 .. Len(rows) :
           rows[i].scored /\ rows[j].scored /\ rows[i].opponent = rows[j].opponent => i = j
      /\ \A i, j \in 1 .. Len(rows) : i < j => rows[i].game < rows[j].game
  <2>1. CASE rows = <<>>
    <3>1. 1 .. Len(rows) = {}
      BY <2>1
    <3> QED
      BY <3>1
  <2>2. CASE Bounded(rows)
    BY <2>2 DEF Bounded
  <2> QED
    BY <2>1, <2>2
<1>6. \A i \in 1 .. Len(more) : i \in 1 .. Len(rows) \/ i = Len(rows) + 1
  BY <1>2
<1>7. \A i, j \in 1 .. Len(more) :
        more[i].scored /\ more[j].scored /\ more[i].opponent = more[j].opponent => i = j
  BY <1>1, <1>2, <1>4, <1>5, <1>6
<1>8. \A i, j \in 1 .. Len(more) : i < j => more[i].game < more[j].game
  <2> SUFFICES ASSUME NEW i \in 1 .. Len(more), NEW j \in 1 .. Len(more), i < j
               PROVE  more[i].game < more[j].game
    OBVIOUS
  <2>1. i \in 1 .. Len(rows)
    BY <1>2
  <2>2. CASE j \in 1 .. Len(rows)
    BY <1>2, <1>5, <2>1, <2>2
  <2>3. CASE j = Len(rows) + 1
    BY <1>1, <1>2, <2>1, <2>3
  <2> QED
    BY <1>6, <2>2, <2>3
<1>9. Bounded(more)
  BY <1>2, <1>3, <1>7, <1>8 DEF Bounded
<1> QED
  BY <1>9 DEF more, e

-----------------------------------------------------------------------------
(* The steps of a game, and of the operator.                               *)

(* A step that touches neither file nor write: Kept and what is held stay. *)
LEMMA DiskUntouched ==
  ASSUME GInv, UNCHANGED <<file, write, counted, torn>>
  PROVE  Kept' /\ \A k : Held(k)' = Held(k)
BY DEF GInv, Kept, Held, Readable

LEMMA DeclareKeeps ==
  ASSUME GInv, Declare
  PROVE  GInv'
<1>1. /\ Shape /\ Phasing /\ Honest /\ Recorded
      /\ phase = "idle" /\ write = NoWrite /\ started < MaxGames
      /\ started' = started + 1 /\ declared' = ReadCounter /\ phase' = "declared"
      /\ UNCHANGED <<file, write, completed, due, counted, crashes, torn>>
  BY DEF GInv, Declare
<1>2. Kept' /\ \A k : Held(k)' = Held(k)
  BY <1>1, DiskUntouched
<1>3. started \in Nat /\ started' \in 0 .. MaxGames
  BY <1>1, RecordBounds DEF Shape
<1>4. Shape' /\ Honest'
  BY <1>1, <1>2, <1>3, CounterRead DEF Shape, Honest, Phases
<1>5. Phasing'
  BY <1>1 DEF Phasing, NoWrite
<1>6. \A g : Past(g) => Past(g)'
  BY <1>1, <1>3 DEF Past
<1>7. Recorded'
  BY <1>1, <1>2, <1>6 DEF Recorded
<1> QED
  BY <1>2, <1>4, <1>5, <1>7 DEF GInv

(* The game ends in front of its outcome, or before its first turn.        *)
LEMMA NotCountedKeeps ==
  ASSUME GInv, Handshake \/ NoOutcome
  PROVE  GInv'
<1>1. /\ Shape /\ Phasing /\ Honest /\ Recorded
      /\ phase \in {"declared", "playing"} /\ phase' \in {"playing", "idle"}
      /\ UNCHANGED <<file, write, declared, started, completed, due, counted, crashes, torn>>
  BY DEF GInv, Handshake, NoOutcome
<1>2. Kept' /\ \A k : Held(k)' = Held(k)
  BY <1>1, DiskUntouched
<1>3. Shape' /\ Honest'
  BY <1>1, <1>2 DEF Shape, Honest, Phases
<1>4. Phasing'
  BY <1>1 DEF Phasing, NoWrite
<1>5. \A g : Past(g) => Past(g)'
  BY <1>1 DEF Past, Underway
<1>6. Recorded'
  BY <1>1, <1>2, <1>5 DEF Recorded
<1> QED
  BY <1>2, <1>3, <1>4, <1>6 DEF GInv

LEMMA CompleteKeeps ==
  ASSUME GInv, Complete
  PROVE  GInv'
<1>1. /\ Shape /\ Phasing /\ Honest /\ Recorded /\ Kept
      /\ phase = "playing" /\ completed' = completed + 1 /\ due' = {started}
      /\ phase' = "recording" /\ Begin("counter", ReadCounter + 1)
      /\ UNCHANGED <<file, declared, started, counted, crashes, torn>>
  BY DEF GInv, Complete
<1>2. PICK n \in Nat : n = ReadCounter /\ n <= completed
  BY <1>1, CounterRead
<1>3. /\ write' = [file |-> "counter", step |-> "tmp", value |-> n + 1, tries |-> 0]
      /\ write'.file = "counter" /\ write'.step = "tmp" /\ write'.value = n + 1
  BY <1>1, <1>2 DEF Begin
<1>4. write = NoWrite /\ write.file = "none"
  BY <1>1 DEF Phasing, NoWrite
<1>5. completed \in Nat /\ declared \in Nat /\ started \in Nat /\ Retries \in Nat
  BY <1>1, RecordBounds DEF Shape
<1>6. Shape'
  <2>1. write' \in Writes
    BY <1>3, <1>5 DEF Writes, Kinds
  <2> QED
    BY <1>1, <1>5, <2>1 DEF Shape, Phases
<1>7. Phasing'
  BY <1>1, <1>3 DEF Phasing
<1>8. Honest'
  <2>1. Held("counter")' = Held("counter") \cup {n + 1}
    BY <1>1, <1>3, <1>4 DEF Held
  <2> QED
    BY <1>1, <1>2, <1>3, <1>5, <2>1 DEF Honest, Readable
<1>9. Kept'
  <2> SUFFICES ASSUME torn = 0 PROVE write'.value > counted
    BY <1>1, <1>3 DEF Kept, Readable
  <2>1. n >= counted /\ counted \in Nat
    BY <1>1, <1>2, CounterNotLost DEF Shape
  <2> QED
    BY <1>3, <2>1
<1>10. Recorded'
  <2>1. Held("ledger")' = Held("ledger")
    BY <1>1, <1>3, <1>4 DEF Held
  <2>2. \A g : Past(g) => Past(g)' /\ g < started
    BY <1>1 DEF Past, Underway
  <2>3. Past(started)'
    BY <1>1, <1>5 DEF Past, Underway
  <2>4. ASSUME NEW v \in Held("ledger")', Readable(v)
        PROVE  /\ Bounded(v)
               /\ \A i \in 1 .. Len(v) : Past(v[i].game)' /\ \A g \in due' : v[i].game < g
    BY <1>1, <2>1, <2>2, <2>4 DEF Recorded
  <2> QED
    BY <1>1, <1>3, <2>3, <2>4 DEF Recorded
<1> QED
  BY <1>6, <1>7, <1>8, <1>9, <1>10 DEF GInv

LEMMA RecordKeeps ==
  ASSUME GInv, NEW o \in Opponent, NEW scored \in BOOLEAN, Record(o, scored)
  PROVE  GInv'
<1>1. /\ Shape /\ Phasing /\ Honest /\ Recorded /\ Kept
      /\ phase = "idle" /\ write = NoWrite /\ write.file = "none" /\ ~LedgerRaises /\ due' = {}
      /\ UNCHANGED <<file, phase, declared, started, completed, counted, crashes, torn>>
  BY DEF GInv, Record, NoWrite
<1>2. \A g : Past(g) => Past(g)'
  BY <1>1 DEF Past, Underway
<1>3. CASE Refused(ReadLedger, o, scored)
  <2>1. write' = write
    BY <1>3 DEF Record
  <2>2. Kept' /\ \A k : Held(k)' = Held(k)
    BY <1>1, <2>1, DiskUntouched
  <2>3. Shape' /\ Phasing' /\ Honest'
    BY <1>1, <2>1, <2>2 DEF Shape, Phasing, Honest
  <2>4. Recorded'
    BY <1>1, <1>2, <2>1, <2>2 DEF Recorded
  <2> QED
    BY <2>2, <2>3, <2>4 DEF GInv
<1>4. CASE ~Refused(ReadLedger, o, scored)
  <2>1. PICK g \in due : Begin("ledger", Append(ReadLedger,
                            [game |-> g, opponent |-> o, scored |-> scored]))
    BY <1>4 DEF Record
  <2>2. PICK rows \in Seq(Rows) : rows = ReadLedger
    BY <1>1, LedgerRead
  <2>3. /\ Bounded(rows) \/ rows = <<>>
        /\ \A i \in 1 .. Len(rows) : Past(rows[i].game) /\ rows[i].game < g
    BY <1>1, <2>2, LedgerRead
  <2>4. Past(g) /\ g \in Nat
    BY <1>1 DEF Recorded, Past
  <2> DEFINE e == [game |-> g, opponent |-> o, scored |-> scored]
  <2> DEFINE more == Append(rows, e)
  <2>5. Bounded(more)
    BY <1>4, <2>2, <2>3, <2>4, EntryBounded
  <2>6. \A i \in 1 .. Len(more) : Past(more[i].game)
    <3>1. e \in Rows /\ e.game = g
      BY <2>4 DEF Rows
    <3> HIDE DEF e
    <3>2. /\ Len(more) = Len(rows) + 1 /\ Len(rows) \in Nat
          /\ \A i \in 1 .. Len(rows) : more[i] = rows[i]
          /\ more[Len(rows) + 1] = e
      BY <3>1, AppendProperties
    <3> QED
      BY <2>3, <2>4, <3>1, <3>2
  <2>7. /\ write' = [file |-> "ledger", step |-> "tmp", value |-> more, tries |-> 0]
        /\ write'.file = "ledger" /\ write'.step = "tmp" /\ write'.value = more
    BY <2>1, <2>2 DEF Begin
  <2> HIDE DEF more
  <2>8. more \in Seq(Rows)
    BY <2>5 DEF Bounded
  <2>9. Shape'
    <3>1. write' \in Writes
      BY <2>7, <2>8, RecordBounds DEF Writes, Kinds
    <3> QED
      BY <1>1, <3>1 DEF Shape
  <2>10. Held("counter")' = Held("counter") /\ Held("ledger")' = Held("ledger") \cup {more}
    BY <1>1, <2>7 DEF Held
  <2>11. Phasing' /\ Honest' /\ Kept'
    BY <1>1, <2>7, <2>10 DEF Phasing, Honest, Kept, Readable
  <2>12. Recorded'
    BY <1>1, <1>2, <2>5, <2>6, <2>7, <2>8, <2>10 DEF Recorded
  <2> QED
    BY <2>9, <2>11, <2>12 DEF GInv
<1> QED
  BY <1>3, <1>4

LEMMA InitKeeps ==
  ASSUME Init
  PROVE  GInv
<1>1. /\ file["counter"] = NoFile /\ file["ledger"] = NoFile /\ write.file = "none"
      /\ phase = "idle" /\ write = NoWrite /\ torn = 0 /\ counted = 0
  BY DEF Init, NoWrite, Kinds
<1>2. Shape
  <2>1. NoFile \in Triples
    BY DEF NoFile, Triples, Content
  <2> QED
    BY <2>1, RecordBounds DEF Init, Shape, Phases
<1>3. Held("counter") = {Absent} /\ Held("ledger") = {Absent}
  BY <1>1 DEF Held, NoFile
<1>4. Phasing /\ Honest
  BY <1>1, <1>3 DEF Init, Phasing, Honest, Readable
<1>5. Kept
  BY <1>1, AbsentNotTorn DEF Kept, NoFile
<1>6. Recorded
  BY <1>1, <1>3 DEF Init, Recorded, Readable
<1> QED
  BY <1>2, <1>4, <1>5, <1>6 DEF GInv

LEMMA NextKeeps ==
  ASSUME GInv, [Next]_vars
  PROVE  GInv'
<1>1. CASE DiskStep
  BY <1>1, DiskHeld, DiskPhasing, DiskHonest, DiskRecorded, DiskKept DEF GInv
<1>2. CASE Declare
  BY <1>2, DeclareKeeps
<1>3. CASE Handshake \/ NoOutcome
  BY <1>3, NotCountedKeeps
<1>4. CASE Complete
  BY <1>4, CompleteKeeps
<1>5. ASSUME NEW o \in Opponent, NEW scored \in BOOLEAN, Record(o, scored) PROVE GInv'
  BY <1>5, RecordKeeps
<1>6. CASE UNCHANGED vars
  BY <1>6 DEF vars, GInv, Shape, Phasing, Honest, Kept, Recorded, Held, Past, Underway, Readable
<1> QED
  BY <1>1, <1>2, <1>3, <1>4, <1>5, <1>6 DEF Next, DiskStep, Over

-----------------------------------------------------------------------------
(* The inductive invariant of the durable files.                           *)
THEOREM RecordsInvariance == Spec => []GInv
BY InitKeeps, NextKeeps, PTL DEF Spec

(* read_games_played never returns, and declare_step0 never declared, more *)
(* games than had an outcome: rule 38, over every kill, denied step and    *)
(* fallback of durable_write.py.                                           *)
THEOREM HonestCount == Spec => []NeverOverstated
<1>1. GInv => NeverOverstated
  BY CounterRead DEF GInv, Honest, NeverOverstated
<1> QED
  BY <1>1, RecordsInvariance, PTL

(* Where os.replace is whole, no count that durable_write_json returned    *)
(* from is ever lost again.                                                *)
THEOREM NoCountLost == Spec => []CountKept
<1>1. GInv => CountKept
  BY CounterNotLost DEF GInv, CountKept
<1> QED
  BY <1>1, RecordsInvariance, PTL

(* Every readable generation of the ledger obeys refuse_if_bounded, and    *)
(* lists the games in the order they were played, each once.               *)
THEOREM LedgerBounds == Spec => []LedgerWithinBounds
<1>1. ASSUME GInv, NEW part \in {"tmp", "target", "prev"}, Readable(file["ledger"][part])
      PROVE  Bounded(file["ledger"][part])
  <2>1. file["ledger"][part] \in Held("ledger")
    BY DEF Held
  <2> QED
    BY <1>1, <2>1 DEF GInv, Recorded
<1>2. \A rows \in Seq(Rows) : DOMAIN rows = 1 .. Len(rows)
  OBVIOUS
<1>3. GInv => LedgerWithinBounds
  BY <1>1, <1>2 DEF LedgerWithinBounds, Bounded
<1> QED
  BY <1>3, RecordsInvariance, PTL

(* What the two files may hold, and where a write may stand.               *)
THEOREM RecordTypes == Spec => []TypeOK
<1>1. ASSUME GInv PROVE TypeOK
  <2>1. Shape /\ Honest /\ Recorded
    BY <1>1 DEF GInv
  <2>2. ASSUME NEW k \in Kinds, NEW part \in {"tmp", "target", "prev"}, Readable(file[k][part])
        PROVE  file[k][part] \in Payloads(k)
    <3>1. file[k][part] \in Held(k)
      BY DEF Held
    <3> QED
      BY <2>1, <2>2, <3>1 DEF Kinds, Payloads, Honest, Recorded, Bounded
  <2>3. write # NoWrite =>
          /\ write.file \in Kinds /\ write.value \in Payloads(write.file)
          /\ write.step \in {"tmp", "rotate", "replace"} /\ write.tries \in 0 .. Retries
    BY <2>1, WriteFacts DEF Kinds, Payloads, Honest, Recorded
  <2>4. due \subseteq Nat
    BY <2>1 DEF Recorded, Past
  <2> QED
    BY <2>1, <2>2, <2>3, <2>4 DEF TypeOK, Shape
<1> QED
  BY <1>1, RecordsInvariance, PTL
=============================================================================
