----------------------------- MODULE DurableFile -----------------------------
(***************************************************************************)
(* One file of shared/durable_write.py: the target, its rotated .prev      *)
(* generation, and the temporary file beside them.  The module is pure:    *)
(* the steps of durable_write_bytes, what a crash inside a step can leave  *)
(* behind, and load_json_with_fallback, as operators on such a triple.     *)
(***************************************************************************)
CONSTANTS
  Absent, \* the file does not exist
  Torn    \* the file exists and does not parse

ASSUME AbsentNotTorn == Absent # Torn

NoFile == [tmp |-> Absent, target |-> Absent, prev |-> Absent]

Readable(v) == v # Absent /\ v # Torn

(* The three steps.                                                        *)
TmpWritten(f, v) == [f EXCEPT !.tmp = v]

(* Mutant: the old generation is dropped, not kept.                        *)
RotatedAway(f) == [f EXCEPT !.target = Absent]

Rotated(f) ==
  IF f.target = Absent THEN f
  ELSE [f EXCEPT !.prev = f.target, !.target = Absent]

Replaced(f) == [f EXCEPT !.target = f.tmp, !.tmp = Absent]

(* What a process killed inside a step may leave, apart from the step not  *)
(* begun and the step done: os.replace is not atomic on every platform,    *)
(* and may be a copy that is followed by a delete.                         *)
HalfWritten(f) == {[f EXCEPT !.tmp = Torn]}
HalfRotated(f) ==
  IF f.target = Absent THEN {}
  ELSE {[f EXCEPT !.prev = Torn], [f EXCEPT !.prev = f.target]}
HalfReplaced(f) == {[f EXCEPT !.target = Torn], [f EXCEPT !.target = f.tmp]}

(* A whole write; what a denied step, or a kill anywhere, leaves of one.   *)
Written(f, v) == Replaced(Rotated(TmpWritten(f, v)))
LeftByDenial(f, v) == {f, TmpWritten(f, v), Rotated(TmpWritten(f, v))}
LeftByKill(f, v) ==
  LET t == TmpWritten(f, v) IN
  LeftByDenial(f, v) \cup {Written(f, v)}
    \cup HalfWritten(f) \cup HalfRotated(t) \cup HalfReplaced(Rotated(t))

(* Mutant: only the target is looked at.                                   *)
LoadTarget(f) == f.target

(* load_json_with_fallback; not Readable when neither generation parses.   *)
Load(f) == IF Readable(f.target) THEN f.target ELSE f.prev
=============================================================================
