------------------------------ MODULE Progress ------------------------------
(***************************************************************************)
(* workloaddiag.changeWriter: between a status table that is rendered      *)
(* again on every poll and the log of the run.  A distinct line is passed  *)
(* on once, however the writes cut it up.                                  *)
(*                                                                         *)
(* External: the writer of the table.  A byte is one of a few.             *)
(***************************************************************************)
EXTENDS Naturals, SequencesExt

CONSTANTS MaxBytes, MaxPiece \* bounds: bytes written in all and in one write

VARIABLES
  partial,  \* the bytes since the last line break
  emitted,  \* the lines passed on, which are the ones seen
  written   \* history: every byte written

progressVars == <<partial, emitted, written>>

Letters == {"x", "y"}
Spaces == {" ", "cr"}
Bytes == Letters \cup Spaces \cup {"nl"}

ProgressInit == partial = <<>> /\ emitted = <<>> /\ written = <<>>

\* The last line break among the first n bytes, 0 before there is one.
LastBreak(text, n) == Max({0} \cup {i \in 1..n : text[i] = "nl"})

TrimRight(line) ==
  SubSeq(line, 1, Max({0} \cup {i \in DOMAIN line : line[i] # "cr"}))

\* The line that the break at n ends, without its end.
LineEndingAt(text, n) == TrimRight(SubSeq(text, LastBreak(text, n - 1) + 1, n - 1))

IsBlank(line) == ToSet(line) \subseteq Spaces

RecordLine(out, line) == IF IsBlank(line) \/ line \in ToSet(out) THEN out ELSE Append(out, line)

\* The lines of a text, recorded one after the other.
Recorded(out, text) ==
  LET after[n \in 0..Len(text)] ==
        IF n = 0 THEN out
        ELSE IF text[n] = "nl" THEN RecordLine(after[n - 1], LineEndingAt(text, n))
        ELSE after[n - 1]
  IN  after[Len(text)]

\* Mutant: what did not end on a line boundary is not put back.
UnfinishedDropped(text) == <<>>

Unfinished(text) == SubSeq(text, LastBreak(text, Len(text)) + 1, Len(text))

Write(p) ==
  /\ Len(written) + Len(p) <= MaxBytes
  /\ emitted' = Recorded(emitted, partial \o p)
  /\ partial' = Unfinished(partial \o p)
  /\ written' = written \o p

ProgressNext == \E n \in 1..MaxPiece : \E p \in [1..n -> Bytes] : Write(p)

ProgressSpec == ProgressInit /\ [][ProgressNext]_progressVars

-----------------------------------------------------------------------------
(* Properties *)

\* The log is the timeline: each line that was ever complete is in it once, at
\* its first appearance, wherever the writes were cut (changewriter.go:37-45).
TimelineIsWhole == emitted = Recorded(<<>>, written)
=============================================================================
