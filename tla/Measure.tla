------------------------------ MODULE Measure ------------------------------
(***************************************************************************)
(* How much of a segment is black or silent, internal/ffmpeg/ffmpeg.go:    *)
(* sums over the intervals ffmpeg prints, and the share above which the    *)
(* segment counts as fully black or silent.  Times are in ticks.           *)
(***************************************************************************)
EXTENDS Integers, FiniteSets, FiniteSetsExt

CONSTANTS
    Total,    \* the duration of the segment, of getDuration
    Shortest  \* the d of blackdetect and silencedetect

ASSUME MeasureAssumption == Total \in Nat /\ Shortest \in Nat \ {0}

\* ffmpeg: the intervals of which all is black, or silent; short ones are left out.
Intervals(quiet) ==
    {i \in (0..Total) \X (0..Total) :
        /\ i[1] + Shortest <= i[2]
        /\ i[1]..(i[2] - 1) \subseteq quiet
        /\ i[1] - 1 \notin quiet /\ i[2] \notin quiet}

Span(i) == i[2] - i[1]

\* ffmpeg: what is printed of them.  The first may begin before 0, and the last may
\* lack its end when the segment is over.  What lies before 0, some milliseconds that
\* silence_duration includes, is less than a tick and counts for nothing.
Printed(quiet, early, open) ==
    [ starts |-> {i[1] : i \in {j \in Intervals(quiet) : ~(early /\ j[1] = 0)}},
      ends   |-> {i \in Intervals(quiet) : ~(open /\ i[2] = Total)} ]

\* detectBlack: every interval is printed on one line.
BlackDuration(quiet) == MapThenSumSet(Span, Intervals(quiet))

\* detectSilence.  A start before 0 does not match the pattern; when there are more
\* starts than ends, the last one counts to the end of the segment.
UnendedNever(lines) == 0  \* mutant: a silence without an end is not counted
Unended(lines) ==
    IF Cardinality(lines.starts) > Cardinality(lines.ends)
    THEN Total - Max(lines.starts) ELSE 0

SilenceDuration(lines) == MapThenSumSet(Span, lines.ends) + Unended(lines)

\* FullyBlack, FullySilent: both are detectors of the same shape.
Fully(duration) == Total > 0 /\ 10 * duration > 9 * Total
=============================================================================
