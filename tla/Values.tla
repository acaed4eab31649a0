-------------------------------- MODULE Values -------------------------------
(***************************************************************************)
(* The algorithms of the worker on any input, and what their results are   *)
(* to be compared with: the requests of a poll over a web of playlists;    *)
(* DASH templates and the lists of segments they stand for, sliding along  *)
(* the stream as those of a live stream do; and segments with every        *)
(* pattern of silence.                                                     *)
(***************************************************************************)
EXTENDS ManifestPoll, Measure

CONSTANTS
    Numbers,      \* that a template may declare for its first segment
    Times,        \* the t of an S element, 0 when it is absent
    Durations,    \* the d of an S element, in units of the timescale
    Constants,    \* durations where all segments have the same, and no element has one
    Repetitions,  \* the r of an S element
    Scales,       \* timescales
    Totals,       \* of a presentation, in seconds
    RoundedPast,  \* <<duration, timescale, total>> whose quotient is a whole number, and
                  \* comes out larger when it is computed in float64
    MaxElements   \* the S elements of a timeline

\* d / scale is a binary fraction, which a float64 holds as it is.
Exact(d, scale) == \E k \in 0..scale : (d * 2^k) % scale = 0

\* A declared number 0 is not told from an absent one, which is read as 1, and a
\* negative r, "until the next element", is taken for 0: neither stands for a list.
ASSUME ValuesAssumption ==
    /\ Numbers \subseteq Nat \ {0}
    /\ Times \subseteq Nat /\ Durations \subseteq Nat /\ Repetitions \subseteq Nat
    /\ Constants \subseteq Nat /\ Scales \subseteq Nat /\ Totals \subseteq Nat
    /\ MaxElements \in Nat \ {0, 1}
    /\ \A past \in RoundedPast :
          LET d == past[1]  scale == past[2]  end == past[3] * scale
          IN  d # 0 /\ scale # 0 /\ ~Exact(d, scale) /\ \E n \in 0..end : n * d = end

\* The manifest URL: no URL is special.
AnyUrl == CHOOSE u \in Urls : TRUE

VARIABLES
    template,
    sound     \* what is silent in a segment, and how ffmpeg prints it

Absent == -1

\* startNumber is what the XML decoder makes of the declared number.
Decoded(declared) == IF declared = Absent THEN 0 ELSE declared

Declared  == Numbers \cup {Absent}
Elements  == [t : Times, d : Durations, r : Repetitions]
Timelines == UNION {[1..n -> Elements] : n \in 1..MaxElements}

Timed == [declared : Declared, timescale : {1}, duration : {0}, total : {0},
          timeline : Timelines]
Counted == [declared : Declared, timescale : Scales, duration : Constants,
            total : Totals, timeline : {<<>>}]

NoTemplate == [declared |-> Absent]
NoSound    == [quiet |-> {}, early |-> FALSE, open |-> FALSE]

Document(t) ==
    [ startNumber |-> Decoded(t.declared), timescale |-> t.timescale,
      duration |-> t.duration, total |-> t.total, timeline |-> t.timeline,
      past |-> <<t.duration, t.timescale, t.total>> \in RoundedPast ]

ValuesInit ==
    /\ call = "none" /\ depth = 0
    /\ start = AnyUrl /\ at = AnyUrl
    /\ \/ web \in Webs /\ template = NoTemplate /\ sound = NoSound
       \/ /\ web = [u \in Urls |-> [kind |-> "broken"]]
          /\ \/ template \in Timed \cup Counted /\ sound = NoSound
             \/ /\ template = NoTemplate
                /\ sound \in [quiet : SUBSET (0..(Total - 1)), early : BOOLEAN, open : BOOLEAN]

IsTimed   == template # NoTemplate /\ template.timeline # <<>>
IsCounted == template # NoTemplate /\ template.timeline = <<>>

-----------------------------------------------------------------------------
\* What a timeline stands for: segment k of element i, for every one of them.

Listed(timeline) == UNION {{i} \X (0..timeline[i].r) : i \in DOMAIN timeline}

Begins(timeline) ==
    LET begin[i \in 1..Len(timeline)] ==
            IF i = 1 \/ timeline[i].t # 0 THEN timeline[i].t
            ELSE begin[i-1] + timeline[i-1].d * (timeline[i-1].r + 1)
    IN begin

First(t) == IF t.declared = Absent THEN 1 ELSE t.declared

\* A live presentation goes on: its first element leaves the timeline, an element
\* with r + 1 segments joins it.
Slides(d, r) ==
    /\ IsTimed /\ Len(template.timeline) = MaxElements
    /\ template.declared = 1
    /\ \A i \in 1..MaxElements : template.timeline[i].d # 0
    /\ LET old == template.timeline IN
       template' = [template EXCEPT
           !.declared = @ + old[1].r + 1,
           !.timeline = [i \in 1..MaxElements |->
               IF i = MaxElements THEN [t |-> 0, d |-> d, r |-> r]
               ELSE IF i = 1 THEN [old[2] EXCEPT !.t = Begins(old)[2]]
               ELSE old[i + 1]]]
    /\ UNCHANGED <<vars, sound>>

ValuesNext ==
    \/ template = NoTemplate /\ sound = NoSound /\ Next /\ UNCHANGED <<template, sound>>
    \/ \E d \in Durations \ {0}, r \in Repetitions : Slides(d, r)

ValuesSpec == ValuesInit /\ [][ValuesNext]_<<vars, template, sound>>

FairValuesSpec == ValuesSpec /\ WF_vars(Next /\ UNCHANGED <<template, sound>>)

-----------------------------------------------------------------------------
\* The latest segment of a timeline is the last of those it lists, by number, by time
\* and by duration; a missing duration is an error.
TimelineLast ==
    IsTimed =>
        LET line == template.timeline
            last == Len(line)
        IN  LatestDASH(Document(template)) =
                IF \E i \in 1..last : line[i].d = 0 THEN Error
                ELSE [ number   |-> First(template) + Cardinality(Listed(line)) - 1,
                       time     |-> Begins(line)[last] + line[last].d * line[last].r,
                       duration |-> line[last].d ]

\* Without a timeline it is the segment the presentation ends in: it begins before the
\* end and does not end before it.  Only where the end is the end of a segment, and the
\* quotient is rounded past it, is it the one that would begin there.
CountedLast ==
    IsCounted =>
        LET latest == LatestDASH(Document(template))
            scale  == IF template.timescale = 0 THEN 1 ELSE template.timescale
            end    == template.total * scale
        IN  IF template.duration = 0 \/ template.total = 0 THEN latest = Error
            ELSE /\ IF <<template.duration, template.timescale, template.total>> \in RoundedPast
                       THEN latest.time = end
                       ELSE latest.time < end /\ end <= latest.time + latest.duration
                 /\ (latest.number - First(template)) * template.duration = latest.time

LatestIsLast == TimelineLast /\ CountedLast

\* Sliding along a live stream, numbers go up by one for every segment, whatever leaves
\* the timeline: what the worker compares segments by.
NumbersGoOn ==
    [][\A d \in Durations \ {0}, r \in Repetitions : Slides(d, r) =>
          LatestDASH(Document(template')).number =
              LatestDASH(Document(template)).number + r + 1]_template

\* Never more silence is measured than there is, and all of it that lasts long enough,
\* for silences that begin before the segment, which are printed with a sign the
\* pattern does not match, and for those the segment ends in, which are printed without
\* their end; only a segment with both loses the second.  Where everything is printed
\* the sound is measured as the picture is.
SilenceMeasured ==
    LET lines    == Printed(sound.quiet, sound.early, sound.open)
        measured == SilenceDuration(lines)
        all      == BlackDuration(sound.quiet)
        unended  == {i \in Intervals(sound.quiet) : sound.open /\ i[2] = Total}
        unbegun  == {i \in Intervals(sound.quiet) : sound.early /\ i[1] = 0}
    IN  /\ measured <= all /\ all <= Cardinality(sound.quiet)
        /\ (unended = {} \/ unbegun = {}) => measured = all
        /\ Fully(measured) => 10 * Cardinality(sound.quiet) > 9 * Total
=============================================================================
