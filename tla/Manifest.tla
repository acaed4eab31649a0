------------------------------ MODULE Manifest ------------------------------
(***************************************************************************)
(* What the worker learns from a manifest, internal/manifest/manifest.go:  *)
(* which segment is the latest one, its number, its duration and the time  *)
(* its URL is made of.                                                     *)
(*                                                                         *)
(* Operators on one document; the requests are in ManifestPoll.            *)
(***************************************************************************)
EXTENDS Integers, Sequences, SequencesExt, FiniteSetsExt

Error == [error |-> TRUE]

-----------------------------------------------------------------------------
\* HLS.

\* lowestBandwidthVariant, and the loop of selectSegmentTemplate: the first of the
\* lowest.
Lowest(variants) ==
    CHOOSE i \in DOMAIN variants : \A j \in DOMAIN variants :
        \/ variants[i].bandwidth < variants[j].bandwidth
        \/ variants[i].bandwidth = variants[j].bandwidth /\ i <= j

\* extractLatestFromMediaPlaylist: the entries may be nil.
LatestHLS(playlist) ==
    LET present == {i \in DOMAIN playlist.entries : playlist.entries[i].uri # "nil"} IN
    IF present = {} THEN Error
    ELSE [ uri      |-> playlist.entries[Max(present)].uri,
           duration |-> playlist.entries[Max(present)].duration,
           sequence |-> playlist.seqNo + Max(present) - 1 ]

-----------------------------------------------------------------------------
\* DASH.  Times and durations are in units of the timescale.

AtLeast(min, n) == IF n < min THEN min ELSE n

Repeats(s) == AtLeast(0, s.r)

LastTime(s, from) == from + s.d * Repeats(s)

\* One S element: "at" is where it begins, t = 0 being taken for an absent t.
OneElementAppended(acc, s) ==  \* mutant: t moves the clock only at the first element
    [ next  |-> LastTime(s, IF acc.count = 0 THEN s.t ELSE acc.next) + s.d,
      time  |-> LastTime(s, IF acc.count = 0 THEN s.t ELSE acc.next),
      count |-> acc.count + 1 + Repeats(s) ]

OneElement(acc, s) ==
    LET at == IF s.t # 0 \/ acc.count = 0 THEN s.t ELSE acc.next IN
    [ next  |-> LastTime(s, at) + s.d,
      time  |-> LastTime(s, at),
      count |-> acc.count + 1 + Repeats(s) ]

WalkTimeline(timeline) ==
    FoldLeft(OneElement, [next |-> 0, time |-> 0, count |-> 0], timeline)

\* estimateSegmentCount: the whole presentation, rounded up.  The quotient is of two
\* float64: where it is a whole number, and the duration of a segment is none a float64
\* can hold, it may come out just "past" that number, and is rounded up to the next.
EstimateRoundedDown(template) ==  \* mutant: floor for ceil
    AtLeast(1, (template.total * template.timescale) \div template.duration)

Estimate(template) ==
    AtLeast(1, (template.total * template.timescale + template.duration - 1)
                   \div template.duration + IF template.past THEN 1 ELSE 0)

Timescale(template) == IF template.timescale <= 0 THEN 1 ELSE template.timescale

\* startNumber, whose absence is read as 0.
StartNumber(template) == IF template.startNumber = 0 THEN 1 ELSE template.startNumber

LatestNumberFromOne(template, count) == AtLeast(1, count)  \* mutant
LatestNumber(template, count) == AtLeast(1, StartNumber(template) + count - 1)

\* buildLatestDASHSegment; total is mediaPresentationDuration, 0 when it is missing or
\* does not parse.
LatestDASH(template) ==
    LET timed   == template.timeline # <<>>
        walked  == WalkTimeline(template.timeline)
        scaled  == [template EXCEPT !.timescale = Timescale(template)]
        counted == Estimate(scaled)
    IN
    IF timed
    THEN IF \E i \in DOMAIN template.timeline : template.timeline[i].d = 0 THEN Error
         ELSE [ number   |-> LatestNumber(template, walked.count),
                time     |-> walked.time,
                duration |-> Last(template.timeline).d ]
    ELSE IF template.duration <= 0 \/ template.total = 0 THEN Error
         ELSE [ number   |-> LatestNumber(template, counted),
                time     |-> (counted - 1) * template.duration,
                duration |-> template.duration ]
=============================================================================
