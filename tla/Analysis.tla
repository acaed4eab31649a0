------------------------------- MODULE Analysis -------------------------------
(***************************************************************************)
(* The analysis loop of the worker over the segments of a stream,          *)
(* internal/worker/worker.go: which segments it takes for new, by number   *)
(* and by URL, across refreshes of the manifest URL and stale copies of    *)
(* the playlist; and what it says of black segments.  Silence is detected  *)
(* by the same code with other names.                                      *)
(*                                                                         *)
(* Every webhook is delivered here: what becomes of the loop when one      *)
(* fails is in module Worker, which looks at no segment.                   *)
(***************************************************************************)
EXTENDS Manifest

CONSTANTS
    Manifests,    \* URLs yt-dlp may return for the stream
    Numberings,   \* how the playlists there may number the segments: an offset, or
    Unnumbered,   \* none, that is always from 0: no EXT-X-MEDIA-SEQUENCE, no startNumber
    Window,       \* bound: the segments in a playlist
    Lengths,      \* of a segment, in ticks
    Threshold,    \* BlackoutThreshold, in ticks
    MaxSegments,  \* bound: the segments of the stream
    MaxSum        \* bound: sums of lengths stop there

ASSUME AnalysisAssumption ==
    /\ Manifests # {}
    /\ Numberings \subseteq Nat \cup {Unnumbered} /\ Unnumbered \notin Nat
    /\ Window \in Nat \ {0}
    /\ Lengths \subseteq Nat
    /\ Threshold \in Nat \ {0}  \* LoadWorkerConfig ignores one that is not positive
    /\ MaxSegments \in Nat /\ MaxSum \in Nat /\ MaxSum > Threshold
    /\ \A m \in Manifests, p \in 1..MaxSegments : <<m, p>> # "nil"  \* see Url

VARIABLES
    stream,     \* the segments so far: whether each is black, and its length
    numbering,
    pc,         \* "poll", or "fetch" when a segment has been found new
    manifest,   \* currentManifestURL
    changed,    \* manifestURLChanged
    rebaseline, \* isRebaseline
    found,      \* the segment to fetch: its place in the stream, its number, and how many
                \* segments there are in the playlist it was found in
    last,       \* lastSegmentSequence and lastSegmentURL
    stale,      \* no new segment for suspensionAlertThreshold
    suspended,  \* suspendedAlertSent
    black       \* consecutiveBlack, whether there is a blackoutStart, blackoutAlertSent

VARIABLES  \* what has happened
    reached,    \* the newest segment analysed since the manifest URL has changed, and how
    among,      \* many there were in its playlist
    lost,       \* the change has been taken note of, and no segment analysed since
    stretch,    \* the segments analysed since the last one that was not black
    moved       \* the manifest URL has changed within the stretch

outside  == <<stream, numbering>>
progress == <<reached, among, lost>>
shadow   == <<stretch, moved>>
vars == <<outside, pc, manifest, changed, rebaseline, found, last, stale, suspended,
          black, progress, shadow>>

\* How long a segment is that is not black matters to nobody.
Segments == [black : {TRUE}, length : Lengths] \cup [black : {FALSE}, length : {0}]

Url(m, p) == <<m, p>>
\* No URL is special.
First == CHOOSE m \in Manifests : TRUE
Nothing == [at |-> 0, sequence |-> 0, among |-> 0]
Clear == [total |-> 0, begun |-> FALSE, alert |-> FALSE]

TypeOK ==
    /\ stream \in Seq(Segments)
    /\ numbering \in [Manifests -> Numberings]
    /\ pc \in {"poll", "fetch"} /\ manifest \in Manifests
    /\ changed \in BOOLEAN /\ rebaseline \in BOOLEAN
    /\ stale \in BOOLEAN /\ suspended \in BOOLEAN
    /\ lost \in BOOLEAN /\ moved \in BOOLEAN
    /\ found.at \in 0..Len(stream) /\ found.sequence \in Nat /\ found.among \in Nat
    /\ last.sequence \in Nat
    /\ last.url \in {<<>>} \cup (Manifests \X (1..Len(stream)))
    /\ black \in [total : Nat, begun : BOOLEAN, alert : BOOLEAN]
    /\ reached \in 0..Len(stream) /\ among \in Nat /\ stretch \subseteq 1..Len(stream)

Init ==
    /\ stream = <<>> /\ numbering \in [Manifests -> Numberings]
    /\ pc = "poll" /\ manifest = First
    /\ changed = FALSE /\ rebaseline = FALSE
    /\ found = Nothing
    /\ last = [sequence |-> 0, url |-> <<>>]
    /\ stale = FALSE /\ suspended = FALSE /\ black = Clear
    /\ reached = 0 /\ among = 0 /\ lost = FALSE
    /\ stretch = {} /\ moved = FALSE

-----------------------------------------------------------------------------
\* The stream goes on, and time passes.

Append1(segment) ==
    /\ Len(stream) < MaxSegments
    /\ stream' = Append(stream, segment)
    /\ UNCHANGED <<numbering, pc, manifest, changed, rebaseline, found, last, stale,
                   suspended, black, progress, shadow>>

Goes == \E segment \in Segments : Append1(segment)

Tick ==
    /\ ~stale /\ stale' = TRUE
    /\ UNCHANGED <<outside, pc, manifest, changed, rebaseline, found, last, suspended,
                   black, progress, shadow>>

\* The playlist whose latest segment is p, with so many segments: without numbers a list
\* that gets shorter numbers its latest segment lower.
Playlist(p, size) ==
    LET first == p - size + 1 IN
    [ seqNo   |-> IF numbering[manifest] = Unnumbered THEN 0
                  ELSE numbering[manifest] + first,
      entries |-> [i \in 1..size |->
                      [uri |-> Url(manifest, first + i - 1),
                       duration |-> stream[first + i - 1].length]] ]

-----------------------------------------------------------------------------
\* The refresh of the manifest URL.

Refresh ==
    /\ pc = "poll"
    /\ manifest' \in Manifests \ {manifest}
    /\ changed' = TRUE
    /\ reached' = 0 /\ among' = 0 /\ lost' = FALSE /\ moved' = TRUE
    /\ UNCHANGED <<outside, pc, rebaseline, found, last, stale, suspended, black,
                   stretch>>

\* analyzeLatestSegment: the comparison with the last segment.
IsOldByNumber(latest) ==  \* mutant: the fallback to the URL is missing
    latest.sequence <= last.sequence

IsOldByUrl(latest) ==  \* mutant: the numbers are not looked at
    latest.uri = last.url

IsOld(latest) ==
    \/ latest.sequence < last.sequence
    \/ latest.sequence = last.sequence /\ latest.uri = last.url

\* checkSuspension
CheckSuspension == suspended' = (suspended \/ stale)

\* GetLatestSegment returns, from a copy of the playlist that may be one segment old.
\* When it fails nothing changes.
Poll(p, size) ==
    LET latest == LatestHLS(Playlist(p, size)) IN
    /\ pc = "poll" /\ p \in 1..Len(stream) /\ size \in 1..Window /\ size <= p
    /\ changed' = FALSE
    /\ \/ /\ IsOld(latest)
          /\ CheckSuspension
          /\ lost' = (lost \/ changed)
          /\ UNCHANGED <<pc, found, rebaseline>>
       \/ /\ ~IsOld(latest)
          /\ pc' = "fetch" /\ found' = [at |-> p, sequence |-> latest.sequence, among |-> size]
          /\ rebaseline' = changed
          /\ UNCHANGED <<suspended, lost>>
    /\ UNCHANGED <<outside, manifest, last, stale, black, reached, among, shadow>>

PollLatest == \E size \in 1..Window : Poll(Len(stream), size)

PollAny == PollLatest \/ \E size \in 1..Window : Poll(Len(stream) - 1, size)

\* analyzeLatestSegment returns, and its variables are gone.
Done == pc' = "poll" /\ found' = Nothing /\ rebaseline' = FALSE

\* FetchSegment, or AnalyzeSegment, fails: an error of the segment.
FetchFails ==
    /\ pc = "fetch" /\ Done
    /\ lost' = (lost \/ rebaseline)
    /\ UNCHANGED <<outside, manifest, changed, last, stale, suspended, black, reached,
                   among, shadow>>

-----------------------------------------------------------------------------
\* What is made of an analysed segment.

Sum(length) == IF black.total + length < MaxSum THEN black.total + length ELSE MaxSum

DetectionKept(fully, length) ==  \* mutant: the recovery does not reset the sum
    [ total |-> IF fully THEN Sum(length) ELSE black.total,
      begun |-> fully,
      alert |-> IF fully THEN black.alert \/ Sum(length) >= Threshold
                ELSE black.alert /\ ~black.begun ]

\* processBlackDetection
Detection(fully, length) ==
    [ total |-> IF fully THEN Sum(length) ELSE 0,
      begun |-> fully,
      alert |-> IF fully THEN black.alert \/ Sum(length) >= Threshold
                ELSE black.alert /\ ~black.begun ]

RebaselinedAlways ==  \* mutant: a new manifest URL is no reason for care
    stale' = FALSE /\ suspended' = FALSE

\* A segment of a new manifest URL says nothing about the suspension.
Rebaselined ==
    IF rebaseline THEN UNCHANGED <<stale, suspended>>
                  ELSE stale' = FALSE /\ suspended' = FALSE

Remember ==
    last' = [sequence |-> found.sequence, url |-> Url(manifest, found.at)]

Analyze ==
    LET segment == stream[found.at] IN
    /\ pc = "fetch" /\ Done
    /\ Remember
    /\ Rebaselined
    /\ black' = Detection(segment.black, segment.length)
    /\ reached' = found.at /\ among' = found.among /\ lost' = FALSE
    /\ stretch' = IF segment.black THEN stretch \cup {found.at} ELSE {}
    /\ moved' = (segment.black /\ stretch # {} /\ moved)
    /\ UNCHANGED <<outside, manifest, changed>>

Next ==
    \/ Goes \/ Tick
    \/ Refresh \/ PollAny \/ FetchFails \/ Analyze

Spec == Init /\ [][Next]_vars

\* Every request returns, the loop polls, and where the URL and the copies of the
\* playlist keep changing, the newest segment is still met, and fetched, in the end.
Fairness ==
    /\ WF_vars(FetchFails \/ Analyze)
    /\ SF_vars(PollLatest)
    /\ SF_vars(Analyze /\ found.at = Len(stream))

FairSpec == Spec /\ Fairness

-----------------------------------------------------------------------------
Numbered == numbering[manifest] # Unnumbered

\* Behind one manifest URL a segment newer than all that were analysed is not passed over
\* for an old one (worker.go:479-482), with numbers in whatever playlist it comes, and
\* without numbers as long as there are no fewer segments in that playlist than in the
\* one of the last segment.  In a shorter one it may be.
NewerIsNew ==
    [][\A p \in 1..Len(stream), size \in 1..Window :
          /\ Poll(p, size) /\ reached > 0 /\ p > reached
          /\ Numbered \/ size >= among
          => pc' = "fetch"]_vars

\* Behind one manifest URL with numbers, no segment is analysed twice and none after a
\* newer one, however often an old copy of the playlist turns up.
OnlyForward == [][Analyze /\ Numbered => found.at > reached]_vars

\* The black seconds of an alert are those of so many different segments, and when so
\* many are black the alert has been raised: a segment is only counted again behind a
\* new manifest URL, or without numbers.
Ticks(segments)   == UNION {{p} \X (1..stream[p].length) : p \in segments}
Seconds(segments) == Cardinality(Ticks(segments))

AlertMeansBlack ==
    /\ Seconds(stretch) >= Threshold => black.alert
    /\ black.alert /\ Numbered /\ ~moved => Seconds(stretch) >= Threshold

\* An alert that is over is taken back: it only stands while there is a blackoutStart,
\* without which the recovery is not sent and the health reported is not WARNING, and
\* that is while the last segment was black.
RecoveryTold ==
    /\ black.alert => black.begun
    /\ black.begun <=> stretch # {}

\* stream.resumed is not said of a segment that only the change of the manifest URL
\* makes look new, as long as the change was not forgotten before that segment was
\* analysed.
Resumes == suspended /\ ~suspended'

ResumedMeansNewer ==
    [][Resumes /\ Numbered => lost \/ (reached > 0 /\ found.at > reached)]_vars

\* When every manifest has numbers, and all have the same, the newest segment is analysed
\* in the end behind the URL in use, however often that changes.
Alike == \A m \in Manifests : numbering[m] = numbering[manifest]

NewestAnalysed ==
    Numbered /\ Alike /\ Len(stream) = MaxSegments ~> last.url = Url(manifest, MaxSegments)

-----------------------------------------------------------------------------
\* worker.go:536-537: "re-baseline segment tracking without triggering a false
\* stream.resumed", without the condition that nothing fails.
ResumedNeverFalse == [][Resumes /\ Numbered => reached > 0 /\ found.at > reached]_vars
=============================================================================
