---------------------------- MODULE AnalysisProofs ----------------------------
(***************************************************************************)
(* Which segments the worker takes for new, for streams of any length,     *)
(* playlists of any window and numbering, and any number of refreshes of   *)
(* the manifest URL; and what a blackout alert says of the segments.       *)
(***************************************************************************)
EXTENDS Analysis, FiniteSetTheorems, TLAPS

\* The number a playlist of so many segments gives segment p, its latest.
Number(p, size) == IF Numbered THEN numbering[manifest] + p ELSE size - 1

\* What is remembered is the newest segment that was analysed behind this URL.
Remembered ==
    reached > 0 =>
        /\ among > 0 /\ last.sequence = Number(reached, among)
        /\ last.url = Url(manifest, reached)

\* A segment is fetched because it is not the one that is remembered.
FoundNew ==
    pc = "fetch" =>
        /\ found.at > 0 /\ found.among > 0
        /\ found.sequence = Number(found.at, found.among)
        /\ ~(found.sequence < last.sequence)
        /\ found.sequence = last.sequence => Url(manifest, found.at) # last.url

\* A segment only looks old, before one has been analysed behind this URL, because of
\* another URL: the change is still to be taken note of, or has been forgotten.
NothingHidden ==
    /\ (rebaseline => pc = "fetch") /\ (pc = "fetch" => ~changed)
    /\ reached = 0 /\ ~lost /\ ~changed /\ ~rebaseline =>
          ~suspended /\ last.sequence = 0 /\ last.url = <<>>

Bounded == Len(stream) <= MaxSegments

IInv == TypeOK /\ Bounded /\ Remembered /\ FoundNew /\ NothingHidden /\ RecoveryTold

-----------------------------------------------------------------------------
LEMMA NumberTyped ==
    ASSUME TypeOK, NEW p \in Nat \ {0}, NEW size \in Nat \ {0}
    PROVE  Number(p, size) \in Nat
<1>1. Numbered => numbering[manifest] \in Nat
  BY AnalysisAssumption DEF TypeOK, Numbered
<1>2. QED
  BY <1>1 DEF Number

\* Behind one URL numbers only go up, and without any they do as the playlists do.
LEMMA NumberGrows ==
    ASSUME TypeOK, NEW p \in Nat \ {0}, NEW q \in Nat, q > p,
           NEW size \in Nat \ {0}, NEW larger \in Nat
    PROVE  /\ Numbered => Number(p, size) < Number(q, larger)
           /\ ~Numbered /\ larger >= size => Number(p, size) <= Number(q, larger)
<1>1. Numbered => numbering[manifest] \in Nat
  BY AnalysisAssumption DEF TypeOK, Numbered
<1>2. QED
  BY <1>1 DEF Number

LEMMA MaxIsLast ==
    ASSUME NEW n \in Nat \ {0}
    PROVE  Max(1..n) = n
<1>1. n \in 1..n /\ \A j \in 1..n : n >= j
  OBVIOUS
<1>2. \A i \in 1..n : (\A j \in 1..n : i >= j) => i = n
  BY <1>1
<1>3. QED
  BY <1>1, <1>2 DEF Max

\* What GetLatestSegment finds in a copy of the playlist that ends with segment p.
LEMMA LatestIsLast ==
    ASSUME TypeOK, Bounded, NEW p \in 1..Len(stream), NEW size \in 1..Window, size <= p
    PROVE  /\ LatestHLS(Playlist(p, size)).uri = Url(manifest, p)
           /\ LatestHLS(Playlist(p, size)).sequence = Number(p, size)
<1> DEFINE first == p - size + 1
           entry == [i \in 1..size |-> [uri |-> Url(manifest, first + i - 1),
                                        duration |-> stream[first + i - 1].length]]
           seqNo == IF numbering[manifest] = Unnumbered THEN 0
                    ELSE numbering[manifest] + first
<1>1. Playlist(p, size) = [seqNo |-> seqNo, entries |-> entry]
  BY DEF Playlist
<1>2. /\ Len(stream) \in Nat /\ p \in Nat \ {0} /\ p <= MaxSegments /\ MaxSegments \in Nat
      /\ Window \in Nat \ {0} /\ manifest \in Manifests /\ size \in Nat \ {0}
  BY AnalysisAssumption DEF TypeOK, Bounded
<1>3. first \in Nat \ {0} /\ size \in Nat \ {0} /\ first + size - 1 = p
  BY <1>2
<1> HIDE DEF first
<1>4. \A i \in 1..size : entry[i].uri # "nil"
  <2>1. \A i \in 1..size : first + i - 1 \in 1..MaxSegments
    BY <1>2, <1>3
  <2>2. \A i \in 1..size : entry[i].uri = <<manifest, first + i - 1>>
    BY DEF Url
  <2>3. QED
    BY <1>2, <2>1, <2>2, AnalysisAssumption
<1>5. {i \in DOMAIN Playlist(p, size).entries :
        Playlist(p, size).entries[i].uri # "nil"} = 1..size
  BY <1>1, <1>4
<1>6. size \in 1..size /\ 1..size # {} /\ Max(1..size) = size
  <2>1. size \in Nat \ {0}
    BY <1>3
  <2>2. size \in 1..size
    BY <2>1
  <2>3. QED
    BY <2>1, <2>2, MaxIsLast
<1>7. LatestHLS(Playlist(p, size)) =
        [uri |-> entry[size].uri, duration |-> entry[size].duration, sequence |-> seqNo + size - 1]
  <2>1. Playlist(p, size).entries = entry /\ Playlist(p, size).seqNo = seqNo
    BY <1>1
  <2>2. LatestHLS(Playlist(p, size)) =
          [ uri      |-> Playlist(p, size).entries[Max(1..size)].uri,
            duration |-> Playlist(p, size).entries[Max(1..size)].duration,
            sequence |-> Playlist(p, size).seqNo + Max(1..size) - 1 ]
    BY <1>5, <1>6, Zenon DEF LatestHLS
  <2>3. QED
    BY <1>6, <2>1, <2>2
<1>8. entry[size].uri = Url(manifest, p)
  BY <1>3
<1>9. seqNo + size - 1 = Number(p, size)
  <2>1. Numbered => numbering[manifest] \in Nat
    BY <1>2, AnalysisAssumption DEF TypeOK, Numbered
  <2>2. CASE Numbered
    BY <1>2, <1>3, <2>1, <2>2 DEF Number, Numbered
  <2>3. CASE ~Numbered
    BY <1>2, <1>3, <2>3 DEF first, Number, Numbered
  <2>4. QED
    BY <2>2, <2>3
<1>10. QED
  BY <1>7, <1>8, <1>9

-----------------------------------------------------------------------------
LEMMA InitOK ==
    ASSUME Init PROVE IInv
<1> USE AnalysisAssumption
<1>1. First \in Manifests
  BY DEF First
<1>2. Len(stream) = 0 /\ stream \in Seq(Segments)
  BY DEF Init
<1>3. TypeOK
  <2>1. found.at \in 0..Len(stream) /\ found.sequence \in Nat /\ found.among \in Nat
    BY <1>2 DEF Init, Nothing
  <2>2. last.sequence \in Nat /\ last.url \in {<<>>}
    BY DEF Init
  <2>3. black \in [total : Nat, begun : BOOLEAN, alert : BOOLEAN]
    BY DEF Init, Clear
  <2>4. reached \in 0..Len(stream) /\ among \in Nat /\ stretch \subseteq 1..Len(stream)
    BY <1>2 DEF Init
  <2>5. QED
    BY <1>1, <1>2, <2>1, <2>2, <2>3, <2>4 DEF Init, TypeOK
<1>4. Bounded
  BY <1>2 DEF Bounded
<1>5. Remembered /\ FoundNew /\ NothingHidden
  BY DEF Init, Remembered, FoundNew, NothingHidden
<1>6. RecoveryTold
  BY DEF Init, RecoveryTold, Clear
<1>7. QED
  BY <1>3, <1>4, <1>5, <1>6 DEF IInv

\* The stream goes on: what is known of its segments stays.
LEMMA GoesOK ==
    ASSUME IInv, NEW segment \in Segments, Append1(segment) PROVE IInv'
<1> USE AnalysisAssumption
<1>1. /\ stream \in Seq(Segments) /\ Len(stream) < MaxSegments
      /\ stream' = Append(stream, segment)
      /\ UNCHANGED <<numbering, pc, manifest, changed, rebaseline, found, last, stale,
                     suspended, black, progress, shadow>>
  BY DEF IInv, TypeOK, Append1
<1>2. stream' \in Seq(Segments) /\ Len(stream') = Len(stream) + 1 /\ Len(stream) \in Nat
  BY <1>1
<1>3. 0..Len(stream) \subseteq 0..Len(stream') /\ 1..Len(stream) \subseteq 1..Len(stream')
  BY <1>2
<1>4. TypeOK'
  BY <1>1, <1>2, <1>3 DEF IInv, TypeOK, progress, shadow
<1>5. Bounded'
  BY <1>1, <1>2 DEF Bounded
<1>6. Remembered' /\ FoundNew' /\ NothingHidden' /\ RecoveryTold'
  BY <1>1 DEF IInv, Remembered, FoundNew, NothingHidden, RecoveryTold, Number, Numbered, Url,
              progress, shadow
<1>7. QED
  BY <1>4, <1>5, <1>6 DEF IInv

\* Nothing that is remembered of segments changes, or the manifest is another.
LEMMA QuietOK ==
    ASSUME IInv, Tick \/ Refresh \/ FetchFails \/ UNCHANGED vars PROVE IInv'
<1>1. TypeOK' /\ Bounded'
  <2>1. CASE Tick \/ UNCHANGED vars
    BY <2>1 DEF IInv, TypeOK, Bounded, Tick, vars, outside, progress, shadow
  <2>2. CASE Refresh
    <3>1. manifest' \in Manifests /\ reached' \in 0..Len(stream) /\ among' \in Nat
      BY <2>2 DEF IInv, TypeOK, Refresh
    <3>2. changed' \in BOOLEAN /\ lost' \in BOOLEAN /\ moved' \in BOOLEAN
      BY <2>2, Zenon DEF Refresh
    <3>3. UNCHANGED <<stream, numbering, pc, rebaseline, found, last, stale, suspended,
                      black, stretch>>
      BY <2>2 DEF Refresh, outside
    <3>4. QED
      BY <3>1, <3>2, <3>3 DEF IInv, TypeOK, Bounded
  <2>3. CASE FetchFails
    <3>1. /\ found'.at \in 0..Len(stream) /\ found'.sequence \in Nat
          /\ found'.among \in Nat /\ pc' = "poll"
      BY <2>3 DEF IInv, TypeOK, FetchFails, Done, Nothing
    <3>2. rebaseline' \in BOOLEAN /\ lost' \in BOOLEAN
      BY <2>3, Zenon DEF FetchFails, Done
    <3>3. UNCHANGED <<stream, numbering, manifest, changed, last, stale, suspended, black,
                      reached, among, stretch, moved>>
      BY <2>3 DEF FetchFails, outside, shadow
    <3>4. QED
      BY <3>1, <3>2, <3>3 DEF IInv, TypeOK, Bounded
  <2>4. QED
    BY <2>1, <2>2, <2>3
<1>2. Remembered'
  BY DEF IInv, Remembered, Number, Numbered, Url, Tick, Refresh, FetchFails, vars, outside,
         progress
<1>3. FoundNew'
  BY DEF IInv, FoundNew, Number, Numbered, Url, Tick, Refresh, FetchFails, Done, vars,
         outside
<1>4. NothingHidden'
  <2>1. CASE Tick \/ UNCHANGED vars
    BY <2>1 DEF IInv, NothingHidden, Tick, vars, progress
  <2>2. CASE Refresh
    BY <2>2 DEF IInv, NothingHidden, Refresh
  <2>3. CASE FetchFails
    BY <2>3 DEF IInv, NothingHidden, FetchFails, Done
  <2>4. QED
    BY <2>1, <2>2, <2>3
<1>5. RecoveryTold'
  BY DEF IInv, RecoveryTold, Tick, Refresh, FetchFails, vars, shadow
<1>6. QED
  BY <1>1, <1>2, <1>3, <1>4, <1>5 DEF IInv

\* A poll remembers nothing; what it finds is new.
LEMMA PollOK ==
    ASSUME IInv, NEW p \in 1..Len(stream), NEW size \in 1..Window, Poll(p, size)
    PROVE  IInv'
<1> USE AnalysisAssumption
<1> DEFINE latest == LatestHLS(Playlist(p, size))
<1>1. /\ latest.uri = Url(manifest, p) /\ latest.sequence = Number(p, size)
      /\ Number(p, size) \in Nat /\ p \in Nat \ {0} /\ size \in Nat \ {0}
  <2>1. p \in Nat \ {0} /\ size \in Nat \ {0} /\ size <= p
    BY DEF IInv, TypeOK, Poll
  <2>2. QED
    BY <2>1, LatestIsLast, NumberTyped DEF IInv
<1> HIDE DEF latest
<1>2. /\ changed' = FALSE /\ pc = "poll"
      /\ UNCHANGED <<outside, manifest, last, stale, black, reached, among, shadow>>
      /\ \/ /\ IsOld(latest) /\ CheckSuspension
            /\ lost' = (lost \/ changed)
            /\ UNCHANGED <<pc, found, rebaseline>>
         \/ /\ ~IsOld(latest)
            /\ pc' = "fetch" /\ found' = [at |-> p, sequence |-> latest.sequence, among |-> size]
            /\ rebaseline' = changed
            /\ UNCHANGED <<suspended, lost>>
  BY DEF Poll, latest
<1>3. TypeOK' /\ Bounded'
  <2>1. found'.at \in 0..Len(stream) /\ found'.sequence \in Nat /\ found'.among \in Nat
    BY <1>1, <1>2 DEF IInv, TypeOK
  <2>2. suspended' \in BOOLEAN /\ lost' \in BOOLEAN /\ rebaseline' \in BOOLEAN
    BY <1>2, Zenon DEF IInv, TypeOK, CheckSuspension
  <2>3. QED
    BY <1>2, <2>1, <2>2 DEF IInv, TypeOK, Bounded, outside, shadow
<1>4. Remembered'
  BY <1>2 DEF IInv, Remembered, Number, Numbered, Url, outside
<1>5. FoundNew'
  BY <1>1, <1>2 DEF IInv, FoundNew, Number, Numbered, Url, IsOld, outside
<1>6. NothingHidden'
  <2>1. CASE ~IsOld(latest)
    BY <1>2, <2>1 DEF IInv, NothingHidden
  <2>2. CASE IsOld(latest)
    <3>1. ~rebaseline
      BY <1>2 DEF IInv, NothingHidden
    <3>2. ~(reached = 0 /\ ~lost /\ ~changed)
      <4>1. SUFFICES ASSUME reached = 0, ~lost, ~changed PROVE FALSE
        OBVIOUS
      <4>2. last.sequence = 0 /\ last.url = <<>>
        BY <3>1, <4>1 DEF IInv, NothingHidden
      <4>3. latest.uri # <<>> /\ ~(latest.sequence < 0)
        BY <1>1 DEF Url
      <4>4. QED
        BY <2>2, <4>2, <4>3 DEF IsOld
    <3>3. /\ reached' = reached /\ lost' = (lost \/ changed) /\ ~changed'
          /\ rebaseline' = rebaseline
      BY <1>2, <2>2
    <3>4. QED
      BY <3>1, <3>2, <3>3, Zenon DEF NothingHidden
  <2>3. QED
    BY <2>1, <2>2
<1>7. RecoveryTold'
  BY <1>2 DEF IInv, RecoveryTold, shadow
<1>8. QED
  BY <1>3, <1>4, <1>5, <1>6, <1>7 DEF IInv

LEMMA AnalyzeOK ==
    ASSUME IInv, Analyze PROVE IInv'
<1> USE AnalysisAssumption
<1> DEFINE segment == stream[found.at]
<1>1. /\ pc = "fetch" /\ pc' = "poll" /\ found' = Nothing /\ rebaseline' = FALSE
      /\ last' = [sequence |-> found.sequence, url |-> Url(manifest, found.at)]
      /\ Rebaselined
      /\ black' = Detection(segment.black, segment.length)
      /\ reached' = found.at /\ among' = found.among /\ lost' = FALSE
      /\ stretch' = IF segment.black THEN stretch \cup {found.at} ELSE {}
      /\ moved' = (segment.black /\ stretch # {} /\ moved)
      /\ UNCHANGED <<outside, manifest, changed>>
  BY DEF Analyze, Done, Remember
<1>2. /\ found.at \in 1..Len(stream) /\ found.sequence = Number(found.at, found.among)
      /\ found.sequence \in Nat /\ found.among \in Nat \ {0}
  BY <1>1 DEF IInv, TypeOK, FoundNew
<1>3. segment \in Segments /\ segment.black \in BOOLEAN /\ segment.length \in Nat
  <2>1. segment \in Segments
    BY <1>2 DEF IInv, TypeOK
  <2>2. \A s \in Segments : s.black \in BOOLEAN /\ s.length \in Nat
    <3>1. \A s \in [black : {TRUE}, length : Lengths] :
             s.black \in BOOLEAN /\ s.length \in Nat
      OBVIOUS
    <3>2. \A s \in [black : {FALSE}, length : {0}] :
             s.black \in BOOLEAN /\ s.length \in Nat
      <4>1. SUFFICES ASSUME NEW s \in [black : {FALSE}, length : {0}]
                     PROVE  s.black \in BOOLEAN /\ s.length \in Nat
        OBVIOUS
      <4>2. s.black = FALSE /\ s.length = 0
        BY <4>1
      <4>3. FALSE \in BOOLEAN /\ 0 \in Nat
        OBVIOUS
      <4>4. QED
        BY <4>2, <4>3, Zenon
    <3>3. QED
      BY <3>1, <3>2, Zenon DEF Segments
  <2>3. QED
    BY <2>1, <2>2, Zenon
<1>4. /\ black.total \in Nat /\ black.begun \in BOOLEAN /\ black.alert \in BOOLEAN
      /\ Sum(segment.length) \in Nat
  BY <1>3 DEF IInv, TypeOK, Sum
<1>5. TypeOK' /\ Bounded'
  <2>1. black' \in [total : Nat, begun : BOOLEAN, alert : BOOLEAN]
    BY <1>1, <1>3, <1>4 DEF Detection
  <2>2. stale' \in BOOLEAN /\ suspended' \in BOOLEAN /\ moved' \in BOOLEAN
    BY <1>1, Zenon DEF IInv, TypeOK, Rebaselined
  <2>3. stretch' \subseteq 1..Len(stream)
    BY <1>1, <1>2 DEF IInv, TypeOK
  <2>4. last'.sequence \in Nat /\ last'.url \in Manifests \X (1..Len(stream))
    BY <1>1, <1>2 DEF IInv, TypeOK, Url
  <2>5. /\ found'.at \in 0..Len(stream) /\ found'.sequence \in Nat /\ found'.among \in Nat
        /\ reached' \in 0..Len(stream) /\ among' \in Nat
    BY <1>1, <1>2 DEF Nothing
  <2>6. QED
    BY <1>1, <2>1, <2>2, <2>3, <2>4, <2>5 DEF IInv, TypeOK, Bounded, outside
<1>6. Remembered'
  BY <1>1, <1>2 DEF Remembered, Number, Numbered, Url, outside
<1>7. FoundNew' /\ NothingHidden'
  BY <1>1, <1>2 DEF FoundNew, NothingHidden
<1>8. RecoveryTold'
  BY <1>1, <1>3, <1>4 DEF IInv, RecoveryTold, Detection
<1>9. QED
  BY <1>5, <1>6, <1>7, <1>8 DEF IInv

THEOREM Invariance == Spec => []IInv
<1>1. IInv /\ [Next]_vars => IInv'
  <2>1. ASSUME IInv, PollAny PROVE IInv'
    BY <2>1, PollOK DEF PollAny, PollLatest, Poll
  <2>2. QED
    BY <2>1, GoesOK, QuietOK, AnalyzeOK DEF Next, Goes
<1>2. QED
  BY <1>1, InitOK, PTL DEF Spec

\* The variables always have their types.
THEOREM TypeCorrect == Spec => []TypeOK
<1>1. IInv => TypeOK
  BY DEF IInv
<1>2. QED
  BY <1>1, Invariance, PTL

\* An alert only stands while there is a blackoutStart, and that is while the last
\* segment was black (worker.go:580-614).
THEOREM RecoveryAlwaysTold == Spec => []RecoveryTold
<1>1. IInv => RecoveryTold
  BY DEF IInv
<1>2. QED
  BY <1>1, Invariance, PTL

\* Behind one manifest URL a segment that is newer than all that were analysed is not
\* taken for an old one (worker.go:485-498), with numbers whatever playlist it comes in,
\* without them as long as the playlists do not get shorter.
THEOREM NewerIsAlwaysNew == Spec => NewerIsNew
<1>1. ASSUME IInv, NEW p \in 1..Len(stream), NEW size \in 1..Window, Poll(p, size),
             reached > 0, p > reached, Numbered \/ size >= among
      PROVE  pc' = "fetch"
  <2> DEFINE latest == LatestHLS(Playlist(p, size))
  <2>1. /\ p \in Nat \ {0} /\ size \in Nat \ {0} /\ size <= p
        /\ reached \in Nat \ {0} /\ among \in Nat \ {0}
    BY <1>1, AnalysisAssumption DEF IInv, TypeOK, Remembered, Poll
  <2>2. latest.uri = Url(manifest, p) /\ latest.sequence = Number(p, size)
    BY <1>1, <2>1, LatestIsLast DEF IInv
  <2>3. /\ Number(reached, among) \in Nat /\ Number(p, size) \in Nat
        /\ Number(reached, among) <= Number(p, size)
    <3>1. TypeOK /\ p \in Nat /\ p > reached /\ size \in Nat
      BY <1>1, <2>1 DEF IInv
    <3>2. Number(reached, among) \in Nat /\ Number(p, size) \in Nat
      BY <2>1, <3>1, NumberTyped
    <3>3. /\ Numbered => Number(reached, among) < Number(p, size)
          /\ ~Numbered /\ size >= among => Number(reached, among) <= Number(p, size)
      BY <2>1, <3>1, NumberGrows
    <3>4. QED
      BY <1>1, <3>2, <3>3
  <2>4. last.sequence = Number(reached, among) /\ last.url = Url(manifest, reached)
    BY <1>1 DEF IInv, Remembered
  <2>5. Url(manifest, p) # Url(manifest, reached)
    BY <1>1, <2>1 DEF Url
  <2> HIDE DEF latest
  <2>6. ~IsOld(latest)
    BY <2>2, <2>3, <2>4, <2>5 DEF IsOld
  <2>7. QED
    BY <1>1, <2>6 DEF Poll, latest
<1> DEFINE A == \A p \in 1..Len(stream), size \in 1..Window :
                  /\ Poll(p, size) /\ reached > 0 /\ p > reached
                  /\ Numbered \/ size >= among
                  => pc' = "fetch"
<1>2. IInv /\ [Next]_vars => [A]_vars
  BY <1>1
<1>3. QED
  BY <1>2, Invariance, PTL DEF Spec, NewerIsNew

\* A segment that is fetched behind a manifest URL with numbers is newer than all that
\* were analysed behind it.
LEMMA FoundIsNewer ==
    ASSUME IInv, pc = "fetch", Numbered PROVE found.at > reached
<1>1. /\ found.at \in Nat \ {0} /\ found.among \in Nat \ {0} /\ reached \in Nat
      /\ found.sequence = Number(found.at, found.among) /\ last.sequence \in Nat
      /\ ~(found.sequence < last.sequence)
      /\ found.sequence = last.sequence => Url(manifest, found.at) # last.url
  BY DEF IInv, TypeOK, FoundNew
<1>2. SUFFICES ASSUME reached >= found.at PROVE FALSE
  BY <1>1
<1>3. /\ last.sequence = Number(reached, among) /\ last.url = Url(manifest, reached)
      /\ reached > 0 /\ among \in Nat
  BY <1>1, <1>2 DEF IInv, TypeOK, Remembered
<1>4. CASE reached = found.at
  BY <1>1, <1>3, <1>4 DEF Number
<1>5. CASE reached > found.at
  <2>1. Number(found.at, found.among) < Number(reached, among)
    BY <1>1, <1>3, <1>5, NumberGrows DEF IInv
  <2>2. QED
    BY <1>1, <1>3, <2>1
<1>6. QED
  BY <1>1, <1>2, <1>4, <1>5

\* With numbers the analysis only goes forward behind one manifest URL, whatever old
\* copies of the playlist turn up.
THEOREM AlwaysForward == Spec => OnlyForward
<1>1. IInv /\ [Next]_vars => [Analyze /\ Numbered => found.at > reached]_vars
  BY FoundIsNewer DEF Analyze
<1>2. QED
  BY <1>1, Invariance, PTL DEF Spec, OnlyForward

\* stream.resumed is only said of a newer segment, where no change of the manifest URL
\* has been forgotten (worker.go:531-562).
THEOREM ResumedIsNewer == Spec => ResumedMeansNewer
<1>1. ASSUME IInv, Next, Resumes, Numbered, ~lost
      PROVE  reached > 0 /\ found.at > reached
  <2>1. Analyze /\ ~rebaseline
    BY <1>1, Zenon DEF Resumes, Next, Goes, Append1, Tick, Refresh, PollAny, PollLatest,
                       Poll, CheckSuspension, FetchFails, Analyze, Rebaselined
  <2>2. found.at > reached
    BY <1>1, <2>1, FoundIsNewer DEF Analyze
  <2>3. QED
    BY <1>1, <2>1, <2>2 DEF Resumes, IInv, TypeOK, NothingHidden, Analyze
<1>2. QED
  BY <1>1, Invariance, PTL DEF Spec, ResumedMeansNewer
-----------------------------------------------------------------------------
(***************************************************************************)
(* What an alert is raised for.  The worker adds up lengths, and the same  *)
(* segment may be counted again behind a new URL: the sum is compared with *)
(* the ticks of the segments in the stretch, each counted once.            *)
(***************************************************************************)

\* The sum is the length of the stretch, as far as no segment can have been met twice,
\* and never less; and the alert is standing when the sum is long enough.
Counted ==
    /\ IsFiniteSet(Ticks(stretch))
    /\ black.alert <=> black.total >= Threshold
    /\ stretch = {} => black.total = 0
    /\ Seconds(stretch) <= black.total \/ black.total >= MaxSum
    /\ Numbered /\ ~moved =>
          black.total <= Seconds(stretch) /\ \A p \in stretch : p <= reached

LEMMA SegmentTyped ==
    ASSUME TypeOK, NEW p \in 1..Len(stream)
    PROVE  stream[p].black \in BOOLEAN /\ stream[p].length \in Nat
<1>1. stream[p] \in Segments
  BY DEF TypeOK
<1>2. /\ \A s \in [black : {TRUE}, length : Lengths] : s.black \in {TRUE} /\ s.length \in Lengths
      /\ \A s \in [black : {FALSE}, length : {0}] : s.black \in {FALSE} /\ s.length \in {0}
  OBVIOUS
<1>3. stream[p].black \in BOOLEAN
  BY <1>1, <1>2, Zenon DEF Segments
<1>4. stream[p].length \in Nat
  <2>1. 0 \in Nat
    OBVIOUS
  <2>2. stream[p].length \in Lengths \/ stream[p].length = 0
    BY <1>1, <1>2, Zenon DEF Segments
  <2>3. QED
    BY <2>1, <2>2, AnalysisAssumption
<1>5. QED
  BY <1>3, <1>4

LEMMA OneSegment ==
    ASSUME NEW p, NEW n \in Nat
    PROVE  IsFiniteSet({p} \X (1..n)) /\ Cardinality({p} \X (1..n)) = n
<1>1. IsFiniteSet({p}) /\ Cardinality({p}) = 1
  BY FS_Singleton
<1>2. IsFiniteSet(1..n) /\ Cardinality(1..n) = n
  <2>1. 1 \in Int /\ n \in Int /\ (IF 1 > n THEN 0 ELSE n - 1 + 1) = n
    OBVIOUS
  <2>2. QED
    BY <2>1, FS_Interval
<1>3. /\ IsFiniteSet({p} \X (1..n))
      /\ Cardinality({p} \X (1..n)) = Cardinality({p}) * Cardinality(1..n)
  BY <1>1, <1>2, FS_Product
<1>4. QED
  BY <1>1, <1>2, <1>3

\* A segment adds its length, or nothing new when it has been counted.
LEMMA SecondsAdded ==
    ASSUME TypeOK, NEW S \in SUBSET (1..Len(stream)), IsFiniteSet(Ticks(S)),
           NEW p \in 1..Len(stream)
    PROVE  /\ IsFiniteSet(Ticks(S \cup {p}))
           /\ Seconds(S) \in Nat /\ Seconds(S \cup {p}) \in Nat
           /\ Seconds(S \cup {p}) <= Seconds(S) + stream[p].length
           /\ p \notin S => Seconds(S \cup {p}) = Seconds(S) + stream[p].length
<1> DEFINE T == {p} \X (1..stream[p].length)
<1>1. stream[p].length \in Nat
  BY SegmentTyped
<1>2. IsFiniteSet(T) /\ Cardinality(T) = stream[p].length
  BY <1>1, OneSegment
<1>3. Ticks(S \cup {p}) = Ticks(S) \cup T
  BY DEF Ticks
<1>4. p \notin S => Ticks(S) \cap T = {}
  BY DEF Ticks
<1>5. /\ IsFiniteSet(Ticks(S) \cup T) /\ IsFiniteSet(Ticks(S) \cap T)
      /\ Cardinality(Ticks(S) \cup T) =
            Cardinality(Ticks(S)) + Cardinality(T) - Cardinality(Ticks(S) \cap T)
  BY <1>2, FS_Union, FS_Intersection
<1>6. /\ Cardinality(Ticks(S)) \in Nat /\ Cardinality(Ticks(S) \cap T) \in Nat
      /\ Cardinality(Ticks(S) \cup T) \in Nat
  BY <1>5, FS_CardinalityType
<1>7. p \notin S => Cardinality(Ticks(S) \cap T) = 0
  BY <1>4, FS_EmptySet
<1> HIDE DEF T
<1>8. /\ Cardinality(Ticks(S) \cup T) <= Cardinality(Ticks(S)) + stream[p].length
      /\ p \notin S =>
            Cardinality(Ticks(S) \cup T) = Cardinality(Ticks(S)) + stream[p].length
  BY <1>1, <1>2, <1>5, <1>6, <1>7
<1>9. QED
  BY <1>3, <1>5, <1>6, <1>8 DEF Seconds

LEMMA NoSeconds == Ticks({}) = {} /\ IsFiniteSet(Ticks({})) /\ Seconds({}) = 0
<1>1. Ticks({}) = {}
  BY DEF Ticks
<1>2. QED
  BY <1>1, FS_EmptySet DEF Seconds

LEMMA AnalyzeCounted ==
    ASSUME IInv, Counted, Analyze PROVE Counted'
<1> USE AnalysisAssumption
<1> DEFINE segment == stream[found.at]
<1>1. /\ pc = "fetch"
      /\ black' = Detection(segment.black, segment.length)
      /\ reached' = found.at
      /\ stretch' = IF segment.black THEN stretch \cup {found.at} ELSE {}
      /\ moved' = (segment.black /\ stretch # {} /\ moved)
      /\ UNCHANGED <<stream, numbering, manifest>>
  BY DEF Analyze, outside
<1>2. found.at \in 1..Len(stream) /\ stretch \in SUBSET (1..Len(stream))
  BY <1>1 DEF IInv, TypeOK, FoundNew
<1>3. segment.black \in BOOLEAN /\ segment.length \in Nat
  BY <1>2, SegmentTyped DEF IInv
<1>4. Numbered' = Numbered /\ \A S : Ticks(S)' = Ticks(S) /\ Seconds(S)' = Seconds(S)
  BY <1>1 DEF Numbered, Ticks, Seconds
<1>5. black.total \in Nat /\ black.begun \in BOOLEAN /\ black.alert \in BOOLEAN
      /\ Threshold \in Nat \ {0} /\ MaxSum \in Nat /\ MaxSum > Threshold
  BY DEF IInv, TypeOK
<1>6. CASE ~segment.black
  <2>1. stretch' = {} /\ black'.total = 0 /\ black'.alert = (black.alert /\ ~black.begun)
    BY <1>1, <1>6 DEF Detection
  <2>2. black'.alert = FALSE
    BY <2>1, Zenon DEF IInv, RecoveryTold
  <2>3. Ticks(stretch)' = {} /\ Seconds(stretch)' = 0 /\ IsFiniteSet(Ticks(stretch)')
    <3>1. Ticks(stretch)' = Ticks({})'
      BY <2>1 DEF Ticks
    <3>2. Ticks({})' = {}
      BY DEF Ticks
    <3>3. QED
      BY <3>1, <3>2, FS_EmptySet DEF Seconds
  <2>4. QED
    BY <1>5, <2>1, <2>2, <2>3 DEF Counted
<1>7. CASE segment.black
  <2> DEFINE now == stretch \cup {found.at}
  <2>1. /\ stretch' = now /\ moved' = (stretch # {} /\ moved)
        /\ black'.total = Sum(segment.length)
        /\ black'.alert = (black.alert \/ Sum(segment.length) >= Threshold)
    BY <1>1, <1>7 DEF Detection
  <2>2. /\ IsFiniteSet(Ticks(now)) /\ Seconds(stretch) \in Nat /\ Seconds(now) \in Nat
        /\ Seconds(now) <= Seconds(stretch) + segment.length
        /\ found.at \notin stretch => Seconds(now) = Seconds(stretch) + segment.length
    BY <1>2, SecondsAdded DEF IInv, Counted
  <2>3. /\ Ticks(stretch)' = Ticks(now) /\ Seconds(stretch)' = Seconds(now)
    <3>1. Ticks(stretch)' = Ticks(now)
      BY <1>1, <2>1 DEF Ticks
    <3>2. QED
      BY <3>1 DEF Seconds
  <2>4. /\ Sum(segment.length) \in Nat /\ Sum(segment.length) <= MaxSum
        /\ Sum(segment.length) = black.total + segment.length \/ Sum(segment.length) = MaxSum
        /\ Sum(segment.length) <= black.total + segment.length
    BY <1>3, <1>5 DEF Sum
  <2>5. black.alert <=> black.total >= Threshold
    BY DEF Counted
  <2>6. black'.alert <=> black'.total >= Threshold
    <3>1. black.total >= Threshold => Sum(segment.length) >= Threshold
      BY <1>3, <1>5, <2>4
    <3>2. QED
      BY <2>1, <2>5, <3>1, Zenon
  <2>7. Seconds(now) <= Sum(segment.length) \/ Sum(segment.length) >= MaxSum
    BY <1>3, <1>5, <2>2, <2>4 DEF Counted
  <2>8. ASSUME Numbered, ~moved'
        PROVE  Sum(segment.length) <= Seconds(now) /\ \A p \in now : p <= found.at
    <3>1. found.at > reached /\ reached \in Nat
      BY <1>1, <2>8, FoundIsNewer DEF IInv, TypeOK
    <3>2. CASE stretch = {}
      <4>1. black.total = 0 /\ found.at \notin stretch
        BY <3>2 DEF Counted
      <4>2. QED
        BY <1>2, <1>3, <2>2, <2>4, <3>2, <4>1
    <3>3. CASE stretch # {}
      <4>1. ~moved
        BY <2>1, <2>8, <3>3
      <4>2. black.total <= Seconds(stretch) /\ \A p \in stretch : p <= reached
        BY <2>8, <4>1 DEF Counted
      <4>3. found.at \notin stretch
        BY <1>2, <3>1, <4>2
      <4>4. \A p \in now : p <= found.at
        BY <1>2, <3>1, <4>2
      <4>5. QED
        BY <1>3, <1>5, <2>2, <2>4, <4>2, <4>3, <4>4
    <3>4. QED
      BY <3>2, <3>3
  <2>9. now # {}
    OBVIOUS
  <2>10. QED
    BY <1>1, <1>4, <2>1, <2>2, <2>3, <2>6, <2>7, <2>8, <2>9 DEF Counted
<1>8. QED
  BY <1>3, <1>6, <1>7

\* What has been analysed keeps its length while the stream goes on.
LEMMA GoesCounted ==
    ASSUME IInv, Counted, NEW segment \in Segments, Append1(segment) PROVE Counted'
<1>1. /\ stream \in Seq(Segments) /\ stream' = Append(stream, segment)
      /\ stretch \subseteq 1..Len(stream)
      /\ UNCHANGED <<numbering, manifest, black, reached, stretch, moved>>
  BY DEF IInv, TypeOK, Append1, progress, shadow
<1>2. \A p \in stretch : stream'[p] = stream[p]
  BY <1>1
<1>3. Ticks(stretch)' = Ticks(stretch)
  BY <1>1, <1>2 DEF Ticks
<1>4. QED
  BY <1>1, <1>3 DEF Counted, Seconds, Numbered

\* Whatever else happens does not count, or forgets the URL.
LEMMA OthersCounted ==
    ASSUME IInv, Counted, Tick \/ Refresh \/ PollAny \/ FetchFails \/ UNCHANGED vars
    PROVE  Counted'
<1>1. /\ UNCHANGED <<stream, numbering, black, stretch>>
      /\ moved' = TRUE \/ UNCHANGED <<manifest, reached, moved>>
  BY Zenon DEF Tick, Refresh, PollAny, PollLatest, Poll, FetchFails, vars, outside,
               progress, shadow
<1>2. Ticks(stretch)' = Ticks(stretch)
  BY <1>1 DEF Ticks
<1>3. QED
  BY <1>1, <1>2 DEF Counted, Seconds, Numbered

THEOREM StretchCounted == Spec => []Counted
<1>1. Init => Counted
  <2>1. SUFFICES ASSUME Init PROVE Counted
    OBVIOUS
  <2>2. stretch = {} /\ black.total = 0 /\ black.alert = FALSE
    BY <2>1 DEF Init, Clear
  <2>3. QED
    BY <2>2, NoSeconds, AnalysisAssumption DEF Counted
<1>2. IInv /\ Counted /\ [Next]_vars => Counted'
  BY AnalyzeCounted, GoesCounted, OthersCounted DEF Next, Goes
<1>3. QED
  BY <1>1, <1>2, Invariance, PTL DEF Spec

\* An alert is raised as soon as so many different segments are black, and stands for no
\* fewer, as long as the manifest URL stays and numbers its segments (worker.go:576-605).
THEOREM AlertAlwaysMeansBlack == Spec => []AlertMeansBlack
<1>1. IInv /\ Counted => AlertMeansBlack
  <2>1. SUFFICES ASSUME IInv, Counted PROVE AlertMeansBlack
    OBVIOUS
  <2>2. black.total \in Nat /\ Seconds(stretch) \in Nat
    BY <2>1, FS_CardinalityType DEF IInv, TypeOK, Counted, Seconds
  <2>3. QED
    BY <2>1, <2>2, AnalysisAssumption DEF Counted, AlertMeansBlack
<1>2. QED
  BY <1>1, Invariance, StretchCounted, PTL
=============================================================================
