---------------------------- MODULE ManifestPoll ----------------------------
(***************************************************************************)
(* The requests of one poll, internal/manifest/manifest.go: from a URL to  *)
(* a media playlist, through any number of masters, in the two calls       *)
(* analyzeLatestSegment makes one after the other: IsEndList, which counts *)
(* its steps, and GetLatestSegment, which does not.  A DASH manifest is    *)
(* one document and takes no steps: it counts as a media playlist that is  *)
(* never closed.                                                           *)
(***************************************************************************)
EXTENDS Manifest

CONSTANTS
    Urls,
    Webs,              \* what the documents at these URLs may be
    MaxIsEndListDepth  \* masters IsEndList follows

\* In the document of u its first variant of the lowest bandwidth is v.
Leads(documents, u, v) ==
    /\ documents[u].kind = "master" /\ documents[u].variants # <<>>
    /\ v = documents[u].variants[Lowest(documents[u].variants)].uri

ASSUME PollAssumption ==
    /\ MaxIsEndListDepth \in Nat
    /\ \A documents \in Webs, u \in Urls :
          documents[u].kind = "master" /\ documents[u].variants # <<>> =>
              \E v \in Urls : Leads(documents, u, v)

VARIABLES
    web,    \* the document at every URL: a "media" or a "master" playlist, or
            \* "broken", which stands for all that can never be fetched or decoded
    call,   \* the call under way: "none", "isEndList", "getLatest"
    start,  \* the manifest URL of this poll
    at,     \* the URL that is fetched next
    depth   \* of isEndListWithDepth

vars == <<web, call, start, at, depth>>

Init ==
    /\ web \in Webs
    /\ call = "none" /\ start \in Urls /\ at = start /\ depth = 0

\* analyzeLatestSegment begins, at its manifest URL.
Begin ==
    /\ call = "none"
    /\ call' = "isEndList" /\ at' = start /\ depth' = 0
    /\ UNCHANGED <<web, start>>

At(kind) == web[at].kind = kind
HasVariants == At("master") /\ web[at].variants # <<>>
Variant == web[at].variants[Lowest(web[at].variants)].uri

Fail == call' = "none" /\ UNCHANGED <<web, start, at, depth>>

\* What is broken, or has no variants, and any fetch that fails, in whichever call.
FetchFails == call # "none" /\ Fail

FollowForEnd ==
    /\ call = "isEndList" /\ HasVariants
    /\ \/ depth < MaxIsEndListDepth /\ at' = Variant /\ depth' = depth + 1
          /\ UNCHANGED <<web, call, start>>
       \/ depth = MaxIsEndListDepth /\ Fail

\* An end list is the end of the poll; otherwise GetLatestSegment is next, and begins
\* at the manifest URL again.
AskEnd ==
    /\ call = "isEndList" /\ At("media")
    /\ IF web[at].closed THEN call' = "none" /\ UNCHANGED at
                         ELSE call' = "getLatest" /\ at' = start
    /\ UNCHANGED <<web, start, depth>>

FollowLast ==  \* mutant: another variant than the one asked for its end
    /\ call = "getLatest" /\ HasVariants
    /\ at' = web[at].variants[Len(web[at].variants)].uri
    /\ UNCHANGED <<web, call, start, depth>>

FollowForLatest ==
    /\ call = "getLatest" /\ HasVariants
    /\ at' = Variant
    /\ UNCHANGED <<web, call, start, depth>>

TakeLatest ==
    /\ call = "getLatest" /\ At("media")
    /\ call' = "none"
    /\ UNCHANGED <<web, start, at, depth>>

Next ==
    \/ Begin \/ FetchFails
    \/ FollowForEnd \/ AskEnd
    \/ FollowForLatest \/ TakeLatest

Spec == Init /\ [][Next]_vars

FairSpec == Spec /\ WF_vars(Next)

-----------------------------------------------------------------------------
\* From u it takes k masters to v.
Path(u, v, k) ==
    \E path \in [0..k -> Urls] :
        /\ path[0] = u /\ path[k] = v
        /\ \A i \in 0..(k - 1) : Leads(web, path[i], path[i + 1])

Open(u) == web[u].kind = "media" /\ ~web[u].closed

\* GetLatestSegment is always on the way IsEndList has come, with no more masters before
\* it than that one has counted, and at its end is the playlist that was found open.
OnTheWay ==
    /\ call = "isEndList" => depth <= MaxIsEndListDepth /\ Path(start, at, depth)
    /\ call = "getLatest" =>
          \E v \in Urls, k \in 0..MaxIsEndListDepth : Open(v) /\ Path(at, v, k)

\* No request is made in vain, in either call: each of them ends its call, or takes
\* IsEndList one master further, of the MaxIsEndListDepth it may follow, or brings
\* GetLatestSegment, which counts none, one master nearer to the end of the way.  So a
\* poll makes 2 * (MaxIsEndListDepth + 1) requests at most, whichever of them fail.
EveryRequestCounts ==
    [][/\ call = "isEndList" =>
            \/ call' = "none"
            \/ call' = "getLatest" /\ Open(at) /\ at' = start
            \/ call' = "isEndList" /\ depth' = depth + 1 /\ depth' <= MaxIsEndListDepth
       /\ call = "getLatest" =>
            \/ call' = "none"
            \/ /\ call' = "getLatest"
               /\ \E v \in Urls, k \in 0..MaxIsEndListDepth : Open(v) /\ Path(at, v, k)
               /\ \A v \in Urls, k \in 0..MaxIsEndListDepth :
                     Open(v) /\ Path(at, v, k) => k > 0 /\ Path(at, v, k - 1)']_vars

\* Every poll ends, masters that lead round in a circle included: GetLatestSegment,
\* which does not count its steps, only goes where IsEndList has come to an end, for of
\* several variants both follow the same.
PollEnds == call # "none" ~> call = "none"
=============================================================================
