------------------------------ MODULE MCValues ------------------------------
\* Every web of playlists with one or two variants, and of the durations, timescales and
\* totals of the run those for which math.Ceil(total / (duration / timescale)) is more
\* than total * timescale / duration, a whole number: 21 / 0.7 is 30.000000000000004.
EXTENDS Values

Media  == [kind : {"media"}, closed : BOOLEAN]
Variants == {<<>>} \cup {<<[bandwidth |-> b, uri |-> u]>> : b \in {1}, u \in Urls}
    \cup {<<[bandwidth |-> b, uri |-> u], [bandwidth |-> c, uri |-> v]>> :
             b \in 1..2, c \in 1..2, u \in Urls, v \in Urls}
TooMany == {<<7, 10, 21>>}

Playlists == [Urls -> Media \cup [kind : {"broken"}] \cup [kind : {"master"}, variants : Variants]]
=============================================================================
