--------------------------- MODULE MCObjectWrites ---------------------------
EXTENDS ObjectWrites, TLC

\* One of two requests names a setting; the other the callback URL, with a configuration
\* that is empty.
TwoRequests == "p" :> ("interval" :> 1) @@ "q" :> ("url" :> 1)
=============================================================================
