------------------------------ MODULE MCPlayback ------------------------------
EXTENDS Playback

CONSTANTS l, a, b, x

MCEntries == {l, a, b, x}
MCKind == (l :> "playlist") @@ (a :> "good") @@ (b :> "broken") @@ (x :> "good")
MCContent == [e \in MCEntries |-> IF e = l THEN <<a>> ELSE <<>>]
MCInitial == <<l, b>>
MCExtra == {x}
MCOptions ==
  {[prefetch |-> TRUE, loop |-> 1, keep_open |-> 0, idle |-> 0, external |-> FALSE,
    over |-> FALSE],
   [prefetch |-> FALSE, loop |-> -1, keep_open |-> 0, idle |-> 2, external |-> FALSE,
    over |-> FALSE],
   [prefetch |-> FALSE, loop |-> 1, keep_open |-> 1, idle |-> 1, external |-> TRUE,
    over |-> FALSE]}

\* A file that seeks may bring back after its end.
MCSeekOptions ==
  {[prefetch |-> FALSE, loop |-> 1, keep_open |-> 0, idle |-> 0, external |-> FALSE,
    over |-> TRUE]}
===============================================================================
