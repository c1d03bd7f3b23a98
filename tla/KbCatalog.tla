----------------------------- MODULE KbCatalog ------------------------------
(***************************************************************************)
(* What the user of a knowledge base is promised about searches.  There is *)
(* the set of documents the user wants searched, and the set a search may  *)
(* draw on.  A new document, or a replacement, is not searched at once:    *)
(* the two sets meet in one step, when an index of exactly the wanted      *)
(* documents is complete.  Until then searches go on as before, except     *)
(* that a removed document is never searched again.                        *)
(***************************************************************************)
CONSTANT Docs

VARIABLES
  wanted,       \* the documents the next index is to hold
  searchable,   \* the documents a search may return passages of
  open          \* the knowledge base has not been deleted

vars == <<wanted, searchable, open>>

Init == wanted = {} /\ searchable = {} /\ open = TRUE

Add(d) ==
  /\ open /\ d \notin wanted
  /\ wanted' = wanted \cup {d}
  /\ UNCHANGED <<searchable, open>>

\* d is wanted in the place of old, which stays searchable if it was.
Replace(d, old) ==
  /\ open /\ d \notin wanted /\ old \in wanted
  /\ wanted' = (wanted \ {old}) \cup {d}
  /\ UNCHANGED <<searchable, open>>

\* The documents in gone are removed; the one that a removed replacement was
\* to replace is wanted again.
Remove(gone) ==
  /\ open /\ gone # {}
  /\ wanted' \in SUBSET (Docs \ gone) /\ wanted \ gone \subseteq wanted'
  /\ searchable' = searchable \ gone
  /\ UNCHANGED open

Promote ==
  /\ open
  /\ searchable' = wanted
  /\ UNCHANGED <<wanted, open>>

Close ==
  /\ open
  /\ wanted' = {} /\ searchable' = {} /\ open' = FALSE

Next ==
  \/ \E d \in Docs : Add(d)
  \/ \E d, old \in Docs : Replace(d, old)
  \/ \E gone \in SUBSET Docs : Remove(gone)
  \/ Promote
  \/ Close

Spec == Init /\ [][Next]_vars
=============================================================================
