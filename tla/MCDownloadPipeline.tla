------------------------- MODULE MCDownloadPipeline -------------------------
(***************************************************************************)
(* Two requests for one key, on top of what earlier ones left: every race  *)
(* on its row and its object.  Passes start every hour and extractions     *)
(* take minutes, so the two seldom overlap; the history variable says      *)
(* whether they have, for what only holds when they have not.              *)
(***************************************************************************)
EXTENDS DownloadPipeline

CONSTANTS r1, r2, k1

MCKeyOf == [r \in Requests |-> k1]

VARIABLE overlapped   \* a pass and an extraction have run at the same time

MCInit == Init /\ overlapped = FALSE

MCNext ==
  /\ Next
  /\ overlapped' = (overlapped \/ (pass' # "idle" /\ worker' # "idle"))

MCSpec == MCInit /\ [][MCNext]_<<vars, overlapped>>

MCFairSpec == MCSpec /\ Fairness

\* A job shown as completed has its file, as long as no cleanup pass has run
\* beside an extraction (DownloadPipeline!ShownFileExists otherwise fails).
ShownFileExistsApart == ~overlapped => ShownFileExists

\* As long as no pass has run beside an extraction, nothing takes an asset
\* away that has not expired, but the delete of a handler that found its
\* object missing before another extraction stored it again.
FreshAssetKept ==
  [][\A k \in Keys :
       ~overlapped' /\ row[k] \in fresh /\ object[k] = "stored"
         => \/ object'[k] \in {"stored", "lost"} /\ row'[k] = row[k]
            \/ \E r \in Requests :
                 /\ api[r] = "delete" /\ api'[r] # "delete"
                 /\ found[r] = row[k] /\ object'[k] = object[k]]_vars
=============================================================================
