--------------------------- MODULE EpisodeOutcome ---------------------------
(***************************************************************************)
(* What the game server promises about an episode, whatever goes wrong:    *)
(* its private record is sealed once, and public artifacts appear only     *)
(* together with a record sealed as completed.                             *)
(***************************************************************************)
VARIABLES record,  \* "open" until sealed
          public   \* the artifacts written

Artifacts == {"results", "replay"}

Init == record = "open" /\ public = {}

(* Some artifact may be missing: writing them can fail half way.           *)
Complete ==
  /\ record = "open"
  /\ record' = "completed"
  /\ public' \in SUBSET Artifacts

Withhold ==
  /\ record = "open"
  /\ record' \in {"failed", "truncated"}
  /\ UNCHANGED public

Next == Complete \/ Withhold

Spec == Init /\ [][Next]_<<record, public>>
=============================================================================
