------------------------------ MODULE Capture -------------------------------
(***************************************************************************)
(* The private record of gnomic/training.py, as far as one seat fills it:  *)
(* the engine tells it what was delivered and what was executed, the       *)
(* seat's channel hands it the player's evidence, and finish seals it.  It *)
(* keeps a journal of its own, with rules of its own, next to the          *)
(* channel's; what it refuses leaves only an ingress issue.                *)
(***************************************************************************)
EXTENDS SeatWire

VARIABLES kept,     \* RequestWindow.attempts, of all windows
          closed,   \* windows whose action was executed
          overdue,  \* the newest window is past its deadline
          issues,   \* ingress_issues
          record    \* "open", and once sealed the status of the episode

capture == <<kept, closed, overdue, issues, record>>

Issues == {"out-of-window-attempt", "completed-attempt-mutated"}

CaptureTypeOK ==
  /\ kept \in [Attempts -> {"none"} \cup Evidence]
  /\ closed \subseteq Rids
  /\ overdue \in BOOLEAN
  /\ issues \subseteq Issues
  /\ record \in {"open", "completed", "failed", "truncated"}

CaptureInit ==
  /\ kept = [a \in Attempts |-> "none"]
  /\ closed = {}
  /\ overdue = FALSE
  /\ issues = {}
  /\ record = "open"

(* A request opens the newest window; its deadline is set before the send. *)
delivered ==
  /\ record = "open"
  /\ overdue' = FALSE
  /\ UNCHANGED <<kept, closed, issues, record>>

WindowExpires(r) ==
  /\ r \notin closed
  /\ ~overdue
  /\ overdue' = TRUE
  /\ UNCHANGED <<kept, closed, issues, record>>

(* A finished attempt takes nothing more, a new one needs an open window.  *)
Refused(m) ==
  \/ kept[m.id] \in Finished
  \/ kept[m.id] = "none" /\ (overdue \/ m.id[1] \in closed)

Issue(m) == IF kept[m.id] = "none" THEN "out-of-window-attempt"
                                   ELSE "completed-attempt-mutated"

(* Mutant: a refused attempt leaves no trace.                              *)
receive_Silent(m) ==
  /\ kept' = IF Refused(m) THEN kept ELSE [kept EXCEPT ![m.id] = m.attempt]
  /\ UNCHANGED <<closed, overdue, issues, record>>

(* The channel has already refused whatever does not extend its journal.   *)
receive(m) ==
  /\ IF Refused(m)
       THEN issues' = issues \cup {Issue(m)} /\ UNCHANGED kept
       ELSE kept' = [kept EXCEPT ![m.id] = m.attempt] /\ UNCHANGED issues
  /\ UNCHANGED <<closed, overdue, record>>

consumed(r) ==
  /\ record = "open"
  /\ closed' = closed \cup {r}
  /\ UNCHANGED <<kept, overdue, issues, record>>

(* A model's attempt that did not end, or ended on a partial body or an    *)
(* unjoined reader, truncates what would have been a completed episode.    *)
incomplete == \E a \in Attempts : kept[a] \in {"started", "open", "torn", "unjoined"}

(* Mutant: only an unjoined reader truncates.                              *)
finish_Joined(status) ==
  /\ record' = IF status = "completed" /\ \E a \in Attempts : kept[a] = "unjoined"
                 THEN "truncated" ELSE status
  /\ UNCHANGED <<kept, closed, overdue, issues>>

finish(status) ==
  /\ record' = IF status = "completed" /\ incomplete THEN "truncated" ELSE status
  /\ UNCHANGED <<kept, closed, overdue, issues>>
=============================================================================
