---------------------------- MODULE CheckVerdict ----------------------------
(***************************************************************************)
(* What a CCheckQueueControl promises its owner (checkqueue.h): checks are *)
(* handed over in any number of batches, and Complete says that all of     *)
(* them passed, or gives the error of one that did not.  Nothing of an     *)
(* earlier owner shows in the answer.                                      *)
(***************************************************************************)
CONSTANTS Error, None

VARIABLES
  open,       \* whether somebody owns a control
  errors,     \* the errors of the checks handed over so far
  verdict     \* the answer of the last Complete; None for "all passed"

Init == open = FALSE /\ errors = {} /\ verdict = None

Open == ~open /\ open' = TRUE /\ errors' = {} /\ verdict' = None

\* Checks with the errors E, and any number that pass, are handed over.
Add(E) == open /\ errors' = errors \cup E /\ UNCHANGED <<open, verdict>>

Complete ==
  /\ open
  /\ open' = FALSE
  /\ errors' = {}
  /\ IF errors = {} THEN verdict' = None ELSE verdict' \in errors

Next == Open \/ Complete \/ \E E \in SUBSET Error : Add(E)

Spec == Init /\ [][Next]_<<open, errors, verdict>>
=============================================================================
