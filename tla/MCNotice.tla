------------------------------ MODULE MCNotice ------------------------------
(***************************************************************************)
(* Model checking of Notice and SessionHook.  A behaviour is either about  *)
(* the commands, two processes and two providers with the operator editing *)
(* what they change, or about a session, with one process and one provider *)
(* that changes: each has everything that interleaves, and the product of  *)
(* the two would only be larger.                                           *)
(***************************************************************************)
EXTENDS SessionHook

VARIABLE focus

mcvars == <<dvars, focus>>

OneProc == CHOOSE c \in Procs : TRUE
OneProvider == CHOOSE p \in Providers : TRUE

MCInit ==
  /\ DeliveryInit
  /\ focus \in {"commands", "session"}
  /\ focus = "commands" => \A s \in Sessions : daemon[s].legacy /\ daemon[s].model = OneProvider
  /\ focus = "commands" => actions = Actions
  /\ focus = "session" => actions = 0 /\ mode = "chain"

\* The bounds of a behaviour about a session.
Narrow ==
  /\ \A c \in Procs \ {OneProc} : proc'[c] = Idle
  /\ \A p \in Providers \ {OneProvider} : live'[p] = live[p]
  /\ count'.edits = 0 /\ count'.faults <= 1

MCNext ==
  /\ DeliveryNext
  /\ IF focus = "session" THEN Narrow ELSE open' = {}
  /\ UNCHANGED focus

MCSpec == MCInit /\ [][MCNext]_mcvars /\ NoticeFairness
=============================================================================
