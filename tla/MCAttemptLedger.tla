--------------------------- MODULE MCAttemptLedger ---------------------------
(***************************************************************************)
(* AttemptLedger on a small instance.  Its behaviours are divided into     *)
(* cases, named by part, in each of which some of the actors rest: a       *)
(* stream of events and progress; two uploads and one call that completes  *)
(* the attempt, without failures; and one upload with two such calls, the  *)
(* second a retry of the first.                                            *)
(***************************************************************************)
EXTENDS AttemptLedger, TLC

CONSTANTS h1, h2, f1, f2

VARIABLE part

Completion(last, outcome, manifest) ==
    [last |-> last, outcome |-> outcome, manifest |-> manifest]

\* A manifest lists all uploads, or leaves one out.
RequestsOf ==
    [stream |-> {Completion(3, "completed", {}), Completion(2, "cancelled", {})},
     uploads |-> {Completion(1, "completed", {f1, f2}), Completion(1, "cancelled", {f1})},
     retry |-> {Completion(1, "completed", {f1}), Completion(1, "failed", {})}]
AllRequests == UNION {RequestsOf[k] : k \in DOMAIN RequestsOf}

MCInit == Init /\ part \in DOMAIN RequestsOf /\ request \in RequestsOf[part]

MCNext ==
    /\ Next
    /\ UNCHANGED part
    /\ part = "stream" => staging' = staging
    /\ part # "stream" => progress' = progress /\ \A n \in 2 .. MaxSeq : event'[n] = "absent"
    /\ part # "retry" => task'[h2] = task[h2]
    /\ part = "retry" => staging'[f2] = "none"
    /\ part = "uploads" => failures' = 0

MCSpec == MCInit /\ [][MCNext]_<<vars, part>>

\* The projection ticks for as long as the daemon runs.
MCFairSpec == MCSpec /\ WF_vars(TickNext)
=============================================================================
