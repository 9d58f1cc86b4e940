----------------------------- MODULE MCFleetStore -----------------------------
(***************************************************************************)
(* FleetStore with one worker whose process restarts: two sessions and the *)
(* two jobs of one submission, or of two.  The older session speaks only   *)
(* the previous protocol revision.  A behaviour is about one case, named   *)
(* by part: an operator who pauses and resumes the fleet, aborts work and  *)
(* moves the protocol floor; one who changes the worker's lifecycle and    *)
(* policy; one who cancels jobs; or a daemon that fails queued ones.       *)
(***************************************************************************)
EXTENDS FleetStore, TLC

CONSTANTS w1, s1, s2, b1, b2, j1, j2, bench, build, fast, slow

VARIABLE part

WorkerOfDef == [s \in {s1, s2} |-> w1]
OneSubmission == [j \in {j1, j2} |-> b1]
TwoSubmissions == (j1 :> b1) @@ (j2 :> b2)
AdvertisedDef == [s \in {s1, s2} |-> {bench, build}]
RequiredDef == [j \in {j1, j2} |-> IF j = j1 THEN bench ELSE build]
RevisionDef == (s1 :> 1) @@ (s2 :> 2)
AllowBoth == [enabled |-> TRUE, caps |-> {bench, build}, profile |-> fast]
OnePolicy == {AllowBoth}
AttemptSymmetry == Permutations(Attempts)

\* The cases.  Only the first has a scheduler that is paused and resumed and a
\* floor that changes, only the last a job that still waits for preparation.
CommandsOf ==
    [pause |-> {"abort"},
     lifecycle |-> {"cordon", "uncordon", "shutdown_after_idle", "disable"},
     cancelling |-> {"cancel"},
     failing |-> {"fail_queued"}]
PoliciesOf ==
    [pause |-> Policies,
     lifecycle |-> {[AllowBoth EXCEPT !.caps = {bench}, !.profile = p] : p \in {fast, slow}},
     cancelling |-> Policies,
     failing |-> Policies]

Case(k) == INSTANCE FleetStore WITH
    Commands <- CommandsOf[k], Policies <- PoliciesOf[k],
    Prepared <- IF k = "failing" THEN Prepared ELSE Jobs,
    Floors <- IF k = "pause" THEN Floors ELSE {1},
    MaxGeneration <- IF k = "pause" THEN MaxGeneration ELSE 0

MCInit == \E k \in DOMAIN CommandsOf : part = k /\ Case(k)!Init

\* The job whose cancellation may be seen between its two halves.  A cancellation
\* of a job that has ended decides nothing and is left out.
MayCancel == {j1}

MCNext ==
    /\ \E k \in DOMAIN CommandsOf : part = k /\ Case(k)!Next /\ UNCHANGED part
    /\ cancelling' \subseteq MayCancel
    /\ \A j \in cancelling' \ cancelling : job[j].status \in {"queued", "running"}

MCSpec == MCInit /\ [][MCNext]_<<vars, part>>
=============================================================================
