--------------------------- MODULE MCFleetPlacement ---------------------------
(***************************************************************************)
(* FleetStore with two workers that compete for one benchmark submission   *)
(* of two runs, and the submission an operator may recover it into.        *)
(***************************************************************************)
EXTENDS FleetStore, TLC

CONSTANTS w1, w2, s1, s2, b1, b2, j1, j2, j3, bench, fast

WorkerOfDef == (s1 :> w1) @@ (s2 :> w2)
SubmissionOfDef == (j1 :> b1) @@ (j2 :> b1) @@ (j3 :> b2)
AdvertisedDef == [s \in {s1, s2} |-> {bench}]
RequiredDef == [j \in {j1, j2, j3} |-> bench]
RevisionDef == [s \in {s1, s2} |-> 2]
PoliciesDef == {[enabled |-> TRUE, caps |-> {bench}, profile |-> fast]}
AttemptSymmetry == Permutations(Attempts)

\* The operator leaves the scheduler and the protocol floor alone.
MCNext == Next /\ UNCHANGED <<scheduler, floor>>

MCSpec == Init /\ [][MCNext]_vars
=============================================================================
