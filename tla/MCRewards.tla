------------------------------- MODULE MCRewards -------------------------------
(***************************************************************************)
(* Two small instances of OrderEffects: a checkout of two packages with one *)
(* request at a time, whose marks must not lie, and a checkout of one       *)
(* package with several requests and both ways of closing it, of which the  *)
(* two crons must make an end.  Each is explored by itself: part says which *)
(* one takes steps.                                                         *)
(***************************************************************************)
EXTENDS OrderEffects

CONSTANTS Package, Rivals, RivalFaults

VARIABLES status1, points1, commission1, wallet1, water1, profile1, delivered1, reversed1, job1, faults1, part
singleVars == << status1, points1, commission1, wallet1, water1, profile1, delivered1, reversed1, job1, faults1 >>

Single == INSTANCE OrderEffects
  WITH Orders <- {Package}, Requests <- Rivals, Closers <- {"shop", "customer"}, MaxFaults <- RivalFaults,
       status <- status1, points <- points1, commission <- commission1, wallet <- wallet1, water <- water1,
       profile <- profile1, delivered <- delivered1, reversed <- reversed1, job <- job1, faults <- faults1

RewardsInit ==
  \/ part = "MARKS" /\ Init /\ Single!Init /\ profile1 = FALSE
  \/ part = "RESYNC" /\ Init /\ Single!Init /\ profile = FALSE
RewardsNext ==
  \/ part = "MARKS" /\ Next /\ UNCHANGED << singleVars, part >>
  \/ part = "RESYNC" /\ Single!Next /\ UNCHANGED << vars, part >>
RewardsSpec ==
  /\ RewardsInit /\ [][RewardsNext]_<< vars, singleVars, part >>
  /\ part = "RESYNC" => Single!Fairness

(* Every closed order is undone in the end and every delivered one          *)
(* rewarded, whoever dies on the way (EffectsAreDone of OrderEffects).      *)
ResyncsGetThere == part = "RESYNC" => Single!EffectsAreDone
=============================================================================
