------------------------------ MODULE MCReceiver ------------------------------
(* Instances of Receiver for TLC. *)
EXTENDS Receiver

MCProfiles == {"none", "diagnostics_only", "base_survey"}

(* Profiles longer and shorter than the queue of the instance *)
ShortLength == [p \in MCProfiles |->
  CASE p = "none" -> 2 [] p = "diagnostics_only" -> 2 [] p = "base_survey" -> 3]

(* The profiles of the code without a signal mask: ten logs, six settings, *)
(* those of the mode and SAVECONFIG                                        *)
FullLength == [p \in MCProfiles |->
  CASE p = "none" -> 27 [] p = "diagnostics_only" -> 18 [] p = "base_survey" -> 20]
=============================================================================
