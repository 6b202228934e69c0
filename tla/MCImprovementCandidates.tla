----------------------- MODULE MCImprovementCandidates ----------------------
(***************************************************************************)
(* Small instances of ImprovementCandidates for TLC.                       *)
(***************************************************************************)
EXTENDS ImprovementCandidates

(* Candidates that all pass, and two that do next to one that falls short  *)
(* by a quality.                                                           *)
AllPass == [c \in Candidate |-> {"changed", "meaningful", "safe"}]
OneShort ==
  [c \in Candidate |-> {"meaningful", "safe"} \union IF c = 3 THEN {} ELSE {"changed"}]
=============================================================================
