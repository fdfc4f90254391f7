---------------------------- MODULE MCPhaseDriver ----------------------------
(* Values of PhaseDriver's constants for TLC.                               *)
EXTENDS PhaseDriver

(* Two flows of up to two units each, in every combination.                 *)
SmallMatrices == [Flows -> 0 .. 2]
SmallDemands  == [Phases -> SmallMatrices]

(* No traffic, two oblique matrices of close norms, and one of a larger norm *)
(* that is orthogonal to one of them.                                       *)
FewMatrices == {[f \in Flows |-> 0], [f \in Flows |-> f],
                [f \in Flows |-> IF f = 1 THEN 1 ELSE 0],
                [f \in Flows |-> IF f = 1 THEN 0 ELSE 4]}
FewDemands  == [Phases -> FewMatrices]

(* Four phases allow a match with the second archived phase after another   *)
(* match; small traffic that comes back at the end is added for the sake of *)
(* its many cosines.                                                        *)
ReturningDemands == FewDemands \cup {d \in SmallDemands : d[NumPhases - 1] = d[0]}
=============================================================================
