------------------------- MODULE MCExperimentLedger -------------------------
(* Two families and two scripts with trials of their own.                   *)
EXTENDS ExperimentLedger, TLC

CONSTANTS p1, p2, t1, t2, t3

MCFamilyOf == [t \in Trials |-> IF t = t2 THEN "g" ELSE "f"]
MCMine == p1 :> Trials \cap {t1, t2} @@ p2 :> Trials \cap {t3}
=============================================================================
