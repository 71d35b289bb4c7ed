------------------------------ MODULE TrialBook ------------------------------
(***************************************************************************)
(* What the governed experiment runner promises, as if each call were one  *)
(* step: a trial is reserved once, within its family's and the cycle's     *)
(* budget, and never forgotten; its status only goes forward; a trial that *)
(* runs is completed together with its one result.                         *)
(***************************************************************************)
EXTENDS Naturals, FiniteSets, Sequences

CONSTANTS Trial, FamilyOf, FamilyBudget, CycleBudget, Nothing

VARIABLES status, results

book == <<status, results>>

Known == {t \in Trial : status[t] # Nothing}

BInit == status = [t \in Trial |-> Nothing] /\ results = <<>>

Reserve(t) ==
    /\ status[t] = Nothing
    /\ Cardinality(Known) < CycleBudget
    /\ Cardinality({u \in Known : FamilyOf[u] = FamilyOf[t]}) < FamilyBudget
    /\ status' = [status EXCEPT ![t] = "RESERVED"]
    /\ UNCHANGED results

Move(t) ==
    /\ \/ status[t] = "RESERVED" /\ status' = [status EXCEPT ![t] = "RUNNING"]
       \/ /\ status[t] \in {"RESERVED", "RUNNING"}
          /\ status' = [status EXCEPT ![t] = "ABORTED"]
       \/ /\ status[t] = "RUNNING"
          /\ \E s \in {"COMPLETED", "FAILED"} : status' = [status EXCEPT ![t] = s]
    /\ UNCHANGED results

Record(t) ==
    /\ status[t] = "RUNNING"
    /\ status' = [status EXCEPT ![t] = "COMPLETED"]
    /\ results' = Append(results, t)

BNext == \E t \in Trial : Reserve(t) \/ Move(t) \/ Record(t)

BookSpec == BInit /\ [][BNext]_book
=============================================================================
