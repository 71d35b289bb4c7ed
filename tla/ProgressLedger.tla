--------------------------- MODULE ProgressLedger ---------------------------
(***************************************************************************)
(* What the finalization progress store promises, without its files: every *)
(* change of a partition's entry, of the list of pending partitions and of *)
(* the counters is one indivisible step.                                   *)
(*                                                                         *)
(* FinalizationStore implements it with five file writes and a write-ahead *)
(* record, in the presence of crashes and failing writes.                  *)
(***************************************************************************)
EXTENDS Naturals, FiniteSets

CONSTANT Entry

VARIABLES
  status,    \* what is known of each partition
  listed,    \* the partitions that are still to be finalized
  count,     \* the counters of the summary
  complete   \* the summary says COMPLETE

ledgerVars == <<status, listed, count, complete>>

Outcome == {"REUSED", "RECOMPUTED", "FAILED"}
Status == {"ABSENT", "PENDING"} \cup Outcome

Registered == {e \in Entry : status[e] # "ABSENT"}
InState(s) == {e \in Entry : status[e] = s}

LedgerInit ==
  /\ status = [e \in Entry |-> "ABSENT"]
  /\ listed = {}
  /\ count = [total |-> 0, pending |-> 0, REUSED |-> 0, RECOMPUTED |-> 0, FAILED |-> 0]
  /\ complete = FALSE

(* A partition is registered once, before its first record is written.      *)
Register(e) ==
  /\ status[e] = "ABSENT"
  /\ status' = [status EXCEPT ![e] = "PENDING"]
  /\ listed' = listed \cup {e}
  /\ count' = [total |-> count.total + 1, pending |-> count.pending + 1,
               REUSED |-> count.REUSED, RECOMPUTED |-> count.RECOMPUTED, FAILED |-> count.FAILED]
  /\ UNCHANGED complete

Incremented(n, s, t) == IF s = t THEN n + 1 ELSE n

(* A partition gets an outcome.  One that has an outcome already may get    *)
(* another, and both are counted.                                           *)
Finish(e, s) ==
  /\ status[e] # "ABSENT"
  /\ status' = [status EXCEPT ![e] = s]
  /\ listed' = listed \ {e}
  /\ count' = [total |-> count.total,
               pending |-> IF status[e] = "PENDING" THEN count.pending - 1 ELSE count.pending,
               REUSED |-> Incremented(count.REUSED, s, "REUSED"),
               RECOMPUTED |-> Incremented(count.RECOMPUTED, s, "RECOMPUTED"),
               FAILED |-> Incremented(count.FAILED, s, "FAILED")]
  /\ UNCHANGED complete

(* COMPLETE is written only while nothing is pending and nothing has ever   *)
(* failed; it is never taken back.                                          *)
Close ==
  /\ count.pending = 0
  /\ count.FAILED = 0
  /\ complete' = TRUE
  /\ UNCHANGED <<status, listed, count>>

LedgerNext ==
  \/ \E e \in Entry : Register(e) \/ \E s \in Outcome : Finish(e, s)
  \/ Close

LedgerSpec == LedgerInit /\ [][LedgerNext]_ledgerVars

-----------------------------------------------------------------------------
(* The list is exactly the partitions that are PENDING, the totals count    *)
(* them and the registered ones, and no outcome that some partition has is  *)
(* missing from its counter.                                                *)
IndexIsTrue ==
  /\ listed = InState("PENDING")
  /\ count.pending = Cardinality(listed)
  /\ count.total = Cardinality(Registered)
  /\ \A s \in Outcome : count[s] >= Cardinality(InState(s))

=============================================================================
