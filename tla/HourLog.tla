------------------------------- MODULE HourLog -------------------------------
(***************************************************************************)
(* What the collector's single writer promises about the raw files of an   *)
(* hour and the journal that freezes it, without its queue, its clock and  *)
(* its shutdown: a record goes into an hour that is still open and is      *)
(* counted, an hour is closed once, and what its journal says then are the *)
(* records counted for it.  One record may be appended and not counted:    *)
(* the one the clock check refuses, after which nothing is appended again. *)
(*                                                                         *)
(* CollectorWriter implements it.                                          *)
(***************************************************************************)
EXTENDS Naturals

CONSTANTS Hour, Feed, None

VARIABLES
    written,    \* the records in the raw file of a feed's hour
    counts,     \* those the coverage tracker counted
    closed,     \* the counts an hour was closed with, None while it is open
    refused     \* a record was refused after it was appended

hourLogVars == <<written, counts, closed, refused>>

Zero == [h \in Hour |-> [f \in Feed |-> 0]]

HourLogInit ==
    /\ written = Zero /\ counts = Zero
    /\ closed = [h \in Hour |-> None]
    /\ refused = FALSE

(* Every hour of S is closed, in one step or not at all.                    *)
CloseHours(S) ==
    /\ \A h \in S : closed[h] = None
    /\ closed' = [h \in Hour |-> IF h \in S THEN counts[h] ELSE closed[h]]

Plus(log, h, f) == [log EXCEPT ![h][f] = @ + 1]

(* The writer's step on one event: it may first close hours, and the event  *)
(* does not go into one of those.                                           *)
Append(h, f) ==
    /\ ~refused
    /\ closed'[h] = None
    /\ written' = Plus(written, h, f)
    /\ counts' = Plus(counts, h, f)
    /\ UNCHANGED refused

Refuse(h, f) ==
    /\ ~refused
    /\ written' = Plus(written, h, f)
    /\ refused' = TRUE
    /\ UNCHANGED counts

HourLogNext ==
    \E S \in SUBSET Hour :
        /\ CloseHours(S)
        /\ \/ UNCHANGED <<written, counts, refused>>
           \/ \E h \in Hour, f \in Feed : Append(h, f) \/ Refuse(h, f)

HourLogSpec == HourLogInit /\ [][HourLogNext]_hourLogVars

=============================================================================
