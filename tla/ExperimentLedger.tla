-------------------------- MODULE ExperimentLedger --------------------------
(***************************************************************************)
(* The governed experiment runner (experiment_runner.py): the hash-chained *)
(* ledger of results, the reservations that count against the budgets, the *)
(* state of the research cycle and the intent file of a record in          *)
(* progress, each written by a rename of its own, under one flock; and the *)
(* recovery of the intents a dead process left, which the constructor does *)
(* without the flock.                                                      *)
(*                                                                         *)
(* A manifest is the trial it names, a link of the hash chain the position *)
(* of an entry; time stamps and justifications are left out.  A process is *)
(* a script with its own trials (Mine).                                    *)
(***************************************************************************)
EXTENDS Naturals, FiniteSets, Sequences, SequencesExt

CONSTANTS
    Processes, Trials, None,
    FamilyOf,           \* the family of each trial
    Mine,               \* the trials of each process
    FamilyBudget,       \* allowed_feature_families, max_trials_in_family
    CycleBudget,        \* max_total_trials
    EarlyStates,        \* states of a cycle before HOLDOUT_AUTHORIZED, 4 in the code
    QuietStart,         \* a runner is constructed only while no other works
    FaultyWrites,       \* the control points whose write may raise
    MaxFaults,          \* writes that raise
    MaxCrashes          \* processes that die

Writes == {"newLedger", "newReservations", "reconciled", "aborting", "clear",
           "reserve", "update", "record", "commit", "complete"}

ASSUME TrialAssumption ==
    /\ FamilyOf \in [Trials -> STRING] /\ Mine \in [Processes -> SUBSET Trials]
    /\ FamilyBudget \in Nat /\ CycleBudget \in Nat /\ EarlyStates \in Nat /\ QuietStart \in BOOLEAN
    /\ FaultyWrites \subseteq Writes /\ MaxFaults \in Nat /\ MaxCrashes \in Nat
    /\ None \notin Processes \cup Trials

VARIABLES
    ledger,             \* the ledger file: the trials with a result, in order
    reserved,           \* the reservations file
    intents,            \* the trials with an .intent file
    cycle,              \* the cycle state file
    lock,               \* who holds the flock
    at, entries, known, trial, todo,   \* of each process
    granted,            \* how often the holdout was handed out
    faults, crashes

files == <<ledger, reserved, intents>>
process == <<at, entries, known, trial, todo>>
bounds == <<faults, crashes>>
vars == <<files, cycle, lock, process, granted, bounds>>

Live == {"RESERVED", "RUNNING"}
TrialStatus == Live \cup {"COMPLETED", "FAILED", "ABORTED"}
Reservations == [Trials -> TrialStatus \cup {None}]

ASSUME NothingAssumption == None \notin TrialStatus \cup Reservations \cup Seq(Trials)

(* _STATE_ORDER, counted from 0: HOLDOUT_AUTHORIZED, HOLDOUT_CONSUMED,     *)
(* CLOSED.                                                                 *)
Authorized == EarlyStates
Consumed == EarlyStates + 1
Closed == EarlyStates + 2

Constructing == {"ledger", "newLedger", "reservations", "newReservations", "recover",
                 "reconciled", "abort", "aborting", "clear"}
Locked == {"aborting", "reserve", "update", "record", "intent", "commit", "complete",
           "tidy", "advance", "holdout", "handOut"}

TrialTypeOK ==
    /\ ledger \in Seq(Trials) \cup {None}
    /\ reserved \in Reservations \cup {None}
    /\ intents \subseteq Trials
    /\ cycle \in 0..Closed
    /\ lock \in Processes \cup {None}
    /\ at \in [Processes -> {"off", "ready", "refused"} \cup Constructing \cup Locked]
    /\ entries \in [Processes -> Seq(Trials)]
    /\ known \in [Processes -> Reservations]
    /\ trial \in [Processes -> Trials \cup {None}]
    /\ todo \in [Processes -> SUBSET Trials]
    /\ granted \in Nat /\ faults \in 0..MaxFaults /\ crashes \in 0..MaxCrashes
    /\ \A p \in Processes : at[p] \in Locked <=> lock = p

NoReservations == [t \in Trials |-> None]

TrialInit ==
    /\ ledger = None /\ reserved = None /\ intents = {} /\ cycle = 0 /\ lock = None
    /\ at = [p \in Processes |-> "off"]
    /\ entries = [p \in Processes |-> <<>>]
    /\ known = [p \in Processes |-> NoReservations]
    /\ trial = [p \in Processes |-> None]
    /\ todo = [p \in Processes |-> {}]
    /\ granted = 0 /\ faults = 0 /\ crashes = 0

----------------------------------------------------------------------------
(* Helpers.                                                                *)

Step(p, from, to) == at[p] = from /\ at' = [at EXCEPT ![p] = to]

Remember(p, r) == known' = [known EXCEPT ![p] = r]

Recorded(p, t) == t \in ToSet(entries[p])

(* _load_or_init_reservations keeps what only the memory knows.            *)
Merged(p) == [t \in Trials |-> IF reserved[t] = None THEN known[p][t] ELSE reserved[t]]

Attempts(r) == {t \in Trials : r[t] # None}

InFamily(t, r) == {u \in Attempts(r) : FamilyOf[u] = FamilyOf[t]}

With(r, t, s) == [r EXCEPT ![t] = s]

(* The process is gone, and its flock with it.                             *)
Ends(p) ==
    /\ at' = [at EXCEPT ![p] = "off"]
    /\ lock' = IF lock = p THEN None ELSE lock
    /\ entries' = [entries EXCEPT ![p] = <<>>]
    /\ Remember(p, NoReservations)
    /\ trial' = [trial EXCEPT ![p] = None]
    /\ todo' = [todo EXCEPT ![p] = {}]

----------------------------------------------------------------------------
(* The constructor.                                                        *)

Start(p) ==
    /\ QuietStart => \A q \in Processes \ {p} : at[q] \in {"off", "ready"}
    /\ Step(p, "off", "ledger")
    /\ UNCHANGED <<files, cycle, lock, entries, known, trial, todo, granted, bounds>>

LoadLedger(p) ==
    /\ IF ledger = None
       THEN Step(p, "ledger", "newLedger") /\ UNCHANGED entries
       ELSE /\ Step(p, "ledger", "reservations")
            /\ entries' = [entries EXCEPT ![p] = ledger]
    /\ UNCHANGED <<files, cycle, lock, known, trial, todo, granted, bounds>>

InitLedger(p) ==
    /\ Step(p, "newLedger", "reservations")
    /\ ledger' = <<>>
    /\ UNCHANGED <<reserved, intents, cycle, lock, entries, known, trial, todo, granted, bounds>>

(* The last load; recovery then goes through the intents it finds.         *)
LoadReservations(p) ==
    /\ IF reserved = None
       THEN Step(p, "reservations", "newReservations") /\ UNCHANGED <<known, todo>>
       ELSE /\ Step(p, "reservations", "recover")
            /\ Remember(p, Merged(p))
            /\ todo' = [todo EXCEPT ![p] = intents]
    /\ UNCHANGED <<files, cycle, lock, entries, trial, granted, bounds>>

InitReservations(p) ==
    /\ Step(p, "newReservations", "recover")
    /\ reserved' = NoReservations
    /\ todo' = [todo EXCEPT ![p] = intents]
    /\ UNCHANGED <<ledger, intents, cycle, lock, entries, known, trial, granted, bounds>>

(* A recovery that cannot account for an intent refuses to construct.      *)
Unaccountable(p, t) ==
    \/ t \notin intents \/ known[p][t] = None
    \/ known[p][t] = "COMPLETED" /\ ~Recorded(p, t)

(* Mutant: a result that is in the ledger is aborted like a lost one.      *)
AfterRecoveryAborts(p, t) ==
    IF Unaccountable(p, t) THEN "refused"
    ELSE IF known[p][t] \in Live THEN "abort" ELSE "clear"

AfterRecovery(p, t) ==
    IF Unaccountable(p, t) THEN "refused"
    ELSE IF known[p][t] \notin Live THEN "clear"
    ELSE IF Recorded(p, t) THEN "reconciled" ELSE "abort"

Recover(p) ==
    \E t \in todo[p] :
        /\ Step(p, "recover", AfterRecovery(p, t))
        /\ trial' = [trial EXCEPT ![p] = t]
        /\ IF AfterRecovery(p, t) = "reconciled"
           THEN Remember(p, With(known[p], t, "COMPLETED")) ELSE UNCHANGED known
        /\ UNCHANGED <<files, cycle, lock, entries, todo, granted, bounds>>

(* _save_reservations, with all the constructor has read and no flock.     *)
SaveReconciled(p) ==
    /\ Step(p, "reconciled", "clear")
    /\ reserved' = known[p]
    /\ UNCHANGED <<ledger, intents, cycle, lock, entries, known, trial, todo, granted, bounds>>

(* Another constructor may have removed the file.                          *)
ClearIntent(p) ==
    /\ Step(p, "clear", IF trial[p] \in intents THEN "recover" ELSE "refused")
    /\ intents' = intents \ {trial[p]}
    /\ todo' = [todo EXCEPT ![p] = @ \ {trial[p]}]
    /\ trial' = [trial EXCEPT ![p] = None]
    /\ UNCHANGED <<ledger, reserved, cycle, lock, entries, known, granted, bounds>>

Constructed(p) ==
    /\ todo[p] = {}
    /\ Step(p, "recover", "ready")
    /\ UNCHANGED <<files, cycle, lock, entries, known, trial, todo, granted, bounds>>

----------------------------------------------------------------------------
(* Calls, each under the flock.                                            *)

MayLock == lock = None /\ (QuietStart => \A q \in Processes : at[q] \notin Constructing)

(* Take the flock and read the reservations again.                         *)
Enter(p, from, to, t) ==
    /\ Step(p, from, to)
    /\ lock' = p
    /\ Remember(p, Merged(p))
    /\ trial' = [trial EXCEPT ![p] = t]
    /\ UNCHANGED <<files, cycle, todo, granted, bounds>>

(* Mutant: a record is added to the ledger the process has in memory.      *)
CallOnMemory(p) ==
    /\ MayLock
    /\ \E t \in Mine[p], call \in {"reserve", "update", "record"} :
          Enter(p, "ready", call, t) /\ UNCHANGED entries

Call(p) ==
    /\ MayLock
    /\ \/ \E t \in Mine[p], call \in {"reserve", "update"} :
              Enter(p, "ready", call, t) /\ UNCHANGED entries
       \/ \E t \in Mine[p] :
              Enter(p, "ready", "record", t) /\ entries' = [entries EXCEPT ![p] = ledger]

(* Mutant: an early return keeps the flock.                                *)
LeaveHolding(p) ==
    /\ UNCHANGED lock
    /\ trial' = [trial EXCEPT ![p] = None]
    /\ UNCHANGED <<entries, todo>>

(* Leave the flock, having returned or raised.                             *)
Leave(p) ==
    /\ lock' = None
    /\ trial' = [trial EXCEPT ![p] = None]
    /\ UNCHANGED <<entries, todo>>

(* Mutant: the budget counts only what has not ended badly.                *)
WithinBudgetOfLive(p, t) ==
    LET counted == [u \in Trials |-> IF known[p][u] \in {"FAILED", "ABORTED"}
                                     THEN None ELSE known[p][u]]
    IN  /\ Cardinality(Attempts(counted)) < CycleBudget
        /\ Cardinality(InFamily(t, counted)) < FamilyBudget

WithinBudget(p, t) ==
    /\ Cardinality(Attempts(known[p])) < CycleBudget
    /\ Cardinality(InFamily(t, known[p])) < FamilyBudget

ReserveTrial(p) ==
    LET t == trial[p]
    IN  /\ Step(p, "reserve", "ready")
        /\ known[p][t] = None /\ WithinBudget(p, t)
        /\ Remember(p, With(known[p], t, "RESERVED"))
        /\ reserved' = known'[p]
        /\ Leave(p)
        /\ UNCHANGED <<ledger, intents, cycle, granted, bounds>>

(* valid_transitions.                                                      *)
Allowed(s) ==
    IF s = "RESERVED" THEN {"RUNNING", "ABORTED"}
    ELSE IF s = "RUNNING" THEN {"COMPLETED", "FAILED", "ABORTED"} ELSE {}

UpdateTrialStatus(p) ==
    /\ Step(p, "update", "ready")
    /\ \E s \in Allowed(known[p][trial[p]]) :
           Remember(p, With(known[p], trial[p], s))
    /\ reserved' = known'[p]
    /\ Leave(p)
    /\ UNCHANGED <<ledger, intents, cycle, granted, bounds>>

(* update_trial_status, called by the recovery of a lost record.           *)
AbortLost(p) ==
    /\ lock = None
    /\ Enter(p, "abort", "aborting", trial[p]) /\ UNCHANGED entries

(* The transition is refused to a trial that has ended meanwhile.          *)
SaveAborted(p) ==
    LET open == known[p][trial[p]] \in Live
    IN  /\ Step(p, "aborting", IF open THEN "clear" ELSE "refused")
        /\ Remember(p, IF open THEN With(known[p], trial[p], "ABORTED") ELSE known[p])
        /\ reserved' = IF open THEN known'[p] ELSE reserved
        /\ lock' = None
        /\ UNCHANGED <<ledger, intents, cycle, entries, trial, todo, granted, bounds>>

MayRecord(p) ==
    LET t == trial[p]
    IN  /\ known[p][t] = "RUNNING"
        /\ Cardinality(InFamily(t, known[p]) \ {t}) < FamilyBudget

(* record_trial: the intent, the ledger, the reservation, the intent.      *)
WriteIntent(p) ==
    /\ Step(p, "record", "commit")
    /\ MayRecord(p)
    /\ intents' = intents \cup {trial[p]}
    /\ UNCHANGED <<ledger, reserved, cycle, lock, entries, known, trial, todo, granted, bounds>>

(* Mutant: the reservation is completed before the ledger is written.      *)
CompletesFirst(p) ==
    /\ Step(p, "commit", "complete")
    /\ reserved' = With(known[p], trial[p], "COMPLETED")
    /\ UNCHANGED <<ledger, intents, cycle, lock, entries, known, trial, todo, granted, bounds>>

CommitResult(p) ==
    /\ Step(p, "commit", "complete")
    /\ entries' = [entries EXCEPT ![p] = Append(@, trial[p])]
    /\ ledger' = entries'[p]
    /\ UNCHANGED <<reserved, intents, cycle, lock, known, trial, todo, granted, bounds>>

CompleteReservation(p) ==
    /\ Step(p, "complete", "tidy")
    /\ Remember(p, With(known[p], trial[p], "COMPLETED"))
    /\ reserved' = known'[p]
    /\ UNCHANGED <<ledger, intents, cycle, lock, entries, trial, todo, granted, bounds>>

TidyIntent(p) ==
    /\ Step(p, "tidy", "ready")
    /\ intents' = intents \ {trial[p]}
    /\ Leave(p)
    /\ UNCHANGED <<ledger, reserved, cycle, known, granted, bounds>>

(* A call that its checks refuse; update_trial_status and record_trial can *)
(* always be given a status or a manifest that is refused.                 *)
Refuse(p) ==
    /\ at[p] \in {"reserve", "update", "record"}
    /\ at[p] = "reserve" => known[p][trial[p]] # None \/ ~WithinBudget(p, trial[p])
    /\ at' = [at EXCEPT ![p] = "ready"]
    /\ Leave(p)
    /\ UNCHANGED <<files, cycle, known, granted, bounds>>

(* advance_research_state: one state forward.                              *)
Advance(p) ==
    /\ at[p] = "ready" /\ MayLock
    /\ cycle < Closed
    /\ cycle' = cycle + 1
    /\ UNCHANGED <<files, lock, process, granted, bounds>>

(* Mutant: whoever is not too early may read.                              *)
MayReadFromNowOn == cycle >= Authorized

(* access_dataset's test.                                                  *)
MayRead == cycle = Authorized

(* access_dataset(HOLDOUT): consumed in the file, then handed out.         *)
ConsumeHoldout(p) ==
    /\ at[p] = "ready" /\ MayLock /\ MayRead
    /\ cycle' = Consumed
    /\ lock' = p
    /\ at' = [at EXCEPT ![p] = "handOut"]
    /\ UNCHANGED <<files, entries, known, trial, todo, granted, bounds>>

HandOut(p) ==
    /\ Step(p, "handOut", "ready")
    /\ Leave(p)
    /\ granted' = granted + 1
    /\ UNCHANGED <<files, cycle, known, bounds>>

----------------------------------------------------------------------------
(* Failures.                                                               *)

(* What a write that raises leaves in memory; the call, or the             *)
(* constructor, raises.                                                    *)
Fault(p) ==
    /\ at[p] \in FaultyWrites
    /\ faults < MaxFaults /\ faults' = faults + 1
    /\ \/ /\ at[p] \in Locked \ {"aborting"}
          /\ at[p] = "reserve" => known[p][trial[p]] = None /\ WithinBudget(p, trial[p])
          /\ IF at[p] = "reserve"
             THEN Remember(p, With(known[p], trial[p], "RESERVED")) ELSE UNCHANGED known
          /\ at' = [at EXCEPT ![p] = "ready"] /\ Leave(p)
       \/ /\ at[p] \in Constructing
          /\ Ends(p)
    /\ UNCHANGED <<files, cycle, granted, crashes>>

(* The process ends, or dies between any two steps.                        *)
Crash(p) ==
    /\ at[p] \notin {"off", "refused"}
    /\ crashes < MaxCrashes /\ crashes' = crashes + 1
    /\ Ends(p)
    /\ UNCHANGED <<files, cycle, granted, faults>>

----------------------------------------------------------------------------
Construct(p) ==
    \/ LoadLedger(p) \/ InitLedger(p) \/ LoadReservations(p) \/ InitReservations(p)
    \/ Recover(p) \/ SaveReconciled(p)
    \/ AbortLost(p) \/ SaveAborted(p) \/ ClearIntent(p) \/ Constructed(p)

Answer(p) ==
    \/ ReserveTrial(p) \/ UpdateTrialStatus(p) \/ Refuse(p)
    \/ WriteIntent(p) \/ CommitResult(p) \/ CompleteReservation(p) \/ TidyIntent(p)
    \/ HandOut(p)

TrialNext ==
    \E p \in Processes :
        \/ Start(p) \/ Construct(p) \/ Call(p) \/ Answer(p)
        \/ Advance(p) \/ ConsumeHoldout(p) \/ Fault(p) \/ Crash(p)

TrialSpec == TrialInit /\ [][TrialNext]_vars

----------------------------------------------------------------------------
(* Properties.                                                             *)

(* The commit of the ledger is what completes a trial.                     *)
InLedger(t) == ledger # None /\ t \in ToSet(ledger)

StatusOnDisk(t) == IF reserved = None THEN None ELSE reserved[t]

Book == INSTANCE TrialBook WITH
    Trial <- Trials, Nothing <- None,
    results <- IF ledger = None THEN <<>> ELSE ledger,
    status <- [t \in Trials |->
                 IF InLedger(t) THEN "COMPLETED"
                 ELSE StatusOnDisk(t)]

(* The files and their recovery implement the book: no reservation is      *)
(* forgotten or exceeds a budget, no status goes back, and a trial has its *)
(* one result exactly when it is completed by it.                          *)
ImplementsTrialBook == Book!BookSpec

(* A runner can always be constructed: no crash of a script leaves files   *)
(* that the recovery takes for tampered with.                              *)
RecoveryAccepts == \A p \in Processes : at[p] # "refused"

(* The holdout is handed out at most once in the life of a cycle, and not  *)
(* before its model is frozen and it is authorised.                        *)
HoldoutReadOnce == granted <= 1 /\ (granted = 1 => cycle >= Consumed)

(* Once every script is up and between two calls, whoever died before, no  *)
(* record is half done: no intent is left, and the trials with a result    *)
(* are the ones recorded as completed that did not skip record_trial.      *)
ReadyIsSettled ==
    (\A p \in Processes : at[p] = "ready") =>
        /\ intents = {}
        /\ \A t \in Trials : InLedger(t) => StatusOnDisk(t) = "COMPLETED"

(* Once the ledger is there and no constructor that found none is about to *)
(* create it again, no result is lost, changed or moved, whoever           *)
(* constructs, records, raises or dies at the same time (record_trial      *)
(* reads the ledger again under the flock).                                *)
Created == ledger # None /\ \A p \in Processes : at[p] # "newLedger"

ResultsAreKept ==
    [][Created =>
         /\ Created'
         /\ Len(ledger) <= Len(ledger')
         /\ \A i \in 1..Len(ledger) : ledger'[i] = ledger[i]]_vars

(* "Durable atomic trial reservation": a reservation in the file stays.    *)
ReservationsAreDurable ==
    [][\A t \in Trials :
         StatusOnDisk(t) # None => StatusOnDisk(t)' # None]_vars
=============================================================================
