------------------------ MODULE ExperimentLedgerProofs ------------------------
(***************************************************************************)
(* What the runner's files say holds for every number of scripts, trials,  *)
(* crashes and failing writes: the types, the holdout that is handed out   *)
(* once, and the results that are never lost.  The rest (a runner can      *)
(* always be constructed, no record stays half done, the files implement   *)
(* the trial book) is proved for an orderly use only, which the code does  *)
(* not enforce: beside another constructor reservations are forgotten      *)
(* (ReservationsAreDurable is violated).                                   *)
(***************************************************************************)
EXTENDS ExperimentLedger, TLAPS

(* What the argument about the recovery needs: a runner is constructed     *)
(* while no other works, scripts have their own trials, and the writes of  *)
(* a reservation and of a record do not raise (a crash there is allowed).  *)
Orderly ==
    /\ QuietStart
    /\ FaultyWrites \cap {"reserve", "commit", "complete"} = {}
    /\ \A p, q \in Processes : p # q => Mine[p] \cap Mine[q] = {}

Idle(p) == at[p] \in {"off", "ready"}

(* A process that is doing something is the only one.                      *)
Alone == \A p, q \in Processes : p # q => Idle(p) \/ Idle(q)

Loading == {"ledger", "newLedger", "reservations", "newReservations"}
Recovering == {"recover", "reconciled", "abort", "aborting", "clear"}
Recording == {"commit", "complete", "tidy"}
Calling == {"reserve", "update", "record"} \cup Recording

(* What a process has in memory is what the files say.                     *)
MemoryHolds(p) ==
    /\ at[p] \in {"off"} \cup Loading => known[p] = NoReservations
    /\ at[p] \in {"off", "ledger", "newLedger"} => entries[p] = <<>>
    /\ at[p] = "newLedger" => ledger = None
    /\ at[p] = "newReservations" => reserved = None
    /\ \A t \in Trials : known[p][t] # None => reserved # None /\ reserved[t] # None
    /\ at[p] \in {"recover", "abort", "aborting", "clear"} \cup Calling => known[p] = reserved
    /\ at[p] \in {"reservations", "newReservations", "record", "commit"} \cup Recovering =>
         entries[p] = ledger
    /\ at[p] \in Recovering => todo[p] = intents

(* What each point of the recovery and of record_trial relies on.          *)
PointHolds(p) ==
    LET t == trial[p] IN
    /\ at[p] \in Calling => t \in Mine[p] /\ t \in Trials
    /\ at[p] \in (Recovering \ {"recover"}) \cup Recording => t \in intents
    /\ at[p] = "reconciled" => InLedger(t) /\ known[p] = With(reserved, t, "COMPLETED")
    /\ at[p] \in {"abort", "aborting"} => known[p][t] \in Live /\ ~InLedger(t)
    /\ at[p] = "clear" /\ InLedger(t) => reserved[t] = "COMPLETED"
    /\ at[p] \in {"commit", "complete"} => reserved[t] = "RUNNING"
    /\ at[p] = "commit" => ~InLedger(t)
    /\ at[p] \in {"complete", "tidy"} => InLedger(t)
    /\ at[p] = "tidy" => reserved[t] = "COMPLETED"

(* Ledger, reservations and intents account for each other.                *)
FilesAgree ==
    /\ \A t \in intents :
         /\ reserved # None /\ reserved[t] # None
         /\ reserved[t] = "COMPLETED" => InLedger(t)
    /\ \A t \in Trials : InLedger(t) =>
         /\ reserved # None
         /\ reserved[t] = "COMPLETED" \/ (t \in intents /\ reserved[t] = "RUNNING")

(* An intent belongs to a script that is recording it or has to recover    *)
(* before it can work again.                                               *)
IntentsAreOwned ==
    \A t \in intents :
      /\ \E p \in Processes : t \in Mine[p]
      /\ \A p \in Processes : t \in Mine[p] =>
           \/ at[p] \in {"off"} \cup Loading \cup Recovering
           \/ at[p] \in Recording /\ trial[p] = t

Holds(p) == MemoryHolds(p) /\ PointHolds(p) /\ at[p] # "refused"

TrialInv ==
    /\ Alone
    /\ \A p \in Processes : Holds(p)
    /\ FilesAgree
    /\ IntentsAreOwned

(* The holdout is handed out by whoever has just consumed it.              *)
HoldoutInv ==
    /\ HoldoutReadOnce
    /\ \A p \in Processes : at[p] = "handOut" =>
         granted = 0 /\ cycle >= Consumed /\ \A q \in Processes \ {p} : at[q] # "handOut"

----------------------------------------------------------------------------
(* Types.                                                                  *)

(* A runner past its loading has found both files, or made them.           *)
FilesThere ==
    \A p \in Processes :
      /\ at[p] \notin {"off", "ledger", "newLedger"} => ledger # None
      /\ at[p] \notin {"off"} \cup Loading => reserved # None

(* A call knows its trial.                                                 *)
CallsAreNamed == \A p \in Processes : at[p] \in Calling => trial[p] \in Trials

Sound == TrialTypeOK /\ FilesThere /\ CallsAreNamed

Points == {"off", "ready", "refused"} \cup Constructing \cup Locked

(* The part of TrialTypeOK about who is where, and the rest of it.         *)
Places ==
    /\ lock \in Processes \cup {None}
    /\ at \in [Processes -> Points]
    /\ \A p \in Processes : at[p] \in Locked <=> lock = p

Contents ==
    /\ ledger \in Seq(Trials) \cup {None}
    /\ reserved \in Reservations \cup {None}
    /\ intents \subseteq Trials
    /\ cycle \in 0..Closed
    /\ entries \in [Processes -> Seq(Trials)]
    /\ known \in [Processes -> Reservations]
    /\ trial \in [Processes -> Trials \cup {None}]
    /\ todo \in [Processes -> SUBSET Trials]
    /\ granted \in Nat /\ faults \in 0..MaxFaults /\ crashes \in 0..MaxCrashes

LEMMA ToSetOfSeq ==
    ASSUME NEW s \in Seq(Trials)
    PROVE  /\ ToSet(s) \subseteq Trials
           /\ \A t \in Trials : ToSet(Append(s, t)) = ToSet(s) \cup {t}
  <1>1. DOMAIN s = 1..Len(s) /\ Len(s) \in Nat /\ \A i \in 1..Len(s) : s[i] \in Trials
    OBVIOUS
  <1>2. ToSet(s) \subseteq Trials
    BY <1>1 DEF ToSet
  <1>3. ASSUME NEW t \in Trials PROVE ToSet(Append(s, t)) = ToSet(s) \cup {t}
    <2>1. /\ DOMAIN Append(s, t) = 1..Len(s) + 1
          /\ \A i \in 1..Len(s) : Append(s, t)[i] = s[i]
          /\ Append(s, t)[Len(s) + 1] = t
      BY <1>1
    <2>2. ToSet(s) \cup {t} \subseteq ToSet(Append(s, t))
      BY <1>1, <2>1 DEF ToSet
    <2>3. ToSet(Append(s, t)) \subseteq ToSet(s) \cup {t}
      BY <1>1, <2>1 DEF ToSet
    <2> QED BY <2>2, <2>3
  <1> QED BY <1>2, <1>3

LEMMA NothingIsNo ==
    /\ None \notin Processes /\ None \notin Trials /\ None \notin TrialStatus
    /\ None \notin Reservations /\ None \notin Seq(Trials)
  BY TrialAssumption, NothingAssumption

LEMMA MergedIsTyped ==
    ASSUME TrialTypeOK, reserved # None, NEW p \in Processes
    PROVE  Merged(p) \in Reservations
  <1>1. reserved \in Reservations /\ known[p] \in Reservations
    BY DEF TrialTypeOK
  <1> QED BY <1>1 DEF Merged, Reservations

LEMMA WithIsTyped ==
    ASSUME NEW r \in Reservations, NEW t, NEW s \in TrialStatus
    PROVE  With(r, t, s) \in Reservations
  BY DEF With, Reservations

LEMMA TypeInit == TrialInit => Sound
  <1> SUFFICES ASSUME TrialInit PROVE Sound
    OBVIOUS
  <1>1. TrialTypeOK
    BY TrialAssumption, NothingAssumption
       DEF TrialInit, TrialTypeOK, Reservations, NoReservations, Closed, Locked, Constructing
  <1>2. FilesThere
    BY DEF TrialInit, FilesThere
  <1>3. CallsAreNamed
    BY DEF TrialInit, CallsAreNamed, Calling, Recording
  <1> QED BY <1>1, <1>2, <1>3 DEF Sound

LEMMA TypeParts == TrialTypeOK <=> Places /\ Contents
  BY DEF TrialTypeOK, Places, Contents, Points

(* A step from one point to another, with what it does to the flock.       *)
LEMMA Moving ==
    ASSUME Places, NEW p \in Processes, NEW to \in Points,
           at' = [at EXCEPT ![p] = to],
           \/ UNCHANGED lock /\ (at[p] \in Locked <=> to \in Locked)
           \/ lock = None /\ lock' = p /\ to \in Locked
           \/ lock = p /\ lock' = None /\ to \notin Locked
    PROVE  Places'
  BY NothingIsNo DEF Places

(* The files are there when they were, and when the step goes no further   *)
(* than it has read.                                                       *)
LEMMA FilesStay ==
    ASSUME Places, FilesThere, NEW p \in Processes, NEW to \in Points,
           at' = [at EXCEPT ![p] = to],
           ledger # None => ledger' # None,
           reserved # None => reserved' # None,
           to \in {"off", "ledger", "newLedger"} \/ ledger' # None,
           to \in {"off"} \cup Loading \/ reserved' # None
    PROVE  FilesThere'
  BY DEF Places, FilesThere

LEMMA Naming ==
    ASSUME Contents, Places, CallsAreNamed, NEW p \in Processes, NEW to \in Points,
           at' = [at EXCEPT ![p] = to],
           \/ UNCHANGED trial /\ to \notin Calling
           \/ UNCHANGED trial /\ at[p] \in Calling
           \/ trial' = [trial EXCEPT ![p] = trial'[p]] /\ (to \in Calling => trial'[p] \in Trials)
    PROVE  CallsAreNamed'
  BY DEF Places, Contents, CallsAreNamed

LEMMA ConstructIsSound ==
    ASSUME Sound, NEW p \in Processes, Start(p) \/ Construct(p)
    PROVE  Sound'
  <1> USE NothingIsNo
  <1>a. Places /\ Contents /\ FilesThere /\ CallsAreNamed
    BY TypeParts DEF Sound
  <1>b. ASSUME Places', Contents', FilesThere', CallsAreNamed' PROVE Sound'
    BY <1>b, TypeParts DEF TrialTypeOK, Places, Contents, Points, Sound
  <1>1. CASE Start(p)
    <2>1. at[p] = "off" /\ at' = [at EXCEPT ![p] = "ledger"]
      BY <1>1 DEF Start, Step
    <2>2. UNCHANGED <<ledger, reserved, intents, cycle, lock, entries, known, trial, todo, granted, faults, crashes>>
      BY <1>1 DEF Start, files, bounds
    <2>3. Places'
      BY <1>a, <2>1, <2>2, Moving DEF Points, Locked, Constructing
    <2>4. Contents'
      BY <1>a, <2>2 DEF Contents
    <2>5. FilesThere'
      BY <1>a, <2>1, <2>2, FilesStay DEF Points, Constructing, Loading
    <2>6. CallsAreNamed'
      BY <1>a, <2>1, <2>2, Naming DEF Points, Locked, Constructing, Calling, Recording, Contents
    <2> QED BY <1>b, <2>3, <2>4, <2>5, <2>6
  <1>2. CASE LoadLedger(p)
    <2> DEFINE to == IF ledger = None THEN "newLedger" ELSE "reservations"
    <2>1. at[p] = "ledger" /\ at' = [at EXCEPT ![p] = to]
      BY <1>2 DEF LoadLedger, Step
    <2>2. UNCHANGED <<ledger, reserved, intents, cycle, lock, known, trial, todo, granted, faults, crashes>>
      BY <1>2 DEF LoadLedger, files, bounds
    <2>3. Places'
      BY <1>a, <2>1, <2>2, Moving DEF Points, Locked, Constructing
    <2>4. entries' = entries \/ (ledger # None /\ entries' = [entries EXCEPT ![p] = ledger])
      BY <1>2 DEF LoadLedger
    <2>5. entries' \in [Processes -> Seq(Trials)]
      BY <1>a, <2>4 DEF Contents
    <2>6. Contents'
      BY <1>a, <2>2, <2>5 DEF Contents
    <2>7. FilesThere'
      BY <1>a, <2>1, <2>2, FilesStay DEF Points, Constructing, Loading
    <2>8. CallsAreNamed'
      BY <1>a, <2>1, <2>2, Naming DEF Points, Locked, Constructing, Calling, Recording, Contents
    <2> QED BY <1>b, <2>3, <2>6, <2>7, <2>8
  <1>3. CASE InitLedger(p)
    <2>1. at[p] = "newLedger" /\ at' = [at EXCEPT ![p] = "reservations"] /\ ledger' = <<>>
      BY <1>3 DEF InitLedger, Step
    <2>2. UNCHANGED <<reserved, intents, cycle, lock, entries, known, trial, todo, granted, faults, crashes>>
      BY <1>3 DEF InitLedger, bounds
    <2>3. Places'
      BY <1>a, <2>1, <2>2, Moving DEF Points, Locked, Constructing
    <2>4. ledger' \in Seq(Trials) /\ ledger' # None
      <3>1. <<>> \in Seq(Trials)
        OBVIOUS
      <3> QED BY <2>1, <3>1
    <2>5. Contents'
      BY <1>a, <2>2, <2>4 DEF Contents
    <2>6. FilesThere'
      BY <1>a, <2>1, <2>2, <2>4, FilesStay DEF Points, Constructing, Loading
    <2>7. CallsAreNamed'
      BY <1>a, <2>1, <2>2, Naming DEF Points, Locked, Constructing, Calling, Recording, Contents
    <2> QED BY <1>b, <2>3, <2>5, <2>6, <2>7
  <1>4. CASE LoadReservations(p)
    <2> DEFINE to == IF reserved = None THEN "newReservations" ELSE "recover"
    <2>1. at[p] = "reservations" /\ at' = [at EXCEPT ![p] = to]
      BY <1>4 DEF LoadReservations, Step
    <2>2. UNCHANGED <<ledger, reserved, intents, cycle, lock, entries, trial, granted, faults, crashes>>
      BY <1>4 DEF LoadReservations, files, bounds
    <2>3. Places'
      BY <1>a, <2>1, <2>2, Moving DEF Points, Locked, Constructing
    <2>4. \/ UNCHANGED <<known, todo>>
          \/ /\ reserved # None /\ known' = [known EXCEPT ![p] = Merged(p)]
             /\ todo' = [todo EXCEPT ![p] = intents]
      BY <1>4 DEF LoadReservations, Remember
    <2>5. reserved # None => Merged(p) \in Reservations
      BY MergedIsTyped DEF Sound
    <2>6. known' \in [Processes -> Reservations] /\ todo' \in [Processes -> SUBSET Trials]
      <3>1. known \in [Processes -> Reservations] /\ todo \in [Processes -> SUBSET Trials]
            /\ intents \subseteq Trials
        BY <1>a DEF Contents
      <3> QED BY <2>4, <2>5, <3>1
    <2>7. Contents'
      BY <1>a, <2>2, <2>6 DEF Contents
    <2>8. FilesThere'
      BY <1>a, <2>1, <2>2, FilesStay DEF Points, Constructing, Loading, FilesThere
    <2>9. CallsAreNamed'
      BY <1>a, <2>1, <2>2, Naming DEF Points, Locked, Constructing, Calling, Recording, Contents
    <2> QED BY <1>b, <2>3, <2>7, <2>8, <2>9
  <1>5. CASE InitReservations(p)
    <2>1. /\ at[p] = "newReservations" /\ at' = [at EXCEPT ![p] = "recover"]
          /\ reserved' = NoReservations /\ todo' = [todo EXCEPT ![p] = intents]
      BY <1>5 DEF InitReservations, Step
    <2>2. UNCHANGED <<ledger, intents, cycle, lock, entries, known, trial, granted, faults, crashes>>
      BY <1>5 DEF InitReservations, bounds
    <2>3. Places'
      BY <1>a, <2>1, <2>2, Moving DEF Points, Locked, Constructing
    <2>4. reserved' \in Reservations
      BY <2>1 DEF NoReservations, Reservations
    <2>5. Contents'
      BY <1>a, <2>1, <2>2, <2>4 DEF Contents
    <2>6. FilesThere'
      BY <1>a, <2>1, <2>2, <2>4, FilesStay DEF Points, Constructing, Loading, FilesThere
    <2>7. CallsAreNamed'
      BY <1>a, <2>1, <2>2, Naming DEF Points, Locked, Constructing, Calling, Recording, Contents
    <2> QED BY <1>b, <2>3, <2>5, <2>6, <2>7
  <1>6. CASE Recover(p)
    <2>1. PICK t \in todo[p] :
            /\ at[p] = "recover" /\ at' = [at EXCEPT ![p] = AfterRecovery(p, t)]
            /\ trial' = [trial EXCEPT ![p] = t]
            /\ known' = known \/ known' = [known EXCEPT ![p] = With(known[p], t, "COMPLETED")]
            /\ UNCHANGED <<ledger, reserved, intents, cycle, lock, entries, todo, granted, faults, crashes>>
      BY <1>6 DEF Recover, Step, Remember, files, bounds
    <2>2. t \in Trials /\ With(known[p], t, "COMPLETED") \in Reservations
      BY <1>a, WithIsTyped DEF Contents, TrialStatus
    <2>3. AfterRecovery(p, t) \in {"refused", "clear", "reconciled", "abort"}
      BY DEF AfterRecovery
    <2>4. Places'
      BY <1>a, <2>1, <2>3, Moving DEF Points, Locked, Constructing
    <2>5. known' \in [Processes -> Reservations]
      BY <1>a, <2>1, <2>2 DEF Contents
    <2>6. Contents'
      BY <1>a, <2>1, <2>2, <2>5 DEF Contents
    <2>7. FilesThere'
      BY <1>a, <2>1, <2>3, FilesStay DEF Points, Constructing, Loading, FilesThere
    <2>8. CallsAreNamed'
      BY <1>a, <2>1, <2>3, Naming DEF Points, Locked, Constructing, Calling, Recording, Contents
    <2> QED BY <1>b, <2>4, <2>6, <2>7, <2>8
  <1>7. CASE SaveReconciled(p)
    <2>1. at[p] = "reconciled" /\ at' = [at EXCEPT ![p] = "clear"] /\ reserved' = known[p]
      BY <1>7 DEF SaveReconciled, Step
    <2>2. UNCHANGED <<ledger, intents, cycle, lock, entries, known, trial, todo, granted, faults, crashes>>
      BY <1>7 DEF SaveReconciled, bounds
    <2>3. Places'
      BY <1>a, <2>1, <2>2, Moving DEF Points, Locked, Constructing
    <2>4. reserved' \in Reservations
      BY <1>a, <2>1 DEF Contents
    <2>5. Contents'
      BY <1>a, <2>2, <2>4 DEF Contents
    <2>6. FilesThere'
      BY <1>a, <2>1, <2>2, <2>4, FilesStay DEF Points, Constructing, Loading, FilesThere
    <2>7. CallsAreNamed'
      BY <1>a, <2>1, <2>2, Naming DEF Points, Locked, Constructing, Calling, Recording, Contents
    <2> QED BY <1>b, <2>3, <2>5, <2>6, <2>7
  <1>8. CASE AbortLost(p)
    <2>1. /\ at[p] = "abort" /\ at' = [at EXCEPT ![p] = "aborting"] /\ lock = None /\ lock' = p
          /\ known' = [known EXCEPT ![p] = Merged(p)] /\ trial' = [trial EXCEPT ![p] = trial[p]]
      BY <1>8 DEF AbortLost, Enter, Step, Remember
    <2>2. UNCHANGED <<ledger, reserved, intents, cycle, entries, todo, granted, faults, crashes>>
      BY <1>8 DEF AbortLost, Enter, files, bounds
    <2>3. Places'
      BY <1>a, <2>1, Moving DEF Points, Locked, Constructing
    <2>4. Merged(p) \in Reservations
      BY <1>a, <2>1, MergedIsTyped DEF Sound, FilesThere, Loading
    <2>5. Contents'
      BY <1>a, <2>1, <2>2, <2>4 DEF Contents
    <2>6. FilesThere'
      BY <1>a, <2>1, <2>2, FilesStay DEF Points, Constructing, Locked, Loading, FilesThere
    <2>7. CallsAreNamed'
      BY <1>a, <2>1, <2>2, Naming DEF Points, Locked, Constructing, Calling, Recording, Contents
    <2> QED BY <1>b, <2>3, <2>5, <2>6, <2>7
  <1>9. CASE SaveAborted(p)
    <2>1. /\ at[p] = "aborting" /\ lock' = None
          /\ at' = [at EXCEPT ![p] = IF known[p][trial[p]] \in Live THEN "clear" ELSE "refused"]
          /\ UNCHANGED <<ledger, intents, cycle, entries, trial, todo, granted, faults, crashes>>
      BY <1>9 DEF SaveAborted, Step, bounds
    <2>2. known' = [known EXCEPT ![p] = known'[p]]
          /\ known'[p] \in {known[p], With(known[p], trial[p], "ABORTED")}
          /\ reserved' \in {reserved, known'[p]}
      BY <1>9, <1>a DEF SaveAborted, Remember, Contents
    <2>3. known[p] \in Reservations /\ With(known[p], trial[p], "ABORTED") \in Reservations
      BY <1>a, WithIsTyped DEF Contents, TrialStatus
    <2>4. Places'
      BY <1>a, <2>1, Moving DEF Places, Points, Locked, Constructing
    <2>5. /\ known' \in [Processes -> Reservations]
          /\ reserved' \in Reservations \cup {None} /\ (reserved # None => reserved' # None)
      <3>1. known'[p] \in Reservations
        BY <2>2, <2>3
      <3>2. known' \in [Processes -> Reservations]
        BY <1>a, <2>2, <3>1 DEF Contents
      <3> QED BY <1>a, <2>2, <3>1, <3>2 DEF Contents
    <2>6. Contents'
      BY <1>a, <2>1, <2>5 DEF Contents
    <2>7. FilesThere'
      BY <1>a, <2>1, <2>5, FilesStay DEF Points, Constructing, Loading, FilesThere
    <2>8. CallsAreNamed'
      BY <1>a, <2>1, Naming DEF Points, Locked, Constructing, Calling, Recording, Contents
    <2> QED BY <1>b, <2>4, <2>6, <2>7, <2>8
  <1>10. CASE ClearIntent(p)
    <2>1. /\ at[p] = "clear"
          /\ at' = [at EXCEPT ![p] = IF trial[p] \in intents THEN "recover" ELSE "refused"]
          /\ intents' = intents \ {trial[p]} /\ todo' = [todo EXCEPT ![p] = @ \ {trial[p]}]
          /\ trial' = [trial EXCEPT ![p] = None]
          /\ UNCHANGED <<ledger, reserved, cycle, lock, entries, known, granted, faults, crashes>>
      BY <1>10 DEF ClearIntent, Step, bounds
    <2>2. Places'
      BY <1>a, <2>1, Moving DEF Points, Locked, Constructing
    <2>3. Contents'
      BY <1>a, <2>1 DEF Contents
    <2>4. FilesThere'
      BY <1>a, <2>1, FilesStay DEF Points, Constructing, Loading, FilesThere
    <2>5. CallsAreNamed'
      BY <1>a, <2>1, Naming DEF Points, Locked, Constructing, Calling, Recording, Contents
    <2> QED BY <1>b, <2>2, <2>3, <2>4, <2>5
  <1>11. CASE Constructed(p)
    <2>1. at[p] = "recover" /\ at' = [at EXCEPT ![p] = "ready"]
      BY <1>11 DEF Constructed, Step
    <2>2. UNCHANGED <<ledger, reserved, intents, cycle, lock, entries, known, trial, todo, granted, faults, crashes>>
      BY <1>11 DEF Constructed, files, bounds
    <2>3. Places'
      BY <1>a, <2>1, <2>2, Moving DEF Points, Locked, Constructing
    <2>4. Contents'
      BY <1>a, <2>2 DEF Contents
    <2>5. FilesThere'
      BY <1>a, <2>1, <2>2, FilesStay DEF Points, Constructing, Loading, FilesThere
    <2>6. CallsAreNamed'
      BY <1>a, <2>1, <2>2, Naming DEF Points, Locked, Constructing, Calling, Recording, Contents
    <2> QED BY <1>b, <2>3, <2>4, <2>5, <2>6
  <1> QED BY <1>1, <1>2, <1>3, <1>4, <1>5, <1>6, <1>7, <1>8, <1>9, <1>10, <1>11 DEF Construct

LEMMA CallIsSound ==
    ASSUME Sound, NEW p \in Processes, Call(p) \/ Advance(p) \/ ConsumeHoldout(p)
    PROVE  Sound'
  <1> USE NothingIsNo
  <1>a. Places /\ Contents /\ FilesThere /\ CallsAreNamed
    BY TypeParts DEF Sound
  <1>b. ASSUME Places', Contents', FilesThere', CallsAreNamed' PROVE Sound'
    BY <1>b, TypeParts DEF TrialTypeOK, Places, Contents, Points, Sound
  <1>1. CASE Call(p)
    <2>1. PICK t \in Mine[p], call \in {"reserve", "update", "record"} :
            /\ at[p] = "ready" /\ at' = [at EXCEPT ![p] = call] /\ lock = None /\ lock' = p
            /\ known' = [known EXCEPT ![p] = Merged(p)] /\ trial' = [trial EXCEPT ![p] = t]
            /\ entries' = entries \/ entries' = [entries EXCEPT ![p] = ledger]
      BY <1>1 DEF Call, MayLock, Enter, Step, Remember
    <2>2. UNCHANGED <<ledger, reserved, intents, cycle, todo, granted, faults, crashes>>
      BY <1>1 DEF Call, Enter, files, bounds
    <2>3. Places'
      BY <1>a, <2>1, Moving DEF Points, Locked, Constructing
    <2>4. ledger \in Seq(Trials) /\ reserved # None /\ Merged(p) \in Reservations /\ t \in Trials
      BY <1>a, <2>1, MergedIsTyped, TrialAssumption DEF Sound, FilesThere, Loading, Contents
    <2>5. entries' \in [Processes -> Seq(Trials)]
      BY <1>a, <2>1, <2>4 DEF Contents
    <2>6. Contents'
      BY <1>a, <2>1, <2>2, <2>4, <2>5 DEF Contents
    <2>7. FilesThere'
      BY <1>a, <2>1, <2>2, <2>4, FilesStay DEF Points, Locked
    <2>8. CallsAreNamed'
      BY <1>a, <2>1, <2>2, <2>4, Naming DEF Points, Locked, Constructing, Calling, Recording, Contents
    <2> QED BY <1>b, <2>3, <2>6, <2>7, <2>8
  <1>2. CASE Advance(p)
    <2>1. /\ cycle < Closed /\ cycle' = cycle + 1
          /\ UNCHANGED <<ledger, reserved, intents, lock, at, entries, known, trial, todo, granted, faults, crashes>>
      BY <1>2 DEF Advance, files, process, bounds
    <2>2. cycle' \in 0..Closed
      BY <1>a, <2>1, TrialAssumption DEF Contents, Closed
    <2>3. Places' /\ FilesThere'
      BY <1>a, <2>1 DEF Places, FilesThere
    <2>4. Contents'
      BY <1>a, <2>1, <2>2 DEF Contents
    <2>5. CallsAreNamed'
      BY <1>a, <2>1 DEF CallsAreNamed
    <2> QED BY <1>b, <2>3, <2>4, <2>5
  <1>3. CASE ConsumeHoldout(p)
    <2>1. /\ at[p] = "ready" /\ at' = [at EXCEPT ![p] = "handOut"] /\ lock = None /\ lock' = p
          /\ cycle' = Consumed
          /\ UNCHANGED <<ledger, reserved, intents, entries, known, trial, todo, granted, faults, crashes>>
      BY <1>3 DEF ConsumeHoldout, MayLock, files, bounds
    <2>2. cycle' \in 0..Closed
      BY <2>1, TrialAssumption DEF Consumed, Closed
    <2>3. Places'
      BY <1>a, <2>1, Moving DEF Points, Locked, Constructing
    <2>4. Contents'
      BY <1>a, <2>1, <2>2 DEF Contents
    <2>5. FilesThere'
      BY <1>a, <2>1, FilesStay DEF Points, Locked, Loading, FilesThere
    <2>6. CallsAreNamed'
      BY <1>a, <2>1, Naming DEF Points, Locked, Constructing, Calling, Recording, Contents
    <2> QED BY <1>b, <2>3, <2>4, <2>5, <2>6
  <1> QED BY <1>1, <1>2, <1>3

(* A step of a call leaves memory and files of the right types.            *)
LEMMA AnswerIsSound ==
    ASSUME Sound, NEW p \in Processes, Answer(p)
    PROVE  Sound'
  <1> USE NothingIsNo
  <1>a. Places /\ Contents /\ FilesThere /\ CallsAreNamed
    BY TypeParts DEF Sound
  <1>b. ASSUME Places', Contents', FilesThere', CallsAreNamed' PROVE Sound'
    BY <1>b, TypeParts DEF TrialTypeOK, Places, Contents, Points, Sound
  <1>c. at[p] \in {"reserve", "update", "record", "commit", "complete", "tidy"} =>
          lock = p /\ ledger # None /\ reserved # None /\ known[p] \in Reservations
    BY <1>a DEF Places, FilesThere, Locked, Loading, Contents
  <1>1. CASE ReserveTrial(p) \/ UpdateTrialStatus(p)
    <2>1. /\ at[p] \in {"reserve", "update"} /\ at' = [at EXCEPT ![p] = "ready"] /\ lock' = None
          /\ trial' = [trial EXCEPT ![p] = None]
          /\ UNCHANGED <<ledger, intents, cycle, entries, todo, granted, faults, crashes>>
      BY <1>1 DEF ReserveTrial, UpdateTrialStatus, Step, Leave, bounds
    <2>2. PICK s \in TrialStatus :
            known' = [known EXCEPT ![p] = With(known[p], trial[p], s)] /\ reserved' = known'[p]
      <3>1. CASE ReserveTrial(p)
        BY <3>1 DEF ReserveTrial, Remember, TrialStatus, Live
      <3>2. CASE UpdateTrialStatus(p)
        BY <3>2 DEF UpdateTrialStatus, Remember, Allowed, TrialStatus, Live
      <3> QED BY <1>1, <3>1, <3>2
    <2>3. known' \in [Processes -> Reservations] /\ reserved' \in Reservations
      BY <1>a, <1>c, <2>1, <2>2, WithIsTyped DEF Contents
    <2>4. Places'
      BY <1>a, <1>c, <2>1, Moving DEF Points, Locked, Constructing
    <2>5. Contents'
      BY <1>a, <2>1, <2>3 DEF Contents
    <2>6. FilesThere'
      BY <1>a, <1>c, <2>1, <2>3, FilesStay DEF Points
    <2>7. CallsAreNamed'
      BY <1>a, <2>1, Naming DEF Points, Locked, Constructing, Calling, Recording, Contents
    <2> QED BY <1>b, <2>4, <2>5, <2>6, <2>7
  <1>2. CASE Refuse(p)
    <2>1. /\ at[p] \in {"reserve", "update", "record"} /\ at' = [at EXCEPT ![p] = "ready"]
          /\ lock' = None /\ trial' = [trial EXCEPT ![p] = None]
          /\ UNCHANGED <<ledger, reserved, intents, cycle, entries, known, todo, granted, faults, crashes>>
      BY <1>2 DEF Refuse, Leave, files, bounds
    <2>2. Places'
      BY <1>a, <1>c, <2>1, Moving DEF Points, Locked, Constructing
    <2>3. Contents'
      BY <1>a, <2>1 DEF Contents
    <2>4. FilesThere'
      BY <1>a, <1>c, <2>1, FilesStay DEF Points
    <2>5. CallsAreNamed'
      BY <1>a, <2>1, Naming DEF Points, Locked, Constructing, Calling, Recording, Contents
    <2> QED BY <1>b, <2>2, <2>3, <2>4, <2>5
  <1>3. CASE WriteIntent(p)
    <2>1. /\ at[p] = "record" /\ at' = [at EXCEPT ![p] = "commit"]
          /\ known[p][trial[p]] = "RUNNING" /\ intents' = intents \cup {trial[p]}
          /\ UNCHANGED <<ledger, reserved, cycle, lock, entries, known, trial, todo, granted, faults, crashes>>
      BY <1>3 DEF WriteIntent, MayRecord, Step, bounds
    <2>2. trial[p] \in Trials
      BY <1>a, <2>1 DEF CallsAreNamed, Calling
    <2>3. Places'
      BY <1>a, <2>1, Moving DEF Points, Locked, Constructing
    <2>4. Contents'
      BY <1>a, <2>1, <2>2 DEF Contents
    <2>5. FilesThere'
      BY <1>a, <1>c, <2>1, FilesStay DEF Points, Locked
    <2>6. CallsAreNamed'
      BY <1>a, <2>1, Naming DEF Points, Locked, Constructing, Calling, Recording
    <2> QED BY <1>b, <2>3, <2>4, <2>5, <2>6
  <1>4. CASE CommitResult(p)
    <2>1. /\ at[p] = "commit" /\ at' = [at EXCEPT ![p] = "complete"]
          /\ entries' = [entries EXCEPT ![p] = Append(entries[p], trial[p])]
          /\ ledger' = entries'[p]
          /\ UNCHANGED <<reserved, intents, cycle, lock, known, trial, todo, granted, faults, crashes>>
      BY <1>4 DEF CommitResult, Step, bounds
    <2>2. trial[p] \in Trials /\ entries[p] \in Seq(Trials)
      BY <1>a, <2>1 DEF CallsAreNamed, Calling, Recording, Contents
    <2>3. Append(entries[p], trial[p]) \in Seq(Trials)
      BY <2>2
    <2>4. entries' \in [Processes -> Seq(Trials)] /\ ledger' \in Seq(Trials) /\ ledger' # None
      BY <1>a, <2>1, <2>3 DEF Contents
    <2>5. Places'
      BY <1>a, <2>1, Moving DEF Points, Locked, Constructing
    <2>6. Contents'
      BY <1>a, <2>1, <2>4 DEF Contents
    <2>7. FilesThere'
      BY <1>a, <1>c, <2>1, <2>4, FilesStay DEF Points, Locked
    <2>8. CallsAreNamed'
      BY <1>a, <2>1, Naming DEF Points, Locked, Constructing, Calling, Recording
    <2> QED BY <1>b, <2>5, <2>6, <2>7, <2>8
  <1>5. CASE CompleteReservation(p)
    <2>1. /\ at[p] = "complete" /\ at' = [at EXCEPT ![p] = "tidy"]
          /\ known' = [known EXCEPT ![p] = With(known[p], trial[p], "COMPLETED")]
          /\ reserved' = known'[p]
          /\ UNCHANGED <<ledger, intents, cycle, lock, entries, trial, todo, granted, faults, crashes>>
      BY <1>5 DEF CompleteReservation, Step, Remember, bounds
    <2>2. known' \in [Processes -> Reservations] /\ reserved' \in Reservations
      BY <1>a, <1>c, <2>1, WithIsTyped DEF Contents, TrialStatus
    <2>3. Places'
      BY <1>a, <2>1, Moving DEF Points, Locked, Constructing
    <2>4. Contents'
      BY <1>a, <2>1, <2>2 DEF Contents
    <2>5. FilesThere'
      BY <1>a, <1>c, <2>1, <2>2, FilesStay DEF Points, Locked
    <2>6. CallsAreNamed'
      BY <1>a, <2>1, Naming DEF Points, Locked, Constructing, Calling, Recording, Contents
    <2> QED BY <1>b, <2>3, <2>4, <2>5, <2>6
  <1>6. CASE TidyIntent(p)
    <2>1. /\ at[p] = "tidy" /\ at' = [at EXCEPT ![p] = "ready"] /\ lock' = None
          /\ intents' = intents \ {trial[p]} /\ trial' = [trial EXCEPT ![p] = None]
          /\ UNCHANGED <<ledger, reserved, cycle, entries, known, todo, granted, faults, crashes>>
      BY <1>6 DEF TidyIntent, Step, Leave, bounds
    <2>2. Places'
      BY <1>a, <1>c, <2>1, Moving DEF Points, Locked, Constructing
    <2>3. Contents'
      BY <1>a, <2>1 DEF Contents
    <2>4. FilesThere'
      BY <1>a, <1>c, <2>1, FilesStay DEF Points
    <2>5. CallsAreNamed'
      BY <1>a, <2>1, Naming DEF Points, Locked, Constructing, Calling, Recording, Contents
    <2> QED BY <1>b, <2>2, <2>3, <2>4, <2>5
  <1>7. CASE HandOut(p)
    <2>1. /\ at[p] = "handOut" /\ at' = [at EXCEPT ![p] = "ready"] /\ lock' = None
          /\ trial' = [trial EXCEPT ![p] = None] /\ granted' = granted + 1
          /\ UNCHANGED <<ledger, reserved, intents, cycle, entries, known, todo, faults, crashes>>
      BY <1>7 DEF HandOut, Step, Leave, files, bounds
    <2>2. Places'
      BY <1>a, <2>1, Moving DEF Places, Points, Locked, Constructing
    <2>3. Contents'
      BY <1>a, <2>1 DEF Contents
    <2>4. FilesThere'
      BY <1>a, <2>1, FilesStay DEF Points, Loading, FilesThere
    <2>5. CallsAreNamed'
      BY <1>a, <2>1, Naming DEF Points, Locked, Constructing, Calling, Recording, Contents
    <2> QED BY <1>b, <2>2, <2>3, <2>4, <2>5
  <1> QED BY <1>1, <1>2, <1>3, <1>4, <1>5, <1>6, <1>7 DEF Answer

LEMMA FailureIsSound ==
    ASSUME Sound, NEW p \in Processes, Fault(p) \/ Crash(p)
    PROVE  Sound'
  <1> USE NothingIsNo
  <1>a. Places /\ Contents /\ FilesThere /\ CallsAreNamed
    BY TypeParts DEF Sound
  <1>b. ASSUME Places', Contents', FilesThere', CallsAreNamed' PROVE Sound'
    BY <1>b, TypeParts DEF TrialTypeOK, Places, Contents, Points, Sound
  <1>c. faults' \in 0..MaxFaults /\ crashes' \in 0..MaxCrashes
    BY <1>a, TrialAssumption DEF Fault, Crash, Contents
  <1>d. UNCHANGED <<ledger, reserved, intents, cycle, granted>>
    BY DEF Fault, Crash, files
  <1>1. CASE Ends(p)
    <2>1. /\ at' = [at EXCEPT ![p] = "off"] /\ lock' = IF lock = p THEN None ELSE lock
          /\ entries' = [entries EXCEPT ![p] = <<>>] /\ known' = [known EXCEPT ![p] = NoReservations]
          /\ trial' = [trial EXCEPT ![p] = None] /\ todo' = [todo EXCEPT ![p] = {}]
      BY <1>1 DEF Ends, Remember
    <2>2. Places'
      BY <1>a, <2>1 DEF Places, Points, Locked, Constructing
    <2>3. <<>> \in Seq(Trials) /\ NoReservations \in Reservations
      BY DEF NoReservations, Reservations
    <2>4. Contents'
      BY <1>a, <1>c, <1>d, <2>1, <2>3 DEF Contents
    <2>5. FilesThere'
      BY <1>a, <1>d, <2>1, FilesStay DEF Points
    <2>6. CallsAreNamed'
      BY <1>a, <2>1 DEF CallsAreNamed, Calling, Recording, Places
    <2> QED BY <1>b, <2>2, <2>4, <2>5, <2>6
  <1>2. CASE ~Ends(p)
    <2>1. /\ at[p] \in Locked \ {"aborting"} /\ at' = [at EXCEPT ![p] = "ready"] /\ lock' = None
          /\ trial' = [trial EXCEPT ![p] = None] /\ UNCHANGED <<entries, todo>>
          /\ known' = known \/ known' = [known EXCEPT ![p] = With(known[p], trial[p], "RESERVED")]
      BY <1>2 DEF Fault, Crash, Leave, Remember
    <2>2. lock = p /\ ledger # None /\ reserved # None
      BY <1>a, <2>1 DEF Places, FilesThere, Locked, Loading
    <2>3. known' \in [Processes -> Reservations]
      <3>1. known[p] \in Reservations /\ With(known[p], trial[p], "RESERVED") \in Reservations
        BY <1>a, WithIsTyped DEF Contents, TrialStatus, Live
      <3> QED BY <1>a, <2>1, <3>1 DEF Contents
    <2>4. Places'
      BY <1>a, <2>1, <2>2, Moving DEF Points, Locked, Constructing
    <2>5. Contents'
      BY <1>a, <1>c, <1>d, <2>1, <2>3 DEF Contents
    <2>6. FilesThere'
      BY <1>a, <1>d, <2>1, <2>2, FilesStay DEF Points
    <2>7. CallsAreNamed'
      BY <1>a, <2>1, Naming DEF Points, Calling, Recording, Contents
    <2> QED BY <1>b, <2>4, <2>5, <2>6, <2>7
  <1> QED BY <1>1, <1>2

LEMMA StepIsSound == Sound /\ [TrialNext]_vars => Sound'
  <1> SUFFICES ASSUME Sound, [TrialNext]_vars PROVE Sound'
    OBVIOUS
  <1>1. CASE TrialNext
    BY <1>1, ConstructIsSound, CallIsSound, AnswerIsSound, FailureIsSound DEF TrialNext
  <1>2. CASE UNCHANGED vars
    BY <1>2 DEF vars, files, process, bounds, Sound, TrialTypeOK, FilesThere, CallsAreNamed
  <1> QED BY <1>1, <1>2

(* The types of the files and of what each script keeps of them, whatever  *)
(* they are created over, crash or fail (experiment_runner.py).            *)
THEOREM TrialTypeCorrect == TrialSpec => []TrialTypeOK
  <1>1. TrialSpec => []Sound
    BY TypeInit, StepIsSound, PTL DEF TrialSpec
  <1>2. Sound => TrialTypeOK
    BY DEF Sound
  <1> QED BY <1>1, <1>2, PTL

----------------------------------------------------------------------------
(* The holdout.                                                            *)

LEMMA HoldoutStarts == TrialInit => HoldoutInv
  BY DEF TrialInit, HoldoutInv, HoldoutReadOnce

(* Only ConsumeHoldout leads to handOut, and only HandOut out of it.       *)
LEMMA HoldoutUntouched ==
    ASSUME Sound, HoldoutInv, NEW p \in Processes, UNCHANGED granted,
           cycle' >= cycle, cycle' \in Nat, NEW to \in Points \ {"handOut"},
           UNCHANGED at \/ at' = [at EXCEPT ![p] = to]
    PROVE  HoldoutInv'
  <1>1. cycle \in Nat /\ granted \in Nat /\ Consumed \in Nat
    BY TrialAssumption DEF Sound, TrialTypeOK, Consumed
  <1>2. \A q \in Processes : at'[q] = "handOut" => at[q] = "handOut"
    BY DEF Sound, TrialTypeOK
  <1> QED BY <1>1, <1>2 DEF HoldoutInv, HoldoutReadOnce

LEMMA HoldoutKept == Sound /\ HoldoutInv /\ [TrialNext]_vars => HoldoutInv'
  <1> SUFFICES ASSUME Sound, HoldoutInv, [TrialNext]_vars PROVE HoldoutInv'
    OBVIOUS
  <1>a. cycle \in Nat /\ granted \in Nat /\ Consumed \in Nat /\ Consumed = Authorized + 1
    BY TrialAssumption DEF Sound, TrialTypeOK, Consumed, Authorized
  <1>1. ASSUME NEW p \in Processes, Start(p) \/ Construct(p) PROVE HoldoutInv'
    <2>1. UNCHANGED <<granted, cycle>>
      BY <1>1 DEF Start, Construct, LoadLedger, InitLedger, LoadReservations, InitReservations, Recover, AfterRecovery, SaveReconciled, AbortLost, Enter, SaveAborted, ClearIntent, Constructed
    <2>2. PICK to \in Points \ {"handOut"} : UNCHANGED at \/ at' = [at EXCEPT ![p] = to]
      BY <1>1 DEF Start, Construct, LoadLedger, InitLedger, LoadReservations, InitReservations, Recover, AfterRecovery, SaveReconciled, AbortLost, Enter, SaveAborted, ClearIntent, Constructed, Step, Points, Locked, Constructing
    <2> QED BY <1>a, <2>1, <2>2, HoldoutUntouched
  <1>2. ASSUME NEW p \in Processes, Call(p) PROVE HoldoutInv'
    <2>1. UNCHANGED <<granted, cycle>>
      BY <1>2 DEF Call, Enter
    <2>2. PICK to \in Points \ {"handOut"} : UNCHANGED at \/ at' = [at EXCEPT ![p] = to]
      BY <1>2 DEF Call, Enter, Step, Points, Locked, Constructing
    <2> QED BY <1>a, <2>1, <2>2, HoldoutUntouched
  <1>3. ASSUME NEW p \in Processes, Answer(p), ~HandOut(p) PROVE HoldoutInv'
    <2>1. UNCHANGED <<granted, cycle>>
      BY <1>3 DEF Answer, ReserveTrial, UpdateTrialStatus, Refuse, WriteIntent, CommitResult, CompleteReservation, TidyIntent
    <2>2. PICK to \in Points \ {"handOut"} : UNCHANGED at \/ at' = [at EXCEPT ![p] = to]
      BY <1>3 DEF Answer, ReserveTrial, UpdateTrialStatus, Refuse, WriteIntent, CommitResult, CompleteReservation, TidyIntent, Step, Points, Locked, Constructing
    <2> QED BY <1>a, <2>1, <2>2, HoldoutUntouched
  <1>4. ASSUME NEW p \in Processes, HandOut(p) PROVE HoldoutInv'
    <2>1. /\ at[p] = "handOut" /\ at' = [at EXCEPT ![p] = "ready"]
          /\ granted' = granted + 1 /\ UNCHANGED cycle
      BY <1>4 DEF HandOut, Step
    <2>2. \A q \in Processes : at'[q] # "handOut"
      BY <2>1 DEF Sound, TrialTypeOK, HoldoutInv
    <2> QED BY <1>a, <2>1, <2>2 DEF HoldoutInv, HoldoutReadOnce
  <1>5. ASSUME NEW p \in Processes, Advance(p) PROVE HoldoutInv'
    <2>1. UNCHANGED <<at, granted>> /\ cycle' = cycle + 1
      BY <1>5 DEF Advance, process
    <2> QED BY <1>a, <2>1 DEF HoldoutInv, HoldoutReadOnce
  <1>6. ASSUME NEW p \in Processes, ConsumeHoldout(p) PROVE HoldoutInv'
    <2>1. /\ lock = None /\ cycle = Authorized /\ cycle' = Consumed /\ UNCHANGED granted
          /\ at' = [at EXCEPT ![p] = "handOut"]
      BY <1>6 DEF ConsumeHoldout, MayLock, MayRead
    <2>2. granted = 0
      BY <1>a, <2>1 DEF HoldoutInv, HoldoutReadOnce
    <2>3. \A q \in Processes : at[q] # "handOut"
      BY <1>a, <2>1 DEF HoldoutInv
    <2>4. \A q \in Processes \ {p} : at'[q] # "handOut"
      BY <2>1, <2>3 DEF Sound, TrialTypeOK
    <2> QED BY <1>a, <2>1, <2>2, <2>4 DEF HoldoutInv, HoldoutReadOnce
  <1>7. ASSUME NEW p \in Processes, Fault(p) \/ Crash(p) PROVE HoldoutInv'
    <2>1. UNCHANGED <<granted, cycle>>
      BY <1>7 DEF Fault, Crash, Ends
    <2>2. PICK to \in Points \ {"handOut"} : UNCHANGED at \/ at' = [at EXCEPT ![p] = to]
      BY <1>7 DEF Fault, Crash, Ends, Step, Points, Locked, Constructing
    <2> QED BY <1>a, <2>1, <2>2, HoldoutUntouched
  <1>8. CASE UNCHANGED vars
    BY <1>8 DEF vars, files, process, bounds, HoldoutInv, HoldoutReadOnce
  <1> QED BY <1>1, <1>2, <1>3, <1>4, <1>5, <1>6, <1>7, <1>8 DEF TrialNext

(* A script is never handed the holdout that was handed out before, and    *)
(* not before the cycle authorises it (access_dataset): HoldoutReadOnce.   *)
THEOREM HoldoutIsReadOnce == TrialSpec => []HoldoutReadOnce
  <1>1. TrialSpec => [](Sound /\ HoldoutInv)
    BY TypeInit, StepIsSound, HoldoutStarts, HoldoutKept, PTL DEF TrialSpec
  <1>2. HoldoutInv => HoldoutReadOnce
    BY DEF HoldoutInv
  <1> QED BY <1>1, <1>2, PTL

----------------------------------------------------------------------------
(* The recovery.  Whoever acts acts alone, so what the others rely on      *)
(* stays; what an action has to keep is what it relies on next, and that   *)
(* the files account for each other.                                       *)

Acts(p) ==
    \/ Start(p) \/ Construct(p) \/ Call(p) \/ Answer(p)
    \/ Advance(p) \/ ConsumeHoldout(p) \/ Fault(p) \/ Crash(p)

TouchesOnly(p) ==
    \A q \in Processes \ {p} :
      /\ at'[q] = at[q] /\ entries'[q] = entries[q] /\ known'[q] = known[q]
      /\ trial'[q] = trial[q] /\ todo'[q] = todo[q]

(* No reservation disappears from the file.                                *)
ReservedGrows ==
    reserved # None =>
      reserved' # None /\ \A t \in Trials : reserved[t] # None => reserved'[t] # None

LEMMA OnlyItsOwn ==
    ASSUME Sound, NEW p \in Processes, Acts(p)
    PROVE  TouchesOnly(p)
  <1> USE DEF Sound, TrialTypeOK, TouchesOnly
  <1>1. CASE Start(p)
    BY <1>1 DEF Start, Step
  <1>2. CASE Construct(p)
    BY <1>2 DEF Construct, LoadLedger, InitLedger, LoadReservations, InitReservations, Recover,
                SaveReconciled, AbortLost, Enter, SaveAborted, ClearIntent, Constructed, Step, Remember
  <1>3. CASE Call(p)
    BY <1>3 DEF Call, Enter, Step, Remember
  <1>4. CASE Answer(p)
    BY <1>4 DEF Answer, ReserveTrial, UpdateTrialStatus, Refuse, WriteIntent, CommitResult,
                CompleteReservation, TidyIntent, HandOut, Leave, Step, Remember
  <1>5. CASE Advance(p) \/ ConsumeHoldout(p)
    BY <1>5 DEF Advance, ConsumeHoldout, process
  <1>6. CASE Fault(p) \/ Crash(p)
    BY <1>6 DEF Fault, Crash, Ends, Leave, Remember
  <1> QED BY <1>1, <1>2, <1>3, <1>4, <1>5, <1>6 DEF Acts

----------------------------------------------------------------------------
(* The results, with no condition on the use.                              *)

(* Who holds the flock and is about to append has the file's own entries,  *)
(* unless a constructor has created the file again.                        *)
WriterInv ==
    \A p \in Processes : at[p] \in {"record", "commit"} => ledger = <<>> \/ entries[p] = ledger

(* Nothing else writes the ledger.                                         *)
LEMMA LedgerIsWritten ==
    ASSUME NEW p \in Processes, Acts(p)
    PROVE  UNCHANGED ledger \/ InitLedger(p) \/ CommitResult(p)
  <1>1. Start(p) \/ Construct(p) => UNCHANGED ledger \/ InitLedger(p)
    BY DEF Start, Construct, LoadLedger, LoadReservations, InitReservations, Recover,
           SaveReconciled, AbortLost, Enter, SaveAborted, ClearIntent, Constructed, files
  <1>2. Call(p) \/ Advance(p) \/ ConsumeHoldout(p) \/ Fault(p) \/ Crash(p) => UNCHANGED ledger
    BY DEF Call, Enter, Advance, ConsumeHoldout, Fault, Crash, files
  <1>3. Answer(p) => UNCHANGED ledger \/ CommitResult(p)
    BY DEF Answer, ReserveTrial, UpdateTrialStatus, Refuse, WriteIntent, CompleteReservation,
           TidyIntent, HandOut, files
  <1> QED BY <1>1, <1>2, <1>3 DEF Acts

(* Where an action leaves its process, as far as the ledger matters.       *)
LEMMA WhereItGoes ==
    ASSUME Sound, NEW p \in Processes, Acts(p)
    PROVE  /\ at'[p] = "newLedger" => at[p] = "newLedger" \/ ledger = None
           /\ at'[p] = "record" =>
                UNCHANGED ledger /\ (entries'[p] = ledger \/ (at[p] = "record" /\ UNCHANGED entries))
           /\ at'[p] = "commit" =>
                UNCHANGED <<ledger, entries>> /\ at[p] \in {"record", "commit"}
  <1> USE DEF Sound, TrialTypeOK
  <1>1. CASE Start(p) \/ Construct(p)
    BY <1>1 DEF Start, Construct, LoadLedger, InitLedger, LoadReservations, InitReservations,
           Recover, AfterRecovery, SaveReconciled, AbortLost, Enter, SaveAborted, ClearIntent,
           Constructed, Step
  <1>2. CASE Call(p)
    <2>1. UNCHANGED ledger
      BY <1>2 DEF Call, Enter, files
    <2>2. at'[p] \in {"reserve", "update"} \/ (at'[p] = "record" /\ entries'[p] = ledger)
      BY <1>2 DEF Call, Enter, Step
    <2>3. at'[p] # "newLedger" /\ at'[p] # "commit"
      BY <2>2
    <2>4. at'[p] = "record" => entries'[p] = ledger
      BY <2>2
    <2> QED BY <2>1, <2>3, <2>4
  <1>3. CASE Advance(p)
    BY <1>3 DEF Advance, files, process
  <1>4. CASE ConsumeHoldout(p) \/ Fault(p) \/ Crash(p)
    BY <1>4 DEF ConsumeHoldout, Fault, Crash, Ends
  <1>5. CASE Answer(p)
    BY <1>5 DEF Answer, ReserveTrial, UpdateTrialStatus, Refuse, WriteIntent, CommitResult,
           CompleteReservation, TidyIntent, HandOut, Step
  <1> QED BY <1>1, <1>2, <1>3, <1>4, <1>5 DEF Acts

LEMMA WriterKept ==
    ASSUME Sound, WriterInv, NEW p \in Processes, Acts(p)
    PROVE  WriterInv'
  <1> SUFFICES ASSUME NEW q \in Processes, at'[q] \in {"record", "commit"}
               PROVE  ledger' = <<>> \/ entries'[q] = ledger'
    BY DEF WriterInv
  <1>1. CASE q = p
    BY <1>1, WhereItGoes DEF WriterInv
  <1>2. CASE q # p
    <2>1. at'[q] = at[q] /\ entries'[q] = entries[q]
      BY <1>2, OnlyItsOwn DEF TouchesOnly
    <2>2. lock = q
      BY <2>1 DEF Sound, TrialTypeOK, Locked
    <2>3. ~CommitResult(p)
      BY <1>2, <2>2 DEF CommitResult, Step, Sound, TrialTypeOK, Locked
    <2>4. InitLedger(p) => ledger' = <<>>
      BY DEF InitLedger
    <2> QED BY <2>1, <2>3, <2>4, LedgerIsWritten DEF WriterInv
  <1> QED BY <1>1, <1>2

LEMMA ResultsKept ==
    ASSUME Sound, WriterInv, NEW p \in Processes, Acts(p), Created
    PROVE  /\ Created'
           /\ Len(ledger) <= Len(ledger')
           /\ \A i \in 1..Len(ledger) : ledger'[i] = ledger[i]
  <1>1. ledger \in Seq(Trials) /\ Len(ledger) \in Nat
    <2>1. ledger \in Seq(Trials)
      BY DEF Sound, TrialTypeOK, Created
    <2> QED BY <2>1
  <1>2. ~InitLedger(p)
    BY DEF Created, InitLedger, Step
  <1>3. CASE CommitResult(p)
    <2>1. at[p] = "commit" /\ trial[p] \in Trials /\ entries[p] \in Seq(Trials)
      BY <1>3 DEF CommitResult, Step, Sound, TrialTypeOK, CallsAreNamed, Calling, Recording
    <2>2. ledger' = Append(entries[p], trial[p])
      BY <1>3 DEF CommitResult, Sound, TrialTypeOK
    <2>3. ledger = <<>> \/ entries[p] = ledger
      BY <2>1 DEF WriterInv
    <2>4. /\ ledger' \in Seq(Trials) /\ Len(ledger') \in Nat
          /\ Len(ledger) <= Len(ledger')
          /\ \A i \in 1..Len(ledger) : ledger'[i] = ledger[i]
      BY <1>1, <2>1, <2>2, <2>3
    <2>5. ledger' # None
      BY <2>4, NothingIsNo
    <2>6. \A q \in Processes : at'[q] # "newLedger"
      BY <1>3, OnlyItsOwn DEF CommitResult, Step, Created, TouchesOnly, Sound, TrialTypeOK
    <2> QED BY <2>4, <2>5, <2>6 DEF Created
  <1>4. CASE ~CommitResult(p)
    <2>1. UNCHANGED ledger
      BY <1>2, <1>4, LedgerIsWritten
    <2>2. \A q \in Processes : at'[q] # "newLedger"
      BY OnlyItsOwn, WhereItGoes DEF Created, TouchesOnly
    <2> QED BY <1>1, <2>1, <2>2 DEF Created
  <1> QED BY <1>3, <1>4

(* Once the ledger is there and nobody is about to create it again, no     *)
(* step of any script, constructor, failing write or crash loses, changes  *)
(* or moves a result (record_trial reads the ledger again under the        *)
(* flock): ResultsAreKept, with no condition on the use.                   *)
THEOREM ResultsAreNeverLost == TrialSpec => ResultsAreKept
  <1>1. TrialInit => WriterInv
    BY DEF TrialInit, WriterInv
  <1>2. Sound /\ WriterInv /\ [TrialNext]_vars => WriterInv'
    <2>1. UNCHANGED vars /\ WriterInv => WriterInv'
      BY DEF vars, files, process, WriterInv
    <2> QED BY <2>1, WriterKept DEF TrialNext, Acts
  <1>3. Sound /\ WriterInv /\ [TrialNext]_vars =>
          [Created =>
             /\ Created'
             /\ Len(ledger) <= Len(ledger')
             /\ \A i \in 1..Len(ledger) : ledger'[i] = ledger[i]]_vars
    BY ResultsKept DEF TrialNext, Acts
  <1> QED BY TypeInit, StepIsSound, <1>1, <1>2, <1>3, PTL DEF TrialSpec, ResultsAreKept

LEMMA OthersAreIdle ==
    ASSUME Orderly, Sound, TrialInv, NEW p \in Processes, Acts(p), ~Advance(p),
           Crash(p) \/ Fault(p) => ~Idle(p)
    PROVE  \A q \in Processes \ {p} : Idle(q)
  <1>1. CASE Start(p)
    BY <1>1 DEF Start, Orderly, Idle
  <1>2. CASE Call(p) \/ ConsumeHoldout(p)
    <2>1. lock = None /\ \A q \in Processes : at[q] \notin Constructing
      BY <1>2 DEF Call, ConsumeHoldout, MayLock, Orderly
    <2>2. \A q \in Processes : at[q] \notin Locked /\ at[q] # "refused"
      BY <2>1, NothingIsNo DEF Sound, TrialTypeOK, TrialInv, Holds
    <2> QED BY <2>1, <2>2 DEF Idle, Sound, TrialTypeOK
  <1>3. CASE ~Idle(p)
    BY <1>3 DEF TrialInv, Alone
  <1>4. ASSUME Construct(p) \/ Answer(p) PROVE ~Idle(p)
    BY <1>4 DEF Idle, Construct, LoadLedger, InitLedger, LoadReservations, InitReservations, Recover,
                SaveReconciled, AbortLost, Enter, SaveAborted, ClearIntent, Constructed, Step,
                Answer, ReserveTrial, UpdateTrialStatus, Refuse, WriteIntent, CommitResult,
                CompleteReservation, TidyIntent, HandOut
  <1> QED BY <1>1, <1>2, <1>3, <1>4 DEF Acts

LEMMA OthersHold ==
    ASSUME Sound, Sound', NEW q \in Processes, Holds(q), Idle(q), ReservedGrows,
           at'[q] = at[q], known'[q] = known[q], entries'[q] = entries[q]
    PROVE  Holds(q)' /\ Idle(q)'
  <1>1. Idle(q)' /\ at'[q] # "refused"
    BY DEF Idle
  <1>2. PointHolds(q)'
    BY DEF Idle, PointHolds, Calling, Recording, Recovering
  <1>3. MemoryHolds(q)'
    BY DEF Holds, Idle, MemoryHolds, Calling, Recording, Recovering, Loading, ReservedGrows
  <1> QED BY <1>1, <1>2, <1>3 DEF Holds

(* What remains to be shown of a step.                                     *)
LEMMA Together ==
    ASSUME Sound, Sound', TrialInv, NEW p \in Processes, TouchesOnly(p),
           \A q \in Processes \ {p} : Idle(q),
           ReservedGrows, Holds(p)', FilesAgree', IntentsAreOwned'
    PROVE  TrialInv'
  <1>1. \A q \in Processes \ {p} : Holds(q)' /\ Idle(q)'
    BY OthersHold DEF TouchesOnly, TrialInv
  <1>2. \A q \in Processes : Holds(q)'
    BY <1>1
  <1>3. Alone'
    BY <1>1 DEF Alone
  <1> QED BY <1>2, <1>3 DEF TrialInv

LEMMA StatusIsSome == "COMPLETED" # None /\ "ABORTED" # None /\ "RUNNING" # None /\ "RESERVED" # None
  BY NothingIsNo DEF TrialStatus, Live

(* Who is where, for IntentsAreOwned: only p moved, and to a point that    *)
(* has to recover, or it had no intent of its own.                         *)
LEMMA IntentsStayOwned ==
    ASSUME Sound, Sound', TrialInv, NEW p \in Processes, TouchesOnly(p), intents' \subseteq intents,
           \/ at'[p] \in {"off"} \cup Loading \cup Recovering
           \/ at'[p] \in Recording /\ at[p] \in Recording /\ trial'[p] = trial[p]
           \/ \A t \in intents' : t \notin Mine[p]
    PROVE  IntentsAreOwned'
  <1> SUFFICES ASSUME NEW t \in intents', NEW q \in Processes, t \in Mine[q]
               PROVE  \/ at'[q] \in {"off"} \cup Loading \cup Recovering
                      \/ at'[q] \in Recording /\ trial'[q] = t
    BY DEF TrialInv, IntentsAreOwned
  <1>1. \/ at[q] \in {"off"} \cup Loading \cup Recovering
        \/ at[q] \in Recording /\ trial[q] = t
    BY DEF TrialInv, IntentsAreOwned
  <1>2. CASE q # p
    BY <1>1, <1>2 DEF TouchesOnly
  <1>3. CASE q = p
    BY <1>1, <1>3 DEF Recording, Loading, Recovering
  <1> QED BY <1>2, <1>3

(* Outside the recovery and record_trial a script has no intent.           *)
LEMMA NoIntents ==
    ASSUME TrialInv, NEW p \in Processes,
           at[p] \notin {"off"} \cup Loading \cup Recovering \cup Recording
    PROVE  \A t \in intents : t \notin Mine[p]
  BY DEF TrialInv, IntentsAreOwned

LEMMA ConstructKeeps ==
    ASSUME Orderly, Sound, Sound', TrialInv, NEW p \in Processes, TouchesOnly(p),
           Start(p) \/ Construct(p)
    PROVE  ReservedGrows /\ Holds(p)' /\ FilesAgree' /\ IntentsAreOwned'
  <1> USE NothingIsNo
  <1>a. Holds(p) /\ FilesAgree /\ MemoryHolds(p) /\ PointHolds(p)
    BY DEF TrialInv, Holds
  <1>b. /\ at \in [Processes -> Points] /\ known \in [Processes -> Reservations]
        /\ trial \in [Processes -> Trials \cup {None}] /\ todo \in [Processes -> SUBSET Trials]
        /\ entries \in [Processes -> Seq(Trials)] /\ intents \subseteq Trials
        /\ reserved # None => reserved \in Reservations
    BY DEF Sound, TrialTypeOK, Points
  <1>c. /\ at[p] \notin {"off"} \cup Loading => reserved # None
        /\ at[p] \notin {"off", "ledger", "newLedger"} => ledger # None
    BY DEF Sound, FilesThere
  <1> USE DEF Loading, Recovering, Calling, Recording
  <1>1. CASE Start(p)
    <2>1. /\ at[p] = "off" /\ at'[p] = "ledger"
          /\ UNCHANGED <<ledger, reserved, intents, entries, known, trial, todo>>
      BY <1>1, <1>b DEF Start, Step, files
    <2>2. Holds(p)'
      BY <1>a, <2>1 DEF Holds, MemoryHolds, PointHolds
    <2>3. ReservedGrows /\ FilesAgree'
      BY <1>a, <2>1 DEF ReservedGrows, FilesAgree, InLedger
    <2>4. IntentsAreOwned'
      BY <2>1, IntentsStayOwned
    <2> QED BY <2>2, <2>3, <2>4
  <1>2. CASE LoadLedger(p)
    <2>1. /\ at[p] = "ledger" /\ UNCHANGED <<ledger, reserved, intents, known, trial, todo>>
          /\ \/ at'[p] = "newLedger" /\ ledger = None /\ entries'[p] = entries[p]
             \/ at'[p] = "reservations" /\ entries'[p] = ledger
      BY <1>2, <1>b DEF LoadLedger, Step, files
    <2>2. Holds(p)'
      BY <1>a, <2>1 DEF Holds, MemoryHolds, PointHolds
    <2>3. ReservedGrows /\ FilesAgree'
      BY <1>a, <2>1 DEF ReservedGrows, FilesAgree, InLedger
    <2>4. IntentsAreOwned'
      BY <2>1, IntentsStayOwned
    <2> QED BY <2>2, <2>3, <2>4
  <1>3. CASE InitLedger(p)
    <2>1. /\ at[p] = "newLedger" /\ at'[p] = "reservations" /\ ledger' = <<>>
          /\ UNCHANGED <<reserved, intents, entries, known, trial, todo>>
      BY <1>3, <1>b DEF InitLedger, Step
    <2>2. Holds(p)'
      BY <1>a, <2>1 DEF Holds, MemoryHolds, PointHolds
    <2>3. \A t \in Trials : ~InLedger(t) /\ ~InLedger(t)'
      BY <1>a, <2>1 DEF MemoryHolds, InLedger, ToSet
    <2>4. ReservedGrows /\ FilesAgree'
      BY <1>a, <1>b, <2>1, <2>3 DEF ReservedGrows, FilesAgree
    <2>5. IntentsAreOwned'
      BY <2>1, IntentsStayOwned
    <2> QED BY <2>2, <2>4, <2>5
  <1>4. CASE LoadReservations(p)
    <2>1. /\ at[p] = "reservations" /\ UNCHANGED <<ledger, reserved, intents, entries, trial>>
          /\ \/ at'[p] = "newReservations" /\ reserved = None /\ known'[p] = known[p]
             \/ /\ at'[p] = "recover" /\ reserved # None
                /\ known'[p] = Merged(p) /\ todo'[p] = intents
      BY <1>4, <1>b DEF LoadReservations, Step, Remember, files
    <2>2. reserved # None => Merged(p) = reserved
      BY <1>a, <1>b, <2>1 DEF Merged, MemoryHolds, NoReservations, Reservations
    <2>3. Holds(p)'
      BY <1>a, <2>1, <2>2 DEF Holds, MemoryHolds, PointHolds
    <2>4. ReservedGrows /\ FilesAgree'
      BY <1>a, <2>1 DEF ReservedGrows, FilesAgree, InLedger
    <2>5. IntentsAreOwned'
      BY <2>1, IntentsStayOwned
    <2> QED BY <2>3, <2>4, <2>5
  <1>5. CASE InitReservations(p)
    <2>1. /\ at[p] = "newReservations" /\ at'[p] = "recover" /\ reserved' = NoReservations
          /\ todo'[p] = intents /\ UNCHANGED <<ledger, intents, entries, known, trial>>
      BY <1>5, <1>b DEF InitReservations, Step
    <2>2. reserved = None /\ known'[p] = NoReservations /\ reserved' # None
      BY <1>a, <2>1 DEF MemoryHolds, NoReservations, Reservations
    <2>3. intents = {} /\ \A t \in Trials : ~InLedger(t) /\ ~InLedger(t)'
      BY <1>a, <2>1, <2>2 DEF FilesAgree, InLedger
    <2>4. Holds(p)'
      BY <1>a, <2>1, <2>2 DEF Holds, MemoryHolds, PointHolds, NoReservations
    <2>5. ReservedGrows /\ FilesAgree'
      BY <2>1, <2>2, <2>3 DEF ReservedGrows, FilesAgree
    <2>6. IntentsAreOwned'
      BY <2>1, IntentsStayOwned
    <2> QED BY <2>4, <2>5, <2>6
  <1>6. CASE Recover(p)
    <2>1. PICK t \in todo[p] :
            /\ at[p] = "recover" /\ at'[p] = AfterRecovery(p, t) /\ trial'[p] = t
            /\ IF AfterRecovery(p, t) = "reconciled"
               THEN known'[p] = With(known[p], t, "COMPLETED") ELSE known'[p] = known[p]
            /\ UNCHANGED <<ledger, reserved, intents, entries, todo>>
      BY <1>6, <1>b DEF Recover, Step, Remember, files
    <2>2. /\ known[p] = reserved /\ entries[p] = ledger /\ todo[p] = intents /\ t \in intents
          /\ t \in Trials /\ reserved \in Reservations /\ ledger # None
      BY <1>a, <1>b, <1>c, <2>1 DEF MemoryHolds
    <2>3. /\ reserved[t] # None /\ reserved[t] \in TrialStatus
          /\ reserved[t] = "COMPLETED" => InLedger(t)
          /\ InLedger(t) => reserved[t] \in {"COMPLETED", "RUNNING"}
      BY <1>a, <2>2 DEF FilesAgree, Reservations
    <2>4. Recorded(p, t) <=> InLedger(t)
      BY <2>2 DEF Recorded, InLedger
    <2>5. ~Unaccountable(p, t)
      BY <2>2, <2>3, <2>4 DEF Unaccountable
    <2>6. \/ at'[p] = "clear" /\ reserved[t] \notin Live /\ known'[p] = known[p]
          \/ at'[p] = "reconciled" /\ InLedger(t) /\ known'[p] = With(reserved, t, "COMPLETED")
          \/ at'[p] = "abort" /\ ~InLedger(t) /\ reserved[t] \in Live /\ known'[p] = known[p]
      BY <2>1, <2>2, <2>4, <2>5 DEF AfterRecovery
    <2>7. \A u \in Trials : known'[p][u] # None => reserved[u] # None
      BY <2>2, <2>3, <2>6 DEF With, Reservations
    <2>8. MemoryHolds(p)'
      BY <2>1, <2>2, <2>6, <2>7 DEF MemoryHolds
    <2>9. PointHolds(p)'
      BY <2>1, <2>2, <2>3, <2>6 DEF PointHolds, InLedger, Live
    <2>10. ReservedGrows /\ FilesAgree' /\ Holds(p)'
      BY <1>a, <2>1, <2>6, <2>8, <2>9 DEF ReservedGrows, FilesAgree, InLedger, Holds
    <2>11. IntentsAreOwned'
      BY <2>1, <2>6, IntentsStayOwned
    <2> QED BY <2>10, <2>11
  <1>7. CASE SaveReconciled(p)
    <2> DEFINE t == trial[p]
    <2>1. /\ at[p] = "reconciled" /\ at'[p] = "clear" /\ reserved' = known[p]
          /\ UNCHANGED <<ledger, intents, entries, known, trial, todo>>
      BY <1>7, <1>b DEF SaveReconciled, Step
    <2>2. /\ t \in intents /\ t \in Trials /\ InLedger(t) /\ known[p] = With(reserved, t, "COMPLETED")
          /\ reserved \in Reservations /\ reserved # None
      BY <1>a, <1>b, <1>c, <2>1 DEF PointHolds
    <2>3. /\ reserved'[t] = "COMPLETED" /\ \A u \in Trials \ {t} : reserved'[u] = reserved[u]
          /\ reserved' # None
      <3>1. known[p] # None
        BY <1>b
      <3> QED BY <2>1, <2>2, <3>1 DEF With, Reservations
    <2>4. Holds(p)'
      BY <1>a, <2>1, <2>2, <2>3 DEF Holds, MemoryHolds, PointHolds
    <2>5. ReservedGrows
      BY <2>2, <2>3, StatusIsSome DEF ReservedGrows
    <2>6. FilesAgree'
      <3>1. \A u \in Trials : InLedger(u)' <=> InLedger(u)
        BY <2>1 DEF InLedger
      <3>2. \A u \in intents : u \in Trials /\ reserved'[u] # None
                               /\ (reserved'[u] = "COMPLETED" => InLedger(u))
        BY <1>a, <1>b, <2>2, <2>3, StatusIsSome DEF FilesAgree
      <3>3. \A u \in Trials : InLedger(u) =>
              reserved'[u] = "COMPLETED" \/ (u \in intents /\ reserved'[u] = "RUNNING")
        BY <1>a, <2>2, <2>3 DEF FilesAgree
      <3> QED BY <1>b, <2>1, <2>3, <3>1, <3>2, <3>3 DEF FilesAgree
    <2>7. IntentsAreOwned'
      BY <2>1, IntentsStayOwned
    <2> QED BY <2>4, <2>5, <2>6, <2>7
  <1>8. CASE AbortLost(p)
    <2>1. /\ at[p] = "abort" /\ at'[p] = "aborting" /\ known'[p] = Merged(p) /\ trial'[p] = trial[p]
          /\ UNCHANGED <<ledger, reserved, intents, entries, todo>>
      BY <1>8, <1>b DEF AbortLost, Enter, Step, Remember, files
    <2>2. Merged(p) = reserved /\ known[p] = reserved
      BY <1>a, <1>b, <1>c, <2>1 DEF Merged, MemoryHolds, Reservations
    <2>3. Holds(p)'
      BY <1>a, <2>1, <2>2 DEF Holds, MemoryHolds, PointHolds, InLedger
    <2>4. ReservedGrows /\ FilesAgree'
      BY <1>a, <2>1 DEF ReservedGrows, FilesAgree, InLedger
    <2>5. IntentsAreOwned'
      BY <2>1, IntentsStayOwned
    <2> QED BY <2>3, <2>4, <2>5
  <1>9. CASE SaveAborted(p)
    <2> DEFINE t == trial[p]
    <2>1. known[p] = reserved /\ reserved[t] \in Live /\ ~InLedger(t) /\ t \in intents /\ t \in Trials
          /\ reserved \in Reservations /\ at[p] = "aborting"
      BY <1>9, <1>a, <1>b, <1>c DEF SaveAborted, Step, MemoryHolds, PointHolds
    <2>2. /\ at'[p] = "clear" /\ known'[p] = With(reserved, t, "ABORTED") /\ reserved' = known'[p]
          /\ UNCHANGED <<ledger, intents, entries, trial, todo>>
      BY <1>9, <1>b, <2>1 DEF SaveAborted, Step, Remember
    <2>3. /\ reserved'[t] = "ABORTED" /\ \A u \in Trials \ {t} : reserved'[u] = reserved[u]
          /\ With(reserved, t, "ABORTED") \in Reservations
      BY <2>1, <2>2, WithIsTyped DEF With, Reservations, TrialStatus
    <2>4. Holds(p)'
      BY <1>a, <2>1, <2>2, <2>3 DEF Holds, MemoryHolds, PointHolds, InLedger
    <2>5. ReservedGrows
      BY <2>1, <2>2, <2>3, StatusIsSome DEF ReservedGrows
    <2>6. FilesAgree'
      <3>1. \A u \in Trials : InLedger(u)' <=> InLedger(u)
        BY <2>2 DEF InLedger
      <3>2. \A u \in intents : u \in Trials /\ reserved'[u] # None
                               /\ (reserved'[u] = "COMPLETED" => InLedger(u))
        BY <1>a, <1>b, <2>1, <2>3, StatusIsSome DEF FilesAgree
      <3>3. \A u \in Trials : InLedger(u) =>
              reserved'[u] = "COMPLETED" \/ (u \in intents /\ reserved'[u] = "RUNNING")
        BY <1>a, <2>1, <2>3 DEF FilesAgree
      <3> QED BY <1>b, <2>2, <2>3, <3>1, <3>2, <3>3 DEF FilesAgree
    <2>7. IntentsAreOwned'
      BY <2>1, <2>2, IntentsStayOwned
    <2> QED BY <2>4, <2>5, <2>6, <2>7
  <1>10. CASE ClearIntent(p)
    <2> DEFINE t == trial[p]
    <2>1. at[p] = "clear" /\ t \in intents /\ (InLedger(t) => reserved[t] = "COMPLETED")
      BY <1>10, <1>a DEF ClearIntent, Step, PointHolds
    <2>2. /\ at'[p] = "recover" /\ intents' = intents \ {t} /\ todo'[p] = todo[p] \ {t}
          /\ UNCHANGED <<ledger, reserved, entries, known>>
      BY <1>10, <1>b, <2>1 DEF ClearIntent, Step
    <2>3. Holds(p)'
      BY <1>a, <2>1, <2>2 DEF Holds, MemoryHolds, PointHolds
    <2>4. ReservedGrows /\ FilesAgree'
      BY <1>a, <1>b, <2>1, <2>2 DEF ReservedGrows, FilesAgree, InLedger
    <2>5. IntentsAreOwned'
      BY <2>2, IntentsStayOwned
    <2> QED BY <2>3, <2>4, <2>5
  <1>11. CASE Constructed(p)
    <2>1. /\ at[p] = "recover" /\ at'[p] = "ready" /\ todo[p] = {}
          /\ UNCHANGED <<ledger, reserved, intents, entries, known, trial, todo>>
      BY <1>11, <1>b DEF Constructed, Step, files
    <2>2. intents = {}
      BY <1>a, <2>1 DEF MemoryHolds
    <2>3. Holds(p)'
      BY <1>a, <2>1 DEF Holds, MemoryHolds, PointHolds
    <2>4. ReservedGrows /\ FilesAgree'
      BY <1>a, <2>1 DEF ReservedGrows, FilesAgree, InLedger
    <2>5. IntentsAreOwned'
      BY <2>1, <2>2, IntentsStayOwned
    <2> QED BY <2>3, <2>4, <2>5
  <1> QED BY <1>1, <1>2, <1>3, <1>4, <1>5, <1>6, <1>7, <1>8, <1>9, <1>10, <1>11 DEF Construct

LEMMA CallKeeps ==
    ASSUME Orderly, Sound, Sound', TrialInv, NEW p \in Processes, TouchesOnly(p),
           Call(p) \/ ConsumeHoldout(p)
    PROVE  ReservedGrows /\ Holds(p)' /\ FilesAgree' /\ IntentsAreOwned'
  <1> USE NothingIsNo
  <1>a. Holds(p) /\ FilesAgree /\ MemoryHolds(p) /\ PointHolds(p)
    BY DEF TrialInv, Holds
  <1>b. /\ at \in [Processes -> Points] /\ known \in [Processes -> Reservations]
        /\ trial \in [Processes -> Trials \cup {None}] /\ todo \in [Processes -> SUBSET Trials]
        /\ entries \in [Processes -> Seq(Trials)] /\ intents \subseteq Trials
        /\ reserved # None => reserved \in Reservations
        /\ ledger # None => ledger \in Seq(Trials)
    BY DEF Sound, TrialTypeOK, Points
  <1>c. /\ at[p] \notin {"off"} \cup Loading => reserved # None
        /\ at[p] \notin {"off", "ledger", "newLedger"} => ledger # None
    BY DEF Sound, FilesThere
  <1> USE DEF Loading, Recovering, Calling, Recording
  <1>1. at[p] = "ready" /\ UNCHANGED <<ledger, reserved, intents, todo>>
    BY DEF Call, ConsumeHoldout, Enter, Step, files
  <1>2. \A t \in intents : t \notin Mine[p]
    BY <1>1, NoIntents
  <1>3. ReservedGrows /\ FilesAgree'
    BY <1>a, <1>1 DEF ReservedGrows, FilesAgree, InLedger
  <1>4. IntentsAreOwned'
    BY <1>1, <1>2, IntentsStayOwned
  <1>5. CASE Call(p)
    <2>1. PICK t \in Mine[p], call \in {"reserve", "update", "record"} :
            /\ at'[p] = call /\ known'[p] = Merged(p) /\ trial'[p] = t
            /\ call = "record" => entries'[p] = ledger
      BY <1>5, <1>b DEF Call, Enter, Step, Remember
    <2>2. reserved # None /\ ledger # None /\ t \in Trials
      BY <1>1, <1>c, TrialAssumption
    <2>3. Merged(p) = reserved
      BY <1>a, <1>b, <2>2 DEF Merged, MemoryHolds, Reservations
    <2>4. MemoryHolds(p)'
      BY <1>1, <2>1, <2>2, <2>3 DEF MemoryHolds
    <2>5. PointHolds(p)'
      BY <2>1, <2>2 DEF PointHolds
    <2>6. Holds(p)'
      BY <2>1, <2>4, <2>5 DEF Holds
    <2> QED BY <1>3, <1>4, <2>6
  <1>6. CASE ConsumeHoldout(p)
    <2>1. at'[p] = "handOut" /\ UNCHANGED <<entries, known>>
      BY <1>6, <1>b DEF ConsumeHoldout
    <2>2. Holds(p)'
      BY <1>a, <1>1, <2>1 DEF Holds, MemoryHolds, PointHolds
    <2> QED BY <1>3, <1>4, <2>2
  <1> QED BY <1>5, <1>6

(* A trial of a script's own without an intent: what the file may become   *)
(* for it without parting from the ledger.                                 *)
LEMMA StatusMayChange ==
    ASSUME TrialInv, Sound, reserved # None, NEW p \in Processes, NEW t \in Mine[p], t \in Trials,
           \A u \in intents : u \notin Mine[p], ~InLedger(t),
           NEW s \in TrialStatus, reserved' = With(reserved, t, s), UNCHANGED <<ledger, intents>>
    PROVE  ReservedGrows /\ FilesAgree'
  <1>1. reserved \in Reservations /\ intents \subseteq Trials /\ s # None
    BY NothingIsNo DEF Sound, TrialTypeOK
  <1>2. reserved'[t] = s /\ \A u \in Trials \ {t} : reserved'[u] = reserved[u]
    BY <1>1 DEF With, Reservations
  <1>3. reserved' # None
    BY <1>1, WithIsTyped, NothingIsNo
  <1>4. ReservedGrows
    BY <1>1, <1>2, <1>3 DEF ReservedGrows
  <1>5. \A u \in Trials : InLedger(u)' <=> InLedger(u)
    BY DEF InLedger
  <1>6. t \notin intents
    OBVIOUS
  <1>7. FilesAgree'
    BY <1>1, <1>2, <1>3, <1>5, <1>6 DEF TrialInv, FilesAgree
  <1> QED BY <1>4, <1>7

LEMMA AnswerKeeps ==
    ASSUME Orderly, Sound, Sound', TrialInv, NEW p \in Processes, TouchesOnly(p), Answer(p)
    PROVE  ReservedGrows /\ Holds(p)' /\ FilesAgree' /\ IntentsAreOwned'
  <1> USE NothingIsNo
  <1>a. Holds(p) /\ FilesAgree /\ MemoryHolds(p) /\ PointHolds(p)
    BY DEF TrialInv, Holds
  <1>b. /\ at \in [Processes -> Points] /\ known \in [Processes -> Reservations]
        /\ trial \in [Processes -> Trials \cup {None}] /\ todo \in [Processes -> SUBSET Trials]
        /\ entries \in [Processes -> Seq(Trials)] /\ intents \subseteq Trials
        /\ reserved # None => reserved \in Reservations
        /\ ledger # None => ledger \in Seq(Trials)
    BY DEF Sound, TrialTypeOK, Points
  <1>c. /\ at[p] \notin {"off"} \cup Loading => reserved # None
        /\ at[p] \notin {"off", "ledger", "newLedger"} => ledger # None
    BY DEF Sound, FilesThere
  <1> USE DEF Loading, Recovering, Calling, Recording
  <1> DEFINE t == trial[p]
  <1>1. CASE Refuse(p) \/ HandOut(p)
    <2>1. /\ at[p] \in {"reserve", "update", "record", "handOut"} /\ at'[p] = "ready"
          /\ UNCHANGED <<ledger, reserved, intents, entries, known, todo>>
      BY <1>1, <1>b DEF Refuse, HandOut, Leave, Step, files
    <2>2. Holds(p)'
      BY <1>a, <2>1 DEF Holds, MemoryHolds, PointHolds
    <2>3. ReservedGrows /\ FilesAgree'
      BY <1>a, <2>1 DEF ReservedGrows, FilesAgree, InLedger
    <2>4. IntentsAreOwned'
      BY <2>1, NoIntents, IntentsStayOwned
    <2> QED BY <2>2, <2>3, <2>4
  <1>2. CASE ReserveTrial(p) \/ UpdateTrialStatus(p)
    <2>1. /\ at[p] \in {"reserve", "update"} /\ at'[p] = "ready" /\ reserved' = known'[p]
          /\ UNCHANGED <<ledger, intents, entries, todo>>
      BY <1>2, <1>b DEF ReserveTrial, UpdateTrialStatus, Leave, Step
    <2>2. known[p] = reserved /\ reserved # None /\ reserved \in Reservations /\ t \in Mine[p] /\ t \in Trials
      BY <1>a, <1>b, <1>c, <2>1 DEF MemoryHolds, PointHolds
    <2>3. PICK s \in TrialStatus :
            /\ known'[p] = With(reserved, t, s)
            /\ reserved[t] # "COMPLETED" /\ (reserved[t] = None \/ reserved[t] \in Live)
      <3>1. CASE ReserveTrial(p)
        BY <1>b, <2>2, <3>1, StatusIsSome DEF ReserveTrial, Remember, TrialStatus, Live
      <3>2. CASE UpdateTrialStatus(p)
        BY <1>b, <2>2, <3>2 DEF UpdateTrialStatus, Remember, Allowed, TrialStatus, Live
      <3> QED BY <1>2, <3>1, <3>2
    <2>4. \A u \in intents : u \notin Mine[p]
      BY <2>1, NoIntents
    <2>5. ~InLedger(t)
      BY <1>a, <2>2, <2>3, <2>4 DEF FilesAgree
    <2>6. ReservedGrows /\ FilesAgree'
      BY <2>1, <2>2, <2>3, <2>4, <2>5, StatusMayChange
    <2>7. reserved' # None
      BY <2>2, <2>6 DEF ReservedGrows
    <2>8. Holds(p)'
      BY <2>1, <2>7 DEF Holds, MemoryHolds, PointHolds
    <2>9. IntentsAreOwned'
      BY <2>1, <2>4, IntentsStayOwned
    <2> QED BY <2>6, <2>8, <2>9
  <1>3. CASE WriteIntent(p)
    <2>1. /\ at[p] = "record" /\ at'[p] = "commit" /\ known[p][t] = "RUNNING" /\ intents' = intents \cup {t}
          /\ UNCHANGED <<ledger, reserved, entries, known, trial, todo>>
      BY <1>3, <1>b DEF WriteIntent, MayRecord, Step
    <2>2. /\ known[p] = reserved /\ reserved # None /\ reserved[t] = "RUNNING" /\ entries[p] = ledger
          /\ t \in Mine[p] /\ t \in Trials
      BY <1>a, <1>c, <2>1 DEF MemoryHolds, PointHolds
    <2>3. \A u \in intents : u \notin Mine[p]
      BY <2>1, NoIntents
    <2>4. MemoryHolds(p)'
      BY <1>a, <2>1, <2>2 DEF MemoryHolds
    <2>5. PointHolds(p)'
      <3>1. ~InLedger(t)
        BY <1>a, <2>2, <2>3 DEF FilesAgree
      <3> QED BY <2>1, <2>2, <3>1 DEF PointHolds, InLedger
    <2>6. Holds(p)' /\ ReservedGrows
      BY <2>1, <2>4, <2>5 DEF Holds, ReservedGrows
    <2>7. \A u \in Trials : InLedger(u)' <=> InLedger(u)
      BY <2>1 DEF InLedger
    <2>8. FilesAgree'
      BY <1>a, <1>b, <2>1, <2>2, <2>7, StatusIsSome DEF FilesAgree
    <2>9. IntentsAreOwned'
      <3> SUFFICES ASSUME NEW u \in intents'
                   PROVE  /\ \E q \in Processes : u \in Mine[q]
                          /\ \A q \in Processes : u \in Mine[q] =>
                               \/ at'[q] \in {"off"} \cup Loading \cup Recovering
                               \/ at'[q] \in Recording /\ trial'[q] = u
        BY DEF IntentsAreOwned
      <3>1. CASE u \in intents
        BY <2>3, <3>1 DEF TrialInv, IntentsAreOwned, TouchesOnly
      <3>2. CASE u = t
        BY <2>1, <2>2, <3>2 DEF Orderly
      <3> QED BY <2>1, <3>1, <3>2
    <2> QED BY <2>6, <2>8, <2>9
  <1>4. CASE CommitResult(p)
    <2>1. /\ at[p] = "commit" /\ at'[p] = "complete" /\ ledger' = Append(entries[p], t)
          /\ UNCHANGED <<reserved, intents, known, trial, todo>>
      BY <1>4, <1>b DEF CommitResult, Step
    <2>2. /\ known[p] = reserved /\ reserved # None /\ reserved[t] = "RUNNING" /\ entries[p] = ledger
          /\ t \in Mine[p] /\ t \in Trials /\ t \in intents /\ ledger # None /\ ledger \in Seq(Trials)
      BY <1>a, <1>b, <1>c, <2>1 DEF MemoryHolds, PointHolds
    <2>3. ToSet(ledger') = ToSet(ledger) \cup {t} /\ ledger' # None
      <3>1. Append(ledger, t) \in Seq(Trials)
        BY <2>2
      <3> QED BY <2>1, <2>2, <3>1, ToSetOfSeq
    <2>4. \A u \in Trials : InLedger(u)' <=> InLedger(u) \/ u = t
      BY <2>2, <2>3 DEF InLedger
    <2>5. MemoryHolds(p)'
      BY <1>a, <2>1, <2>2, <2>3 DEF MemoryHolds
    <2>6. PointHolds(p)'
      BY <2>1, <2>2, <2>3 DEF PointHolds, InLedger
    <2>7. Holds(p)' /\ ReservedGrows
      BY <2>1, <2>5, <2>6 DEF Holds, ReservedGrows
    <2>8. FilesAgree'
      BY <1>a, <1>b, <2>1, <2>2, <2>4 DEF FilesAgree
    <2>9. IntentsAreOwned'
      BY <2>1, IntentsStayOwned
    <2> QED BY <2>7, <2>8, <2>9
  <1>5. CASE CompleteReservation(p)
    <2>1. /\ at[p] = "complete" /\ at'[p] = "tidy" /\ known'[p] = With(known[p], t, "COMPLETED")
          /\ reserved' = known'[p] /\ UNCHANGED <<ledger, intents, entries, trial, todo>>
      BY <1>5, <1>b DEF CompleteReservation, Step, Remember
    <2>2. /\ known[p] = reserved /\ reserved # None /\ reserved \in Reservations /\ InLedger(t)
          /\ t \in Mine[p] /\ t \in Trials /\ t \in intents
      BY <1>a, <1>b, <1>c, <2>1 DEF MemoryHolds, PointHolds
    <2>3. /\ reserved'[t] = "COMPLETED" /\ \A u \in Trials \ {t} : reserved'[u] = reserved[u]
          /\ reserved' # None
      <3>1. With(reserved, t, "COMPLETED") \in Reservations
        BY <2>2, WithIsTyped DEF TrialStatus
      <3>2. reserved' # None
        BY <2>1, <2>2, <3>1
      <3> QED BY <2>1, <2>2, <3>2 DEF With, Reservations
    <2>4. \A u \in Trials : InLedger(u)' <=> InLedger(u)
      BY <2>1 DEF InLedger
    <2>5. MemoryHolds(p)'
      BY <2>1, <2>3 DEF MemoryHolds
    <2>6. PointHolds(p)'
      BY <2>1, <2>2, <2>3, <2>4 DEF PointHolds
    <2>7. Holds(p)' /\ ReservedGrows
      BY <2>1, <2>2, <2>3, <2>5, <2>6, StatusIsSome DEF Holds, ReservedGrows
    <2>8. FilesAgree'
      <3>1. \A u \in intents : u \in Trials /\ reserved'[u] # None
                               /\ (reserved'[u] = "COMPLETED" => InLedger(u))
        BY <1>a, <1>b, <2>2, <2>3, StatusIsSome DEF FilesAgree
      <3>2. \A u \in Trials : InLedger(u) =>
              reserved'[u] = "COMPLETED" \/ (u \in intents /\ reserved'[u] = "RUNNING")
        BY <1>a, <2>3 DEF FilesAgree
      <3> QED BY <1>b, <2>1, <2>3, <2>4, <3>1, <3>2 DEF FilesAgree
    <2>9. IntentsAreOwned'
      BY <2>1, IntentsStayOwned
    <2> QED BY <2>7, <2>8, <2>9
  <1>6. CASE TidyIntent(p)
    <2>1. /\ at[p] = "tidy" /\ at'[p] = "ready" /\ intents' = intents \ {t}
          /\ UNCHANGED <<ledger, reserved, entries, known, todo>>
      BY <1>6, <1>b DEF TidyIntent, Leave, Step
    <2>2. reserved[t] = "COMPLETED"
      BY <1>a, <2>1 DEF PointHolds
    <2>3. Holds(p)'
      BY <1>a, <2>1 DEF Holds, MemoryHolds, PointHolds
    <2>4. ReservedGrows /\ FilesAgree'
      BY <1>a, <2>1, <2>2 DEF ReservedGrows, FilesAgree, InLedger
    <2>5. \A u \in intents' : u \notin Mine[p]
      BY <2>1 DEF TrialInv, IntentsAreOwned
    <2>6. IntentsAreOwned'
      BY <2>1, <2>5, IntentsStayOwned
    <2> QED BY <2>3, <2>4, <2>6
  <1> QED BY <1>1, <1>2, <1>3, <1>4, <1>5, <1>6 DEF Answer

LEMMA FailureKeeps ==
    ASSUME Orderly, Sound, Sound', TrialInv, NEW p \in Processes, TouchesOnly(p), Fault(p) \/ Crash(p)
    PROVE  ReservedGrows /\ Holds(p)' /\ FilesAgree' /\ IntentsAreOwned'
  <1>a. Holds(p) /\ FilesAgree /\ MemoryHolds(p)
    BY DEF TrialInv, Holds
  <1>b. /\ at \in [Processes -> Points] /\ known \in [Processes -> Reservations]
        /\ entries \in [Processes -> Seq(Trials)]
    BY DEF Sound, TrialTypeOK, Points
  <1> USE DEF Loading, Recovering, Calling, Recording
  <1>1. UNCHANGED <<ledger, reserved, intents>>
    BY DEF Fault, Crash, files
  <1>2. ReservedGrows /\ FilesAgree'
    BY <1>a, <1>1 DEF ReservedGrows, FilesAgree, InLedger
  <1>3. CASE Ends(p)
    <2>1. at'[p] = "off" /\ entries'[p] = <<>> /\ known'[p] = NoReservations
      BY <1>3, <1>b DEF Ends, Remember
    <2>2. Holds(p)'
      BY <2>1 DEF Holds, MemoryHolds, PointHolds, NoReservations
    <2>3. IntentsAreOwned'
      BY <1>1, <2>1, IntentsStayOwned
    <2> QED BY <1>2, <2>2, <2>3
  <1>4. CASE ~Ends(p)
    <2>1. at[p] \in {"update", "record"} /\ at'[p] = "ready" /\ UNCHANGED <<entries, known, todo>>
      BY <1>4, <1>b, TrialAssumption DEF Fault, Crash, Leave, Orderly, Locked, Writes
    <2>2. Holds(p)'
      BY <1>a, <1>1, <2>1 DEF Holds, MemoryHolds, PointHolds
    <2>3. IntentsAreOwned'
      BY <1>1, <2>1, NoIntents, IntentsStayOwned
    <2> QED BY <1>2, <2>2, <2>3
  <1> QED BY <1>3, <1>4

(* A step that leaves the files and every script where it is, or ends one  *)
(* that was between two calls.                                             *)
LEMMA QuietStepKeeps ==
    ASSUME Sound, Sound', TrialInv, NEW p \in Processes, UNCHANGED <<ledger, reserved, intents>>,
           TouchesOnly(p), Idle(p) \/ UNCHANGED process,
           UNCHANGED process \/ (at'[p] = "off" /\ entries'[p] = <<>> /\ known'[p] = NoReservations)
    PROVE  TrialInv'
  <1>1. CASE UNCHANGED process
    BY <1>1 DEF process, TrialInv, Holds, MemoryHolds, PointHolds, FilesAgree, IntentsAreOwned,
                InLedger, Alone, Idle
  <1>2. CASE ~UNCHANGED process
    <2>1. ReservedGrows /\ FilesAgree'
      BY DEF ReservedGrows, TrialInv, FilesAgree, InLedger
    <2>2. Holds(p)' /\ Idle(p)'
      BY <1>2 DEF Holds, MemoryHolds, PointHolds, NoReservations, Idle, Loading, Recovering, Calling, Recording
    <2>3. IntentsAreOwned'
      BY <1>2, IntentsStayOwned
    <2>4. ASSUME NEW q \in Processes \ {p} PROVE Holds(q)' /\ (Idle(q)' <=> Idle(q))
      BY <2>4 DEF TouchesOnly, TrialInv, Holds, MemoryHolds, PointHolds, InLedger, Idle
    <2>5. Alone'
      BY <2>2, <2>4 DEF TrialInv, Alone
    <2>6. \A q \in Processes : Holds(q)'
      BY <2>2, <2>4
    <2> QED BY <2>1, <2>3, <2>5, <2>6 DEF TrialInv
  <1> QED BY <1>1, <1>2

LEMMA RecoveryStarts == TrialInit => TrialInv
  BY DEF TrialInit, TrialInv, Alone, Idle, Holds, MemoryHolds, PointHolds, FilesAgree,
         IntentsAreOwned, InLedger, NoReservations, Loading, Recovering, Calling, Recording

LEMMA RecoveryKept ==
    ASSUME Orderly
    PROVE  Sound /\ Sound' /\ TrialInv /\ [TrialNext]_vars => TrialInv'
  <1> SUFFICES ASSUME Sound, Sound', TrialInv, [TrialNext]_vars PROVE TrialInv'
    OBVIOUS
  <1>1. ASSUME NEW p \in Processes, Acts(p) PROVE TrialInv'
    <2>1. TouchesOnly(p)
      BY <1>1, OnlyItsOwn
    <2>2. CASE Advance(p)
      BY <2>1, <2>2, QuietStepKeeps DEF Advance, files
    <2>3. CASE (Crash(p) \/ Fault(p)) /\ Idle(p)
      <3>1. Ends(p) /\ UNCHANGED <<ledger, reserved, intents>>
        BY <2>3 DEF Crash, Fault, Idle, Locked, files, Orderly
      <3>2. at'[p] = "off" /\ entries'[p] = <<>> /\ known'[p] = NoReservations
        BY <3>1 DEF Ends, Remember, Sound, TrialTypeOK
      <3> QED BY <2>1, <2>3, <3>1, <3>2, QuietStepKeeps
    <2>4. CASE ~Advance(p) /\ (Crash(p) \/ Fault(p) => ~Idle(p))
      <3>1. \A q \in Processes \ {p} : Idle(q)
        BY <1>1, <2>4, OthersAreIdle
      <3>2. ReservedGrows /\ Holds(p)' /\ FilesAgree' /\ IntentsAreOwned'
        BY <1>1, <2>1, <2>4, ConstructKeeps, CallKeeps, AnswerKeeps, FailureKeeps DEF Acts
      <3> QED BY <2>1, <3>1, <3>2, Together
    <2> QED BY <2>2, <2>3, <2>4
  <1>2. CASE UNCHANGED vars
    BY <1>2 DEF vars, files, process, TrialInv, Holds, MemoryHolds, PointHolds, FilesAgree,
                IntentsAreOwned, InLedger, Alone, Idle
  <1> QED BY <1>1, <1>2 DEF TrialNext, Acts

(* The files account for each other and every script remembers them as     *)
(* they are, in an orderly use, whatever dies and wherever.                *)
LEMMA RecoveryInvariant ==
    ASSUME Orderly
    PROVE  TrialSpec => [](Sound /\ TrialInv)
  <1>1. TrialSpec => []Sound
    BY TypeInit, StepIsSound, PTL DEF TrialSpec
  <1>2. TrialInit => TrialInv
    BY RecoveryStarts
  <1>3. Sound /\ Sound' /\ TrialInv /\ [TrialNext]_vars => TrialInv'
    BY RecoveryKept
  <1> QED BY <1>1, <1>2, <1>3, PTL DEF TrialSpec

(* Under Orderly, which the code leaves to its caller: no construction is  *)
(* refused (_recover_intents never raises LedgerRecoveryError):            *)
(* RecoveryAccepts.                                                        *)
THEOREM ConstructionAccepted ==
    ASSUME Orderly
    PROVE  TrialSpec => []RecoveryAccepts
  <1>1. TrialSpec => [](Sound /\ TrialInv)
    BY RecoveryInvariant
  <1>2. TrialInv => RecoveryAccepts
    BY DEF TrialInv, Holds, RecoveryAccepts
  <1> QED BY <1>1, <1>2, PTL

(* Under Orderly: between calls no record is half done, whoever died       *)
(* before (record_trial and its recovery): ReadyIsSettled.                 *)
THEOREM RecordsAreSettled ==
    ASSUME Orderly
    PROVE  TrialSpec => []ReadyIsSettled
  <1>1. TrialSpec => [](Sound /\ TrialInv)
    BY RecoveryInvariant
  <1>2. TrialInv => ReadyIsSettled
    <2> SUFFICES ASSUME TrialInv, \A p \in Processes : at[p] = "ready"
                 PROVE  intents = {} /\ \A t \in Trials : InLedger(t) => StatusOnDisk(t) = "COMPLETED"
      BY DEF ReadyIsSettled
    <2>1. intents = {}
      BY DEF TrialInv, IntentsAreOwned, Loading, Recovering, Recording
    <2> QED BY <2>1 DEF TrialInv, FilesAgree, StatusOnDisk
  <1> QED BY <1>1, <1>2, PTL

----------------------------------------------------------------------------
(* The refinement of the book.                                             *)

BookStatus == [t \in Trials |-> IF InLedger(t) THEN "COMPLETED" ELSE StatusOnDisk(t)]
BookResults == IF ledger = None THEN <<>> ELSE ledger

LEMMA BookCounts == \A S : Book!Cardinality(S) = Cardinality(S)
  BY Zenon DEF Book!Cardinality, Cardinality

LEMMA BookOfWith ==
    ASSUME reserved \in Reservations, reserved # None, reserved' # None, UNCHANGED ledger,
           NEW t \in Trials, NEW s, reserved' = With(reserved, t, s)
    PROVE  /\ BookResults' = BookResults
           /\ InLedger(t) => BookStatus' = BookStatus
           /\ ~InLedger(t) => BookStatus' = [BookStatus EXCEPT ![t] = s] /\ BookStatus[t] = reserved[t]
  <1>1. reserved'[t] = s /\ \A u \in Trials \ {t} : reserved'[u] = reserved[u]
    BY DEF With, Reservations
  <1>2. \A u \in Trials : InLedger(u)' <=> InLedger(u)
    BY DEF InLedger
  <1>3. BookStatus' = [u \in Trials |-> IF InLedger(u) THEN "COMPLETED" ELSE reserved'[u]]
    BY <1>2 DEF BookStatus, StatusOnDisk
  <1>4. BookStatus = [u \in Trials |-> IF InLedger(u) THEN "COMPLETED" ELSE reserved[u]]
    BY DEF BookStatus, StatusOnDisk
  <1>5. BookResults' = BookResults
    BY DEF BookResults
  <1>6. InLedger(t) => BookStatus' = BookStatus
    BY <1>1, <1>3, <1>4
  <1>7. ~InLedger(t) => BookStatus' = [BookStatus EXCEPT ![t] = s]
    BY <1>1, <1>3, <1>4
  <1>8. ~InLedger(t) => BookStatus[t] = reserved[t]
    BY <1>4
  <1> QED BY <1>5, <1>6, <1>7, <1>8

(* The trials the book knows are the ones the file knows.                  *)
LEMMA BookKnows ==
    ASSUME Sound, TrialInv, reserved # None
    PROVE  Book!Known = Attempts(reserved)
  <1>1. \A t \in Trials : BookStatus[t] # None <=> reserved[t] # None
    BY StatusIsSome DEF BookStatus, StatusOnDisk, TrialInv, FilesAgree
  <1> QED BY <1>1 DEF Book!Known, Attempts, BookStatus

LEMMA BookSteps ==
    ASSUME Orderly, Sound, Sound', TrialInv, TrialInv', NEW p \in Processes, Acts(p)
    PROVE  [Book!BNext]_(Book!book)
  <1> DEFINE t == trial[p]
  <1>a. FilesAgree /\ FilesAgree' /\ MemoryHolds(p) /\ PointHolds(p)
    BY DEF TrialInv, Holds
  <1>b. /\ at \in [Processes -> Points] /\ known \in [Processes -> Reservations]
        /\ entries \in [Processes -> Seq(Trials)] /\ intents \subseteq Trials
        /\ reserved # None => reserved \in Reservations
    BY DEF Sound, TrialTypeOK, Points
  <1>c. /\ at[p] \notin {"off"} \cup Loading => reserved # None
        /\ at[p] \notin {"off", "ledger", "newLedger"} => ledger # None
        /\ at'[p] \notin {"off"} \cup Loading => reserved' # None
    BY DEF Sound, FilesThere
  <1>d. ASSUME BookStatus' = BookStatus, BookResults' = BookResults PROVE [Book!BNext]_(Book!book)
    BY <1>d DEF Book!book, BookStatus, BookResults
  <1> USE DEF Loading, Recovering, Calling, Recording
  <1>1. CASE UNCHANGED <<ledger, reserved>>
    BY <1>1, <1>d DEF BookStatus, BookResults, InLedger, StatusOnDisk
  <1>2. CASE InitLedger(p)
    <2>1. at[p] = "newLedger" /\ ledger' = <<>> /\ UNCHANGED reserved
      BY <1>2 DEF InitLedger, Step
    <2>2. ledger = None
      BY <1>a, <2>1 DEF MemoryHolds
    <2>3. \A u \in Trials : ~InLedger(u) /\ ~InLedger(u)'
      BY <2>1, <2>2 DEF InLedger, ToSet
    <2> QED BY <1>d, <2>1, <2>2, <2>3 DEF BookStatus, BookResults, StatusOnDisk
  <1>3. CASE InitReservations(p)
    <2>1. at[p] = "newReservations" /\ reserved' = NoReservations /\ UNCHANGED ledger
      BY <1>3 DEF InitReservations, Step
    <2>2. reserved = None
      BY <1>a, <2>1 DEF MemoryHolds
    <2>3. \A u \in Trials : StatusOnDisk(u) = None /\ StatusOnDisk(u)' = None
      BY <2>1, <2>2 DEF StatusOnDisk, NoReservations
    <2> QED BY <1>d, <2>1, <2>3 DEF BookStatus, BookResults, InLedger
  <1>4. CASE SaveReconciled(p)
    <2>1. /\ at[p] = "reconciled" /\ at'[p] = "clear" /\ reserved' = known[p] /\ UNCHANGED ledger
      BY <1>4, <1>b DEF SaveReconciled, Step
    <2>2. InLedger(t) /\ known[p] = With(reserved, t, "COMPLETED") /\ t \in Trials
      BY <1>a, <1>b, <2>1 DEF PointHolds
    <2> QED BY <1>b, <1>c, <1>d, <2>1, <2>2, BookOfWith
  <1>5. CASE CompleteReservation(p)
    <2>1. /\ at[p] = "complete" /\ at'[p] = "tidy" /\ UNCHANGED ledger
          /\ reserved' = With(known[p], t, "COMPLETED")
      BY <1>5, <1>b DEF CompleteReservation, Step, Remember
    <2>2. InLedger(t) /\ known[p] = reserved /\ t \in Trials
      BY <1>a, <2>1 DEF MemoryHolds, PointHolds
    <2> QED BY <1>b, <1>c, <1>d, <2>1, <2>2, BookOfWith
  <1>6. CASE SaveAborted(p)
    <2>1. at[p] = "aborting" /\ UNCHANGED ledger
      BY <1>6 DEF SaveAborted, Step
    <2>2. known[p] = reserved /\ reserved[t] \in Live /\ ~InLedger(t) /\ t \in Trials
      BY <1>a, <1>b, <2>1 DEF MemoryHolds, PointHolds
    <2>3. at'[p] = "clear" /\ reserved' = With(reserved, t, "ABORTED")
      BY <1>6, <1>b, <2>2 DEF SaveAborted, Step, Remember
    <2>4. /\ BookResults' = BookResults /\ BookStatus[t] \in Live
          /\ BookStatus' = [BookStatus EXCEPT ![t] = "ABORTED"]
      BY <1>b, <1>c, <2>1, <2>2, <2>3, BookOfWith
    <2>5. Book!Move(t)
      BY <2>4 DEF Book!Move, BookStatus, BookResults, Live
    <2> QED BY <2>2, <2>5 DEF Book!BNext
  <1>7. CASE ReserveTrial(p)
    <2>1. /\ at[p] = "reserve" /\ at'[p] = "ready" /\ UNCHANGED ledger
          /\ known[p][t] = None /\ WithinBudget(p, t) /\ reserved' = With(known[p], t, "RESERVED")
      BY <1>7, <1>b DEF ReserveTrial, Step, Remember
    <2>2. known[p] = reserved /\ reserved # None /\ t \in Trials
      BY <1>a, <1>c, <2>1 DEF MemoryHolds, PointHolds
    <2>3. ~InLedger(t)
      BY <1>a, <2>1, <2>2, StatusIsSome DEF FilesAgree
    <2>4. /\ BookResults' = BookResults /\ BookStatus[t] = None
          /\ BookStatus' = [BookStatus EXCEPT ![t] = "RESERVED"]
      BY <1>b, <1>c, <2>1, <2>2, <2>3, BookOfWith
    <2>5. Book!Known = Attempts(reserved)
      BY <2>2, BookKnows
    <2>6. /\ Book!Cardinality(Book!Known) < CycleBudget
          /\ Book!Cardinality({u \in Book!Known : FamilyOf[u] = FamilyOf[t]}) < FamilyBudget
      BY <2>1, <2>2, <2>5, BookCounts DEF WithinBudget, InFamily
    <2>7. Book!Reserve(t)
      BY <2>4, <2>6 DEF Book!Reserve, BookStatus, BookResults
    <2> QED BY <2>2, <2>7 DEF Book!BNext
  <1>8. CASE UpdateTrialStatus(p)
    <2>1. at[p] = "update" /\ at'[p] = "ready" /\ UNCHANGED ledger
      BY <1>8, <1>b DEF UpdateTrialStatus, Step
    <2>2. known[p] = reserved /\ reserved # None /\ t \in Mine[p] /\ t \in Trials
      BY <1>a, <1>c, <2>1 DEF MemoryHolds, PointHolds
    <2>3. PICK s \in Allowed(reserved[t]) : reserved' = With(reserved, t, s)
      BY <1>8, <1>b, <2>2 DEF UpdateTrialStatus, Remember
    <2>4. ~InLedger(t)
      <3>1. t \notin intents
        BY <2>1, <2>2, NoIntents
      <3>2. reserved[t] # "COMPLETED"
        BY <2>3 DEF Allowed
      <3> QED BY <1>a, <2>2, <3>1, <3>2 DEF FilesAgree
    <2>5. /\ BookResults' = BookResults /\ BookStatus[t] = reserved[t]
          /\ BookStatus' = [BookStatus EXCEPT ![t] = s]
      BY <1>b, <1>c, <2>1, <2>2, <2>3, <2>4, BookOfWith
    <2>6. Book!Move(t)
      BY <2>3, <2>5 DEF Book!Move, BookStatus, BookResults, Allowed
    <2> QED BY <2>2, <2>6 DEF Book!BNext
  <1>9. CASE CommitResult(p)
    <2>1. /\ at[p] = "commit" /\ ledger' = Append(entries[p], t) /\ UNCHANGED reserved
      BY <1>9, <1>b DEF CommitResult, Step
    <2>2. /\ reserved # None /\ reserved[t] = "RUNNING" /\ entries[p] = ledger
          /\ t \in Trials /\ ledger # None /\ ledger \in Seq(Trials)
      BY <1>a, <1>b, <1>c, <2>1 DEF MemoryHolds, PointHolds
    <2>3. ToSet(ledger') = ToSet(ledger) \cup {t} /\ ledger' # None
      <3>1. Append(ledger, t) \in Seq(Trials)
        BY <2>2
      <3> QED BY <2>1, <2>2, <3>1, ToSetOfSeq, NothingIsNo
    <2>4. \A u \in Trials : InLedger(u)' <=> InLedger(u) \/ u = t
      BY <2>2, <2>3 DEF InLedger
    <2>5. \A u \in Trials : StatusOnDisk(u)' = StatusOnDisk(u)
      BY <2>1 DEF StatusOnDisk
    <2>6. BookStatus' = [BookStatus EXCEPT ![t] = "COMPLETED"]
      BY <2>4, <2>5 DEF BookStatus
    <2>7. BookResults = ledger /\ BookResults' = Append(ledger, t)
      BY <2>1, <2>2, <2>3 DEF BookResults
    <2>8. ~InLedger(t)
      BY <1>a, <2>1 DEF PointHolds
    <2>9. BookStatus[t] = "RUNNING"
      BY <2>2, <2>8 DEF BookStatus, StatusOnDisk
    <2>10. Book!Record(t)
      BY <2>6, <2>7, <2>9 DEF Book!Record, BookStatus, BookResults
    <2> QED BY <2>2, <2>10 DEF Book!BNext
  <1>10. \/ UNCHANGED <<ledger, reserved>> \/ InitLedger(p) \/ InitReservations(p)
         \/ SaveReconciled(p) \/ CompleteReservation(p) \/ SaveAborted(p)
         \/ ReserveTrial(p) \/ UpdateTrialStatus(p) \/ CommitResult(p)
    BY DEF Acts, Start, Construct, LoadLedger, LoadReservations, Recover, AbortLost, Enter, ClearIntent,
           Constructed, Call, Answer, Refuse, WriteIntent, TidyIntent, HandOut, Advance, ConsumeHoldout,
           Fault, Crash, files
  <1> QED BY <1>1, <1>2, <1>3, <1>4, <1>5, <1>6, <1>7, <1>8, <1>9, <1>10

(* Under Orderly: the files and their recovery implement the book of       *)
(* indivisible calls: ImplementsTrialBook.                                 *)
THEOREM RunnerImplementsBook ==
    ASSUME Orderly
    PROVE  TrialSpec => ImplementsTrialBook
  <1>1. TrialInit => Book!BInit
    BY DEF TrialInit, Book!BInit, InLedger, StatusOnDisk
  <1>2. Sound /\ Sound' /\ TrialInv /\ TrialInv' /\ [TrialNext]_vars => [Book!BNext]_(Book!book)
    <2>1. ASSUME Sound, Sound', TrialInv, TrialInv', TrialNext PROVE [Book!BNext]_(Book!book)
      BY <2>1, BookSteps DEF TrialNext, Acts
    <2>2. UNCHANGED vars => UNCHANGED Book!book
      BY DEF vars, files, Book!book, InLedger, StatusOnDisk
    <2> QED BY <2>1, <2>2
  <1>3. TrialSpec => [](Sound /\ TrialInv)
    BY RecoveryInvariant
  <1> QED BY <1>1, <1>2, <1>3, PTL DEF TrialSpec, ImplementsTrialBook, Book!BookSpec
=============================================================================
