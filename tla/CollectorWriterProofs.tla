------------------------ MODULE CollectorWriterProofs ------------------------
(***************************************************************************)
(* What the collector has accepted is counted, queued or known to be lost; *)
(* its journals say what was counted; and its writer implements HourLog,   *)
(* for any queue, any clock that stays in the hours of the run, and any    *)
(* number of producers, failures and signals.                              *)
(***************************************************************************)
EXTENDS CollectorWriter, SequenceTheorems, FiniteSetTheorems, TLAPS

----------------------------------------------------------------------------
(* Sums.  The community module takes the elements of a set one by one, as  *)
(* CHOOSE gives them; what follows of its sums is shown by induction over  *)
(* the subsets, in the form of a smallest counterexample.                  *)

Chosen(T) == CHOOSE x \in T : TRUE
Rest(T) == T \ {Chosen(T)}

LEMMA SubsetInduction ==
    ASSUME NEW S, IsFiniteSet(S), NEW Good, {} \in Good,
           \A T \in SUBSET S : T # {} /\ Rest(T) \in Good => T \in Good
    PROVE  \A T \in SUBSET S : T \in Good
<1> DEFINE Bad == {T \in SUBSET S : T \notin Good}
<1>1. IsWellFoundedOn(StrictSubsetOrdering(S), SUBSET S)
  BY FS_FiniteSubsetsOfFinite, FS_StrictSubsetOrderingWellFounded
<1>2. SUFFICES ASSUME Bad # {} PROVE FALSE
  OBVIOUS
<1>3. Bad \subseteq SUBSET S
  OBVIOUS
<1>4. PICK T \in Bad : \A U \in Bad : ~(<<U, T>> \in StrictSubsetOrdering(S))
  <2> HIDE DEF Bad
  <2> QED
    BY <1>1, <1>2, <1>3, WFMin
<1>5. T # {} /\ Chosen(T) \in T
  BY <1>4 DEF Chosen
<1>6. Rest(T) \in SUBSET S /\ Rest(T) \notin Bad
  <2>1. Rest(T) \in SUBSET S /\ T \in SUBSET S /\ Rest(T) \subseteq T /\ Rest(T) # T
    BY <1>4, <1>5 DEF Rest
  <2>2. <<Rest(T), T>> \in StrictSubsetOrdering(S)
    BY <2>1 DEF StrictSubsetOrdering
  <2> HIDE DEF Bad
  <2> QED
    BY <1>4, <2>1, <2>2
<1> QED
  BY <1>4, <1>5, <1>6

SumStep(f, sum, T) == IF T = {} THEN 0 ELSE f[Chosen(T)] + sum[Rest(T)]

SumsOf(f, S, sum) == sum = [T \in SUBSET S |-> SumStep(f, sum, T)]

(* The recursive definition has a solution: up to any size of subset.      *)
LEMMA SumsExist ==
    ASSUME NEW f, NEW S, IsFiniteSet(S)
    PROVE  \E sum : SumsOf(f, S, sum)
<1> DEFINE Upto(sum, n) == \A T \in SUBSET S : Cardinality(T) <= n => sum[T] = SumStep(f, sum, T)
           Good == {U \in SUBSET S : \E sum : Upto(sum, Cardinality(U))}
<1>1. \A T \in SUBSET S : Cardinality(T) \in Nat /\ Cardinality(T) <= Cardinality(S) /\ IsFiniteSet(T)
  BY FS_Subset, FS_CardinalityType
<1>2. \A T \in SUBSET S : T # {} => /\ Rest(T) \in SUBSET S /\ Cardinality(T) # 0
                                    /\ Cardinality(Rest(T)) = Cardinality(T) - 1
  <2> TAKE T \in SUBSET S
  <2> HAVE T # {}
  <2>1. Chosen(T) \in T
    BY DEF Chosen
  <2> QED
    BY <1>1, <2>1, FS_RemoveElement, FS_EmptySet DEF Rest
<1>3. {} \in Good
  <2>1. Upto([T \in SUBSET S |-> 0], Cardinality({}))
    <3> SUFFICES ASSUME NEW T \in SUBSET S, Cardinality(T) <= Cardinality({})
                 PROVE  T = {}
      BY DEF SumStep
    <3> QED
      BY <1>1, FS_EmptySet
  <2> QED
    BY <2>1
<1>4. ASSUME NEW U \in SUBSET S, U # {}, Rest(U) \in Good
      PROVE  U \in Good
  <2> DEFINE n == Cardinality(U)
  <2>1. PICK sum : Upto(sum, n - 1)
    BY <1>2, <1>4
  <2> DEFINE next == [T \in SUBSET S |-> SumStep(f, sum, T)]
  <2>2. ASSUME NEW T \in SUBSET S, Cardinality(T) <= n
        PROVE  next[T] = SumStep(f, next, T)
    <3>1. CASE T = {}
      BY <3>1 DEF SumStep
    <3>2. CASE T # {}
      <4>1. Rest(T) \in SUBSET S /\ Cardinality(Rest(T)) <= n - 1
        BY <1>1, <1>2, <2>2, <3>2
      <4>2. next[Rest(T)] = sum[Rest(T)]
        BY <2>1, <4>1
      <4> QED
        BY <3>2, <4>2 DEF SumStep
    <3> QED
      BY <3>1, <3>2
  <2>3. Upto(next, n)
    BY <2>2
  <2> QED
    BY <2>3
<1>5. S \in Good
  <2> HIDE DEF Good
  <2> QED
    BY <1>3, <1>4, SubsetInduction
<1>6. PICK sum : Upto(sum, Cardinality(S))
  BY <1>5
<1> DEFINE next == [T \in SUBSET S |-> SumStep(f, sum, T)]
<1>7. \A T \in SUBSET S : sum[T] = SumStep(f, sum, T)
  BY <1>1, <1>6
<1>8. \A T \in SUBSET S : T # {} => next[Rest(T)] = sum[Rest(T)]
  BY <1>2, <1>7
<1>9. \A T \in SUBSET S : SumStep(f, next, T) = SumStep(f, sum, T)
  <2> HIDE DEF next
  <2> QED
    BY <1>8 DEF SumStep
<1>10. SumsOf(f, S, next)
  BY <1>9 DEF SumsOf
<1> QED
  BY <1>10

LEMMA SumIs ==
    ASSUME NEW f, IsFiniteSet(DOMAIN f)
    PROVE  \E sum : SumsOf(f, DOMAIN f, sum) /\ SumFunction(f) = sum[DOMAIN f]
<1>1. \E sum : SumsOf(f, DOMAIN f, sum)
  BY SumsExist
<1>2. \E sum : SumsOf(f, DOMAIN f, sum) /\ SumFunctionOnSet(f, DOMAIN f) = sum[DOMAIN f]
  BY <1>1 DEF SumsOf, SumStep, Chosen, Rest, SumFunctionOnSet, FoldFunctionOnSet, MapThenFoldSet
<1> QED
  BY <1>2 DEF SumFunction

LEMMA SumIsNat ==
    ASSUME NEW S, IsFiniteSet(S), NEW f \in [S -> Nat]
    PROVE  SumFunction(f) \in Nat
<1>1. PICK sum : SumsOf(f, S, sum) /\ SumFunction(f) = sum[S]
  BY SumIs
<1> DEFINE Good == {T \in SUBSET S : sum[T] \in Nat}
<1>2. {} \in Good
  BY <1>1 DEF SumsOf, SumStep
<1>3. ASSUME NEW T \in SUBSET S, T # {}, Rest(T) \in Good
      PROVE  T \in Good
  <2>1. Chosen(T) \in S
    BY <1>3 DEF Chosen
  <2> QED
    BY <1>1, <1>3, <2>1 DEF SumsOf, SumStep
<1>4. S \in Good
  <2> HIDE DEF Good
  <2> QED
    BY <1>2, <1>3, SubsetInduction
<1> QED
  BY <1>1, <1>4

LEMMA SumOfZeros ==
    ASSUME NEW S, IsFiniteSet(S)
    PROVE  SumFunction([x \in S |-> 0]) = 0
<1> DEFINE f == [x \in S |-> 0]
<1>1. PICK sum : SumsOf(f, S, sum) /\ SumFunction(f) = sum[S]
  <2>1. DOMAIN f = S
    OBVIOUS
  <2> HIDE DEF f
  <2> QED
    BY <2>1, SumIs
<1> DEFINE Good == {T \in SUBSET S : sum[T] = 0}
<1>2. {} \in Good
  BY <1>1 DEF SumsOf, SumStep
<1>3. ASSUME NEW T \in SUBSET S, T # {}, Rest(T) \in Good
      PROVE  T \in Good
  <2>1. f[Chosen(T)] = 0
    BY <1>3 DEF Chosen
  <2> HIDE DEF f
  <2> QED
    BY <1>1, <1>3, <2>1 DEF SumsOf, SumStep
<1>4. S \in Good
  <2> HIDE DEF Good
  <2> QED
    BY <1>2, <1>3, SubsetInduction
<1> QED
  BY <1>1, <1>4

(* One more in one place is one more in the sum.                           *)
LEMMA SumGrows ==
    ASSUME NEW S, IsFiniteSet(S), NEW f \in [S -> Nat], NEW g \in [S -> Nat],
           NEW c \in S, g = [f EXCEPT ![c] = @ + 1]
    PROVE  SumFunction(g) = SumFunction(f) + 1
<1>1. PICK sum : SumsOf(f, S, sum) /\ SumFunction(f) = sum[S]
  BY SumIs
<1>2. PICK more : SumsOf(g, S, more) /\ SumFunction(g) = more[S]
  BY SumIs
<1> DEFINE Good == {T \in SUBSET S : /\ sum[T] \in Nat
                                     /\ more[T] = sum[T] + (IF c \in T THEN 1 ELSE 0)}
<1>3. {} \in Good
  BY <1>1, <1>2 DEF SumsOf, SumStep
<1>4. ASSUME NEW T \in SUBSET S, T # {}, Rest(T) \in Good
      PROVE  T \in Good
  <2>1. Chosen(T) \in T
    BY <1>4 DEF Chosen
  <2>2. /\ sum[T] = f[Chosen(T)] + sum[Rest(T)]
        /\ more[T] = g[Chosen(T)] + more[Rest(T)]
    BY <1>1, <1>2, <1>4 DEF SumsOf, SumStep
  <2>3. /\ sum[Rest(T)] \in Nat
        /\ more[Rest(T)] = sum[Rest(T)] + (IF c \in Rest(T) THEN 1 ELSE 0)
    BY <1>4
  <2>4. CASE c = Chosen(T)
    <3>1. c \in T /\ c \notin Rest(T)
      BY <2>1, <2>4 DEF Rest
    <3>2. g[c] = f[c] + 1 /\ f[c] \in Nat
      OBVIOUS
    <3> QED
      BY <2>2, <2>3, <2>4, <3>1, <3>2
  <2>5. CASE c # Chosen(T)
    <3>1. c \in T <=> c \in Rest(T)
      BY <2>1, <2>5 DEF Rest
    <3>2. g[Chosen(T)] = f[Chosen(T)] /\ f[Chosen(T)] \in Nat
      BY <2>1, <2>5
    <3> QED
      BY <2>2, <2>3, <3>1, <3>2
  <2> QED
    BY <2>4, <2>5
<1>5. S \in Good
  <2> HIDE DEF Good
  <2> QED
    BY <1>3, <1>4, SubsetInduction
<1> QED
  BY <1>1, <1>2, <1>5

Logs == [Hours -> [Producers -> Nat]]

LEMMA HoursAreFinite == Hours \subseteq Nat /\ IsFiniteSet(Hours)
<1>1. LastHour \in Int /\ 0 \in Int
  BY CollectorAssumption
<1> QED
  BY <1>1, CollectorAssumption, FS_Interval DEF Hours

LEMMA TotalIsNat ==
    ASSUME NEW log \in Logs
    PROVE  Total(log) \in Nat
<1> DEFINE t == [h \in Hours |-> SumFunction(log[h])]
<1>1. t \in [Hours -> Nat]
  BY SumIsNat, CollectorAssumption DEF Logs
<1> HIDE DEF t
<1>2. SumFunction(t) \in Nat
  BY <1>1, SumIsNat, HoursAreFinite
<1> QED
  BY <1>2 DEF Total, t

LEMMA NothingInTotal == Total(Zero) = 0
<1>1. SumFunction([p \in Producers |-> 0]) = 0
  BY SumOfZeros, CollectorAssumption
<1>2. [h \in Hours |-> SumFunction(Zero[h])] = [h \in Hours |-> 0]
  BY <1>1 DEF Zero
<1> QED
  BY <1>2, SumOfZeros, HoursAreFinite DEF Total

(* A record more is one more in the total.                                 *)
LEMMA TotalGrows ==
    ASSUME NEW log \in Logs, NEW h \in Hours, NEW p \in Producers
    PROVE  Plus(log, h, p) \in Logs /\ Total(Plus(log, h, p)) = Total(log) + 1
<1> DEFINE more == Plus(log, h, p)
           s == [x \in Hours |-> SumFunction(log[x])]
           t == [x \in Hours |-> SumFunction(more[x])]
<1>1. /\ more \in Logs
      /\ more[h] = [log[h] EXCEPT ![p] = @ + 1]
      /\ \A x \in Hours : x # h => more[x] = log[x]
  BY DEF Plus, Logs
<1> HIDE DEF more
<1>2. /\ \A x \in Hours : SumFunction(log[x]) \in Nat /\ SumFunction(more[x]) \in Nat
  BY <1>1, SumIsNat, CollectorAssumption DEF Logs
<1>3. SumFunction(more[h]) = SumFunction(log[h]) + 1
  <2>1. log[h] \in [Producers -> Nat] /\ more[h] \in [Producers -> Nat]
    BY <1>1 DEF Logs
  <2> QED
    BY <1>1, <2>1, SumGrows, CollectorAssumption
<1>4. s \in [Hours -> Nat] /\ t \in [Hours -> Nat] /\ t = [s EXCEPT ![h] = @ + 1]
  BY <1>1, <1>2, <1>3
<1> HIDE DEF s, t
<1>5. SumFunction(t) = SumFunction(s) + 1
  BY <1>4, SumGrows, HoursAreFinite
<1> QED
  BY <1>1, <1>5 DEF Total, s, t, more

----------------------------------------------------------------------------
(* The invariant.                                                          *)

TrackerTypeOK ==
    /\ now \in Times
    /\ cohort = None \/ cohort \in Hours
    /\ last = None \/ last \in Times
    /\ frozen \subseteq Hours /\ unsaved \subseteq Hours
    /\ counted \in Logs /\ raw \in Logs
    /\ registered \subseteq Hours \X Producers
    /\ journal = [h \in Hours |-> journal[h]]
    /\ \A h \in Hours : journal[h] = None \/ journal[h] \in [Producers -> Nat]

TasksTypeOK ==
    /\ held \subseteq Producers
    /\ queue \in Seq(Producers) /\ Len(queue) <= QueueMax
    /\ running \in BOOLEAN /\ fatal \in BOOLEAN /\ writer \in BOOLEAN
    /\ interrupted \in BOOLEAN /\ complete \in BOOLEAN
    /\ main \in Places
    /\ result = None \/ result \in {"PASS", "FAIL"}
    /\ unpersisted \in Nat /\ accepted \in Nat
    /\ events \in 0..MaxEvents /\ faults \in 0..MaxFaults
    /\ setbacks \in 0..MaxSetbacks /\ signals \in 0..MaxSignals

(* Nothing accepted is lost, and who ends in order ends with an empty queue. *)
Conserved == accepted = Total(counted) + Len(queue) + unpersisted

Drained == main \in {"closing", "done", "flushed"} /\ ~interrupted => queue = <<>>

(* The writer does not outlive an error or the shutdown.                   *)
WriterIsGone == fatal \/ main \in {"done", "flushed", "killed"} => ~writer

(* An hour is frozen exactly when it has been closed, or should have been; *)
(* and what its journal says are the counts, which it keeps.               *)
FilesAgree ==
    /\ Journalled \subseteq frozen /\ frozen \subseteq Journalled \cup unsaved
    /\ \A h \in Journalled : journal[h] = counted[h]

EndIsFrozen == main = "flushed" => Active \subseteq frozen

(* A loss is a fatal error, and a fatal error is no PASS.                  *)
LossIsFatal == ~fatal => unpersisted = 0 /\ raw = counted

VerdictIsEarned ==
    /\ complete => main = "flushed" /\ ~fatal /\ ~interrupted
    /\ result = "PASS" => complete

CollectorInv ==
    /\ TrackerTypeOK /\ TasksTypeOK
    /\ Conserved /\ Drained /\ WriterIsGone /\ FilesAgree /\ EndIsFrozen
    /\ LossIsFatal /\ VerdictIsEarned

LEMMA InvAtStart == CollectorInit => CollectorInv
<1> SUFFICES ASSUME CollectorInit PROVE CollectorInv
  OBVIOUS
<1> USE CollectorAssumption DEF CollectorInit
<1>1. /\ Zero \in Logs /\ now \in Times
  BY DEF Zero, Logs, Times, OpeningHour
<1>2. TrackerTypeOK
  BY <1>1 DEF TrackerTypeOK
<1>3. TasksTypeOK
  <2>1. queue \in Seq(Producers) /\ Len(queue) <= QueueMax
    BY EmptySeq
  <2>2. 0 \in 0..MaxEvents /\ 0 \in 0..MaxFaults /\ 0 \in 0..MaxSetbacks /\ 0 \in 0..MaxSignals
    OBVIOUS
  <2> QED
    BY <2>1, <2>2 DEF TasksTypeOK, Places
<1>4. Conserved
  BY NothingInTotal, EmptySeq DEF Conserved
<1>5. Drained /\ WriterIsGone /\ EndIsFrozen /\ LossIsFatal /\ VerdictIsEarned
  BY DEF Drained, WriterIsGone, EndIsFrozen, LossIsFatal, VerdictIsEarned
<1>6. FilesAgree
  BY DEF FilesAgree, Journalled
<1> QED
  BY <1>2, <1>3, <1>4, <1>5, <1>6 DEF CollectorInv

(* The fence of a write closes an hour of the run.                         *)
LEMMA HourOfWrite ==
    ASSUME now \in Times
    PROVE  /\ HourOf(now) \in Hours /\ HourOf(now) - 1 \in Hours
           /\ Fence(HourOf(now)) \subseteq Hours \ frozen
<1>1. HourOf(now) \in Hours /\ HourOf(now) - 1 \in Hours
  BY CollectorAssumption DEF Times, OpeningHour, HourOf, Hours
<1> QED
  BY <1>1 DEF Fence

(* The hours of F are frozen and those of C closed: a step of the log.     *)
LEMMA ClosingHours ==
    ASSUME TrackerTypeOK, FilesAgree,
           NEW F \in SUBSET (Hours \ frozen), NEW C \in SUBSET F,
           frozen' = frozen \cup F, journal' = Saved(C), unsaved' = unsaved \cup (F \ C),
           \A h \in frozen' : counted'[h] = counted[h]
    PROVE  /\ FilesAgree' /\ Log!CloseHours(C)
           /\ frozen' \subseteq Hours /\ unsaved' \subseteq Hours
           /\ journal' = [h \in Hours |-> journal'[h]]
           /\ \A h \in Hours : journal'[h] = None \/ journal'[h] \in [Producers -> Nat]
           /\ \A h \in Hours \ C : journal'[h] = journal[h]
<1>1. \A h \in Hours : journal'[h] = IF h \in C THEN counted[h] ELSE journal[h]
  BY DEF Saved
<1>2. \A h \in Hours : counted[h] \in [Producers -> Nat] /\ counted[h] # None
  BY CollectorAssumption DEF TrackerTypeOK, Logs
<1>3. Journalled' = Journalled \cup C
  BY <1>1, <1>2 DEF Journalled
<1>4. FilesAgree'
  BY <1>1, <1>3 DEF FilesAgree, Journalled
<1>5. \A h \in C : journal[h] = None
  BY DEF FilesAgree, Journalled
<1>6. Log!CloseHours(C)
  BY <1>5 DEF Log!CloseHours, Saved
<1>7. frozen' \subseteq Hours /\ unsaved' \subseteq Hours /\ journal' = [h \in Hours |-> journal'[h]]
  BY DEF TrackerTypeOK, Saved
<1> QED
  BY <1>1, <1>2, <1>4, <1>6, <1>7 DEF TrackerTypeOK

LEMMA NothingCloses ==
    ASSUME TrackerTypeOK, FilesAgree, UNCHANGED <<frozen, journal, unsaved, counted>>
    PROVE  FilesAgree'
BY DEF FilesAgree, Journalled

LogStep == [Log!HourLogNext]_Log!hourLogVars

LEMMA LogStutters ==
    ASSUME UNCHANGED <<raw, counted, journal>>
    PROVE  LogStep
BY DEF LogStep, Log!hourLogVars

LEMMA LogCloses ==
    ASSUME NEW C \in SUBSET Hours, Log!CloseHours(C), UNCHANGED <<raw, counted>>
    PROVE  LogStep
BY DEF LogStep, Log!HourLogNext

(* Clock, tasks and verdict: nothing is queued, counted or written.        *)
LEMMA TaskSteps ==
    ASSUME CollectorInv,
           \/ Tick \/ SetBack \/ WriterExits \/ TimeIsUp \/ Drain \/ Joined
           \/ Interrupt \/ Terminate \/ Judge \/ UNCHANGED vars
    PROVE  CollectorInv' /\ LogStep
<1> USE DEF CollectorInv
<1>1. UNCHANGED <<tracker, files, unpersisted, queue, accepted, fatal, complete>>
  BY DEF Tick, SetBack, WriterExits, TimeIsUp, Stop, Drain, Joined, MainStep, Interrupt,
         Signal, Terminate, Judge, vars, traffic, tasks, verdict
<1>2. LogStep
  BY <1>1, LogStutters DEF tracker, files
<1>3. FilesAgree'
  BY <1>1, NothingCloses DEF tracker, files
<1>4. TrackerTypeOK'
  <2>1. now' \in Times
    BY DEF TrackerTypeOK, Tick, SetBack, WriterExits, TimeIsUp, Stop, Drain, Joined, MainStep,
           Interrupt, Terminate, Judge, vars
  <2> QED
    BY <1>1, <2>1 DEF TrackerTypeOK, tracker, files
<1>5. Conserved' /\ LossIsFatal'
  BY <1>1 DEF Conserved, LossIsFatal, tracker, files
<1>6. /\ main' \in Places
      /\ main' = "flushed" => main = "flushed"
      /\ main' \in {"closing", "done", "flushed"} /\ ~interrupted'
            => queue = <<>>
      /\ fatal \/ main' \in {"done", "flushed", "killed"} => ~writer'
      /\ complete => main' = "flushed" /\ ~interrupted'
      /\ result' = "PASS" => complete
  <2> USE DEF Drained, WriterIsGone, VerdictIsEarned, TasksTypeOK
  <2>1. CASE Tick \/ SetBack \/ WriterExits \/ UNCHANGED vars
    BY <2>1 DEF Tick, SetBack, WriterExits, vars, traffic, tasks, verdict
  <2>2. CASE TimeIsUp \/ Drain \/ Joined
    BY <2>2 DEF TimeIsUp, Stop, Drain, Joined, MainStep, Places, verdict
  <2>3. CASE Interrupt
    BY <2>3 DEF Interrupt, Stop, MainStep, Places, verdict
  <2>4. CASE Terminate
    BY <2>4 DEF Terminate, Alive, Places, verdict
  <2>5. CASE Judge
    BY <2>5 DEF Judge, Alive, tasks
  <2> QED
    BY <2>1, <2>2, <2>3, <2>4, <2>5
<1>7. TasksTypeOK'
  <2>1. /\ setbacks' \in 0..MaxSetbacks /\ signals' \in 0..MaxSignals
        /\ UNCHANGED <<events, faults>>
    <3> USE CollectorAssumption DEF TasksTypeOK
    <3>1. CASE Tick \/ WriterExits \/ UNCHANGED vars \/ Judge
      BY <3>1 DEF Tick, WriterExits, Judge, vars, traffic, bounds
    <3>2. CASE SetBack
      BY <3>2 DEF SetBack, traffic
    <3>3. CASE TimeIsUp \/ Drain \/ Joined
      BY <3>3 DEF TimeIsUp, Stop, Drain, Joined, MainStep
    <3>4. CASE Interrupt
      BY <3>4 DEF Interrupt, Signal, Stop, MainStep
    <3>5. CASE Terminate
      BY <3>5 DEF Terminate, Signal, traffic
    <3> QED
      BY <3>1, <3>2, <3>3, <3>4, <3>5
  <2>2. /\ held' \subseteq Producers
        /\ running' \in BOOLEAN /\ writer' \in BOOLEAN /\ interrupted' \in BOOLEAN
        /\ result' = None \/ result' \in {"PASS", "FAIL"}
    <3> USE DEF TasksTypeOK
    <3>1. CASE Tick \/ SetBack \/ WriterExits \/ UNCHANGED vars
      BY <3>1 DEF Tick, SetBack, WriterExits, vars, traffic, tasks, verdict
    <3>2. CASE TimeIsUp \/ Drain \/ Joined
      BY <3>2 DEF TimeIsUp, Stop, Drain, Joined, MainStep, verdict
    <3>3. CASE Interrupt
      BY <3>3 DEF Interrupt, Stop, MainStep, verdict
    <3>4. CASE Terminate
      BY <3>4 DEF Terminate, traffic, verdict
    <3>5. CASE Judge
      BY <3>5 DEF Judge, tasks, traffic
    <3> QED
      BY <3>1, <3>2, <3>3, <3>4, <3>5
  <2> QED
    BY <1>1, <1>6, <2>1, <2>2 DEF TasksTypeOK
<1>8. Drained' /\ WriterIsGone' /\ VerdictIsEarned' /\ EndIsFrozen'
  BY <1>1, <1>6 DEF Drained, WriterIsGone, VerdictIsEarned, EndIsFrozen, Active, tracker
<1> QED
  BY <1>2, <1>3, <1>4, <1>5, <1>7, <1>8

(* A producer puts an event into the queue, or waits with it.              *)
LEMMA ProducerSteps ==
    ASSUME CollectorInv, NEW p \in Producers, Receive(p) \/ Put(p)
    PROVE  CollectorInv' /\ LogStep
<1> USE DEF CollectorInv
<1>1. /\ UNCHANGED <<now, tasks, tracker, files, unpersisted, verdict, bounds>> /\ main = "wait"
      /\ held' \subseteq Producers
      /\ events' \in 0..MaxEvents
      /\ \/ ~Full /\ Enqueue(p)
         \/ UNCHANGED <<queue, accepted>>
  BY CollectorAssumption DEF Receive, Put, TasksTypeOK
<1>2. LogStep
  BY <1>1, LogStutters DEF tracker, files
<1>3. FilesAgree'
  BY <1>1, NothingCloses DEF tracker, files
<1>4. /\ queue' \in Seq(Producers) /\ Len(queue') <= QueueMax /\ accepted' \in Nat
      /\ accepted' - Len(queue') = accepted - Len(queue)
  <2>1. Len(queue) \in Nat /\ QueueMax \in Nat
    BY LenProperties, CollectorAssumption DEF TasksTypeOK
  <2>2. CASE ~Full /\ Enqueue(p)
    BY <2>1, <2>2, AppendProperties DEF Full, Enqueue, TasksTypeOK
  <2> QED
    BY <1>1, <2>1, <2>2 DEF TasksTypeOK
<1>5. TrackerTypeOK' /\ TasksTypeOK'
  BY <1>1, <1>4 DEF TrackerTypeOK, TasksTypeOK, tracker, files, tasks, verdict, bounds
<1>6. Conserved'
  <2>1. Len(queue) \in Nat /\ Len(queue') \in Nat /\ Total(counted) \in Nat
    BY <1>4, LenProperties, TotalIsNat DEF TasksTypeOK, TrackerTypeOK
  <2>2. Total(counted') = Total(counted)
    BY <1>1 DEF tracker
  <2> QED
    <3>1. accepted = Total(counted) + Len(queue) + unpersisted
      BY DEF Conserved
    <3>2. accepted \in Nat /\ unpersisted \in Nat /\ unpersisted' = unpersisted
      BY <1>1 DEF TasksTypeOK
    <3>3. accepted' = Total(counted) + Len(queue') + unpersisted
      BY <1>4, <2>1, <3>1, <3>2
    <3> QED
      BY <2>2, <3>2, <3>3 DEF Conserved
<1>7. Drained' /\ WriterIsGone' /\ EndIsFrozen' /\ LossIsFatal' /\ VerdictIsEarned'
  BY <1>1 DEF Drained, WriterIsGone, EndIsFrozen, LossIsFatal, VerdictIsEarned, tasks, verdict, files, tracker
<1> QED
  BY <1>2, <1>3, <1>5, <1>6, <1>7

(* What the writer has in its hands, and what nobody else touches.         *)
LEMMA Dequeued ==
    ASSUME CollectorInv, Dequeue
    PROVE  /\ Taken \in Producers /\ ~fatal /\ unpersisted = 0 /\ raw = counted
           /\ main \in Places \ {"done", "flushed", "killed"}
           /\ queue' \in Seq(Producers) /\ Len(queue') <= QueueMax
           /\ Len(queue') \in Nat /\ Len(queue) = Len(queue') + 1
           /\ queue # <<>> /\ HourOf(now) \in Hours
           /\ UNCHANGED <<now, held, accepted, events, main, interrupted, complete, result, setbacks, signals>>
<1> USE DEF CollectorInv, Dequeue
<1>1. /\ queue # <<>> /\ ~fatal /\ main \in Places \ {"done", "flushed", "killed"}
      /\ unpersisted = 0 /\ raw = counted
  BY DEF WriterIsGone, LossIsFatal, TasksTypeOK
<1>2. /\ Taken \in Producers /\ queue' \in Seq(Producers)
      /\ Len(queue') = Len(queue) - 1 /\ Len(queue) \in Nat /\ Len(queue') \in Nat
  BY <1>1, HeadTailProperties, LenProperties DEF Taken, TasksTypeOK
<1>3. HourOf(now) \in Hours
  BY HourOfWrite DEF TrackerTypeOK
<1>4. Len(queue') <= QueueMax /\ Len(queue) = Len(queue') + 1
  BY <1>2, CollectorAssumption DEF TasksTypeOK
<1> QED
  BY <1>1, <1>2, <1>3, <1>4 DEF verdict

(* The record is appended to an hour that is open, and counted, unless the *)
(* tracker refuses its time.                                               *)
LEMMA WriteItemStep ==
    ASSUME CollectorInv, WriteItem
    PROVE  CollectorInv' /\ LogStep
<1> DEFINE h == HourOf(now)
           Stored == /\ Accepts(h) /\ counted' = Plus(counted, h, Taken) /\ last' = now
                     /\ UNCHANGED <<running, fatal, writer, unpersisted>>
           Refused == FailClosed /\ UNCHANGED <<counted, last>>
<1> USE DEF CollectorInv
<1>1. /\ Dequeue /\ CloseFence(h) /\ cohort' = h
      /\ registered' = registered \cup {<<h, Taken>>}
      /\ raw' = Plus(raw, h, Taken)
      /\ Stored \/ Refused
      /\ UNCHANGED <<unsaved, faults>>
  BY DEF WriteItem
<1>2. /\ Taken \in Producers /\ ~fatal /\ unpersisted = 0 /\ raw = counted
      /\ main \in Places \ {"done", "flushed", "killed"}
      /\ queue' \in Seq(Producers) /\ Len(queue') <= QueueMax
      /\ Len(queue') \in Nat /\ Len(queue) = Len(queue') + 1
      /\ queue # <<>> /\ h \in Hours
      /\ UNCHANGED <<now, held, accepted, events, main, interrupted, complete, result, setbacks, signals>>
  BY <1>1, Dequeued
<1> HIDE DEF h
<1>3. Fence(h) \in SUBSET (Hours \ frozen)
  BY HourOfWrite DEF h, TrackerTypeOK
<1>4. Plus(counted, h, Taken) \in Logs /\ Total(Plus(counted, h, Taken)) = Total(counted) + 1
      /\ Plus(counted, h, Taken) # counted
      /\ \A x \in Hours \ {h} : Plus(counted, h, Taken)[x] = counted[x]
  <2>1. counted \in Logs
    BY DEF TrackerTypeOK
  <2>2. Plus(counted, h, Taken)[h][Taken] = counted[h][Taken] + 1 /\ counted[h][Taken] \in Nat
    BY <1>2, <2>1 DEF Plus, Logs
  <2>3. Plus(counted, h, Taken) \in Logs /\ Total(Plus(counted, h, Taken)) = Total(counted) + 1
    BY <1>2, <2>1, TotalGrows
  <2>4. Plus(counted, h, Taken) # counted
    BY <2>2
  <2>5. \A x \in Hours \ {h} : Plus(counted, h, Taken)[x] = counted[x]
    BY <2>1 DEF Plus, Logs
  <2> QED
    BY <2>3, <2>4, <2>5
<1>5. \A x \in frozen' : counted'[x] = counted[x]
  BY <1>1, <1>3, <1>4 DEF CloseFence, Accepts, TrackerTypeOK
<1>6. /\ FilesAgree' /\ Log!CloseHours(Fence(h))
      /\ frozen' \subseteq Hours
      /\ journal' = [x \in Hours |-> journal'[x]]
      /\ \A x \in Hours : journal'[x] = None \/ journal'[x] \in [Producers -> Nat]
      /\ \A x \in Hours \ Fence(h) : journal'[x] = journal[x]
  <2>1. frozen' = frozen \cup Fence(h) /\ journal' = Saved(Fence(h))
        /\ unsaved' = unsaved \cup (Fence(h) \ Fence(h))
    BY <1>1 DEF CloseFence
  <2> QED
    BY <1>3, <1>5, <2>1, ClosingHours
<1>7. TrackerTypeOK'
  BY <1>1, <1>2, <1>4, <1>6 DEF TrackerTypeOK
<1>8. TasksTypeOK'
  <2>1. /\ running' \in BOOLEAN /\ fatal' \in BOOLEAN /\ writer' \in BOOLEAN
        /\ unpersisted' \in Nat
    <3>1. CASE Stored
      BY <3>1 DEF TasksTypeOK
    <3>2. CASE Refused
      <4>1. unpersisted' \in Nat
        BY <3>2 DEF FailClosed, TasksTypeOK
      <4>2. fatal' \in BOOLEAN /\ running' \in BOOLEAN /\ writer' \in BOOLEAN
        BY <3>2, Zenon DEF FailClosed
      <4> QED
        BY <4>1, <4>2
    <3> QED
      BY <1>1, <3>1, <3>2
  <2> QED
    BY <1>1, <1>2, <2>1 DEF TasksTypeOK
<1>9. Conserved'
  <2>1. accepted = Total(counted) + Len(queue) + unpersisted /\ Total(counted) \in Nat
    BY TotalIsNat DEF Conserved, TrackerTypeOK
  <2>2. \/ Total(counted') = Total(counted) + 1 /\ unpersisted' = unpersisted
        \/ Total(counted') = Total(counted) /\ unpersisted' = unpersisted + 1
    BY <1>1, <1>4 DEF FailClosed
  <2>3. accepted' = Total(counted') + Len(queue') + unpersisted'
    BY <1>2, <2>1, <2>2
  <2> QED
    BY <2>3 DEF Conserved
<1>10. Drained' /\ EndIsFrozen' /\ VerdictIsEarned'
  <2>1. main \in {"closing", "done", "flushed"} /\ ~interrupted => queue' = <<>>
    BY <1>2 DEF Drained
  <2> QED
    BY <1>2, <2>1 DEF Drained, EndIsFrozen, VerdictIsEarned
<1>11. WriterIsGone' /\ LossIsFatal'
  BY <1>1, <1>2 DEF WriterIsGone, LossIsFatal, FailClosed
<1>12. LogStep
  <2>1. CASE Stored
    <3>1. journal'[h] = None
      BY <1>1, <1>2, <1>6, <2>1 DEF Accepts, FilesAgree, Journalled
    <3>2. Log!Append(h, Taken)
      BY <1>1, <1>2, <2>1, <3>1 DEF Log!Append, Log!Plus, Plus
    <3> QED
      BY <1>2, <1>3, <1>6, <3>2 DEF LogStep, Log!HourLogNext
  <2>2. CASE Refused
    <3>1. Log!Refuse(h, Taken)
      BY <1>1, <1>2, <1>4, <2>2 DEF Log!Refuse, Log!Plus, Plus
    <3> QED
      BY <1>2, <1>3, <1>6, <3>1 DEF LogStep, Log!HourLogNext
  <2> QED
    BY <1>1, <2>1, <2>2
<1> QED
  BY <1>6, <1>7, <1>8, <1>9, <1>10, <1>11, <1>12

(* The step fails at one of its file operations: the event is lost and     *)
(* counted, the writer is gone, and the hour before is closed or marked.   *)
LEMMA WriteFailsStep ==
    ASSUME CollectorInv, WriteFails
    PROVE  CollectorInv' /\ LogStep
<1> DEFINE h == HourOf(now)
<1> USE DEF CollectorInv
<1>1. /\ Dequeue /\ FailClosed
      /\ faults' \in 0..MaxFaults
      /\ JournalFails(h) \/ FinalizeFails(h) \/ RegisterFails(h) \/ AppendFails(h)
      /\ UNCHANGED <<counted, last, raw>>
  BY CollectorAssumption DEF WriteFails, TasksTypeOK
<1>2. /\ Taken \in Producers /\ ~fatal /\ unpersisted = 0 /\ raw = counted
      /\ main \in Places \ {"done", "flushed", "killed"}
      /\ queue' \in Seq(Producers) /\ Len(queue') <= QueueMax
      /\ Len(queue') \in Nat /\ Len(queue) = Len(queue') + 1
      /\ queue # <<>> /\ h \in Hours
      /\ UNCHANGED <<now, held, accepted, events, main, interrupted, complete, result, setbacks, signals>>
  BY <1>1, Dequeued
<1> HIDE DEF h
<1>3. Fence(h) \in SUBSET (Hours \ frozen)
  BY HourOfWrite DEF h, TrackerTypeOK
<1>4. \E C \in SUBSET Fence(h) :
        /\ frozen' = frozen \cup Fence(h) /\ journal' = Saved(C)
        /\ unsaved' = unsaved \cup (Fence(h) \ C)
  <2>1. CASE JournalFails(h)
    <3>1. Saved({}) = journal
      BY DEF Saved, TrackerTypeOK
    <3>2. CASE UNCHANGED journal /\ unsaved' = unsaved \cup Fence(h)
      BY <2>1, <3>1, <3>2 DEF JournalFails
    <3>3. CASE journal' = Saved(Fence(h)) /\ UNCHANGED unsaved
      BY <2>1, <3>3 DEF JournalFails
    <3> QED
      BY <2>1, <3>2, <3>3 DEF JournalFails
  <2>2. CASE FinalizeFails(h) \/ RegisterFails(h) \/ AppendFails(h)
    BY <2>2 DEF FinalizeFails, RegisterFails, AppendFails, CloseFence
  <2> QED
    BY <1>1, <2>1, <2>2
<1>5. PICK C \in SUBSET Fence(h) :
        /\ frozen' = frozen \cup Fence(h) /\ journal' = Saved(C)
        /\ unsaved' = unsaved \cup (Fence(h) \ C)
  BY <1>4
<1>6. /\ FilesAgree' /\ Log!CloseHours(C)
      /\ frozen' \subseteq Hours /\ unsaved' \subseteq Hours
      /\ journal' = [x \in Hours |-> journal'[x]]
      /\ \A x \in Hours : journal'[x] = None \/ journal'[x] \in [Producers -> Nat]
  <2>1. \A x \in frozen' : counted'[x] = counted[x]
    BY <1>1
  <2> QED
    BY <1>3, <1>5, <2>1, ClosingHours
<1>7. TrackerTypeOK'
  <2>1. cohort' \in {cohort, h}
    BY <1>1 DEF JournalFails, FinalizeFails, RegisterFails, AppendFails
  <2>2. registered' \subseteq Hours \X Producers
    BY <1>1, <1>2 DEF JournalFails, FinalizeFails, RegisterFails, AppendFails, TrackerTypeOK
  <2> QED
    BY <1>1, <1>2, <1>6, <2>1, <2>2 DEF TrackerTypeOK
<1>8. TasksTypeOK'
  <2>1. /\ running' \in BOOLEAN /\ fatal' \in BOOLEAN /\ writer' \in BOOLEAN
        /\ unpersisted' \in Nat
    <3>1. unpersisted' \in Nat
      BY <1>1 DEF FailClosed, TasksTypeOK
    <3>2. fatal' \in BOOLEAN /\ running' \in BOOLEAN /\ writer' \in BOOLEAN
      BY <1>1, Zenon DEF FailClosed
    <3> QED
      BY <3>1, <3>2
  <2> QED
    BY <1>1, <1>2, <2>1 DEF TasksTypeOK
<1>9. Conserved'
  <2>1. accepted = Total(counted) + Len(queue) + unpersisted /\ Total(counted) \in Nat
    BY TotalIsNat DEF Conserved, TrackerTypeOK
  <2>2. Total(counted') = Total(counted) /\ unpersisted' = unpersisted + 1
    BY <1>1 DEF FailClosed
  <2>3. accepted' = Total(counted') + Len(queue') + unpersisted'
    BY <1>2, <2>1, <2>2
  <2> QED
    BY <2>3 DEF Conserved
<1>10. Drained' /\ EndIsFrozen' /\ VerdictIsEarned'
  <2>1. main \in {"closing", "done", "flushed"} /\ ~interrupted => queue' = <<>>
    BY <1>2 DEF Drained
  <2> QED
    BY <1>2, <2>1 DEF Drained, EndIsFrozen, VerdictIsEarned
<1>11. WriterIsGone' /\ LossIsFatal'
  BY <1>1, <1>2 DEF WriterIsGone, LossIsFatal, FailClosed
<1>12. LogStep
  BY <1>1, <1>3, <1>6, LogCloses
<1> QED
  BY <1>6, <1>7, <1>8, <1>9, <1>10, <1>11, <1>12

(* What is still queued after an error is counted as lost.                 *)
LEMMA DiscardStep ==
    ASSUME CollectorInv, Discard
    PROVE  CollectorInv' /\ LogStep
<1> USE DEF CollectorInv
<1>1. /\ main' = "closing" /\ queue' = <<>> /\ unpersisted' = unpersisted + Len(queue) /\ fatal
      /\ UNCHANGED <<now, accepted, events, setbacks, held, running, fatal, writer, interrupted,
                     tracker, files, verdict, faults, signals>>
  BY DEF Discard, MainStep
<1>2. Len(queue) \in Nat /\ Len(queue') = 0 /\ queue' \in Seq(Producers) /\ Total(counted) \in Nat
  BY <1>1, LenProperties, EmptySeq, TotalIsNat DEF TasksTypeOK, TrackerTypeOK
<1>3. TrackerTypeOK' /\ TasksTypeOK'
  <2>1. TrackerTypeOK'
    BY <1>1 DEF TrackerTypeOK, tracker, files
  <2>2. unpersisted' \in Nat /\ main' \in Places /\ Len(queue') <= QueueMax
    BY <1>1, <1>2, CollectorAssumption DEF TasksTypeOK, Places
  <2> QED
    BY <1>1, <1>2, <2>1, <2>2 DEF TasksTypeOK, verdict
<1>4. Conserved'
  <2>1. accepted = Total(counted) + Len(queue) + unpersisted /\ unpersisted \in Nat
    BY DEF Conserved, TasksTypeOK
  <2>2. Total(counted') = Total(counted) /\ accepted' = accepted
    BY <1>1 DEF tracker
  <2>3. accepted' = Total(counted') + Len(queue') + unpersisted'
    BY <1>1, <1>2, <2>1, <2>2
  <2> QED
    BY <2>3 DEF Conserved
<1>5. FilesAgree'
  BY <1>1, NothingCloses DEF tracker, files
<1>6. Drained' /\ WriterIsGone' /\ EndIsFrozen' /\ LossIsFatal' /\ VerdictIsEarned'
  BY <1>1 DEF Drained, WriterIsGone, EndIsFrozen, LossIsFatal, VerdictIsEarned, verdict
<1>7. LogStep
  BY <1>1, LogStutters DEF tracker, files
<1> QED
  BY <1>3, <1>4, <1>5, <1>6, <1>7

(* The hours of a shutdown are closed, all of them or up to one.           *)
LEMMA ShutdownSteps ==
    ASSUME CollectorInv, CloseTail \/ Flush
    PROVE  CollectorInv' /\ LogStep
<1> USE DEF CollectorInv
<1>1. /\ UNCHANGED <<now, accepted, events, setbacks, held, queue, running, fatal, interrupted,
                     unpersisted, result, signals, cohort, last, counted, registered, raw>>
      /\ faults' \in 0..MaxFaults
      /\ ~writer' /\ writer' \in BOOLEAN /\ complete' \in BOOLEAN
      /\ complete' => complete \/ (main' = "flushed" /\ ~fatal /\ ~interrupted)
      /\ \/ main = "closing" /\ main' = "done" /\ complete' = complete
         \/ main = "done" /\ main' = "flushed"
  <2>1. (FreezeShutdown /\ UNCHANGED faults) \/ FreezeShutdownFails =>
          /\ UNCHANGED <<cohort, last, counted, registered, raw>>
          /\ faults' \in 0..MaxFaults
    BY CollectorAssumption DEF FreezeShutdown, FreezeShutdownFails, TasksTypeOK
  <2>2. CASE CloseTail
    <3>1. writer' \in BOOLEAN
      BY <2>2, Zenon DEF CloseTail
    <3> QED
      BY <2>1, <2>2, <3>1 DEF CloseTail, MainStep, verdict, TasksTypeOK
  <2>3. CASE Flush
    <3>1. ~writer /\ writer \in BOOLEAN /\ complete \in BOOLEAN /\ fatal \in BOOLEAN /\ interrupted \in BOOLEAN
      BY <2>3 DEF Flush, MainStep, WriterIsGone, TasksTypeOK
    <3>2. complete' \in {FALSE, ~fatal /\ ~interrupted} \/ complete' = complete
      BY <2>3 DEF Flush
    <3>3. complete' \in BOOLEAN
      BY <3>1, <3>2, Zenon
    <3>4. complete' => complete \/ (~fatal /\ ~interrupted)
      BY <3>2, Zenon
    <3> QED
      BY <2>1, <2>3, <3>1, <3>3, <3>4 DEF Flush, MainStep
  <2> QED
    BY <2>2, <2>3
<1>2. ShutdownHours \in SUBSET (Hours \ frozen)
  BY HourOfWrite DEF ShutdownHours, Active, TrackerTypeOK
<1>3. \E C \in SUBSET ShutdownHours :
        /\ frozen' = frozen \cup ShutdownHours /\ journal' = Saved(C)
        /\ unsaved' = unsaved \cup (ShutdownHours \ C)
  <2>1. CASE FreezeShutdown
    BY <2>1 DEF FreezeShutdown
  <2>2. CASE FreezeShutdownFails
    <3>1. PICK g \in ShutdownHours : /\ journal' = Saved(SavedBefore(g))
                                     /\ unsaved' = unsaved \cup (ShutdownHours \ SavedBefore(g))
      BY <2>2 DEF FreezeShutdownFails
    <3>2. SavedBefore(g) \subseteq ShutdownHours
      BY DEF SavedBefore, ShutdownHours
    <3> QED
      BY <2>2, <3>1, <3>2 DEF FreezeShutdownFails
  <2> QED
    BY <2>1, <2>2 DEF CloseTail, Flush
<1>4. PICK C \in SUBSET ShutdownHours :
        /\ frozen' = frozen \cup ShutdownHours /\ journal' = Saved(C)
        /\ unsaved' = unsaved \cup (ShutdownHours \ C)
  BY <1>3
<1>5. /\ FilesAgree' /\ Log!CloseHours(C)
      /\ frozen' \subseteq Hours /\ unsaved' \subseteq Hours
      /\ journal' = [x \in Hours |-> journal'[x]]
      /\ \A x \in Hours : journal'[x] = None \/ journal'[x] \in [Producers -> Nat]
  <2>1. \A x \in frozen' : counted'[x] = counted[x]
    BY <1>1
  <2> QED
    BY <1>2, <1>4, <2>1, ClosingHours
<1>6. TrackerTypeOK'
  BY <1>1, <1>5 DEF TrackerTypeOK
<1>7. TasksTypeOK'
  <2>1. main' \in Places
    BY <1>1 DEF Places
  <2> QED
    BY <1>1, <2>1 DEF TasksTypeOK
<1>8. Conserved'
  <2>1. Total(counted') = Total(counted)
    BY <1>1
  <2> QED
    BY <1>1, <2>1 DEF Conserved
<1>9. EndIsFrozen'
  <2>1. Active' = Active /\ Active \subseteq Hours
    BY <1>1 DEF Active
  <2>2. Active \subseteq frozen \cup ShutdownHours
    BY DEF ShutdownHours
  <2> QED
    BY <1>4, <2>1, <2>2 DEF EndIsFrozen
<1>10. Drained' /\ WriterIsGone' /\ LossIsFatal' /\ VerdictIsEarned'
  BY <1>1 DEF Drained, WriterIsGone, LossIsFatal, VerdictIsEarned
<1>11. LogStep
  BY <1>1, <1>2, <1>5, LogCloses
<1> QED
  BY <1>5, <1>6, <1>7, <1>8, <1>9, <1>10, <1>11

LEMMA InvStep ==
    ASSUME CollectorInv, [CollectorNext]_vars
    PROVE  CollectorInv' /\ LogStep
BY TaskSteps, ProducerSteps, WriteItemStep, WriteFailsStep, DiscardStep, ShutdownSteps
   DEF CollectorNext, WriterNext, MainNext

----------------------------------------------------------------------------
(* The theorems.                                                           *)

(* The invariant holds in every reachable state.                           *)
THEOREM CollectorInvIsInvariant == CollectorSpec => []CollectorInv
<1>1. CollectorInv /\ [CollectorNext]_vars => CollectorInv'
  BY InvStep
<1> QED
  BY InvAtStart, <1>1, PTL DEF CollectorSpec

(* The collector's variables, files and tasks have their types; the queue  *)
(* never exceeds its bound.                                                *)
THEOREM CollectorTypeCorrect == CollectorSpec => []CollectorTypeOK
<1>1. CollectorInv => CollectorTypeOK
  BY DEF CollectorInv, TrackerTypeOK, TasksTypeOK, CollectorTypeOK, Logs
<1> QED
  BY CollectorInvIsInvariant, <1>1, PTL

(* Every event the queue took is counted for an hour, still queued, or     *)
(* counted as lost (_process_writer_item, _discard_unpersisted_queue), for *)
(* any number of producers, any queue bound and any failures.              *)
THEOREM AcceptedIsConserved == CollectorSpec => []NothingAcceptedIsLost
<1>1. CollectorInv => NothingAcceptedIsLost
  BY DEF CollectorInv, Conserved, Drained, NothingAcceptedIsLost
<1> QED
  BY CollectorInvIsInvariant, <1>1, PTL

(* When the collector has ended, each hour with a record has its journal,  *)
(* unless saving it failed (freeze_completed, freeze_shutdown).            *)
THEOREM HoursAreJournalled == CollectorSpec => []ActiveHoursAreJournalled
<1>1. CollectorInv => ActiveHoursAreJournalled
  BY DEF CollectorInv, EndIsFrozen, FilesAgree, ActiveHoursAreJournalled
<1> QED
  BY CollectorInvIsInvariant, <1>1, PTL

(* A run that the supervisor passes has lost nothing, and its journals     *)
(* count the records in the files.                                         *)
THEOREM PassIsWhole == CollectorSpec => []PassMeansWhole
<1>1. CollectorInv => PassMeansWhole
  <2> SUFFICES ASSUME CollectorInv, result = "PASS"
               PROVE  /\ unpersisted = 0 /\ queue = <<>>
                      /\ \A h \in Journalled : journal[h] = raw[h]
                      /\ Active \subseteq Journalled \cup unsaved
    BY DEF PassMeansWhole
  <2>1. main = "flushed" /\ ~fatal /\ ~interrupted
    BY DEF CollectorInv, VerdictIsEarned
  <2> QED
    BY <2>1 DEF CollectorInv, Drained, LossIsFatal, FilesAgree, EndIsFrozen
<1> QED
  BY CollectorInvIsInvariant, <1>1, PTL

(* The collector implements the hour log: an hour is closed once, with the *)
(* counts of its records, and nothing is counted for it afterwards.        *)
THEOREM CollectorImplementsHourLog == CollectorSpec => ImplementsHourLog
<1>1. CollectorInit => Log!HourLogInit
  BY DEF CollectorInit, Log!HourLogInit, Zero, Log!Zero
<1>2. CollectorInv /\ [CollectorNext]_vars => [Log!HourLogNext]_Log!hourLogVars
  BY InvStep DEF LogStep
<1> QED
  BY CollectorInvIsInvariant, <1>1, <1>2, PTL DEF CollectorSpec, ImplementsHourLog, Log!HourLogSpec

=============================================================================
