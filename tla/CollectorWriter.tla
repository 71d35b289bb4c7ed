--------------------------- MODULE CollectorWriter ---------------------------
(***************************************************************************)
(* The market data collector (cross_market_collector.py) under its         *)
(* supervisor (bounded_supervisor.py).  One producer per exchange puts the *)
(* events it receives into a bounded queue; one writer takes them out,     *)
(* freezes the hour before when it sees that the clock has crossed an hour *)
(* (the coverage tracker of feed_hour_coverage.py), registers the          *)
(* partition of the present hour, appends the record and counts it.  A     *)
(* step is what the event loop runs between two awaits.  The progress      *)
(* store is module FinalizationStore, what becomes of a frozen hour module *)
(* ClosedHours.                                                            *)
(***************************************************************************)
EXTENDS Naturals, Sequences, FiniteSets, Functions

CONSTANTS
    Producers,      \* the exchanges; a producer stands for all feeds of one
    None,
    QueueMax,       \* the bound of the write queue
    LastHour,       \* the hours are 0..LastHour, the collector starts in 1
    MaxEvents,      \* how many events arrive
    MaxFaults,      \* how many file operations fail
    MaxSetbacks,    \* how often the clock is set back, by half an hour
    MaxSignals      \* how many signals are sent

Hours == 0..LastHour
OpeningHour == 1

(* The clock goes by half hours: two readings in an hour can differ.       *)
Times == 2 * OpeningHour .. 2 * LastHour + 1
HourOf(t) == t \div 2

Zero == [h \in Hours |-> [p \in Producers |-> 0]]

ASSUME CollectorAssumption ==
    /\ IsFiniteSet(Producers)
    /\ QueueMax \in Nat \ {0} /\ LastHour \in Nat \ {0}
    /\ MaxEvents \in Nat /\ MaxFaults \in Nat
    /\ MaxSetbacks \in Nat /\ MaxSignals \in Nat
    /\ None \notin Nat /\ None \notin [Producers -> Nat] /\ None \notin {"PASS", "FAIL"}

VARIABLES
    now,            \* the wall clock
    held,           \* producers that wait in put with an event
    queue,          \* the write queue
    running, fatal, \* is_running, _fatal_writer_error is set
    writer,         \* the writer task is there
    main,           \* where run_collector, then _run, stands
    cohort,         \* _current_writer_cohort
    last,           \* _last_write_ts of the tracker
    frozen,         \* _frozen_cohorts
    counted,        \* event_count of a feed's hour
    registered,     \* partitions registered with the progress store
    raw,            \* records in the raw files
    journal,        \* journal files: the counts they hold, None if there is none
    unpersisted,    \* _unpersisted_event_count
    interrupted,    \* a SIGINT cancelled the main task
    complete,       \* the lifecycle file says COMPLETE
    result,         \* what the supervisor says of the run
    accepted,       \* how many events were put into the queue, a ghost
    unsaved,        \* hours whose journal could not be saved, a ghost
    events, faults, setbacks, signals   \* bounds

tracker == <<cohort, last, frozen, counted>>
files == <<registered, raw, journal, unsaved>>
tasks == <<running, fatal, writer, main, interrupted>>
verdict == <<complete, result>>
traffic == <<held, queue, accepted, events>>
bounds == <<faults, setbacks, signals>>
vars == <<now, traffic, tasks, tracker, files, unpersisted, verdict, bounds>>

Places == {"wait", "gathered", "join", "closing", "done", "flushed", "killed"}

CollectorTypeOK ==
    /\ now \in Times
    /\ held \subseteq Producers
    /\ queue \in Seq(Producers) /\ Len(queue) <= QueueMax
    /\ running \in BOOLEAN /\ fatal \in BOOLEAN /\ writer \in BOOLEAN
    /\ interrupted \in BOOLEAN /\ complete \in BOOLEAN
    /\ main \in Places
    /\ cohort = None \/ cohort \in Hours
    /\ last = None \/ last \in Times
    /\ frozen \subseteq Hours /\ unsaved \subseteq Hours
    /\ counted \in [Hours -> [Producers -> Nat]]
    /\ raw \in [Hours -> [Producers -> Nat]]
    /\ registered \subseteq Hours \X Producers
    /\ \A h \in Hours : journal[h] = None \/ journal[h] \in [Producers -> Nat]
    /\ result = None \/ result \in {"PASS", "FAIL"}
    /\ unpersisted \in Nat /\ accepted \in Nat
    /\ events \in 0..MaxEvents /\ faults \in 0..MaxFaults
    /\ setbacks \in 0..MaxSetbacks /\ signals \in 0..MaxSignals

CollectorInit ==
    /\ now = 2 * OpeningHour
    /\ held = {} /\ queue = <<>> /\ accepted = 0 /\ events = 0
    /\ running = TRUE /\ fatal = FALSE /\ writer = TRUE
    /\ main = "wait" /\ interrupted = FALSE
    /\ cohort = None /\ last = None /\ frozen = {} /\ counted = Zero
    /\ registered = {} /\ raw = Zero /\ unsaved = {}
    /\ journal = [h \in Hours |-> None]
    /\ unpersisted = 0
    /\ complete = FALSE /\ result = None
    /\ faults = 0 /\ setbacks = 0 /\ signals = 0

Alive == main \notin {"flushed", "killed"}

----------------------------------------------------------------------------
(* The clock.                                                              *)

Tick ==
    /\ Alive
    /\ now + 1 \in Times
    /\ now' = now + 1
    /\ UNCHANGED <<traffic, tasks, tracker, files, unpersisted, verdict, bounds>>

SetBack ==
    /\ Alive
    /\ now - 1 \in Times
    /\ setbacks < MaxSetbacks
    /\ now' = now - 1
    /\ setbacks' = setbacks + 1
    /\ UNCHANGED <<traffic, tasks, tracker, files, unpersisted, verdict, faults, signals>>

----------------------------------------------------------------------------
(* Producers.  They look at is_running between two messages only, so one   *)
(* may still receive until the main task cancels it.                       *)

(* Mutant: one too many.                                                   *)
FullLate == Len(queue) > QueueMax

Full == Len(queue) >= QueueMax

Enqueue(p) ==
    /\ queue' = Append(queue, p)
    /\ accepted' = accepted + 1

Receive(p) ==
    /\ main = "wait"
    /\ p \notin held
    /\ events < MaxEvents
    /\ events' = events + 1
    /\ IF Full THEN held' = held \cup {p} /\ UNCHANGED <<queue, accepted>>
               ELSE Enqueue(p) /\ UNCHANGED held
    /\ UNCHANGED <<now, tasks, tracker, files, unpersisted, verdict, bounds>>

(* A put that waited for room goes on.                                     *)
Put(p) ==
    /\ main = "wait"
    /\ p \in held
    /\ ~Full
    /\ Enqueue(p)
    /\ held' = held \ {p}
    /\ UNCHANGED <<now, events, tasks, tracker, files, unpersisted, verdict, bounds>>

----------------------------------------------------------------------------
(* The coverage tracker.                                                   *)

Active == {h \in Hours : \E p \in Producers : counted[h][p] > 0}

(* freeze_completed: the hour just before the one of this write, which is  *)
(* not always the hour of the write before.                                *)
Fence(h) == IF cohort # None /\ cohort # h THEN {h - 1} \ frozen ELSE {}

(* Mutant: freeze_shutdown trusts the fences for the hours before.         *)
PresentHour == {HourOf(now)} \ frozen

(* freeze_shutdown: every hour with a record, and the present one          *)
ShutdownHours == (Active \cup {HourOf(now)}) \ frozen

Saved(S) == [h \in Hours |-> IF h \in S THEN counted[h] ELSE journal[h]]

----------------------------------------------------------------------------
(* The writer: _process_writer_item, without an await.                     *)

Taken == Head(queue)

Plus(log, h, p) == [log EXCEPT ![h][p] = @ + 1]

(* Mutant: the loop looks at is_running alone.                             *)
DequeueWhileRunning ==
    /\ writer /\ running /\ queue # <<>>
    /\ queue' = Tail(queue)
    /\ UNCHANGED <<now, held, accepted, events, main, interrupted, verdict, setbacks, signals>>

Dequeue ==
    /\ writer /\ queue # <<>>
    /\ queue' = Tail(queue)
    /\ UNCHANGED <<now, held, accepted, events, main, interrupted, verdict, setbacks, signals>>

(* Mutant: the worker does not return after an error.                      *)
FailOpen ==
    /\ fatal' = TRUE /\ running' = FALSE
    /\ unpersisted' = unpersisted + 1
    /\ UNCHANGED writer

(* The item is lost and counted, and the writer is gone.                   *)
FailClosed ==
    /\ fatal' = TRUE /\ running' = FALSE /\ writer' = FALSE
    /\ unpersisted' = unpersisted + 1

CloseFence(h) ==
    /\ frozen' = frozen \cup Fence(h)
    /\ journal' = Saved(Fence(h))

(* Mutant: every write time is taken.                                      *)
AcceptsAll(h) == h \in Hours

(* record_persisted_event refuses a clock that went back and an hour that  *)
(* is frozen, after the record is in the file.                             *)
Accepts(h) == (last # None => last <= now) /\ h \notin frozen \cup Fence(h)

WriteItem ==
    LET h == HourOf(now) IN
    /\ Dequeue
    /\ CloseFence(h)
    /\ cohort' = h
    /\ registered' = registered \cup {<<h, Taken>>}
    /\ raw' = Plus(raw, h, Taken)
    /\ \/ /\ Accepts(h)
          /\ counted' = Plus(counted, h, Taken)
          /\ last' = now
          /\ UNCHANGED <<running, fatal, writer, unpersisted>>
       \/ /\ ~Accepts(h)
          /\ FailClosed
          /\ UNCHANGED <<counted, last>>
    /\ UNCHANGED <<unsaved, faults>>

(* A file operation of the step raises.  The hour is marked as frozen      *)
(* before its journal is saved and stays so when that fails.               *)
JournalFails(h) ==
    /\ Fence(h) # {}
    /\ frozen' = frozen \cup Fence(h)
    /\ \/ UNCHANGED journal /\ unsaved' = unsaved \cup Fence(h)
       \/ journal' = Saved(Fence(h)) /\ UNCHANGED unsaved
    /\ UNCHANGED <<cohort, registered>>

FinalizeFails(h) ==
    /\ cohort # None /\ cohort # h
    /\ CloseFence(h)
    /\ UNCHANGED <<cohort, registered, unsaved>>

RegisterFails(h) ==
    /\ <<h, Taken>> \notin registered
    /\ CloseFence(h)
    /\ cohort' = h
    /\ UNCHANGED <<registered, unsaved>>

AppendFails(h) ==
    /\ CloseFence(h)
    /\ cohort' = h
    /\ registered' = registered \cup {<<h, Taken>>}
    /\ UNCHANGED unsaved

WriteFails ==
    LET h == HourOf(now) IN
    /\ Dequeue
    /\ faults < MaxFaults
    /\ faults' = faults + 1
    /\ FailClosed
    /\ JournalFails(h) \/ FinalizeFails(h) \/ RegisterFails(h) \/ AppendFails(h)
    /\ UNCHANGED <<counted, last, raw>>

(* The loop ends when is_running is off and the queue is empty.            *)
WriterExits ==
    /\ writer /\ ~running /\ queue = <<>>
    /\ writer' = FALSE
    /\ UNCHANGED <<now, traffic, running, fatal, main, interrupted, tracker, files,
                   unpersisted, verdict, bounds>>

----------------------------------------------------------------------------
(* The main task: run_collector's finally block, then the flush in _run.   *)

MainStep(from, to) ==
    /\ main = from
    /\ main' = to
    /\ UNCHANGED <<now, accepted, events, setbacks>>

(* The time is up, or the writer failed, or SIGINT cancels the wait: the   *)
(* producers are cancelled, with what they hold.                           *)
Stop ==
    /\ MainStep("wait", "gathered")
    /\ running' = FALSE
    /\ held' = {}
    /\ UNCHANGED <<queue, fatal, writer, tracker, files, unpersisted, verdict>>

TimeIsUp == Stop /\ UNCHANGED <<interrupted, faults, signals>>

(* Without a fatal error the queue is waited for, else it is discarded.    *)
Drain ==
    /\ MainStep("gathered", "join")
    /\ ~fatal
    /\ UNCHANGED <<held, queue, running, fatal, writer, interrupted, tracker, files,
                   unpersisted, verdict, faults, signals>>

(* Mutant: what is discarded is not counted.                               *)
DiscardUncounted ==
    /\ MainStep("gathered", "closing")
    /\ fatal
    /\ queue' = <<>>
    /\ UNCHANGED <<held, running, fatal, writer, interrupted, tracker, files, unpersisted,
                   verdict, faults, signals>>

Discard ==
    /\ MainStep("gathered", "closing")
    /\ fatal
    /\ queue' = <<>>
    /\ unpersisted' = unpersisted + Len(queue)
    /\ UNCHANGED <<held, running, fatal, writer, interrupted, tracker, files, verdict,
                   faults, signals>>

Joined ==
    /\ MainStep("join", "closing")
    /\ queue = <<>>
    /\ UNCHANGED <<held, queue, running, fatal, writer, interrupted, tracker, files,
                   unpersisted, verdict, faults, signals>>

(* The hours of a shutdown are journalled one by one, those with records   *)
(* first and in their order.  When that fails for one, it and the hours    *)
(* after it stay frozen without a journal.                                 *)
SavedBefore(g) == {h \in Active \ frozen : g \notin Active \/ h < g}

FreezeShutdown ==
    /\ frozen' = frozen \cup ShutdownHours
    /\ journal' = Saved(ShutdownHours)
    /\ UNCHANGED <<cohort, last, counted, registered, raw, unsaved>>

FreezeShutdownFails ==
    /\ faults < MaxFaults
    /\ faults' = faults + 1
    /\ frozen' = frozen \cup ShutdownHours
    /\ \E g \in ShutdownHours :
          /\ journal' = Saved(SavedBefore(g))
          /\ unsaved' = unsaved \cup (ShutdownHours \ SavedBefore(g))
    /\ UNCHANGED <<cohort, last, counted, registered, raw>>

(* The error is logged only.                                               *)
CloseTail ==
    /\ MainStep("closing", "done")
    /\ writer' = FALSE
    /\ \/ FreezeShutdown /\ UNCHANGED faults
       \/ FreezeShutdownFails
    /\ UNCHANGED <<held, queue, running, fatal, interrupted, unpersisted, verdict, signals>>

(* finalize_all freezes once more; the lifecycle file says COMPLETE when   *)
(* the store does and run_collector returned.                              *)
Flush ==
    /\ MainStep("done", "flushed")
    /\ \/ /\ FreezeShutdown
          /\ complete' \in {FALSE, ~fatal /\ ~interrupted}
          /\ UNCHANGED faults
       \/ FreezeShutdownFails /\ UNCHANGED complete
    /\ UNCHANGED <<held, queue, running, fatal, writer, interrupted, unpersisted, result, signals>>

----------------------------------------------------------------------------
(* Signals.  asyncio.run turns SIGINT into a cancellation of the main      *)
(* task; nothing handles SIGTERM.                                          *)

Signal ==
    /\ signals < MaxSignals
    /\ signals' = signals + 1

(* Behind the wait, a cancellation leaves the rest of the finally block    *)
(* out.                                                                    *)
Interrupt ==
    /\ Signal
    /\ interrupted' = TRUE
    /\ UNCHANGED faults
    /\ \/ Stop
       \/ /\ \E place \in {"gathered", "join", "closing"} : MainStep(place, "done")
          /\ writer' = FALSE
          /\ UNCHANGED <<held, queue, running, fatal, tracker, files, unpersisted, verdict>>

(* _stop_process, after a signal of its own or at the hard deadline; or    *)
(* the machine ends the process.                                           *)
Terminate ==
    /\ Alive
    /\ Signal
    /\ main' = "killed"
    /\ running' = FALSE /\ writer' = FALSE
    /\ UNCHANGED <<now, traffic, fatal, interrupted, tracker, files, unpersisted, verdict,
                   faults, setbacks>>

(* The run passes when the collector exits with 0 and its lifecycle file   *)
(* says COMPLETE; a failure of the metrics publisher or of the archive     *)
(* scheduler, or a signal to the supervisor, fails it all the same.        *)
Judge ==
    /\ ~Alive
    /\ result = None
    /\ result' \in {"FAIL", IF main = "flushed" /\ complete THEN "PASS" ELSE "FAIL"}
    /\ UNCHANGED <<now, traffic, tasks, tracker, files, unpersisted, complete, bounds>>

----------------------------------------------------------------------------
WriterNext == WriteItem \/ WriteFails \/ WriterExits

MainNext == TimeIsUp \/ Drain \/ Discard \/ Joined \/ CloseTail \/ Flush

CollectorNext ==
    \/ Tick \/ SetBack
    \/ \E p \in Producers : Receive(p) \/ Put(p)
    \/ WriterNext \/ MainNext
    \/ Interrupt \/ Terminate \/ Judge

CollectorSpec == CollectorInit /\ [][CollectorNext]_vars

(* The event loop runs every task that can go on; the supervisor polls.    *)
FairCollectorSpec ==
    CollectorSpec /\ WF_vars(WriterNext) /\ WF_vars(MainNext) /\ WF_vars(Judge)

----------------------------------------------------------------------------
(* Properties.                                                             *)

Total(log) == SumFunction([h \in Hours |-> SumFunction(log[h])])

(* Every event that got into the queue is counted for an hour, still in    *)
(* the queue, or counted as lost, whatever fails or is interrupted; and    *)
(* unless a signal cut it short, nothing is left in the queue of a         *)
(* collector that has ended.                                               *)
NothingAcceptedIsLost ==
    /\ accepted = Total(counted) + Len(queue) + unpersisted
    /\ main = "flushed" /\ ~interrupted => queue = <<>>

Journalled == {h \in Hours : journal[h] # None}

(* When the collector has ended by itself or by SIGINT, every hour with a  *)
(* counted record has its journal, also one that was followed by idle      *)
(* hours and never saw a fence, unless saving it failed; the archive       *)
(* scheduler finds an hour by its journal only.                            *)
ActiveHoursAreJournalled ==
    main = "flushed" => Active \subseteq Journalled \cup unsaved

(* A run that passes has lost nothing it accepted, and each of its         *)
(* journals counts exactly the records in the hour's files, whenever the   *)
(* hour was frozen and whatever the clock did.                             *)
PassMeansWhole ==
    result = "PASS" =>
        /\ unpersisted = 0 /\ queue = <<>>
        /\ \A h \in Journalled : journal[h] = raw[h]
        /\ Active \subseteq Journalled \cup unsaved

(* The queue, the fences and the two shutdown freezes implement the hour   *)
(* log: an hour is closed once, with the counts of the records that went   *)
(* into it, and nothing is counted for it afterwards.                      *)
Log == INSTANCE HourLog WITH
    Hour <- Hours, Feed <- Producers,
    written <- raw, counts <- counted, closed <- journal,
    refused <- raw # counted

ImplementsHourLog == Log!HourLogSpec

(* The queue can wait for ever: the writer failed while run_collector      *)
(* waited in join, with events behind the one that failed.                 *)
JoinHangs == main = "join" /\ ~writer /\ queue # <<>>

(* A collector that began to stop ends, unless its join hangs; and the     *)
(* supervisor gives its verdict.                                           *)
StopEndsOrHangs == ~running ~> (result # None \/ JoinHangs)

(* What the design says of a shutdown: it drains the queue, disables       *)
(* further writes and closes the hours, so it comes to its end.            *)
StopEnds == ~running ~> main = "flushed"

=============================================================================
