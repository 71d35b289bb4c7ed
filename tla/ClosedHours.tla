----------------------------- MODULE ClosedHours -----------------------------
(***************************************************************************)
(* What happens to an hour of market data once the collector has frozen    *)
(* it: the archive scheduler (archive_scheduler.py) picks the oldest hour  *)
(* that is not completed, the orchestrator                                 *)
(* (orchestrate_closed_hour_archive.py) takes its flock, the closed-hour   *)
(* finalizer (closed_hour_finalizer.py) archives the raw partition and the *)
(* coverage evidence of every feed, a cohort report is written, and a      *)
(* detached supervisor scans the hour's files under a second flock.  An    *)
(* operator may run the orchestrator by hand.  The archive of one object   *)
(* is module ArchivePipeline; here it either ends with a verified receipt  *)
(* or raises.  Every step ends where the code has just written a file.     *)
(***************************************************************************)
EXTENDS Naturals, FiniteSets

CONSTANTS
    LastHour,       \* the hours are 1..LastHour, oldest first
    LastFeed,       \* SEALED_FEED_UNIVERSE, in its order
    Runners,        \* processes that run the orchestrator
    Scheduler,      \* the one of them that is the archive scheduler
    None,
    Seen,           \* what a feed's frozen hour may show, see Observations
    Partial,        \* hours that are TOUCHED_PARTIAL, the run's first and last
    MaxManual,      \* how often the others run the orchestrator by hand
    MaxFaults,      \* how many calls raise for a reason of their own
    MaxCrashes      \* how many processes die in the middle

Hours == 1..LastHour
Feeds == 1..LastFeed
Slots == Hours \X Feeds

(* What the frozen journal and the hour's files say of a feed, at every    *)
(* run alike: a gap, when evaluate_common_gate fails, or the partition or  *)
(* its manifest is missing, or they count other records than the journal;  *)
(* or else no events, or some.                                             *)
Observations == {"gap", "zero", "some"}
Coverages == {"FAILED", "VERIFIED_ZERO_EVENT", "DATA_PRESENT"}
Reports == {"PASS", "FAIL"}

ASSUME HoursAssumption ==
    /\ LastHour \in Nat \ {0} /\ LastFeed \in Nat \ {0}
    /\ Scheduler \in Runners /\ None \notin Runners
    /\ None \notin Coverages \cup Reports /\ None \notin Hours
    /\ Seen \subseteq Observations /\ Partial \subseteq Hours
    /\ MaxManual \in Nat /\ MaxFaults \in Nat /\ MaxCrashes \in Nat

VARIABLES
    journal,            \* what the collector froze, None before that
    archived, reused,   \* raw partitions with a terminal receipt; progress marks
    coverage,           \* the local coverage file of a slot
    packed, object,     \* slots whose coverage is compressed; its remote object
    sealed,             \* slots whose coverage receipt is verified
    report, scan,       \* the hour's finalized report and full-scan report
    lock, scanLock,     \* the two flocks
    supervisor, scanner,    \* the full-scan processes of an hour
    orphan,             \* scanners that lost their supervisor, at most one an hour
    pc, target, slot, verdict, failed,  \* each runner's call
    manual, faults, crashes             \* bounds

evidence == <<archived, reused, coverage, packed, object, sealed>>
reports == <<report, scan>>
scanning == <<scanLock, supervisor, scanner, orphan>>
locals == <<target, slot, verdict, failed>>
bounds == <<manual, faults, crashes>>
vars == <<journal, evidence, reports, lock, scanning, pc, locals, bounds>>

Steps == {"probe", "claim", "slot", "raw", "mark", "save", "pack", "upload",
          "verify", "report", "launch", "await"}

HoursTypeOK ==
    /\ journal \in [Hours -> [Feeds -> Observations] \cup {None}]
    /\ archived \subseteq Slots /\ reused \subseteq Slots
    /\ packed \subseteq Slots /\ sealed \subseteq Slots
    /\ coverage \in [Slots -> Coverages \cup {None}]
    /\ object \in [Slots -> Coverages \cup {None}]
    /\ report \in [Hours -> Reports \cup {None}]
    /\ scan \in [Hours -> Reports \cup {None}]
    /\ lock \in Runners \cup {None} /\ scanLock \in Hours \cup {None}
    /\ supervisor \in [Hours -> {"none", "starting", "running"}]
    /\ scanner \subseteq Hours /\ orphan \subseteq Hours
    /\ pc \in [Runners -> Steps \cup {"idle"}]
    /\ target \in [Runners -> Hours]
    /\ slot \in [Runners -> 1..LastFeed + 1]
    /\ verdict \in [Runners -> Coverages]
    /\ failed \in [Runners -> BOOLEAN]
    /\ manual \in 0..MaxManual /\ faults \in 0..MaxFaults /\ crashes \in 0..MaxCrashes

HoursInit ==
    /\ journal = [h \in Hours |-> None]
    /\ archived = {} /\ reused = {} /\ packed = {} /\ sealed = {}
    /\ coverage = [s \in Slots |-> None]
    /\ object = [s \in Slots |-> None]
    /\ report = [h \in Hours |-> None]
    /\ scan = [h \in Hours |-> None]
    /\ lock = None /\ scanLock = None
    /\ supervisor = [h \in Hours |-> "none"]
    /\ scanner = {} /\ orphan = {}
    /\ pc = [r \in Runners |-> "idle"]
    /\ target = [r \in Runners |-> 1]
    /\ slot = [r \in Runners |-> 1]
    /\ verdict = [r \in Runners |-> "FAILED"]
    /\ failed = [r \in Runners |-> FALSE]
    /\ manual = 0 /\ faults = 0 /\ crashes = 0

(* The collector saves the hour's journal, an hour that follows an idle    *)
(* one possibly before it (CollectorWriter); the hour in which it started, *)
(* or stopped, is never a full one.                                        *)
Freeze(h) ==
    /\ journal[h] = None
    /\ \E seen \in [Feeds -> Seen] :
          journal' = [journal EXCEPT ![h] =
                        [f \in Feeds |-> IF h \in Partial THEN "gap" ELSE seen[f]]]
    /\ UNCHANGED <<evidence, reports, lock, scanning, pc, locals, bounds>>

----------------------------------------------------------------------------
(* The scheduler's view of the hours.                                      *)

Frozen == {h \in Hours : journal[h] # None}

Sealed(h) == \A f \in Feeds : <<h, f>> \in sealed /\ coverage[<<h, f>>] # "FAILED"

(* is_cohort_completed                                                     *)
Completed(h) ==
    /\ scan[h] = "PASS"
    /\ IF report[h] = None THEN Sealed(h) ELSE report[h] = "PASS"

Eligible == {h \in Frozen : ~Completed(h)}

----------------------------------------------------------------------------
(* The end of a run: it returns or raises, and the flock is released.      *)

Quit(r) ==
    /\ lock' = IF lock = r THEN None ELSE lock
    /\ pc' = [pc EXCEPT ![r] = "idle"]
    /\ target' = [target EXCEPT ![r] = 1]
    /\ slot' = [slot EXCEPT ![r] = 1]
    /\ verdict' = [verdict EXCEPT ![r] = "FAILED"]
    /\ failed' = [failed EXCEPT ![r] = FALSE]

Goto(r, step) ==
    /\ pc' = [pc EXCEPT ![r] = step]
    /\ UNCHANGED <<lock, target, slot, verdict, failed>>

SaveAs(r, state) ==
    /\ pc' = [pc EXCEPT ![r] = "save"]
    /\ verdict' = [verdict EXCEPT ![r] = state]
    /\ UNCHANGED <<lock, target, slot, failed>>

Fault == faults < MaxFaults /\ faults' = faults + 1 /\ UNCHANGED <<manual, crashes>>

(* run_once: the oldest hour that is not completed.                        *)
Discover ==
    /\ pc[Scheduler] = "idle"
    /\ \E h \in Eligible :
          /\ \A g \in Eligible : h <= g
          /\ target' = [target EXCEPT ![Scheduler] = h]
    /\ pc' = [pc EXCEPT ![Scheduler] = "probe"]
    /\ UNCHANGED <<journal, evidence, reports, lock, scanning, slot, verdict,
                   failed, bounds>>

(* run_once probes both flocks and backs off while one is held.            *)
Probe ==
    /\ pc[Scheduler] = "probe"
    /\ IF lock = None /\ scanLock = None THEN Goto(Scheduler, "claim")
                                         ELSE Quit(Scheduler)
    /\ UNCHANGED <<journal, evidence, reports, scanning, bounds>>

(* The command, with --cohort or with the oldest journal.                  *)
RunByHand(r) ==
    /\ r # Scheduler /\ pc[r] = "idle" /\ manual < MaxManual
    /\ manual' = manual + 1
    /\ pc' = [pc EXCEPT ![r] = "claim"]
    /\ \E h \in Frozen : target' = [target EXCEPT ![r] = h]
    /\ UNCHANGED <<journal, evidence, reports, lock, scanning, slot, verdict,
                   failed, faults, crashes>>

(* orchestrator_lock does not wait: OrchestratorConcurrencyError.          *)
Claim(r) ==
    /\ pc[r] = "claim"
    /\ IF lock = None
          THEN /\ lock' = r
               /\ pc' = [pc EXCEPT ![r] = "slot"]
               /\ UNCHANGED locals
          ELSE Quit(r)
    /\ UNCHANGED <<journal, evidence, reports, scanning, bounds>>

----------------------------------------------------------------------------
(* finalize_cohort: finalize_slot for every feed of the hour.              *)

Slot(r) == <<target[r], slot[r]>>

(* Mutant: the gate is left out for a feed without events.                 *)
UngatedSlot(r) ==
    /\ pc[r] = "slot" /\ slot[r] <= LastFeed
    /\ LET seen == journal[target[r]][slot[r]]
       IN  \/ seen = "some" /\ Goto(r, "raw")
           \/ seen # "some" /\ SaveAs(r, "VERIFIED_ZERO_EVENT")
    /\ UNCHANGED <<journal, evidence, reports, scanning, bounds>>

BeginSlot(r) ==
    /\ pc[r] = "slot" /\ slot[r] <= LastFeed
    /\ LET seen == journal[target[r]][slot[r]]
       IN  \/ seen = "gap" /\ SaveAs(r, "FAILED")
           \/ seen = "zero" /\ SaveAs(r, "VERIFIED_ZERO_EVENT")
           \/ seen = "some" /\ Goto(r, "raw")
    /\ UNCHANGED <<journal, evidence, reports, scanning, bounds>>

(* raw_archive.finalize_artifact and the checks of what it returns: a      *)
(* terminal receipt is returned as it is, and an error becomes FAILED      *)
(* coverage, also for a partition that is archived (its lock is held, its  *)
(* receipt or its manifest cannot be read).                                *)
ArchiveRaw(r) ==
    /\ pc[r] = "raw"
    /\ \/ /\ archived' = archived \cup {Slot(r)}
          /\ Goto(r, "mark")
          /\ UNCHANGED bounds
       \/ /\ archived' \in {archived, archived \cup {Slot(r)}}
          /\ Fault
          /\ SaveAs(r, "FAILED")
    /\ UNCHANGED <<journal, reused, coverage, packed, object, sealed, reports, scanning>>

(* progress_store.mark_reused is not guarded: what it raises ends the run. *)
MarkReused(r) ==
    /\ pc[r] = "mark"
    /\ \/ /\ reused' = reused \cup {Slot(r)}
          /\ SaveAs(r, "DATA_PRESENT")
          /\ UNCHANGED bounds
       \/ Fault /\ Quit(r) /\ UNCHANGED reused
    /\ UNCHANGED <<journal, archived, coverage, packed, object, sealed, reports, scanning>>

SaveCoverage(r) ==
    /\ pc[r] = "save"
    /\ coverage' = [coverage EXCEPT ![Slot(r)] = verdict[r]]
    /\ Goto(r, "pack")
    /\ UNCHANGED <<journal, archived, reused, packed, object, sealed, reports,
                   scanning, bounds>>

NextSlot(r) ==
    /\ pc' = [pc EXCEPT ![r] = IF slot[r] = LastFeed THEN "report" ELSE "slot"]
    /\ slot' = [slot EXCEPT ![r] = @ + 1]
    /\ failed' = [failed EXCEPT ![r] = @ \/ verdict[r] = "FAILED"]
    /\ verdict' = [verdict EXCEPT ![r] = "FAILED"]
    /\ UNCHANGED <<lock, target>>

(* coverage_archive.finalize_artifact up to the upload.  A verified        *)
(* receipt is returned whatever the file holds now.  A compressed file     *)
(* that an attempt before left is never replaced, and it is another one's: *)
(* every attempt stamps its own closed_at_utc (to the second; two attempts *)
(* at a slot are further apart than that), so _verify_compressed raises.   *)
PackCoverage(r) ==
    /\ pc[r] = "pack"
    /\ \/ /\ Slot(r) \in sealed
          /\ NextSlot(r)
          /\ UNCHANGED <<packed, bounds>>
       \/ /\ Slot(r) \in packed \ sealed
          /\ Quit(r)
          /\ UNCHANGED <<packed, bounds>>
       \/ /\ Slot(r) \notin packed
          /\ packed' = packed \cup {Slot(r)}
          /\ Goto(r, "upload")
          /\ UNCHANGED bounds
       \/ Fault /\ Quit(r) /\ UNCHANGED packed
    /\ UNCHANGED <<journal, archived, reused, coverage, object, sealed, reports, scanning>>

UploadCoverage(r) ==
    /\ pc[r] = "upload"
    /\ \/ /\ object' = [object EXCEPT ![Slot(r)] = coverage[Slot(r)]]
          /\ Goto(r, "verify")
          /\ UNCHANGED bounds
       \/ Fault /\ Quit(r) /\ UNCHANGED object
    /\ UNCHANGED <<journal, archived, reused, coverage, packed, sealed, reports, scanning>>

VerifyCoverage(r) ==
    /\ pc[r] = "verify"
    /\ \/ /\ sealed' = sealed \cup {Slot(r)}
          /\ NextSlot(r)
          /\ UNCHANGED bounds
       \/ Fault /\ Quit(r) /\ UNCHANGED sealed
    /\ UNCHANGED <<journal, archived, reused, coverage, packed, object, reports, scanning>>

ReportOf(r) == IF failed[r] THEN "FAIL" ELSE "PASS"

(* cohort_<hour>_finalized.json; the full scan is only for a PASS.         *)
WriteReport(r) ==
    /\ pc[r] = "report"
    /\ report' = [report EXCEPT ![target[r]] = ReportOf(r)]
    /\ IF failed[r] THEN Quit(r) ELSE Goto(r, "launch")
    /\ UNCHANGED <<journal, evidence, scan, scanning, bounds>>

----------------------------------------------------------------------------
(* launch_detached_full_scan and run_full_scan_supervisor.                 *)

HasFiles(h) == \E f \in Feeds : journal[h][f] = "some"

(* Mutant: an hour that passed is scanned again.                           *)
AlwaysScans(h) == HasFiles(h) /\ scanLock = None

MayScan(h) == HasFiles(h) /\ scan[h] # "PASS" /\ scanLock = None

(* Refused when the hour has no files, has passed, or the flock is held.   *)
LaunchScan(r) ==
    /\ pc[r] = "launch"
    /\ IF MayScan(target[r])
          THEN /\ supervisor' = [supervisor EXCEPT ![target[r]] = "starting"]
               /\ Goto(r, "await")
          ELSE Quit(r) /\ UNCHANGED supervisor
    /\ UNCHANGED <<journal, evidence, reports, scanLock, scanner, orphan, bounds>>

(* The launcher has seen the flock held, seen the process exit, or waited  *)
(* two seconds.                                                            *)
Launched(r) ==
    /\ pc[r] = "await"
    /\ Quit(r)
    /\ UNCHANGED <<journal, evidence, reports, scanning, bounds>>

SupervisorLocks(h) ==
    /\ supervisor[h] = "starting" /\ scanLock = None
    /\ scanLock' = h
    /\ supervisor' = [supervisor EXCEPT ![h] = "running"]
    /\ scanner' = scanner \cup {h}
    /\ UNCHANGED <<journal, evidence, reports, orphan, lock, pc, locals, bounds>>

(* The flock is held, or a runner that probes it holds it for a moment:    *)
(* "Another full-scan is already active".                                  *)
SupervisorRefused(h) ==
    /\ supervisor[h] = "starting"
    /\ scanLock # None \/ \E r \in Runners : pc[r] \in {"probe", "launch", "await"}
    /\ supervisor' = [supervisor EXCEPT ![h] = "none"]
    /\ UNCHANGED <<journal, evidence, reports, scanLock, scanner, orphan, lock, pc,
                   locals, bounds>>

(* full_scan passes, or fails for a reason that is gone at the next try.   *)
ScanResult(h) ==
    \/ scan' = [scan EXCEPT ![h] = "PASS"] /\ UNCHANGED bounds
    \/ scan' = [scan EXCEPT ![h] = "FAIL"] /\ Fault

(* The scanner writes its own report; the supervisor does not know it yet. *)
ScannerReports(h) ==
    /\ h \in scanner
    /\ scanner' = scanner \ {h}
    /\ ScanResult(h)
    /\ UNCHANGED <<journal, evidence, report, lock, scanLock, supervisor, orphan,
                   pc, locals>>

OrphanReports(h) ==
    /\ h \in orphan
    /\ orphan' = orphan \ {h}
    /\ ScanResult(h)
    /\ UNCHANGED <<journal, evidence, report, lock, scanLock, supervisor, scanner,
                   pc, locals>>

ReleaseScan(h) ==
    /\ supervisor' = [supervisor EXCEPT ![h] = "none"]
    /\ scanLock' = None

(* Mutant: the flock outlives a supervisor that timed out.                 *)
KeepScan(h) ==
    /\ supervisor' = [supervisor EXCEPT ![h] = "none"]
    /\ UNCHANGED scanLock

AfterTimeout(h) == ReleaseScan(h)

SupervisorEnds(h) ==
    /\ supervisor[h] = "running" /\ h \notin scanner
    /\ ReleaseScan(h)
    /\ UNCHANGED <<journal, evidence, reports, scanner, orphan, lock, pc, locals,
                   bounds>>

(* The scanner dies without a report of its own: CHILD_EXIT, unless an     *)
(* earlier report is there.                                                *)
ScannerDies(h) ==
    /\ supervisor[h] = "running" /\ h \in scanner
    /\ Fault
    /\ scanner' = scanner \ {h}
    /\ scan' = [scan EXCEPT ![h] = IF @ = None THEN "FAIL" ELSE @]
    /\ ReleaseScan(h)
    /\ UNCHANGED <<journal, evidence, report, orphan, lock, pc, locals>>

(* The wall clock runs out: the scanner's group is killed and TIMEOUT is   *)
(* written, also over a report the scanner has just written.               *)
ScanTimesOut(h) ==
    /\ supervisor[h] = "running"
    /\ Fault
    /\ scanner' = scanner \ {h}
    /\ scan' = [scan EXCEPT ![h] = "FAIL"]
    /\ AfterTimeout(h)
    /\ UNCHANGED <<journal, evidence, report, orphan, lock, pc, locals>>

----------------------------------------------------------------------------
(* Crashes.  A flock does not survive its holder; a scanner, in a session  *)
(* of its own, survives its supervisor.  A runner that died is started     *)
(* again later, under the same name.                                       *)

RunnerCrash(r) ==
    /\ pc[r] # "idle" /\ crashes < MaxCrashes
    /\ crashes' = crashes + 1
    /\ Quit(r)
    /\ UNCHANGED <<journal, evidence, reports, scanning, manual, faults>>

SupervisorCrash(h) ==
    /\ supervisor[h] # "none" /\ crashes < MaxCrashes
    /\ crashes' = crashes + 1
    /\ supervisor' = [supervisor EXCEPT ![h] = "none"]
    /\ scanLock' = IF supervisor[h] = "running" THEN None ELSE scanLock
    /\ scanner' = scanner \ {h}
    /\ orphan' = orphan \cup (scanner \cap {h})
    /\ UNCHANGED <<journal, evidence, reports, lock, pc, locals, manual, faults>>

----------------------------------------------------------------------------

RunnerStep(r) ==
    \/ Claim(r)
    \/ BeginSlot(r)
    \/ ArchiveRaw(r)
    \/ MarkReused(r)
    \/ SaveCoverage(r)
    \/ PackCoverage(r)
    \/ UploadCoverage(r)
    \/ VerifyCoverage(r)
    \/ WriteReport(r)
    \/ LaunchScan(r)
    \/ Launched(r)

ScanStep(h) ==
    \/ SupervisorLocks(h)
    \/ SupervisorRefused(h)
    \/ ScannerReports(h)
    \/ OrphanReports(h)
    \/ SupervisorEnds(h)
    \/ ScannerDies(h)
    \/ ScanTimesOut(h)

HoursNext ==
    \/ \E h \in Hours : Freeze(h) \/ ScanStep(h) \/ SupervisorCrash(h)
    \/ Discover
    \/ Probe
    \/ \E r \in Runners : RunByHand(r) \/ RunnerStep(r) \/ RunnerCrash(r)

HoursSpec == HoursInit /\ [][HoursNext]_vars

(* The scheduler polls for ever and every process that runs goes on; a     *)
(* probe holds the scan flock for microseconds, so a supervisor that is    *)
(* started again and again gets it in the end.                             *)
HoursFairness ==
    /\ WF_vars(Discover) /\ WF_vars(Probe)
    /\ \A r \in Runners : WF_vars(RunnerStep(r))
    /\ \A h \in Hours :
          /\ WF_vars(ScannerReports(h)) /\ WF_vars(SupervisorEnds(h))
          /\ SF_vars(SupervisorLocks(h))

FairHoursSpec == HoursSpec /\ HoursFairness

----------------------------------------------------------------------------

(* A PASS in an hour's finalized report is earned, whichever runs wrote    *)
(* which part, died or raised on the way (finalize_slot: "RAW stage must   *)
(* precede coverage").  While it stands no feed has a gap, every coverage  *)
(* object has a verified receipt, and every feed with events has its raw   *)
(* partition archived and marked REUSED; and when it is written over       *)
(* anything else, no feed's coverage file is FAILED or missing.            *)
Kept(h, f) ==
    /\ journal[h][f] # "gap"
    /\ <<h, f>> \in sealed
    /\ journal[h][f] = "some" => <<h, f>> \in archived \cap reused

PassIsEarned ==
    [][\A h \in Hours, f \in Feeds : report'[h] = "PASS" =>
          /\ Kept(h, f)'
          /\ report[h] = "PASS" \/ coverage[<<h, f>>] \notin {"FAILED", None}]_vars

(* Once no full-scan process of a completed hour is left (a scanner that   *)
(* lost its supervisor, or a supervisor's TIMEOUT, may still write FAIL),  *)
(* its scan keeps its PASS, no new scan starts, and nothing but a run that *)
(* met a failed slot, whose FAILED coverage is there, takes the report's   *)
(* PASS back.                                                              *)
ScanOver(h) == h \notin scanner \cup orphan /\ supervisor[h] = "none"

FailedSlot(h) == \E f \in Feeds : coverage[<<h, f>>] = "FAILED"

CompletedStays ==
    [][\A h \in Hours : Completed(h) /\ ScanOver(h) =>
          /\ ScanOver(h)' /\ scan'[h] = "PASS"
          /\ Completed(h)' \/ (report'[h] = "FAIL" /\ FailedSlot(h)')]_vars

(* The scheduler gets on: an hour with data and no gap, after hours of     *)
(* that kind only, is completed in the end, whatever raises or dies a      *)
(* bounded number of times; the exception is an hour with a compressed     *)
(* coverage file whose attempt ended before its receipt was verified,      *)
(* which no retry can repair.                                              *)
Sound(h) ==
    journal[h] # None /\ HasFiles(h) /\ \A f \in Feeds : journal[h][f] # "gap"

Wedged(h) ==
    \E f \in Feeds :
        /\ <<h, f>> \in packed \ sealed
        /\ \A r \in Runners : ~(pc[r] \in {"upload", "verify"} /\ Slot(r) = <<h, f>>)

HourCompletes ==
    \A h \in Hours :
        (\A g \in 1..h : Sound(g)) ~> (Completed(h) \/ \E g \in 1..h : Wedged(g))

(* "It proves every cohort is processed once": every frozen hour gets a    *)
(* report of its own.                                                      *)
EveryHourIsTried == \A h \in Hours : journal[h] # None ~> report[h] # None

(* The coverage object an hour's PASS rests on is the coverage the hour    *)
(* ended with, when no run is at it.                                       *)
PassIsArchived ==
    (\A r \in Runners : pc[r] = "idle") =>
        \A s \in Slots : report[s[1]] = "PASS" => object[s] = coverage[s]

(* "The archive scheduler archives the resulting coverage object and       *)
(* completes its separate terminal receipt": coverage that was saved is    *)
(* sealed in the end.                                                      *)
CoverageIsSealed == \A s \in Slots : coverage[s] # None ~> s \in sealed

(* "Completed cohorts stay completed", once nothing of the hour runs.      *)
CompletedForGood ==
    [][\A h \in Hours : Completed(h) /\ ScanOver(h) => Completed(h)']_vars
=============================================================================
