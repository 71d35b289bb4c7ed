-------------------------- MODULE ClosedHoursProofs --------------------------
(***************************************************************************)
(* A PASS is earned, and nothing but a run that met a failed slot takes a  *)
(* completed hour back, for any number of hours, feeds and runners, faults *)
(* and crashes: the flock keeps the runs apart, so that the coverage files *)
(* behind a run are as it left them when it writes its report, and what is *)
(* archived, marked and sealed stays so.                                   *)
(***************************************************************************)
EXTENDS ClosedHours, TLAPS

(* What a run has found at a slot that did not fail, and at one that did.  *)
Earned(h, f) == Kept(h, f) /\ coverage[<<h, f>>] \notin {"FAILED", None}

Marked(h, f) == coverage[<<h, f>>] = "FAILED"

(* What a verdict says of the slot it was reached for.                     *)
Stands(v, h, f) ==
    /\ v = "VERIFIED_ZERO_EVENT" => journal[h][f] = "zero"
    /\ v = "DATA_PRESENT" =>
         journal[h][f] = "some" /\ <<h, f>> \in archived /\ <<h, f>> \in reused

AtSlot == {"slot", "raw", "mark", "save", "pack", "upload", "verify"}
AtWork == AtSlot \cup {"report", "launch", "await"}

(* What a runner's place in its run says of the files.                     *)
Placed(r) ==
    /\ pc[r] # "idle" => journal[target[r]] # None
    /\ pc[r] \notin AtWork => slot[r] = 1 /\ failed[r] = FALSE /\ lock # r
    /\ pc[r] \in AtWork => lock = r
    /\ pc[r] \in AtSlot => slot[r] \in Feeds
    /\ pc[r] \in {"raw", "mark"} => journal[target[r]][slot[r]] = "some"
    /\ pc[r] = "mark" => <<target[r], slot[r]>> \in archived
    /\ pc[r] \in {"save", "pack", "upload", "verify"} =>
         Stands(verdict[r], target[r], slot[r])
    /\ pc[r] \in {"pack", "upload", "verify"} =>
         coverage[<<target[r], slot[r]>>] = verdict[r]
    /\ pc[r] = "report" => slot[r] = LastFeed + 1
    /\ pc[r] \in {"launch", "await"} => report[target[r]] # None

(* What it has found at the feeds behind it.                               *)
Tallied(r) ==
    pc[r] \in AtWork =>
        IF failed[r] = TRUE
           THEN \E f \in Feeds : f < slot[r] /\ Marked(target[r], f)
           ELSE \A f \in Feeds : f < slot[r] => Earned(target[r], f)

(* A scan comes after the hour's report, and a report after its journal.   *)
Ordered(h) ==
    /\ report[h] # None => journal[h] # None
    /\ supervisor[h] # "none" \/ h \in scanner \/ h \in orphan \/ scan[h] # None
         => report[h] # None

(* A standing PASS: what cannot be taken back of what it asks.             *)
PassVouched == \A h \in Hours : report[h] = "PASS" => \A f \in Feeds : Kept(h, f)

HoursInv ==
    /\ HoursTypeOK
    /\ \A r \in Runners : Placed(r) /\ Tallied(r)
    /\ \A h \in Hours : Ordered(h)
    /\ PassVouched

-----------------------------------------------------------------------------
(* Type correctness, one step per group of actions.                        *)

RunTypes ==
    /\ lock \in Runners \cup {None}
    /\ pc \in [Runners -> Steps \cup {"idle"}]
    /\ target \in [Runners -> Hours]
    /\ slot \in [Runners -> 1..LastFeed + 1]
    /\ verdict \in [Runners -> Coverages]
    /\ failed \in [Runners -> BOOLEAN]

BoundTypes ==
    manual \in 0..MaxManual /\ faults \in 0..MaxFaults /\ crashes \in 0..MaxCrashes

LEMMA InitTypes == HoursInit => HoursTypeOK
BY HoursAssumption DEF HoursInit, HoursTypeOK, Feeds, Hours, Slots, Coverages

LEMMA QuitTypes ==
    ASSUME HoursTypeOK, NEW r \in Runners, Quit(r)
    PROVE  RunTypes'
BY HoursAssumption DEF HoursTypeOK, RunTypes, Quit, Hours, Coverages

LEMMA GotoTypes ==
    ASSUME HoursTypeOK, NEW r \in Runners, NEW step \in Steps, Goto(r, step)
    PROVE  RunTypes'
BY DEF HoursTypeOK, RunTypes, Goto

LEMMA SaveAsTypes ==
    ASSUME HoursTypeOK, NEW r \in Runners, NEW v \in Coverages, SaveAs(r, v)
    PROVE  RunTypes'
BY DEF HoursTypeOK, RunTypes, SaveAs, Steps

LEMMA NextSlotTypes ==
    ASSUME HoursTypeOK, NEW r \in Runners, slot[r] \in Feeds, NextSlot(r)
    PROVE  RunTypes'
<1>1. slot' \in [Runners -> 1..LastFeed + 1]
  BY HoursAssumption DEF HoursTypeOK, NextSlot, Feeds
<1>2. failed' \in [Runners -> BOOLEAN]
  BY DEF HoursTypeOK, NextSlot
<1> QED
  BY <1>1, <1>2 DEF HoursTypeOK, RunTypes, NextSlot, Steps, Coverages

LEMMA FaultTypes ==
    ASSUME HoursTypeOK, Fault
    PROVE  BoundTypes'
BY HoursAssumption DEF HoursTypeOK, BoundTypes, Fault

LEMMA RunnerTypes ==
    ASSUME HoursTypeOK, NEW r \in Runners, Placed(r), RunnerStep(r)
    PROVE  HoursTypeOK'
<1> USE DEF HoursTypeOK
<1>0. "slot" \in Steps /\ "raw" \in Steps /\ "mark" \in Steps /\ "pack" \in Steps
      /\ "upload" \in Steps /\ "verify" \in Steps /\ "launch" \in Steps /\ "await" \in Steps
      /\ "FAILED" \in Coverages /\ "VERIFIED_ZERO_EVENT" \in Coverages
      /\ "DATA_PRESENT" \in Coverages
  BY DEF Steps, Coverages
<1>1. pc[r] \in {"raw", "mark", "save", "pack", "upload", "verify"} =>
        slot[r] \in Feeds /\ Slot(r) \in Slots
  BY DEF Placed, AtSlot, Slot, Slots
<1>2. CASE Claim(r)
  <2>1. RunTypes'
    BY <1>2, <1>0, QuitTypes DEF Claim, RunTypes, locals
  <2> QED
    BY <1>2, <2>1 DEF Claim, RunTypes, evidence, reports, scanning, bounds
<1>3. CASE BeginSlot(r)
  <2>1. journal[target[r]][slot[r]] \in Observations
    BY <1>3, HoursAssumption DEF BeginSlot, Placed, AtSlot, Hours
  <2>2. RunTypes'
    BY <1>3, <1>0, <2>1, SaveAsTypes, GotoTypes DEF BeginSlot, Observations
  <2> QED
    BY <1>3, <2>2 DEF BeginSlot, RunTypes, evidence, reports, scanning, bounds
<1>4. CASE ArchiveRaw(r)
  <2>1. RunTypes'
    BY <1>4, <1>0, SaveAsTypes, GotoTypes DEF ArchiveRaw
  <2>2. BoundTypes'
    BY <1>4, FaultTypes DEF ArchiveRaw, BoundTypes, bounds
  <2>3. archived' \subseteq Slots
    BY <1>4, <1>1 DEF ArchiveRaw
  <2> QED
    BY <1>4, <2>1, <2>2, <2>3 DEF ArchiveRaw, RunTypes, BoundTypes, reports, scanning
<1>5. CASE MarkReused(r)
  <2>1. RunTypes'
    BY <1>5, <1>0, SaveAsTypes, QuitTypes DEF MarkReused
  <2>2. BoundTypes'
    BY <1>5, FaultTypes DEF MarkReused, BoundTypes, bounds
  <2>3. reused' \subseteq Slots
    BY <1>5, <1>1 DEF MarkReused
  <2> QED
    BY <1>5, <2>1, <2>2, <2>3 DEF MarkReused, RunTypes, BoundTypes, reports, scanning
<1>6. CASE SaveCoverage(r)
  <2>1. RunTypes'
    BY <1>6, <1>0, GotoTypes DEF SaveCoverage
  <2>2. coverage' \in [Slots -> Coverages \cup {None}]
    BY <1>6, <1>1 DEF SaveCoverage
  <2> QED
    BY <1>6, <2>1, <2>2 DEF SaveCoverage, RunTypes, reports, scanning, bounds
<1>12. CASE PackCoverage(r)
  <2>1. RunTypes'
    BY <1>12, <1>0, <1>1, GotoTypes, NextSlotTypes, QuitTypes DEF PackCoverage
  <2>2. BoundTypes'
    BY <1>12, FaultTypes DEF PackCoverage, BoundTypes, bounds
  <2>3. packed' \subseteq Slots
    BY <1>12, <1>1 DEF PackCoverage
  <2> QED
    BY <1>12, <2>1, <2>2, <2>3 DEF PackCoverage, RunTypes, BoundTypes, reports, scanning
<1>7. CASE UploadCoverage(r)
  <2>1. RunTypes'
    BY <1>7, <1>0, <1>1, GotoTypes, QuitTypes DEF UploadCoverage
  <2>2. BoundTypes'
    BY <1>7, FaultTypes DEF UploadCoverage, BoundTypes, bounds
  <2>3. object' \in [Slots -> Coverages \cup {None}]
    BY <1>7, <1>1 DEF UploadCoverage
  <2> QED
    BY <1>7, <2>1, <2>2, <2>3 DEF UploadCoverage, RunTypes, BoundTypes, reports, scanning
<1>8. CASE VerifyCoverage(r)
  <2>1. RunTypes'
    BY <1>8, <1>0, <1>1, NextSlotTypes, QuitTypes DEF VerifyCoverage
  <2>2. BoundTypes'
    BY <1>8, FaultTypes DEF VerifyCoverage, BoundTypes, bounds
  <2>3. sealed' \subseteq Slots
    BY <1>8, <1>1 DEF VerifyCoverage
  <2> QED
    BY <1>8, <2>1, <2>2, <2>3 DEF VerifyCoverage, RunTypes, BoundTypes, reports, scanning
<1>9. CASE WriteReport(r)
  <2>1. RunTypes'
    BY <1>9, <1>0, GotoTypes, QuitTypes DEF WriteReport
  <2>2. report' \in [Hours -> Reports \cup {None}]
    BY <1>9 DEF WriteReport, ReportOf, Reports
  <2> QED
    BY <1>9, <2>1, <2>2 DEF WriteReport, RunTypes, evidence, scanning, bounds
<1>10. CASE LaunchScan(r)
  <2>1. RunTypes'
    BY <1>10, <1>0, GotoTypes, QuitTypes DEF LaunchScan
  <2>2. supervisor' \in [Hours -> {"none", "starting", "running"}]
    BY <1>10 DEF LaunchScan
  <2> QED
    BY <1>10, <2>1, <2>2 DEF LaunchScan, RunTypes, evidence, reports, bounds
<1>11. CASE Launched(r)
  <2>1. RunTypes'
    BY <1>11, <1>0, QuitTypes DEF Launched
  <2> QED
    BY <1>11, <2>1 DEF Launched, RunTypes, evidence, reports, scanning, bounds
<1> QED
  BY <1>2, <1>3, <1>4, <1>5, <1>6, <1>7, <1>8, <1>9, <1>10, <1>11, <1>12 DEF RunnerStep

LEMMA ScanTypes ==
    ASSUME HoursTypeOK, NEW h \in Hours, ScanStep(h) \/ SupervisorCrash(h)
    PROVE  HoursTypeOK'
<1> USE DEF HoursTypeOK
<1>1. CASE SupervisorLocks(h)
  BY <1>1 DEF SupervisorLocks, evidence, reports, locals, bounds
<1>2. CASE SupervisorRefused(h)
  BY <1>2 DEF SupervisorRefused, evidence, reports, locals, bounds
<1>3. ASSUME ScanResult(h)
      PROVE  scan' \in [Hours -> Reports \cup {None}] /\ BoundTypes'
  BY <1>3, FaultTypes DEF ScanResult, Reports, BoundTypes, bounds
<1>4. CASE ScannerReports(h)
  BY <1>4, <1>3 DEF ScannerReports, evidence, locals, BoundTypes
<1>5. CASE OrphanReports(h)
  BY <1>5, <1>3 DEF OrphanReports, evidence, locals, BoundTypes
<1>6. CASE SupervisorEnds(h)
  BY <1>6 DEF SupervisorEnds, ReleaseScan, evidence, reports, locals, bounds
<1>7. CASE ScannerDies(h)
  <2>1. scan' \in [Hours -> Reports \cup {None}]
    BY <1>7 DEF ScannerDies, Reports
  <2>2. BoundTypes'
    BY <1>7, FaultTypes DEF ScannerDies
  <2> QED
    BY <1>7, <2>1, <2>2 DEF ScannerDies, ReleaseScan, evidence, locals, BoundTypes
<1>8. CASE ScanTimesOut(h)
  <2>1. scan' \in [Hours -> Reports \cup {None}]
    BY <1>8 DEF ScanTimesOut, Reports
  <2>2. BoundTypes'
    BY <1>8, FaultTypes DEF ScanTimesOut
  <2> QED
    BY <1>8, <2>1, <2>2 DEF ScanTimesOut, AfterTimeout, ReleaseScan, evidence, locals, BoundTypes
<1>9. CASE SupervisorCrash(h)
  BY <1>9, HoursAssumption DEF SupervisorCrash, evidence, reports, locals
<1> QED
  BY <1>1, <1>2, <1>4, <1>5, <1>6, <1>7, <1>8, <1>9 DEF ScanStep

LEMMA OtherTypes ==
    ASSUME HoursTypeOK,
           \/ \E h \in Hours : Freeze(h)
           \/ Discover \/ Probe
           \/ \E r \in Runners : RunByHand(r) \/ RunnerCrash(r)
    PROVE  HoursTypeOK'
<1> USE DEF HoursTypeOK
<1>1. ASSUME NEW h \in Hours, Freeze(h) PROVE HoursTypeOK'
  <2>1. PICK seen \in [Feeds -> Seen] :
          journal' = [journal EXCEPT ![h] =
                        [f \in Feeds |-> IF h \in Partial THEN "gap" ELSE seen[f]]]
    BY <1>1 DEF Freeze
  <2>2. [f \in Feeds |-> IF h \in Partial THEN "gap" ELSE seen[f]]
          \in [Feeds -> Observations]
    BY HoursAssumption DEF Observations
  <2> QED
    BY <1>1, <2>1, <2>2 DEF Freeze, evidence, reports, scanning, locals, bounds
<1>2. CASE Discover
  BY <1>2, HoursAssumption
  DEF Discover, Eligible, Frozen, Steps, evidence, reports, scanning, bounds
<1>3. CASE Probe
  <2>1. RunTypes'
    BY <1>3, HoursAssumption, QuitTypes, GotoTypes DEF Probe, Steps
  <2> QED
    BY <1>3, <2>1 DEF Probe, RunTypes, evidence, reports, scanning, bounds
<1>4. ASSUME NEW r \in Runners, RunByHand(r) PROVE HoursTypeOK'
  BY <1>4, HoursAssumption DEF RunByHand, Frozen, Steps, evidence, reports, scanning
<1>5. ASSUME NEW r \in Runners, RunnerCrash(r) PROVE HoursTypeOK'
  <2>1. RunTypes'
    BY <1>5, QuitTypes DEF RunnerCrash
  <2> QED
    BY <1>5, <2>1, HoursAssumption DEF RunnerCrash, RunTypes, evidence, reports, scanning
<1> QED
  BY <1>1, <1>2, <1>3, <1>4, <1>5

-----------------------------------------------------------------------------
(* What a step leaves standing.                                            *)

JournalGrows == \A h \in Hours : journal[h] # None => journal'[h] = journal[h]

ReportsStay == \A h \in Hours : report[h] # None => report'[h] # None

Still(q) ==
    /\ pc'[q] = pc[q] /\ target'[q] = target[q] /\ slot'[q] = slot[q]
    /\ verdict'[q] = verdict[q] /\ failed'[q] = failed[q]

(* A runner whose files nobody else writes keeps its place.                *)
LEMMA Undisturbed ==
    ASSUME HoursInv, NEW q \in Runners, Still(q), JournalGrows, ReportsStay,
           UNCHANGED evidence, lock' = lock
    PROVE  Placed(q)' /\ Tallied(q)'
<1>1. target[q] \in Hours /\ Placed(q) /\ Tallied(q)
  BY DEF HoursInv, HoursTypeOK
<1>2. pc[q] # "idle" => journal'[target[q]] = journal[target[q]]
  BY <1>1 DEF Placed, JournalGrows
<1>3. pc[q] \in AtWork => pc[q] # "idle"
  BY DEF AtWork, AtSlot
<1>4. Placed(q)'
  BY <1>1, <1>2, <1>3
  DEF Placed, Still, ReportsStay, evidence, Stands, Marked, AtSlot, AtWork
<1>5. Tallied(q)'
  BY <1>1, <1>2, <1>3 DEF Tallied, Still, evidence, Marked, Earned, Kept
<1> QED
  BY <1>4, <1>5

(* Nor does one that holds no flock depend on the archives.                *)
LEMMA Resting ==
    ASSUME HoursInv, NEW q \in Runners, Still(q), JournalGrows,
           pc[q] \notin AtWork, lock' # q
    PROVE  Placed(q)' /\ Tallied(q)'
<1>1. target[q] \in Hours /\ Placed(q)
  BY DEF HoursInv, HoursTypeOK
<1> QED
  BY <1>1 DEF Placed, Tallied, Still, JournalGrows, AtWork, AtSlot

LEMMA QuitRests ==
    ASSUME HoursInv, NEW r \in Runners, Quit(r)
    PROVE  Placed(r)' /\ Tallied(r)'
BY HoursAssumption DEF HoursInv, HoursTypeOK, Quit, Placed, Tallied, AtWork, AtSlot

LEMMA OneAtWork ==
    ASSUME HoursInv, NEW r \in Runners, pc[r] \in AtWork
    PROVE  lock = r /\ \A q \in Runners \ {r} : pc[q] \notin AtWork
BY DEF HoursInv, Placed

(* What a standing PASS rests on stays.                                    *)
LEMMA PassesStay ==
    ASSUME HoursInv, JournalGrows,
           archived \subseteq archived', reused \subseteq reused', sealed \subseteq sealed',
           \A h \in Hours : report'[h] = "PASS" => report[h] = "PASS"
    PROVE  PassVouched'
<1> SUFFICES ASSUME NEW h \in Hours, report'[h] = "PASS", NEW f \in Feeds
             PROVE  Kept(h, f)'
  BY DEF PassVouched
<1>1. report[h] = "PASS" /\ report[h] # None
  BY HoursAssumption DEF Reports
<1>2. Kept(h, f)
  BY <1>1 DEF HoursInv, PassVouched
<1>3. journal'[h] = journal[h]
  BY <1>1 DEF HoursInv, Ordered, JournalGrows
<1> QED
  BY <1>2, <1>3 DEF Kept

-----------------------------------------------------------------------------
(* The steps of a run, one lemma each: the runner's own place; the others  *)
(* rest meanwhile.                                                         *)

LEMMA RestingOthers ==
    ASSUME HoursInv, NEW r \in Runners, pc[r] \in AtWork, UNCHANGED journal,
           lock' \in {r, None}, \A q \in Runners \ {r} : Still(q)
    PROVE  \A q \in Runners \ {r} : Placed(q)' /\ Tallied(q)'
BY OneAtWork, Resting, HoursAssumption DEF JournalGrows

LEMMA OthersStill ==
    ASSUME HoursInv, NEW r \in Runners,
           \/ Quit(r) \/ \E step \in Steps : Goto(r, step)
           \/ \E v \in Coverages : SaveAs(r, v)
           \/ NextSlot(r)
    PROVE  \A q \in Runners \ {r} : Still(q)
BY DEF HoursInv, HoursTypeOK, Still, Quit, Goto, SaveAs, NextSlot

LEMMA BeginSlotPlaced ==
    ASSUME HoursInv, NEW r \in Runners, BeginSlot(r)
    PROVE  Placed(r)' /\ Tallied(r)'
<1>1. Placed(r) /\ Tallied(r) /\ target[r] \in Hours /\ pc[r] = "slot" /\ pc[r] \in AtWork
  BY DEF HoursInv, HoursTypeOK, BeginSlot, AtWork, AtSlot
<1>2. UNCHANGED evidence /\ UNCHANGED journal /\ UNCHANGED lock /\ UNCHANGED report
      /\ UNCHANGED target /\ UNCHANGED slot /\ UNCHANGED failed
  BY DEF BeginSlot, SaveAs, Goto, reports
<1>3. \/ pc'[r] = "raw" /\ journal[target[r]][slot[r]] = "some"
      \/ pc'[r] = "save" /\ verdict'[r] = "FAILED" /\ journal[target[r]][slot[r]] = "gap"
      \/ /\ pc'[r] = "save" /\ verdict'[r] = "VERIFIED_ZERO_EVENT"
         /\ journal[target[r]][slot[r]] = "zero"
  BY DEF BeginSlot, SaveAs, Goto, HoursInv, HoursTypeOK
<1>4. Placed(r)'
  BY <1>1, <1>2, <1>3 DEF Placed, Stands, Marked, AtWork, AtSlot, evidence
<1>5. Tallied(r)'
  BY <1>1, <1>2 DEF Tallied, Marked, Earned, Kept, evidence
<1> QED
  BY <1>4, <1>5

LEMMA ArchiveRawPlaced ==
    ASSUME HoursInv, NEW r \in Runners, ArchiveRaw(r)
    PROVE  Placed(r)' /\ Tallied(r)'
<1>1. Placed(r) /\ Tallied(r) /\ target[r] \in Hours /\ pc[r] = "raw" /\ pc[r] \in AtWork
      /\ slot[r] \in Feeds
  BY DEF HoursInv, HoursTypeOK, ArchiveRaw, AtWork, AtSlot, Placed
<1>2. /\ UNCHANGED <<journal, reused, coverage, sealed, report, lock, target, slot, failed>>
      /\ archived \subseteq archived' /\ archived' \subseteq archived \cup {Slot(r)}
  BY DEF ArchiveRaw, SaveAs, Goto, reports
<1>3. \/ pc'[r] = "mark" /\ Slot(r) \in archived'
      \/ pc'[r] = "save" /\ verdict'[r] = "FAILED"
  BY DEF ArchiveRaw, SaveAs, Goto, HoursInv, HoursTypeOK
<1>4. Placed(r)'
  BY <1>1, <1>2, <1>3 DEF Placed, Stands, Marked, AtWork, AtSlot, Slot
<1>5. ASSUME NEW f \in Feeds, f < slot[r]
      PROVE  /\ Marked(target[r], f) => Marked(target[r], f)'
             /\ Earned(target[r], f) => Earned(target[r], f)'
  BY <1>1, <1>2, <1>5, HoursAssumption DEF Marked, Earned, Kept, Slot, Feeds
<1>6. Tallied(r)'
  BY <1>1, <1>2, <1>5 DEF Tallied, Marked, Earned, Kept
<1> QED
  BY <1>4, <1>6

LEMMA MarkReusedPlaced ==
    ASSUME HoursInv, NEW r \in Runners, MarkReused(r)
    PROVE  Placed(r)' /\ Tallied(r)'
<1>1. CASE Quit(r)
  BY <1>1, QuitRests
<1>2. CASE ~Quit(r)
  <2>1. Placed(r) /\ Tallied(r) /\ target[r] \in Hours /\ pc[r] = "mark"
        /\ pc[r] \in AtWork /\ slot[r] \in Feeds
    BY DEF HoursInv, HoursTypeOK, MarkReused, AtWork, AtSlot, Placed
  <2>2. /\ UNCHANGED <<journal, archived, coverage, sealed, report, lock, target, slot, failed>>
        /\ reused' = reused \cup {Slot(r)}
        /\ pc'[r] = "save" /\ verdict'[r] = "DATA_PRESENT"
    BY <1>2 DEF MarkReused, SaveAs, reports, HoursInv, HoursTypeOK
  <2>3. Placed(r)'
    BY <2>1, <2>2 DEF Placed, Stands, Marked, AtWork, AtSlot, Slot
  <2>4. Tallied(r)'
    BY <2>1, <2>2 DEF Tallied, Marked, Earned, Kept
  <2> QED
    BY <2>3, <2>4
<1> QED
  BY <1>1, <1>2

LEMMA SaveCoveragePlaced ==
    ASSUME HoursInv, NEW r \in Runners, SaveCoverage(r)
    PROVE  Placed(r)' /\ Tallied(r)'
<1>1. /\ Placed(r) /\ Tallied(r) /\ target[r] \in Hours /\ pc[r] = "save"
      /\ pc[r] \in AtWork /\ slot[r] \in Feeds
      /\ coverage \in [Slots -> Coverages \cup {None}]
      /\ Slot(r) \in Slots
  BY DEF HoursInv, HoursTypeOK, SaveCoverage, AtWork, AtSlot, Placed, Slot, Slots
<1>2. /\ UNCHANGED <<journal, archived, reused, sealed, report, lock, target, slot, failed>>
      /\ coverage' = [coverage EXCEPT ![Slot(r)] = verdict[r]]
      /\ pc'[r] = "pack" /\ verdict'[r] = verdict[r]
  BY DEF SaveCoverage, Goto, reports, HoursInv, HoursTypeOK
<1>3. Placed(r)'
  BY <1>1, <1>2 DEF Placed, Stands, Marked, AtWork, AtSlot, Slot
<1>4. ASSUME NEW f \in Feeds, f < slot[r]
      PROVE  coverage'[<<target[r], f>>] = coverage[<<target[r], f>>]
  <2>1. <<target[r], f>> # Slot(r) /\ <<target[r], f>> \in Slots
    BY <1>1, <1>4, HoursAssumption DEF Slot, Feeds, Slots
  <2> QED
    BY <1>1, <1>2, <2>1
<1>5. Tallied(r)'
  BY <1>1, <1>2, <1>4 DEF Tallied, Marked, Earned, Kept
<1> QED
  BY <1>3, <1>5

(* A slot with a verdict that stands and a sealed object is earned, unless *)
(* the verdict is FAILED.                                                  *)
LEMMA NextSlotPlaced ==
    ASSUME HoursInv, NEW r \in Runners, NextSlot(r), pc[r] \in {"pack", "verify"},
           UNCHANGED <<journal, archived, reused, coverage, report>>,
           sealed' = sealed \cup {Slot(r)}
    PROVE  Placed(r)' /\ Tallied(r)'
<1>1. /\ Placed(r) /\ Tallied(r) /\ target[r] \in Hours
      /\ pc[r] \in AtWork /\ slot[r] \in Feeds /\ verdict[r] \in Coverages
      /\ Stands(verdict[r], target[r], slot[r])
      /\ coverage[Slot(r)] = verdict[r]
  BY DEF HoursInv, HoursTypeOK, AtWork, AtSlot, Placed, Slot
<1>2. /\ UNCHANGED <<lock, target>>
      /\ slot'[r] = slot[r] + 1
      /\ pc'[r] = IF slot[r] = LastFeed THEN "report" ELSE "slot"
  BY DEF NextSlot, HoursInv, HoursTypeOK
<1>2a. failed[r] \in BOOLEAN /\ failed'[r] = (failed[r] \/ verdict[r] = "FAILED")
  BY DEF NextSlot, HoursInv, HoursTypeOK
<1>2b. failed[r] = TRUE \/ verdict[r] = "FAILED" => failed'[r] = TRUE
  BY <1>2a, Zenon
<1>2c. failed[r] # TRUE /\ verdict[r] # "FAILED" => failed'[r] # TRUE
  BY <1>2a, Zenon
<1>3. slot[r] # LastFeed => slot'[r] \in Feeds
  BY <1>1, <1>2, HoursAssumption DEF Feeds
<1>4. Placed(r)'
  BY <1>1, <1>2, <1>3 DEF Placed, AtWork, AtSlot
<1>5. \A f \in Feeds : f < slot'[r] <=> f < slot[r] \/ f = slot[r]
  BY <1>1, <1>2, HoursAssumption DEF Feeds
<1>6. PICK h \in Hours, g \in Feeds : h = target[r] /\ g = slot[r]
  BY <1>1
<1>7. /\ verdict[r] = "FAILED" => Marked(h, g)'
      /\ verdict[r] # "FAILED" => Earned(h, g)'
  BY <1>1, <1>2, <1>6, HoursAssumption DEF Stands, Marked, Earned, Kept, Slot, Coverages
<1>8. \A f \in Feeds : /\ Marked(h, f) => Marked(h, f)'
                       /\ Earned(h, f) => Earned(h, f)'
  BY <1>2 DEF Marked, Earned, Kept
<1>9. target'[r] = h
  BY <1>2, <1>6
<1>10. CASE failed[r] = TRUE \/ verdict[r] = "FAILED"
  <2>1. failed'[r] = TRUE
    BY <1>2b, <1>10
  <2>2. \E f \in Feeds : f < slot'[r] /\ Marked(h, f)'
    <3>1. CASE failed[r] = TRUE
      BY <1>1, <1>5, <1>6, <1>8, <3>1 DEF Tallied
    <3>2. CASE verdict[r] = "FAILED"
      BY <1>1, <1>5, <1>6, <1>7, <3>2
    <3> QED
      BY <1>10, <3>1, <3>2
  <2> QED
    BY <1>4, <1>9, <2>1, <2>2 DEF Tallied, Marked
<1>11. CASE failed[r] # TRUE /\ verdict[r] # "FAILED"
  <2>1. failed'[r] # TRUE
    BY <1>2c, <1>11
  <2>2. \A f \in Feeds : f < slot'[r] => Earned(h, f)'
    BY <1>1, <1>5, <1>6, <1>7, <1>8, <1>11 DEF Tallied
  <2> QED
    BY <1>4, <1>9, <2>1, <2>2 DEF Tallied, Earned, Kept
<1> QED
  BY <1>10, <1>11

LEMMA PackPlaced ==
    ASSUME HoursInv, NEW r \in Runners, PackCoverage(r)
    PROVE  Placed(r)' /\ Tallied(r)'
<1>0. pc[r] = "pack" /\ UNCHANGED <<journal, archived, reused, coverage, sealed, report>>
  BY DEF PackCoverage, reports
<1>1. CASE Quit(r)
  BY <1>1, QuitRests
<1>2. CASE Slot(r) \in sealed /\ NextSlot(r)
  BY <1>0, <1>2, NextSlotPlaced
<1>3. CASE Goto(r, "upload")
  <2>1. Placed(r) /\ Tallied(r) /\ target[r] \in Hours
    BY DEF HoursInv, HoursTypeOK
  <2>2. UNCHANGED <<lock, target, slot, verdict, failed>> /\ pc'[r] = "upload"
    BY <1>3 DEF Goto, HoursInv, HoursTypeOK
  <2>3. Placed(r)'
    BY <1>0, <2>1, <2>2 DEF Placed, Stands, AtSlot, AtWork
  <2>4. Tallied(r)'
    BY <1>0, <2>1, <2>2 DEF Tallied, Marked, Earned, Kept, AtWork, AtSlot
  <2> QED
    BY <2>3, <2>4
<1> QED
  BY <1>1, <1>2, <1>3 DEF PackCoverage

LEMMA UploadPlaced ==
    ASSUME HoursInv, NEW r \in Runners, UploadCoverage(r)
    PROVE  Placed(r)' /\ Tallied(r)'
<1>0. pc[r] = "upload" /\ UNCHANGED <<journal, archived, reused, coverage, sealed, report>>
  BY DEF UploadCoverage, reports
<1>1. CASE Quit(r)
  BY <1>1, QuitRests
<1>3. CASE Goto(r, "verify")
  <2>1. Placed(r) /\ Tallied(r) /\ target[r] \in Hours
    BY DEF HoursInv, HoursTypeOK
  <2>2. UNCHANGED <<lock, target, slot, verdict, failed>> /\ pc'[r] = "verify"
    BY <1>3 DEF Goto, HoursInv, HoursTypeOK
  <2>3. Placed(r)'
    BY <1>0, <2>1, <2>2 DEF Placed, Stands, Marked, AtWork, AtSlot
  <2>4. Tallied(r)'
    BY <1>0, <2>1, <2>2 DEF Tallied, Marked, Earned, Kept, AtWork, AtSlot
  <2> QED
    BY <2>3, <2>4
<1> QED
  BY <1>1, <1>3 DEF UploadCoverage

LEMMA VerifyPlaced ==
    ASSUME HoursInv, NEW r \in Runners, VerifyCoverage(r)
    PROVE  Placed(r)' /\ Tallied(r)'
BY QuitRests, NextSlotPlaced DEF VerifyCoverage, reports

LEMMA WriteReportPlaced ==
    ASSUME HoursInv, NEW r \in Runners, WriteReport(r)
    PROVE  Placed(r)' /\ Tallied(r)'
<1>1. CASE Quit(r)
  BY <1>1, QuitRests
<1>2. CASE failed[r] # TRUE /\ Goto(r, "launch")
  <2>1. Placed(r) /\ Tallied(r) /\ target[r] \in Hours /\ pc[r] = "report"
        /\ report \in [Hours -> Reports \cup {None}]
    BY DEF WriteReport, HoursInv, HoursTypeOK
  <2>2. UNCHANGED <<lock, target, slot, failed, journal>> /\ UNCHANGED evidence
        /\ pc'[r] = "launch" /\ report'[target[r]] \in Reports
    BY <1>2, <2>1 DEF WriteReport, ReportOf, Reports, Goto, HoursInv, HoursTypeOK
  <2>3. Placed(r)'
    BY <2>1, <2>2, HoursAssumption DEF Placed, AtWork, AtSlot
  <2>4. Tallied(r)'
    BY <2>1, <2>2 DEF Tallied, Marked, Earned, Kept, AtWork, AtSlot, evidence
  <2> QED
    BY <2>3, <2>4
<1> QED
  BY <1>1, <1>2 DEF WriteReport

LEMMA LaunchPlaced ==
    ASSUME HoursInv, NEW r \in Runners, LaunchScan(r)
    PROVE  Placed(r)' /\ Tallied(r)'
<1>1. CASE Quit(r)
  BY <1>1, QuitRests
<1>2. CASE Goto(r, "await")
  <2>1. Placed(r) /\ Tallied(r) /\ target[r] \in Hours /\ pc[r] = "launch"
    BY DEF LaunchScan, HoursInv, HoursTypeOK
  <2>2. UNCHANGED <<lock, target, slot, failed, journal, report>> /\ UNCHANGED evidence
        /\ pc'[r] = "await"
    BY <1>2 DEF LaunchScan, Goto, HoursInv, HoursTypeOK, reports
  <2>3. Placed(r)'
    BY <2>1, <2>2 DEF Placed, AtWork, AtSlot
  <2>4. Tallied(r)'
    BY <2>1, <2>2 DEF Tallied, Marked, Earned, Kept, AtWork, AtSlot, evidence
  <2> QED
    BY <2>3, <2>4
<1> QED
  BY <1>1, <1>2 DEF LaunchScan

LEMMA ClaimPlaced ==
    ASSUME HoursInv, NEW r \in Runners, Claim(r)
    PROVE  \A q \in Runners : Placed(q)' /\ Tallied(q)'
<1>1. UNCHANGED journal /\ UNCHANGED evidence /\ UNCHANGED report
  BY DEF Claim, reports
<1>2. CASE Quit(r)
  <2>1. lock' = lock
    BY <1>2 DEF Claim, Quit, HoursInv, Placed, AtWork, AtSlot
  <2>2. ASSUME NEW q \in Runners \ {r} PROVE Placed(q)' /\ Tallied(q)'
    BY <1>1, <1>2, <2>1, OthersStill, Undisturbed DEF JournalGrows, ReportsStay
  <2> QED
    BY <1>2, <2>2, QuitRests
<1>3. CASE lock = None /\ lock' = r /\ pc' = [pc EXCEPT ![r] = "slot"] /\ UNCHANGED locals
  <2>1. \A q \in Runners : pc[q] \notin AtWork
    BY <1>3, HoursAssumption DEF HoursInv, Placed
  <2>2. ASSUME NEW q \in Runners \ {r} PROVE Placed(q)' /\ Tallied(q)'
    <3>1. Still(q)
      BY <1>3 DEF Still, locals, HoursInv, HoursTypeOK
    <3> QED
      BY <1>1, <1>3, <2>1, <3>1, Resting DEF JournalGrows
  <2>3. Placed(r) /\ pc[r] = "claim" /\ 1 \in Feeds
    BY HoursAssumption DEF HoursInv, Claim, Feeds
  <2>4. /\ pc'[r] = "slot" /\ slot'[r] = 1 /\ failed'[r] = FALSE /\ target'[r] = target[r]
        /\ lock' = r
    BY <1>3, <2>3 DEF HoursInv, HoursTypeOK, Placed, AtWork, AtSlot, locals
  <2>5. Placed(r)'
    BY <1>1, <2>3, <2>4 DEF Placed, AtWork, AtSlot
  <2>6. Tallied(r)'
    BY <2>4 DEF Tallied, Feeds
  <2> QED
    BY <2>2, <2>5, <2>6
<1> QED
  BY <1>2, <1>3 DEF Claim

LEMMA WorkPlaced ==
    ASSUME HoursInv, NEW r \in Runners, RunnerStep(r)
    PROVE  \A q \in Runners : Placed(q)' /\ Tallied(q)'
<1>1. CASE Claim(r)
  BY <1>1, ClaimPlaced
<1>2. CASE ~Claim(r)
  <2>1. pc[r] \in AtWork /\ UNCHANGED journal
    BY <1>2 DEF RunnerStep, BeginSlot, ArchiveRaw, MarkReused, SaveCoverage,
                PackCoverage, UploadCoverage, VerifyCoverage, WriteReport, LaunchScan,
                Launched,
                AtWork, AtSlot
  <2>2. \/ Quit(r) \/ \E step \in Steps : Goto(r, step)
        \/ \E v \in Coverages : SaveAs(r, v)
        \/ NextSlot(r)
    BY <1>2 DEF RunnerStep, BeginSlot, ArchiveRaw, MarkReused, SaveCoverage,
                PackCoverage, UploadCoverage, VerifyCoverage, WriteReport, LaunchScan,
                Launched,
                Steps, Coverages
  <2>3. lock' \in {r, None}
    BY <2>1, <2>2, OneAtWork DEF Quit, Goto, SaveAs, NextSlot
  <2>4. \A q \in Runners \ {r} : Placed(q)' /\ Tallied(q)'
    BY <2>1, <2>2, <2>3, OthersStill, RestingOthers
  <2>5. Placed(r)' /\ Tallied(r)'
    BY <1>2, BeginSlotPlaced, ArchiveRawPlaced, MarkReusedPlaced, SaveCoveragePlaced,
       PackPlaced, UploadPlaced, VerifyPlaced, WriteReportPlaced, LaunchPlaced, QuitRests
    DEF RunnerStep, Launched
  <2> QED
    BY <2>4, <2>5
<1> QED
  BY <1>1, <1>2

(* Steps outside the runs.                                                 *)
LEMMA OutsidePlaced ==
    ASSUME HoursInv,
           \E h \in Hours : Freeze(h) \/ ScanStep(h) \/ SupervisorCrash(h)
    PROVE  \A q \in Runners : Placed(q)' /\ Tallied(q)'
<1>1. JournalGrows
  BY DEF Freeze, ScanStep, SupervisorLocks, SupervisorRefused, ScannerReports,
         OrphanReports, SupervisorEnds, ScannerDies, ScanTimesOut, SupervisorCrash,
         JournalGrows, HoursInv, HoursTypeOK
<1>2. UNCHANGED evidence /\ UNCHANGED report /\ UNCHANGED lock /\ UNCHANGED pc
      /\ UNCHANGED locals
  BY DEF Freeze, ScanStep, SupervisorLocks, SupervisorRefused, ScannerReports,
         OrphanReports, SupervisorEnds, ScannerDies, ScanTimesOut, SupervisorCrash,
         reports
<1> QED
  BY <1>1, <1>2, Undisturbed DEF Still, ReportsStay, locals

LEMMA ArrivingPlaced ==
    ASSUME HoursInv,
           Discover \/ Probe \/ \E r \in Runners : RunByHand(r) \/ RunnerCrash(r)
    PROVE  \A q \in Runners : Placed(q)' /\ Tallied(q)'
<1>1. UNCHANGED journal /\ UNCHANGED evidence /\ UNCHANGED report
  BY DEF Discover, Probe, RunByHand, RunnerCrash, reports
<1>2. ASSUME NEW r \in Runners, NEW h \in Hours, pc[r] = "idle", journal[h] # None,
             NEW step \in {"probe", "claim"},
             pc' = [pc EXCEPT ![r] = step], target' = [target EXCEPT ![r] = h],
             UNCHANGED <<lock, slot, verdict, failed>>
      PROVE  \A q \in Runners : Placed(q)' /\ Tallied(q)'
  <2>1. ASSUME NEW q \in Runners \ {r} PROVE Placed(q)' /\ Tallied(q)'
    <3>1. Still(q)
      BY <1>2 DEF Still, HoursInv, HoursTypeOK
    <3> QED
      BY <1>1, <1>2, <3>1, Undisturbed DEF JournalGrows, ReportsStay
  <2>2. Placed(r)
    BY DEF HoursInv
  <2>3. pc'[r] = step /\ target'[r] = h
    BY <1>2 DEF HoursInv, HoursTypeOK
  <2>4. Placed(r)' /\ Tallied(r)'
    BY <1>1, <1>2, <2>2, <2>3 DEF Placed, Tallied, AtWork, AtSlot
  <2> QED
    BY <2>1, <2>4
<1>3. CASE Discover
  BY <1>2, <1>3, HoursAssumption DEF Discover, Eligible, Frozen
<1>4. CASE \E r \in Runners : RunByHand(r)
  BY <1>2, <1>4 DEF RunByHand, Frozen
<1>5. ASSUME NEW r \in Runners, Quit(r), pc[r] \in AtWork
      PROVE  \A q \in Runners : Placed(q)' /\ Tallied(q)'
  <2>1. lock' = None
    BY <1>5, OneAtWork DEF Quit
  <2> QED
    BY <1>1, <1>5, <2>1, QuitRests, OthersStill, RestingOthers
<1>6. ASSUME NEW r \in Runners, Quit(r), pc[r] \notin AtWork
      PROVE  \A q \in Runners : Placed(q)' /\ Tallied(q)'
  <2>1. lock' = lock
    BY <1>6 DEF Quit, HoursInv, Placed
  <2>2. ASSUME NEW q \in Runners \ {r} PROVE Placed(q)' /\ Tallied(q)'
    BY <1>1, <1>6, <2>1, OthersStill, Undisturbed DEF JournalGrows, ReportsStay
  <2> QED
    BY <1>6, <2>2, QuitRests
<1>7. CASE \E r \in Runners : RunnerCrash(r)
  BY <1>5, <1>6, <1>7 DEF RunnerCrash
<1>8. CASE Probe
  <2>1. CASE Quit(Scheduler)
    BY <1>5, <1>6, <2>1, HoursAssumption
  <2>2. CASE Goto(Scheduler, "claim")
    <3>1. ASSUME NEW q \in Runners \ {Scheduler} PROVE Placed(q)' /\ Tallied(q)'
      <4>1. Still(q)
        BY <2>2 DEF Still, Goto, HoursInv, HoursTypeOK
      <4> QED
        BY <1>1, <2>2, <4>1, Undisturbed DEF JournalGrows, ReportsStay, Goto
    <3>2. Placed(Scheduler) /\ pc[Scheduler] = "probe"
      BY <1>8, HoursAssumption DEF HoursInv, Probe
    <3>3. /\ pc'[Scheduler] = "claim" /\ target'[Scheduler] = target[Scheduler]
          /\ slot'[Scheduler] = slot[Scheduler] /\ failed'[Scheduler] = failed[Scheduler]
      BY <2>2, HoursAssumption DEF Goto, HoursInv, HoursTypeOK
    <3>4. Placed(Scheduler)' /\ Tallied(Scheduler)'
      BY <1>1, <2>2, <3>2, <3>3 DEF Placed, Tallied, Goto, AtWork, AtSlot
    <3> QED
      BY <3>1, <3>4
  <2> QED
    BY <1>8, <2>1, <2>2 DEF Probe
<1> QED
  BY <1>3, <1>4, <1>7, <1>8

-----------------------------------------------------------------------------
(* A report follows its journal and a scan its report.                     *)
LEMMA OrderKept ==
    ASSUME HoursInv, HoursNext
    PROVE  \A h \in Hours : Ordered(h)'
<1> USE DEF HoursInv, HoursTypeOK
<1>1. CASE \E h \in Hours : Freeze(h) \/ ScanStep(h) \/ SupervisorCrash(h)
  <2>1. PICK h \in Hours : Freeze(h) \/ ScanStep(h) \/ SupervisorCrash(h)
    BY <1>1
  <2>2. ASSUME NEW g \in Hours PROVE Ordered(g)'
    <3>1. CASE Freeze(h)
      BY <3>1, HoursAssumption DEF Freeze, Ordered, reports, scanning
    <3>2. CASE SupervisorLocks(h) \/ SupervisorRefused(h)
      BY <3>2 DEF SupervisorLocks, SupervisorRefused, Ordered, reports
    <3>3. CASE ScannerReports(h) \/ OrphanReports(h)
      BY <3>3 DEF ScannerReports, OrphanReports, ScanResult, Ordered
    <3>4. CASE SupervisorEnds(h)
      BY <3>4 DEF SupervisorEnds, ReleaseScan, Ordered, reports
    <3>5. CASE ScannerDies(h) \/ ScanTimesOut(h)
      BY <3>5 DEF ScannerDies, ScanTimesOut, AfterTimeout, ReleaseScan, Ordered
    <3>6. CASE SupervisorCrash(h)
      BY <3>6 DEF SupervisorCrash, Ordered, reports
    <3> QED
      BY <2>1, <3>1, <3>2, <3>3, <3>4, <3>5, <3>6 DEF ScanStep
  <2> QED
    BY <2>2
<1>2. ASSUME NEW r \in Runners, WriteReport(r) PROVE \A h \in Hours : Ordered(h)'
  <2>1. journal[target[r]] # None /\ target[r] \in Hours
    BY <1>2 DEF WriteReport, Placed
  <2>2. ReportOf(r) # None
    BY HoursAssumption DEF ReportOf, Reports
  <2> QED
    BY <1>2, <2>1, <2>2 DEF WriteReport, Ordered, scanning
<1>3. ASSUME NEW r \in Runners, LaunchScan(r) PROVE \A h \in Hours : Ordered(h)'
  <2>1. report[target[r]] # None /\ target[r] \in Hours
    BY <1>3 DEF LaunchScan, Placed
  <2> QED
    BY <1>3, <2>1 DEF LaunchScan, Ordered, reports
<1>4. CASE /\ UNCHANGED journal /\ UNCHANGED reports /\ UNCHANGED scanning
  BY <1>4 DEF Ordered, reports, scanning
<1>5. ASSUME NEW r \in Runners, RunnerStep(r) PROVE \A h \in Hours : Ordered(h)'
  BY <1>5, <1>2, <1>3, <1>4
  DEF RunnerStep, Claim, BeginSlot, ArchiveRaw, MarkReused, SaveCoverage,
      PackCoverage, UploadCoverage, VerifyCoverage, Launched
<1> QED
  BY <1>1, <1>4, <1>5 DEF HoursNext, Discover, Probe, RunByHand, RunnerCrash

(* The run that writes a PASS has earned every slot of the hour.           *)
LEMMA ReportEarned ==
    ASSUME HoursInv, NEW r \in Runners, WriteReport(r)
    PROVE  /\ target[r] \in Hours
           /\ report' = [report EXCEPT ![target[r]] = ReportOf(r)]
           /\ UNCHANGED journal /\ UNCHANGED evidence /\ UNCHANGED scan
           /\ UNCHANGED scanning
           /\ IF failed[r] = TRUE
                 THEN ReportOf(r) = "FAIL" /\ \E f \in Feeds : Marked(target[r], f)
                 ELSE ReportOf(r) = "PASS" /\ \A f \in Feeds : Earned(target[r], f)
<1>1. Placed(r) /\ Tallied(r) /\ target[r] \in Hours /\ pc[r] = "report"
      /\ pc[r] \in AtWork
  BY DEF WriteReport, HoursInv, HoursTypeOK, AtWork
<1>2. \A f \in Feeds : f < slot[r]
  BY <1>1, HoursAssumption DEF Placed, Feeds
<1>3. failed[r] \in BOOLEAN /\ (failed[r] = TRUE => ReportOf(r) = "FAIL")
      /\ (failed[r] # TRUE => ReportOf(r) = "PASS")
  BY DEF ReportOf, HoursInv, HoursTypeOK
<1>4. IF failed[r] = TRUE
         THEN ReportOf(r) = "FAIL" /\ \E f \in Feeds : Marked(target[r], f)
         ELSE ReportOf(r) = "PASS" /\ \A f \in Feeds : Earned(target[r], f)
  BY <1>1, <1>2, <1>3 DEF Tallied
<1> QED
  BY <1>1, <1>4 DEF WriteReport

(* No other step writes a report.                                          *)
LEMMA ReportWritten ==
    ASSUME HoursInv, HoursNext, ~ \E r \in Runners : WriteReport(r)
    PROVE  /\ UNCHANGED report /\ JournalGrows
           /\ archived \subseteq archived' /\ reused \subseteq reused'
           /\ sealed \subseteq sealed'
<1>1. CASE \E h \in Hours : Freeze(h) \/ ScanStep(h) \/ SupervisorCrash(h)
  BY <1>1 DEF Freeze, ScanStep, SupervisorLocks, SupervisorRefused, ScannerReports,
         OrphanReports, SupervisorEnds, ScannerDies, ScanTimesOut, SupervisorCrash,
         JournalGrows, reports, evidence, HoursInv, HoursTypeOK
<1>2. CASE Discover \/ Probe \/ \E r \in Runners : RunByHand(r) \/ RunnerCrash(r)
  BY <1>2 DEF Discover, Probe, RunByHand, RunnerCrash, JournalGrows, reports, evidence
<1>3. ASSUME NEW r \in Runners, RunnerStep(r)
      PROVE  /\ UNCHANGED report /\ JournalGrows
             /\ archived \subseteq archived' /\ reused \subseteq reused'
             /\ sealed \subseteq sealed'
  BY <1>3 DEF RunnerStep, Claim, BeginSlot, ArchiveRaw, MarkReused, SaveCoverage,
         PackCoverage, UploadCoverage, VerifyCoverage, LaunchScan, Launched,
         JournalGrows, reports, evidence
<1> QED
  BY <1>1, <1>2, <1>3 DEF HoursNext

LEMMA PassKept ==
    ASSUME HoursInv, HoursNext
    PROVE  /\ PassVouched'
           /\ \A h \in Hours, f \in Feeds : report'[h] = "PASS" =>
                 report[h] = "PASS" \/ coverage[<<h, f>>] \notin {"FAILED", None}
<1>1. CASE ~ \E r \in Runners : WriteReport(r)
  BY <1>1, ReportWritten, PassesStay
<1>2. ASSUME NEW r \in Runners, WriteReport(r)
      PROVE  /\ PassVouched'
             /\ \A h \in Hours, f \in Feeds : report'[h] = "PASS" =>
                   report[h] = "PASS" \/ coverage[<<h, f>>] \notin {"FAILED", None}
  <2>1. /\ report' = [report EXCEPT ![target[r]] = ReportOf(r)]
        /\ UNCHANGED journal /\ UNCHANGED evidence
        /\ ReportOf(r) = "PASS" => \A f \in Feeds : Earned(target[r], f)
    BY <1>2, ReportEarned
  <2>2. ASSUME NEW h \in Hours, NEW f \in Feeds, report'[h] = "PASS"
        PROVE  report[h] = "PASS" \/ Earned(h, f)
    BY <2>1, <2>2 DEF HoursInv, HoursTypeOK
  <2>3. ASSUME NEW h \in Hours, NEW f \in Feeds, report'[h] = "PASS"
        PROVE  Kept(h, f)'
    <3>1. Kept(h, f)
      BY <2>2, <2>3 DEF Earned, HoursInv, PassVouched
    <3> QED
      BY <2>1, <3>1 DEF Kept, evidence
  <2> QED
    BY <2>2, <2>3 DEF PassVouched, Earned
<1> QED
  BY <1>1, <1>2

LEMMA InvInit == HoursInit => HoursInv
<1> SUFFICES ASSUME HoursInit PROVE HoursInv
  OBVIOUS
<1>1. HoursTypeOK
  BY InitTypes
<1>2. \A r \in Runners : Placed(r) /\ Tallied(r)
  BY HoursAssumption DEF HoursInit, Placed, Tallied, AtWork, AtSlot
<1>3. (\A h \in Hours : Ordered(h)) /\ PassVouched
  BY HoursAssumption DEF HoursInit, Ordered, PassVouched, Reports
<1> QED
  BY <1>1, <1>2, <1>3 DEF HoursInv

LEMMA InvStep == HoursInv /\ [HoursNext]_vars => HoursInv'
<1> SUFFICES ASSUME HoursInv, [HoursNext]_vars PROVE HoursInv'
  OBVIOUS
<1>1. CASE HoursNext
  <2>1. HoursTypeOK'
    BY <1>1, RunnerTypes, ScanTypes, OtherTypes DEF HoursNext, HoursInv
  <2>2. \A q \in Runners : Placed(q)' /\ Tallied(q)'
    BY <1>1, WorkPlaced, OutsidePlaced, ArrivingPlaced DEF HoursNext
  <2> QED
    BY <1>1, <2>1, <2>2, OrderKept, PassKept DEF HoursInv
<1>2. CASE UNCHANGED vars
  BY <1>2 DEF vars, evidence, reports, scanning, locals, bounds, HoursInv, HoursTypeOK,
              Placed, Tallied, Ordered, PassVouched, Stands, Marked, Earned, Kept
<1> QED
  BY <1>1, <1>2

THEOREM Invariant == HoursSpec => []HoursInv
BY InvInit, InvStep, PTL DEF HoursSpec

(* Type correctness of the archive's hours.                                *)
THEOREM HoursTypeCorrect == HoursSpec => []HoursTypeOK
<1>1. HoursInv => HoursTypeOK
  BY DEF HoursInv
<1> QED
  BY <1>1, Invariant, PTL

(* A PASS in an hour's report is earned by every feed of the hour, whoever *)
(* ran, raised or died (finalize_slot, orchestrate_closed_hour_archive).   *)
THEOREM PassEarned == HoursSpec => PassIsEarned
<1>1. HoursInv /\ HoursInv' /\ [HoursNext]_vars =>
        [\A h \in Hours, f \in Feeds : report'[h] = "PASS" =>
            /\ Kept(h, f)'
            /\ report[h] = "PASS" \/ coverage[<<h, f>>] \notin {"FAILED", None}]_vars
  <2> SUFFICES ASSUME HoursInv, HoursInv', HoursNext,
                      NEW h \in Hours, NEW f \in Feeds, report'[h] = "PASS"
               PROVE  /\ Kept(h, f)'
                      /\ report[h] = "PASS" \/ coverage[<<h, f>>] \notin {"FAILED", None}
    OBVIOUS
  <2>1. Kept(h, f)'
    BY DEF HoursInv, PassVouched
  <2> QED
    BY <2>1, PassKept
<1> QED
  BY <1>1, Invariant, PTL DEF HoursSpec, PassIsEarned

-----------------------------------------------------------------------------
(* A completed hour has a report, and the report is a PASS.                *)
LEMMA CompletedIsPass ==
    ASSUME HoursInv, NEW h \in Hours, Completed(h)
    PROVE  report[h] = "PASS" /\ scan[h] = "PASS"
BY HoursAssumption DEF HoursInv, Ordered, Completed, Reports

LEMMA StaysCompleted ==
    ASSUME HoursInv, HoursNext, NEW h \in Hours, Completed(h), ScanOver(h)
    PROVE  /\ ScanOver(h)' /\ scan'[h] = "PASS"
           /\ Completed(h)' \/ (report'[h] = "FAIL" /\ FailedSlot(h)')
<1>0. report[h] = "PASS" /\ scan[h] = "PASS"
  BY CompletedIsPass
<1> DEFINE Good == /\ ScanOver(h)' /\ scan'[h] = "PASS"
                   /\ Completed(h)' \/ (report'[h] = "FAIL" /\ FailedSlot(h)')
<1> SUFFICES Good
  OBVIOUS
<1>1. CASE UNCHANGED reports /\ UNCHANGED <<supervisor, scanner, orphan>>
  BY <1>0, <1>1, HoursAssumption DEF Completed, ScanOver, reports, Reports
<1>2. ASSUME report'[h] = "PASS", scan'[h] = "PASS" PROVE Completed(h)'
  BY <1>2, HoursAssumption DEF Completed, Reports
<1> USE DEF HoursInv, HoursTypeOK
<1>3. ASSUME NEW g \in Hours, ScanStep(g) \/ SupervisorCrash(g)
      PROVE  Good
  <2>1. CASE SupervisorLocks(g)
    BY <1>0, <1>2, <2>1 DEF SupervisorLocks, ScanOver, reports
  <2>2. CASE SupervisorRefused(g)
    BY <1>0, <1>2, <2>2 DEF SupervisorRefused, ScanOver, reports
  <2>3. CASE ScannerReports(g)
    BY <1>0, <1>2, <2>3 DEF ScannerReports, ScanResult, ScanOver
  <2>4. CASE OrphanReports(g)
    BY <1>0, <1>2, <2>4 DEF OrphanReports, ScanResult, ScanOver
  <2>5. CASE SupervisorEnds(g)
    BY <1>0, <1>2, <2>5 DEF SupervisorEnds, ReleaseScan, ScanOver, reports
  <2>6. CASE ScannerDies(g)
    BY <1>0, <1>2, <2>6 DEF ScannerDies, ReleaseScan, ScanOver
  <2>7. CASE ScanTimesOut(g)
    BY <1>0, <1>2, <2>7 DEF ScanTimesOut, AfterTimeout, ReleaseScan, ScanOver
  <2>8. CASE SupervisorCrash(g)
    BY <1>0, <1>2, <2>8 DEF SupervisorCrash, ScanOver, reports
  <2> QED
    BY <1>3, <2>1, <2>2, <2>3, <2>4, <2>5, <2>6, <2>7, <2>8 DEF ScanStep
<1>4. ASSUME NEW r \in Runners, WriteReport(r)
      PROVE  Good
  <2>1. /\ report' = [report EXCEPT ![target[r]] = ReportOf(r)]
        /\ UNCHANGED evidence /\ UNCHANGED scan /\ UNCHANGED scanning
        /\ ReportOf(r) = "PASS"
           \/ (ReportOf(r) = "FAIL" /\ \E f \in Feeds : Marked(target[r], f))
    BY <1>4, ReportEarned
  <2>2. ScanOver(h)' /\ scan'[h] = "PASS"
    BY <1>0, <2>1 DEF ScanOver, scanning
  <2>3. CASE report'[h] = "PASS"
    BY <1>2, <2>2, <2>3
  <2>4. CASE report'[h] # "PASS"
    <3>1. target[r] = h /\ report'[h] = "FAIL" /\ FailedSlot(h)
      BY <1>0, <2>1, <2>4 DEF FailedSlot, Marked
    <3>2. FailedSlot(h)'
      BY <2>1, <3>1 DEF FailedSlot, evidence
    <3> QED
      BY <2>2, <3>1, <3>2
  <2> QED
    BY <2>3, <2>4
<1>5. ASSUME NEW r \in Runners, LaunchScan(r)
      PROVE  Good
  <2>1. UNCHANGED reports /\ UNCHANGED <<scanner, orphan>>
        /\ supervisor'[h] = supervisor[h]
    BY <1>0, <1>5 DEF LaunchScan, MayScan
  <2> QED
    BY <1>0, <1>2, <2>1 DEF ScanOver, reports
<1>6. ASSUME NEW r \in Runners, RunnerStep(r)
      PROVE  Good
  BY <1>1, <1>4, <1>5, <1>6
  DEF RunnerStep, Claim, BeginSlot, ArchiveRaw, MarkReused, SaveCoverage,
      PackCoverage, UploadCoverage, VerifyCoverage, Launched, scanning
<1> QED
  BY <1>1, <1>3, <1>6
  DEF HoursNext, Freeze, Discover, Probe, RunByHand, RunnerCrash, scanning

(* Once nothing scans a completed hour, nothing but a run that met a       *)
(* failed slot takes it back (is_cohort_completed, "current != PASS").     *)
THEOREM CompletedUnlessFailed == HoursSpec => CompletedStays
<1>1. HoursInv /\ [HoursNext]_vars =>
        [\A h \in Hours : Completed(h) /\ ScanOver(h) =>
            /\ ScanOver(h)' /\ scan'[h] = "PASS"
            /\ Completed(h)' \/ (report'[h] = "FAIL" /\ FailedSlot(h)')]_vars
  BY StaysCompleted
<1> QED
  BY <1>1, Invariant, PTL DEF HoursSpec, CompletedStays
=============================================================================
