------------------------ MODULE ArchivePipelineProofs ------------------------
(***************************************************************************)
(* No raw file is deleted whose verified content cannot be had back, for   *)
(* any number of workers, contents, rewrites, faults and crashes, as long  *)
(* as the manifest of a closed partition is written once.                  *)
(***************************************************************************)
EXTENDS ArchivePipeline, TLAPS

(* What a receipt vouches for, given a manifest m, a compressed file c and *)
(* a remote object o.                                                      *)
VouchedBy(r, m, c, o) ==
    /\ "source" \in r.verified => r.src = m /\ m # None
    /\ r.elig => "source" \in r.verified /\ o # None /\ o = r.src /\ o = r.comp
    /\ r.state \in {"COMPRESSED_VERIFIED", "ARCHIVED"} =>
         c # None /\ c = r.comp /\ r.comp = r.src
    /\ r.state \in {"REMOTE_VERIFIED", "RESTORE_VERIFIED",
                    "CLEANUP_ELIGIBLE", "CLEANED"} =>
         o # None /\ o = r.comp /\ o = r.src

Vouched(r) == VouchedBy(r, manifest, compressed, remote)

AfterSource == {"compress", "verify", "checked", "upload", "archived",
                "remote", "restore", "eligible", "settle"}

(* What a worker's place in finalize says of its receipt in memory.        *)
Placed(w) ==
    /\ pc[w] \in AfterSource => "source" \in mem[w].verified
    /\ pc[w] \in {"checked", "upload", "archived"} =>
         mem[w].state = "COMPRESSED_VERIFIED"
    /\ pc[w] = "remote" => mem[w].state = "ARCHIVED"
    /\ pc[w] = "eligible" => mem[w].state = "RESTORE_VERIFIED"
    /\ pc[w] \in {"unlink", "record"} => mem[w].elig

ArchiveInv ==
    /\ ArchiveTypeOK
    /\ Vouched(receipt)
    /\ \A w \in Workers : Vouched(mem[w]) /\ Placed(w)
    /\ compressed # None => compressed = manifest
    /\ RestorableWhenGone

(* Manifest, compressed file and remote object are written at most once.   *)
Grows ==
    /\ manifest = None \/ manifest' = manifest
    /\ compressed = None \/ compressed' = compressed
    /\ remote = None \/ remote' = remote

-----------------------------------------------------------------------------
(* Each stage turns a receipt into a receipt.                              *)
LEMMA StageTypes ==
    ASSUME NEW r \in Receipts, NEW c \in File, NEW s \in ArchiveStates
    PROVE  /\ Failed(r) \in Receipts /\ SourceVerified(r, c) \in Receipts
           /\ CompressedVerified(r, c) \in Receipts
           /\ RemoteVerified(r) \in Receipts /\ RestoreVerified(r) \in Receipts
           /\ Advanced(r, s) \in Receipts /\ EligibleForCleanup(r) \in Receipts
<1>1. /\ r.src \in File /\ r.comp \in File
      /\ r.verified \in SUBSET Checks /\ r.elig \in BOOLEAN
  BY DEF Receipts
<1>2. \A t \in ArchiveStates \cup {"ABSENT", "DISCOVERED", "FAILED"},
         x \in File, y \in File, z \in SUBSET Checks, e \in BOOLEAN :
        Receipt(t, x, y, z, e) \in Receipts
  BY DEF Receipt, Receipts
<1>3. \A k \in Checks : r.verified \cup {k} \in SUBSET Checks
  BY <1>1
<1>4. {"source", "compressed", "remote", "restore"} \subseteq Checks
  BY DEF Checks
<1>5. {"RAW_VERIFIED", "COMPRESSED_VERIFIED", "REMOTE_VERIFIED",
       "RESTORE_VERIFIED", "CLEANUP_ELIGIBLE"} \subseteq ArchiveStates
  BY DEF ArchiveStates
<1>6. Failed(r) \in Receipts
  BY <1>1, <1>2 DEF Failed
<1>7. SourceVerified(r, c) \in Receipts
  BY <1>1, <1>2, <1>3, <1>4, <1>5 DEF SourceVerified
<1>8. CompressedVerified(r, c) \in Receipts
  BY <1>1, <1>2, <1>3, <1>4, <1>5 DEF CompressedVerified
<1>9. RemoteVerified(r) \in Receipts
  BY <1>1, <1>2, <1>3, <1>4, <1>5 DEF RemoteVerified
<1>10. RestoreVerified(r) \in Receipts
  BY <1>1, <1>2, <1>3, <1>4, <1>5 DEF RestoreVerified
<1>11. Advanced(r, s) \in Receipts
  BY <1>1, <1>2 DEF Advanced
<1>12. EligibleForCleanup(r) \in Receipts
  BY <1>1, <1>2, <1>5 DEF EligibleForCleanup
<1> QED
  BY <1>6, <1>7, <1>8, <1>9, <1>10, <1>11, <1>12

(* A call that has not written anything keeps no receipt.                  *)
LEMMA BlankTypes ==
    /\ NoReceipt \in Receipts /\ None \in File
    /\ NoArtifact \in [raw : File, manifest : File]
    /\ \A c \in File : Receipt("DISCOVERED", c, None, {}, FALSE) \in Receipts
BY DEF NoReceipt, Receipt, Receipts, NoArtifact, File

(* What was vouched for stays vouched for when files are only added.       *)
LEMMA VouchedStays ==
    ASSUME NEW r, NEW m, NEW c, NEW o, NEW m2, NEW c2, NEW o2,
           VouchedBy(r, m, c, o),
           m = None \/ m2 = m, c = None \/ c2 = c, o = None \/ o2 = o
    PROVE  VouchedBy(r, m2, c2, o2)
BY DEF VouchedBy

(* Nothing is claimed by a receipt that does not exist.                    *)
LEMMA BlankIsVouched ==
    ASSUME NEW m, NEW c, NEW o
    PROVE  VouchedBy(NoReceipt, m, c, o)
BY DEF VouchedBy, NoReceipt, Receipt

(* A failure claims no more than the receipt before it.                    *)
LEMMA FailedIsVouched ==
    ASSUME NEW r, NEW m, NEW c, NEW o, VouchedBy(r, m, c, o)
    PROVE  VouchedBy(Failed(r), m, c, o)
BY DEF VouchedBy, Failed, Receipt

-----------------------------------------------------------------------------
(* Type correctness.                                                       *)

WorkerTypeOK ==
    /\ lock \in Workers \cup {None}
    /\ pc \in [Workers -> Steps \cup {"idle", "claim"}]
    /\ op \in [Workers -> Commands]
    /\ art \in [Workers -> [raw : File, manifest : File]]
    /\ mem \in [Workers -> Receipts]
    /\ temp \in [Workers -> File]
    /\ inTry \in [Workers -> BOOLEAN]

WorldTypeOK ==
    raw \in File /\ manifest \in File /\ compressed \in File /\ remote \in File

BoundsTypeOK ==
    /\ rewrites \in 0..MaxRewrites /\ faults \in 0..MaxFaults
    /\ crashes \in 0..MaxCrashes

(* The type invariant in four parts.                                       *)
LEMMA TypeParts ==
    /\ ArchiveTypeOK <=> WorldTypeOK /\ receipt \in Receipts
                         /\ WorkerTypeOK /\ BoundsTypeOK
    /\ ArchiveTypeOK' <=> WorldTypeOK' /\ receipt' \in Receipts
                          /\ WorkerTypeOK' /\ BoundsTypeOK'
BY DEF ArchiveTypeOK, WorldTypeOK, WorkerTypeOK, BoundsTypeOK

(* The end of a call leaves a worker in a legal state.                     *)
LEMMA ReleaseTypes ==
    ASSUME WorkerTypeOK, NEW w \in Workers, Release(w)
    PROVE  WorkerTypeOK'
BY BlankTypes, "idle" \in Steps \cup {"idle", "claim"}, "finalize" \in Commands
   DEF WorkerTypeOK, Release, Commands, Finalizers

(* So does the next stage.                                                 *)
LEMMA GotoTypes ==
    ASSUME WorkerTypeOK, NEW w \in Workers, NEW step \in Steps, Goto(w, step),
           mem' \in [Workers -> Receipts], temp' \in [Workers -> File]
    PROVE  WorkerTypeOK'
BY DEF WorkerTypeOK, Goto

(* A receipt written and kept.                                             *)
LEMMA RecordTypes ==
    ASSUME WorkerTypeOK, NEW w \in Workers, NEW step \in Steps,
           NEW r \in Receipts, Record(w, r, step), temp' \in [Workers -> File]
    PROVE  WorkerTypeOK' /\ receipt' \in Receipts
<1>1. mem' \in [Workers -> Receipts] /\ receipt' \in Receipts /\ Goto(w, step)
  BY DEF Record, WorkerTypeOK
<1> QED
  BY <1>1, GotoTypes

(* A check that fails.                                                     *)
LEMMA RaiseTypes ==
    ASSUME WorldTypeOK, receipt \in Receipts, WorkerTypeOK, BoundsTypeOK,
           NEW w \in Workers, Raise(w)
    PROVE  WorldTypeOK' /\ receipt' \in Receipts /\ WorkerTypeOK' /\ BoundsTypeOK'
<1>1. WorkerTypeOK'
  BY ReleaseTypes DEF Raise
<1>2. mem[w] \in Receipts
  BY DEF WorkerTypeOK
<1>3. receipt' \in Receipts
  BY <1>2, StageTypes, BlankTypes, "CLEANED" \in ArchiveStates DEF Raise, ArchiveStates
<1> QED
  BY <1>1, <1>3 DEF Raise, WorldTypeOK, BoundsTypeOK, world, bounds

(* The initial state is typed.                                             *)
LEMMA TypeInit == ArchiveInit => ArchiveTypeOK
BY BlankTypes, ArchiveAssumption
   DEF ArchiveInit, ArchiveTypeOK, File, Commands, Finalizers

(* The stages that may record a receipt and go on.                         *)
LEMMA StageTypesStep ==
    ASSUME WorldTypeOK, receipt \in Receipts, WorkerTypeOK, BoundsTypeOK,
           NEW w \in Workers,
           \/ VerifySource(w) \/ Compress(w) \/ VerifyCompressed(w)
           \/ AssertUnchanged(w) \/ Upload(w) \/ Archive(w)
           \/ VerifyRemote(w) \/ VerifyRestore(w) \/ Eligible(w)
    PROVE  WorldTypeOK' /\ receipt' \in Receipts /\ WorkerTypeOK' /\ BoundsTypeOK'
<1> DEFINE Goal == WorldTypeOK' /\ receipt' \in Receipts
                   /\ WorkerTypeOK' /\ BoundsTypeOK'
<1> USE DEF Goal
<1>1. mem[w] \in Receipts /\ temp[w] \in File /\ raw \in File
      /\ compressed \in File /\ remote \in File /\ temp \in [Workers -> File]
  BY DEF WorkerTypeOK, WorldTypeOK
<1>2. {"compress", "verify", "checked", "upload", "archived", "remote",
       "restore", "eligible", "settle"} \subseteq Steps
  BY DEF Steps
<1>3. ASSUME NEW r \in Receipts, NEW step \in Steps, Record(w, r, step),
             UNCHANGED world, temp' \in [Workers -> File]
      PROVE  Goal
  <2>1. WorkerTypeOK' /\ receipt' \in Receipts
    BY <1>3, RecordTypes
  <2> QED
    BY <1>3, <2>1 DEF WorldTypeOK, BoundsTypeOK, world, bounds, Record, Goto
<1>4. ASSUME NEW step \in Steps, Goto(w, step), WorldTypeOK',
             receipt' = receipt, mem' \in [Workers -> Receipts], temp' = temp
      PROVE  Goal
  BY <1>1, <1>4, GotoTypes DEF BoundsTypeOK, Goto, bounds
<1>5. ASSUME Raise(w) PROVE Goal
  BY <1>5, RaiseTypes
<1>6. CASE VerifySource(w)
  BY <1>1, <1>2, <1>3, <1>5, <1>6, StageTypes, "CLEANED" \in ArchiveStates
     DEF VerifySource, ArchiveStates
<1>7. CASE Compress(w)
  <2>1. temp' \in [Workers -> File]
    BY <1>1, <1>7 DEF Compress
  <2> QED
    BY <1>1, <1>2, <1>3, <1>7, <2>1, StageTypes, "COMPRESSED" \in ArchiveStates
       DEF Compress, ArchiveStates
<1>8. CASE VerifyCompressed(w)
  <2>1. CASE StreamMatches(w)
    <3>1. CompressedVerified(mem[w], temp[w]) \in Receipts
      BY <1>1, StageTypes, "CLEANED" \in ArchiveStates DEF ArchiveStates
    <3>2. mem' \in [Workers -> Receipts] /\ WorldTypeOK' /\ Goto(w, "checked")
          /\ receipt' = receipt /\ temp' = temp
      BY <1>1, <1>8, <2>1, <3>1 DEF VerifyCompressed, WorkerTypeOK, WorldTypeOK
    <3> QED
      BY <1>2, <1>4, <3>2
  <2> QED
    BY <1>5, <1>8, <2>1 DEF VerifyCompressed
<1>9. CASE AssertUnchanged(w)
  BY <1>1, <1>2, <1>3, <1>5, <1>9 DEF AssertUnchanged
<1>10. CASE Upload(w)
  <2>1. WorldTypeOK' /\ mem' \in [Workers -> Receipts]
    BY <1>1, <1>10 DEF Upload, WorldTypeOK, WorkerTypeOK
  <2> QED
    BY <1>2, <1>4, <1>10, <2>1 DEF Upload
<1>11. CASE Archive(w)
  BY <1>1, <1>2, <1>3, <1>11, StageTypes, "ARCHIVED" \in ArchiveStates
     DEF Archive, ArchiveStates
<1>12. CASE VerifyRemote(w)
  BY <1>1, <1>2, <1>3, <1>5, <1>12, StageTypes, BlankTypes,
     "CLEANED" \in ArchiveStates DEF VerifyRemote, ArchiveStates
<1>13. CASE VerifyRestore(w)
  BY <1>1, <1>2, <1>3, <1>5, <1>13, StageTypes, BlankTypes,
     "CLEANED" \in ArchiveStates DEF VerifyRestore, ArchiveStates
<1>14. CASE Eligible(w)
  <2>1. EligibleForCleanup(mem[w]) \in Receipts
    BY <1>1, StageTypes, BlankTypes, "CLEANED" \in ArchiveStates DEF ArchiveStates
  <2>2. mem' \in [Workers -> Receipts] /\ WorldTypeOK'
    BY <1>14, <2>1 DEF Eligible, WorkerTypeOK, WorldTypeOK, world
  <2> QED
    BY <1>2, <1>4, <1>14, <2>2 DEF Eligible
<1> QED
  BY <1>6, <1>7, <1>8, <1>9, <1>10, <1>11, <1>12, <1>13, <1>14

(* The calls that end, and the steps around the stages.                    *)
LEMMA CallTypesStep ==
    ASSUME WorldTypeOK, receipt \in Receipts, WorkerTypeOK, BoundsTypeOK,
           NEW w \in Workers,
           \/ Start(w) \/ Refused(w) \/ ClaimNothing(w) \/ Claim(w)
           \/ Settle(w) \/ OpenGates(w) \/ Unlink(w) \/ RecordCleaned(w)
           \/ Recheck(w) \/ Redownload(w) \/ Fault(w) \/ Crash(w)
    PROVE  WorldTypeOK' /\ receipt' \in Receipts /\ WorkerTypeOK' /\ BoundsTypeOK'
<1> DEFINE Goal == WorldTypeOK' /\ receipt' \in Receipts
                   /\ WorkerTypeOK' /\ BoundsTypeOK'
<1> USE DEF Goal
<1>1. mem[w] \in Receipts /\ compressed \in File
  BY DEF WorkerTypeOK, WorldTypeOK
<1>2. /\ Failed(mem[w]) \in Receipts /\ Advanced(mem[w], "CLEANED") \in Receipts
      /\ CompressedVerified(mem[w], compressed) \in Receipts
      /\ RestoreVerified(mem[w]) \in Receipts
  BY <1>1, StageTypes, "CLEANED" \in ArchiveStates DEF ArchiveStates
<1>3. ASSUME Release(w), receipt' \in Receipts, UNCHANGED world, BoundsTypeOK'
      PROVE  Goal
  BY <1>3, ReleaseTypes DEF WorldTypeOK, world
<1>4. ASSUME UNCHANGED bounds PROVE BoundsTypeOK'
  BY <1>4 DEF BoundsTypeOK, bounds
<1>5. CASE Start(w)
  <2>1. op' \in [Workers -> Commands] /\ art' \in [Workers -> [raw : File, manifest : File]]
    BY <1>5, BlankTypes, ArchiveAssumption DEF Start, WorkerTypeOK, WorldTypeOK
  <2> QED
    BY <1>4, <1>5, <2>1 DEF Start, WorldTypeOK, WorkerTypeOK, world
<1>6. CASE Refused(w) \/ ClaimNothing(w)
  BY <1>3, <1>4, <1>6 DEF Refused, ClaimNothing
<1>7. CASE Claim(w)
  <2>1. art[w].raw \in File
    BY DEF WorkerTypeOK
  <2>2. mem' \in [Workers -> Receipts]
    BY <1>7, <2>1, BlankTypes DEF Claim, WorkerTypeOK
  <2>3. Entry(w) \in Steps
    BY DEF Entry, Steps
  <2>4. pc' \in [Workers -> Steps \cup {"idle", "claim"}] /\ lock' \in Workers \cup {None}
    BY <1>7, <2>3 DEF Claim, WorkerTypeOK
  <2>5. inTry' \in [Workers -> BOOLEAN]
    BY <1>7 DEF Claim, WorkerTypeOK
  <2> QED
    BY <1>4, <1>7, <2>2, <2>4, <2>5 DEF Claim, WorldTypeOK, WorkerTypeOK, world
<1>8. CASE Settle(w)
  <2>1. CASE op[w] = "finalizeClean"
    BY <1>1, <1>4, <1>8, <2>1, "gates" \in Steps
       DEF Settle, WorldTypeOK, WorkerTypeOK, world, locals, Steps
  <2> QED
    BY <1>1, <1>3, <1>4, <1>8, <2>1 DEF Settle
<1>9. CASE OpenGates(w)
  <2>1. CASE GatesOpen(w)
    <3>1. PICK step \in Steps : Goto(w, step)
      BY <1>9, <2>1, {"record", "unlink"} \subseteq Steps DEF OpenGates, Steps
    <3>2. WorkerTypeOK'
      BY <1>9, <2>1, <3>1, GotoTypes DEF OpenGates, WorkerTypeOK
    <3> QED
      BY <1>4, <1>9, <2>1, <3>1, <3>2 DEF OpenGates, WorldTypeOK, world, Goto
  <2> QED
    BY <1>9, <2>1, RaiseTypes DEF OpenGates
<1>10. CASE Unlink(w)
  <2>1. WorkerTypeOK'
    BY <1>10, GotoTypes, "record" \in Steps DEF Unlink, WorkerTypeOK, Steps
  <2> QED
    BY <1>4, <1>10, <2>1, BlankTypes DEF Unlink, WorldTypeOK, Goto
<1>11. CASE RecordCleaned(w)
  BY <1>2, <1>3, <1>4, <1>11 DEF RecordCleaned
<1>12. CASE Recheck(w)
  BY <1>2, <1>3, <1>4, <1>12, RaiseTypes DEF Recheck
<1>13. CASE Redownload(w)
  BY <1>2, <1>3, <1>4, <1>13, RaiseTypes DEF Redownload
<1>14. CASE Fault(w)
  <2>1. BoundsTypeOK'
    BY <1>14, ArchiveAssumption DEF Fault, BoundsTypeOK
  <2>2. receipt' \in Receipts
    BY <1>2, <1>14 DEF Fault
  <2> QED
    BY <1>3, <1>14, <2>1, <2>2 DEF Fault
<1>15. CASE Crash(w)
  <2>1. BoundsTypeOK'
    BY <1>15, ArchiveAssumption DEF Crash, BoundsTypeOK
  <2> QED
    BY <1>3, <1>15, <2>1 DEF Crash
<1> QED
  BY <1>5, <1>6, <1>7, <1>8, <1>9, <1>10, <1>11, <1>12, <1>13, <1>14, <1>15

(* Every step keeps the types.                                             *)
LEMMA TypeStep == ArchiveTypeOK /\ [ArchiveNext]_vars => ArchiveTypeOK'
<1> SUFFICES ASSUME WorldTypeOK, receipt \in Receipts, WorkerTypeOK, BoundsTypeOK,
                    [ArchiveNext]_vars
             PROVE  WorldTypeOK' /\ receipt' \in Receipts /\ WorkerTypeOK' /\ BoundsTypeOK'
  BY TypeParts
<1>1. ASSUME NEW w \in Workers, Start(w) \/ Work(w) \/ Fault(w) \/ Crash(w)
      PROVE  WorldTypeOK' /\ receipt' \in Receipts /\ WorkerTypeOK' /\ BoundsTypeOK'
  BY <1>1, StageTypesStep, CallTypesStep DEF Work
<1>2. CASE Rewrite
  <2>1. raw' \in File
    BY <1>2 DEF Rewrite, File
  <2>2. BoundsTypeOK'
    BY <1>2, ArchiveAssumption DEF Rewrite, BoundsTypeOK
  <2> QED
    BY <1>2, <2>1, <2>2 DEF Rewrite, WorldTypeOK, WorkerTypeOK, locals
<1>3. CASE WriteManifest
  BY <1>3 DEF WriteManifest, WorldTypeOK, WorkerTypeOK, BoundsTypeOK, locals, bounds
<1>4. CASE RaceWinner
  <2>1. remote' \in File
    BY <1>4, ArchiveAssumption DEF RaceWinner, File
  <2> QED
    BY <1>4, <2>1 DEF RaceWinner, WorldTypeOK, WorkerTypeOK, BoundsTypeOK, locals, bounds
<1>5. CASE UNCHANGED vars
  BY <1>5 DEF vars, WorldTypeOK, WorkerTypeOK, BoundsTypeOK, world, locals, bounds
<1> QED
  BY <1>1, <1>2, <1>3, <1>4, <1>5 DEF ArchiveNext

-----------------------------------------------------------------------------
(* The invariant.                                                          *)

(* A step of worker w keeps the invariant if it writes each file at most   *)
(* once and w's receipts vouch for no more than there is.                  *)
LEMMA WorkerStep ==
    ASSUME ArchiveInv, ArchiveTypeOK', Grows, NEW w \in Workers,
           compressed' # None => compressed' = manifest',
           RestorableWhenGone',
           VouchedBy(receipt', manifest', compressed', remote'),
           VouchedBy(mem'[w], manifest', compressed', remote'),
           Placed(w)',
           \A v \in Workers \ {w} : mem'[v] = mem[v] /\ pc'[v] = pc[v]
    PROVE  ArchiveInv'
<1>1. ASSUME NEW v \in Workers PROVE Vouched(mem[v])' /\ Placed(v)'
  <2>1. CASE v = w
    BY <2>1 DEF Vouched
  <2>2. CASE v # w
    <3>1. VouchedBy(mem[v], manifest', compressed', remote')
      BY VouchedStays DEF ArchiveInv, Vouched, Grows
    <3>2. Placed(v)
      BY DEF ArchiveInv
    <3> QED
      BY <2>2, <3>1, <3>2 DEF Vouched, Placed
  <2> QED
    BY <2>1, <2>2
<1> QED
  BY <1>1 DEF ArchiveInv, Vouched

(* The same when the call ends and nothing but the receipt has changed.    *)
LEMMA ReleaseStep ==
    ASSUME ArchiveInv, ArchiveTypeOK', NEW w \in Workers, Release(w),
           UNCHANGED world, VouchedBy(receipt', manifest, compressed, remote)
    PROVE  ArchiveInv'
<1>1. mem'[w] = NoReceipt /\ pc'[w] = "idle"
      /\ \A v \in Workers \ {w} : mem'[v] = mem[v] /\ pc'[v] = pc[v]
  BY DEF Release, ArchiveInv, ArchiveTypeOK
<1>2. Placed(w)'
  BY <1>1 DEF Placed, AfterSource
<1>3. Grows /\ RestorableWhenGone' /\ (compressed' # None => compressed' = manifest')
  BY DEF Grows, ArchiveInv, RestorableWhenGone, world
<1>4. VouchedBy(mem'[w], manifest', compressed', remote')
  BY <1>1, BlankIsVouched
<1> QED
  BY <1>1, <1>2, <1>3, <1>4, WorkerStep DEF world

(* A failed check keeps the invariant.                                     *)
LEMMA RaiseStep ==
    ASSUME ArchiveInv, ArchiveTypeOK', NEW w \in Workers, Raise(w)
    PROVE  ArchiveInv'
<1>1. VouchedBy(receipt', manifest, compressed, remote)
  BY FailedIsVouched DEF Raise, ArchiveInv, Vouched
<1> QED
  BY <1>1, ReleaseStep DEF Raise

(* So does a stage that records a receipt and changes no file.             *)
LEMMA RecordStep ==
    ASSUME ArchiveInv, ArchiveTypeOK', NEW w \in Workers, NEW r, NEW step,
           Record(w, r, step), UNCHANGED world,
           VouchedBy(r, manifest, compressed, remote),
           step \in AfterSource => "source" \in r.verified,
           step \in {"checked", "upload", "archived"} =>
             r.state = "COMPRESSED_VERIFIED",
           step = "remote" => r.state = "ARCHIVED",
           step = "eligible" => r.state = "RESTORE_VERIFIED",
           step \notin {"unlink", "record"}
    PROVE  ArchiveInv'
<1>1. /\ mem'[w] = r /\ pc'[w] = step /\ receipt' = r
      /\ \A v \in Workers \ {w} : mem'[v] = mem[v] /\ pc'[v] = pc[v]
  BY DEF Record, Goto, ArchiveInv, ArchiveTypeOK
<1>2. Placed(w)'
  BY <1>1 DEF Placed
<1>3. Grows /\ RestorableWhenGone' /\ (compressed' # None => compressed' = manifest')
  BY DEF Grows, ArchiveInv, RestorableWhenGone, world
<1> QED
  BY <1>1, <1>2, <1>3, WorkerStep DEF world

(* What is known of the worker whose stage it is.                          *)
LEMMA WorkerFacts ==
    ASSUME ArchiveInv, NEW w \in Workers
    PROVE  /\ Vouched(mem[w]) /\ Placed(w) /\ Vouched(receipt)
           /\ pc[w] \in AfterSource =>
                mem[w].src = manifest /\ manifest # None
BY DEF ArchiveInv, Vouched, VouchedBy, Placed

(* The stages of finalize keep the invariant.                              *)
LEMMA StageStep ==
    ASSUME ArchiveInv, ArchiveTypeOK', NEW w \in Workers,
           \/ VerifySource(w) \/ Compress(w) \/ VerifyCompressed(w)
           \/ AssertUnchanged(w) \/ Upload(w) \/ Archive(w)
           \/ VerifyRemote(w) \/ VerifyRestore(w) \/ Eligible(w)
    PROVE  ArchiveInv'
<1> USE WorkerFacts
<1>1. /\ RestorableWhenGone /\ ArchiveTypeOK
      /\ (compressed # None => compressed = manifest)
  BY DEF ArchiveInv
<1>2. CASE VerifySource(w)
  <2>1. CASE SourceMatches(w)
    <3>1. raw = manifest /\ raw # None
      BY <1>1, <2>1 DEF SourceMatches, RestorableWhenGone
    <3> DEFINE r == SourceVerified(mem[w], raw)
    <3>2. VouchedBy(r, manifest, compressed, remote) /\ "source" \in r.verified
      BY <3>1 DEF SourceVerified, Receipt, Vouched, VouchedBy
    <3> HIDE DEF r
    <3> QED
      BY <1>2, <2>1, <3>2, RecordStep DEF VerifySource, r
  <2> QED
    BY <1>2, <2>1, RaiseStep DEF VerifySource
<1>3. CASE Compress(w)
  <2> DEFINE r == Advanced(mem[w], "COMPRESSED")
  <2>1. VouchedBy(r, manifest, compressed, remote) /\ "source" \in r.verified
    BY <1>3 DEF Compress, Advanced, Receipt, Vouched, VouchedBy, Placed, AfterSource
  <2> HIDE DEF r
  <2> QED
    BY <1>3, <2>1, RecordStep DEF Compress, r
<1>4. CASE VerifyCompressed(w)
  <2>1. CASE StreamMatches(w)
    <3> DEFINE r == CompressedVerified(mem[w], temp[w])
    <3>1. temp[w] = mem[w].src /\ temp[w] = manifest /\ manifest # None
          /\ "source" \in mem[w].verified
      BY <1>4, <2>1 DEF VerifyCompressed, StreamMatches, AfterSource, Placed
    <3>2. /\ mem'[w] = r /\ pc'[w] = "checked" /\ compressed' = manifest
          /\ UNCHANGED <<raw, manifest, remote, receipt>>
          /\ \A v \in Workers \ {w} : mem'[v] = mem[v] /\ pc'[v] = pc[v]
      BY <1>1, <1>4, <2>1, <3>1 DEF VerifyCompressed, Goto, ArchiveTypeOK
    <3>3. Grows /\ RestorableWhenGone'
      BY <1>1, <3>2 DEF Grows, RestorableWhenGone
    <3>4. VouchedBy(r, manifest, manifest, remote) /\ "source" \in r.verified
          /\ r.state = "COMPRESSED_VERIFIED"
      BY <3>1 DEF CompressedVerified, Receipt, Vouched, VouchedBy
    <3>5. VouchedBy(receipt, manifest, manifest, remote)
      BY <1>1, VouchedStays DEF Vouched
    <3> HIDE DEF r
    <3>6. Placed(w)'
      BY <3>2, <3>4 DEF Placed
    <3> QED
      BY <3>2, <3>3, <3>4, <3>5, <3>6, WorkerStep
  <2> QED
    BY <1>4, <2>1, RaiseStep DEF VerifyCompressed
<1>5. CASE AssertUnchanged(w)
  <2>1. CASE raw = mem[w].src
    <3>1. /\ VouchedBy(mem[w], manifest, compressed, remote)
          /\ "source" \in mem[w].verified /\ mem[w].state = "COMPRESSED_VERIFIED"
      BY <1>5 DEF AssertUnchanged, Vouched, Placed, AfterSource
    <3> QED
      BY <1>5, <2>1, <3>1, RecordStep DEF AssertUnchanged
  <2> QED
    BY <1>5, <2>1, RaiseStep DEF AssertUnchanged
<1>6. CASE Upload(w)
  <2>1. /\ mem'[w] = mem[w] /\ pc'[w] = "archived"
        /\ UNCHANGED <<raw, manifest, compressed, receipt>>
        /\ \A v \in Workers \ {w} : mem'[v] = mem[v] /\ pc'[v] = pc[v]
    BY <1>1, <1>6 DEF Upload, Goto, ArchiveTypeOK
  <2>2. Placed(w)'
    BY <1>6, <2>1 DEF Upload, Placed, AfterSource
  <2>3. Grows /\ RestorableWhenGone'
    BY <1>1, <1>6, <2>1 DEF Upload, Grows, RestorableWhenGone
  <2>4. VouchedBy(receipt, manifest, compressed, remote')
        /\ VouchedBy(mem[w], manifest, compressed, remote')
    BY <2>3, VouchedStays DEF Vouched, Grows
  <2> QED
    BY <1>1, <2>1, <2>2, <2>3, <2>4, WorkerStep
<1>7. CASE Archive(w)
  <2> DEFINE r == Advanced(mem[w], "ARCHIVED")
  <2>1. VouchedBy(r, manifest, compressed, remote) /\ "source" \in r.verified
        /\ r.state = "ARCHIVED"
    BY <1>7 DEF Archive, Advanced, Receipt, Vouched, VouchedBy, Placed, AfterSource
  <2> HIDE DEF r
  <2> QED
    BY <1>7, <2>1, RecordStep DEF Archive, r
<1>8. CASE VerifyRemote(w)
  <2>1. CASE remote = mem[w].comp
    <3> DEFINE r == RemoteVerified(mem[w])
    <3>1. VouchedBy(r, manifest, compressed, remote) /\ "source" \in r.verified
      BY <1>8, <2>1
         DEF VerifyRemote, RemoteVerified, Receipt, Vouched, VouchedBy, Placed, AfterSource
    <3> HIDE DEF r
    <3> QED
      BY <1>8, <2>1, <3>1, RecordStep DEF VerifyRemote, r
  <2> QED
    BY <1>8, <2>1, RaiseStep DEF VerifyRemote
<1>9. CASE VerifyRestore(w)
  <2>1. CASE DownloadMatches(w)
    <3> DEFINE r == RestoreVerified(mem[w])
    <3>1. VouchedBy(r, manifest, compressed, remote) /\ "source" \in r.verified
          /\ r.state = "RESTORE_VERIFIED"
      BY <1>9, <2>1
         DEF VerifyRestore, DownloadMatches, RestoreVerified, Receipt, Vouched,
             VouchedBy, Placed, AfterSource
    <3> HIDE DEF r
    <3> QED
      BY <1>9, <2>1, <3>1, RecordStep DEF VerifyRestore, r
  <2> QED
    BY <1>9, <2>1, RaiseStep DEF VerifyRestore
<1>10. CASE Eligible(w)
  <2> DEFINE r == EligibleForCleanup(mem[w])
  <2>1. /\ mem'[w] = r /\ pc'[w] = "settle"
        /\ UNCHANGED <<raw, manifest, compressed, remote, receipt>>
        /\ \A v \in Workers \ {w} : mem'[v] = mem[v] /\ pc'[v] = pc[v]
    BY <1>1, <1>10 DEF Eligible, Goto, ArchiveTypeOK, world
  <2>2. VouchedBy(r, manifest, compressed, remote) /\ "source" \in r.verified
    BY <1>10
       DEF Eligible, EligibleForCleanup, Receipt, Vouched, VouchedBy, Placed, AfterSource
  <2> HIDE DEF r
  <2>3. Placed(w)'
    BY <2>1, <2>2 DEF Placed
  <2>4. Grows /\ RestorableWhenGone'
    BY <1>1, <2>1 DEF Grows, RestorableWhenGone
  <2> QED
    BY <1>1, <2>1, <2>2, <2>3, <2>4, WorkerStep DEF Vouched
<1> QED
  BY <1>2, <1>3, <1>4, <1>5, <1>6, <1>7, <1>8, <1>9, <1>10

(* So do the steps around them.                                            *)
LEMMA CallStep ==
    ASSUME ArchiveInv, ArchiveTypeOK', NEW w \in Workers,
           \/ Start(w) \/ Refused(w) \/ ClaimNothing(w) \/ Claim(w)
           \/ Settle(w) \/ OpenGates(w) \/ Unlink(w) \/ RecordCleaned(w)
           \/ Recheck(w) \/ Redownload(w) \/ Fault(w) \/ Crash(w)
    PROVE  ArchiveInv'
<1> USE WorkerFacts
<1>1. /\ RestorableWhenGone /\ ArchiveTypeOK
      /\ (compressed # None => compressed = manifest)
  BY DEF ArchiveInv
<1> DEFINE Rest == \A v \in Workers \ {w} : mem'[v] = mem[v] /\ pc'[v] = pc[v]
<1>2. ASSUME UNCHANGED world, Rest, Placed(w)',
             VouchedBy(receipt', manifest, compressed, remote),
             VouchedBy(mem'[w], manifest, compressed, remote)
      PROVE  ArchiveInv'
  <2>1. Grows /\ RestorableWhenGone' /\ (compressed' # None => compressed' = manifest')
    BY <1>1, <1>2 DEF Grows, RestorableWhenGone, world
  <2> QED
    BY <1>2, <2>1, WorkerStep DEF world
<1>3. CASE Start(w)
  <2>1. mem'[w] = mem[w] /\ pc'[w] = "claim" /\ Rest
    BY <1>1, <1>3 DEF Start, ArchiveTypeOK
  <2>2. Placed(w)'
    BY <2>1 DEF Placed, AfterSource
  <2> QED
    BY <1>2, <1>3, <2>1, <2>2 DEF Start, Vouched
<1>4. CASE Refused(w) \/ ClaimNothing(w)
  BY <1>4, ReleaseStep DEF Refused, ClaimNothing, Vouched
<1>5. CASE Claim(w)
  <2>1. pc'[w] = Entry(w) /\ Rest
        /\ mem'[w] \in {receipt, Receipt("DISCOVERED", art[w].raw, None, {}, FALSE)}
    BY <1>1, <1>5 DEF Claim, ArchiveTypeOK
  <2>2. VouchedBy(Receipt("DISCOVERED", art[w].raw, None, {}, FALSE),
                  manifest, compressed, remote)
    BY DEF VouchedBy, Receipt
  <2>3. Entry(w) \in {"recheck", "redownload", "gates", "source"}
    BY DEF Entry
  <2>4. Placed(w)'
    BY <2>1, <2>3 DEF Placed, AfterSource
  <2> QED
    BY <1>2, <1>5, <2>1, <2>2, <2>4 DEF Claim, Vouched
<1>6. CASE Settle(w)
  <2>1. CASE op[w] = "finalizeClean"
    <3>1. pc'[w] = "gates" /\ Rest /\ mem' = mem
      BY <1>1, <1>6, <2>1 DEF Settle, ArchiveTypeOK, locals
    <3>2. Placed(w)'
      BY <3>1 DEF Placed, AfterSource
    <3> QED
      BY <1>2, <1>6, <3>1, <3>2 DEF Settle, Vouched
  <2> QED
    BY <1>6, <2>1, ReleaseStep DEF Settle, Vouched
<1>7. CASE OpenGates(w)
  <2>1. CASE GatesOpen(w)
    <3>1. pc'[w] \in {"record", "unlink"} /\ Rest /\ mem'[w] = mem[w]
      BY <1>1, <1>7, <2>1 DEF OpenGates, Goto, ArchiveTypeOK
    <3>2. Placed(w)'
      BY <2>1, <3>1 DEF Placed, AfterSource, GatesOpen
    <3> QED
      BY <1>2, <1>7, <2>1, <3>1, <3>2 DEF OpenGates, Vouched
  <2> QED
    BY <1>7, <2>1, RaiseStep DEF OpenGates
<1>8. CASE Unlink(w)
  <2>1. mem[w].elig
    BY <1>8 DEF Unlink, Placed
  <2>2. /\ mem'[w] = mem[w] /\ pc'[w] = "record" /\ Rest
        /\ UNCHANGED <<manifest, compressed, remote, receipt>>
    BY <1>1, <1>8 DEF Unlink, Goto, ArchiveTypeOK
  <2>3. Placed(w)'
    BY <2>1, <2>2 DEF Placed, AfterSource
  <2>4. remote # None /\ remote = manifest
    BY <2>1 DEF Vouched, VouchedBy
  <2> QED
    BY <1>1, <2>2, <2>3, <2>4, WorkerStep DEF Grows, RestorableWhenGone, Vouched
<1>9. CASE RecordCleaned(w)
  <2>1. mem[w].elig
    BY <1>9 DEF RecordCleaned, Placed
  <2>2. VouchedBy(Advanced(mem[w], "CLEANED"), manifest, compressed, remote)
    BY <2>1 DEF Vouched, VouchedBy, Advanced, Receipt
  <2> QED
    BY <1>9, <2>2, ReleaseStep DEF RecordCleaned
<1>10. CASE Recheck(w)
  <2>1. CASE compressed # None /\ compressed = mem[w].src /\ raw = mem[w].src
    <3>1. VouchedBy(CompressedVerified(mem[w], compressed), manifest, compressed, remote)
      BY <2>1 DEF Vouched, VouchedBy, CompressedVerified, Receipt
    <3> QED
      BY <1>10, <2>1, <3>1, ReleaseStep DEF Recheck
  <2> QED
    BY <1>10, <2>1, RaiseStep DEF Recheck
<1>11. CASE Redownload(w)
  <2>1. CASE DownloadMatches(w)
    <3>1. VouchedBy(RestoreVerified(mem[w]), manifest, compressed, remote)
      BY <2>1 DEF Vouched, VouchedBy, RestoreVerified, Receipt, DownloadMatches
    <3> QED
      BY <1>11, <2>1, <3>1, ReleaseStep DEF Redownload
  <2> QED
    BY <1>11, <2>1, RaiseStep DEF Redownload
<1>12. CASE Fault(w)
  <2>1. VouchedBy(receipt', manifest, compressed, remote)
    BY <1>12, FailedIsVouched DEF Fault, Vouched
  <2> QED
    BY <1>12, <2>1, ReleaseStep DEF Fault
<1>13. CASE Crash(w)
  BY <1>13, ReleaseStep DEF Crash, Vouched
<1> QED
  BY <1>3, <1>4, <1>5, <1>6, <1>7, <1>8, <1>9, <1>10, <1>11, <1>12, <1>13

(* What happens outside the pipeline keeps it too, as long as the manifest *)
(* is not written over.                                                    *)
LEMMA OutsideStep ==
    ASSUME ArchiveInv, ArchiveTypeOK', ~Remanifest,
           Rewrite \/ WriteManifest \/ RaceWinner \/ UNCHANGED vars
    PROVE  ArchiveInv'
<1>1. Grows /\ UNCHANGED <<compressed, receipt, mem, pc>>
  BY DEF Rewrite, WriteManifest, RaceWinner, Grows, vars, world, locals
<1>2. RestorableWhenGone' /\ (compressed' # None => compressed' = manifest')
  <2>1. RestorableWhenGone /\ (compressed # None => compressed = manifest)
        /\ ArchiveTypeOK /\ None \notin Contents
    BY ArchiveAssumption DEF ArchiveInv
  <2>2. CASE Rewrite
    BY <2>1, <2>2 DEF Rewrite, RestorableWhenGone
  <2>3. CASE WriteManifest
    BY <2>1, <2>3 DEF WriteManifest, RestorableWhenGone
  <2>4. CASE RaceWinner
    BY <2>1, <2>4 DEF RaceWinner, RestorableWhenGone
  <2> QED
    BY <2>1, <2>2, <2>3, <2>4 DEF RestorableWhenGone, vars, world
<1>3. VouchedBy(receipt, manifest', compressed', remote')
  BY <1>1, VouchedStays DEF ArchiveInv, Vouched, Grows
<1>4. \A w \in Workers : VouchedBy(mem[w], manifest', compressed', remote') /\ Placed(w)
  BY <1>1, VouchedStays DEF ArchiveInv, Vouched, Grows
<1> QED
  BY <1>1, <1>2, <1>3, <1>4 DEF ArchiveInv, Vouched, Placed

(* A partition starts with no receipt and nothing deleted.                 *)
LEMMA InvInit == ArchiveInit => ArchiveInv
<1> SUFFICES ASSUME ArchiveInit PROVE ArchiveInv
  OBVIOUS
<1>1. ArchiveTypeOK
  BY TypeInit
<1>2. RestorableWhenGone /\ compressed = None
  BY ArchiveAssumption DEF ArchiveInit, RestorableWhenGone
<1>3. Vouched(receipt) /\ \A w \in Workers : Vouched(mem[w])
  BY BlankIsVouched DEF ArchiveInit, Vouched
<1>4. \A w \in Workers : Placed(w)
  BY DEF ArchiveInit, Placed, AfterSource
<1> QED
  BY <1>1, <1>2, <1>3, <1>4 DEF ArchiveInv

(* ArchiveInv holds throughout if the manifest is written once.            *)
THEOREM ArchiveInvariant == ~Remanifest /\ ArchiveSpec => []ArchiveInv
<1> SUFFICES ASSUME ~Remanifest PROVE ArchiveSpec => []ArchiveInv
  OBVIOUS
<1>1. ArchiveInit => ArchiveInv
  BY InvInit
<1>2. ArchiveInv /\ [ArchiveNext]_vars => ArchiveInv'
  <2> SUFFICES ASSUME ArchiveInv, [ArchiveNext]_vars PROVE ArchiveInv'
    OBVIOUS
  <2>1. ArchiveTypeOK'
    BY TypeStep DEF ArchiveInv
  <2> QED
    BY <2>1, StageStep, CallStep, OutsideStep DEF ArchiveNext, Work
<1> QED
  BY <1>1, <1>2, PTL DEF ArchiveSpec

(* ArchivePipeline never deletes a raw partition whose manifested content  *)
(* cannot be restored from the remote object.                              *)
THEOREM DeletionIsSafe == ~Remanifest /\ ArchiveSpec => []RestorableWhenGone
<1>1. ArchiveInv => RestorableWhenGone
  BY DEF ArchiveInv
<1> QED
  BY <1>1, ArchiveInvariant, PTL

(* cleanup_eligible in a receipt is never out of date.                     *)
THEOREM EligibilityIsTrue == ~Remanifest /\ ArchiveSpec => []EligibleIsRestorable
<1>1. ArchiveInv => EligibleIsRestorable
  BY DEF ArchiveInv, Vouched, VouchedBy, EligibleIsRestorable
<1> QED
  BY <1>1, ArchiveInvariant, PTL

(* Nor is the stage a receipt is in.                                       *)
THEOREM ReceiptIsTrue == ~Remanifest /\ ArchiveSpec => []StagesAreTrue
<1>1. ArchiveInv => StagesAreTrue
  BY DEF ArchiveInv, Vouched, VouchedBy, StagesAreTrue
<1> QED
  BY <1>1, ArchiveInvariant, PTL

(* The types hold whatever happens to the manifest.                        *)
THEOREM ArchiveTypeCorrect == ArchiveSpec => []ArchiveTypeOK
BY TypeInit, TypeStep, PTL DEF ArchiveSpec

-----------------------------------------------------------------------------
(* A partition that was cleaned stays so, and here the lock is needed: a   *)
(* worker that is on its way while another one cleans would write its own  *)
(* receipt over CLEANED.                                                   *)

(* The raw file of a cleaned partition is gone: a worker at it has nothing *)
(* to compare the compressed file with, and no failure to record.          *)
AtCleaned == {"recheck", "redownload", "gates", "record"}

(* What one worker keeps to: past the lock it is alone, and its receipt    *)
(* names the content it is about.                                          *)
Orderly(w) ==
    /\ pc[w] \in Steps => lock = w /\ mem[w].src # None
    /\ pc[w] = "claim" /\ op[w] \in Finalizers => art[w].raw # None
    /\ pc[w] = "source" => art[w].raw # None
    /\ pc[w] \in {"checked", "settle"} => mem[w].state # "CLEANED"
    /\ pc[w] = "record" => raw = None
    /\ receipt.state = "CLEANED" /\ pc[w] \in Steps => ~inTry[w] /\ pc[w] \in AtCleaned

(* A receipt on disk names its content, and CLEANED means deleted.         *)
NamesContent(r) == r = NoReceipt \/ r.src # None

CleanedIsBare == receipt.state = "CLEANED" => raw = None

CleanedInv ==
    /\ ArchiveTypeOK
    /\ NamesContent(receipt)
    /\ CleanedIsBare
    /\ \A w \in Workers : Orderly(w)

LEMMA OneAtWork ==
    ASSUME CleanedInv, NEW w \in Workers, pc[w] \in Steps
    PROVE  \A v \in Workers \ {w} : pc[v] \notin Steps
BY DEF CleanedInv, Orderly

(* Who is not past the lock keeps to its side whatever another one does.   *)
LEMMA OthersKeepOrder ==
    ASSUME CleanedInv, NEW v \in Workers, pc[v] \notin Steps,
           UNCHANGED <<pc[v], op[v], art[v]>>
    PROVE  Orderly(v)'
BY "source" \in Steps, "record" \in Steps, "checked" \in Steps, "settle" \in Steps
   DEF CleanedInv, Orderly, Steps

(* The worker past the lock ends its call.                                 *)
LEMMA EndKeepsOrder ==
    ASSUME CleanedInv, ArchiveTypeOK', NEW w \in Workers, pc[w] \in Steps, Release(w),
           NamesContent(receipt'), CleanedIsBare'
    PROVE  CleanedInv'
<1>1. pc'[w] = "idle" /\ \A v \in Workers \ {w} : UNCHANGED <<pc[v], op[v], art[v]>>
  BY DEF Release, CleanedInv, ArchiveTypeOK
<1>2. Orderly(w)'
  BY <1>1 DEF Orderly, Steps
<1>3. \A v \in Workers \ {w} : Orderly(v)'
  BY <1>1, OneAtWork, OthersKeepOrder
<1> QED
  BY <1>2, <1>3 DEF CleanedInv

(* It goes on to another stage, with the receipt r in memory.              *)
LEMMA StageKeepsOrder ==
    ASSUME CleanedInv, ArchiveTypeOK', NEW w \in Workers, pc[w] \in Steps,
           NEW step \in Steps \ {"source"},
           pc' = [pc EXCEPT ![w] = step], UNCHANGED <<lock, op, art, inTry>>,
           NEW r, mem' = [mem EXCEPT ![w] = r], r.src # None,
           step \in {"checked", "settle"} => r.state # "CLEANED",
           step = "record" => raw' = None,
           receipt'.state = "CLEANED" => ~inTry[w] /\ step \in AtCleaned,
           NamesContent(receipt'), CleanedIsBare'
    PROVE  CleanedInv'
<1>1. /\ pc'[w] = step /\ mem'[w] = r /\ lock = w
      /\ \A v \in Workers \ {w} : UNCHANGED <<pc[v], op[v], art[v]>>
  BY DEF CleanedInv, ArchiveTypeOK, Orderly
<1>2. Orderly(w)'
  BY <1>1 DEF Orderly, Steps
<1>3. \A v \in Workers \ {w} : Orderly(v)'
  BY <1>1, OneAtWork, OthersKeepOrder
<1> QED
  BY <1>2, <1>3 DEF CleanedInv

(* A stage that writes its receipt, and none of them is CLEANED.           *)
LEMMA RecordKeepsOrder ==
    ASSUME CleanedInv, ArchiveTypeOK', NEW w \in Workers, pc[w] \in Steps,
           NEW step \in Steps \ {"source", "record"}, NEW r, Record(w, r, step),
           r.src # None, r.state # "CLEANED"
    PROVE  CleanedInv'
<1>1. NamesContent(receipt') /\ CleanedIsBare'
  BY DEF Record, NamesContent, CleanedIsBare
<1> QED
  BY <1>1, StageKeepsOrder DEF Record, Goto

(* A check that fails: no try block surrounds a worker at a cleaned one.   *)
LEMMA RaiseKeepsOrder ==
    ASSUME CleanedInv, ArchiveTypeOK', NEW w \in Workers, pc[w] \in Steps, Raise(w)
    PROVE  /\ CleanedInv'
           /\ receipt.state = "CLEANED" => receipt' = receipt
<1>1. mem[w].src # None /\ (receipt.state = "CLEANED" => ~inTry[w])
  BY DEF CleanedInv, Orderly
<1>2. NamesContent(receipt') /\ CleanedIsBare'
  BY <1>1 DEF Raise, NamesContent, CleanedIsBare, CleanedInv, Failed, Receipt, world
<1> QED
  BY <1>1, <1>2, EndKeepsOrder DEF Raise

(* What a step may make of the receipt.                                    *)
KeepsCleaned ==
    receipt.state = "CLEANED" => receipt'.state \in {"CLEANED", "RESTORE_VERIFIED"}

(* A stage of finalize runs only while the partition is not cleaned.       *)
LEMMA StagesKeepOrder ==
    ASSUME CleanedInv, ArchiveTypeOK', NEW w \in Workers,
           \/ VerifySource(w) \/ Compress(w) \/ VerifyCompressed(w) \/ AssertUnchanged(w)
           \/ Upload(w) \/ Archive(w) \/ VerifyRemote(w) \/ VerifyRestore(w)
           \/ Eligible(w) \/ Settle(w)
    PROVE  CleanedInv' /\ KeepsCleaned
<1>1. /\ pc[w] \in Steps \ AtCleaned /\ pc[w] # "unlink" /\ mem[w].src # None
      /\ receipt.state # "CLEANED"
  BY DEF VerifySource, Compress, VerifyCompressed, AssertUnchanged, Upload, Archive,
     VerifyRemote, VerifyRestore, Eligible, Settle, Steps, AtCleaned, CleanedInv, Orderly
<1>2. mem = [mem EXCEPT ![w] = mem[w]]
  BY DEF CleanedInv, ArchiveTypeOK
<1>3. NamesContent(receipt) /\ NamesContent(mem[w])
  BY <1>1 DEF CleanedInv, NamesContent
<1>4. ASSUME NEW r, NEW step \in {"checked", "archived", "settle"},
             r.src # None, step # "archived" => r.state # "CLEANED",
             mem' = [mem EXCEPT ![w] = r], Goto(w, step), receipt' = receipt
      PROVE  CleanedInv'
  <2>1. CleanedIsBare' /\ NamesContent(receipt')
    BY <1>1, <1>3, <1>4 DEF CleanedIsBare
  <2> QED
    BY <1>1, <1>4, <2>1, StageKeepsOrder DEF Goto, Steps
<1>5. CASE VerifySource(w)
  <2>1. CASE SourceMatches(w)
    <3>1. raw # None
      BY <1>5, <2>1 DEF SourceMatches, VerifySource, CleanedInv, Orderly
    <3>2. SourceVerified(mem[w], raw).src # None /\ SourceVerified(mem[w], raw).state # "CLEANED"
      BY <3>1 DEF SourceVerified, Receipt
    <3> QED
      BY <1>1, <1>5, <2>1, <3>2, RecordKeepsOrder DEF VerifySource, KeepsCleaned, Steps
  <2> QED
    BY <1>1, <1>5, <2>1, RaiseKeepsOrder DEF VerifySource, KeepsCleaned
<1>6. CASE Compress(w)
  <2>1. Advanced(mem[w], "COMPRESSED").src # None /\ Advanced(mem[w], "COMPRESSED").state # "CLEANED"
    BY <1>1 DEF Advanced, Receipt
  <2> QED
    BY <1>1, <1>6, <2>1, RecordKeepsOrder DEF Compress, KeepsCleaned, Steps
<1>7. CASE VerifyCompressed(w)
  <2>1. CASE StreamMatches(w)
    <3> DEFINE c == CompressedVerified(mem[w], temp[w])
    <3>1. c.src # None /\ c.state # "CLEANED"
      BY <1>1 DEF CompressedVerified, Receipt
    <3>2. mem' = [mem EXCEPT ![w] = c] /\ Goto(w, "checked") /\ receipt' = receipt
      BY <1>7, <2>1 DEF VerifyCompressed
    <3> HIDE DEF c
    <3> QED
      BY <1>1, <1>4, <3>1, <3>2 DEF KeepsCleaned
  <2> QED
    BY <1>1, <1>7, <2>1, RaiseKeepsOrder DEF VerifyCompressed, KeepsCleaned
<1>8. CASE AssertUnchanged(w)
  <2>1. mem[w].state # "CLEANED"
    BY <1>8 DEF AssertUnchanged, CleanedInv, Orderly
  <2> QED
    BY <1>1, <1>8, <2>1, RecordKeepsOrder, RaiseKeepsOrder DEF AssertUnchanged, KeepsCleaned, Steps
<1>9. CASE Upload(w)
  BY <1>1, <1>2, <1>4, <1>9 DEF Upload, KeepsCleaned
<1>10. CASE Archive(w)
  <2>1. Advanced(mem[w], "ARCHIVED").src # None /\ Advanced(mem[w], "ARCHIVED").state # "CLEANED"
    BY <1>1 DEF Advanced, Receipt
  <2> QED
    BY <1>1, <1>10, <2>1, RecordKeepsOrder DEF Archive, KeepsCleaned, Steps
<1>11. CASE VerifyRemote(w)
  <2>1. RemoteVerified(mem[w]).src # None /\ RemoteVerified(mem[w]).state # "CLEANED"
    BY <1>1 DEF RemoteVerified, Receipt
  <2> QED
    BY <1>1, <1>11, <2>1, RecordKeepsOrder, RaiseKeepsOrder DEF VerifyRemote, KeepsCleaned, Steps
<1>12. CASE VerifyRestore(w)
  <2>1. RestoreVerified(mem[w]).src # None /\ RestoreVerified(mem[w]).state # "CLEANED"
    BY <1>1 DEF RestoreVerified, Receipt
  <2> QED
    BY <1>1, <1>12, <2>1, RecordKeepsOrder, RaiseKeepsOrder DEF VerifyRestore, KeepsCleaned, Steps
<1>13. CASE Eligible(w)
  <2> DEFINE e == EligibleForCleanup(mem[w])
  <2>1. e.src # None /\ e.state # "CLEANED"
    BY <1>1 DEF EligibleForCleanup, Receipt
  <2>2. mem' = [mem EXCEPT ![w] = e] /\ Goto(w, "settle") /\ receipt' = receipt
    BY <1>13 DEF Eligible
  <2> HIDE DEF e
  <2> QED
    BY <1>1, <1>4, <2>1, <2>2 DEF KeepsCleaned
<1>14. CASE Settle(w)
  <2>1. receipt' = mem[w] /\ receipt'.state # "CLEANED" /\ NamesContent(receipt') /\ CleanedIsBare'
    BY <1>1, <1>14 DEF Settle, CleanedInv, Orderly, NamesContent, CleanedIsBare
  <2>2. CASE op[w] = "finalizeClean"
    BY <1>1, <1>2, <1>14, <2>1, <2>2, StageKeepsOrder DEF Settle, KeepsCleaned, Steps, locals
  <2> QED
    BY <1>1, <1>14, <2>1, <2>2, EndKeepsOrder DEF Settle, KeepsCleaned
<1> QED
  BY <1>5, <1>6, <1>7, <1>8, <1>9, <1>10, <1>11, <1>12, <1>13, <1>14

(* Deletion, and the commands that may find the partition cleaned.         *)
LEMMA CleanupKeepsOrder ==
    ASSUME CleanedInv, ArchiveTypeOK', NEW w \in Workers,
           \/ OpenGates(w) \/ Unlink(w) \/ RecordCleaned(w)
           \/ Recheck(w) \/ Redownload(w) \/ Fault(w) \/ Crash(w)
    PROVE  CleanedInv' /\ KeepsCleaned
<1>1. pc[w] \in Steps /\ mem[w].src # None /\ lock = w
  BY DEF OpenGates, Unlink, RecordCleaned, Recheck, Redownload, Fault, Crash, Steps,
     CleanedInv, Orderly
<1>2. mem = [mem EXCEPT ![w] = mem[w]]
  BY DEF CleanedInv, ArchiveTypeOK
<1>3. /\ NamesContent(receipt) /\ CleanedIsBare
      /\ receipt.state = "CLEANED" => raw = None /\ ~inTry[w] /\ pc[w] \in AtCleaned
  BY <1>1 DEF CleanedInv, Orderly, CleanedIsBare
<1>4. CASE OpenGates(w)
  <2>1. CASE GatesOpen(w)
    <3>1. PICK step \in {"record", "unlink"} :
            /\ step = IF raw = None THEN "record" ELSE "unlink"
            /\ Goto(w, step) /\ UNCHANGED <<raw, receipt, mem>>
      BY <1>4, <2>1 DEF OpenGates, world
    <3>2. NamesContent(receipt') /\ CleanedIsBare'
      BY <1>3, <3>1 DEF CleanedIsBare
    <3>3. receipt'.state = "CLEANED" => ~inTry[w] /\ step \in AtCleaned
      BY <1>3, <3>1 DEF AtCleaned
    <3>4. step \in Steps \ {"source"} /\ step \notin {"checked", "settle"}
      BY DEF Steps
    <3>5. /\ pc' = [pc EXCEPT ![w] = step] /\ UNCHANGED <<lock, op, art, inTry>>
          /\ mem' = [mem EXCEPT ![w] = mem[w]]
          /\ step = "record" => raw' = None
      BY <1>2, <3>1 DEF Goto
    <3>6. CleanedInv'
      BY <1>1, <3>2, <3>3, <3>4, <3>5, StageKeepsOrder
    <3> QED
      BY <3>1, <3>6 DEF KeepsCleaned
  <2> QED
    BY <1>1, <1>4, <2>1, RaiseKeepsOrder DEF OpenGates, KeepsCleaned
<1>5. CASE Unlink(w)
  <2>1. receipt.state # "CLEANED" /\ raw' = None /\ receipt' = receipt
    BY <1>3, <1>5 DEF Unlink, AtCleaned
  <2>2. NamesContent(receipt') /\ CleanedIsBare'
    BY <1>3, <2>1 DEF CleanedIsBare
  <2>3. /\ pc' = [pc EXCEPT ![w] = "record"] /\ UNCHANGED <<lock, op, art, inTry>>
        /\ mem' = [mem EXCEPT ![w] = mem[w]]
    BY <1>2, <1>5 DEF Unlink, Goto
  <2>4. "record" \in Steps \ {"source"}
    BY DEF Steps
  <2>5. CleanedInv'
    BY <1>1, <2>1, <2>2, <2>3, <2>4, StageKeepsOrder
  <2> QED
    BY <2>1, <2>5 DEF KeepsCleaned
<1>6. CASE RecordCleaned(w)
  <2>1. raw = None /\ raw' = raw
    BY <1>6 DEF RecordCleaned, CleanedInv, Orderly, world
  <2>2. receipt'.src # None /\ receipt'.state = "CLEANED"
    BY <1>1, <1>6 DEF RecordCleaned, Advanced, Receipt
  <2> QED
    BY <1>1, <1>6, <2>1, <2>2, EndKeepsOrder
       DEF RecordCleaned, NamesContent, CleanedIsBare, KeepsCleaned
<1>7. CASE Recheck(w)
  <2>1. CASE compressed # None /\ compressed = mem[w].src /\ raw = mem[w].src
    <3>1. receipt.state # "CLEANED"
      BY <1>1, <1>3, <2>1
    <3>2. receipt'.src # None /\ receipt'.state # "CLEANED"
      BY <1>1, <1>7, <2>1 DEF Recheck, CompressedVerified, Receipt
    <3> QED
      BY <1>1, <1>7, <2>1, <3>1, <3>2, EndKeepsOrder
         DEF Recheck, NamesContent, CleanedIsBare, KeepsCleaned
  <2> QED
    BY <1>1, <1>7, <2>1, RaiseKeepsOrder DEF Recheck, KeepsCleaned
<1>8. CASE Redownload(w)
  <2>1. CASE DownloadMatches(w)
    <3>1. receipt'.src # None /\ receipt'.state = "RESTORE_VERIFIED"
      BY <1>1, <1>8, <2>1 DEF Redownload, RestoreVerified, Receipt
    <3> QED
      BY <1>1, <1>8, <2>1, <3>1, EndKeepsOrder
         DEF Redownload, NamesContent, CleanedIsBare, KeepsCleaned
  <2> QED
    BY <1>1, <1>8, <2>1, RaiseKeepsOrder DEF Redownload, KeepsCleaned
<1>9. CASE Fault(w) \/ Crash(w)
  <2>1. receipt' = receipt \/ (receipt.state # "CLEANED" /\ receipt' = Failed(mem[w]))
    BY <1>3, <1>9 DEF Fault, Crash
  <2>2. Release(w) /\ raw' = raw
    BY <1>9 DEF Fault, Crash, world
  <2>3. NamesContent(receipt') /\ CleanedIsBare' /\ KeepsCleaned
    BY <1>1, <1>3, <2>1, <2>2 DEF NamesContent, CleanedIsBare, KeepsCleaned, Failed, Receipt
  <2> QED
    BY <1>1, <2>2, <2>3, EndKeepsOrder
<1> QED
  BY <1>4, <1>5, <1>6, <1>7, <1>8, <1>9

(* A call begins, or ends at the lock.                                     *)
LEMMA CallsKeepOrder ==
    ASSUME CleanedInv, ArchiveTypeOK', NEW w \in Workers,
           Start(w) \/ Refused(w) \/ ClaimNothing(w) \/ Claim(w)
    PROVE  CleanedInv' /\ KeepsCleaned
<1>1. pc[w] \notin Steps /\ UNCHANGED <<raw, receipt>>
  BY DEF Start, Refused, ClaimNothing, Claim, MayClaim, Steps, world
<1>2. /\ NamesContent(receipt) /\ CleanedIsBare /\ ArchiveTypeOK
      /\ receipt.state = "CLEANED" => raw = None
  BY DEF CleanedInv, CleanedIsBare
<1>3. \A v \in Workers \ {w} :
        UNCHANGED <<pc[v], op[v], art[v], mem[v], inTry[v]>>
  BY <1>2 DEF Start, Refused, ClaimNothing, Claim, Release, ArchiveTypeOK
<1>4. ASSUME \A v \in Workers \ {w} : pc[v] \in Steps => lock' = lock
      PROVE  \A v \in Workers \ {w} : Orderly(v)'
  <2> TAKE v \in Workers \ {w}
  <2>1. CASE pc[v] \in Steps
    BY <1>1, <1>3, <1>4, <2>1 DEF CleanedInv, Orderly
  <2> QED
    BY <1>3, <2>1, OthersKeepOrder
<1>5. CASE Start(w)
  <2>1. pc'[w] = "claim" /\ (op'[w] \in Finalizers => art'[w].raw # None)
    BY <1>2, <1>5 DEF Start, ArchiveTypeOK
  <2>2. Orderly(w)'
    BY <2>1 DEF Orderly, Steps
  <2> QED
    BY <1>1, <1>2, <1>4, <1>5, <2>2 DEF Start, CleanedInv, CleanedIsBare, KeepsCleaned
<1>6. CASE Refused(w) \/ ClaimNothing(w)
  <2>1. pc'[w] = "idle" /\ Release(w)
    BY <1>2, <1>6 DEF Refused, ClaimNothing, Release, ArchiveTypeOK
  <2>2. \A v \in Workers \ {w} : pc[v] \in Steps => lock' = lock
    BY <2>1 DEF Release, CleanedInv, Orderly
  <2>3. Orderly(w)'
    BY <2>1 DEF Orderly, Steps
  <2> QED
    BY <1>1, <1>2, <1>4, <2>2, <2>3 DEF CleanedInv, CleanedIsBare, KeepsCleaned
<1>7. CASE Claim(w)
  <2>1. \A v \in Workers : pc[v] \notin Steps
    BY <1>7, ArchiveAssumption DEF Claim, MayClaim, CleanedInv, Orderly
  <2>2. /\ pc'[w] = Entry(w) /\ lock' = w /\ inTry'[w] = (Entry(w) = "source")
        /\ mem'[w] = IF receipt = NoReceipt
                       THEN Receipt("DISCOVERED", art[w].raw, None, {}, FALSE) ELSE receipt
        /\ UNCHANGED <<op, art>> /\ op[w] \in Commands /\ pc[w] = "claim"
    BY <1>2, <1>7 DEF Claim, MayClaim, ArchiveTypeOK
  <2>3. /\ Entry(w) \in {"recheck", "redownload", "gates", "source"}
        /\ Entry(w) = "source" => op[w] \in Finalizers
    BY <2>2 DEF Entry, Commands
  <2>4. op[w] \in Finalizers => art[w].raw # None
    BY <2>2 DEF CleanedInv, Orderly
  <2>5. receipt = NoReceipt => op[w] \in Finalizers
    BY <1>7, <2>2 DEF Claim, NothingToDo, Commands, NoReceipt, Receipt
  <2>6. receipt.state = "CLEANED" => op[w] \notin Finalizers
    BY <1>7 DEF Claim, NothingToDo
  <2>7. mem'[w].src # None
    BY <1>2, <2>2, <2>4, <2>5 DEF NamesContent, Receipt
  <2>8. Orderly(w)'
    BY <1>1, <2>2, <2>3, <2>4, <2>6, <2>7 DEF Orderly, AtCleaned
  <2> QED
    BY <1>1, <1>2, <1>4, <2>1, <2>8 DEF CleanedInv, CleanedIsBare, KeepsCleaned
<1> QED
  BY <1>5, <1>6, <1>7

LEMMA CleanedInvStep ==
    ASSUME CleanedInv, [ArchiveNext]_vars
    PROVE  CleanedInv' /\ KeepsCleaned
<1>1. ArchiveTypeOK'
  BY TypeStep DEF CleanedInv
<1>2. ASSUME Rewrite \/ WriteManifest \/ RaceWinner \/ UNCHANGED vars
      PROVE  CleanedInv' /\ KeepsCleaned
  <2>1. UNCHANGED <<receipt, lock, pc, locals>> /\ (raw = None => raw' = None)
    BY <1>2 DEF Rewrite, WriteManifest, RaceWinner, vars, world
  <2>2. ASSUME NEW w \in Workers PROVE Orderly(w)'
    BY <2>1 DEF CleanedInv, Orderly, locals
  <2> QED
    BY <1>1, <2>1, <2>2 DEF CleanedInv, CleanedIsBare, KeepsCleaned
<1> QED
  BY <1>1, <1>2, StagesKeepOrder, CleanupKeepsOrder, CallsKeepOrder DEF ArchiveNext, Work

(* Only the restore command takes a cleaned partition out of CLEANED       *)
(* (finalize_artifact, cleanup_artifact, and the partition's flock),       *)
(* whatever becomes of its manifest.                                       *)
THEOREM CleanedStays == ArchiveSpec => CleanedIsKept
<1>1. ArchiveInit => CleanedInv
  <2> SUFFICES ASSUME ArchiveInit PROVE CleanedInv
    OBVIOUS
  <2>1. ArchiveTypeOK
    BY TypeInit
  <2>2. receipt.state # "CLEANED" /\ NamesContent(receipt)
    BY DEF ArchiveInit, NamesContent, NoReceipt, Receipt
  <2>3. \A w \in Workers : Orderly(w)
    BY DEF ArchiveInit, Orderly, Steps
  <2> QED
    BY <2>1, <2>2, <2>3 DEF CleanedInv, CleanedIsBare
<1>2. CleanedInv /\ [ArchiveNext]_vars => CleanedInv'
  BY CleanedInvStep
<1>3. CleanedInv /\ [ArchiveNext]_vars =>
        [receipt.state = "CLEANED" => receipt'.state \in {"CLEANED", "RESTORE_VERIFIED"}]_vars
  BY CleanedInvStep DEF KeepsCleaned
<1> QED
  BY <1>1, <1>2, <1>3, PTL DEF ArchiveSpec, CleanedIsKept
=============================================================================
