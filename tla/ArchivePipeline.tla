--------------------------- MODULE ArchivePipeline ---------------------------
(***************************************************************************)
(* One raw partition going through pre_soak_archive.ArchivePipeline: the   *)
(* closed JSONL file is checked against its manifest, compressed, uploaded,*)
(* read back, and only then may the raw file be deleted.  Workers are the  *)
(* processes that run finalize, verify, restore and cleanup; they exclude  *)
(* each other with flock and share nothing but files.  A content stands    *)
(* for a file together with its hash, size and record count; a compressed  *)
(* or remote object is named by the content it decompresses to.  Every     *)
(* step ends where the code has just written a file, so that a crash can   *)
(* fall between any two writes.                                            *)
(***************************************************************************)
EXTENDS Naturals

CONSTANTS
    Workers,        \* processes that may work on the partition
    Contents,       \* what the raw file may hold
    None,           \* no file, no object, nobody
    Ops,            \* the commands the workers use
    RaceWinners,    \* what another host may upload under the same key
    Remanifest,     \* may the manifest be generated again over a changed file?
    MaxRewrites,    \* how often the raw file is changed from outside
    MaxFaults,      \* how many calls raise for a reason of their own
    MaxCrashes      \* how many workers die in the middle

Finalizers == {"finalize", "finalizeClean"}
Commands == Finalizers \cup {"verify", "restore", "cleanup"}

ASSUME ArchiveAssumption ==
    /\ None \notin Contents \cup Workers
    /\ Ops \subseteq Commands
    /\ RaceWinners \subseteq Contents
    /\ Remanifest \in BOOLEAN
    /\ MaxRewrites \in Nat /\ MaxFaults \in Nat /\ MaxCrashes \in Nat

VARIABLES
    raw, manifest, compressed, remote,  \* the partition's files and its object
    receipt,                            \* the durable receipt
    lock,                               \* who holds the flock
    pc, op, art, mem, temp, inTry,      \* each worker's call
    rewrites, faults, crashes           \* bounds

world == <<raw, manifest, compressed, remote>>
locals == <<op, art, mem, temp, inTry>>
bounds == <<rewrites, faults, crashes>>
vars == <<world, receipt, lock, pc, locals, bounds>>

File == Contents \cup {None}
Checks == {"source", "compressed", "remote", "restore"}
ArchiveStates ==
    {"RAW_VERIFIED", "COMPRESSED", "COMPRESSED_VERIFIED", "ARCHIVED",
     "REMOTE_VERIFIED", "RESTORE_VERIFIED", "CLEANUP_ELIGIBLE", "CLEANED"}

(* src and comp are the recorded hashes; verified holds the checks that    *)
(* have a timestamp; elig is cleanup_eligible.                             *)
Receipts ==
    [state : ArchiveStates \cup {"ABSENT", "DISCOVERED", "FAILED"},
     src : File, comp : File, verified : SUBSET Checks, elig : BOOLEAN]

Receipt(state, src, comp, verified, elig) ==
    [state |-> state, src |-> src, comp |-> comp,
     verified |-> verified, elig |-> elig]

NoReceipt == Receipt("ABSENT", None, None, {}, FALSE)
NoArtifact == [raw |-> None, manifest |-> None]

Steps == {"source", "compress", "verify", "checked", "upload", "archived",
          "remote", "restore", "eligible", "settle", "gates", "unlink",
          "record", "recheck", "redownload"}

ArchiveTypeOK ==
    /\ raw \in File /\ manifest \in File /\ compressed \in File /\ remote \in File
    /\ receipt \in Receipts
    /\ lock \in Workers \cup {None}
    /\ pc \in [Workers -> Steps \cup {"idle", "claim"}]
    /\ op \in [Workers -> Commands]
    /\ art \in [Workers -> [raw : File, manifest : File]]
    /\ mem \in [Workers -> Receipts]
    /\ temp \in [Workers -> File]
    /\ inTry \in [Workers -> BOOLEAN]
    /\ rewrites \in 0..MaxRewrites /\ faults \in 0..MaxFaults
    /\ crashes \in 0..MaxCrashes

(* A closed partition the collector has written.                           *)
ArchiveInit ==
    /\ raw \in Contents
    /\ manifest = None /\ compressed = None /\ remote = None
    /\ receipt = NoReceipt
    /\ lock = None
    /\ pc = [w \in Workers |-> "idle"]
    /\ op = [w \in Workers |-> "finalize"]
    /\ art = [w \in Workers |-> NoArtifact]
    /\ mem = [w \in Workers |-> NoReceipt]
    /\ temp = [w \in Workers |-> None]
    /\ inTry = [w \in Workers |-> FALSE]
    /\ rewrites = 0 /\ faults = 0 /\ crashes = 0

----------------------------------------------------------------------------
(* The receipt after each stage.                                           *)

Failed(r) == Receipt("FAILED", r.src, r.comp, r.verified, r.elig)

SourceVerified(r, c) ==
    Receipt("RAW_VERIFIED", c, r.comp, r.verified \cup {"source"}, r.elig)

(* Mutant: the partition is cleanup eligible before it was uploaded.       *)
CompressedIsEligible(r, c) ==
    Receipt("COMPRESSED_VERIFIED", r.src, c,
            r.verified \cup {"compressed"}, TRUE)

CompressedVerified(r, c) ==
    Receipt("COMPRESSED_VERIFIED", r.src, c,
            r.verified \cup {"compressed"}, r.elig)

RemoteVerified(r) ==
    Receipt("REMOTE_VERIFIED", r.src, r.comp, r.verified \cup {"remote"}, r.elig)

RestoreVerified(r) ==
    Receipt("RESTORE_VERIFIED", r.src, r.comp, r.verified \cup {"restore"}, r.elig)

Advanced(r, state) == Receipt(state, r.src, r.comp, r.verified, r.elig)

EligibleForCleanup(r) ==
    Receipt("CLEANUP_ELIGIBLE", r.src, r.comp, r.verified, TRUE)

----------------------------------------------------------------------------
(* The end of a call.                                                      *)

(* The worker returns or raises: the flock goes, its memory goes.          *)
Release(w) ==
    /\ lock' = IF lock = w THEN None ELSE lock
    /\ pc' = [pc EXCEPT ![w] = "idle"]
    /\ op' = [op EXCEPT ![w] = "finalize"]
    /\ art' = [art EXCEPT ![w] = NoArtifact]
    /\ mem' = [mem EXCEPT ![w] = NoReceipt]
    /\ temp' = [temp EXCEPT ![w] = None]
    /\ inTry' = [inTry EXCEPT ![w] = FALSE]

(* A check fails: inside finalize's try block the receipt says so.         *)
Raise(w) ==
    /\ receipt' = IF inTry[w] THEN Failed(mem[w]) ELSE receipt
    /\ Release(w)
    /\ UNCHANGED <<world, bounds>>

Goto(w, step) ==
    /\ pc' = [pc EXCEPT ![w] = step]
    /\ UNCHANGED <<lock, op, art, inTry, bounds>>

(* The stage's result is kept in memory and written to the receipt.        *)
Record(w, r, step) ==
    /\ mem' = [mem EXCEPT ![w] = r]
    /\ receipt' = r
    /\ Goto(w, step)

----------------------------------------------------------------------------
(* A call starts: finalize hashes the file and its manifest before it asks *)
(* for the lock.                                                           *)
Start(w) ==
    /\ pc[w] = "idle"
    /\ \E o \in Ops :
         /\ o \in Finalizers => raw # None /\ manifest # None
         /\ op' = [op EXCEPT ![w] = o]
         /\ art' = [art EXCEPT ![w] =
                      IF o \in Finalizers
                      THEN [raw |-> raw, manifest |-> manifest] ELSE NoArtifact]
    /\ pc' = [pc EXCEPT ![w] = "claim"]
    /\ UNCHANGED <<world, receipt, lock, mem, temp, inTry, bounds>>

(* Mutant: the flock is not waited for, and not refused either.            *)
MayClaimAlways(w) == pc[w] = "claim"

(* LOCK_EX | LOCK_NB.                                                      *)
MayClaim(w) == pc[w] = "claim" /\ lock = None

Refused(w) ==
    /\ pc[w] = "claim" /\ lock # None
    /\ Release(w)
    /\ UNCHANGED <<world, receipt, bounds>>

Restored(r) == r.state \in {"RESTORE_VERIFIED", "CLEANUP_ELIGIBLE"}

(* The receipt, or its absence, ends the call at once.                     *)
NothingToDo(w) ==
    \/ /\ op[w] \in Finalizers
       /\ \/ receipt.state = "CLEANED"
          \/ Restored(receipt) /\ op[w] = "finalize"
          \/ ~Restored(receipt) /\ raw = None
    \/ op[w] \in {"verify", "restore"} /\ receipt = NoReceipt
    \/ op[w] = "cleanup" /\ ~receipt.elig

ClaimNothing(w) ==
    /\ MayClaim(w) /\ NothingToDo(w)
    /\ Release(w)
    /\ UNCHANGED <<world, receipt, bounds>>

(* Where the call goes on, and whether finalize's try block surrounds it.  *)
Entry(w) ==
    CASE op[w] = "verify" -> "recheck"
      [] op[w] = "restore" -> "redownload"
      [] op[w] = "cleanup" \/ Restored(receipt) -> "gates"
      [] OTHER -> "source"

(* A first finalize starts from a receipt that names the hashed file.      *)
Claim(w) ==
    /\ MayClaim(w) /\ ~NothingToDo(w)
    /\ lock' = w
    /\ pc' = [pc EXCEPT ![w] = Entry(w)]
    /\ mem' = [mem EXCEPT ![w] =
                 IF receipt = NoReceipt
                 THEN Receipt("DISCOVERED", art[w].raw, None, {}, FALSE)
                 ELSE receipt]
    /\ inTry' = [inTry EXCEPT ![w] = Entry(w) = "source"]
    /\ UNCHANGED <<world, receipt, op, art, temp, bounds>>

----------------------------------------------------------------------------
(* finalize_artifact, one action per stage.                                *)

(* Mutant: the manifest is not compared with the file.                     *)
SourceMatchesItself(w) == raw = art[w].raw

SourceMatches(w) ==
    manifest = art[w].manifest /\ raw = manifest /\ raw = art[w].raw

VerifySource(w) ==
    /\ pc[w] = "source"
    /\ IF SourceMatches(w)
       THEN /\ Record(w, SourceVerified(mem[w], raw), "compress")
            /\ UNCHANGED <<world, temp>>
       ELSE Raise(w)

(* A compressed file that is there already is taken as it is.              *)
Compress(w) ==
    /\ pc[w] = "compress"
    /\ temp' = [temp EXCEPT ![w] = IF compressed # None THEN compressed ELSE raw]
    /\ Record(w, Advanced(mem[w], "COMPRESSED"), "verify")
    /\ UNCHANGED world

StreamMatches(w) == temp[w] = mem[w].src

(* The temporary file is decompressed and moved into place.                *)
VerifyCompressed(w) ==
    /\ pc[w] = "verify"
    /\ IF StreamMatches(w)
       THEN /\ mem' = [mem EXCEPT ![w] = CompressedVerified(mem[w], temp[w])]
            /\ compressed' = temp[w]
            /\ Goto(w, "checked")
            /\ UNCHANGED <<raw, manifest, remote, receipt, temp>>
       ELSE Raise(w)

AssertUnchanged(w) ==
    /\ pc[w] = "checked"
    /\ IF raw = mem[w].src
       THEN /\ Record(w, mem[w], "upload")
            /\ UNCHANGED <<world, temp>>
       ELSE Raise(w)

(* IfNoneMatch: an object that is there already is left alone.             *)
Upload(w) ==
    /\ pc[w] = "upload"
    /\ remote' = IF remote = None THEN compressed ELSE remote
    /\ Goto(w, "archived")
    /\ UNCHANGED <<raw, manifest, compressed, receipt, mem, temp>>

Archive(w) ==
    /\ pc[w] = "archived"
    /\ Record(w, Advanced(mem[w], "ARCHIVED"), "remote")
    /\ UNCHANGED <<world, temp>>

VerifyRemote(w) ==
    /\ pc[w] = "remote"
    /\ IF remote = mem[w].comp
       THEN /\ Record(w, RemoteVerified(mem[w]), "restore")
            /\ UNCHANGED <<world, temp>>
       ELSE Raise(w)

(* Mutant: only what the download decompresses to is compared.             *)
DownloadDecompresses(w) == remote # None /\ remote = mem[w].src

(* The download's compressed hash and the hash of what it decompresses to. *)
DownloadMatches(w) ==
    remote # None /\ remote = mem[w].comp /\ remote = mem[w].src

VerifyRestore(w) ==
    /\ pc[w] = "restore"
    /\ IF DownloadMatches(w)
       THEN /\ Record(w, RestoreVerified(mem[w]), "eligible")
            /\ UNCHANGED <<world, temp>>
       ELSE Raise(w)

Eligible(w) ==
    /\ pc[w] = "eligible"
    /\ mem' = [mem EXCEPT ![w] = EligibleForCleanup(mem[w])]
    /\ Goto(w, "settle")
    /\ UNCHANGED <<world, receipt, temp>>

Settle(w) ==
    /\ pc[w] = "settle"
    /\ receipt' = mem[w]
    /\ UNCHANGED <<world, bounds>>
    /\ IF op[w] = "finalizeClean"
       THEN /\ pc' = [pc EXCEPT ![w] = "gates"]
            /\ UNCHANGED <<lock, locals>>
       ELSE Release(w)

----------------------------------------------------------------------------
(* _cleanup_artifact: gates and comparison, deletion, receipt.             *)

GatesOpen(w) ==
    /\ mem[w].elig /\ mem[w].verified = Checks
    /\ raw = None \/ raw = mem[w].src

OpenGates(w) ==
    /\ pc[w] = "gates"
    /\ IF GatesOpen(w)
       THEN /\ Goto(w, IF raw = None THEN "record" ELSE "unlink")
            /\ UNCHANGED <<world, receipt, mem, temp>>
       ELSE Raise(w)

Unlink(w) ==
    /\ pc[w] = "unlink"
    /\ raw' = None
    /\ Goto(w, "record")
    /\ UNCHANGED <<manifest, compressed, remote, receipt, mem, temp>>

RecordCleaned(w) ==
    /\ pc[w] = "record"
    /\ receipt' = Advanced(mem[w], "CLEANED")
    /\ Release(w)
    /\ UNCHANGED <<world, bounds>>

----------------------------------------------------------------------------
(* The commands verify and restore.                                        *)

Recheck(w) ==
    /\ pc[w] = "recheck"
    /\ IF compressed # None /\ compressed = mem[w].src /\ raw = mem[w].src
       THEN /\ receipt' = CompressedVerified(mem[w], compressed)
            /\ Release(w)
            /\ UNCHANGED <<world, bounds>>
       ELSE Raise(w)

Redownload(w) ==
    /\ pc[w] = "redownload"
    /\ IF DownloadMatches(w)
       THEN /\ receipt' = RestoreVerified(mem[w])
            /\ Release(w)
            /\ UNCHANGED <<world, bounds>>
       ELSE Raise(w)

----------------------------------------------------------------------------
(* A call under the lock raises for a reason of its own: the disk is full, *)
(* the store does not answer.  The FAILED receipt may be lost with it.     *)
Fault(w) ==
    /\ pc[w] \in Steps /\ faults < MaxFaults
    /\ \/ receipt' = receipt
       \/ inTry[w] /\ receipt' = Failed(mem[w])
    /\ faults' = faults + 1
    /\ Release(w)
    /\ UNCHANGED <<world, rewrites, crashes>>

(* The process dies: the kernel drops its flock.                           *)
Crash(w) ==
    /\ pc[w] \in Steps /\ crashes < MaxCrashes
    /\ crashes' = crashes + 1
    /\ Release(w)
    /\ UNCHANGED <<world, receipt, rewrites, faults>>

(* Outside the pipeline: the raw file is changed, its manifest is written  *)
(* (once, unless Remanifest), another host uploads under the key.          *)
Rewrite ==
    /\ raw # None /\ rewrites < MaxRewrites
    /\ raw' \in Contents \ {raw}
    /\ rewrites' = rewrites + 1
    /\ UNCHANGED <<manifest, compressed, remote, receipt, lock, pc, locals,
                   faults, crashes>>

WriteManifest ==
    /\ raw # None /\ (manifest = None \/ Remanifest)
    /\ manifest # raw
    /\ manifest' = raw
    /\ UNCHANGED <<raw, compressed, remote, receipt, lock, pc, locals, bounds>>

RaceWinner ==
    /\ remote = None
    /\ remote' \in RaceWinners
    /\ UNCHANGED <<raw, manifest, compressed, receipt, lock, pc, locals, bounds>>

Work(w) ==
    \/ Refused(w) \/ ClaimNothing(w) \/ Claim(w)
    \/ VerifySource(w) \/ Compress(w) \/ VerifyCompressed(w) \/ AssertUnchanged(w)
    \/ Upload(w) \/ Archive(w) \/ VerifyRemote(w) \/ VerifyRestore(w)
    \/ Eligible(w) \/ Settle(w)
    \/ OpenGates(w) \/ Unlink(w) \/ RecordCleaned(w)
    \/ Recheck(w) \/ Redownload(w)

ArchiveNext ==
    \/ \E w \in Workers : Start(w) \/ Work(w) \/ Fault(w) \/ Crash(w)
    \/ Rewrite \/ WriteManifest \/ RaceWinner

ArchiveSpec == ArchiveInit /\ [][ArchiveNext]_vars

(* The scheduler starts the partition again until it is done, a started    *)
(* call runs on, and the manifest is written in the end.                   *)
ArchiveFairSpec ==
    /\ ArchiveSpec
    /\ WF_vars(WriteManifest)
    /\ \A w \in Workers : WF_vars(Start(w)) /\ WF_vars(Work(w))

----------------------------------------------------------------------------
(* A raw file that is gone can be had back: the remote object holds what   *)
(* the manifest describes, whatever crashed, failed or raced.              *)
RestorableWhenGone == raw = None => remote # None /\ remote = manifest

(* A receipt that allows cleanup names content that the remote object      *)
(* holds, after any number of failed or repeated calls.                    *)
EligibleIsRestorable ==
    receipt.elig => remote # None /\ remote = receipt.src

(* What the receipt's stage claims of the files is so when it is read.     *)
StagesAreTrue ==
    /\ receipt.state \in {"COMPRESSED_VERIFIED", "ARCHIVED"} =>
         /\ compressed # None /\ compressed = receipt.comp
         /\ receipt.comp = receipt.src
    /\ receipt.state \in {"REMOTE_VERIFIED", "RESTORE_VERIFIED",
                          "CLEANUP_ELIGIBLE", "CLEANED"} =>
         remote # None /\ remote = receipt.comp /\ remote = receipt.src

(* Only the restore command, which has just read the remote object back,   *)
(* takes the receipt of a cleaned partition to another stage.              *)
CleanedIsKept ==
    [][receipt.state = "CLEANED" =>
         receipt'.state \in {"CLEANED", "RESTORE_VERIFIED"}]_vars

(* A partition nobody interferes with is archived and read back, however   *)
(* often workers crash or calls fail on the way.                           *)
IsArchived ==
    <>[](receipt.state \in {"RESTORE_VERIFIED", "CLEANUP_ELIGIBLE", "CLEANED"})

(* A partition whose finalize is to clean up is cleaned in the end, even   *)
(* if a worker dies on the way.                                            *)
BecomesCleaned == <>(receipt.state = "CLEANED")
=============================================================================
