------------------------- MODULE FinalizationStore -------------------------
(***************************************************************************)
(* The finalization progress store of incremental_finalizer.py: one file   *)
(* per partition entry, pending.json, summary.json and the write-ahead     *)
(* record transaction.json, used by the collector (IncrementalManifest-    *)
(* Finalizer) and by the archive orchestrator (ClosedHourFinalizer), which *)
(* are different processes.                                                *)
(*                                                                         *)
(* Every call takes the store's lock and begins with a recovery.  One step *)
(* is one file replaced, so that a crash or a failing write can come       *)
(* between any two.  An entry's hash is modelled by the generation that    *)
(* wrote it: the contents carry a time stamp, no two are alike.            *)
(***************************************************************************)
EXTENDS Naturals, FiniteSets

CONSTANTS
  Entry,          \* partitions (entry ids)
  Collector,      \* processes that register partitions and finalize the pending ones
  Archiver,       \* processes that run ClosedHourFinalizer
  Nobody,         \* holder of a free lock
  None,           \* a file that does not exist
  MaxGeneration,  \* bound: no call that writes begins at this generation
  MaxCrashes,     \* bound on deaths of a process
  MaxFaults       \* bound on writes that raise

Process == Collector \cup Archiver

ASSUME StoreAssumption ==
  /\ IsFiniteSet(Entry)
  /\ Collector \cap Archiver = {}
  /\ Nobody \notin Process
  /\ None \notin Entry
  /\ MaxGeneration \in Nat /\ MaxCrashes \in Nat /\ MaxFaults \in Nat

VARIABLES
  entry,     \* entries/<id>.json
  pending,   \* pending.json
  summary,   \* summary.json
  tx,        \* transaction.json
  lock,      \* holder of .lock
  pc,        \* what each process does next
  op,        \* the call it is in
  work,      \* the entries its finalize_pending has still to mark
  crashes, faults

files == <<entry, pending, summary, tx>>
storeVars == <<entry, pending, summary, tx, lock, pc, op, work, crashes, faults>>

Outcome == {"REUSED", "RECOMPUTED", "FAILED"}
Contents == [state : {"PENDING"} \cup Outcome, stamp : Nat]
Absent == [state |-> "ABSENT", stamp |-> 0]

Summaries == [gen : Nat, total : Nat, pending : Nat, REUSED : Nat, RECOMPUTED : Nat,
              FAILED : Nat, complete : BOOLEAN]
Zero == [gen |-> 0, total |-> 0, pending |-> 0, REUSED |-> 0, RECOMPUTED |-> 0,
         FAILED |-> 0, complete |-> FALSE]
Indexes == [gen : Nat, ids : SUBSET Entry]
NoneListed == [gen |-> 0, ids |-> {}]

Calls == [name : {"register", "mark", "rescue", "list", "complete", "read"},
          id : Entry \cup {None}, to : {"PENDING"} \cup Outcome]
Call(name, e, s) == [name |-> name, id |-> e, to |-> s]
Idle == Call("read", None, "PENDING")

StoreInit ==
  /\ entry = [e \in Entry |-> Absent]
  /\ pending = None /\ summary = None /\ tx = None
  /\ lock = Nobody
  /\ pc = [p \in Process |-> "idle"]
  /\ op = [p \in Process |-> Idle]
  /\ work = [p \in Process |-> {}]
  /\ crashes = 0 /\ faults = 0

-----------------------------------------------------------------------------
(* What the files amount to: the write-ahead record decides, by whether its *)
(* entry has been written, and without one the two index files stand.       *)

\* Mutant: the record is always rolled forward.
CommittedAlways == tx # None

Committed == entry[tx.id] = tx.after

EffectiveSummary ==
  IF tx # None THEN IF Committed THEN tx.sumAfter ELSE tx.sum
  ELSE IF summary # None THEN summary ELSE Zero

EffectiveIds ==
  IF tx # None THEN IF Committed THEN tx.idsAfter ELSE tx.ids
  ELSE IF pending # None THEN pending.ids ELSE {}

Ledger == INSTANCE ProgressLedger WITH
  status <- [e \in Entry |-> entry[e].state],
  listed <- EffectiveIds,
  count <- [total |-> EffectiveSummary.total, pending |-> EffectiveSummary.pending,
            REUSED |-> EffectiveSummary.REUSED, RECOMPUTED |-> EffectiveSummary.RECOMPUTED,
            FAILED |-> EffectiveSummary.FAILED],
  complete <- EffectiveSummary.complete

-----------------------------------------------------------------------------
(* Calls.  Each waits for the lock.                                         *)

Begin(p, c) ==
  /\ lock = Nobody
  /\ lock' = p
  /\ pc' = [pc EXCEPT ![p] = "recover"]
  /\ op' = [op EXCEPT ![p] = c]
  /\ UNCHANGED <<files, work, crashes, faults>>

MayWrite == EffectiveSummary.gen < MaxGeneration

RegisterPending(p, e) ==
  /\ pc[p] = "idle" /\ MayWrite
  /\ Begin(p, Call("register", e, "PENDING"))

(* ClosedHourFinalizer, after it has archived the partition.                *)
MarkReused(p, e) ==
  /\ p \in Archiver
  /\ pc[p] = "idle" /\ MayWrite
  /\ Begin(p, Call("mark", e, "REUSED"))

(* reconcile, summary, get_entry, and pending_entries of the archiver.      *)
Reconcile(p) ==
  /\ pc[p] = "idle"
  /\ Begin(p, Idle)

FinalizePending(p) ==
  /\ p \in Collector
  /\ pc[p] = "idle" /\ MayWrite
  /\ Begin(p, Call("list", None, "PENDING"))

(* The receipt found, the raw file and its manifest decide the outcome;     *)
(* they are not part of the store.  mark_failed is called in the handler,   *)
(* so what it raises ends the loop.                                         *)
MarkNext(p, e, s) ==
  /\ pc[p] = "loop" /\ e \in work[p]
  /\ Begin(p, Call(IF s = "FAILED" THEN "rescue" ELSE "mark", e, s))

(* finalize_pending marks an entry FAILED when marking it has raised.       *)
Rescue(p) ==
  /\ pc[p] = "rescue"
  /\ Begin(p, Call("rescue", op[p].id, "FAILED"))

(* finalize_pending asks for the counts first and mark_complete again, under *)
(* its lock; only the second answer matters.                                *)
MarkComplete(p) ==
  /\ pc[p] = "loop" /\ work[p] = {}
  /\ Begin(p, Call("complete", None, "PENDING"))

Looping(p) == p \in Collector /\ op[p].name \in {"mark", "rescue"}

(* The call ends: back to the loop of finalize_pending or to the caller.    *)
Finish(p) ==
  /\ lock' = Nobody
  /\ pc' = [pc EXCEPT ![p] = IF Looping(p) THEN "loop" ELSE "idle"]
  /\ op' = [op EXCEPT ![p] = Idle]
  /\ work' = [work EXCEPT ![p] = IF Looping(p) THEN @ \ {op[p].id} ELSE {}]

(* The call raises: finalize_pending catches it once.                       *)
Raise(p) ==
  /\ lock' = Nobody
  /\ IF p \in Collector /\ op[p].name = "mark"
     THEN /\ pc' = [pc EXCEPT ![p] = "rescue"]
          /\ UNCHANGED <<op, work>>
     ELSE /\ pc' = [pc EXCEPT ![p] = "idle"]
          /\ op' = [op EXCEPT ![p] = Idle]
          /\ work' = [work EXCEPT ![p] = {}]

At(p, point) == lock = p /\ pc[p] = point
Goto(p, point) == pc' = [pc EXCEPT ![p] = point]

-----------------------------------------------------------------------------
(* Recovery, which every call begins with.                                  *)

Fresh == summary = None /\ pending = None /\ tx = None

InitSummary(p) ==
  /\ At(p, "recover") /\ Fresh
  /\ summary' = Zero
  /\ Goto(p, "init")
  /\ UNCHANGED <<entry, pending, tx, lock, op, work, crashes, faults>>

InitPending(p) ==
  /\ At(p, "init")
  /\ pending' = NoneListed
  /\ Goto(p, "recover")
  /\ UNCHANGED <<entry, summary, tx, lock, op, work, crashes, faults>>

Explained == entry[tx.id] \in {tx.before, tx.after}

ReplayPending(p) ==
  /\ At(p, "recover") /\ tx # None /\ Explained
  /\ pending' = IF Committed THEN [gen |-> tx.sumAfter.gen, ids |-> tx.idsAfter]
                ELSE [gen |-> tx.sum.gen, ids |-> tx.ids]
  /\ Goto(p, "replay summary")
  /\ UNCHANGED <<entry, summary, tx, lock, op, work, crashes, faults>>

ReplaySummary(p) ==
  /\ At(p, "replay summary")
  /\ summary' = IF Committed THEN tx.sumAfter ELSE tx.sum
  /\ Goto(p, "replay unlink")
  /\ UNCHANGED <<entry, pending, tx, lock, op, work, crashes, faults>>

ReplayUnlink(p) ==
  /\ At(p, "replay unlink")
  /\ tx' = None
  /\ Goto(p, "recover")
  /\ UNCHANGED <<entry, pending, summary, lock, op, work, crashes, faults>>

(* FINALIZATION_PROGRESS_CORRUPT: a record that matches neither state of    *)
(* its entry, a missing index, indexes of different generations, a listed   *)
(* partition without an entry.                                              *)
Corrupt ==
  IF tx # None THEN ~Explained
  ELSE IF summary = None \/ pending = None THEN TRUE
  ELSE \/ summary.gen # pending.gen
       \/ \E e \in pending.ids : entry[e] = Absent

RefuseCorrupt(p) ==
  /\ At(p, "recover") /\ ~Fresh /\ Corrupt
  /\ Raise(p)
  /\ UNCHANGED <<files, crashes, faults>>

(* A listed partition that has its outcome would be dropped from the list   *)
(* here; NothingToTidy says that there is never one.                        *)
Recovered(p) == At(p, "recover") /\ tx = None /\ ~Fresh /\ ~Corrupt

-----------------------------------------------------------------------------
(* A transition: the intent, the entry, the two indexes, the intent's end.  *)

Less(n) == IF n = 0 THEN 0 ELSE n - 1
Counted(n, s, t) == IF s = t THEN n + 1 ELSE n

\* Mutant: a partition that leaves the list stays counted as pending.
KeepsPending(was, s) ==
  [gen |-> summary.gen + 1,
   total |-> Counted(summary.total, s, "PENDING"),
   pending |-> Counted(summary.pending, s, "PENDING"),
   REUSED |-> Counted(summary.REUSED, s, "REUSED"),
   RECOMPUTED |-> Counted(summary.RECOMPUTED, s, "RECOMPUTED"),
   FAILED |-> Counted(summary.FAILED, s, "FAILED"),
   complete |-> summary.complete]

SummaryAfter(was, s) ==
  [gen |-> summary.gen + 1,
   total |-> Counted(summary.total, s, "PENDING"),
   pending |-> IF s = "PENDING" THEN summary.pending + 1
               ELSE IF was = "PENDING" THEN Less(summary.pending) ELSE summary.pending,
   REUSED |-> Counted(summary.REUSED, s, "REUSED"),
   RECOMPUTED |-> Counted(summary.RECOMPUTED, s, "RECOMPUTED"),
   FAILED |-> Counted(summary.FAILED, s, "FAILED"),
   complete |-> summary.complete]

Transition(e, s) ==
  [id |-> e, before |-> entry[e],
   after |-> [state |-> s, stamp |-> summary.gen + 1],
   ids |-> pending.ids,
   idsAfter |-> IF s = "PENDING" THEN pending.ids \cup {e} ELSE pending.ids \ {e},
   sum |-> summary, sumAfter |-> SummaryAfter(entry[e].state, s)]

Writes(c) == IF c.name = "register" THEN entry[c.id] = Absent
             ELSE c.name \in {"mark", "rescue"} /\ entry[c.id] # Absent

WriteIntent(p) ==
  /\ Recovered(p) /\ Writes(op[p])
  /\ tx' = Transition(op[p].id, op[p].to)
  /\ Goto(p, "entry")
  /\ UNCHANGED <<entry, pending, summary, lock, op, work, crashes, faults>>

WriteEntry(p) ==
  /\ At(p, "entry")
  /\ entry' = [entry EXCEPT ![tx.id] = tx.after]
  /\ Goto(p, "pending")
  /\ UNCHANGED <<pending, summary, tx, lock, op, work, crashes, faults>>

WritePending(p) ==
  /\ At(p, "pending")
  /\ pending' = [gen |-> tx.sumAfter.gen, ids |-> tx.idsAfter]
  /\ Goto(p, "summary")
  /\ UNCHANGED <<entry, summary, tx, lock, op, work, crashes, faults>>

WriteSummary(p) ==
  /\ At(p, "summary")
  /\ summary' = tx.sumAfter
  /\ Goto(p, "unlink")
  /\ UNCHANGED <<entry, pending, tx, lock, op, work, crashes, faults>>

UnlinkIntent(p) ==
  /\ At(p, "unlink")
  /\ tx' = None
  /\ Goto(p, "done")
  /\ UNCHANGED <<entry, pending, summary, lock, op, work, crashes, faults>>

(* Between the two only the directory is synced, which may raise.           *)
ReturnMarked(p) ==
  /\ At(p, "done")
  /\ Finish(p)
  /\ UNCHANGED <<files, crashes, faults>>

(* register_pending returns an entry that is there; the reads return.       *)
ReturnKnown(p) ==
  /\ Recovered(p)
  /\ \/ op[p].name = "register" /\ entry[op[p].id] # Absent
     \/ op[p].name = "read"
  /\ Finish(p)
  /\ UNCHANGED <<files, crashes, faults>>

RefuseUnknown(p) ==
  /\ Recovered(p)
  /\ op[p].name \in {"mark", "rescue"} /\ entry[op[p].id] = Absent
  /\ Raise(p)
  /\ UNCHANGED <<files, crashes, faults>>

ListPending(p) ==
  /\ Recovered(p) /\ op[p].name = "list"
  /\ lock' = Nobody
  /\ Goto(p, "loop")
  /\ op' = [op EXCEPT ![p] = Idle]
  /\ work' = [work EXCEPT ![p] = pending.ids]
  /\ UNCHANGED <<files, crashes, faults>>

Closed(s) == [gen |-> s.gen, total |-> s.total, pending |-> s.pending, REUSED |-> s.REUSED,
              RECOMPUTED |-> s.RECOMPUTED, FAILED |-> s.FAILED, complete |-> TRUE]

\* Mutant: failures do not stand in the way of COMPLETE.
MayCloseWithFailures == summary.pending = 0

MayClose == summary.pending = 0 /\ summary.FAILED = 0

WriteComplete(p) ==
  /\ Recovered(p) /\ op[p].name = "complete"
  /\ summary' = IF MayClose THEN Closed(summary) ELSE summary
  /\ Finish(p)
  /\ UNCHANGED <<entry, pending, tx, crashes, faults>>

-----------------------------------------------------------------------------
(* A read or write of a file raises, and so does the call.                  *)
Fault(p) ==
  /\ lock = p /\ faults < MaxFaults
  /\ faults' = faults + 1
  /\ Raise(p)
  /\ UNCHANGED <<files, crashes>>

(* The process dies; the kernel takes its lock away.                        *)
Crash(p) ==
  /\ pc[p] # "idle" /\ crashes < MaxCrashes
  /\ crashes' = crashes + 1
  /\ lock' = IF lock = p THEN Nobody ELSE lock
  /\ pc' = [pc EXCEPT ![p] = "idle"]
  /\ op' = [op EXCEPT ![p] = Idle]
  /\ work' = [work EXCEPT ![p] = {}]
  /\ UNCHANGED <<files, faults>>

StoreNext ==
  \E p \in Process :
    \/ \E e \in Entry :
         RegisterPending(p, e) \/ MarkReused(p, e) \/ \E s \in Outcome : MarkNext(p, e, s)
    \/ Reconcile(p) \/ FinalizePending(p) \/ Rescue(p) \/ MarkComplete(p)
    \/ InitSummary(p) \/ InitPending(p)
    \/ ReplayPending(p) \/ ReplaySummary(p) \/ ReplayUnlink(p) \/ RefuseCorrupt(p)
    \/ WriteIntent(p) \/ WriteEntry(p) \/ WritePending(p) \/ WriteSummary(p) \/ UnlinkIntent(p)
    \/ ReturnMarked(p) \/ ReturnKnown(p) \/ RefuseUnknown(p) \/ ListPending(p) \/ WriteComplete(p)
    \/ Fault(p) \/ Crash(p)

StoreSpec == StoreInit /\ [][StoreNext]_storeVars

-----------------------------------------------------------------------------
Transactions ==
  [id : Entry, before : Contents \cup {Absent}, after : Contents,
   ids : SUBSET Entry, idsAfter : SUBSET Entry, sum : Summaries, sumAfter : Summaries]

ASSUME NoneAssumption == None \notin Summaries \cup Indexes \cup Transactions

Points == {"idle", "loop", "rescue", "recover", "init", "replay summary", "replay unlink",
           "entry", "pending", "summary", "unlink", "done"}

(* Files have the shape their readers expect, processes are somewhere in a  *)
(* call.                                                                    *)
StoreTypeOK ==
  /\ entry \in [Entry -> Contents \cup {Absent}]
  /\ pending \in Indexes \cup {None}
  /\ summary \in Summaries \cup {None}
  /\ tx \in Transactions \cup {None}
  /\ lock \in Process \cup {Nobody}
  /\ pc \in [Process -> Points]
  /\ op \in [Process -> Calls]
  /\ work \in [Process -> SUBSET Entry]
  /\ crashes \in Nat /\ faults \in Nat

(* Whatever has died or raised, and wherever: what the next recovery makes  *)
(* of the files lists exactly the PENDING partitions, counts them and the   *)
(* registered ones, and forgets no outcome (_reconcile_transaction_locked,  *)
(* _apply_transition_locked); so the branch of _reconcile_locked that drops *)
(* finished partitions from the list never has anything to do.              *)
NothingToTidy ==
  tx = None /\ summary # None /\ pending # None =>
    /\ summary.gen = pending.gen
    /\ \A e \in pending.ids : entry[e].state = "PENDING"

IndexSurvives == Ledger!IndexIsTrue /\ NothingToTidy

(* A call refuses the store as corrupt only if its very first call died or  *)
(* failed between its two files: a store that has been used is recovered.   *)
CorruptOnlyAtBirth ==
  ~Fresh /\ Corrupt /\ lock = Nobody =>
    /\ summary = Zero /\ pending = None /\ tx = None
    /\ \A e \in Entry : entry[e] = Absent

(* COMPLETE is written only when every registered partition has a manifest: *)
(* none is pending and none has failed.                                     *)
CompleteIsEarned ==
  [][\A p \in Process : WriteComplete(p) /\ summary' # summary =>
       \A e \in Entry : entry[e].state \in {"ABSENT", "REUSED", "RECOMPUTED"}]_storeVars

(* The store implements the ledger of indivisible transitions: what a       *)
(* reader can see after recovery changes only when an entry is written.     *)
ImplementsLedger == Ledger!LedgerSpec

=============================================================================
