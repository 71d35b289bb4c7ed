----------------------- MODULE FinalizationStoreProofs -----------------------
(***************************************************************************)
(* The progress store implements the ledger of indivisible transitions,    *)
(* its index survives every crash and failing write, and it is corrupt     *)
(* only when its very first call was cut short: for any finite set of      *)
(* partitions, any processes, and any number of crashes and faults.        *)
(*                                                                         *)
(* The argument: at every place in a call the write-ahead record, when it  *)
(* is there, holds both what was and what will be, and its entry is in one *)
(* of these two states, which differ because an entry's stamp is never     *)
(* ahead of the summary's generation.  So the files always amount to one   *)
(* ledger, and only the write of an entry, or of COMPLETE, moves it.       *)
(***************************************************************************)
EXTENDS FinalizationStore, FiniteSetTheorems, TLAPS

Holding == {"recover", "init", "replay summary", "replay unlink",
            "entry", "pending", "summary", "unlink", "done"}

Virgin == \A e \in Entry : entry[e] = Absent

(* Without a record the two index files agree, unless the store is being   *)
(* born.                                                                   *)
Agreed ==
  tx = None =>
    \/ summary # None /\ pending # None /\ summary.gen = pending.gen
    \/ Virgin /\ pending = None /\ summary \in {None, Zero}

(* A record's two sides differ by one transition of its entry.             *)
Differs(t) ==
  /\ t.before # t.after
  /\ t.after.state = "PENDING" <=> t.before = Absent
  /\ t.before.stamp <= t.sum.gen /\ t.after.stamp = t.sum.gen + 1
  /\ t.sumAfter.gen = t.sum.gen + 1
  /\ t.idsAfter = IF t.after.state = "PENDING" THEN t.ids \cup {t.id} ELSE t.ids \ {t.id}
  /\ t.sumAfter = [gen |-> t.sum.gen + 1,
                   total |-> Counted(t.sum.total, t.after.state, "PENDING"),
                   pending |-> IF t.after.state = "PENDING" THEN t.sum.pending + 1
                               ELSE IF t.before.state = "PENDING" THEN Less(t.sum.pending)
                               ELSE t.sum.pending,
                   REUSED |-> Counted(t.sum.REUSED, t.after.state, "REUSED"),
                   RECOMPUTED |-> Counted(t.sum.RECOMPUTED, t.after.state, "RECOMPUTED"),
                   FAILED |-> Counted(t.sum.FAILED, t.after.state, "FAILED"),
                   complete |-> t.sum.complete]

Recorded ==
  tx # None => summary # None /\ pending # None /\ Explained /\ Differs(tx)

Stamped == \A e \in Entry : entry[e].stamp <= EffectiveSummary.gen

PendingWritten == pending.gen = EffectiveSummary.gen /\ pending.ids = EffectiveIds

(* What the holder of the lock knows of the files at each point.           *)
Placed(p) ==
  /\ pc[p] \in Holding <=> lock = p
  /\ pc[p] = "init" => summary = Zero /\ pending = None /\ tx = None /\ Virgin
  /\ pc[p] \in {"replay summary", "replay unlink", "entry", "pending", "summary", "unlink"}
       => tx # None
  /\ pc[p] \in {"replay summary", "replay unlink", "summary", "unlink"} => PendingWritten
  /\ pc[p] \in {"replay unlink", "unlink"} => summary = EffectiveSummary
  /\ pc[p] = "entry" => entry[tx.id] = tx.before
  /\ pc[p] \in {"pending", "summary", "unlink"} => Committed

(* A call that writes names a partition.                                   *)
Named(p) ==
  /\ op[p].name \in {"register", "mark", "rescue"} => op[p].id \in Entry
  /\ op[p].name = "register" => op[p].to = "PENDING"
  /\ op[p].name \in {"mark", "rescue"} => op[p].to \in Outcome
  /\ pc[p] = "rescue" => op[p].id \in Entry

StoreInv ==
  /\ StoreTypeOK
  /\ Agreed /\ Recorded /\ Stamped
  /\ \A p \in Process : Placed(p) /\ Named(p)
  /\ Ledger!IndexIsTrue

-----------------------------------------------------------------------------
(* Counting.                                                               *)

Registered(st) == {e \in Entry : st[e] # "ABSENT"}
InState(st, s) == {e \in Entry : st[e] = s}

Statuses == {"ABSENT", "PENDING"} \cup Outcome
Counts == [total : Nat, pending : Nat, REUSED : Nat, RECOMPUTED : Nat, FAILED : Nat]

IndexOf(st, ids, c) ==
  /\ ids = InState(st, "PENDING")
  /\ c.pending = Cardinality(ids)
  /\ c.total = Cardinality(Registered(st))
  /\ \A s \in Outcome : c[s] >= Cardinality(InState(st, s))

LEMMA SubsetsFinite ==
  ASSUME NEW S \in SUBSET Entry
  PROVE  IsFiniteSet(S) /\ Cardinality(S) \in Nat
BY StoreAssumption, FS_Subset, FS_CardinalityType

LEMMA OneMore ==
  ASSUME NEW S \in SUBSET Entry, NEW x \in Entry, NEW T, T \subseteq S \cup {x}
  PROVE  Cardinality(T) <= Cardinality(S) + 1
<1>1. /\ IsFiniteSet(S \cup {x}) /\ Cardinality(S) \in Nat
      /\ Cardinality(S \cup {x}) <= Cardinality(S) + 1
      /\ Cardinality(S \cup {x}) \in Nat
  BY SubsetsFinite, FS_AddElement
<1>2. Cardinality(T) <= Cardinality(S \cup {x}) /\ Cardinality(T) \in Nat
  BY <1>1, FS_Subset, FS_CardinalityType
<1> QED
  BY <1>1, <1>2

(* A registered partition.                                                 *)
LEMMA RegisterCounts ==
  ASSUME NEW st \in [Entry -> Statuses], NEW ids, NEW c \in Counts, IndexOf(st, ids, c),
         NEW e \in Entry, st[e] = "ABSENT",
         NEW st2 \in [Entry -> Statuses], st2 = [st EXCEPT ![e] = "PENDING"],
         NEW c2, c2 = [total |-> c.total + 1, pending |-> c.pending + 1, REUSED |-> c.REUSED,
                       RECOMPUTED |-> c.RECOMPUTED, FAILED |-> c.FAILED]
  PROVE  IndexOf(st2, ids \cup {e}, c2)
<1>1. /\ Registered(st2) = Registered(st) \cup {e} /\ e \notin Registered(st)
      /\ InState(st2, "PENDING") = InState(st, "PENDING") \cup {e}
      /\ e \notin InState(st, "PENDING")
      /\ \A s \in Outcome : InState(st2, s) = InState(st, s)
  BY DEF Registered, InState, Outcome
<1>2. Registered(st) \in SUBSET Entry /\ InState(st, "PENDING") \in SUBSET Entry
  BY DEF Registered, InState
<1>3. /\ Cardinality(Registered(st2)) = Cardinality(Registered(st)) + 1
      /\ Cardinality(InState(st2, "PENDING")) = Cardinality(InState(st, "PENDING")) + 1
  BY <1>1, <1>2, SubsetsFinite, FS_AddElement
<1>4. \A s \in Outcome : c2[s] = c[s]
  BY DEF Outcome
<1> QED
  BY <1>1, <1>3, <1>4 DEF IndexOf

(* The pending count is never too small.                                   *)
LEMMA PendingCounted ==
  ASSUME NEW st \in [Entry -> Statuses], NEW ids, NEW c \in Counts, IndexOf(st, ids, c),
         NEW e \in Entry, st[e] = "PENDING"
  PROVE  c.pending \in Nat /\ c.pending > 0
<1>1. ids \in SUBSET Entry /\ e \in ids /\ c.pending = Cardinality(ids)
  BY DEF IndexOf, InState
<1>2. IsFiniteSet(ids) /\ Cardinality(ids) \in Nat
  BY <1>1, SubsetsFinite
<1>3. Cardinality(ids) # 0
  BY <1>1, <1>2, FS_EmptySet
<1> QED
  BY <1>1, <1>2, <1>3

(* A partition that gets an outcome.                                       *)
LEMMA FinishCounts ==
  ASSUME NEW st \in [Entry -> Statuses], NEW ids, NEW c \in Counts, IndexOf(st, ids, c),
         NEW e \in Entry, NEW s \in Outcome, st[e] # "ABSENT",
         NEW st2 \in [Entry -> Statuses], st2 = [st EXCEPT ![e] = s],
         NEW c2, c2 = [total |-> c.total,
                       pending |-> IF st[e] = "PENDING" THEN c.pending - 1 ELSE c.pending,
                       REUSED |-> Counted(c.REUSED, s, "REUSED"),
                       RECOMPUTED |-> Counted(c.RECOMPUTED, s, "RECOMPUTED"),
                       FAILED |-> Counted(c.FAILED, s, "FAILED")]
  PROVE  IndexOf(st2, ids \ {e}, c2)
<1>1. /\ Registered(st2) = Registered(st)
      /\ InState(st2, "PENDING") = InState(st, "PENDING") \ {e}
      /\ \A t \in Outcome \ {s} : InState(st2, t) \subseteq InState(st, t)
      /\ InState(st2, s) \subseteq InState(st, s) \cup {e}
  BY DEF Registered, InState, Outcome
<1>2. \A t \in Statuses : InState(st, t) \in SUBSET Entry /\ InState(st2, t) \in SUBSET Entry
  BY DEF InState
<1>3. /\ Cardinality(ids) \in Nat /\ Cardinality(ids \ {e}) \in Nat
      /\ Cardinality(ids \ {e}) = IF e \in ids THEN Cardinality(ids) - 1 ELSE Cardinality(ids)
  <2>1. ids \in SUBSET Entry
    BY DEF IndexOf, InState
  <2> QED
    BY <2>1, SubsetsFinite, FS_RemoveElement
<1>4. e \in ids <=> st[e] = "PENDING"
  BY DEF IndexOf, InState
<1>5. c2.pending = Cardinality(ids \ {e})
  BY <1>3, <1>4 DEF IndexOf
<1>6. c2[s] >= Cardinality(InState(st2, s))
  <2>1. Cardinality(InState(st2, s)) <= Cardinality(InState(st, s)) + 1
    BY <1>1, <1>2, OneMore DEF Statuses
  <2>2. Cardinality(InState(st2, s)) \in Nat /\ Cardinality(InState(st, s)) \in Nat
    BY <1>2, SubsetsFinite DEF Statuses
  <2>3. c2[s] = c[s] + 1 /\ c[s] \in Nat
    BY DEF Counted, Outcome, Counts
  <2> QED
    BY <2>1, <2>2, <2>3 DEF IndexOf
<1>7. ASSUME NEW t \in Outcome \ {s} PROVE c2[t] >= Cardinality(InState(st2, t))
  <2>1. Cardinality(InState(st2, t)) <= Cardinality(InState(st, t))
    BY <1>1, <1>2, SubsetsFinite, FS_Subset DEF Statuses
  <2>2. Cardinality(InState(st2, t)) \in Nat /\ Cardinality(InState(st, t)) \in Nat
    BY <1>2, SubsetsFinite DEF Statuses
  <2>3. c2[t] = c[t] /\ c[t] \in Nat
    BY DEF Counted, Outcome, Counts
  <2> QED
    BY <2>1, <2>2, <2>3 DEF IndexOf
<1> QED
  BY <1>1, <1>5, <1>6, <1>7 DEF IndexOf

-----------------------------------------------------------------------------
(* Type correctness.                                                       *)

FileTypes ==
  /\ entry \in [Entry -> Contents \cup {Absent}]
  /\ pending \in Indexes \cup {None}
  /\ summary \in Summaries \cup {None}
  /\ tx \in Transactions \cup {None}

CallTypes ==
  /\ lock \in Process \cup {Nobody}
  /\ pc \in [Process -> Points]
  /\ op \in [Process -> Calls]
  /\ work \in [Process -> SUBSET Entry]

LEMMA SummaryAfterType ==
  ASSUME summary \in Summaries, NEW was, NEW s
  PROVE  SummaryAfter(was, s) \in Summaries
<1>1. \A n \in Nat : \A t : Counted(n, s, t) \in Nat /\ Less(n) \in Nat
  BY DEF Counted, Less
<1> QED
  BY <1>1 DEF SummaryAfter, Summaries

LEMMA TransitionType ==
  ASSUME FileTypes, NEW e \in Entry, NEW s \in {"PENDING"} \cup Outcome,
         summary # None, pending # None
  PROVE  Transition(e, s) \in Transactions
<1>1. summary \in Summaries /\ pending \in Indexes /\ entry[e] \in Contents \cup {Absent}
  BY DEF FileTypes
<1>2. SummaryAfter(entry[e].state, s) \in Summaries
  BY <1>1, SummaryAfterType
<1>3. /\ pending.ids \in SUBSET Entry
      /\ (IF s = "PENDING" THEN pending.ids \cup {e} ELSE pending.ids \ {e}) \in SUBSET Entry
  BY <1>1 DEF Indexes
<1>4. [state |-> s, stamp |-> summary.gen + 1] \in Contents
  BY <1>1 DEF Contents, Summaries
<1> QED
  BY <1>1, <1>2, <1>3, <1>4 DEF Transition, Transactions

LEMMA TxTypes ==
  ASSUME FileTypes, tx # None
  PROVE  /\ tx.id \in Entry /\ tx.after \in Contents /\ tx.before \in Contents \cup {Absent}
         /\ tx.ids \in SUBSET Entry /\ tx.idsAfter \in SUBSET Entry
         /\ tx.sum \in Summaries /\ tx.sumAfter \in Summaries
         /\ tx.sum.gen \in Nat /\ tx.sumAfter.gen \in Nat
BY DEF FileTypes, Transactions, Summaries

LEMMA CallType ==
  ASSUME NEW n \in {"register", "mark", "rescue", "list", "complete", "read"},
         NEW e \in Entry \cup {None}, NEW s \in {"PENDING"} \cup Outcome
  PROVE  Call(n, e, s) \in Calls
BY DEF Call, Calls

LEMMA IdleType == Idle \in Calls
BY CallType DEF Idle

LEMMA BeginTypes ==
  ASSUME CallTypes, NEW p \in Process, NEW c \in Calls, Begin(p, c)
  PROVE  CallTypes'
BY DEF CallTypes, Begin, Points

LEMMA FinishTypes ==
  ASSUME CallTypes, NEW p \in Process, Finish(p)
  PROVE  CallTypes'
BY IdleType DEF CallTypes, Finish, Points

LEMMA RaiseTypes ==
  ASSUME CallTypes, NEW p \in Process, Raise(p)
  PROVE  CallTypes'
BY IdleType DEF CallTypes, Raise, Points

Begins(p) ==
  \/ \E e \in Entry :
       RegisterPending(p, e) \/ MarkReused(p, e) \/ \E s \in Outcome : MarkNext(p, e, s)
  \/ Reconcile(p) \/ FinalizePending(p) \/ Rescue(p) \/ MarkComplete(p)

Ends(p) ==
  ReturnMarked(p) \/ ReturnKnown(p) \/ RefuseUnknown(p) \/ ListPending(p) \/ WriteComplete(p)
  \/ RefuseCorrupt(p) \/ Fault(p) \/ Crash(p)

Replays(p) ==
  InitSummary(p) \/ InitPending(p) \/ ReplayPending(p) \/ ReplaySummary(p) \/ ReplayUnlink(p)

Moves(p) ==
  WriteIntent(p) \/ WriteEntry(p) \/ WritePending(p) \/ WriteSummary(p) \/ UnlinkIntent(p)

LEMMA NextCases ==
  StoreNext <=> \E p \in Process : Begins(p) \/ Ends(p) \/ Replays(p) \/ Moves(p)
BY DEF StoreNext, Begins, Ends, Replays, Moves

(* A call begins with the lock and a named partition.                      *)
LEMMA Beginning ==
  ASSUME StoreInv, NEW p \in Process, Begins(p)
  PROVE  /\ UNCHANGED files /\ UNCHANGED <<crashes, faults>>
         /\ \E c \in Calls :
              /\ Begin(p, c)
              /\ c.name \in {"register", "mark", "rescue"} => c.id \in Entry
              /\ c.name = "register" => c.to = "PENDING"
              /\ c.name \in {"mark", "rescue"} => c.to \in Outcome
<1>1. /\ \A e \in Entry : Call("register", e, "PENDING") \in Calls
      /\ \A e \in Entry, s \in Outcome :
            Call("mark", e, s) \in Calls /\ Call("rescue", e, s) \in Calls
      /\ Call("list", None, "PENDING") \in Calls
      /\ Call("complete", None, "PENDING") \in Calls
  BY CallType
<1>2. "FAILED" \in Outcome /\ "REUSED" \in Outcome
  BY DEF Outcome
<1>3. ASSUME NEW c \in Calls, Begin(p, c)
      PROVE  UNCHANGED files /\ UNCHANGED <<crashes, faults>>
  BY <1>3 DEF Begin
<1>4. CASE \E e \in Entry : RegisterPending(p, e)
  BY <1>1, <1>3, <1>4 DEF RegisterPending, Call
<1>5. CASE \E e \in Entry : MarkReused(p, e) \/ \E s \in Outcome : MarkNext(p, e, s)
  BY <1>1, <1>2, <1>3, <1>5 DEF MarkReused, MarkNext, Call
<1>6. CASE Reconcile(p)
  BY <1>3, <1>6, IdleType DEF Reconcile, Idle, Call
<1>7. CASE FinalizePending(p) \/ MarkComplete(p)
  BY <1>1, <1>3, <1>7 DEF FinalizePending, MarkComplete, Call
<1>8. CASE Rescue(p)
  <2>1. op[p].id \in Entry
    BY <1>8 DEF StoreInv, Named, Rescue
  <2> QED
    BY <1>1, <1>2, <1>3, <1>8, <2>1 DEF Rescue, Call
<1> QED
  BY <1>4, <1>5, <1>6, <1>7, <1>8 DEF Begins

LEMMA TypeSplit ==
  StoreTypeOK <=> FileTypes /\ CallTypes /\ crashes \in Nat /\ faults \in Nat
BY DEF StoreTypeOK, FileTypes, CallTypes

LEMMA TypeSplitNext ==
  FileTypes' /\ CallTypes' /\ crashes' \in Nat /\ faults' \in Nat => StoreTypeOK'
BY DEF StoreTypeOK, FileTypes, CallTypes

LEMMA EndTypes ==
  ASSUME StoreInv, NEW p \in Process, Ends(p)
  PROVE  StoreTypeOK'
<1>0. FileTypes /\ CallTypes /\ crashes \in Nat /\ faults \in Nat
  BY TypeSplit DEF StoreInv
<1>1. CASE WriteComplete(p)
  <2>1. summary # None => Closed(summary) \in Summaries
    BY <1>0 DEF FileTypes, Closed, Summaries
  <2>2. summary # None
    BY <1>1 DEF WriteComplete, Recovered, Corrupt, Fresh
  <2>3. FileTypes'
    BY <1>0, <1>1, <2>1, <2>2 DEF FileTypes, WriteComplete
  <2> QED
    BY <1>0, <1>1, <2>3, FinishTypes, TypeSplitNext DEF WriteComplete
<1>2. CASE ListPending(p)
  <2>1. pending # None
    BY <1>2 DEF ListPending, Recovered, Corrupt, Fresh
  <2>2. pending.ids \in SUBSET Entry
    BY <1>0, <2>1 DEF FileTypes, Indexes
  <2>3. CallTypes'
    BY <1>0, <1>2, <2>2, IdleType DEF CallTypes, ListPending, Goto, Points
  <2> QED
    BY <1>0, <1>2, <2>3, TypeSplitNext DEF ListPending, files, FileTypes
<1>3. CASE Crash(p)
  <2>1. CallTypes'
    BY <1>0, <1>3, IdleType DEF CallTypes, Crash, Points
  <2> QED
    BY <1>0, <1>3, <2>1, TypeSplitNext DEF Crash, files, FileTypes
<1>4. CASE Fault(p) \/ RefuseCorrupt(p) \/ RefuseUnknown(p)
  <2>1. CallTypes'
    BY <1>0, <1>4, RaiseTypes DEF Fault, RefuseCorrupt, RefuseUnknown
  <2> QED
    BY <1>0, <1>4, <2>1, TypeSplitNext DEF Fault, RefuseCorrupt, RefuseUnknown, files, FileTypes
<1>5. CASE ReturnMarked(p) \/ ReturnKnown(p)
  <2>1. CallTypes'
    BY <1>0, <1>5, FinishTypes DEF ReturnMarked, ReturnKnown
  <2> QED
    BY <1>0, <1>5, <2>1, TypeSplitNext DEF ReturnMarked, ReturnKnown, files, FileTypes
<1> QED
  BY <1>1, <1>2, <1>3, <1>4, <1>5 DEF Ends

LEMMA WriteTypes ==
  ASSUME StoreInv, NEW p \in Process, Replays(p) \/ Moves(p)
  PROVE  StoreTypeOK'
<1>0. FileTypes /\ CallTypes /\ crashes \in Nat /\ faults \in Nat
  BY TypeSplit DEF StoreInv
<1>1. CallTypes' /\ UNCHANGED <<crashes, faults>>
  BY <1>0 DEF CallTypes, Replays, Moves, InitSummary, InitPending, ReplayPending, ReplaySummary,
     ReplayUnlink, WriteIntent, WriteEntry, WritePending, WriteSummary, UnlinkIntent, Goto, Points
<1>2. pc[p] \in {"replay summary", "entry", "pending", "summary"} => tx # None
  BY DEF StoreInv, Placed
<1>3. Zero \in Summaries /\ NoneListed \in Indexes
  BY DEF Zero, Summaries, NoneListed, Indexes
<1>4. FileTypes'
  <2>1. CASE InitSummary(p) \/ InitPending(p)
    BY <1>0, <1>3, <2>1 DEF FileTypes, InitSummary, InitPending
  <2>2. CASE ReplayPending(p)
    <3>1. /\ [gen |-> tx.sumAfter.gen, ids |-> tx.idsAfter] \in Indexes
          /\ [gen |-> tx.sum.gen, ids |-> tx.ids] \in Indexes
      BY <1>0, <2>2, TxTypes DEF ReplayPending, Indexes
    <3> QED
      BY <1>0, <2>2, <3>1 DEF FileTypes, ReplayPending
  <2>3. CASE ReplaySummary(p)
    <3>1. tx.sum \in Summaries /\ tx.sumAfter \in Summaries
      BY <1>0, <1>2, <2>3, TxTypes DEF ReplaySummary, At
    <3> QED
      BY <1>0, <2>3, <3>1 DEF FileTypes, ReplaySummary
  <2>4. CASE ReplayUnlink(p) \/ UnlinkIntent(p)
    BY <1>0, <2>4 DEF FileTypes, ReplayUnlink, UnlinkIntent
  <2>5. CASE WriteIntent(p)
    <3>1. summary # None /\ pending # None
      BY <2>5 DEF WriteIntent, Recovered, Corrupt, Fresh
    <3>2. op[p].id \in Entry /\ op[p].to \in {"PENDING"} \cup Outcome
      BY <2>5 DEF WriteIntent, Writes, StoreInv, Named
    <3>3. tx' \in Transactions
      BY <1>0, <2>5, <3>1, <3>2, TransitionType DEF WriteIntent
    <3> QED
      BY <1>0, <2>5, <3>3 DEF FileTypes, WriteIntent
  <2>6. CASE WriteEntry(p)
    <3>1. tx.after \in Contents /\ tx.id \in Entry
      BY <1>0, <1>2, <2>6, TxTypes DEF WriteEntry, At
    <3> QED
      BY <1>0, <2>6, <3>1 DEF FileTypes, WriteEntry
  <2>7. CASE WritePending(p)
    <3>1. [gen |-> tx.sumAfter.gen, ids |-> tx.idsAfter] \in Indexes
      BY <1>0, <1>2, <2>7, TxTypes DEF WritePending, At, Indexes
    <3> QED
      BY <1>0, <2>7, <3>1 DEF FileTypes, WritePending
  <2>8. CASE WriteSummary(p)
    <3>1. tx.sumAfter \in Summaries
      BY <1>0, <1>2, <2>8, TxTypes DEF WriteSummary, At
    <3> QED
      BY <1>0, <2>8, <3>1 DEF FileTypes, WriteSummary
  <2> QED
    BY <2>1, <2>2, <2>3, <2>4, <2>5, <2>6, <2>7, <2>8 DEF Replays, Moves
<1> QED
  BY <1>0, <1>1, <1>4, TypeSplitNext

LEMMA TypeStep ==
  ASSUME StoreInv, StoreNext
  PROVE  StoreTypeOK'
<1>1. ASSUME NEW p \in Process, Begins(p) PROVE StoreTypeOK'
  <2>1. FileTypes /\ CallTypes /\ crashes \in Nat /\ faults \in Nat
    BY TypeSplit DEF StoreInv
  <2>2. CallTypes'
    BY <1>1, <2>1, Beginning, BeginTypes
  <2> QED
    BY <1>1, <2>1, <2>2, Beginning, TypeSplitNext DEF files, FileTypes
<1> QED
  BY <1>1, EndTypes, WriteTypes, NextCases

-----------------------------------------------------------------------------
(* Steps that leave the ledger alone.                                      *)

FilesInv == Agreed /\ Recorded /\ Stamped /\ Ledger!IndexIsTrue

SameLedger ==
  /\ entry' = entry
  /\ EffectiveSummary' = EffectiveSummary
  /\ EffectiveIds' = EffectiveIds

LEMMA LedgerSame ==
  ASSUME SameLedger
  PROVE  /\ UNCHANGED Ledger!ledgerVars
         /\ Ledger!IndexIsTrue => Ledger!IndexIsTrue'
         /\ Stamped => Stamped'
BY DEF SameLedger, Ledger!ledgerVars, Ledger!IndexIsTrue, Ledger!InState, Ledger!Registered,
       Stamped

LEMMA FilesSame ==
  ASSUME FilesInv, UNCHANGED files
  PROVE  FilesInv' /\ UNCHANGED Ledger!ledgerVars
<1>1. SameLedger
  BY DEF SameLedger, files, EffectiveSummary, EffectiveIds, Committed
<1>2. Agreed' /\ Recorded'
  BY DEF FilesInv, Agreed, Recorded, Explained, Virgin, files
<1> QED
  BY <1>1, <1>2, LedgerSame DEF FilesInv

(* A process that does not hold the lock knows nothing.                    *)
LEMMA Elsewhere ==
  ASSUME StoreInv, NEW q \in Process, lock # q, lock' # q,
         pc'[q] = pc[q], op'[q] = op[q]
  PROVE  Placed(q)' /\ Named(q)'
BY DEF StoreInv, Placed, Named, Holding

LEMMA NobodyIsNone ==
  ASSUME NEW p \in Process
  PROVE  Nobody # p
BY StoreAssumption

LEMMA BeginPlaced ==
  ASSUME StoreInv, NEW p \in Process, Begins(p)
  PROVE  \A q \in Process : Placed(q)' /\ Named(q)'
<1>1. PICK c \in Calls :
        /\ Begin(p, c)
        /\ c.name \in {"register", "mark", "rescue"} => c.id \in Entry
        /\ c.name = "register" => c.to = "PENDING"
        /\ c.name \in {"mark", "rescue"} => c.to \in Outcome
  BY Beginning
<1>2. /\ lock = Nobody /\ lock' = p /\ pc'[p] = "recover" /\ op'[p] = c
      /\ \A q \in Process \ {p} : pc'[q] = pc[q] /\ op'[q] = op[q]
  BY <1>1 DEF Begin, StoreInv, StoreTypeOK
<1>3. Placed(p)' /\ Named(p)'
  BY <1>1, <1>2 DEF Placed, Named, Holding
<1> QED
  BY <1>2, <1>3, Elsewhere, NobodyIsNone

(* A call that ends frees the lock and stands outside.                     *)
LEMMA EndPlaced ==
  ASSUME StoreInv, NEW p \in Process, Ends(p)
  PROVE  \A q \in Process : Placed(q)' /\ Named(q)'
<1>0. Placed(p) /\ Named(p) /\ Nobody # p /\ pc \in [Process -> Points]
      /\ op \in [Process -> Calls]
  BY NobodyIsNone DEF StoreInv, StoreTypeOK
<1>1. \A q \in Process \ {p} : pc'[q] = pc[q] /\ op'[q] = op[q]
  BY <1>0 DEF Ends, ReturnMarked, ReturnKnown, RefuseUnknown, ListPending, WriteComplete,
     RefuseCorrupt, Fault, Crash, Finish, Raise, Goto
<1>2. lock' = Nobody \/ (lock' = lock /\ lock # p)
  BY DEF Ends, ReturnMarked, ReturnKnown, RefuseUnknown, ListPending, WriteComplete,
     RefuseCorrupt, Fault, Crash, Finish, Raise
<1>3. /\ pc'[p] \in {"idle", "loop", "rescue"}
      /\ pc'[p] = "rescue" => op'[p] = op[p] /\ op[p].name = "mark"
      /\ op'[p] \in {op[p], Idle}
  BY <1>0 DEF Ends, ReturnMarked, ReturnKnown, RefuseUnknown, ListPending, WriteComplete,
     RefuseCorrupt, Fault, Crash, Finish, Raise, Goto
<1>4. Placed(p)'
  BY <1>0, <1>2, <1>3 DEF Placed, Holding
<1>5. Named(p)'
  BY <1>0, <1>3 DEF Named, Idle, Call
<1>6. ASSUME NEW q \in Process \ {p} PROVE Placed(q)' /\ Named(q)'
  <2>1. CASE lock # q
    BY <1>1, <1>2, <2>1, Elsewhere, NobodyIsNone
  <2>2. CASE lock = q
    <3>1. Crash(p)
      BY <1>0, <2>2 DEF Ends, ReturnMarked, ReturnKnown, RefuseUnknown, ListPending,
         WriteComplete, RefuseCorrupt, Fault, At, Recovered
    <3>2. lock' = lock /\ UNCHANGED files
      BY <2>2, <3>1 DEF Crash
    <3>3. Placed(q) /\ Named(q)
      BY DEF StoreInv
    <3> QED
      BY <1>1, <3>2, <3>3
      DEF Placed, Named, files, Virgin, PendingWritten, EffectiveSummary, EffectiveIds,
          Committed
  <2> QED
    BY <2>1, <2>2
<1> QED
  BY <1>4, <1>5, <1>6

(* Its files stay, except for COMPLETE.                                    *)
LEMMA EndFiles ==
  ASSUME StoreInv, NEW p \in Process, Ends(p)
  PROVE  FilesInv' /\ [Ledger!LedgerNext]_(Ledger!ledgerVars)
<1>0. FilesInv
  BY DEF StoreInv, FilesInv
<1>1. CASE UNCHANGED files
  BY <1>0, <1>1, FilesSame
<1>2. CASE WriteComplete(p) /\ MayClose
  <2>1. summary # None /\ pending # None /\ tx = None /\ summary.gen = pending.gen
    BY <1>2 DEF WriteComplete, Recovered, Corrupt, Fresh
  <2>2. UNCHANGED <<entry, pending, tx>> /\ summary' = Closed(summary)
    BY <1>2 DEF WriteComplete
  <2>3. summary' # None
    <3>1. summary \in Summaries
      BY <2>1 DEF StoreInv, StoreTypeOK
    <3>2. Closed(summary) \in Summaries
      BY <3>1 DEF Closed, Summaries
    <3> QED
      BY <2>2, <3>2, NoneAssumption
  <2>4. EffectiveSummary = summary /\ EffectiveSummary' = Closed(summary)
        /\ EffectiveIds' = EffectiveIds
    BY <2>1, <2>2, <2>3 DEF EffectiveSummary, EffectiveIds
  <2>5. Agreed' /\ Recorded' /\ Stamped'
    <3>1. summary'.gen = summary.gen
      BY <2>2 DEF Closed
    <3>2. Agreed' /\ Recorded'
      BY <2>1, <2>2, <2>3, <3>1 DEF Agreed, Recorded
    <3>3. EffectiveSummary'.gen = EffectiveSummary.gen
      BY <2>4 DEF Closed
    <3> QED
      BY <1>0, <2>2, <3>2, <3>3 DEF FilesInv, Stamped
  <2>6. Ledger!IndexIsTrue'
    BY <1>0, <2>2, <2>4 DEF FilesInv, Ledger!IndexIsTrue, Ledger!InState, Ledger!Registered,
       Closed
  <2>7. Ledger!Close
    BY <1>2, <2>2, <2>4 DEF Ledger!Close, MayClose, Closed
  <2> QED
    BY <2>5, <2>6, <2>7 DEF FilesInv, Ledger!LedgerNext
<1>3. CASE WriteComplete(p) /\ ~MayClose
  BY <1>1, <1>3 DEF WriteComplete, files
<1> QED
  BY <1>1, <1>2, <1>3
  DEF Ends, ReturnMarked, ReturnKnown, RefuseUnknown, ListPending, RefuseCorrupt, Fault, Crash

-----------------------------------------------------------------------------
(* The steps of the holder: where it is, what the files amount to.         *)

LEMMA HolderOthers ==
  ASSUME StoreInv, NEW p \in Process, Replays(p) \/ Moves(p)
  PROVE  /\ lock = p /\ lock' = p /\ Placed(p) /\ Named(p) /\ FilesInv /\ FileTypes
         /\ op' = op /\ \E x \in Holding : pc' = [pc EXCEPT ![p] = x]
         /\ Named(p)'
         /\ \A q \in Process \ {p} : Placed(q)' /\ Named(q)'
<1>1. /\ lock = p /\ lock' = p /\ op' = op
      /\ \E x \in Holding : pc' = [pc EXCEPT ![p] = x]
  BY DEF Replays, Moves, InitSummary, InitPending, ReplayPending, ReplaySummary,
     ReplayUnlink, WriteIntent, WriteEntry, WritePending, WriteSummary, UnlinkIntent, Goto,
     At, Recovered, Holding
<1>2. Placed(p) /\ Named(p) /\ FilesInv /\ FileTypes /\ pc \in [Process -> Points]
  BY TypeSplit DEF StoreInv, FilesInv, CallTypes
<1>3. pc'[p] # "rescue" /\ \A q \in Process \ {p} : pc'[q] = pc[q] /\ op'[q] = op[q]
  BY <1>1, <1>2 DEF Holding
<1>4. Named(p)'
  BY <1>1, <1>2, <1>3 DEF Named
<1> QED
  BY <1>1, <1>2, <1>3, <1>4, Elsewhere

LEMMA BirthSteps ==
  ASSUME StoreInv, NEW p \in Process, InitSummary(p) \/ InitPending(p)
  PROVE  Placed(p)' /\ Agreed' /\ Recorded' /\ SameLedger
<1>1. /\ lock = p /\ lock' = p /\ Placed(p) /\ FilesInv /\ pc \in [Process -> Points]
  BY HolderOthers DEF Replays, StoreInv, StoreTypeOK
<1>2. Zero # None /\ NoneListed # None /\ Zero.gen = 0 /\ NoneListed.gen = 0
      /\ NoneListed.ids = {}
  <2>1. Zero \in Summaries /\ NoneListed \in Indexes
    BY DEF Zero, NoneListed, Summaries, Indexes
  <2>2. Zero # None /\ NoneListed # None
    BY <2>1, NoneAssumption
  <2> QED
    BY <2>2 DEF Zero, NoneListed
<1>3. CASE InitSummary(p)
  <2>1. tx = None /\ summary = None /\ pending = None /\ Virgin
        /\ UNCHANGED <<entry, pending, tx>> /\ summary' = Zero /\ pc'[p] = "init"
    BY <1>1, <1>3 DEF InitSummary, Fresh, FilesInv, Agreed, Goto
  <2> QED
    BY <1>1, <1>2, <2>1
    DEF Placed, Holding, Agreed, Recorded, SameLedger, Virgin, EffectiveSummary, EffectiveIds
<1>4. CASE InitPending(p)
  <2>1. tx = None /\ summary = Zero /\ pending = None /\ Virgin
        /\ UNCHANGED <<entry, summary, tx>> /\ pending' = NoneListed /\ pc'[p] = "recover"
    BY <1>1, <1>4 DEF InitPending, At, Placed, Goto
  <2> QED
    BY <1>1, <1>2, <2>1
    DEF Placed, Holding, Agreed, Recorded, SameLedger, Virgin, EffectiveSummary, EffectiveIds
<1> QED
  BY <1>3, <1>4

(* With a record in place the index files do not matter.                   *)
LEMMA RecordKept ==
  ASSUME FilesInv, tx # None, UNCHANGED <<entry, tx>>, summary' # None, pending' # None
  PROVE  Agreed' /\ Recorded' /\ SameLedger
BY DEF FilesInv, Agreed, Recorded, Explained, SameLedger, EffectiveSummary, EffectiveIds,
       Committed

LEMMA IndexSteps ==
  ASSUME StoreInv, NEW p \in Process,
         ReplayPending(p) \/ ReplaySummary(p) \/ WritePending(p) \/ WriteSummary(p)
  PROVE  Placed(p)' /\ Agreed' /\ Recorded' /\ SameLedger
<1>1. /\ lock = p /\ lock' = p /\ Placed(p) /\ FilesInv /\ pc \in [Process -> Points]
      /\ FileTypes
  BY HolderOthers DEF Replays, Moves, StoreInv, StoreTypeOK
<1>2. tx # None /\ UNCHANGED <<entry, tx>>
  BY <1>1 DEF ReplayPending, ReplaySummary, WritePending, WriteSummary, At, Placed
<1>3. summary # None /\ pending # None
  BY <1>1, <1>2 DEF FilesInv, Recorded
<1>4. CASE ReplayPending(p) \/ WritePending(p)
  <2>1. /\ UNCHANGED summary
        /\ pending' = [gen |-> EffectiveSummary.gen, ids |-> EffectiveIds]
    BY <1>1, <1>2, <1>4
    DEF ReplayPending, WritePending, At, Placed, EffectiveSummary, EffectiveIds
  <2>2. pending' # None
    <3>1. [gen |-> EffectiveSummary.gen, ids |-> EffectiveIds] \in Indexes
      BY <1>1, <1>2, TxTypes DEF EffectiveSummary, EffectiveIds, Indexes
    <3> QED
      BY <2>1, <3>1, NoneAssumption
  <2>3. Agreed' /\ Recorded' /\ SameLedger
    BY <1>1, <1>2, <1>3, <2>1, <2>2, RecordKept
  <2>4. PendingWritten'
    BY <2>1, <2>3 DEF PendingWritten, SameLedger
  <2>5. CASE ReplayPending(p)
    <3>1. pc'[p] = "replay summary"
      BY <1>1, <2>5 DEF ReplayPending, Goto
    <3> QED
      BY <1>1, <1>2, <2>3, <2>4, <3>1 DEF Placed, Holding
  <2>6. CASE WritePending(p)
    <3>1. pc'[p] = "summary" /\ pc[p] = "pending"
      BY <1>1, <2>6 DEF WritePending, Goto, At
    <3>2. Committed'
      BY <1>1, <1>2, <3>1 DEF Placed, Committed
    <3> QED
      BY <1>1, <1>2, <2>3, <2>4, <3>1, <3>2 DEF Placed, Holding
  <2> QED
    BY <1>4, <2>3, <2>5, <2>6
<1>5. CASE ReplaySummary(p) \/ WriteSummary(p)
  <2>1. UNCHANGED pending /\ summary' = EffectiveSummary
    BY <1>1, <1>2, <1>5
    DEF ReplaySummary, WriteSummary, At, Placed, EffectiveSummary
  <2>2. summary' # None
    <3>1. EffectiveSummary \in Summaries
      BY <1>1, <1>2, TxTypes DEF EffectiveSummary
    <3> QED
      BY <2>1, <3>1, NoneAssumption
  <2>3. Agreed' /\ Recorded' /\ SameLedger
    BY <1>1, <1>2, <1>3, <2>1, <2>2, RecordKept
  <2>4. PendingWritten' /\ summary' = EffectiveSummary'
    BY <1>1, <1>5, <2>1, <2>3
    DEF PendingWritten, SameLedger, ReplaySummary, WriteSummary, At, Placed
  <2>5. CASE ReplaySummary(p)
    <3>1. pc'[p] = "replay unlink"
      BY <1>1, <2>5 DEF ReplaySummary, Goto
    <3> QED
      BY <1>1, <1>2, <2>3, <2>4, <3>1 DEF Placed, Holding
  <2>6. CASE WriteSummary(p)
    <3>1. pc'[p] = "unlink" /\ pc[p] = "summary"
      BY <1>1, <2>6 DEF WriteSummary, Goto, At
    <3>2. Committed'
      BY <1>1, <1>2, <3>1 DEF Placed, Committed
    <3> QED
      BY <1>1, <1>2, <2>3, <2>4, <3>1, <3>2 DEF Placed, Holding
  <2> QED
    BY <1>5, <2>3, <2>5, <2>6
<1> QED
  BY <1>4, <1>5

(* When both index files are written the record is not needed any more.    *)
LEMMA UnlinkSteps ==
  ASSUME StoreInv, NEW p \in Process, ReplayUnlink(p) \/ UnlinkIntent(p)
  PROVE  Placed(p)' /\ Agreed' /\ Recorded' /\ SameLedger
<1>1. /\ lock = p /\ lock' = p /\ Placed(p) /\ FilesInv /\ pc \in [Process -> Points]
  BY HolderOthers DEF Replays, Moves, StoreInv, StoreTypeOK
<1>2. /\ tx # None /\ tx' = None /\ UNCHANGED <<entry, pending, summary>>
      /\ PendingWritten /\ summary = EffectiveSummary
      /\ pc'[p] \in {"recover", "done"}
  BY <1>1 DEF ReplayUnlink, UnlinkIntent, At, Placed, Goto
<1>3. summary # None /\ pending # None
  BY <1>1, <1>2 DEF FilesInv, Recorded
<1>4. EffectiveSummary' = summary /\ EffectiveIds' = pending.ids
  BY <1>2, <1>3 DEF EffectiveSummary, EffectiveIds
<1> QED
  BY <1>1, <1>2, <1>3, <1>4
  DEF Placed, Holding, Agreed, Recorded, SameLedger, PendingWritten

-----------------------------------------------------------------------------
(* The record is written: before and after differ by a transition that has *)
(* not happened yet.                                                       *)
LEMMA IntentStep ==
  ASSUME StoreInv, NEW p \in Process, WriteIntent(p)
  PROVE  Placed(p)' /\ Agreed' /\ Recorded' /\ SameLedger
<1>1. /\ lock = p /\ lock' = p /\ Placed(p) /\ Named(p) /\ FilesInv
      /\ pc \in [Process -> Points] /\ FileTypes
  BY HolderOthers DEF Moves, StoreInv, StoreTypeOK
<1>2. PICK e \in Entry, s \in {"PENDING"} \cup Outcome :
        /\ e = op[p].id /\ s = op[p].to
        /\ s = "PENDING" <=> entry[e] = Absent
  BY <1>1 DEF WriteIntent, Writes, Named, Outcome
<1>3. /\ tx = None /\ summary # None /\ pending # None /\ summary.gen = pending.gen
      /\ tx' = Transition(e, s) /\ UNCHANGED <<entry, pending, summary>>
      /\ pc'[p] = "entry"
  BY <1>1, <1>2 DEF WriteIntent, Recovered, Corrupt, Fresh, Goto
<1>4. tx' # None
  BY <1>1, <1>3, TransitionType, NoneAssumption
<1>5. entry[e].stamp <= summary.gen /\ summary.gen \in Nat /\ entry[e].stamp \in Nat
  <2>1. summary \in Summaries /\ entry[e] \in Contents \cup {Absent}
    BY <1>1, <1>3 DEF FileTypes
  <2>2. summary.gen \in Nat /\ entry[e].stamp \in Nat
    BY <2>1 DEF Summaries, Contents, Absent
  <2> QED
    BY <1>1, <1>3, <2>2 DEF FilesInv, Stamped, EffectiveSummary
<1>6. /\ tx'.id = e /\ tx'.before = entry[e]
      /\ tx'.after = [state |-> s, stamp |-> summary.gen + 1]
      /\ tx'.ids = pending.ids /\ tx'.sum = summary
      /\ tx'.idsAfter = IF s = "PENDING" THEN pending.ids \cup {e} ELSE pending.ids \ {e}
      /\ tx'.sumAfter = SummaryAfter(entry[e].state, s)
  BY <1>3 DEF Transition
<1>7. tx'.before # tx'.after /\ tx'.after.state = s /\ tx'.after.stamp = summary.gen + 1
  BY <1>5, <1>6
<1>8. Differs(tx')
  BY <1>2, <1>5, <1>6, <1>7 DEF Differs, SummaryAfter
<1>9. ~(Committed')
  BY <1>3, <1>6, <1>7 DEF Committed
<1>10. SameLedger
  BY <1>3, <1>4, <1>6, <1>9 DEF SameLedger, EffectiveSummary, EffectiveIds
<1>11. Recorded' /\ Agreed'
  BY <1>3, <1>4, <1>6, <1>8 DEF Recorded, Agreed, Explained
<1>12. Placed(p)'
  BY <1>1, <1>3, <1>4, <1>6 DEF Placed, Holding
<1> QED
  BY <1>10, <1>11, <1>12

(* The entry is written: the one step that moves the ledger.               *)
StatusNow == [e \in Entry |-> entry[e].state]
CountNow ==
  [total |-> EffectiveSummary.total, pending |-> EffectiveSummary.pending,
   REUSED |-> EffectiveSummary.REUSED, RECOMPUTED |-> EffectiveSummary.RECOMPUTED,
   FAILED |-> EffectiveSummary.FAILED]

LEMMA SameCardinality == \A S : Ledger!Cardinality(S) = Cardinality(S)
BY Zenon DEF Ledger!Cardinality, Cardinality

LEMMA IndexNow == Ledger!IndexIsTrue <=> IndexOf(StatusNow, EffectiveIds, CountNow)
<1>1. \A s \in Statuses : Ledger!InState(s) = InState(StatusNow, s)
  BY DEF Ledger!InState, InState, StatusNow
<1>2. Ledger!Registered = Registered(StatusNow)
  BY DEF Ledger!Registered, Registered, StatusNow
<1>3. Ledger!Outcome = Outcome /\ Outcome \subseteq Statuses /\ "PENDING" \in Statuses
  BY DEF Ledger!Outcome, Outcome, Statuses
<1>4. Ledger!IndexIsTrue <=>
        /\ EffectiveIds = Ledger!InState("PENDING")
        /\ CountNow.pending = Cardinality(EffectiveIds)
        /\ CountNow.total = Cardinality(Ledger!Registered)
        /\ \A s \in Outcome : CountNow[s] >= Cardinality(Ledger!InState(s))
  BY <1>3, SameCardinality DEF Ledger!IndexIsTrue, CountNow
<1> QED
  BY <1>1, <1>2, <1>3, <1>4 DEF IndexOf

LEMMA IndexThen ==
  Ledger!IndexIsTrue' <=> IndexOf(StatusNow', EffectiveIds', CountNow')
<1>1. \A s \in Statuses : Ledger!InState(s)' = InState(StatusNow', s)
  BY DEF Ledger!InState, InState, StatusNow
<1>2. Ledger!Registered' = Registered(StatusNow')
  BY DEF Ledger!Registered, Registered, StatusNow
<1>3. Ledger!Outcome = Outcome /\ Outcome \subseteq Statuses /\ "PENDING" \in Statuses
  BY DEF Ledger!Outcome, Outcome, Statuses
<1>4. Ledger!IndexIsTrue' <=>
        /\ EffectiveIds' = Ledger!InState("PENDING")'
        /\ CountNow'.pending = Cardinality(EffectiveIds')
        /\ CountNow'.total = Cardinality(Ledger!Registered')
        /\ \A s \in Outcome : CountNow'[s] >= Cardinality(Ledger!InState(s)')
  BY <1>3, SameCardinality DEF Ledger!IndexIsTrue, CountNow
<1> QED
  BY <1>1, <1>2, <1>3, <1>4 DEF IndexOf

LEMMA EntryStep ==
  ASSUME StoreInv, NEW p \in Process, WriteEntry(p)
  PROVE  /\ Placed(p)' /\ Agreed' /\ Recorded' /\ Stamped' /\ Ledger!IndexIsTrue'
         /\ Ledger!LedgerNext
<1>1. /\ lock = p /\ lock' = p /\ Placed(p) /\ FilesInv /\ FileTypes
      /\ pc \in [Process -> Points]
  BY HolderOthers DEF Moves, StoreInv, StoreTypeOK
<1>2. tx # None /\ entry[tx.id] = tx.before /\ Differs(tx)
      /\ summary # None /\ pending # None
  BY <1>1 DEF WriteEntry, At, Placed, FilesInv, Recorded
<1>3. /\ tx.id \in Entry /\ tx.after \in Contents /\ tx.before \in Contents \cup {Absent}
      /\ tx.sum \in Summaries
  BY <1>1, <1>2, TxTypes
<1>4. /\ entry' = [entry EXCEPT ![tx.id] = tx.after] /\ UNCHANGED <<pending, summary, tx>>
      /\ pc'[p] = "pending" /\ entry'[tx.id] = tx.after
  BY <1>1, <1>3 DEF WriteEntry, Goto, FileTypes
<1>5. ~Committed /\ Committed'
  BY <1>2, <1>4 DEF Committed, Differs
<1>6. /\ EffectiveSummary = tx.sum /\ EffectiveIds = tx.ids
      /\ EffectiveSummary' = tx.sumAfter /\ EffectiveIds' = tx.idsAfter
  BY <1>2, <1>4, <1>5 DEF EffectiveSummary, EffectiveIds
<1>7. Placed(p)' /\ Agreed' /\ Recorded'
  BY <1>1, <1>2, <1>4, <1>5 DEF Placed, Holding, Agreed, Recorded, Explained
<1>8. Stamped'
  <2>1. tx.sumAfter.gen = tx.sum.gen + 1 /\ tx.after.stamp = tx.sum.gen + 1
        /\ tx.sum.gen \in Nat
    BY <1>1, <1>2, TxTypes DEF Differs
  <2>2. \A e \in Entry : entry[e].stamp \in Nat /\ entry[e].stamp <= tx.sum.gen
    BY <1>1, <1>6 DEF FilesInv, Stamped, FileTypes, Contents, Absent
  <2> QED
    BY <1>1, <1>4, <1>6, <2>1, <2>2 DEF Stamped, FileTypes
<1>9. PICK e \in Entry, s \in {"PENDING"} \cup Outcome : e = tx.id /\ s = tx.after.state
  BY <1>3 DEF Contents
<1>10. /\ StatusNow \in [Entry -> Statuses] /\ StatusNow' \in [Entry -> Statuses]
       /\ StatusNow' = [StatusNow EXCEPT ![e] = s]
  <2>1. \A x \in Contents \cup {Absent} : x.state \in Statuses
    BY DEF Contents, Absent, Statuses
  <2> QED
    BY <1>1, <1>3, <1>4, <1>9, <2>1 DEF StatusNow, FileTypes
<1>11. CountNow \in Counts
  BY <1>3, <1>6 DEF CountNow, Counts, Summaries
<1>12. IndexOf(StatusNow, EffectiveIds, CountNow)
  BY <1>1, IndexNow DEF FilesInv
<1>13. StatusNow[e] = tx.before.state
  BY <1>2, <1>9 DEF StatusNow
<1>14. CASE s = "PENDING"
  <2>1. tx.before = Absent /\ StatusNow[e] = "ABSENT"
    BY <1>2, <1>9, <1>13, <1>14 DEF Differs, Absent
  <2>2. EffectiveIds' = EffectiveIds \cup {e}
    BY <1>2, <1>6, <1>9, <1>14 DEF Differs
  <2>3. CountNow' = [total |-> CountNow.total + 1, pending |-> CountNow.pending + 1,
                     REUSED |-> CountNow.REUSED, RECOMPUTED |-> CountNow.RECOMPUTED,
                     FAILED |-> CountNow.FAILED]
    BY <1>2, <1>6, <1>9, <1>14 DEF Differs, CountNow, Counted
  <2>4. IndexOf(StatusNow', EffectiveIds', CountNow')
    BY <1>10, <1>11, <1>12, <1>14, <2>1, <2>2, <2>3, RegisterCounts
  <2>5. EffectiveSummary'.complete = EffectiveSummary.complete
    BY <1>2, <1>6 DEF Differs
  <2>6. Ledger!Register(e)
    BY <1>10, <1>14, <2>1, <2>2, <2>3, <2>5 DEF Ledger!Register, StatusNow, CountNow
  <2> QED
    BY <1>7, <1>8, <2>4, <2>6, IndexThen DEF Ledger!LedgerNext
<1>15. CASE s \in Outcome
  <2>1. tx.before # Absent /\ StatusNow[e] # "ABSENT"
    BY <1>2, <1>3, <1>9, <1>13, <1>15 DEF Differs, Contents, Outcome
  <2>2. EffectiveIds' = EffectiveIds \ {e}
    BY <1>2, <1>6, <1>9, <1>15 DEF Differs, Outcome
  <2>3. CountNow' =
          [total |-> CountNow.total,
           pending |-> IF StatusNow[e] = "PENDING" THEN Less(CountNow.pending)
                       ELSE CountNow.pending,
           REUSED |-> Counted(CountNow.REUSED, s, "REUSED"),
           RECOMPUTED |-> Counted(CountNow.RECOMPUTED, s, "RECOMPUTED"),
           FAILED |-> Counted(CountNow.FAILED, s, "FAILED")]
    <3>1. s # "PENDING" /\ tx.after.state = s
      BY <1>9, <1>15 DEF Outcome
    <3>2. Counted(tx.sum.total, s, "PENDING") = tx.sum.total
      BY <3>1 DEF Counted
    <3> QED
      BY <1>2, <1>6, <1>13, <3>1, <3>2 DEF Differs, CountNow
  <2>4. StatusNow[e] = "PENDING" => CountNow.pending \in Nat /\ CountNow.pending > 0
    BY <1>10, <1>11, <1>12, PendingCounted
  <2>5. CountNow' =
          [total |-> CountNow.total,
           pending |-> IF StatusNow[e] = "PENDING" THEN CountNow.pending - 1
                       ELSE CountNow.pending,
           REUSED |-> Counted(CountNow.REUSED, s, "REUSED"),
           RECOMPUTED |-> Counted(CountNow.RECOMPUTED, s, "RECOMPUTED"),
           FAILED |-> Counted(CountNow.FAILED, s, "FAILED")]
    BY <2>3, <2>4 DEF Less
  <2>6. IndexOf(StatusNow', EffectiveIds', CountNow')
    BY <1>10, <1>11, <1>12, <1>15, <2>1, <2>2, <2>5, FinishCounts
  <2>7. EffectiveSummary'.complete = EffectiveSummary.complete
    BY <1>2, <1>6 DEF Differs
  <2>8. Ledger!Finish(e, s)
    BY <1>10, <1>15, <2>1, <2>2, <2>5, <2>7
    DEF Ledger!Finish, Ledger!Incremented, Counted, StatusNow, CountNow
  <2> QED
    BY <1>7, <1>8, <1>15, <2>6, <2>8, IndexThen DEF Ledger!LedgerNext, Ledger!Outcome, Outcome
<1> QED
  BY <1>14, <1>15

-----------------------------------------------------------------------------
(* Every step keeps the invariant and is a step of the ledger, or none.    *)

LEMMA HolderStep ==
  ASSUME StoreInv, NEW p \in Process, Replays(p) \/ Moves(p)
  PROVE  /\ \A q \in Process : Placed(q)' /\ Named(q)'
         /\ FilesInv' /\ [Ledger!LedgerNext]_(Ledger!ledgerVars)
<1>1. FilesInv /\ Named(p)' /\ \A q \in Process \ {p} : Placed(q)' /\ Named(q)'
  BY HolderOthers
<1>2. CASE WriteEntry(p)
  BY <1>1, <1>2, EntryStep DEF FilesInv
<1>3. CASE ~WriteEntry(p)
  <2>1. Placed(p)' /\ Agreed' /\ Recorded' /\ SameLedger
    BY <1>3, BirthSteps, IndexSteps, UnlinkSteps, IntentStep DEF Replays, Moves
  <2> QED
    BY <1>1, <2>1, LedgerSame DEF FilesInv
<1> QED
  BY <1>2, <1>3

LEMMA StepKeeps ==
  ASSUME StoreInv, StoreNext
  PROVE  StoreInv' /\ [Ledger!LedgerNext]_(Ledger!ledgerVars)
<1>1. StoreTypeOK' /\ FilesInv
  BY TypeStep DEF StoreInv, FilesInv
<1>2. ASSUME NEW p \in Process, Begins(p)
      PROVE  /\ \A q \in Process : Placed(q)' /\ Named(q)'
             /\ FilesInv' /\ [Ledger!LedgerNext]_(Ledger!ledgerVars)
  BY <1>1, <1>2, Beginning, BeginPlaced, FilesSame
<1>3. /\ \A q \in Process : Placed(q)' /\ Named(q)'
      /\ FilesInv' /\ [Ledger!LedgerNext]_(Ledger!ledgerVars)
  BY <1>2, EndPlaced, EndFiles, HolderStep, NextCases
<1> QED
  BY <1>1, <1>3 DEF StoreInv, FilesInv

LEMMA StutterKeeps ==
  ASSUME StoreInv, UNCHANGED storeVars
  PROVE  StoreInv' /\ [Ledger!LedgerNext]_(Ledger!ledgerVars)
<1>1. FilesInv' /\ UNCHANGED Ledger!ledgerVars
  BY FilesSame DEF StoreInv, FilesInv, storeVars, files
<1>2. StoreTypeOK'
  BY DEF StoreInv, StoreTypeOK, storeVars
<1>3. \A q \in Process : Placed(q)' /\ Named(q)'
  BY DEF StoreInv, Placed, Named, storeVars, Virgin, PendingWritten, EffectiveSummary,
         EffectiveIds, Committed
<1> QED
  BY <1>1, <1>2, <1>3 DEF StoreInv, FilesInv

LEMMA StoreStart == StoreInit => StoreInv /\ Ledger!LedgerInit
<1> SUFFICES ASSUME StoreInit PROVE StoreInv /\ Ledger!LedgerInit
  OBVIOUS
<1>1. EffectiveSummary = Zero /\ EffectiveIds = {}
  BY DEF StoreInit, EffectiveSummary, EffectiveIds
<1>2. StoreTypeOK
  BY IdleType DEF StoreInit, StoreTypeOK, Points
<1>3. Agreed /\ Recorded /\ Stamped
  BY <1>1 DEF StoreInit, Agreed, Recorded, Stamped, Virgin, Absent, Zero
<1>4. ASSUME NEW p \in Process PROVE Placed(p) /\ Named(p)
  BY StoreAssumption DEF StoreInit, Placed, Named, Holding, Idle, Call
<1>5. Ledger!LedgerInit
  BY <1>1 DEF StoreInit, Ledger!LedgerInit, Absent, Zero
<1>6. Ledger!IndexIsTrue
  <2>1. /\ InState(StatusNow, "PENDING") = {} /\ Registered(StatusNow) = {}
        /\ \A s \in Outcome : InState(StatusNow, s) = {}
    BY DEF StoreInit, StatusNow, InState, Registered, Outcome, Absent
  <2>2. CountNow.pending = 0 /\ CountNow.total = 0 /\ \A s \in Outcome : CountNow[s] = 0
    BY <1>1 DEF CountNow, Zero, Outcome
  <2>3. Cardinality({}) = 0
    BY FS_EmptySet
  <2> QED
    BY <1>1, <2>1, <2>2, <2>3, IndexNow DEF IndexOf
<1> QED
  BY <1>2, <1>3, <1>4, <1>5, <1>6 DEF StoreInv

THEOREM StoreInvariant == StoreSpec => []StoreInv
<1>1. StoreInit => StoreInv
  BY StoreStart
<1>2. StoreInv /\ [StoreNext]_storeVars => StoreInv'
  BY StepKeeps, StutterKeeps
<1> QED
  BY <1>1, <1>2, PTL DEF StoreSpec

(* Files and calls have their types.                                       *)
THEOREM StoreTypeCorrect == StoreSpec => []StoreTypeOK
<1>1. StoreInv => StoreTypeOK
  BY DEF StoreInv
<1> QED
  BY <1>1, StoreInvariant, PTL

(* The index survives: whatever died or raised, the next recovery finds    *)
(* the PENDING partitions listed and counted and no outcome forgotten      *)
(* (_reconcile_transaction_locked, _apply_transition_locked).              *)
THEOREM IndexAlwaysSurvives == StoreSpec => []IndexSurvives
<1>1. ASSUME StoreInv PROVE NothingToTidy
  <2>1. SUFFICES ASSUME tx = None, summary # None, pending # None
                 PROVE  /\ summary.gen = pending.gen
                        /\ \A e \in pending.ids : entry[e].state = "PENDING"
    BY DEF NothingToTidy
  <2>2. summary.gen = pending.gen
    BY <1>1, <2>1 DEF StoreInv, Agreed
  <2>3. pending.ids = Ledger!InState("PENDING")
    BY <1>1, <2>1 DEF StoreInv, EffectiveIds, Ledger!IndexIsTrue
  <2> QED
    BY <2>2, <2>3 DEF Ledger!InState
<1>2. StoreInv => IndexSurvives
  BY <1>1 DEF StoreInv, IndexSurvives
<1> QED
  BY <1>2, StoreInvariant, PTL

(* A store that has been used is never refused as corrupt                  *)
(* (_reconcile_locked).                                                    *)
THEOREM CorruptAtBirth == StoreSpec => []CorruptOnlyAtBirth
<1>1. ASSUME StoreInv, ~Fresh, Corrupt
      PROVE  /\ summary = Zero /\ pending = None /\ tx = None
             /\ \A e \in Entry : entry[e] = Absent
  <2>1. tx = None
    BY <1>1 DEF StoreInv, Recorded, Corrupt
  <2>2. CASE summary # None /\ pending # None /\ summary.gen = pending.gen
    <3>1. pending.ids = Ledger!InState("PENDING")
      BY <1>1, <2>1, <2>2 DEF StoreInv, EffectiveIds, Ledger!IndexIsTrue
    <3>2. \A e \in pending.ids : e \in Entry /\ entry[e].state = "PENDING"
      BY <3>1 DEF Ledger!InState
    <3>3. \A e \in pending.ids : entry[e] # Absent
      BY <3>2 DEF Absent
    <3> QED
      BY <1>1, <2>1, <2>2, <3>3 DEF Corrupt
  <2>3. CASE Virgin /\ pending = None /\ summary \in {None, Zero}
    BY <1>1, <2>1, <2>3 DEF Fresh, Virgin
  <2> QED
    BY <1>1, <2>1, <2>2, <2>3 DEF StoreInv, Agreed
<1>2. StoreInv => CorruptOnlyAtBirth
  BY <1>1 DEF CorruptOnlyAtBirth
<1> QED
  BY <1>2, StoreInvariant, PTL

(* COMPLETE is written only over manifests (mark_complete).                *)
THEOREM CompleteEarned == StoreSpec => CompleteIsEarned
<1>1. ASSUME StoreInv, NEW p \in Process, WriteComplete(p), summary' # summary, NEW e \in Entry
      PROVE  entry[e].state \in {"ABSENT", "REUSED", "RECOMPUTED"}
  <2>1. tx = None /\ summary # None /\ summary.pending = 0 /\ summary.FAILED = 0
    BY <1>1 DEF WriteComplete, Recovered, Corrupt, Fresh, MayClose
  <2>2. CountNow.pending = 0 /\ CountNow["FAILED"] = 0
    BY <2>1 DEF CountNow, EffectiveSummary
  <2>3. IndexOf(StatusNow, EffectiveIds, CountNow)
    BY <1>1, IndexNow DEF StoreInv
  <2>4. InState(StatusNow, "PENDING") \in SUBSET Entry /\ InState(StatusNow, "FAILED") \in SUBSET Entry
    BY DEF InState
  <2>5. Cardinality(InState(StatusNow, "PENDING")) = 0
        /\ 0 >= Cardinality(InState(StatusNow, "FAILED"))
    BY <2>2, <2>3 DEF IndexOf, Outcome
  <2>6. InState(StatusNow, "PENDING") = {} /\ InState(StatusNow, "FAILED") = {}
    BY <2>4, <2>5, SubsetsFinite, FS_EmptySet
  <2>7. entry[e].state # "PENDING" /\ entry[e].state # "FAILED"
    BY <2>6 DEF InState, StatusNow
  <2> QED
    BY <1>1, <2>7 DEF StoreInv, StoreTypeOK, Contents, Absent, Outcome
<1>2. StoreInv /\ [StoreNext]_storeVars =>
        [\A p \in Process : WriteComplete(p) /\ summary' # summary =>
           \A e \in Entry : entry[e].state \in {"ABSENT", "REUSED", "RECOMPUTED"}]_storeVars
  BY <1>1
<1> QED
  BY <1>2, StoreInvariant, PTL DEF StoreSpec, CompleteIsEarned

(* The five file writes, the recovery and the crashes between them         *)
(* implement the ledger of indivisible transitions.                        *)
THEOREM StoreImplementsLedger == StoreSpec => ImplementsLedger
<1>1. StoreInit => Ledger!LedgerInit
  BY StoreStart
<1>2. StoreInv /\ [StoreNext]_storeVars => [Ledger!LedgerNext]_(Ledger!ledgerVars)
  BY StepKeeps, StutterKeeps
<1> QED
  BY <1>1, <1>2, StoreInvariant, PTL DEF StoreSpec, ImplementsLedger, Ledger!LedgerSpec
=============================================================================
