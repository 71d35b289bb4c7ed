------------------------- MODULE OrderExecutorProofs -------------------------
(***************************************************************************)
(* IInv is inductive, hence the type invariant and the safety invariants   *)
(* of OrderExecutor hold in every reachable state, for every choice of the *)
(* constants.  A pending order is cleared only when it is settled, and the *)
(* executor implements OrderLifecycle: three of its steps are the abstract *)
(* ones and every other step is a stutter there.                           *)
(***************************************************************************)
EXTENDS OrderExecutorInv, TLAPS

(* The parts of IInv that only the files and the exchange decide.          *)
Shared ==
    StateIsValid /\ NoOrphanOrder /\ OrdersAreKnown
    /\ PositionMatchesExchange /\ LedgerLag

GlobalTypeOK ==
    /\ bot \in BotStates
    /\ booked \in [Ids -> Volumes]
    /\ ledgerVol \in [Markets -> Volumes]
    /\ legacy \in BOOLEAN
    /\ orders \in [Ids -> Orders]
    /\ holding \in [Markets -> Volumes]

LocalTypeOK ==
    /\ lock \in Daemons \cup {None}
    /\ pc \in [Daemons -> Points]
    /\ snap \in [Daemons -> BotStates]
    /\ plan \in [Daemons -> Plans]
    /\ seen \in [Daemons -> [st : {"none", "done", "cancel"}, filled : Volumes]]

Parts == GlobalTypeOK /\ LocalTypeOK /\ SingleDaemon /\ Shared /\ PointsHold

LEMMA IInvParts == (IInv <=> Parts) /\ (IInv' <=> Parts')
  BY DEF IInv, TypeOK, GlobalTypeOK, LocalTypeOK, Shared, Parts

LEMMA SharedUnchanged ==
    ASSUME Shared, GlobalTypeOK, UNCHANGED <<files, venue>>
    PROVE  Shared' /\ GlobalTypeOK'
  BY DEF Shared, GlobalTypeOK, StateIsValid, ValidState, NoOrphanOrder, Open, OrdersAreKnown, Terminal,
     PositionMatchesExchange, HeldUnits, Fills, LedgerLag, Lag, files, venue

LEMMA NullValues ==
    /\ HeldState(0) \in BotStates
    /\ NoPlan \in Plans
    /\ NoSight \in [st : {"none", "done", "cancel"}, filled : Volumes]
    /\ NoOrder \in Orders
  BY ConstantsAssumption DEF HeldState, BotStates, NoPlan, Plans, NoSight, NoOrder,
     Orders, Volumes, Policies

(* A process that runs holds the lock, so every other one is off.          *)
LEMMA OthersAreOff ==
    ASSUME SingleDaemon, NEW d \in Daemons, pc[d] # "off"
    PROVE  \A e \in Daemons : e # d => pc[e] = "off"
  BY DEF SingleDaemon

(* A step of process d keeps PointsHold if it leads d to a point that      *)
(* holds; the others are off.                                              *)
LEMMA OnePointMoves ==
    ASSUME SingleDaemon, LocalTypeOK, NEW d \in Daemons, NEW p \in Points,
           pc[d] # "off", Goto(d, p), PointHolds(d)'
    PROVE  PointsHold'
<1>1. \A e \in Daemons : e # d => pc'[e] = "off"
  BY OthersAreOff DEF Goto, LocalTypeOK
<1>2. ASSUME NEW e \in Daemons, e # d PROVE PointHolds(e)'
  BY <1>1, <1>2 DEF PointHolds
<1> QED
  BY <1>2 DEF PointsHold

LEMMA LockIsKept ==
    ASSUME SingleDaemon, LocalTypeOK, NEW d \in Daemons, NEW p \in Points \ {"off"},
           pc[d] # "off", Goto(d, p), lock' = lock
    PROVE  SingleDaemon'
  BY DEF SingleDaemon, Goto, LocalTypeOK

----------------------------------------------------------------------------
(* Steps that change the control point only.                               *)

LEMMA ControlSteps ==
    ASSUME IInv, NEW d \in Daemons,
           \/ Refuse(d) \/ Validate(d) \/ CheckOrderChance(d) \/ Accepted(d)
           \/ AnswerFails(d) \/ ReconcileRaises(d) \/ AppendRaises(d)
    PROVE  IInv'
<1> USE IInvParts DEF Parts
<1>1. Shared' /\ GlobalTypeOK' /\ UNCHANGED <<files, venue, lock, locals>>
  BY SharedUnchanged DEF Refuse, Validate, CheckOrderChance, Accepted, AnswerFails,
     ReconcileRaises, AppendRaises
<1>2. PICK p \in Points \ {"off"} : Goto(d, p) /\ pc[d] # "off"
  BY DEF Refuse, Validate, CheckOrderChance, Accepted, AnswerFails,
     ReconcileRaises, AppendRaises, Points
<1>3. LocalTypeOK'
  BY <1>1, <1>2 DEF LocalTypeOK, Goto, locals
<1>4. SingleDaemon'
  BY <1>1, <1>2, LockIsKept
<1>5. PointHolds(d)
  BY DEF PointsHold
<1>6. PointHolds(d)'
  <2> USE <1>5, <1>1 DEF PointHolds, PlanIsFresh, Goto, LocalTypeOK, files, venue, locals,
       Terminal, Fills, PretradeAllows, ActiveState, FillIsConsistent
  <2>1. CASE Refuse(d) \/ ReconcileRaises(d) \/ AppendRaises(d)
    BY <2>1 DEF Refuse, ReconcileRaises, AppendRaises
  <2>2. CASE Validate(d)
    BY <2>2 DEF Validate
  <2>3. CASE CheckOrderChance(d)
    BY <2>3 DEF CheckOrderChance
  <2>4. CASE Accepted(d)
    BY <2>4 DEF Accepted
  <2>5. CASE AnswerFails(d)
    BY <2>5 DEF AnswerFails
  <2> QED
    BY <2>1, <2>2, <2>3, <2>4, <2>5
<1> QED
  BY <1>1, <1>2, <1>3, <1>4, <1>6, OnePointMoves

----------------------------------------------------------------------------
(* Processes come and go.                                                  *)

LEMMA StartStep ==
    ASSUME IInv, NEW d \in Daemons, Start(d)
    PROVE  IInv'
<1> USE IInvParts DEF Parts
<1>1. Shared' /\ GlobalTypeOK'
  BY SharedUnchanged DEF Start
<1>2. LocalTypeOK'
  BY DEF LocalTypeOK, Start, Goto, locals, Points
<1>3. \A e \in Daemons : pc[e] = "off"
  BY ConstantsAssumption DEF Start, SingleDaemon
<1>4. pc' = [e \in Daemons |-> IF e = d THEN "caller" ELSE "off"] /\ lock' = d
  BY <1>3 DEF Start, Goto, LocalTypeOK
<1>5. SingleDaemon'
  BY <1>4 DEF SingleDaemon
<1>6. PointsHold'
  BY <1>4 DEF PointsHold, PointHolds
<1> QED
  BY <1>1, <1>2, <1>5, <1>6

LEMMA CrashStep ==
    ASSUME IInv, NEW d \in Daemons, Crash(d)
    PROVE  IInv'
<1> USE IInvParts DEF Parts
<1>1. Shared' /\ GlobalTypeOK'
  BY SharedUnchanged DEF Crash
<1>2. LocalTypeOK'
  BY NullValues DEF LocalTypeOK, Crash, Goto, Points
<1>3. \A e \in Daemons : pc'[e] = "off"
  BY OthersAreOff DEF Crash, Goto, LocalTypeOK
<1>4. SingleDaemon' /\ PointsHold'
  BY <1>3 DEF SingleDaemon, PointsHold, PointHolds
<1> QED
  BY <1>1, <1>2, <1>4

LEMMA ResumeStep ==
    ASSUME IInv, NEW d \in Daemons, Resume(d)
    PROVE  IInv'
<1> USE IInvParts DEF Parts
<1>1. Shared' /\ GlobalTypeOK'
  BY SharedUnchanged DEF Resume
<1>2. LocalTypeOK'
  BY NullValues DEF LocalTypeOK, Resume, Goto, Points
<1>3. Goto(d, "caller") /\ pc[d] # "off" /\ lock' = lock /\ "caller" \in Points \ {"off"}
  BY DEF Resume, Points
<1>4. PointHolds(d)'
  BY <1>3 DEF PointHolds, Goto, LocalTypeOK
<1>5. SingleDaemon'
  BY <1>3, LockIsKept
<1>6. PointsHold'
  BY <1>3, <1>4, OnePointMoves
<1> QED
  BY <1>1, <1>2, <1>5, <1>6

----------------------------------------------------------------------------
(* The steps of execute().                                                 *)

LEMMA PlanStep ==
    ASSUME IInv, NEW d \in Daemons, PlanExecution(d)
    PROVE  IInv'
<1> USE IInvParts DEF Parts
<1>1. Shared' /\ GlobalTypeOK' /\ UNCHANGED <<files, venue>>
  BY SharedUnchanged DEF PlanExecution
<1>2. PICK i \in Ids, m \in Markets, w \in Volumes, partial \in BOOLEAN,
           v \in EntryPolicies \cup {0} :
         /\ FreshId(i)
         /\ IF bot.vol = 0 THEN w = 0 /\ ~partial ELSE w \in 1..bot.vol /\ v = 0
         /\ plan' = [plan EXCEPT ![d] =
              [id |-> i, side |-> IF bot.vol = 0 THEN "bid" ELSE "ask",
               market |-> m, want |-> w, partial |-> partial, policy |-> v]]
  BY DEF PlanExecution
<1> DEFINE p == [id |-> i, side |-> IF bot.vol = 0 THEN "bid" ELSE "ask",
               market |-> m, want |-> w, partial |-> partial, policy |-> v]
<1>3. p \in Plans
  BY DEF Plans, Sides, Policies
<1>4. Goto(d, "planned") /\ pc[d] # "off" /\ lock' = lock /\ "planned" \in Points \ {"off"}
  BY DEF PlanExecution, Points
<1>5. LocalTypeOK'
  BY <1>2, <1>3, <1>4 DEF LocalTypeOK, GlobalTypeOK, PlanExecution, Goto
<1>6. PointHolds(d)'
  <2>1. pc'[d] = "planned" /\ plan'[d] = p /\ snap'[d] = bot
    BY <1>2, <1>4 DEF PlanExecution, Goto, LocalTypeOK
  <2>2. PlanIsFresh(d)' /\ bot.active # p.id
    BY <2>1, <1>1, <1>2 DEF PlanIsFresh, FreshId, Sides, venue, GlobalTypeOK, BotStates, Volumes
  <2> QED
    BY <2>1, <2>2, <1>1 DEF PointHolds, files
<1>7. SingleDaemon'
  BY <1>4, LockIsKept
<1>8. PointsHold'
  BY <1>4, <1>6, OnePointMoves
<1> QED
  BY <1>1, <1>5, <1>7, <1>8

LEMMA PersistStep ==
    ASSUME IInv, NEW d \in Daemons, PersistActive(d)
    PROVE  IInv'
<1> USE IInvParts DEF Parts
<1> DEFINE p == plan[d]
           b == ActiveState(snap[d], p)
<1>1. PointHolds(d) /\ pc[d] = "cleared"
  BY DEF PointsHold, PersistActive
<1>2. /\ snap[d] = bot /\ PlanIsFresh(d) /\ PretradeAllows(bot, p)
      /\ p.side = "ask" => holding[p.market] >= p.want
      /\ p \in Plans /\ bot \in BotStates
  BY <1>1 DEF PointHolds, LocalTypeOK, GlobalTypeOK
<1>3. b = [vol |-> bot.vol, active |-> p.id, side |-> p.side, market |-> p.market,
           want |-> p.want, untracked |-> FALSE,
           policy |-> IF p.side = "bid" THEN p.policy ELSE bot.policy]
  BY <1>2 DEF ActiveState
<1>4. UNCHANGED <<booked, ledgerVol, legacy, venue, lock, locals>> /\ pc[d] # "off"
  BY DEF PersistActive
<1>5. CASE ~ValidState(b)
  <2>1. bot' = bot /\ Goto(d, "raised") /\ "raised" \in Points \ {"off"}
    BY <1>5 DEF PersistActive, Points
  <2>2. Shared' /\ GlobalTypeOK'
    BY <1>4, <2>1, SharedUnchanged DEF files
  <2>3. LocalTypeOK' /\ PointHolds(d)'
    BY <1>4, <2>1 DEF LocalTypeOK, PointHolds, Goto, locals
  <2>4. SingleDaemon' /\ PointsHold'
    BY <1>4, <2>1, <2>3, LockIsKept, OnePointMoves
  <2> QED
    BY <2>2, <2>3, <2>4
<1>6. CASE ValidState(b)
  <2>1. bot' = b /\ Goto(d, "armed") /\ "armed" \in Points \ {"off"}
    BY <1>6 DEF PersistActive, Points
  <2>2. GlobalTypeOK'
    BY <1>2, <1>3, <1>4, <2>1 DEF GlobalTypeOK, BotStates, Plans, venue
  <2>3. bot.active = None /\ p.id \in Ids /\ p.id # None /\ orders[p.id] = NoOrder /\ booked[p.id] = 0
    BY <1>2, ConstantsAssumption DEF PretradeAllows, PlanIsFresh, Shared, OrdersAreKnown
  <2>4. StateIsValid'
    BY <1>2, <1>3, <1>6, <2>1, <2>3 DEF StateIsValid, ValidState
  <2>5. NoOrphanOrder'
    BY <1>4, <2>1, <2>3, ConstantsAssumption DEF Shared, NoOrphanOrder, Open, venue
  <2>6. OrdersAreKnown'
    BY <1>2, <1>3, <1>4, <2>1, <2>3
       DEF Shared, OrdersAreKnown, Terminal, venue, NoOrder, PlanIsFresh, Plans, Volumes, ConstantsAssumption
  <2>7. Fills = 0 /\ Fills' = 0 /\ HeldUnits = bot.vol /\ HeldUnits' = bot.vol
    BY <1>3, <1>4, <2>1, <2>3, ConstantsAssumption
       DEF Fills, HeldUnits, venue, NoOrder, Shared, StateIsValid, ValidState, GlobalTypeOK, BotStates, Volumes
  <2>8. PositionMatchesExchange'
    <3>1. PICK m \in Markets : holding = [n \in Markets |-> IF n = m THEN bot.vol ELSE 0]
      BY <2>7 DEF Shared, PositionMatchesExchange
    <3>2. p.market \in Markets /\ (p.side = "ask" => p.want > 0)
          /\ p.side \in Sides /\ p.want \in Nat
      BY <1>2 DEF PlanIsFresh, Plans, Volumes
    <3>3. holding = [n \in Markets |-> IF n = p.market THEN bot.vol ELSE 0]
      <4>1. CASE p.side = "bid"
        BY <4>1, <1>2, <3>1 DEF PretradeAllows
      <4>2. CASE p.side = "ask"
        BY <4>2, <1>2, <3>1, <3>2
      <4> QED
        BY <4>1, <4>2, <3>2 DEF Sides
    <3> QED
      BY <1>3, <1>4, <2>1, <2>7, <3>2, <3>3 DEF PositionMatchesExchange, venue
  <2>9. LedgerLag'
    <3>1. booked'[bot'.active] = 0 /\ bot'.vol = bot.vol
      BY <1>3, <1>4, <2>1, <2>3
    <3>2. CASE legacy
      <4>1. bot.vol > 0 /\ bot.policy = 0 /\ ledgerVol = [m \in Markets |-> 0]
        BY <3>2 DEF Shared, LedgerLag
      <4>2. p.side # "bid"
        BY <4>1, <1>2 DEF PretradeAllows
      <4> QED
        BY <1>3, <1>4, <2>1, <3>1, <3>2, <4>1, <4>2 DEF LedgerLag
    <3>3. CASE ~legacy
      <4>1. \A m \in Markets : ledgerVol[m] = holding[m] /\ holding[m] \in Int
        BY <2>3, <3>3 DEF Shared, LedgerLag, Lag, GlobalTypeOK, Volumes
      <4>2. \A m \in Markets : Lag(m)' = 0
        BY <2>7, <3>1 DEF Lag
      <4> QED
        BY <1>4, <3>3, <4>1, <4>2 DEF LedgerLag, venue
    <3> QED
      BY <3>2, <3>3
  <2>10. LocalTypeOK'
    BY <1>4, <2>1 DEF LocalTypeOK, Goto, locals
  <2>11. PointHolds(d)'
    BY <1>2, <1>3, <1>4, <2>1 DEF PointHolds, LocalTypeOK, Goto, locals, venue, PlanIsFresh, PretradeAllows
  <2>12. SingleDaemon' /\ PointsHold'
    BY <1>4, <2>1, <2>11, LockIsKept, OnePointMoves
  <2> QED
    BY <2>2, <2>4, <2>5, <2>6, <2>8, <2>9, <2>10, <2>12 DEF Shared
<1> QED
  BY <1>5, <1>6

LEMMA PlaceStep ==
    ASSUME IInv, NEW d \in Daemons, PlaceOrder(d)
    PROVE  IInv'
<1> USE IInvParts DEF Parts
<1> DEFINE p == plan[d]
           o == [st |-> "inflight", side |-> p.side, market |-> p.market,
                 want |-> p.want, filled |-> 0]
<1>1. PointHolds(d) /\ pc[d] = "armed"
  BY DEF PointsHold, PlaceOrder
<1>2. /\ PlanIsFresh(d) /\ p \in Plans /\ snap[d] \in BotStates
      /\ bot = ActiveState(snap[d], p) /\ bot.active = p.id
  BY <1>1 DEF PointHolds, LocalTypeOK
<1>3. p.id \in Ids /\ p.id # None /\ orders[p.id] = NoOrder /\ booked[p.id] = 0
  BY <1>2, ConstantsAssumption DEF PlanIsFresh, Shared, OrdersAreKnown
<1>4. orders' = [orders EXCEPT ![p.id] = o] /\ o \in Orders
      /\ UNCHANGED <<files, holding, lock, locals>>
      /\ Goto(d, "sent") /\ pc[d] # "off" /\ "sent" \in Points \ {"off"}
  BY <1>2, <1>3, ConstantsAssumption DEF PlaceOrder, Orders, Plans, Volumes, Points
<1>5. orders'[p.id] = o /\ \A i \in Ids : i # p.id => orders'[i] = orders[i]
  BY <1>3, <1>4 DEF GlobalTypeOK
<1>6. GlobalTypeOK' /\ LocalTypeOK'
  BY <1>3, <1>4 DEF GlobalTypeOK, LocalTypeOK, Goto, files, locals
<1>7. StateIsValid'
  BY <1>4 DEF Shared, StateIsValid, ValidState, files
<1>8. NoOrphanOrder'
  BY <1>2, <1>4, <1>5 DEF Shared, NoOrphanOrder, Open, files
<1>9. OrdersAreKnown'
  BY <1>2, <1>3, <1>4, <1>5, ConstantsAssumption
     DEF Shared, OrdersAreKnown, Terminal, files, ActiveState, Plans, Volumes
<1>10. Fills' = Fills /\ HeldUnits' = HeldUnits
  BY <1>2, <1>3, <1>4, <1>5 DEF Fills, HeldUnits, files, NoOrder
<1>11. PositionMatchesExchange'
  BY <1>4, <1>10 DEF Shared, PositionMatchesExchange, files
<1>12. LedgerLag'
  BY <1>4, <1>10 DEF Shared, LedgerLag, Lag, files
<1>13. PointHolds(d)'
  BY <1>2, <1>3, <1>4, <1>5 DEF PointHolds, Goto, LocalTypeOK, files, locals
<1>14. SingleDaemon' /\ PointsHold'
  BY <1>4, <1>13, LockIsKept, OnePointMoves
<1> QED
  BY <1>6, <1>7, <1>8, <1>9, <1>11, <1>12, <1>14 DEF Shared

LEMMA MarkStep ==
    ASSUME IInv, NEW d \in Daemons, MarkUntracked(d)
    PROVE  IInv'
<1> USE IInvParts DEF Parts
<1> DEFINE p == plan[d]
<1>1. PointHolds(d) /\ pc[d] = "ambiguous"
  BY DEF PointsHold, MarkUntracked
<1>2. bot = ActiveState(snap[d], p) /\ bot \in BotStates /\ p \in Plans /\ snap[d] \in BotStates
  BY <1>1 DEF PointHolds, LocalTypeOK, GlobalTypeOK
<1>3. bot' = [bot EXCEPT !.untracked = TRUE]
      /\ UNCHANGED <<booked, ledgerVol, legacy, venue, lock, locals>>
      /\ Goto(d, "raised") /\ pc[d] # "off" /\ "raised" \in Points \ {"off"}
  BY <1>2 DEF MarkUntracked, Points
<1>4. /\ bot'.vol = bot.vol /\ bot'.active = bot.active /\ bot'.side = bot.side
      /\ bot'.market = bot.market /\ bot'.want = bot.want /\ bot'.policy = bot.policy
      /\ bot'.untracked = TRUE /\ bot' \in BotStates
  BY <1>2, <1>3 DEF BotStates
<1>5. bot.active # None
  BY <1>1, ConstantsAssumption DEF PointHolds
<1>6. GlobalTypeOK' /\ LocalTypeOK'
  BY <1>3, <1>4 DEF GlobalTypeOK, LocalTypeOK, Goto, venue, locals
<1>7. StateIsValid'
  BY <1>4, <1>5 DEF Shared, StateIsValid, ValidState
<1>8. NoOrphanOrder' /\ OrdersAreKnown'
  BY <1>3, <1>4 DEF Shared, NoOrphanOrder, OrdersAreKnown, Open, Terminal, venue
<1>9. Fills' = Fills /\ HeldUnits' = HeldUnits
  BY <1>3, <1>4 DEF Fills, HeldUnits, venue
<1>10. PositionMatchesExchange' /\ LedgerLag'
  BY <1>3, <1>4, <1>9 DEF Shared, PositionMatchesExchange, LedgerLag, Lag, venue
<1>11. PointHolds(d)'
  BY <1>3 DEF PointHolds, Goto, LocalTypeOK
<1>12. SingleDaemon' /\ PointsHold'
  BY <1>3, <1>11, LockIsKept, OnePointMoves
<1> QED
  BY <1>6, <1>7, <1>8, <1>10, <1>12 DEF Shared

----------------------------------------------------------------------------
(* The steps of reconcile_active_order.                                    *)

LEMMA ReadStep ==
    ASSUME IInv, NEW d \in Daemons, ReadTerminal(d)
    PROVE  IInv'
<1> USE IInvParts DEF Parts
<1> DEFINE s == [st |-> orders[bot.active].st, filled |-> orders[bot.active].filled]
<1>1. Shared' /\ GlobalTypeOK' /\ UNCHANGED <<files, venue, lock, plan>>
  BY SharedUnchanged DEF ReadTerminal
<1>2. /\ bot.active \in Ids /\ bot.active # None
      /\ s \in [st : {"none", "done", "cancel"}, filled : Volumes]
      /\ Terminal(bot.active) /\ FillIsConsistent(bot, s)
  BY DEF ReadTerminal, GlobalTypeOK, BotStates, Orders, Terminal
<1>3. /\ seen' = [seen EXCEPT ![d] = s] /\ snap' = [snap EXCEPT ![d] = bot]
      /\ Goto(d, "terminal") /\ pc[d] # "off" /\ "terminal" \in Points \ {"off"}
  BY DEF ReadTerminal, Points
<1>4. LocalTypeOK'
  BY <1>1, <1>2, <1>3 DEF LocalTypeOK, GlobalTypeOK, Goto
<1>5. PointHolds(d)'
  <2>1. pc'[d] = "terminal" /\ seen'[d] = s /\ snap'[d] = bot
    BY <1>3 DEF LocalTypeOK, Goto
  <2>2. Terminal(bot.active)' /\ Fills' = s.filled /\ bot' = bot /\ orders' = orders
    BY <1>1, <1>2 DEF Terminal, Fills, files, venue
  <2>3. FillIsConsistent(bot, seen[d])'
    BY <1>2, <2>1, <2>2 DEF FillIsConsistent
  <2> QED
    BY <1>2, <2>1, <2>2, <2>3 DEF PointHolds
<1>6. SingleDaemon' /\ PointsHold'
  BY <1>1, <1>3, <1>5, LockIsKept, OnePointMoves
<1> QED
  BY <1>1, <1>4, <1>6

(* The pending order, once terminal, and what the ledger lacks of it.      *)
LEMMA TerminalFacts ==
    ASSUME IInv, NEW d \in Daemons, pc[d] \in {"terminal", "ledgered"}
    PROVE  /\ PointHolds(d) /\ snap[d] = bot /\ bot \in BotStates
           /\ bot.active \in Ids /\ bot.active # None /\ Terminal(bot.active)
           /\ bot.side \in Sides /\ bot.market \in Markets
           /\ seen[d].st = orders[bot.active].st /\ seen[d].filled = Fills
           /\ FillIsConsistent(bot, seen[d])
           /\ Fills \in Volumes /\ booked[bot.active] \in {0, Fills}
           /\ HeldUnits = IF bot.side = "bid" THEN Fills ELSE bot.vol - Fills
           /\ holding = [n \in Markets |-> IF n = bot.market THEN HeldUnits ELSE 0]
<1> USE IInvParts DEF Parts
<1>1. PointHolds(d)
  BY DEF PointsHold
<1>2. /\ snap[d] = bot /\ bot \in BotStates /\ bot.active \in Ids /\ bot.active # None
      /\ Terminal(bot.active) /\ FillIsConsistent(bot, seen[d])
      /\ seen[d] = [st |-> orders[bot.active].st, filled |-> Fills]
  BY <1>1 DEF PointHolds, GlobalTypeOK, BotStates
<1>3. bot.side \in Sides /\ bot.market \in Markets
  BY <1>2 DEF Shared, StateIsValid, ValidState
<1>4. Fills = orders[bot.active].filled /\ Fills \in Volumes
  BY <1>2 DEF Fills, GlobalTypeOK, Orders
<1>5. booked[bot.active] \in {0, Fills}
  BY <1>2, <1>4 DEF Shared, OrdersAreKnown
<1>6. HeldUnits = IF bot.side = "bid" THEN Fills ELSE bot.vol - Fills
  BY <1>2, <1>3, <1>4 DEF HeldUnits, FillIsConsistent, Sides, BotStates, Volumes
<1>7. holding = [n \in Markets |-> IF n = bot.market THEN HeldUnits ELSE 0]
  BY <1>2 DEF Shared, PositionMatchesExchange
<1> QED
  BY <1>1, <1>2, <1>3, <1>4, <1>5, <1>6, <1>7

LEMMA AppendStep ==
    ASSUME IInv, NEW d \in Daemons, AppendFills(d)
    PROVE  IInv'
<1> USE IInvParts DEF Parts
<1> DEFINE s == seen[d]
           i == bot.active
           unseen == s.filled - booked[i]
<1>1. pc[d] = "terminal"
  BY DEF AppendFills
<1>2. /\ PointHolds(d) /\ snap[d] = bot /\ bot \in BotStates
      /\ i \in Ids /\ i # None /\ Terminal(i)
      /\ bot.side \in Sides /\ bot.market \in Markets
      /\ s.filled = Fills /\ FillIsConsistent(bot, s)
      /\ Fills \in Volumes /\ booked[i] \in {0, Fills}
      /\ HeldUnits = IF bot.side = "bid" THEN Fills ELSE bot.vol - Fills
      /\ holding = [n \in Markets |-> IF n = bot.market THEN HeldUnits ELSE 0]
  BY <1>1, TerminalFacts
<1>3. /\ UNCHANGED <<bot, legacy, venue, lock, locals>>
      /\ Goto(d, "ledgered") /\ pc[d] # "off" /\ "ledgered" \in Points \ {"off"}
  BY <1>1 DEF AppendFills, Points
<1>4. Fills' = Fills /\ HeldUnits' = HeldUnits
  BY <1>3 DEF Fills, HeldUnits, venue
<1>5. LocalTypeOK'
  BY <1>3 DEF LocalTypeOK, Goto, locals
<1>6. StateIsValid' /\ NoOrphanOrder' /\ PositionMatchesExchange'
  BY <1>3, <1>4 DEF Shared, StateIsValid, ValidState, NoOrphanOrder, Open, PositionMatchesExchange, venue
<1>7. CASE MustBook(bot, s)
  <2>1. ~legacy
    BY <1>2, <1>7 DEF MustBook, Shared, LedgerLag, FillIsConsistent, Sides, BotStates, Volumes
  <2>2. /\ booked' = [booked EXCEPT ![i] = s.filled]
        /\ ledgerVol' = [ledgerVol EXCEPT ![bot.market] =
             IF bot.side = "bid" THEN @ + unseen ELSE @ - unseen]
    BY <1>2, <1>7 DEF AppendFills, UnseenTrades
  <2>3. \A m \in Markets : ledgerVol'[m] = holding[m] /\ holding[m] \in Volumes
    BY <1>2, <2>1, <2>2, ConstantsAssumption
       DEF Shared, LedgerLag, Lag, GlobalTypeOK, Volumes, Sides, BotStates
  <2>4. booked'[i] = Fills /\ \A j \in Ids : j # i => booked'[j] = booked[j]
    BY <1>2, <2>2 DEF GlobalTypeOK
  <2>5. GlobalTypeOK'
    BY <1>2, <1>3, <2>2, <2>3 DEF GlobalTypeOK, venue
  <2>6. OrdersAreKnown'
    BY <1>2, <1>3, <1>4, <2>4 DEF Shared, OrdersAreKnown, Terminal, Fills, venue
  <2>7. LedgerLag'
    BY <1>2, <1>3, <1>4, <2>1, <2>3, <2>4 DEF LedgerLag, Lag, Volumes, venue
  <2>8. PointHolds(d)'
    BY <1>1, <1>2, <1>3, <1>4, <2>4 DEF PointHolds, Goto, LocalTypeOK, Terminal, venue, locals, FillIsConsistent
  <2> QED
    BY <1>3, <1>5, <1>6, <2>5, <2>6, <2>7, <2>8, LockIsKept, OnePointMoves DEF Shared
<1>8. CASE ~MustBook(bot, s)
  <2>1. UNCHANGED <<booked, ledgerVol>>
    BY <1>2, <1>8 DEF AppendFills
  <2>2. Shared' /\ GlobalTypeOK'
    BY <1>3, <2>1, SharedUnchanged DEF files
  <2>3. legacy \/ booked[i] = Fills
    <3> SUFFICES ASSUME ~legacy, booked[i] # Fills PROVE FALSE
      OBVIOUS
    <3>1. Fills > 0 /\ booked[i] = 0
      BY <1>2, ConstantsAssumption DEF Volumes
    <3>2. bot.side = "ask" /\ ledgerVol[bot.market] = 0
      BY <1>2, <1>8, <3>1 DEF MustBook, Sides, GlobalTypeOK, Volumes
    <3>3. ledgerVol[bot.market] = holding[bot.market] + Fills
      BY <1>2, <3>1, <3>2 DEF Shared, LedgerLag, Lag, GlobalTypeOK, Volumes
    <3>4. holding[bot.market] >= 0
      BY <1>2 DEF GlobalTypeOK, Volumes
    <3> QED
      BY <1>2, <3>1, <3>2, <3>3, <3>4 DEF Volumes
  <2>4. PointHolds(d)'
    BY <1>1, <1>2, <1>3, <1>4, <2>1, <2>3 DEF PointHolds, Goto, LocalTypeOK, Terminal, venue, locals, FillIsConsistent
  <2> QED
    BY <1>3, <1>5, <2>2, <2>4, LockIsKept, OnePointMoves
<1> QED
  BY <1>7, <1>8

LEMMA SaveStep ==
    ASSUME IInv, NEW d \in Daemons, SaveTerminal(d)
    PROVE  IInv'
<1> USE IInvParts DEF Parts
<1> DEFINE s == seen[d]
           i == bot.active
           v == IF bot.side = "bid" THEN Fills ELSE bot.vol - Fills
           b == [vol |-> v, active |-> None, side |-> None, market |-> None, want |-> 0,
                 untracked |-> FALSE, policy |-> IF v = 0 THEN 0 ELSE bot.policy]
<1>1. pc[d] = "ledgered"
  BY DEF SaveTerminal
<1>2. /\ PointHolds(d) /\ snap[d] = bot /\ bot \in BotStates
      /\ i \in Ids /\ i # None /\ Terminal(i)
      /\ bot.side \in Sides /\ bot.market \in Markets
      /\ s.filled = Fills /\ FillIsConsistent(bot, s)
      /\ Fills \in Volumes /\ booked[i] \in {0, Fills}
      /\ HeldUnits = v
      /\ holding = [n \in Markets |-> IF n = bot.market THEN v ELSE 0]
  BY <1>1, TerminalFacts
<1>3. v \in Volumes
  BY <1>2, ConstantsAssumption DEF FillIsConsistent, Sides, Volumes, BotStates
<1>4. bot' = b
  BY <1>2 DEF SaveTerminal, AfterFill, HeldState
<1>5. /\ legacy' = (legacy /\ v > 0)
      /\ UNCHANGED <<booked, ledgerVol, venue, lock, locals>>
      /\ Goto(d, "settled") /\ pc[d] # "off" /\ "settled" \in Points \ {"off"}
  BY <1>1, <1>4 DEF SaveTerminal, Points
<1>6. b \in BotStates
  BY <1>2, <1>3, ConstantsAssumption DEF BotStates, Policies, Volumes
<1>7. GlobalTypeOK' /\ LocalTypeOK'
  BY <1>4, <1>5, <1>6 DEF GlobalTypeOK, LocalTypeOK, Goto, venue, locals
<1>8. StateIsValid'
  BY <1>4 DEF StateIsValid, ValidState
<1>9. NoOrphanOrder' /\ OrdersAreKnown'
  BY <1>2, <1>4, <1>5, ConstantsAssumption
     DEF Shared, NoOrphanOrder, OrdersAreKnown, Open, Terminal, venue
<1>10. Fills' = 0 /\ HeldUnits' = v
  BY <1>3, <1>4 DEF Fills, HeldUnits, Volumes
<1>11. PositionMatchesExchange'
  BY <1>2, <1>4, <1>5, <1>10 DEF PositionMatchesExchange, venue
<1>12. LedgerLag'
  <2>1. legacy \/ booked[i] = Fills
    BY <1>1, <1>2 DEF PointHolds
  <2>2. /\ bot'.vol = v /\ bot'.active = None /\ bot'.side # "bid"
        /\ bot'.policy = IF v = 0 THEN 0 ELSE bot.policy
        /\ \A m \in Markets : Lag(m)' = 0
        /\ \A m \in Markets : holding[m] \in Int
    BY <1>4, ConstantsAssumption DEF Lag, GlobalTypeOK, Volumes
  <2>3. UNCHANGED <<ledgerVol, holding>>
    BY <1>5 DEF venue
  <2>4. CASE legacy /\ v > 0
    BY <1>5, <2>2, <2>3, <2>4 DEF LedgerLag, Shared
  <2>5. CASE legacy /\ v = 0
    <3> HIDE DEF v
    <3>0. ~(v > 0)
      BY <2>5
    <3>1. ~legacy'
      BY <1>5, <3>0
    <3>2. \A m \in Markets : ledgerVol[m] = holding[m]
      BY <1>2, <2>5 DEF LedgerLag, Shared
    <3> QED
      BY <2>2, <2>3, <3>1, <3>2 DEF LedgerLag
  <2>6. CASE ~legacy
    <3>1. ~legacy'
      BY <1>5, <2>6
    <3>2. \A m \in Markets : ledgerVol[m] = holding[m]
      BY <1>2, <2>1, <2>6 DEF Shared, LedgerLag, Lag, GlobalTypeOK, Volumes
    <3> QED
      BY <2>2, <2>3, <3>1, <3>2 DEF LedgerLag
  <2> QED
    BY <1>3, <2>4, <2>5, <2>6 DEF Volumes
<1>13. PointHolds(d)'
  BY <1>5 DEF PointHolds, Goto, LocalTypeOK
<1>14. SingleDaemon' /\ PointsHold'
  BY <1>5, <1>13, LockIsKept, OnePointMoves
<1> QED
  BY <1>7, <1>8, <1>9, <1>11, <1>12, <1>14 DEF Shared

----------------------------------------------------------------------------
(* The steps of the exchange: only the order the state file names can move.*)

LEMMA ExchangeKeepsIInv ==
    ASSUME IInv, NEW i \in Ids, Exchange(i)
    PROVE  IInv'
<1> USE IInvParts DEF Parts
<1>1. UNCHANGED <<files, lock, pc, locals>>
  BY DEF Exchange, Arrive, Lose, Fill, Complete, CancelRest
<1>2. Open(i) /\ bot.active = i /\ i # None
  BY ConstantsAssumption DEF Exchange, Arrive, Lose, Fill, Complete, CancelRest, Open, Shared, NoOrphanOrder
<1>3. /\ bot \in BotStates /\ bot.side \in Sides /\ bot.market \in Markets
      /\ orders[i] \in Orders /\ ~Terminal(i) /\ orders[i].st # "none"
      /\ orders[i].side = bot.side /\ orders[i].market = bot.market
      /\ orders[i].want = bot.want /\ booked[i] = 0
      /\ orders[i].filled <= IF bot.side = "bid" THEN Lot ELSE bot.want
  BY <1>2 DEF Shared, StateIsValid, ValidState, OrdersAreKnown, Open, Terminal, GlobalTypeOK
<1>4. /\ Fills = orders[i].filled /\ Fills \in Volumes
      /\ holding = [n \in Markets |-> IF n = bot.market THEN HeldUnits ELSE 0]
  BY <1>2, <1>3 DEF Fills, Shared, PositionMatchesExchange, Orders
<1>5. \A d \in Daemons : pc[d] \notin {"validated", "cleared", "armed", "terminal", "ledgered"}
  <2> SUFFICES ASSUME NEW d \in Daemons,
                      pc[d] \in {"validated", "cleared", "armed", "terminal", "ledgered"}
               PROVE FALSE
    OBVIOUS
  <2>1. PointHolds(d)
    BY DEF PointsHold
  <2> QED
    BY <1>2, <1>3, <2>1 DEF PointHolds, PlanIsFresh, PretradeAllows
<1> DEFINE o == orders[i]
           o1 == orders'[i]
<1>6. /\ o1 \in Orders /\ o1.st \in {"lost", "wait", "done", "cancel"}
      /\ o1.side = o.side /\ o1.market = o.market /\ o1.want = o.want
      /\ \A j \in Ids : j # i => orders'[j] = orders[j]
      /\ orders' \in [Ids -> Orders]
      /\ o1.filled <= IF bot.side = "bid" THEN Lot ELSE bot.want
      /\ o1.st = "lost" => o1.filled = 0
  <2> USE <1>3 DEF GlobalTypeOK, Orders
  <2>1. CASE Arrive(i)
    BY <2>1 DEF Arrive
  <2>2. CASE Lose(i)
    BY <2>2 DEF Lose, Shared, OrdersAreKnown
  <2>3. CASE Fill(i)
    BY <2>3, ConstantsAssumption DEF Fill, Volumes, BotStates, Sides
  <2>4. CASE Complete(i)
    BY <2>4 DEF Complete
  <2>5. CASE CancelRest(i)
    BY <2>5 DEF CancelRest
  <2> QED
    BY <2>1, <2>2, <2>3, <2>4, <2>5 DEF Exchange
<1>7. Fills' = o1.filled
  BY <1>1, <1>2 DEF Fills, files
<1>8. /\ holding' \in [Markets -> Volumes]
      /\ \/ o1.filled = o.filled /\ holding' = holding
         \/ /\ o1.filled = o.filled + 1
            /\ holding' = [holding EXCEPT ![bot.market] =
                 IF bot.side = "bid" THEN @ + 1 ELSE @ - 1]
  <2> USE <1>3 DEF GlobalTypeOK, Orders
  <2>1. CASE Fill(i)
    BY <2>1, ConstantsAssumption DEF Fill, Volumes
  <2>2. CASE Arrive(i) \/ Lose(i) \/ Complete(i) \/ CancelRest(i)
    BY <2>2 DEF Arrive, Lose, Complete, CancelRest
  <2> QED
    BY <2>1, <2>2 DEF Exchange
<1>9. GlobalTypeOK' /\ LocalTypeOK' /\ SingleDaemon'
  BY <1>1, <1>6, <1>8 DEF GlobalTypeOK, LocalTypeOK, SingleDaemon, files, locals
<1>10. StateIsValid'
  BY <1>1 DEF Shared, StateIsValid, ValidState, files
<1>11. NoOrphanOrder'
  BY <1>1, <1>2, <1>6 DEF Shared, NoOrphanOrder, Open, files
<1>12. OrdersAreKnown'
  BY <1>1, <1>2, <1>3, <1>6 DEF Shared, OrdersAreKnown, Terminal, files
<1>13. /\ HeldUnits \in Int /\ HeldUnits' \in Int
       /\ HeldUnits' - HeldUnits = IF bot.side = "bid" THEN o1.filled - o.filled
                                                      ELSE o.filled - o1.filled
  BY <1>1, <1>3, <1>4, <1>6, <1>7 DEF HeldUnits, Sides, files, BotStates, Orders, Volumes
<1>14. holding' = [n \in Markets |-> IF n = bot.market THEN HeldUnits' ELSE 0]
  BY <1>3, <1>4, <1>8, <1>13 DEF Orders, Volumes, Sides
<1>15. PositionMatchesExchange'
  BY <1>1, <1>3, <1>14 DEF PositionMatchesExchange, files
<1>16. LedgerLag'
  <2>1. booked' = booked /\ bot' = bot /\ ledgerVol' = ledgerVol /\ legacy' = legacy
    BY <1>1 DEF files
  <2>2. CASE legacy
    BY <2>1, <2>2 DEF Shared, LedgerLag
  <2>3. CASE ~legacy
    <3>0. o.filled \in Int /\ o1.filled \in Int
      BY <1>3, <1>6 DEF Orders, Volumes
    <3>1. \A m \in Markets :
            /\ Lag(m) = IF m = bot.market THEN o.filled ELSE 0
            /\ Lag(m)' = IF m = bot.market THEN o1.filled ELSE 0
      <4>1. bot.active # None /\ bot.active = i /\ booked[i] = 0
        BY <1>2, <1>3
      <4> HIDE DEF o, o1
      <4>2. \A m \in Markets : Lag(m) = IF bot.market = m THEN Fills - 0 ELSE 0
        BY <4>1 DEF Lag
      <4>3. \A m \in Markets : Lag(m)' = IF bot.market = m THEN Fills' - 0 ELSE 0
        BY <4>1, <2>1 DEF Lag
      <4>4. Fills = o.filled /\ Fills' = o1.filled
        BY <1>4, <1>7 DEF o, o1
      <4> QED
        BY <3>0, <4>2, <4>3, <4>4
    <3>2. \A m \in Markets :
            /\ holding[m] \in Int /\ holding'[m] \in Int
            /\ holding'[m] - holding[m] =
                 IF m # bot.market THEN 0
                 ELSE IF bot.side = "bid" THEN o1.filled - o.filled
                                          ELSE o.filled - o1.filled
      <4> HIDE DEF o, o1
      <4> QED
        BY <1>8, <3>0 DEF Shared, GlobalTypeOK, Volumes
    <3>3. \A m \in Markets :
            ledgerVol[m] = IF bot.side = "bid" THEN holding[m] - Lag(m) ELSE holding[m] + Lag(m)
      BY <2>3 DEF Shared, LedgerLag
    <3>4. \A m \in Markets :
            ledgerVol[m] = IF bot.side = "bid" THEN holding'[m] - Lag(m)'
                                               ELSE holding'[m] + Lag(m)'
      <4> SUFFICES ASSUME NEW m \in Markets
                   PROVE ledgerVol[m] = IF bot.side = "bid" THEN holding'[m] - Lag(m)'
                                                            ELSE holding'[m] + Lag(m)'
        OBVIOUS
      <4> HIDE DEF o, o1
      <4>1. CASE m = bot.market
        BY <3>0, <3>1, <3>2, <3>3, <4>1
      <4>2. CASE m # bot.market
        BY <3>0, <3>1, <3>2, <3>3, <4>2
      <4> QED
        BY <4>1, <4>2
    <3> QED
      BY <2>1, <2>3, <3>4 DEF LedgerLag
  <2> QED
    BY <2>2, <2>3
<1>17. PointsHold'
  <2> SUFFICES ASSUME NEW d \in Daemons PROVE PointHolds(d)'
    BY DEF PointsHold
  <2>1. PointHolds(d)
    BY DEF PointsHold
  <2> QED
    BY <1>1, <1>2, <1>5, <1>6, <2>1 DEF PointHolds, PlanIsFresh, files, locals
<1> QED
  BY <1>9, <1>10, <1>11, <1>12, <1>15, <1>16, <1>17 DEF Shared

----------------------------------------------------------------------------
(* The invariant holds at the start and every step keeps it.               *)

LEMMA InitHolds == Init => IInv
<1> SUFFICES ASSUME Init PROVE IInv
  OBVIOUS
<1> USE NullValues, ConstantsAssumption DEF Init
<1>1. PICK v \in HeldVolumes, m \in Markets, p \in HeldPolicies \cup {0} :
        /\ legacy \in BOOLEAN
        /\ legacy => v > 0
        /\ v = 0 \/ legacy => p = 0
        /\ bot = [HeldState(v) EXCEPT !.policy = p]
        /\ holding = [n \in Markets |-> IF n = m THEN v ELSE 0]
        /\ ledgerVol = [n \in Markets |-> IF n = m /\ ~legacy THEN v ELSE 0]
  OBVIOUS
<1>2. v \in Volumes /\ p \in Policies /\ 0 \in Volumes
  BY <1>1 DEF Volumes, Policies
<1>3. bot = [vol |-> v, active |-> None, side |-> None, market |-> None, want |-> 0,
             untracked |-> FALSE, policy |-> p]
  BY <1>1 DEF HeldState
<1>4. GlobalTypeOK /\ LocalTypeOK
  <2>1. bot \in BotStates
    BY <1>2, <1>3 DEF BotStates
  <2>2. holding \in [Markets -> Volumes]
    BY <1>1, <1>2
  <2>3. ledgerVol \in [Markets -> Volumes]
    <3>1. \A n \in Markets : (IF n = m /\ ~legacy THEN v ELSE 0) \in Volumes
      BY <1>2
    <3> QED
      BY <1>1, <3>1
  <2>4. booked \in [Ids -> Volumes] /\ orders \in [Ids -> Orders]
    BY <1>2
  <2>5. LocalTypeOK
    BY DEF LocalTypeOK, Points
  <2>6. legacy \in BOOLEAN
    BY <1>1
  <2> QED
    BY <2>1, <2>2, <2>3, <2>4, <2>5, <2>6 DEF GlobalTypeOK
<1>5. SingleDaemon
  BY DEF SingleDaemon
<1>6. StateIsValid
  BY <1>1, <1>3 DEF StateIsValid, ValidState
<1>7. NoOrphanOrder /\ OrdersAreKnown
  BY <1>3 DEF NoOrphanOrder, Open, OrdersAreKnown, NoOrder
<1>8. HeldUnits = v
  BY <1>2, <1>3 DEF HeldUnits, Fills, Volumes
<1>9. PositionMatchesExchange
  BY <1>1, <1>3, <1>8 DEF PositionMatchesExchange
<1>10. LedgerLag
  <2>1. CASE legacy
    BY <1>1, <1>3, <2>1 DEF LedgerLag
  <2>2. CASE ~legacy
    <3>1. \A n \in Markets : Lag(n) = 0
      BY <1>3 DEF Lag
    <3>2. \A n \in Markets : ledgerVol[n] = holding[n] /\ holding[n] \in Int
      BY <1>1, <1>2, <2>2 DEF Volumes
    <3> QED
      BY <2>2, <3>1, <3>2 DEF LedgerLag
  <2> QED
    BY <2>1, <2>2
<1>11. PointsHold
  BY DEF PointsHold, PointHolds
<1> QED
  BY <1>4, <1>5, <1>6, <1>7, <1>9, <1>10, <1>11, IInvParts DEF Parts, Shared

LEMMA NextKeepsIInv == IInv /\ [Next]_vars => IInv'
<1> SUFFICES ASSUME IInv, [Next]_vars PROVE IInv'
  OBVIOUS
<1>1. ASSUME NEW d \in Daemons, Start(d) PROVE IInv'
  BY <1>1, StartStep
<1>2. ASSUME NEW d \in Daemons, Crash(d) PROVE IInv'
  BY <1>2, CrashStep
<1>3. ASSUME NEW d \in Daemons, Execute(d) PROVE IInv'
  BY <1>3, PlanStep, ControlSteps, PersistStep, PlaceStep, MarkStep DEF Execute
<1>4. ASSUME NEW d \in Daemons, Reconcile(d) PROVE IInv'
  BY <1>4, ReadStep, ControlSteps, AppendStep, SaveStep DEF Reconcile
<1>5. ASSUME NEW d \in Daemons, Resume(d) PROVE IInv'
  BY <1>5, ResumeStep
<1>6. ASSUME NEW i \in Ids, Exchange(i) PROVE IInv'
  BY <1>6, ExchangeKeepsIInv
<1>7. CASE UNCHANGED vars
  <2> USE <1>7, IInvParts DEF Parts, vars
  <2>1. Shared' /\ GlobalTypeOK'
    BY SharedUnchanged
  <2>2. UNCHANGED <<bot, booked, ledgerVol, legacy, orders, holding, lock, pc, snap, plan, seen>>
    BY DEF files, venue, locals
  <2>3. LocalTypeOK' /\ SingleDaemon'
    BY <2>2 DEF LocalTypeOK, SingleDaemon
  <2>4. PointsHold'
    BY <2>2 DEF PointsHold, PointHolds, PlanIsFresh, Terminal, Fills
  <2> QED
    BY <2>1, <2>3, <2>4
<1> QED
  BY <1>1, <1>2, <1>3, <1>4, <1>5, <1>6, <1>7 DEF Next

(* IInv is an invariant of the order path, however many daemons, markets   *)
(* and client order ids there are (execution.py, state.py, fill_ledger.py).*)
THEOREM IInvIsInvariant == Spec => []IInv
  BY InitHolds, NextKeepsIInv, PTL DEF Spec

(* Every variable keeps its type (execution.py, state.py).                 *)
THEOREM TypeCorrect == Spec => []TypeOK
<1>1. IInv => TypeOK
  BY DEF IInv
<1> QED
  BY IInvIsInvariant, <1>1, PTL

(* One daemon at a time passes flock (autonomous_trader.py:                *)
(* acquire_daemon_lock).                                                   *)
THEOREM DaemonIsSingle == Spec => []SingleDaemon
<1>1. IInv => SingleDaemon
  BY DEF IInv
<1> QED
  BY IInvIsInvariant, <1>1, PTL

(* Whatever crashes, arrives late or is lost, an order that can trade is   *)
(* the one the state file names (execution.py: execute).                   *)
THEOREM NoOrderIsOrphaned == Spec => []NoOrphanOrder
<1>1. IInv => NoOrphanOrder
  BY DEF IInv
<1> QED
  BY IInvIsInvariant, <1>1, PTL

(* The state file and the fills of its pending order account for the       *)
(* exchange balance (execution.py: _apply_terminal_fill).                  *)
THEOREM PositionIsTrue == Spec => []PositionMatchesExchange
<1>1. IInv => PositionMatchesExchange
  BY DEF IInv
<1> QED
  BY IInvIsInvariant, <1>1, PTL

(* With nothing pending the ledger replays to the exchange balance, every  *)
(* trade booked exactly once (execution.py: append_order before            *)
(* save_state).                                                            *)
THEOREM LedgerIsTrue == Spec => []LedgerMatchesExchange
<1>1. ASSUME IInv, bot.active = None
      PROVE  ledgerVol = IF legacy THEN [m \in Markets |-> 0] ELSE holding
  <2> USE IInvParts, <1>1 DEF Parts, Shared
  <2>1. CASE legacy
    BY <2>1 DEF LedgerLag
  <2>2. CASE ~legacy
    <3>1. /\ ledgerVol = [m \in Markets |-> ledgerVol[m]]
          /\ holding = [m \in Markets |-> holding[m]]
          /\ \A m \in Markets : holding[m] \in Int
      BY DEF GlobalTypeOK, Volumes
    <3>2. \A m \in Markets : ledgerVol[m] = holding[m]
      BY <2>2, <3>1 DEF LedgerLag, Lag
    <3> QED
      BY <2>2, <3>1, <3>2
  <2> QED
    BY <2>1, <2>2
<1>2. IInv => LedgerMatchesExchange
  BY <1>1 DEF LedgerMatchesExchange
<1> QED
  BY IInvIsInvariant, <1>2, PTL

----------------------------------------------------------------------------
(* Clearing an order, and the refinement of OrderLifecycle.                *)

(* The facts of IInv that a step of the pending order relies on.           *)
LEMMA PendingFacts ==
    ASSUME IInv
    PROVE  /\ bot \in BotStates
           /\ orders \in [Ids -> Orders]
           /\ Fills \in Volumes
           /\ \A i \in Ids : Open(i) => bot.active = i
           /\ \A d \in Daemons : PointHolds(d)
<1> USE IInvParts DEF Parts
<1>1. bot \in BotStates /\ orders \in [Ids -> Orders]
  BY DEF GlobalTypeOK
<1>2. Fills \in Volumes
  BY <1>1, ConstantsAssumption DEF Fills, BotStates, Orders, Volumes
<1> QED
  BY <1>1, <1>2 DEF Shared, NoOrphanOrder, PointsHold

(* Which steps leave the state file's pending order alone.                 *)
LEMMA ActiveChanges ==
    ASSUME IInv, [Next]_vars, bot'.active # bot.active
    PROVE  \E d \in Daemons : PersistActive(d) \/ SaveTerminal(d)
<1>1. ASSUME NEW d \in Daemons, MarkUntracked(d) PROVE bot'.active = bot.active
  <2>1. bot = ActiveState(snap[d], plan[d])
    BY <1>1, PendingFacts DEF MarkUntracked, PointHolds
  <2> QED
    BY <1>1, <2>1 DEF MarkUntracked, ActiveState
<1>2. ASSUME NEW d \in Daemons,
             Start(d) \/ Crash(d) \/ Resume(d) \/ Execute(d) \/ Reconcile(d),
             ~PersistActive(d), ~MarkUntracked(d), ~SaveTerminal(d)
      PROVE  bot' = bot
  BY <1>2 DEF Start, Crash, Resume, Execute, Reconcile, PlanExecution, Refuse, Validate,
     CheckOrderChance, PlaceOrder, Accepted, AnswerFails, ReadTerminal, ReconcileRaises,
     AppendFills, AppendRaises, files
<1>3. ASSUME NEW i \in Ids, Exchange(i) PROVE bot' = bot
  BY <1>3 DEF Exchange, Arrive, Lose, Fill, Complete, CancelRest, files
<1>4. CASE UNCHANGED vars
  BY <1>4 DEF vars, files
<1> QED
  BY <1>1, <1>2, <1>3, <1>4 DEF Next

(* A pending order is cleared only after the exchange reported it done or  *)
(* cancelled, with its trades in the ledger unless the position is older   *)
(* (execution.py: reconcile_active_order).                                 *)
THEOREM ClearingIsSettled == Spec => ClearedOnlyWhenSettled
<1>1. ASSUME IInv, [Next]_vars, NEW i \in Ids, bot.active = i, bot'.active # i
      PROVE  Terminal(i) /\ (legacy \/ booked[i] = orders[i].filled)
  <2>1. PICK d \in Daemons : PersistActive(d) \/ SaveTerminal(d)
    BY <1>1, ActiveChanges
  <2>2. PointHolds(d) /\ i # None
    BY <1>1, PendingFacts, ConstantsAssumption
  <2>3. SaveTerminal(d)
    BY <1>1, <2>1, <2>2 DEF PersistActive, PointHolds, PretradeAllows
  <2> QED
    BY <1>1, <2>2, <2>3 DEF SaveTerminal, PointHolds, Fills
<1>2. IInv /\ [Next]_vars =>
        [\A i \in Ids : bot.active = i /\ bot'.active # i =>
           /\ Terminal(i)
           /\ legacy \/ booked[i] = orders[i].filled]_vars
  BY <1>1
<1> QED
  BY IInvIsInvariant, <1>2, PTL DEF Spec, ClearedOnlyWhenSettled

----------------------------------------------------------------------------
(* The refinement.  Outstanding, Spent: what the mapping substitutes for   *)
(* order and spent.                                                        *)
Outstanding == [id |-> bot.active, side |-> bot.side, market |-> bot.market, traded |-> Fills]
Spent       == {i \in Ids : orders[i].st # "none" \/ bot.active = i}

LEMMA NothingPending ==
    ASSUME IInv, bot.active = None
    PROVE  Outstanding = Lifecycle!Nothing
  BY IInvParts DEF Parts, Shared, StateIsValid, ValidState, Outstanding, Fills, Lifecycle!Nothing

LEMMA InitRefines == Init => Lifecycle!LInit
<1> SUFFICES ASSUME Init PROVE Lifecycle!LInit
  OBVIOUS
<1>1. IInv
  BY InitHolds
<1>2. PICK v \in HeldVolumes, m \in Markets, p \in HeldPolicies \cup {0} :
        /\ bot = [HeldState(v) EXCEPT !.policy = p]
        /\ holding = [n \in Markets |-> IF n = m THEN v ELSE 0]
  BY DEF Init
<1>3. bot.vol = v /\ bot.active = None
  BY <1>2 DEF HeldState
<1>4. Outstanding = Lifecycle!Nothing
  BY <1>1, <1>3, NothingPending
<1>5. Spent = {}
  BY <1>3, ConstantsAssumption DEF Init, Spent, NoOrder
<1> QED
  BY <1>2, <1>3, <1>4, <1>5 DEF Lifecycle!LInit, Outstanding, Spent

(* The write-ahead issues the order.                                       *)
LEMMA PersistRefines ==
    ASSUME IInv, NEW d \in Daemons, PersistActive(d)
    PROVE  Lifecycle!LNext \/ UNCHANGED Lifecycle!abstractVars
<1> DEFINE b == ActiveState(snap[d], plan[d])
<1>1. CASE ~ValidState(b)
  BY <1>1 DEF PersistActive, venue, Fills, Lifecycle!abstractVars
<1>2. CASE ValidState(b)
  <2>1. /\ bot' = b /\ orders' = orders /\ holding' = holding
        /\ pc[d] = "cleared"
    BY <1>2 DEF PersistActive, venue
  <2>2. /\ snap[d] = bot /\ PlanIsFresh(d) /\ PretradeAllows(bot, plan[d])
        /\ bot.active # plan[d].id
    BY <2>1, PendingFacts DEF PointHolds
  <2> DEFINE p == plan[d]
  <2>3. /\ p.id \in Ids /\ p.market \in Markets /\ orders[p.id].st = "none"
        /\ bot.active = None /\ p.side = IF bot.vol = 0 THEN "bid" ELSE "ask"
    BY <2>2 DEF PlanIsFresh, PretradeAllows, Sides
  <2>4. /\ bot'.active = p.id /\ bot'.side = p.side /\ bot'.market = p.market
        /\ bot'.vol = bot.vol
    BY <2>1, <2>2 DEF ActiveState
  <2>5. Outstanding = Lifecycle!Nothing
    BY <2>3, NothingPending
  <2>6. orders[p.id].filled = 0
    BY <2>3, IInvParts DEF Parts, Shared, OrdersAreKnown, NoOrder
  <2>7. Fills' = 0
    BY <2>1, <2>3, <2>4, <2>6, ConstantsAssumption DEF Fills
  <2>8. Outstanding' = [id |-> p.id, side |-> p.side, market |-> p.market, traded |-> 0]
    BY <2>4, <2>7 DEF Outstanding
  <2>9. p.id \in Ids \ Spent /\ Spent' = Spent \cup {p.id}
    BY <2>1, <2>2, <2>3, <2>4, ConstantsAssumption DEF Spent
  <2>10. Lifecycle!Issue
    BY <2>1, <2>3, <2>4, <2>5, <2>8, <2>9 DEF Lifecycle!Issue, Outstanding, Spent
  <2> QED
    BY <2>10 DEF Lifecycle!LNext
<1> QED
  BY <1>1, <1>2

(* Clearing the order takes its trades over into the position.             *)
LEMMA SaveRefines ==
    ASSUME IInv, NEW d \in Daemons, SaveTerminal(d)
    PROVE  Lifecycle!LNext \/ UNCHANGED Lifecycle!abstractVars
<1>1. /\ pc[d] = "ledgered" /\ bot' = AfterFill(snap[d], seen[d])
      /\ orders' = orders /\ holding' = holding
  BY DEF SaveTerminal, venue
<1>2. /\ snap[d] = bot /\ bot.active # None /\ Terminal(bot.active)
      /\ seen[d] = [st |-> orders[bot.active].st, filled |-> Fills]
      /\ FillIsConsistent(bot, seen[d])
      /\ bot \in BotStates /\ Fills \in Volumes
  BY <1>1, PendingFacts DEF PointHolds
<1>3. IInv'
  BY SaveStep
<1>4. /\ bot'.active = None
      /\ bot'.vol = IF bot.side = "bid" THEN Fills ELSE bot.vol - Fills
  BY <1>1, <1>2 DEF AfterFill, HeldState
<1>5. bot.side = "bid" => bot.vol = 0
  BY <1>2 DEF FillIsConsistent
<1>6. /\ bot'.vol = IF bot.side = "bid" THEN bot.vol + Fills ELSE bot.vol - Fills
      /\ bot'.vol \in 0..Lot
  BY <1>3, <1>2, <1>4, <1>5, IInvParts DEF Parts, GlobalTypeOK, BotStates, Volumes
<1>7. Fills' = 0
  BY <1>4 DEF Fills
<1>8. Outstanding' = Lifecycle!Nothing
  BY <1>3, <1>4, <1>7, IInvParts DEF Parts, Shared, StateIsValid, ValidState, Outstanding,
     Lifecycle!Nothing
<1>9. Outstanding # Lifecycle!Nothing
  BY <1>2 DEF Outstanding, Lifecycle!Nothing
<1>10. Spent' = Spent
  BY <1>1, <1>2, <1>4, ConstantsAssumption DEF Spent, Terminal
<1>11. Lifecycle!Settle
  BY <1>1, <1>6, <1>8, <1>9, <1>10 DEF Lifecycle!Settle, Outstanding, Spent
<1> QED
  BY <1>11 DEF Lifecycle!LNext

(* A trade is a trade; the other steps of the exchange are stutters.       *)
LEMMA ExchangeRefines ==
    ASSUME IInv, NEW i \in Ids, Exchange(i)
    PROVE  Lifecycle!LNext \/ UNCHANGED Lifecycle!abstractVars
<1>1. /\ Open(i) /\ bot.active = i /\ i # None /\ bot' = bot
      /\ bot \in BotStates /\ orders[i] \in Orders /\ orders \in [Ids -> Orders]
      /\ Fills = orders[i].filled /\ Fills' = orders'[i].filled
  <2>1. Open(i) /\ bot' = bot
    BY DEF Exchange, Arrive, Lose, Fill, Complete, CancelRest, Open, files
  <2>2. bot.active = i /\ i # None
    BY <2>1, PendingFacts, ConstantsAssumption
  <2> QED
    BY <2>1, <2>2, PendingFacts DEF Fills
<1>2. Spent' = Spent
  BY <1>1 DEF Spent, Exchange, Arrive, Lose, Fill, Complete, CancelRest, Open
<1>3. CASE Fill(i)
  <2>1. orders[i].side = bot.side /\ orders[i].market = bot.market
    BY <1>1, IInvParts DEF Parts, Shared, OrdersAreKnown, Open
  <2>2. /\ orders'[i].filled = orders[i].filled + 1
        /\ holding' = [holding EXCEPT ![bot.market] = IF bot.side = "bid" THEN @ + 1 ELSE @ - 1]
    BY <1>1, <1>3, <2>1 DEF Fill, Orders
  <2>3. bot.market \in Markets
    BY <1>1, IInvParts DEF Parts, Shared, StateIsValid, ValidState
  <2>4. holding'[bot.market] \in 0..Lot
    BY <1>1, <2>3, ExchangeKeepsIInv, IInvParts DEF Parts, GlobalTypeOK, Volumes
  <2>5. /\ Outstanding' = [Outstanding EXCEPT !.traded = @ + 1]
        /\ Outstanding # Lifecycle!Nothing
    BY <1>1, <2>2 DEF Outstanding, Lifecycle!Nothing
  <2>6. Outstanding.side = bot.side /\ Outstanding.market = bot.market
    BY DEF Outstanding
  <2>7. Lifecycle!Trade
    BY <1>1, <1>2, <2>2, <2>4, <2>5, <2>6 DEF Lifecycle!Trade, Outstanding, Spent
  <2> QED
    BY <2>7 DEF Lifecycle!LNext
<1>4. CASE ~Fill(i)
  <2>1. orders'[i].filled = orders[i].filled /\ holding' = holding
    BY <1>1, <1>4 DEF Exchange, Arrive, Lose, Complete, CancelRest, Orders
  <2> QED
    BY <1>1, <1>2, <2>1 DEF Lifecycle!abstractVars, Spent
<1> QED
  BY <1>3, <1>4

(* Every other step of a process is a stutter of the account.              *)
LEMMA ProcessRefines ==
    ASSUME IInv, NEW d \in Daemons,
           Start(d) \/ Crash(d) \/ Resume(d) \/ Execute(d) \/ Reconcile(d),
           ~PersistActive(d), ~SaveTerminal(d)
    PROVE  UNCHANGED Lifecycle!abstractVars
<1>1. CASE PlaceOrder(d)
  <2>1. bot.active = plan[d].id /\ plan[d].id \in Ids /\ orders[plan[d].id].st = "none"
    BY <1>1, PendingFacts DEF PlaceOrder, PointHolds, PlanIsFresh
  <2>2. orders[plan[d].id].filled = 0
    BY <2>1, IInvParts DEF Parts, Shared, OrdersAreKnown, NoOrder
  <2>3. bot' = bot /\ holding' = holding
    BY <1>1 DEF PlaceOrder, files
  <2>4. /\ Fills' = Fills
        /\ \A i \in Ids : i # plan[d].id => orders'[i] = orders[i]
    BY <1>1, <2>1, <2>2, <2>3, PendingFacts DEF PlaceOrder, Fills
  <2>5. Spent' = Spent
    BY <2>1, <2>3, <2>4 DEF Spent
  <2> QED
    BY <2>3, <2>4, <2>5 DEF Lifecycle!abstractVars, Spent
<1>2. CASE MarkUntracked(d)
  <2>1. bot = ActiveState(snap[d], plan[d]) /\ orders' = orders /\ holding' = holding
    BY <1>2, PendingFacts DEF MarkUntracked, PointHolds, venue
  <2>2. bot' = [bot EXCEPT !.untracked = TRUE]
    BY <1>2, <2>1 DEF MarkUntracked
  <2>3. /\ bot'.active = bot.active /\ bot'.side = bot.side /\ bot'.market = bot.market
        /\ bot'.vol = bot.vol
    BY <2>2, PendingFacts DEF BotStates
  <2> QED
    BY <2>1, <2>3 DEF Lifecycle!abstractVars, Fills
<1>3. CASE ~PlaceOrder(d) /\ ~MarkUntracked(d)
  <2>1. bot' = bot /\ orders' = orders /\ holding' = holding
    BY <1>3 DEF Start, Crash, Resume, Execute, Reconcile, PlanExecution, Refuse, Validate,
       CheckOrderChance, Accepted, AnswerFails, ReadTerminal, ReconcileRaises,
       AppendFills, AppendRaises, files, venue
  <2> QED
    BY <2>1 DEF Lifecycle!abstractVars, Fills
<1> QED
  BY <1>1, <1>2, <1>3

LEMMA NextRefines ==
    IInv /\ [Next]_vars => [Lifecycle!LNext]_(Lifecycle!abstractVars)
<1> SUFFICES ASSUME IInv, [Next]_vars
             PROVE  Lifecycle!LNext \/ UNCHANGED Lifecycle!abstractVars
  OBVIOUS
<1>1. CASE UNCHANGED vars
  BY <1>1 DEF vars, files, venue, Lifecycle!abstractVars, Fills
<1>2. ASSUME NEW i \in Ids, Exchange(i)
      PROVE Lifecycle!LNext \/ UNCHANGED Lifecycle!abstractVars
  BY <1>2, ExchangeRefines
<1>3. ASSUME NEW d \in Daemons,
             Start(d) \/ Crash(d) \/ Execute(d) \/ Reconcile(d) \/ Resume(d)
      PROVE Lifecycle!LNext \/ UNCHANGED Lifecycle!abstractVars
  BY <1>3, PersistRefines, SaveRefines, ProcessRefines
<1> QED
  BY <1>1, <1>2, <1>3 DEF Next

(* The executor implements OrderLifecycle: every step of it, a crash       *)
(* included, is a step of the abstract account or a stutter there          *)
(* (execution.py: BithumbExecutor).                                        *)
THEOREM ExecutorImplementsLifecycle == Spec => ImplementsLifecycle
  BY InitRefines, NextRefines, IInvIsInvariant, PTL DEF Spec, ImplementsLifecycle, Lifecycle!LSpec
=============================================================================
