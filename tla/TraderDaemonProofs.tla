-------------------------- MODULE TraderDaemonProofs --------------------------
(***************************************************************************)
(* The daemon uses the executor as the executor allows, so what is proved  *)
(* of OrderExecutor holds of the daemon too.  Most steps are the daemon's  *)
(* own or one of the executor's; the exceptions are the two blocks that    *)
(* write the state file by themselves, repair_portfolio_invariant and      *)
(* reconcile_with_exchange.  The executor's invariant shows that what they *)
(* write is what is there already, as long as nobody sells by hand.        *)
(***************************************************************************)
EXTENDS TraderDaemon, OrderExecutorProofs, FiniteSetTheorems

(* With nothing pending the whole balance is in one market, and the state  *)
(* file carries nothing but the volume and the policy.                     *)
LEMMA SettledFacts ==
    ASSUME IInv, bot.active = None
    PROVE  /\ bot = [HeldState(bot.vol) EXCEPT !.policy = bot.policy]
           /\ \A m \in Markets : holding[m] > 0 => holding[m] = bot.vol
           /\ bot.vol > 0 => \E m \in Markets : holding[m] = bot.vol
<1> USE IInvParts DEF Parts, GlobalTypeOK
<1>1. bot.side = None /\ bot.market = None /\ bot.want = 0 /\ bot.untracked = FALSE
  BY DEF Shared, StateIsValid, ValidState, BotStates
<1>2. bot = [HeldState(bot.vol) EXCEPT !.policy = bot.policy]
  <2>1. bot = [vol |-> bot.vol, active |-> None, side |-> None, market |-> None,
               want |-> 0, untracked |-> FALSE, policy |-> bot.policy]
    BY <1>1 DEF BotStates
  <2>2. ASSUME NEW b, b = [HeldState(bot.vol) EXCEPT !.policy = bot.policy]
        PROVE  b = [vol |-> bot.vol, active |-> None, side |-> None, market |-> None,
                    want |-> 0, untracked |-> FALSE, policy |-> bot.policy]
    BY <2>2 DEF HeldState
  <2> QED
    BY <2>1, <2>2
<1>3. HeldUnits = bot.vol
  BY <1>1, ConstantsAssumption DEF HeldUnits, Fills, BotStates, Volumes
<1>4. PICK m \in Markets : holding = [n \in Markets |-> IF n = m THEN bot.vol ELSE 0]
  BY <1>3 DEF Shared, PositionMatchesExchange
<1> QED
  BY <1>2, <1>4

----------------------------------------------------------------------------
(* All that matters of a portfolio here is which market it tracks.         *)
Shaped(p) == "market" \in DOMAIN p /\ p.market \in Markets \cup {None}

Shape == Shaped(port) /\ Shaped(disk)

LEMMA PortfolioMarkets ==
    ASSUME NEW p, Shaped(p), NEW m \in Markets \cup {None}, NEW terminal, NEW h
    PROVE  /\ Shaped(Accounted(p, m, terminal)) /\ Accounted(p, m, terminal).market = p.market
           /\ Shaped(Cleared(p)) /\ Cleared(p).market = None
           /\ Shaped(ClearedByReconcile(p)) /\ ClearedByReconcile(p).market = None
           /\ Shaped(Entered(p, m, h)) /\ Entered(p, m, h).market = m
           /\ Shaped(Repaired(p, m)) /\ Repaired(p, m).market = m
<1>1. Shaped(Accounted(p, m, terminal)) /\ Accounted(p, m, terminal).market = p.market
  BY DEF Shaped, Accounted
<1>2. Shaped(ClearedByReconcile(p)) /\ ClearedByReconcile(p).market = None
  BY DEF Shaped, ClearedByReconcile
<1>3. Shaped(Cleared(p)) /\ Cleared(p).market = None
  BY <1>2 DEF Shaped, Cleared
<1>4. Shaped(Entered(p, m, h)) /\ Entered(p, m, h).market = m
  BY DEF Shaped, Entered
<1>5. Shaped(Repaired(p, m)) /\ Repaired(p, m).market = m
  BY DEF Shaped, Repaired, Accounted
<1> QED
  BY <1>1, <1>2, <1>3, <1>4, <1>5

----------------------------------------------------------------------------
(* The blocks that write the state file themselves.                        *)

LEMMA RepairLongStutters ==
    ASSUME IInv, Shaped(port), RepairLong
    PROVE  UNCHANGED vars
<1>1. bot' = bot
  <2>1. bot \in BotStates /\ bot.active = None /\ ledgerVol \in [Markets -> Volumes]
    BY IInvParts DEF RepairLong, Parts, GlobalTypeOK
  <2>2. PICK m \in RepairTarget :
          \/ /\ ledgerVol[m] > 0 /\ holding[m] = ledgerVol[m]
             /\ bot' = [bot EXCEPT !.vol = ledgerVol[m]]
          \/ UNCHANGED <<port, bot>>
    BY DEF RepairLong
  <2>3. m \in Markets
    BY DEF RepairTarget, LedgerMarkets, Shaped
  <2>4. CASE holding[m] = bot.vol /\ bot' = [bot EXCEPT !.vol = holding[m]]
    BY <2>1, <2>4 DEF BotStates
  <2> QED
    BY <2>1, <2>2, <2>3, <2>4, SettledFacts
<1> QED
  BY <1>1 DEF RepairLong, vars, files, venue, locals

(* A balance that is nowhere contradicts the position, so the block never  *)
(* finds it gone; and a balance in the tracked market is the volume of the *)
(* state file.                                                             *)
LEMMA ReconcileStutters ==
    ASSUME IInv, Shaped(port), ReconcileAccount
    PROVE  UNCHANGED vars
<1>1. /\ bot \in BotStates /\ bot.active = None /\ holding \in [Markets -> Volumes]
  BY IInvParts DEF ReconcileAccount, Conflict, Parts, GlobalTypeOK
<1>2. ~ReconcileGone
  <2> SUFFICES ASSUME ReconcileGone PROVE FALSE
    OBVIOUS
  <2>1. bot.vol > 0 /\ holding[port.market] = 0 /\ Elsewhere = {}
    BY DEF ReconcileGone, Gone, ReconcileAccount, Conflict
  <2> QED
    BY <1>1, <2>1, SettledFacts DEF Elsewhere
<1>3. ASSUME ReconcileVolume PROVE bot' = bot
  BY <1>1, <1>3, SettledFacts DEF ReconcileVolume, Shaped
<1>4. bot' = bot /\ legacy' = legacy
  BY <1>2, <1>3 DEF ReconcileAccount, ReconcileVolume, ReconcileCash
<1> QED
  BY <1>4 DEF ReconcileAccount, vars, files, venue, locals

----------------------------------------------------------------------------
(* Every step of the daemon is a step of the executor or none.             *)

LEMMA DaemonStepIsExecutorStep ==
    ASSUME IInv, Shaped(port), ~ManualSales, DaemonNext
    PROVE  [Next]_vars
<1>1. ASSUME NEW d \in Daemons,
             Boot(d) \/ Die(d) \/ ExecutorStep(d) \/ BookTrades(d) \/ SettleOrder(d)
      PROVE  Next
  BY <1>1 DEF Boot, Die, ExecutorStep, BookTrades, SettleOrder, Next, Execute, Reconcile
<1>2. ASSUME NEW d \in Daemons, RecoverStep(d) PROVE [Next]_vars
  <2>1. CASE AccountAdopted(d)
    BY <2>1 DEF AccountAdopted
  <2>2. CASE RecoverRaises(d) \/ AdoptBuy(d) \/ AdoptRemainder(d) \/ SaveAdopted(d)
    BY <2>2 DEF RecoverRaises, AdoptBuy, AdoptRemainder, SaveAdopted, Next
  <2> QED
    BY <1>2, <2>1, <2>2 DEF RecoverStep
<1>3. ASSUME NEW d \in Daemons, TradeStep(d) PROVE [Next]_vars
  <2>1. CASE AccountSold(d)
    BY <2>1 DEF AccountSold
  <2>2. CASE BeginSell(d) \/ BeginHalfSell(d) \/ BeginBuy(d)
    BY <2>2 DEF BeginSell, BeginHalfSell, BeginBuy, Next, Execute
  <2>3. CASE OrderFails(d) \/ FinishBuy(d) \/ FinishRemainder(d) \/ FinishHalf(d) \/ SaveSold(d)
    BY <2>3 DEF OrderFails, FinishBuy, FinishRemainder, FinishHalf, SaveSold, Next
  <2> QED
    BY <1>3, <2>1, <2>2, <2>3 DEF TradeStep
<1>4. ASSUME AccountStep PROVE UNCHANGED vars
  BY <1>4, RepairLongStutters, ReconcileStutters
     DEF AccountStep, RepairFlat, SaveRepaired, RepairRaises, SaveGone, ReconcileRefuses
<1>5. ASSUME LoopStep PROVE UNCHANGED vars
  BY <1>5 DEF LoopStep, Roll, Pending, Recover, TakeHint, Milestone, Watch, SkipManage,
              SkipEntry, Periodic
<1>6. ASSUME Environment PROVE [Next]_vars
  BY <1>6 DEF Environment, ExchangeStep, TurnDay, ReceiveHint, CooldownEnds, SellByHand, Next
<1> QED
  BY <1>1, <1>2, <1>3, <1>4, <1>5, <1>6 DEF DaemonNext

----------------------------------------------------------------------------
(* Every step keeps the portfolio in memory and the one on disk in shape.  *)

LEMMA RecoveryKeepsShape ==
    ASSUME IInv, Shape, NEW d \in Daemons, RecoverStep(d)
    PROVE  Shape'
<1> USE DEF Shape
<1>1. snap[d].market \in Markets \cup {None}
  BY IInvParts DEF Parts, LocalTypeOK, BotStates
<1>2. ASSUME RecoverRaises(d) PROVE Shape'
  BY <1>2 DEF RecoverRaises, Shaped
<1>3. ASSUME AdoptBuy(d) PROVE Shape'
  <2>1. ASSUME NEW h PROVE Shaped([Entered(port, snap[d].market, h) EXCEPT !.legacy = FALSE])
    BY <1>1, PortfolioMarkets DEF Shaped
  <2> QED
    BY <1>3, <2>1 DEF AdoptBuy, SaveUnlessFault, Shaped
<1>4. ASSUME AdoptRemainder(d) PROVE Shape'
  <2> DEFINE m == snap[d].market
             v == IF ledgerVol[m] > 0 THEN ledgerVol[m] ELSE bot.vol
             p == [port EXCEPT !.market = m, !.vol = v,
                               !.high = IF @ = "zero" THEN "near" ELSE @]
             q == [Accounted(p, m, FALSE) EXCEPT !.partial = TRUE]
  <2>1. Shaped(p)
    BY <1>1 DEF Shaped
  <2>2. Shaped(q)
    BY <1>1, <2>1, PortfolioMarkets DEF Shaped
  <2>3. port' = p \/ port' = q
    BY <1>4 DEF AdoptRemainder, SaveUnlessFault
  <2>4. disk' = disk \/ disk' = port'
    BY <1>4 DEF AdoptRemainder, SaveUnlessFault
  <2> QED
    BY <2>1, <2>2, <2>3, <2>4 DEF Shaped
<1>5. ASSUME AccountAdopted(d) PROVE Shape'
  <2>1. Shaped(Accounted(port, snap[d].market, TRUE))
    BY DEF Shaped, Accounted
  <2> QED
    BY <1>5, <2>1 DEF AccountAdopted, Shaped
<1>6. ASSUME SaveAdopted(d) PROVE Shape'
  BY <1>6 DEF SaveAdopted, Shaped, Cleared, ClearedByReconcile
<1> QED
  BY <1>2, <1>3, <1>4, <1>5, <1>6 DEF RecoverStep

LEMMA TradesKeepShape ==
    ASSUME IInv, Shape, NEW d \in Daemons, TradeStep(d)
    PROVE  Shape'
<1> USE DEF Shape
<1>1. snap[d].market \in Markets \cup {None}
  BY IInvParts DEF Parts, LocalTypeOK, BotStates
<1>2. ASSUME BeginSell(d) \/ BeginHalfSell(d) \/ BeginBuy(d) \/ OrderFails(d) PROVE Shape'
  BY <1>2 DEF BeginSell, BeginHalfSell, BeginBuy, OrderFails, Idle, Shaped
<1>3. ASSUME FinishBuy(d) PROVE Shape'
  <2>1. ASSUME NEW h PROVE Shaped([Entered(port, snap[d].market, h) EXCEPT !.partial = FALSE])
    BY <1>1, PortfolioMarkets DEF Shaped
  <2> QED
    BY <1>3, <2>1 DEF FinishBuy, Shaped
<1>4. ASSUME FinishRemainder(d) PROVE Shape'
  BY <1>4 DEF FinishRemainder, Shaped
<1>5. ASSUME FinishHalf(d) PROVE Shape'
  <2>1. Shaped([Accounted(port, snap[d].market, FALSE) EXCEPT !.vol = bot.vol, !.partial = TRUE])
    BY <1>1, PortfolioMarkets DEF Shaped
  <2> QED
    BY <1>5, <2>1 DEF FinishHalf, Shaped
<1>6. ASSUME AccountSold(d) PROVE Shape'
  <2>1. Shaped(Accounted(port, port.market, TRUE))
    BY DEF Shaped, Accounted
  <2>2. Shaped([port EXCEPT !.wins = @ + 1]) /\ Shaped([port EXCEPT !.losses = @ + 1])
    BY DEF Shaped
  <2> QED
    BY <1>6, <2>1, <2>2 DEF AccountSold, Shaped
<1>7. ASSUME SaveSold(d) PROVE Shape'
  BY <1>7 DEF SaveSold, Shaped, Cleared, ClearedByReconcile
<1> QED
  BY <1>2, <1>3, <1>4, <1>5, <1>6, <1>7 DEF TradeStep

LEMMA LoopKeepsShape ==
    ASSUME Shape, LoopStep
    PROVE  Shape'
<1>1. ASSUME Roll PROVE Shape'
  BY <1>1 DEF Roll, Shape, Shaped
<1>2. ASSUME NEW peak \in BOOLEAN, Watch(peak) PROVE Shape'
  BY <1>2 DEF Watch, Shape, Shaped
<1>3. ASSUME Pending \/ Recover \/ TakeHint \/ Milestone \/ SkipManage \/ SkipEntry \/ Periodic
      PROVE  Shape'
  BY <1>3 DEF Pending, Recover, TakeHint, Milestone, SkipManage, SkipEntry, Periodic, Idle,
              Shape, Shaped
<1> QED
  BY <1>1, <1>2, <1>3 DEF LoopStep

LEMMA AccountKeepsShape ==
    ASSUME Shape, AccountStep
    PROVE  Shape'
<1> USE DEF Shape
<1>1. ASSUME RepairLong PROVE Shape'
  <2>1. PICK m \in RepairTarget : port' = Repaired(port, m) \/ port' = port
    BY <1>1 DEF RepairLong
  <2>2. m \in Markets
    BY <1>1 DEF RepairLong, RepairTarget, LedgerMarkets, Shaped
  <2> QED
    BY <1>1, <2>1, <2>2, PortfolioMarkets DEF RepairLong, Shaped
<1>2. ASSUME RepairFlat PROVE Shape'
  <2>1. port' = port \/ (port.market # None /\ port' = Accounted(port, port.market, TRUE))
    BY <1>2 DEF RepairFlat
  <2>2. disk' = disk
    BY <1>2 DEF RepairFlat
  <2>3. Shaped(Accounted(port, port.market, TRUE))
    BY DEF Shaped, Accounted
  <2> QED
    BY <2>1, <2>2, <2>3 DEF Shaped
<1>3. ASSUME SaveRepaired PROVE Shape'
  BY <1>3 DEF SaveRepaired, Shaped, Cleared, ClearedByReconcile
<1>4. ASSUME ReconcileAccount PROVE Shape'
  <2>1. ASSUME ReconcileGone PROVE Shape'
    BY <2>1 DEF ReconcileGone, Shaped, ClearedByReconcile
  <2>2. ASSUME ReconcileVolume PROVE Shape'
    BY <2>2 DEF ReconcileVolume, SaveUnlessFault, Shaped
  <2>3. ASSUME ReconcileCash PROVE Shape'
    BY <2>3 DEF ReconcileCash, Shaped
  <2> QED
    BY <1>4, <2>1, <2>2, <2>3 DEF ReconcileAccount
<1>5. ASSUME SaveGone \/ RepairRaises \/ ReconcileRefuses PROVE Shape'
  BY <1>5 DEF SaveGone, RepairRaises, ReconcileRefuses, Shaped
<1> QED
  BY <1>1, <1>2, <1>3, <1>4, <1>5 DEF AccountStep

LEMMA StepsKeepShape ==
    ASSUME IInv, Shape, [DaemonNext]_allVars
    PROVE  Shape'
<1>1. ASSUME NEW d \in Daemons,
             Boot(d) \/ Die(d) \/ ExecutorStep(d) \/ BookTrades(d) \/ SettleOrder(d)
      PROVE  Shape'
  BY <1>1 DEF Boot, Die, ExecutorStep, BookTrades, SettleOrder, Shape, Shaped, dvars
<1>2. ASSUME Environment PROVE Shape'
  BY <1>2 DEF Environment, ExchangeStep, TurnDay, ReceiveHint, CooldownEnds, SellByHand,
              Shape, Shaped, dvars
<1>3. ASSUME UNCHANGED allVars PROVE Shape'
  BY <1>3 DEF allVars, dvars, Shape, Shaped
<1> QED
  BY <1>1, <1>2, <1>3, RecoveryKeepsShape, TradesKeepShape, LoopKeepsShape, AccountKeepsShape
     DEF DaemonNext

----------------------------------------------------------------------------
LEMMA DaemonInitHolds == DaemonInit => IInv /\ Shape
<1> SUFFICES ASSUME DaemonInit PROVE IInv /\ Shape
  OBVIOUS
<1>1. PICK m \in Markets \cup {None} : "market" \in DOMAIN port /\ port.market = m
  BY DEF DaemonInit
<1> QED
  BY <1>1, InitHolds DEF DaemonInit, Shape, Shaped

LEMMA DaemonKeeps ==
    ASSUME ~ManualSales, IInv, Shape, [DaemonNext]_allVars
    PROVE  [Next]_vars /\ IInv' /\ Shape'
<1>1. [Next]_vars
  BY DaemonStepIsExecutorStep DEF Shape, allVars
<1> QED
  BY <1>1, NextKeepsIInv, StepsKeepShape

(* The invariant of the executor holds in every state of the daemon.       *)
THEOREM DaemonInvariant == ~ManualSales /\ DaemonSpec => [](IInv /\ Shape)
<1> SUFFICES ASSUME ~ManualSales PROVE DaemonSpec => [](IInv /\ Shape)
  OBVIOUS
<1>1. IInv /\ Shape /\ [DaemonNext]_allVars => (IInv /\ Shape)'
  BY DaemonKeeps
<1> QED
  BY DaemonInitHolds, <1>1, PTL DEF DaemonSpec

(* As long as nobody sells by hand, the daemon uses the executor as the    *)
(* executor allows: no block of the loop writes anything into the state    *)
(* file that is not there (autonomous_trader.py:                           *)
(* repair_portfolio_invariant, reconcile_with_exchange).                   *)
THEOREM DaemonUsesExecutor == ~ManualSales /\ DaemonSpec => UsesExecutor
<1> SUFFICES ASSUME ~ManualSales PROVE DaemonSpec => UsesExecutor
  OBVIOUS
<1>1. IInv /\ Shape /\ [DaemonNext]_allVars => [Next]_vars
  BY DaemonKeeps
<1> QED
  BY DaemonInvariant, <1>1, PTL DEF DaemonSpec, UsesExecutor

(* So the daemon behaves as the executor alone may, and everything proved  *)
(* of the executor holds of it: whatever the loop, its repair and its      *)
(* reconciliation do between crashes, no order is orphaned and the state   *)
(* file, the ledger and the exchange agree (autonomous_trader.py: main).   *)
THEOREM DaemonImplementsExecutor == ~ManualSales /\ DaemonSpec => Spec
<1>1. DaemonInit => Init
  BY DEF DaemonInit
<1> QED
  BY <1>1, DaemonUsesExecutor, PTL DEF DaemonSpec, UsesExecutor, Spec

(* The consequence for the account (execution.py: execute,                 *)
(* _apply_terminal_fill; fill_ledger.py: append_order).                    *)
THEOREM DaemonAccountIsTrue ==
    ~ManualSales /\ DaemonSpec =>
      [](NoOrphanOrder /\ PositionMatchesExchange /\ LedgerMatchesExchange)
BY DaemonImplementsExecutor, NoOrderIsOrphaned, PositionIsTrue, LedgerIsTrue, PTL

----------------------------------------------------------------------------
(* As long as no balance or price read fails and nobody sells by hand, the *)
(* position the loop checks for an exit is the one the exchange holds,     *)
(* whatever crashes and whenever.                                          *)

(* A portfolio that tracks a market tracks the one the position is in, or  *)
(* the one the pending sell is for; a pending buy finds none tracked; and  *)
(* a position the ledger does not know is always tracked.                  *)
Tracks(p) ==
    /\ legacy => p.market # None
    /\ p.market # None =>
         /\ bot.active # None => bot.side = "ask" /\ bot.market = p.market
         /\ bot.active = None /\ bot.vol > 0 => holding[p.market] = bot.vol

Untracked == port.market = None /\ disk.market = None

(* Where the loop is between two orders.                                   *)
Between == {"reconcile", "closeRepaired", "hint", "milestone", "manage", "decide",
            "closeAdopted", "closeSold"}

(* Where a position may be one that no portfolio tracks yet: before and    *)
(* in the recovery and the repair that map it, and behind a buy.           *)
Mapping == {"off", "recover", "recovering", "repair", "buying"}

LoopHolds ==
    /\ at # "closeGone"
    /\ at \in Between => bot.active = None
    /\ at \in {"closeAdopted", "closeSold", "closeRepaired"} => bot.vol = 0
    /\ at = "off" => ~healthy
    /\ at = "recover" => back = "boot" \/ bot.active # None

(* Outside of Mapping a position is tracked.                               *)
PositionIsTracked ==
    /\ bot.active = None /\ bot.vol > 0 /\ at \notin Mapping
         /\ ~(at = "roll" /\ back = "boot") => port.market # None
    /\ at \in {"selling", "halving"} => port.market # None

(* The loop is healthy and flat only when nothing is tracked, so a buy     *)
(* never starts on top of a portfolio left over from another position.     *)
FlatIsUntracked ==
    /\ healthy /\ bot.active = None /\ bot.vol = 0
         /\ at \notin {"recovering", "closeAdopted", "selling", "halving", "closeSold"}
         => Untracked
    /\ at = "reconcile" /\ bot.vol = 0 => port.market = None
    /\ at = "buying" => Untracked

(* What a process at work in a call of the executor is there for.          *)
Drafting == {"planned", "validated", "cleared"}

AtWork(d) ==
    /\ ~Trading => pc[d] \in {"off", "caller", "settled"}
    /\ at = "recovering" =>
         /\ pc[d] \in {"off", "caller", "terminal", "ledgered", "raised", "settled"}
         /\ pc[d] \notin {"off", "settled"} => bot.active # None
    /\ at \in {"selling", "halving", "buying"} => pc[d] # "caller"
    /\ at \in {"selling", "halving"} /\ pc[d] \notin {"off", "settled"} => bot.vol > 0
    /\ at = "buying" /\ pc[d] \notin {"off", "settled"} => bot.vol = 0
    /\ at = "halving" /\ pc[d] # "off" =>
         /\ bot.vol > 0
         /\ bot.active # None => bot.want < bot.vol
         /\ pc[d] \in Drafting => plan[d].want < bot.vol
    /\ pc[d] = "settled" =>
         /\ bot.active = None
         /\ bot.vol > 0 => snap[d].market \in Markets /\ holding[snap[d].market] = bot.vol
         /\ at = "recovering" /\ snap[d].side = "bid" => Untracked

DaemonInv ==
    /\ Shape /\ faults \in Nat
    /\ Tracks(port) /\ Tracks(disk)
    /\ LoopHolds
    /\ PositionIsTracked
    /\ FlatIsUntracked
    /\ \A d \in Daemons : AtWork(d)

----------------------------------------------------------------------------
(* Steps of the loop that touch nothing of the executor.                   *)

LEMMA LoopKeepsInv ==
    ASSUME DaemonInv, Shape', LoopStep
    PROVE  DaemonInv'
<1> USE DEF DaemonInv, LoopHolds, PositionIsTracked, FlatIsUntracked, AtWork, Untracked,
            Between, Mapping, Trading, Drafting
<1>1. UNCHANGED <<bot, legacy, holding, pc, snap, plan, faults>>
  BY DEF LoopStep, Roll, Pending, Recover, TakeHint, Milestone, Watch, SkipManage,
         SkipEntry, Periodic, Idle, vars, files, venue, locals, budget
<1>2. ASSUME Roll PROVE DaemonInv'
  <2>1. port'.market = port.market /\ disk'.market \in {port.market, disk.market}
    BY <1>2 DEF Roll, Shape, Shaped
  <2> QED
    BY <1>1, <1>2, <2>1 DEF Roll, Tracks
<1>3. ASSUME NEW peak \in BOOLEAN, Watch(peak) PROVE DaemonInv'
  <2>1. port'.market = port.market /\ disk'.market \in {port.market, disk.market}
    BY <1>3 DEF Watch, Shape, Shaped
  <2> QED
    BY <1>1, <1>3, <2>1 DEF Watch, Tracks, Move
<1>4. ASSUME Milestone PROVE DaemonInv'
  BY <1>1, <1>4 DEF Milestone, Tracks, Move
<1>5. ASSUME Pending PROVE DaemonInv'
  BY <1>1, <1>5 DEF Pending, Tracks
<1>6. ASSUME Recover PROVE DaemonInv'
  BY <1>1, <1>6 DEF Recover, Tracks, Move, Raise
<1>7. ASSUME TakeHint \/ Periodic PROVE DaemonInv'
  BY <1>1, <1>7 DEF TakeHint, Periodic, Tracks
<1>8. ASSUME SkipManage \/ SkipEntry PROVE DaemonInv'
  BY <1>1, <1>8 DEF SkipManage, SkipEntry, Idle, Tracks, Move
<1> QED
  BY <1>2, <1>3, <1>4, <1>5, <1>6, <1>7, <1>8 DEF LoopStep

----------------------------------------------------------------------------
(* With nothing pending the whole position is in one market, and in the    *)
(* ledger too unless it predates it.                                       *)
LEMMA PositionFacts ==
    ASSUME IInv, bot.active = None
    PROVE  /\ bot.vol \in Volumes
           /\ \A m, n \in Markets : holding[m] > 0 /\ holding[n] > 0 => m = n
           /\ \A m \in Markets : holding[m] > 0 => holding[m] = bot.vol
           /\ bot.vol > 0 => \E m \in Markets : holding[m] = bot.vol
           /\ ~legacy => \A m \in Markets : ledgerVol[m] = holding[m]
           /\ legacy => bot.vol > 0
<1> USE IInvParts DEF Parts, GlobalTypeOK
<1>1. bot.side = None /\ bot.vol \in Volumes
  BY DEF Shared, StateIsValid, ValidState, BotStates
<1>2. HeldUnits = bot.vol
  BY <1>1, ConstantsAssumption DEF HeldUnits, Fills, Volumes
<1>3. PICK m \in Markets : holding = [n \in Markets |-> IF n = m THEN bot.vol ELSE 0]
  BY <1>2 DEF Shared, PositionMatchesExchange
<1>4. \A n \in Markets : holding[n] = IF n = m THEN bot.vol ELSE 0
  BY <1>3
<1>5. ~legacy => \A n \in Markets : ledgerVol[n] = holding[n]
  BY <1>1, ConstantsAssumption DEF Shared, LedgerLag, Lag, Volumes
<1>6. legacy => bot.vol > 0
  BY DEF Shared, LedgerLag
<1> QED
  BY <1>1, <1>4, <1>5, <1>6 DEF Volumes

----------------------------------------------------------------------------
(* Repair and reconciliation.                                              *)

(* The repair finds the market of every position: the portfolio tracks it, *)
(* or the ledger holds nothing else.                                       *)
LEMMA RepairFindsPosition ==
    ASSUME IInv, Shape, Tracks(port), bot.active = None, bot.vol > 0
    PROVE  \E m \in RepairTarget \cap Markets : holding[m] = bot.vol
<1>1. CASE port.market # None
  BY <1>1 DEF Shape, Shaped, Tracks, RepairTarget
<1>2. CASE port.market = None
  <2>1. ~legacy
    BY <1>2 DEF Tracks
  <2>2. PICK m \in Markets : holding[m] = bot.vol
    BY PositionFacts
  <2>3. LedgerMarkets = {m}
    BY <2>1, <2>2, PositionFacts DEF LedgerMarkets
  <2>4. Cardinality(LedgerMarkets) = 1
    BY <2>3, FS_Singleton
  <2> QED
    BY <1>2, <2>2, <2>3, <2>4 DEF RepairTarget
<1> QED
  BY <1>1, <1>2

LEMMA AccountKeepsInv ==
    ASSUME ~ManualSales, MaxReadFaults = 0, IInv, DaemonInv, Shape', AccountStep
    PROVE  DaemonInv'
<1> USE DEF DaemonInv, LoopHolds, PositionIsTracked, FlatIsUntracked, AtWork, Untracked,
            Between, Mapping, Trading, Drafting
<1>1. UNCHANGED vars
  BY RepairLongStutters, ReconcileStutters
     DEF AccountStep, RepairFlat, SaveRepaired, RepairRaises, SaveGone, ReconcileRefuses, Shape
<1>2. UNCHANGED <<bot, legacy, holding, pc, snap, plan>>
  BY <1>1 DEF vars, files, venue, locals
<1>3. ~ReadFault
  BY DEF ReadFault
<1>4. ASSUME RepairLong PROVE DaemonInv'
  <2>1. PICK m \in RepairTarget :
          \/ /\ ledgerVol[m] > 0 /\ holding[m] = ledgerVol[m]
             /\ port' = Repaired(port, m)
          \/ /\ ledgerVol[m] = 0 /\ port.legacy /\ port' = port
    BY <1>4 DEF RepairLong
  <2>2. m \in Markets
    BY DEF RepairTarget, LedgerMarkets, Shape, Shaped
  <2>3. port'.market # None /\ holding[port'.market] = bot.vol /\ disk' = port'
    <3>1. CASE ledgerVol[m] > 0 /\ holding[m] = ledgerVol[m] /\ port' = Repaired(port, m)
      <4>1. port'.market = m
        BY <2>2, <3>1, PortfolioMarkets DEF Shape
      <4> QED
        BY <1>4, <2>2, <3>1, <4>1, PositionFacts, ConstantsAssumption DEF RepairLong
    <3>2. CASE ledgerVol[m] = 0 /\ port' = port
      <4>1. port.market # None
        BY <2>1, <3>2 DEF RepairTarget, LedgerMarkets
      <4> QED
        BY <1>4, <3>2, <4>1 DEF RepairLong, Tracks
    <3> QED
      BY <2>1, <3>1, <3>2
  <2> QED
    BY <1>2, <1>4, <2>3 DEF RepairLong, Tracks, Move, budget
<1>5. ASSUME RepairFlat PROVE DaemonInv'
  <2>1. port'.market = port.market /\ disk' = disk /\ faults' = faults
    <3>1. Accounted(port, port.market, TRUE).market = port.market
      BY DEF Shape, Shaped, Accounted
    <3> QED
      BY <1>5, <3>1 DEF RepairFlat, budget
  <2>2. /\ at = "repair" /\ bot.active = None /\ bot.vol = 0
        /\ UNCHANGED <<back, healthy>>
        /\ \/ port.market = None /\ at' = "reconcile"
           \/ port.market # None /\ at' = "closeRepaired"
    BY <1>5 DEF RepairFlat, Move
  <2>3. ~(bot.vol > 0)
    BY <2>2
  <2> QED
    BY <1>2, <2>1, <2>2, <2>3 DEF Tracks
<1>6. ASSUME SaveRepaired PROVE DaemonInv'
  <2>1. port'.market = None /\ disk'.market = None /\ faults' = faults
    BY <1>6 DEF SaveRepaired, Shape, Shaped, Cleared, ClearedByReconcile, budget
  <2>2. ~legacy
    BY <1>6, PositionFacts DEF SaveRepaired, Move
  <2> QED
    BY <1>2, <1>6, <2>1, <2>2 DEF SaveRepaired, Tracks, Move
<1>7. ASSUME RepairRaises PROVE DaemonInv'
  <2>1. at = "repair" /\ Raise /\ UNCHANGED <<port, disk, faults>>
    BY <1>3, <1>7 DEF RepairRaises
  <2>2. bot.active = None /\ bot.vol > 0 => port.market # None
    <3> SUFFICES ASSUME bot.active = None, bot.vol > 0, port.market = None PROVE FALSE
      OBVIOUS
    <3>1. bot.vol > 0 /\ ~legacy
      BY PositionFacts DEF Volumes, Tracks
    <3>2. PICK m \in RepairTarget \cap Markets : holding[m] = bot.vol
      BY <3>1, RepairFindsPosition
    <3>3. ledgerVol[m] = holding[m]
      BY <3>1, PositionFacts
    <3> QED
      BY <1>3, <1>7, <3>1, <3>2, <3>3, PositionFacts DEF RepairRaises, Volumes
  <2> QED
    BY <1>2, <2>1, <2>2 DEF Raise, Tracks
<1>8. ASSUME ReconcileAccount PROVE DaemonInv'
  <2>1. ~ReconcileGone
    <3> SUFFICES ASSUME ReconcileGone PROVE FALSE
      OBVIOUS
    <3>1. bot' = HeldState(0) /\ bot.vol > 0
      BY DEF ReconcileGone
    <3> QED
      BY <1>2, <3>1 DEF HeldState
  <2>2. /\ Return /\ faults' = faults /\ port'.market = port.market
        /\ disk'.market = port.market /\ (bot.vol > 0 \/ port.market = None)
    <3>1. CASE ReconcileVolume
      <4>1. /\ Return /\ faults' = faults /\ disk' = port' /\ bot.vol > 0
            /\ port' = [port EXCEPT !.vol = holding[port.market]]
        BY <1>3, <3>1, Zenon DEF ReconcileVolume, SaveUnlessFault
      <4> QED
        BY <4>1 DEF Shape, Shaped
    <3>2. CASE ReconcileCash
      BY <1>8, <3>2 DEF ReconcileAccount, ReconcileCash
    <3> QED
      BY <1>8, <2>1, <3>1, <3>2 DEF ReconcileAccount
  <2> QED
    BY <1>2, <1>8, <2>2 DEF ReconcileAccount, Return, Tracks
<1>9. ASSUME SaveGone \/ ReconcileRefuses PROVE DaemonInv'
  BY <1>2, <1>3, <1>9 DEF SaveGone, ReconcileRefuses, Raise, Tracks
<1> QED
  BY <1>4, <1>5, <1>6, <1>7, <1>8, <1>9 DEF AccountStep

----------------------------------------------------------------------------
(* The processes come and go, and the world goes on.                       *)

LEMMA OffIsFine ==
    ASSUME NEW d \in Daemons, pc[d] = "off"
    PROVE  AtWork(d)
  BY DEF AtWork, Drafting

LEMMA BootKeepsInv ==
    ASSUME IInv, DaemonInv, Shape', NEW d \in Daemons, Boot(d) \/ Die(d)
    PROVE  DaemonInv'
<1>1. UNCHANGED <<bot, legacy, holding, faults>> /\ port' = disk /\ disk' = disk
  BY DEF Boot, Die, Start, Crash, files, venue, budget
<1>2. pc \in [Daemons -> Points] /\ SingleDaemon
  BY IInvParts DEF Parts, LocalTypeOK
<1>3. /\ healthy' = FALSE /\ back' = "boot"
      /\ \/ at' = "roll" /\ \A e \in Daemons : pc'[e] \in {"off", "caller"}
         \/ at' = "off" /\ \A e \in Daemons : pc'[e] = "off"
  <2>1. CASE Boot(d)
    <3>1. \A e \in Daemons : pc[e] = "off"
      BY <1>2, <2>1, ConstantsAssumption DEF Boot, Start, SingleDaemon
    <3> QED
      BY <1>2, <2>1, <3>1 DEF Boot, Start, Goto
  <2>2. CASE Die(d)
    <3>1. \A e \in Daemons : e # d => pc[e] = "off"
      BY <1>2, <2>2, OthersAreOff DEF Die, Crash
    <3> QED
      BY <1>2, <2>2, <3>1 DEF Die, Crash, Goto
  <2> QED
    BY <2>1, <2>2
<1> QED
  BY <1>1, <1>3 DEF DaemonInv, Tracks, LoopHolds, PositionIsTracked, FlatIsUntracked,
     AtWork, Between, Mapping, Trading, Drafting

LEMMA EnvironmentKeepsInv ==
    ASSUME ~ManualSales, IInv, DaemonInv, Shape', Environment
    PROVE  DaemonInv'
<1> USE DEF DaemonInv, LoopHolds, PositionIsTracked, FlatIsUntracked, AtWork, Untracked, Tracks
<1>1. ASSUME NEW i \in Ids, Exchange(i), UNCHANGED dvars PROVE DaemonInv'
  <2>1. Open(i) /\ UNCHANGED <<files, lock, pc, locals>>
    BY <1>1 DEF Exchange, Arrive, Lose, Fill, Complete, CancelRest, Open
  <2>2. bot.active # None
    BY <2>1, IInvParts, ConstantsAssumption DEF Parts, Shared, NoOrphanOrder
  <2>3. UNCHANGED <<bot, legacy, pc, snap, plan, port, disk, at, back, healthy, faults>>
    BY <1>1, <2>1 DEF files, locals, dvars, control, budget
  <2> QED
    BY <2>2, <2>3, Zenon DEF Trading
<1>2. ASSUME TurnDay \/ ReceiveHint \/ CooldownEnds PROVE DaemonInv'
  <2>1. /\ UNCHANGED <<bot, legacy, holding, pc, snap, plan>>
        /\ UNCHANGED <<port, disk, at, back, healthy, faults>>
    BY <1>2 DEF TurnDay, ReceiveHint, CooldownEnds, vars, files, venue, locals, control, budget
  <2>2. Tracks(port)' /\ Tracks(disk)'
    BY <2>1
  <2>3. LoopHolds' /\ PositionIsTracked' /\ FlatIsUntracked'
    BY <2>1
  <2>4. ASSUME NEW d \in Daemons PROVE AtWork(d)'
    BY <2>1 DEF Trading
  <2> QED
    BY <2>1, <2>2, <2>3, <2>4
<1> QED
  BY <1>1, <1>2 DEF Environment, ExchangeStep, SellByHand

----------------------------------------------------------------------------
(* Inside a call of the executor.                                          *)

LEMMA OthersKeep ==
    ASSUME IInv, NEW d \in Daemons, pc[d] # "off", NEW p \in Points, Goto(d, p)
    PROVE  \A e \in Daemons : e # d => AtWork(e)'
<1>1. \A e \in Daemons : e # d => pc'[e] = "off"
  BY IInvParts, OthersAreOff DEF Goto, Parts, LocalTypeOK
<1> QED
  BY <1>1 DEF AtWork, Drafting

(* A step that writes nothing the loop reads.                              *)
LEMMA QuietCallKeepsInv ==
    ASSUME IInv, DaemonInv, Shape', NEW d \in Daemons, Trading,
           UNCHANGED <<bot, legacy, holding, plan>>,
           UNCHANGED <<port, disk, at, back, healthy, faults>>,
           \/ Refuse(d) \/ Validate(d) \/ CheckOrderChance(d) \/ PlaceOrder(d)
           \/ Accepted(d) \/ AnswerFails(d) \/ ReadTerminal(d) \/ ReconcileRaises(d)
           \/ AppendRaises(d) \/ AppendFills(d)
    PROVE  DaemonInv'
<1> USE DEF DaemonInv
<1>1. PICK p \in Points \ {"off", "caller", "settled"} : Goto(d, p)
  BY DEF Refuse, Validate, CheckOrderChance, PlaceOrder, Accepted, AnswerFails, ReadTerminal,
         ReconcileRaises, AppendRaises, AppendFills, Points
<1>2. /\ pc[d] \notin {"off", "settled"} /\ pc'[d] = p
      /\ p \in Drafting => pc[d] \in Drafting
      /\ at = "recovering" => p \in {"terminal", "ledgered", "raised"}
  <2>1. pc \in [Daemons -> Points] /\ AtWork(d)
    BY IInvParts DEF Parts, LocalTypeOK
  <2> QED
    BY <1>1, <2>1 DEF Refuse, Validate, CheckOrderChance, PlaceOrder, Accepted, AnswerFails,
       ReadTerminal, ReconcileRaises, AppendRaises, AppendFills, Goto, Drafting, AtWork
<1>3. Tracks(port)' /\ Tracks(disk)'
  BY DEF Tracks
<1>4. LoopHolds' /\ PositionIsTracked' /\ FlatIsUntracked'
  BY DEF LoopHolds, PositionIsTracked, FlatIsUntracked, Untracked
<1>5. AtWork(d)'
  BY <1>2 DEF AtWork, Trading
<1>6. \A e \in Daemons : e # d => AtWork(e)'
  BY <1>1, <1>2, OthersKeep
<1> QED
  BY <1>3, <1>4, <1>5, <1>6

(* The write-ahead: a buy finds nothing tracked, a sell is for the market  *)
(* that is.                                                                *)
LEMMA PersistKeepsInv ==
    ASSUME IInv, DaemonInv, Shape', NEW d \in Daemons, Trading, PersistActive(d),
           UNCHANGED <<port, disk, at, back, healthy, faults>>
    PROVE  DaemonInv'
<1> USE DEF DaemonInv
<1> DEFINE p == plan[d]
<1>1. pc[d] = "cleared" /\ PointHolds(d) /\ AtWork(d) /\ pc \in [Daemons -> Points]
      /\ bot \in BotStates /\ p \in Plans /\ holding \in [Markets -> Volumes]
  BY IInvParts DEF PersistActive, Parts, PointsHold, GlobalTypeOK, LocalTypeOK
<1>2. /\ snap[d] = bot /\ PlanIsFresh(d) /\ PretradeAllows(bot, p)
      /\ p.side = "ask" => holding[p.market] >= p.want
  BY <1>1 DEF PointHolds
<1>3. at \in {"selling", "halving", "buying"} /\ bot.active = None
  BY <1>1, <1>2 DEF AtWork, Trading, PretradeAllows
<1>4. UNCHANGED <<legacy, holding, plan, snap>>
  BY DEF PersistActive, venue, locals
<1>5. PICK q \in {"armed", "raised"} :
        /\ Goto(d, q)
        /\ \/ bot' = bot
           \/ /\ bot'.vol = bot.vol /\ bot'.active = p.id /\ bot'.side = p.side
              /\ bot'.market = p.market /\ bot'.want = p.want
  BY <1>2 DEF PersistActive, ActiveState
<1>6. pc'[d] = q
  BY <1>1, <1>5 DEF Goto
<1>7. p.id # None
  BY <1>2, ConstantsAssumption DEF PlanIsFresh
<1>8. at \in {"selling", "halving"} => bot.vol > 0
  BY <1>1 DEF AtWork
<1>9. at \in {"selling", "halving"} =>
        /\ p.side = "ask"
        /\ \A m \in Markets : holding[m] = bot.vol => p.market = m
  <2> SUFFICES ASSUME bot.vol > 0
               PROVE  /\ p.side = "ask"
                      /\ \A m \in Markets : holding[m] = bot.vol => p.market = m
    BY <1>8
  <2>1. p.side = "ask" /\ p.market \in Markets /\ p.want > 0
    BY <1>2 DEF PretradeAllows, PlanIsFresh, Sides
  <2>2. holding[p.market] > 0
    BY <1>1, <1>2, <2>1 DEF Plans, Volumes
  <2> QED
    BY <1>3, <2>1, <2>2, PositionFacts
<1>10. ASSUME NEW r, Shaped(r), Tracks(r), at = "buying" => r.market = None
       PROVE  /\ legacy' => r.market # None
              /\ r.market # None =>
                   /\ bot'.active # None => bot'.side = "ask" /\ bot'.market = r.market
                   /\ bot'.active = None /\ bot'.vol > 0 => holding'[r.market] = bot'.vol
  BY <1>3, <1>4, <1>5, <1>7, <1>8, <1>9, <1>10 DEF Tracks, Shaped
<1>11. Tracks(port)' /\ Tracks(disk)'
  BY <1>10 DEF Shape, Tracks, FlatIsUntracked, Untracked
<1>12. LoopHolds' /\ PositionIsTracked' /\ FlatIsUntracked'
  BY <1>3, <1>5, <1>7 DEF LoopHolds, PositionIsTracked, FlatIsUntracked, Untracked, Between
<1>13. AtWork(d)'
  BY <1>1, <1>3, <1>4, <1>5, <1>6 DEF AtWork, Trading, Drafting
<1>14. \A e \in Daemons : e # d => AtWork(e)'
  BY <1>1, <1>5, OthersKeep DEF Points
<1> QED
  BY <1>11, <1>12, <1>13, <1>14

LEMMA MarkKeepsInv ==
    ASSUME IInv, DaemonInv, Shape', NEW d \in Daemons, Trading, MarkUntracked(d),
           UNCHANGED <<port, disk, at, back, healthy, faults>>
    PROVE  DaemonInv'
<1> USE DEF DaemonInv
<1>1. pc[d] = "ambiguous" /\ PointHolds(d) /\ AtWork(d) /\ pc \in [Daemons -> Points]
  BY IInvParts DEF MarkUntracked, Parts, PointsHold, LocalTypeOK
<1>2. bot = ActiveState(snap[d], plan[d]) /\ bot' = [bot EXCEPT !.untracked = TRUE]
  BY <1>1 DEF PointHolds, MarkUntracked
<1>3. /\ bot'.vol = bot.vol /\ bot'.active = bot.active /\ bot'.side = bot.side
      /\ bot'.market = bot.market /\ bot'.want = bot.want
  BY <1>2 DEF ActiveState
<1>4. UNCHANGED <<legacy, holding, plan, snap>> /\ Goto(d, "raised") /\ pc'[d] = "raised"
  BY <1>1 DEF MarkUntracked, venue, locals, Goto
<1>5. Tracks(port)' /\ Tracks(disk)'
  BY <1>3, <1>4 DEF Tracks
<1>6. LoopHolds' /\ PositionIsTracked' /\ FlatIsUntracked'
  BY <1>3 DEF LoopHolds, PositionIsTracked, FlatIsUntracked, Untracked
<1>7. AtWork(d)'
  BY <1>1, <1>3, <1>4 DEF AtWork, Trading, Drafting
<1>8. \A e \in Daemons : e # d => AtWork(e)'
  BY <1>1, <1>4, OthersKeep DEF Points
<1> QED
  BY <1>5, <1>6, <1>7, <1>8

(* The settled order: what it left is in its market, a buy finds nothing   *)
(* tracked, and half of a position leaves the other half.                  *)
LEMMA SaveKeepsInv ==
    ASSUME IInv, DaemonInv, Shape', NEW d \in Daemons, Trading, SaveTerminal(d),
           UNCHANGED <<port, disk, at, back, healthy, faults>>
    PROVE  DaemonInv'
<1> USE DEF DaemonInv
<1> DEFINE v == IF bot.side = "bid" THEN Fills ELSE bot.vol - Fills
<1>1. /\ pc[d] = "ledgered" /\ snap[d] = bot /\ bot \in BotStates
      /\ bot.active # None /\ bot.side \in Sides /\ bot.market \in Markets
      /\ seen[d].filled = Fills /\ FillIsConsistent(bot, seen[d]) /\ Fills \in Volumes
      /\ holding[bot.market] = v
  BY TerminalFacts DEF SaveTerminal
<1>2. pc \in [Daemons -> Points] /\ AtWork(d)
  BY IInvParts DEF Parts, LocalTypeOK
<1>3. bot'.vol = v /\ bot'.active = None
  BY <1>1 DEF SaveTerminal, AfterFill, HeldState
<1>4. /\ UNCHANGED <<holding, plan, snap>> /\ (legacy' => legacy)
      /\ Goto(d, "settled") /\ pc'[d] = "settled"
  BY <1>1, <1>2 DEF SaveTerminal, venue, locals, Goto
<1>5. at = "halving" => v > 0
  BY <1>1, <1>2, ConstantsAssumption DEF AtWork, FillIsConsistent, BotStates, Volumes, Sides
<1>6. Tracks(port)' /\ Tracks(disk)'
  BY <1>1, <1>3, <1>4 DEF Tracks
<1>7. LoopHolds' /\ PositionIsTracked' /\ FlatIsUntracked'
  BY <1>3 DEF LoopHolds, PositionIsTracked, FlatIsUntracked, Untracked, Trading, Between, Mapping
<1>8. AtWork(d)'
  <2>1. bot.side = "bid" => Untracked
    BY <1>1 DEF Tracks, Untracked
  <2> QED
    BY <1>1, <1>3, <1>4, <1>5, <2>1 DEF AtWork, Trading, Drafting, Untracked
<1>9. \A e \in Daemons : e # d => AtWork(e)'
  BY <1>1, <1>4, OthersKeep DEF Points
<1> QED
  BY <1>6, <1>7, <1>8, <1>9

LEMMA CallKeepsInv ==
    ASSUME IInv, DaemonInv, Shape', NEW d \in Daemons,
           ExecutorStep(d) \/ BookTrades(d) \/ SettleOrder(d)
    PROVE  DaemonInv'
<1>1. Trading /\ UNCHANGED <<port, disk, at, back, healthy, faults>>
  BY DEF ExecutorStep, BookTrades, SettleOrder, dvars, control, budget
<1>2. CASE \/ Refuse(d) \/ Validate(d) \/ CheckOrderChance(d) \/ PlaceOrder(d)
           \/ Accepted(d) \/ AnswerFails(d) \/ ReadTerminal(d) \/ ReconcileRaises(d)
           \/ AppendRaises(d) \/ AppendFills(d)
  <2>1. UNCHANGED <<bot, legacy, holding, plan>>
    BY <1>2 DEF Refuse, Validate, CheckOrderChance, PlaceOrder, Accepted, AnswerFails,
       ReadTerminal, ReconcileRaises, AppendRaises, AppendFills, files, venue, locals
  <2> QED
    BY <1>1, <1>2, <2>1, QuietCallKeepsInv
<1>3. CASE PersistActive(d) \/ MarkUntracked(d) \/ SaveTerminal(d)
  BY <1>1, <1>3, PersistKeepsInv, MarkKeepsInv, SaveKeepsInv
<1> QED
  BY <1>2, <1>3 DEF ExecutorStep, BookTrades, SettleOrder

----------------------------------------------------------------------------
(* After a call: what the recovery and the trades make of its outcome.     *)

(* Back in the loop, no process has anything in hand.                      *)
LEMMA BackInLoop ==
    ASSUME IInv, NEW d \in Daemons, Resume(d),
           at' \notin {"recovering", "selling", "halving", "buying"}
    PROVE  /\ UNCHANGED <<bot, legacy, holding>>
           /\ \A e \in Daemons : AtWork(e)'
<1>1. Goto(d, "caller") /\ pc[d] # "off" /\ pc \in [Daemons -> Points]
      /\ UNCHANGED <<bot, legacy, holding>>
  BY IInvParts DEF Resume, Parts, LocalTypeOK, files, venue
<1>2. \A e \in Daemons : e # d => AtWork(e)'
  BY <1>1, OthersKeep DEF Points
<1>3. AtWork(d)'
  BY <1>1 DEF Goto, AtWork, Trading, Drafting
<1> QED
  BY <1>1, <1>2, <1>3

LEMMA RecoveryKeepsInv ==
    ASSUME MaxReadFaults = 0, IInv, DaemonInv, Shape', NEW d \in Daemons, RecoverStep(d)
    PROVE  DaemonInv'
<1> USE DEF DaemonInv, LoopHolds, PositionIsTracked, FlatIsUntracked, Untracked, Between, Mapping
<1>1. AtWork(d) /\ ~ReadFault
  BY DEF ReadFault
<1>2. ASSUME RecoverRaises(d) PROVE DaemonInv'
  <2>1. at = "recovering" /\ Resume(d) /\ pc[d] = "raised" /\ Raise
        /\ UNCHANGED <<port, disk, faults>>
    BY <1>1, <1>2 DEF RecoverRaises, Resume
  <2>2. bot.active # None
    BY <1>1, <2>1 DEF AtWork
  <2>3. at' = "roll" /\ back' = "loop"
    BY <2>1 DEF Raise
  <2> QED
    BY <2>1, <2>2, <2>3, BackInLoop DEF Tracks
<1>3. ASSUME AdoptBuy(d) PROVE DaemonInv'
  <2> DEFINE m == snap[d].market
  <2>1. /\ at = "recovering" /\ pc[d] = "settled" /\ snap[d].side = "bid" /\ Resume(d)
        /\ at' = "repair" /\ UNCHANGED <<back, healthy, faults>>
    BY <1>1, <1>3 DEF AdoptBuy, Adopted, Move, SaveUnlessFault
  <2>2. bot.active = None /\ Untracked
        /\ (bot.vol > 0 => m \in Markets /\ holding[m] = bot.vol)
    BY <1>1, <2>1 DEF AtWork
  <2>3. CASE bot.vol = 0
    <3>1. UNCHANGED <<port, disk>>
      BY <1>3, <2>3 DEF AdoptBuy
    <3> QED
      BY <2>1, <2>2, <2>3, <3>1, BackInLoop DEF Tracks
  <2>4. CASE bot.vol # 0
    <3>1. bot.vol > 0 /\ m \in Markets \cup {None}
      BY <2>2, <2>4, PositionFacts DEF Volumes
    <3>2. PICK h : port' = [Entered(port, m, h) EXCEPT !.legacy = FALSE] /\ disk' = port'
      BY <1>1, <1>3, <2>4, Zenon DEF AdoptBuy, SaveUnlessFault
    <3>3. port'.market = m /\ disk'.market = m
      BY <3>1, <3>2, PortfolioMarkets DEF Shape, Shaped
    <3> QED
      BY <2>1, <2>2, <3>1, <3>3, BackInLoop, ConstantsAssumption DEF Tracks
  <2> QED
    BY <2>3, <2>4
<1>4. ASSUME AdoptRemainder(d) PROVE DaemonInv'
  <2> DEFINE m == snap[d].market
             v == IF ledgerVol[m] > 0 THEN ledgerVol[m] ELSE bot.vol
             p == [port EXCEPT !.market = m, !.vol = v,
                               !.high = IF @ = "zero" THEN "near" ELSE @]
             q == [Accounted(p, m, FALSE) EXCEPT !.partial = TRUE]
  <2>1. /\ at = "recovering" /\ pc[d] = "settled" /\ bot.vol > 0 /\ Resume(d)
        /\ faults' = faults /\ port' \in {p, q} /\ disk' \in {disk, port'}
    BY <1>1, <1>4 DEF AdoptRemainder, SaveUnlessFault
  <2>2. bot.active = None /\ m \in Markets /\ holding[m] = bot.vol
    BY <1>1, <2>1 DEF AtWork
  <2>3. port'.market = m /\ disk'.market \in {disk.market, m}
    <3>1. p.market = m /\ Shaped(p)
      BY <2>2 DEF Shape, Shaped
    <3>2. ASSUME NEW r, Shaped(r), r.market = m
          PROVE  [Accounted(r, m, FALSE) EXCEPT !.partial = TRUE].market = m
      <4>1. Shaped(Accounted(r, m, FALSE)) /\ Accounted(r, m, FALSE).market = m
        BY <3>2 DEF Shaped, Accounted
      <4> QED
        BY <4>1 DEF Shaped
    <3> HIDE DEF p
    <3>3. q.market = m
      BY <3>1, <3>2
    <3> QED
      BY <2>1, <3>1, <3>3
  <2>4. \/ at' = "repair" /\ UNCHANGED <<back, healthy>>
        \/ at' = "roll" /\ back' = "loop"
    BY <1>4 DEF AdoptRemainder, SaveUnlessFault, Adopted, Move, Raise
  <2> QED
    BY <2>1, <2>2, <2>3, <2>4, BackInLoop, ConstantsAssumption DEF Tracks
<1>5. ASSUME AccountAdopted(d) PROVE DaemonInv'
  <2>1. /\ at = "recovering" /\ pc[d] = "settled" /\ bot.vol = 0 /\ at' = "closeAdopted"
        /\ UNCHANGED <<back, healthy, faults, disk, bot, legacy, holding, pc, snap>>
    BY <1>5 DEF AccountAdopted, Move, vars, files, venue, locals, budget
  <2>2. port'.market = port.market
    <3>1. Accounted(port, snap[d].market, TRUE).market = port.market
      BY DEF Shape, Shaped, Accounted
    <3> QED
      BY <1>5, <3>1 DEF AccountAdopted
  <2>3. bot.active = None /\ ~(bot.vol > 0)
    BY <1>1, <2>1 DEF AtWork
  <2>4. ASSUME NEW e \in Daemons PROVE AtWork(e)'
    BY <1>1, <2>1, <2>3, IInvParts, OthersAreOff DEF AtWork, Trading, Drafting, Parts
  <2> QED
    BY <2>1, <2>2, <2>3, <2>4 DEF Tracks
<1>6. ASSUME SaveAdopted(d) PROVE DaemonInv'
  <2>1. /\ at = "closeAdopted" /\ at' = "repair" /\ Resume(d)
        /\ UNCHANGED <<back, healthy, faults>>
        /\ port'.market = None /\ disk'.market = None
    BY <1>6 DEF SaveAdopted, Move, Shape, Shaped, Cleared, ClearedByReconcile, budget
  <2>2. bot.active = None /\ bot.vol = 0 /\ ~(bot.vol > 0) /\ ~legacy
    BY <2>1, PositionFacts
  <2> QED
    BY <2>1, <2>2, BackInLoop DEF Tracks
<1> QED
  BY <1>2, <1>3, <1>4, <1>5, <1>6 DEF RecoverStep

(* A trade is begun on what the loop sees: a sell on a tracked position, a *)
(* buy when nothing is held or tracked.                                    *)
LEMMA BeginKeepsInv ==
    ASSUME IInv, DaemonInv, Shape', NEW d \in Daemons,
           BeginSell(d) \/ BeginHalfSell(d) \/ BeginBuy(d)
    PROVE  DaemonInv'
<1> USE DEF DaemonInv
<1>1. /\ pc[d] = "caller" /\ Goto(d, "planned") /\ pc \in [Daemons -> Points]
      /\ UNCHANGED <<bot, legacy, holding, port, disk, back, healthy, faults>>
  BY IInvParts DEF BeginSell, BeginHalfSell, BeginBuy, PlanExecution, Move, Idle, files, venue,
     budget, Parts, LocalTypeOK
<1>2. bot.vol > 0 <=> plan'[d].side = "ask"
  <2>1. plan \in [Daemons -> Plans] /\ bot.vol \in Volumes
    BY IInvParts DEF Parts, LocalTypeOK, GlobalTypeOK, BotStates
  <2>2. plan'[d].side = IF bot.vol = 0 THEN "bid" ELSE "ask"
    BY <2>1 DEF BeginSell, BeginHalfSell, BeginBuy, PlanExecution
  <2> QED
    BY <2>1, <2>2 DEF Volumes
<1>3. /\ bot.active = None
      /\ \/ at = "decide" /\ at' \in {"selling", "halving"} /\ bot.vol > 0
         \/ at = "entry" /\ at' = "buying" /\ healthy /\ bot.vol = 0
  <2>1. CASE BeginSell(d) \/ BeginHalfSell(d)
    BY <1>2, <2>1 DEF BeginSell, BeginHalfSell, Move, LoopHolds, Between
  <2>2. CASE BeginBuy(d)
    BY <2>2 DEF BeginBuy, Move
  <2> QED
    BY <2>1, <2>2
<1>4. at' = "halving" => plan'[d].want < bot.vol
  <2> SUFFICES ASSUME at' = "halving" PROVE plan'[d].want < bot.vol
    OBVIOUS
  <2>1. plan'[d].want = bot.vol \div 2
    BY DEF BeginSell, BeginHalfSell, BeginBuy, Move
  <2>2. bot.vol > 0 /\ bot.vol \in Nat
    BY <1>3, PositionFacts, ConstantsAssumption DEF Volumes
  <2> QED
    BY <2>1, <2>2
<1>5. Tracks(port)' /\ Tracks(disk)'
  BY <1>1 DEF Tracks
<1>6. LoopHolds' /\ PositionIsTracked' /\ FlatIsUntracked'
  BY <1>1, <1>3 DEF LoopHolds, PositionIsTracked, FlatIsUntracked, Untracked, Between, Mapping
<1>7. AtWork(d)'
  BY <1>1, <1>3, <1>4 DEF AtWork, Trading, Goto
<1>8. \A e \in Daemons : e # d => AtWork(e)'
  BY <1>1, OthersKeep DEF Points
<1> QED
  BY <1>1, <1>5, <1>6, <1>7, <1>8

LEMMA TradesKeepInv ==
    ASSUME MaxReadFaults = 0, IInv, DaemonInv, Shape', NEW d \in Daemons, TradeStep(d)
    PROVE  DaemonInv'
<1> USE DEF DaemonInv, LoopHolds, PositionIsTracked, FlatIsUntracked, Untracked, Between, Mapping
<1>1. AtWork(d) /\ ~ReadFault
  BY DEF ReadFault
<1>2. ASSUME OrderFails(d) PROVE DaemonInv'
  <2>1. /\ at \in {"selling", "halving", "buying"} /\ Resume(d) /\ pc[d] = "raised"
        /\ at' \in {"entry", "periodic"}
        /\ UNCHANGED <<port, disk, back, healthy, faults>>
    BY <1>1, <1>2 DEF OrderFails, AfterOrder
  <2>2. \/ at \in {"selling", "halving"} /\ bot.vol > 0 /\ bot.vol # 0
        \/ at = "buying" /\ bot.vol = 0 /\ ~(bot.vol > 0)
    BY <1>1, <2>1 DEF AtWork
  <2> QED
    BY <2>1, <2>2, BackInLoop DEF Tracks
<1>3. ASSUME FinishBuy(d) PROVE DaemonInv'
  <2> DEFINE m == snap[d].market
  <2>1. /\ at = "buying" /\ pc[d] = "settled" /\ Resume(d) /\ at' = "periodic"
        /\ UNCHANGED <<back, healthy, faults>>
    BY <1>3 DEF FinishBuy, Move, budget
  <2>2. bot.active = None /\ Untracked
        /\ (bot.vol > 0 => m \in Markets /\ holding[m] = bot.vol)
    BY <1>1, <2>1 DEF AtWork
  <2>3. CASE bot.vol = 0
    <3>1. UNCHANGED <<port, disk>>
      BY <1>3, <2>3 DEF FinishBuy
    <3> QED
      BY <2>1, <2>2, <2>3, <3>1, BackInLoop DEF Tracks
  <2>4. CASE bot.vol # 0
    <3>1. bot.vol > 0 /\ m \in Markets \cup {None}
      BY <2>2, <2>4, PositionFacts DEF Volumes
    <3>2. holding[m] = ledgerVol[m]
      BY <2>2, <3>1, PositionFacts DEF Tracks
    <3>3. PICK h : port' = [Entered(port, m, h) EXCEPT !.partial = FALSE] /\ disk' = port'
      BY <1>3, <2>4, <3>2 DEF FinishBuy
    <3>4. port'.market = m /\ disk'.market = m
      <4>1. Shaped(Entered(port, m, h)) /\ Entered(port, m, h).market = m
        BY <3>1 DEF Shape, Shaped, Entered
      <4> QED
        BY <3>3, <4>1 DEF Shaped
    <3> QED
      BY <2>1, <2>2, <3>1, <3>4, BackInLoop, ConstantsAssumption DEF Tracks
  <2> QED
    BY <2>3, <2>4
<1>4. ASSUME FinishRemainder(d) \/ FinishHalf(d) PROVE DaemonInv'
  <2>1. /\ at \in {"selling", "halving"} /\ pc[d] = "settled" /\ Resume(d) /\ at' = "entry"
        /\ UNCHANGED <<back, healthy, faults>>
    BY <1>4 DEF FinishRemainder, FinishHalf, Move, budget
  <2>2. bot.active = None /\ bot.vol > 0
    BY <1>1, <1>4, <2>1 DEF AtWork, FinishRemainder, FinishHalf, Move
  <2>3. port'.market = port.market /\ disk'.market \in {port.market, disk.market}
    <3>1. [port EXCEPT !.vol = bot.vol].market = port.market
      BY DEF Shape, Shaped
    <3>2. [Accounted(port, snap[d].market, FALSE) EXCEPT !.vol = bot.vol, !.partial = TRUE].market
            = port.market
      <4>1. /\ Shaped(Accounted(port, snap[d].market, FALSE))
            /\ Accounted(port, snap[d].market, FALSE).market = port.market
        BY DEF Shape, Shaped, Accounted
      <4> QED
        BY <4>1 DEF Shaped
    <3> QED
      BY <1>4, <3>1, <3>2 DEF FinishRemainder, FinishHalf
  <2> QED
    BY <2>1, <2>2, <2>3, BackInLoop DEF Tracks
<1>5. ASSUME AccountSold(d) PROVE DaemonInv'
  <2>1. /\ at = "selling" /\ pc[d] = "settled" /\ bot.vol = 0 /\ at' = "closeSold"
        /\ UNCHANGED <<back, healthy, faults, disk, bot, legacy, holding, pc, snap>>
    BY <1>5 DEF AccountSold, Move, vars, files, venue, locals, budget
  <2>2. port'.market = port.market
    <3>1. Accounted(port, port.market, TRUE).market = port.market
      BY DEF Shape, Shaped, Accounted
    <3>2. /\ [port EXCEPT !.wins = @ + 1].market = port.market
          /\ [port EXCEPT !.losses = @ + 1].market = port.market
      BY DEF Shape, Shaped
    <3> QED
      BY <1>5, <3>1, <3>2 DEF AccountSold
  <2>3. bot.active = None /\ ~(bot.vol > 0)
    BY <1>1, <2>1 DEF AtWork
  <2>4. ASSUME NEW e \in Daemons PROVE AtWork(e)'
    BY <1>1, <2>1, <2>3, IInvParts, OthersAreOff DEF AtWork, Trading, Drafting, Parts
  <2> QED
    BY <2>1, <2>2, <2>3, <2>4 DEF Tracks
<1>6. ASSUME SaveSold(d) PROVE DaemonInv'
  <2>1. /\ at = "closeSold" /\ at' = "entry" /\ Resume(d)
        /\ UNCHANGED <<back, healthy, faults>>
        /\ port'.market = None /\ disk'.market = None
    BY <1>6 DEF SaveSold, Move, Shape, Shaped, Cleared, ClearedByReconcile, budget
  <2>2. bot.active = None /\ bot.vol = 0 /\ ~(bot.vol > 0) /\ ~legacy
    BY <2>1, PositionFacts
  <2> QED
    BY <2>1, <2>2, BackInLoop DEF Tracks
<1> QED
  BY <1>2, <1>3, <1>4, <1>5, <1>6, BeginKeepsInv DEF TradeStep

----------------------------------------------------------------------------
LEMMA DaemonInvHolds == DaemonInit => DaemonInv
<1> SUFFICES ASSUME DaemonInit PROVE DaemonInv
  OBVIOUS
<1>1. IInv /\ Shape
  BY DaemonInitHolds
<1>2. PICK m \in Markets \cup {None} :
        /\ m = None <=> bot.vol = 0
        /\ m # None => holding[m] > 0
        /\ port.market = m
  BY DEF DaemonInit
<1>3. /\ bot.active = None /\ disk = port /\ faults = 0
      /\ at = "off" /\ back = "boot" /\ healthy = FALSE
      /\ \A d \in Daemons : pc[d] = "off"
  BY DEF DaemonInit, Init, HeldState
<1>4. Tracks(port) /\ Tracks(disk)
  BY <1>1, <1>2, <1>3, PositionFacts DEF Tracks
<1>5. LoopHolds /\ PositionIsTracked /\ FlatIsUntracked
  BY <1>3 DEF LoopHolds, PositionIsTracked, FlatIsUntracked, Between, Mapping
<1>6. \A d \in Daemons : AtWork(d)
  BY <1>3, OffIsFine
<1> QED
  BY <1>1, <1>3, <1>4, <1>5, <1>6 DEF DaemonInv

LEMMA DaemonInvKept ==
    ASSUME ~ManualSales, MaxReadFaults = 0, IInv, DaemonInv, [DaemonNext]_allVars
    PROVE  IInv' /\ DaemonInv'
<1>1. IInv' /\ Shape'
  BY DaemonKeeps DEF DaemonInv
<1>2. CASE DaemonNext
  BY <1>1, <1>2, BootKeepsInv, CallKeepsInv, RecoveryKeepsInv, TradesKeepInv,
     AccountKeepsInv, LoopKeepsInv, EnvironmentKeepsInv DEF DaemonNext
<1>3. CASE UNCHANGED allVars
  <2>1. /\ UNCHANGED <<bot, legacy, holding, pc, snap, plan>>
        /\ UNCHANGED <<port, disk, at, back, healthy, faults>>
    BY <1>3 DEF allVars, vars, files, venue, locals, dvars, control, budget
  <2>2. Tracks(port)' /\ Tracks(disk)'
    BY <2>1 DEF DaemonInv, Tracks
  <2>3. LoopHolds' /\ PositionIsTracked' /\ FlatIsUntracked'
    BY <2>1 DEF DaemonInv, LoopHolds, PositionIsTracked, FlatIsUntracked, Untracked
  <2>4. ASSUME NEW d \in Daemons PROVE AtWork(d)'
    BY <2>1 DEF DaemonInv, AtWork, Trading, Untracked
  <2> QED
    BY <1>1, <2>1, <2>2, <2>3, <2>4 DEF DaemonInv
<1> QED
  BY <1>2, <1>3

(* Whatever crashes, is lost or arrives late, the position the loop checks *)
(* for an exit is the one the exchange holds, and the repair maps every    *)
(* settled position to its market (autonomous_trader.py: main, MANAGE      *)
(* ACTIVE POSITION; repair_portfolio_invariant).                           *)
THEOREM DaemonManagesWhatItHolds ==
    ~ManualSales /\ MaxReadFaults = 0 /\ DaemonSpec => []ManagesWhatItHolds
<1> SUFFICES ASSUME ~ManualSales, MaxReadFaults = 0
             PROVE  DaemonSpec => []ManagesWhatItHolds
  OBVIOUS
<1>1. IInv /\ DaemonInv /\ [DaemonNext]_allVars => (IInv /\ DaemonInv)'
  BY DaemonInvKept
<1>2. DaemonInit => IInv /\ DaemonInv
  BY DaemonInitHolds, DaemonInvHolds
<1>3. ASSUME IInv, DaemonInv PROVE ManagesWhatItHolds
  <2> SUFFICES ASSUME bot.vol > 0
               PROVE  /\ at = "manage" => port.market # None /\ holding[port.market] = bot.vol
                      /\ at = "repair" /\ bot.active = None =>
                           \E m \in RepairTarget : holding[m] = bot.vol
    BY DEF ManagesWhatItHolds
  <2>1. ASSUME at = "manage" PROVE port.market # None /\ holding[port.market] = bot.vol
    BY <1>3, <2>1 DEF DaemonInv, LoopHolds, PositionIsTracked, Tracks, Between, Mapping
  <2>2. ASSUME at = "repair", bot.active = None
        PROVE  \E m \in RepairTarget : holding[m] = bot.vol
    BY <1>3, <2>2, RepairFindsPosition DEF DaemonInv
  <2> QED
    BY <2>1, <2>2
<1> QED
  BY <1>1, <1>2, <1>3, PTL DEF DaemonSpec

----------------------------------------------------------------------------
(* Under the same conditions no position is sold at a break-even stop its  *)
(* own price has not earned.                                               *)

(* A portfolio that tracks nothing keeps no peak and no lock, and a peak   *)
(* 1% above the entry, or a lock, was earned (e) by the tracked position.  *)
Earns(p, e) ==
    /\ Shaped(p) /\ "high" \in DOMAIN p /\ "locked" \in DOMAIN p
    /\ p.market = None => p.high = "zero" /\ ~p.locked
    /\ p.locked \/ p.high = "above" => e

LocksAreEarned == Earns(port, earned) /\ Earns(disk, earned)

(* An exit forgets peak and lock, an entry begins with neither, and what   *)
(* is done to a portfolio in between keeps both.                           *)
LEMMA PortfolioLocks ==
    ASSUME NEW p, NEW e, Earns(p, e), NEW m, NEW terminal
    PROVE  /\ Earns(Accounted(p, m, terminal), e)
           /\ Earns(Cleared(p), e)
           /\ Accounted(p, m, terminal).market = p.market
<1>1. Earns(Accounted(p, m, terminal), e) /\ Accounted(p, m, terminal).market = p.market
  BY DEF Earns, Shaped, Accounted
<1>2. Earns(Cleared(p), e)
  BY DEF Earns, Shaped, Cleared, ClearedByReconcile
<1> QED
  BY <1>1, <1>2

LEMMA TrackedLocks ==
    ASSUME NEW p, NEW e, Earns(p, e), NEW m \in Markets
    PROVE  /\ Earns(Repaired(p, m), e)
           /\ \A h \in HighAtEntry(p) : p.market = None => Earns(Entered(p, m, h), e)
<1>1. m # None
  BY ConstantsAssumption
<1>2. Earns(Repaired(p, m), e)
  <2> DEFINE q == IF ledgerVol[m] < p.vol THEN Accounted(p, m, FALSE) ELSE p
  <2>1. Earns(q, e)
    BY PortfolioLocks
  <2> HIDE DEF q
  <2>2. Repaired(p, m) =
          [q EXCEPT !.market = m, !.vol = ledgerVol[m],
                    !.high = IF @ = "zero" THEN "near" ELSE @,
                    !.legacy = FALSE, !.partial = @ \/ (ledgerVol[m] < p.vol),
                    !.baseline = IF p.stamped THEN @ ELSE gains[m],
                    !.stamped = TRUE, !.eligible = Eligible(bot.policy)]
    BY DEF Repaired, q
  <2> QED
    BY <1>1, <2>1, <2>2 DEF Earns, Shaped
<1>3. ASSUME NEW h \in HighAtEntry(p), p.market = None PROVE Earns(Entered(p, m, h), e)
  BY <1>1, <1>3 DEF Earns, Shaped, HighAtEntry, Entered
<1> QED
  BY <1>2, <1>3

LEMMA RecoveryKeepsLocks ==
    ASSUME IInv, DaemonInv, LocksAreEarned, NEW d \in Daemons, RecoverStep(d)
    PROVE  LocksAreEarned'
<1> USE DEF LocksAreEarned
<1>1. earned' = earned /\ AtWork(d)
  BY DEF RecoverStep, RecoverRaises, AdoptBuy, AdoptRemainder, AccountAdopted, SaveAdopted,
     history, DaemonInv
<1>2. ASSUME RecoverRaises(d) PROVE LocksAreEarned'
  BY <1>1, <1>2 DEF RecoverRaises
<1>3. ASSUME AdoptBuy(d) PROVE LocksAreEarned'
  <2> DEFINE m == snap[d].market
  <2>1. port.market = None
    BY <1>1, <1>3 DEF AdoptBuy, AtWork, Untracked
  <2>2. CASE bot.vol = 0
    BY <1>1, <1>3, <2>2 DEF AdoptBuy
  <2>3. CASE bot.vol # 0
    <3>1. PICK h \in HighAtEntry(port) :
            /\ port' = [Entered(port, m, h) EXCEPT !.legacy = FALSE]
            /\ disk' = disk \/ disk' = port'
      BY <1>3, <2>3, Zenon DEF AdoptBuy, SaveUnlessFault
    <3>2. m \in Markets
      <4>1. bot.active = None /\ (bot.vol > 0 => m \in Markets)
        BY <1>1, <1>3 DEF AdoptBuy, AtWork
      <4> QED
        BY <2>3, <4>1, PositionFacts DEF Volumes
    <3>3. Earns(Entered(port, m, h), earned)
      BY <2>1, <3>2, TrackedLocks
    <3>4. Earns(port', earned)
      BY <3>1, <3>3 DEF Earns, Shaped
    <3> QED
      BY <1>1, <3>1, <3>4
  <2> QED
    BY <2>2, <2>3
<1>4. ASSUME AdoptRemainder(d) PROVE LocksAreEarned'
  <2> DEFINE m == snap[d].market
             v == IF ledgerVol[m] > 0 THEN ledgerVol[m] ELSE bot.vol
             p == [port EXCEPT !.market = m, !.vol = v,
                               !.high = IF @ = "zero" THEN "near" ELSE @]
             q == [Accounted(p, m, FALSE) EXCEPT !.partial = TRUE]
  <2>1. port' \in {p, q} /\ disk' \in {disk, port'}
    BY <1>4 DEF AdoptRemainder, SaveUnlessFault
  <2>2. m \in Markets /\ m # None
    BY <1>1, <1>4, ConstantsAssumption DEF AdoptRemainder, AtWork
  <2>3. Earns(p, earned)
    BY <2>2 DEF Earns, Shaped
  <2> HIDE DEF p
  <2>4. Earns(q, earned)
    <3>1. Earns(Accounted(p, m, FALSE), earned)
      BY <2>3, PortfolioLocks
    <3> QED
      BY <3>1 DEF Earns, Shaped
  <2> QED
    BY <1>1, <2>1, <2>3, <2>4
<1>5. ASSUME AccountAdopted(d) PROVE LocksAreEarned'
  BY <1>1, <1>5, PortfolioLocks DEF AccountAdopted
<1>6. ASSUME SaveAdopted(d) PROVE LocksAreEarned'
  BY <1>1, <1>6, PortfolioLocks DEF SaveAdopted
<1> QED
  BY <1>2, <1>3, <1>4, <1>5, <1>6 DEF RecoverStep

LEMMA TradesKeepLocks ==
    ASSUME DaemonInv, LocksAreEarned, NEW d \in Daemons, TradeStep(d)
    PROVE  LocksAreEarned'
<1> USE DEF LocksAreEarned
<1>1. earned' = earned /\ AtWork(d)
  BY DEF TradeStep, BeginSell, BeginHalfSell, BeginBuy, OrderFails, FinishBuy, FinishRemainder,
     FinishHalf, AccountSold, SaveSold, Idle, history, DaemonInv
<1>2. ASSUME BeginSell(d) \/ BeginHalfSell(d) \/ BeginBuy(d) \/ OrderFails(d)
      PROVE  LocksAreEarned'
  BY <1>1, <1>2 DEF BeginSell, BeginHalfSell, BeginBuy, OrderFails, Idle
<1>3. ASSUME FinishBuy(d) PROVE LocksAreEarned'
  <2> DEFINE m == snap[d].market
  <2>1. port.market = None
    BY <1>3 DEF FinishBuy, Move, DaemonInv, FlatIsUntracked, Untracked
  <2>2. CASE UNCHANGED <<port, disk>>
    BY <1>1, <2>2
  <2>3. CASE ~UNCHANGED <<port, disk>>
    <3>1. PICK h \in HighAtEntry(port) :
            port' = [Entered(port, m, h) EXCEPT !.partial = FALSE]
      BY <1>3, <2>3, Zenon DEF FinishBuy
    <3>2. m \in Markets /\ disk' = port'
      BY <1>1, <1>3, <2>3 DEF FinishBuy, AtWork
    <3>3. Earns(Entered(port, m, h), earned)
      BY <2>1, <3>2, TrackedLocks
    <3>4. Earns(port', earned)
      BY <3>1, <3>3 DEF Earns, Shaped
    <3> QED
      BY <1>1, <3>2, <3>4
  <2> QED
    BY <2>2, <2>3
<1>4. ASSUME FinishRemainder(d) PROVE LocksAreEarned'
  <2>1. Earns([port EXCEPT !.vol = bot.vol], earned)
    BY DEF Earns, Shaped
  <2> QED
    BY <1>1, <1>4, <2>1 DEF FinishRemainder
<1>5. ASSUME FinishHalf(d) PROVE LocksAreEarned'
  <2>1. Earns(Accounted(port, snap[d].market, FALSE), earned)
    BY PortfolioLocks
  <2>2. Earns([Accounted(port, snap[d].market, FALSE) EXCEPT !.vol = bot.vol, !.partial = TRUE],
              earned)
    BY <2>1 DEF Earns, Shaped
  <2> QED
    BY <1>1, <1>5, <2>2 DEF FinishHalf
<1>6. ASSUME AccountSold(d) PROVE LocksAreEarned'
  <2>1. /\ Earns(Accounted(port, port.market, TRUE), earned)
        /\ Earns([port EXCEPT !.wins = @ + 1], earned)
        /\ Earns([port EXCEPT !.losses = @ + 1], earned)
    BY PortfolioLocks DEF Earns, Shaped
  <2> QED
    BY <1>1, <1>6, <2>1 DEF AccountSold
<1>7. ASSUME SaveSold(d) PROVE LocksAreEarned'
  BY <1>1, <1>7, PortfolioLocks DEF SaveSold
<1> QED
  BY <1>2, <1>3, <1>4, <1>5, <1>6, <1>7 DEF TradeStep

LEMMA AccountKeepsLocks ==
    ASSUME ~ManualSales, IInv, DaemonInv, LocksAreEarned, AccountStep
    PROVE  LocksAreEarned'
<1> USE DEF LocksAreEarned
<1>1. earned' = earned /\ Shape
  BY DEF AccountStep, RepairLong, RepairFlat, SaveRepaired, RepairRaises, ReconcileAccount,
     SaveGone, ReconcileRefuses, history, DaemonInv
<1>2. ASSUME RepairLong PROVE LocksAreEarned'
  <2>1. PICK m \in RepairTarget : port' = Repaired(port, m) \/ port' = port
    BY <1>2 DEF RepairLong
  <2>2. m \in Markets
    BY <1>1 DEF RepairTarget, LedgerMarkets, Shape, Shaped
  <2> QED
    BY <1>1, <1>2, <2>1, <2>2, TrackedLocks DEF RepairLong
<1>3. ASSUME RepairFlat PROVE LocksAreEarned'
  <2>1. disk' = disk /\ (port' = port \/ port' = Accounted(port, port.market, TRUE))
    BY <1>3, Zenon DEF RepairFlat
  <2>2. Earns(Accounted(port, port.market, TRUE), earned)
    BY PortfolioLocks
  <2> QED
    BY <1>1, <2>1, <2>2
<1>4. ASSUME SaveRepaired PROVE LocksAreEarned'
  BY <1>1, <1>4, PortfolioLocks DEF SaveRepaired
<1>5. ASSUME ReconcileAccount PROVE LocksAreEarned'
  <2>1. ~ReconcileGone
    <3> SUFFICES ASSUME ReconcileGone PROVE FALSE
      OBVIOUS
    <3>1. bot' = HeldState(0) /\ bot.vol > 0
      BY DEF ReconcileGone
    <3>2. bot' = bot
      BY <1>1, <1>5, ReconcileStutters DEF Shape, vars, files
    <3> QED
      BY <3>1, <3>2 DEF HeldState
  <2>2. CASE ReconcileVolume
    <3>1. /\ port' = [port EXCEPT !.vol = holding[port.market]]
          /\ disk' = disk \/ disk' = port'
      BY <2>2, Zenon DEF ReconcileVolume, SaveUnlessFault
    <3>2. Earns(port', earned)
      BY <3>1 DEF Earns, Shaped
    <3> QED
      BY <1>1, <3>1, <3>2
  <2>3. CASE ReconcileCash
    BY <1>1, <2>3 DEF ReconcileCash
  <2> QED
    BY <1>5, <2>1, <2>2, <2>3 DEF ReconcileAccount
<1>6. ASSUME RepairRaises \/ SaveGone \/ ReconcileRefuses PROVE LocksAreEarned'
  BY <1>1, <1>6 DEF RepairRaises, SaveGone, ReconcileRefuses
<1> QED
  BY <1>2, <1>3, <1>4, <1>5, <1>6 DEF AccountStep

(* Only the position check locks, and it sees the peak that earns it.      *)
LEMMA LoopKeepsLocks ==
    ASSUME LocksAreEarned, LoopStep
    PROVE  LocksAreEarned'
<1> USE DEF LocksAreEarned
<1>1. ASSUME Roll PROVE LocksAreEarned'
  <2>1. Earns([port EXCEPT !.entries = 0], earned)
    BY DEF Earns, Shaped
  <2> QED
    BY <1>1, <2>1 DEF Roll
<1>2. ASSUME NEW peak \in BOOLEAN, Watch(peak) PROVE LocksAreEarned'
  <2> DEFINE high == IF peak THEN "above" ELSE port.high
  <2>1. /\ port.market # None /\ earned' = (earned \/ peak)
        /\ port' = [port EXCEPT !.high = high, !.locked = @ \/ high = "above"]
        /\ disk' = disk \/ disk' = port'
    BY <1>2 DEF Watch
  <2>2. Earns(port', earned')
    BY <2>1 DEF Earns, Shaped
  <2>3. Earns(disk, earned')
    BY <2>1 DEF Earns
  <2> QED
    BY <2>1, <2>2, <2>3
<1>3. ASSUME Pending \/ Recover \/ TakeHint \/ Milestone \/ SkipManage \/ SkipEntry \/ Periodic
      PROVE  LocksAreEarned'
  BY <1>3 DEF Pending, Recover, TakeHint, Milestone, SkipManage, SkipEntry, Periodic, Idle, history
<1> QED
  BY <1>1, <1>2, <1>3 DEF LoopStep

(* A settled buy begins a position that has earned nothing yet: no         *)
(* portfolio tracks one, so none is locked.                                *)
LEMMA SettlingKeepsLocks ==
    ASSUME IInv, DaemonInv, LocksAreEarned, NEW d \in Daemons, SettleOrder(d)
    PROVE  LocksAreEarned'
<1>1. snap[d] = bot /\ bot.active # None
  BY TerminalFacts DEF SettleOrder, SaveTerminal
<1>2. UNCHANGED <<port, disk>> /\ (snap[d].side # "bid" => (earned' <=> earned))
  BY DEF SettleOrder
<1>3. CASE snap[d].side = "bid"
  <2>1. Untracked
    BY <1>1, <1>3 DEF DaemonInv, Tracks, Untracked
  <2> QED
    BY <1>2, <2>1 DEF LocksAreEarned, Earns, Untracked
<1>4. CASE snap[d].side # "bid"
  BY <1>2, <1>4 DEF LocksAreEarned, Earns
<1> QED
  BY <1>2, <1>3, <1>4

LEMMA LocksKept ==
    ASSUME ~ManualSales, IInv, DaemonInv, LocksAreEarned, [DaemonNext]_allVars
    PROVE  LocksAreEarned'
<1>1. ASSUME NEW d \in Daemons, Boot(d) \/ Die(d) \/ ExecutorStep(d) \/ BookTrades(d)
      PROVE  LocksAreEarned'
  BY <1>1 DEF Boot, Die, ExecutorStep, BookTrades, dvars, history, LocksAreEarned
<1>2. ASSUME Environment \/ UNCHANGED allVars PROVE LocksAreEarned'
  BY <1>2 DEF Environment, ExchangeStep, TurnDay, ReceiveHint, CooldownEnds, SellByHand,
     allVars, dvars, history, LocksAreEarned
<1> QED
  BY <1>1, <1>2, RecoveryKeepsLocks, TradesKeepLocks, AccountKeepsLocks, LoopKeepsLocks,
     SettlingKeepsLocks DEF DaemonNext

(* An exit is decided against a break-even stop only when the price of     *)
(* this very position did gain 1%, whatever crashes in between             *)
(* (autonomous_trader.py: BREAKEVEN_ACTIVATE_PCT, breakeven_locked).       *)
THEOREM BreakEvenIsEarned ==
    ~ManualSales /\ MaxReadFaults = 0 /\ DaemonSpec => []LockIsEarned
<1> SUFFICES ASSUME ~ManualSales, MaxReadFaults = 0
             PROVE  DaemonSpec => []LockIsEarned
  OBVIOUS
<1>1. DaemonInit => IInv /\ DaemonInv /\ LocksAreEarned
  <2> SUFFICES ASSUME DaemonInit PROVE LocksAreEarned
    BY DaemonInitHolds, DaemonInvHolds
  <2>1. Shaped(port) /\ disk = port
    BY DaemonInitHolds DEF Shape, DaemonInit
  <2>2. /\ "high" \in DOMAIN port /\ "locked" \in DOMAIN port /\ ~port.locked
        /\ port.high \in {"zero", "near"}
        /\ port.market = None => port.high = "zero"
    BY ConstantsAssumption DEF DaemonInit, Init, HeldState, Volumes
  <2> QED
    BY <2>1, <2>2 DEF LocksAreEarned, Earns
<1>2. IInv /\ DaemonInv /\ LocksAreEarned /\ [DaemonNext]_allVars
        => (IInv /\ DaemonInv /\ LocksAreEarned)'
  BY DaemonInvKept, LocksKept
<1>3. LocksAreEarned => LockIsEarned
  BY DEF LocksAreEarned, Earns, LockIsEarned
<1> QED
  BY <1>1, <1>2, <1>3, PTL DEF DaemonSpec

----------------------------------------------------------------------------
(* Under the same conditions every trade is scored once and a loss rests   *)
(* the market first: the portfolio, in memory and on disk, is compared     *)
(* with the ledger's gains and with the trades that were closed.           *)

(* Portfolios whose counters and amounts have no bound.                    *)
Books ==
    [market : Markets \cup {None}, vol : Volumes, entries : Nat,
     accounted : [Markets -> Int], baseline : Int, wins : Nat, losses : Nat,
     high : {"zero", "near", "above"}, locked : BOOLEAN, legacy : BOOLEAN,
     partial : BOOLEAN, eligible : BOOLEAN, stamped : BOOLEAN]

BooksTyped ==
    /\ port \in Books /\ disk \in Books
    /\ gains \in [Markets -> Int] /\ opened \in [Markets -> Int]
    /\ tally \in [won : Nat, lost : Nat, imported : Nat]

(* Only a tracked position is stamped, or marked as older than the ledger; *)
(* and while it is held (vol) the mark is right (l: legacy).               *)
Marked(p, l, vol) ==
    /\ p.stamped <=> p.market # None
    /\ p.legacy => p.market # None
    /\ l => p.legacy
    /\ p.legacy /\ vol > 0 => l

(* What k units sold since the last accounting may have brought: never     *)
(* nothing, since a profit outweighs all the losses of a position.         *)
Results(k) == {(Lot + 1) * b - (k - b) : b \in 0..k}

(* The gains (g) that are not accounted are those of units sold of the     *)
(* tracked position, and once all of it is sold there are some.            *)
Totalled(p, ledger, g, o) ==
    /\ \A n \in Markets : n # p.market \/ p.legacy => p.accounted[n] = g[n]
    /\ p.market # None /\ ~p.legacy =>
         /\ p.baseline = o[p.market]
         /\ \E k \in 0..(Lot - ledger[p.market]) :
              /\ g[p.market] - p.accounted[p.market] \in Results(k)
              /\ ledger[p.market] = 0 => k > 0

(* The position was sold out and the trade is still to be scored.          *)
SoldOut(p, ledger) == p.market # None /\ ~p.legacy /\ ledger[p.market] = 0

LostMoney(p, g, o) == g[p.market] < o[p.market]

(* The portfolio's score, with wins and losses still due, is the tally of  *)
(* the trades closed, but for those of positions older than the ledger.    *)
Score(p, wins, losses, t) ==
    /\ p.wins + wins >= t.won /\ p.losses + losses >= t.lost
    /\ p.wins + wins + p.losses + losses <= t.won + t.lost + t.imported

Scored(p, ledger, g, o, t) ==
    Score(p, IF SoldOut(p, ledger) /\ ~LostMoney(p, g, o) THEN 1 ELSE 0,
             IF SoldOut(p, ledger) /\ LostMoney(p, g, o) THEN 1 ELSE 0, t)

InStep(p, l, vol, ledger, g, o, t) ==
    Marked(p, l, vol) /\ Totalled(p, ledger, g, o) /\ Scored(p, ledger, g, o, t)

(* A closed trade has been accounted and scored, the portfolio not cleared.*)
Closing == {"closeAdopted", "closeSold", "closeRepaired"}

Closed(p, g, t) ==
    /\ p.market # None /\ p.stamped
    /\ \A n \in Markets : p.accounted[n] = g[n]
    /\ Score(p, 0, 0, t)

(* Where the daemon has an order in hand, and what it knows of one that is *)
(* settled: a sell is one of the tracked position, and it is in the ledger *)
(* unless that is older.                                                   *)
InHand == {"recovering", "selling", "halving", "buying", "closeAdopted", "closeSold"}

SaleIsTracked(d) ==
    pc[d] = "settled" =>
      /\ at \in InHand
      /\ \/ at = "recovering" /\ snap[d].side = "ask"
         \/ at \in {"selling", "halving"}
         => snap[d].market = port.market /\ port.market # None
      /\ at = "selling" /\ bot.vol = 0 =>
           (booked[snap[d].active] > 0 <=> ~port.legacy)

LossIsDue(p, ledger, g, o) == SoldOut(p, ledger) /\ LostMoney(p, g, o)

Keeps(p) == InStep(p, legacy, bot.vol, ledgerVol, gains, opened, tally)

ScoreInv ==
    /\ BooksTyped
    /\ Keeps(disk)
    /\ at \notin Closing => Keeps(port)
    /\ at \in Closing => Closed(port, gains, tally)
    /\ port.market = disk.market
    /\ port.market = None => \A m \in Markets : ledgerVol[m] > 0 => opened[m] = gains[m]
    /\ bot.active # None /\ bot.side = "ask" => port.market # None
    /\ unrested => at \notin Closing /\ LossIsDue(port, ledgerVol, gains, opened)
                   /\ LossIsDue(disk, ledgerVol, gains, opened)
    /\ \A d \in Daemons : SaleIsTracked(d)

----------------------------------------------------------------------------
(* What units sold bring.                                                  *)

LEMMA ResultsOfNone == 0 \in Results(0)
<1>1. 0 \in 0..0 /\ (Lot + 1) * 0 - (0 - 0) = 0
  BY ConstantsAssumption
<1> QED
  BY <1>1 DEF Results

LEMMA ResultsAreIntegers ==
    ASSUME NEW k \in Nat, NEW x \in Results(k)
    PROVE  x \in Int
BY ConstantsAssumption DEF Results

LEMMA ResultsAreSomething ==
    ASSUME NEW k \in 1..Lot
    PROVE  0 \notin Results(k)
<1> SUFFICES ASSUME NEW b \in 0..k, 0 = (Lot + 1) * b - (k - b) PROVE FALSE
  BY DEF Results
<1>1. Lot \in Nat /\ b \in Nat /\ k \in Nat /\ k > 0 /\ k <= Lot
  BY ConstantsAssumption
<1>2. CASE b = 0
  BY <1>1, <1>2
<1>3. CASE b >= 1
  <2>1. (Lot + 1) * b >= Lot + 1
    BY <1>1, <1>3
  <2> QED
    BY <1>1, <1>3, <2>1
<1> QED
  BY <1>1, <1>2, <1>3

LEMMA ResultsGrow ==
    ASSUME NEW k \in Nat, NEW x \in Results(k), NEW n \in Nat,
           NEW g \in {-n, (Lot + 1) * n}
    PROVE  x + g \in Results(k + n)
<1>1. PICK b \in 0..k : x = (Lot + 1) * b - (k - b)
  BY DEF Results
<1>2. Lot \in Nat /\ b \in Nat
  BY <1>1, ConstantsAssumption
<1>3. CASE g = -n
  <2>1. x + g = (Lot + 1) * b - ((k + n) - b) /\ b \in 0..(k + n)
    <3> DEFINE won == (Lot + 1) * b
    <3>1. won \in Int
      BY <1>2
    <3> HIDE DEF won
    <3>2. x = won - (k - b)
      BY <1>1 DEF won
    <3>3. x + g = won - ((k + n) - b) /\ b \in 0..(k + n)
      BY <1>1, <1>3, <3>1, <3>2
    <3> QED
      BY <3>3 DEF won
  <2> QED
    BY <2>1 DEF Results
<1>4. CASE g = (Lot + 1) * n
  <2>1. (Lot + 1) * (b + n) = (Lot + 1) * b + (Lot + 1) * n
    BY <1>2
  <2>2. x + g = (Lot + 1) * (b + n) - ((k + n) - (b + n)) /\ b + n \in 0..(k + n)
    <3> DEFINE won == (Lot + 1) * b
               more == (Lot + 1) * n
    <3>1. won \in Int /\ more \in Int
      BY <1>2
    <3> HIDE DEF won, more
    <3>2. x = won - (k - b) /\ g = more /\ (Lot + 1) * (b + n) = won + more
      BY <1>1, <1>4, <2>1 DEF won, more
    <3> QED
      BY <1>1, <3>1, <3>2
  <2> QED
    BY <2>2 DEF Results
<1> QED
  BY <1>3, <1>4

----------------------------------------------------------------------------
(* The operators on a portfolio.                                           *)

LEMMA AccountedBook ==
    ASSUME BooksTyped, NEW p \in Books, NEW m \in Markets, NEW terminal \in BOOLEAN
    PROVE  LET q == Accounted(p, m, terminal) IN
           /\ q \in Books
           /\ q.market = p.market /\ q.legacy = p.legacy /\ q.stamped = p.stamped
           /\ q.vol = p.vol /\ q.baseline = p.baseline /\ q.entries = p.entries
           /\ q.accounted = [p.accounted EXCEPT ![m] = gains[m]]
           /\ q.wins = IF gains[m] # p.accounted[m] /\ terminal /\ gains[m] - p.baseline >= 0
                         THEN p.wins + 1 ELSE p.wins
           /\ q.losses = IF gains[m] # p.accounted[m] /\ terminal /\ ~(gains[m] - p.baseline >= 0)
                         THEN p.losses + 1 ELSE p.losses
<1>1. CASE gains[m] = p.accounted[m]
  <2>1. Accounted(p, m, terminal) = p
    BY <1>1 DEF Accounted
  <2>2. p.accounted = [p.accounted EXCEPT ![m] = gains[m]]
    BY <1>1 DEF Books
  <2> QED
    BY <1>1, <2>1, <2>2
<1>2. CASE gains[m] # p.accounted[m]
  <2> DEFINE a == [p.accounted EXCEPT ![m] = gains[m]]
             w == IF terminal /\ Won(p, m) THEN p.wins + 1 ELSE p.wins
             l == IF terminal /\ ~Won(p, m) THEN p.losses + 1 ELSE p.losses
  <2>1. Accounted(p, m, terminal) = [p EXCEPT !.accounted = a, !.wins = w, !.losses = l]
    BY <1>2 DEF Accounted, Books
  <2>2. a \in [Markets -> Int] /\ w \in Nat /\ l \in Nat
    BY DEF BooksTyped, Books
  <2>3. Won(p, m) <=> gains[m] - p.baseline >= 0
    BY DEF Won
  <2>4. /\ w = IF gains[m] # p.accounted[m] /\ terminal /\ gains[m] - p.baseline >= 0
                 THEN p.wins + 1 ELSE p.wins
        /\ l = IF gains[m] # p.accounted[m] /\ terminal /\ ~(gains[m] - p.baseline >= 0)
                 THEN p.losses + 1 ELSE p.losses
    BY <1>2, <2>3
  <2> HIDE DEF a, w, l
  <2>5. LET q == [p EXCEPT !.accounted = a, !.wins = w, !.losses = l] IN
          /\ q \in Books
          /\ q.market = p.market /\ q.legacy = p.legacy /\ q.stamped = p.stamped
          /\ q.vol = p.vol /\ q.baseline = p.baseline /\ q.entries = p.entries
          /\ q.accounted = a /\ q.wins = w /\ q.losses = l
    BY <2>2 DEF Books
  <2> QED
    BY <2>1, <2>4, <2>5 DEF a
<1> QED
  BY <1>1, <1>2

LEMMA ClearedBook ==
    ASSUME NEW p \in Books
    PROVE  LET q == Cleared(p) IN
           /\ q \in Books
           /\ q.market = None /\ ~q.legacy /\ ~q.stamped
           /\ q.accounted = p.accounted /\ q.wins = p.wins /\ q.losses = p.losses
           /\ q.entries = p.entries
<1>1. PICK zero : zero = 0
  OBVIOUS
<1>2. Cleared(p) =
        [[p EXCEPT !.market = None, !.vol = zero, !.high = "zero", !.legacy = FALSE,
                   !.partial = FALSE, !.baseline = zero, !.eligible = FALSE,
                   !.stamped = FALSE] EXCEPT !.locked = FALSE]
  BY <1>1, Zenon DEF Cleared, ClearedByReconcile
<1>3. zero \in Volumes /\ zero \in Int
  BY <1>1, ConstantsAssumption DEF Volumes
<1> QED
  BY <1>2, <1>3 DEF Books

LEMMA EnteredBook ==
    ASSUME IInv, BooksTyped, NEW p \in Books, NEW m \in Markets, NEW h \in HighAtEntry(p)
    PROVE  LET q == Entered(p, m, h) IN
           /\ q \in Books
           /\ q.market = m /\ q.legacy = p.legacy /\ q.stamped
           /\ q.accounted = p.accounted /\ q.wins = p.wins /\ q.losses = p.losses
           /\ q.baseline = gains[m] /\ q.entries = p.entries + 1
<1>1. ledgerVol[m] \in Volumes /\ gains[m] \in Int /\ h \in {"zero", "near", "above"}
      /\ Eligible(bot.policy) \in BOOLEAN
  BY IInvParts DEF Parts, GlobalTypeOK, BooksTyped, HighAtEntry, Eligible
<1>2. PICK e : e = p.entries + 1
  OBVIOUS
<1>3. Entered(p, m, h) =
        [p EXCEPT !.market = m, !.vol = ledgerVol[m], !.high = h, !.entries = e,
                  !.baseline = gains[m], !.stamped = TRUE, !.eligible = Eligible(bot.policy)]
  BY <1>2 DEF Books, Entered
<1>4. e \in Nat
  BY <1>2 DEF Books
<1> QED
  BY <1>1, <1>2, <1>3, <1>4 DEF Books

LEMMA RepairedBook ==
    ASSUME IInv, BooksTyped, NEW p \in Books, NEW m \in Markets
    PROVE  LET q == Repaired(p, m) IN
           /\ q \in Books
           /\ q.market = m /\ ~q.legacy /\ q.stamped
           /\ q.accounted \in {p.accounted, [p.accounted EXCEPT ![m] = gains[m]]}
           /\ q.wins = p.wins /\ q.losses = p.losses /\ q.entries = p.entries
           /\ q.baseline = IF p.stamped THEN p.baseline ELSE gains[m]
<1> DEFINE shrunk == ledgerVol[m] < p.vol
           r == IF shrunk THEN Accounted(p, m, FALSE) ELSE p
<1>1. ledgerVol[m] \in Volumes /\ gains[m] \in Int /\ p.vol \in Volumes
      /\ Eligible(bot.policy) \in BOOLEAN /\ shrunk \in BOOLEAN
  BY IInvParts DEF Parts, GlobalTypeOK, BooksTyped, Eligible, Books
<1>2. /\ r \in Books
      /\ r.accounted \in {p.accounted, [p.accounted EXCEPT ![m] = gains[m]]}
      /\ r.wins = p.wins /\ r.losses = p.losses /\ r.entries = p.entries
      /\ r.stamped = p.stamped /\ r.baseline = p.baseline
  BY AccountedBook
<1>3. Repaired(p, m) =
        [r EXCEPT !.market = m, !.vol = ledgerVol[m],
                  !.high = IF @ = "zero" THEN "near" ELSE @,
                  !.legacy = FALSE, !.partial = @ \/ shrunk,
                  !.baseline = IF p.stamped THEN @ ELSE gains[m],
                  !.stamped = TRUE, !.eligible = Eligible(bot.policy)]
  BY DEF Repaired
<1> HIDE DEF r, shrunk
<1> DEFINE b == IF p.stamped THEN p.baseline ELSE gains[m]
           hi == IF r.high = "zero" THEN "near" ELSE r.high
           pa == r.partial \/ shrunk
<1>4. Repaired(p, m) =
        [market |-> m, vol |-> ledgerVol[m], entries |-> p.entries,
         accounted |-> r.accounted, baseline |-> b, wins |-> p.wins,
         losses |-> p.losses, high |-> hi, locked |-> r.locked, legacy |-> FALSE,
         partial |-> pa, eligible |-> Eligible(bot.policy), stamped |-> TRUE]
  BY <1>2, <1>3 DEF Books
<1>5. b \in Int /\ hi \in {"zero", "near", "above"}
  BY <1>1, <1>2 DEF Books
<1>6. pa \in BOOLEAN
  BY <1>1, <1>2 DEF Books
<1>7. p.entries \in Nat /\ p.wins \in Nat /\ p.losses \in Nat /\ r.accounted \in [Markets -> Int]
      /\ r.locked \in BOOLEAN
  BY <1>2 DEF Books
<1> HIDE DEF hi, pa
<1>8. Repaired(p, m) \in Books
  BY <1>1, <1>4, <1>5, <1>6, <1>7 DEF Books
<1> QED
  BY <1>2, <1>4, <1>8

(* A change of what is not counted.                                        *)
LEMMA FieldsOfBook ==
    ASSUME NEW p \in Books, NEW v \in Volumes, NEW w \in Nat, NEW c \in BOOLEAN,
           NEW h \in {"zero", "near", "above"}
    PROVE  /\ [p EXCEPT !.vol = v] \in Books
           /\ [p EXCEPT !.entries = 0] \in Books
           /\ [p EXCEPT !.wins = w] \in Books /\ [p EXCEPT !.losses = w] \in Books
           /\ [p EXCEPT !.partial = c] \in Books
           /\ [p EXCEPT !.legacy = FALSE] \in Books
           /\ [p EXCEPT !.vol = v, !.partial = TRUE] \in Books
           /\ [p EXCEPT !.high = h, !.locked = c] \in Books
           /\ [p EXCEPT !.vol = v, !.high = h] \in Books
BY DEF Books

----------------------------------------------------------------------------
(* What the steps make of a portfolio that was in step.                    *)

Tallies == [won : Nat, lost : Nat, imported : Nat]

LEMMA AlikeInStep ==
    ASSUME NEW p, NEW q, NEW l, NEW vol, NEW ledger, NEW g, NEW o, NEW t,
           InStep(p, l, vol, ledger, g, o, t),
           q.market = p.market, q.legacy = p.legacy, q.stamped = p.stamped,
           q.accounted = p.accounted, q.baseline = p.baseline,
           q.wins = p.wins, q.losses = p.losses
    PROVE  InStep(q, l, vol, ledger, g, o, t)
BY DEF InStep, Marked, Totalled, Scored, Score, SoldOut, LostMoney

(* A partial accounting: part of the position is still held.               *)
LEMMA PartlyAccounted ==
    ASSUME NEW p \in Books, NEW q \in Books, NEW l, NEW vol, NEW ledger \in [Markets -> Volumes],
           NEW g \in [Markets -> Int], NEW o, NEW t,
           InStep(p, l, vol, ledger, g, o, t),
           p.market # None, p.legacy \/ ledger[p.market] > 0,
           q.market = p.market, q.legacy = p.legacy, q.stamped = p.stamped,
           q.accounted = [p.accounted EXCEPT ![p.market] = g[p.market]],
           q.baseline = p.baseline, q.wins = p.wins, q.losses = p.losses
    PROVE  InStep(q, l, vol, ledger, g, o, t)
<1>1. p.market \in Markets /\ p.accounted \in [Markets -> Int]
  BY DEF Books
<1>2. Marked(q, l, vol) /\ Scored(q, ledger, g, o, t)
  BY DEF InStep, Marked, Scored, Score, SoldOut, LostMoney
<1>3. \A n \in Markets : n # q.market \/ q.legacy => q.accounted[n] = g[n]
  BY <1>1 DEF InStep, Totalled
<1>4. ASSUME ~p.legacy
      PROVE  /\ q.baseline = o[q.market]
             /\ \E k \in 0..(Lot - ledger[q.market]) :
                  /\ g[q.market] - q.accounted[q.market] \in Results(k)
                  /\ ledger[q.market] = 0 => k > 0
  <2>1. ledger[p.market] \in Volumes /\ ledger[p.market] > 0
    BY <1>1, <1>4
  <2>2. 0 \in 0..(Lot - ledger[q.market]) /\ ledger[q.market] # 0
    BY <2>1, ConstantsAssumption DEF Volumes
  <2>3. g[q.market] - q.accounted[q.market] = 0
    BY <1>1
  <2>4. g[q.market] - q.accounted[q.market] \in Results(0)
    BY <2>3, ResultsOfNone
  <2>5. q.baseline = o[q.market]
    BY <1>4 DEF InStep, Totalled
  <2> QED
    BY <2>2, <2>4, <2>5
<1> QED
  BY <1>2, <1>3, <1>4 DEF InStep, Totalled

(* The terminal accounting scores the trade as the ledger closed it.       *)
LEMMA FullyAccounted ==
    ASSUME NEW p \in Books, NEW q \in Books, NEW l, NEW vol, NEW ledger \in [Markets -> Volumes],
           NEW g \in [Markets -> Int], NEW o \in [Markets -> Int], NEW t \in Tallies,
           InStep(p, l, vol, ledger, g, o, t), SoldOut(p, ledger),
           q.market = p.market, q.stamped = p.stamped,
           q.accounted = [p.accounted EXCEPT ![p.market] = g[p.market]],
           q.wins = IF g[p.market] # p.accounted[p.market] /\ g[p.market] - p.baseline >= 0
                      THEN p.wins + 1 ELSE p.wins,
           q.losses = IF g[p.market] # p.accounted[p.market] /\ ~(g[p.market] - p.baseline >= 0)
                        THEN p.losses + 1 ELSE p.losses
    PROVE  Closed(q, g, t) /\ g[p.market] # p.accounted[p.market]
           /\ (g[p.market] - p.baseline >= 0 <=> ~LostMoney(p, g, o))
<1> DEFINE m == p.market
<1>1. m \in Markets /\ p.accounted \in [Markets -> Int] /\ p.wins \in Nat /\ p.losses \in Nat
      /\ p.baseline \in Int /\ ~p.legacy /\ ledger[m] = 0 /\ m # None
  BY DEF Books, SoldOut
<1>2. p.baseline = o[m] /\ g[m] \in Int /\ o[m] \in Int
  BY <1>1 DEF InStep, Totalled
<1>3. g[m] # p.accounted[m]
  <2>1. PICK k \in 0..(Lot - ledger[m]) : g[m] - p.accounted[m] \in Results(k) /\ k > 0
    BY <1>1 DEF InStep, Totalled
  <2>2. k \in 1..Lot
    BY <1>1, <2>1, ConstantsAssumption
  <2>3. g[m] - p.accounted[m] # 0
    BY <2>1, <2>2, ResultsAreSomething
  <2> QED
    BY <1>1, <1>2, <2>3
<1>4. g[m] - p.baseline >= 0 <=> ~LostMoney(p, g, o)
  BY <1>2 DEF LostMoney
<1>5. \A n \in Markets : q.accounted[n] = g[n]
  BY <1>1 DEF InStep, Totalled
<1>6. Score(q, 0, 0, t)
  <2>1. t.won \in Nat /\ t.lost \in Nat /\ t.imported \in Nat
    BY DEF Tallies
  <2> QED
    BY <1>1, <1>3, <1>4, <2>1 DEF InStep, Scored, Score
<1> QED
  BY <1>1, <1>3, <1>4, <1>5, <1>6 DEF Closed, InStep, Marked

(* A position older than the ledger has nothing to account.                *)
LEMMA LegacyIsAccounted ==
    ASSUME NEW p \in Books, NEW l, NEW vol, NEW ledger, NEW g, NEW o, NEW t,
           InStep(p, l, vol, ledger, g, o, t), p.legacy
    PROVE  Closed(p, g, t)
BY DEF Closed, InStep, Marked, Totalled, Scored, SoldOut

(* Cleared after that, the portfolio tracks nothing and is in step.        *)
LEMMA ClearedInStep ==
    ASSUME NEW p \in Books, NEW q \in Books, NEW vol, NEW ledger, NEW g, NEW o, NEW t,
           Closed(p, g, t), q.market = None, ~q.legacy, ~q.stamped,
           q.accounted = p.accounted, q.wins = p.wins, q.losses = p.losses
    PROVE  InStep(q, FALSE, vol, ledger, g, o, t)
BY DEF Closed, InStep, Marked, Totalled, Scored, Score, SoldOut

(* An untracked position of the ledger is taken over from its start.       *)
LEMMA EnteredInStep ==
    ASSUME NEW p \in Books, NEW q \in Books, NEW vol, NEW ledger \in [Markets -> Volumes],
           NEW g \in [Markets -> Int], NEW o, NEW t, NEW m \in Markets,
           InStep(p, FALSE, vol, ledger, g, o, t), p.market = None,
           ledger[m] > 0, o[m] = g[m],
           q.market = m, ~q.legacy, q.stamped, q.baseline = g[m],
           q.accounted = p.accounted, q.wins = p.wins, q.losses = p.losses
    PROVE  InStep(q, FALSE, vol, ledger, g, o, t)
<1>1. m # None /\ ledger[m] \in Volumes /\ \A n \in Markets : q.accounted[n] = g[n] /\ n # None
  BY ConstantsAssumption DEF InStep, Totalled
<1>2. 0 \in 0..(Lot - ledger[m]) /\ ledger[m] # 0
  BY <1>1, ConstantsAssumption DEF Volumes
<1>3. g[m] - q.accounted[m] = 0
  BY <1>1
<1>4. g[m] - q.accounted[m] \in Results(0)
  BY <1>3, ResultsOfNone
<1>5. Totalled(q, ledger, g, o)
  BY <1>1, <1>2, <1>4 DEF Totalled
<1>6. Marked(q, FALSE, vol)
  BY <1>1 DEF Marked
<1>7. Scored(q, ledger, g, o, t)
  BY <1>2 DEF InStep, Scored, Score, SoldOut
<1> QED
  BY <1>5, <1>6, <1>7 DEF InStep

(* An untracked portfolio is in step with any position of the ledger.      *)
LEMMA UntrackedInStep ==
    ASSUME NEW p, NEW l, NEW vol, NEW ledger, NEW g, NEW o, NEW t,
           InStep(p, l, vol, ledger, g, o, t), p.market = None,
           NEW vol2, NEW ledger2, NEW o2
    PROVE  ~p.legacy /\ ~p.stamped /\ ~l /\ InStep(p, l, vol2, ledger2, g, o2, t)
BY DEF InStep, Marked, Totalled, Scored, Score, SoldOut, LostMoney

(* Units of the tracked position are sold and booked; the last one closes  *)
(* the trade.                                                              *)
Sale(m, ledger, ledger2, g, g2) ==
    /\ \A k \in Markets : k # m => g2[k] = g[k]
    /\ \E n \in 1..ledger[m] : \E x \in {-n, (Lot + 1) * n} :
         ledger2[m] = ledger[m] - n /\ g2[m] = g[m] + x

Tallied(p, ledger2, g2, o, t, t2) ==
    IF ledger2[p.market] = 0
      THEN /\ t2.imported = t.imported
           /\ LostMoney(p, g2, o) => t2.won = t.won /\ t2.lost = t.lost + 1
           /\ ~LostMoney(p, g2, o) => t2.won = t.won + 1 /\ t2.lost = t.lost
      ELSE t2 = t

LEMMA BookedSale ==
    ASSUME NEW p \in Books, NEW l, NEW vol, NEW ledger \in [Markets -> Volumes],
           NEW g \in [Markets -> Int], NEW o \in [Markets -> Int], NEW t \in Tallies,
           InStep(p, l, vol, ledger, g, o, t), p.market # None, ~p.legacy,
           NEW ledger2 \in [Markets -> Volumes], NEW g2 \in [Markets -> Int], NEW t2 \in Tallies,
           Sale(p.market, ledger, ledger2, g, g2), Tallied(p, ledger2, g2, o, t, t2)
    PROVE  InStep(p, l, vol, ledger2, g2, o, t2)
<1> DEFINE m == p.market
<1>1. PICK n \in 1..ledger[m] : \E x \in {-n, (Lot + 1) * n} :
        ledger2[m] = ledger[m] - n /\ g2[m] = g[m] + x
  BY DEF Sale
<1>2. PICK x \in {-n, (Lot + 1) * n} : ledger2[m] = ledger[m] - n /\ g2[m] = g[m] + x
  BY <1>1
<1>3. /\ m \in Markets /\ p.accounted \in [Markets -> Int] /\ p.wins \in Nat /\ p.losses \in Nat
      /\ Lot \in Nat /\ ledger[m] \in 0..Lot /\ n \in Nat /\ g[m] \in Int
  BY ConstantsAssumption DEF Books, Volumes
<1>4. ledger2[m] = ledger[m] - n /\ ledger[m] # 0
  BY <1>3, <1>2
<1>5. g2[m] = g[m] + x /\ \A k \in Markets : k # m => g2[k] = g[k]
  BY <1>3, <1>2 DEF Sale
<1>6. Totalled(p, ledger2, g2, o)
  <2>1. \A k \in Markets : k # m => p.accounted[k] = g2[k]
    BY <1>5 DEF InStep, Totalled
  <2>2. PICK k \in 0..(Lot - ledger[m]) : g[m] - p.accounted[m] \in Results(k)
    BY DEF InStep, Totalled
  <2>3. g[m] - p.accounted[m] + x \in Results(k + n)
    <3> DEFINE y == g[m] - p.accounted[m]
    <3>1. k \in Nat /\ n \in Nat
      BY <1>3
    <3>2. y \in Results(k)
      BY <2>2
    <3> HIDE DEF y
    <3>3. y + x \in Results(k + n)
      BY <3>1, <3>2, ResultsGrow, Zenon
    <3> QED
      BY <3>3 DEF y
  <2>4. x \in Int
    <3>1. (Lot + 1) * n \in Int /\ -n \in Int
      BY <1>3
    <3> QED
      BY <3>1
  <2>5. g2[m] - p.accounted[m] = g[m] - p.accounted[m] + x
    BY <1>3, <1>5, <2>4
  <2>6. k + n \in 0..(Lot - ledger2[m]) /\ k + n > 0
    BY <1>3, <1>4, <2>2
  <2>7. p.baseline = o[m]
    BY DEF InStep, Totalled
  <2> QED
    BY <2>1, <2>3, <2>5, <2>6, <2>7 DEF Totalled
<1>7. Scored(p, ledger2, g2, o, t2)
  <2>1. Score(p, 0, 0, t)
    BY <1>4 DEF InStep, Scored, SoldOut
  <2>2. t.won \in Nat /\ t.lost \in Nat /\ t.imported \in Nat
    BY DEF Tallies
  <2>3. CASE ledger2[m] # 0
    BY <2>1, <2>3 DEF Scored, SoldOut, Tallied
  <2>4. CASE ledger2[m] = 0 /\ LostMoney(p, g2, o)
    <3>1. SoldOut(p, ledger2)
      BY <2>4 DEF SoldOut
    <3>2. t2.won = t.won /\ t2.lost = t.lost + 1 /\ t2.imported = t.imported
      BY <2>4 DEF Tallied
    <3>3. Score(p, 0, 1, t2)
      BY <1>3, <2>1, <2>2, <3>2 DEF Score
    <3> QED
      BY <2>4, <3>1, <3>3 DEF Scored
  <2>5. CASE ledger2[m] = 0 /\ ~LostMoney(p, g2, o)
    <3>1. SoldOut(p, ledger2)
      BY <2>5 DEF SoldOut
    <3>2. t2.won = t.won + 1 /\ t2.lost = t.lost /\ t2.imported = t.imported
      BY <2>5 DEF Tallied
    <3>3. Score(p, 1, 0, t2)
      BY <1>3, <2>1, <2>2, <3>2 DEF Score
    <3> QED
      BY <2>5, <3>1, <3>3 DEF Scored
  <2> QED
    BY <2>3, <2>4, <2>5
<1> QED
  BY <1>6, <1>7 DEF InStep

(* A trade of a position older than the ledger is counted apart.           *)
LEMMA ImportedInStep ==
    ASSUME NEW p \in Books, NEW l, NEW vol, NEW ledger, NEW g, NEW o, NEW t \in Tallies,
           NEW t2 \in Tallies,
           InStep(p, l, vol, ledger, g, o, t),
           t2.won = t.won, t2.lost = t.lost, t2.imported = t.imported + 1
    PROVE  InStep(p, l, vol, ledger, g, o, t2)
<1>1. p.wins \in Nat /\ p.losses \in Nat /\ t.won \in Nat /\ t.lost \in Nat /\ t.imported \in Nat
  BY DEF Books, Tallies
<1>2. ASSUME NEW w \in {0, 1}, NEW x \in {0, 1}, Score(p, w, x, t) PROVE Score(p, w, x, t2)
  BY <1>1, <1>2 DEF Score
<1> QED
  BY <1>2 DEF InStep, Scored

(* ScoreInv after a step that booked and closed nothing.                   *)
LEMMA StaysInStep ==
    ASSUME ScoreInv, at' \notin Closing,
           UNCHANGED <<bot, legacy, ledgerVol, gains, opened, tally>>,
           port' \in Books, disk' \in Books, Keeps(port'), Keeps(disk'),
           port'.market = disk'.market,
           port.market = None \/ port'.market # None,
           unrested' => /\ LossIsDue(port', ledgerVol, gains, opened)
                        /\ LossIsDue(disk', ledgerVol, gains, opened),
           \A d \in Daemons : SaleIsTracked(d)'
    PROVE  ScoreInv'
<1>1. BooksTyped'
  BY DEF ScoreInv, BooksTyped
<1>2. Keeps(port)' /\ Keeps(disk)'
  BY DEF Keeps
<1> QED
  BY <1>1, <1>2 DEF ScoreInv

(* A portfolio changed only in what is not counted.                        *)
Alike(q, p) ==
    /\ q.market = p.market /\ q.legacy = p.legacy /\ q.stamped = p.stamped
    /\ q.accounted = p.accounted /\ q.baseline = p.baseline
    /\ q.wins = p.wins /\ q.losses = p.losses

LEMMA AlikeStays ==
    ASSUME ScoreInv, at \notin Closing, at' \notin Closing,
           UNCHANGED <<bot, legacy, ledgerVol, gains, opened, tally>>,
           unrested' => unrested,
           port' \in Books, disk' \in Books,
           Alike(port', port) \/ Alike(port', disk),
           Alike(disk', port) \/ Alike(disk', disk),
           \A d \in Daemons : SaleIsTracked(d)'
    PROVE  ScoreInv'
<1>1. ASSUME NEW q, Alike(q, port) \/ Alike(q, disk)
      PROVE  /\ Keeps(q) /\ q.market = port.market
             /\ unrested => LossIsDue(q, ledgerVol, gains, opened)
  <2>1. Keeps(q)
    BY <1>1, AlikeInStep DEF Alike, ScoreInv, Keeps
  <2>2. q.market = port.market /\ (unrested => LossIsDue(q, ledgerVol, gains, opened))
    BY <1>1 DEF Alike, ScoreInv, LossIsDue, SoldOut, LostMoney
  <2> QED
    BY <2>1, <2>2
<1>2. /\ Keeps(port') /\ port'.market = port.market
      /\ unrested => LossIsDue(port', ledgerVol, gains, opened)
  BY <1>1
<1>3. /\ Keeps(disk') /\ disk'.market = port.market
      /\ unrested => LossIsDue(disk', ledgerVol, gains, opened)
  BY <1>1
<1> QED
  BY <1>2, <1>3, StaysInStep

----------------------------------------------------------------------------
(* What the processes have in hand.                                        *)

LEMMA NothingInHand ==
    ASSUME IInv, NEW d \in Daemons, pc[d] # "off", NEW p \in Points \ {"settled"}, Goto(d, p)
    PROVE  \A e \in Daemons : SaleIsTracked(e)'
<1>1. \A e \in Daemons : e # d => pc'[e] = "off"
  BY IInvParts, OthersAreOff DEF Goto, Parts, LocalTypeOK
<1>2. pc'[d] = p
  BY IInvParts DEF Goto, Parts, LocalTypeOK
<1> QED
  BY <1>1, <1>2 DEF SaleIsTracked

LEMMA IdleHands ==
    ASSUME ScoreInv, at \notin InHand, UNCHANGED pc
    PROVE  \A e \in Daemons : SaleIsTracked(e)'
BY DEF ScoreInv, SaleIsTracked

LEMMA OutOfHand ==
    ASSUME IInv, NEW d \in Daemons, Resume(d)
    PROVE  /\ \A e \in Daemons : SaleIsTracked(e)'
           /\ UNCHANGED <<bot, legacy, ledgerVol, booked>>
BY NothingInHand DEF Resume, Points, files

----------------------------------------------------------------------------
(* The loop, the processes that come and go, and the environment.          *)

LEMMA LoopKeepsScore ==
    ASSUME ScoreInv, LoopStep
    PROVE  ScoreInv'
<1>1. /\ UNCHANGED <<bot, legacy, ledgerVol, gains, opened, tally, unrested, pc>>
      /\ at \notin InHand \cup Closing /\ at' \notin Closing
  BY DEF LoopStep, Roll, Pending, Recover, TakeHint, Milestone, Watch, SkipManage,
         SkipEntry, Periodic, Idle, vars, files, locals, history, Move, Raise, InHand, Closing
<1>2. \A d \in Daemons : SaleIsTracked(d)'
  BY <1>1, IdleHands
<1>3. port \in Books /\ disk \in Books
  BY DEF ScoreInv, BooksTyped
<1>4. /\ port' \in Books /\ Alike(port', port)
      /\ disk' \in Books /\ (Alike(disk', port) \/ Alike(disk', disk))
  <2>1. ASSUME Roll PROVE <1>4!:
    <3> DEFINE q == [port EXCEPT !.entries = 0]
    <3>1. port' \in {port, q} /\ disk' \in {disk, port'}
      BY <2>1 DEF Roll
    <3>2. q \in Books /\ Alike(q, port)
      BY <1>3 DEF Books, Alike
    <3> HIDE DEF q
    <3> QED
      BY <1>3, <3>1, <3>2 DEF Alike
  <2>2. ASSUME NEW peak \in BOOLEAN, Watch(peak) PROVE <1>4!:
    <3> DEFINE high == IF peak THEN "above" ELSE port.high
               lock2 == port.locked \/ high = "above"
               q == [port EXCEPT !.high = high, !.locked = lock2]
    <3>1. port' = q /\ disk' \in {disk, port'}
      BY <2>2 DEF Watch
    <3>2. high \in {"zero", "near", "above"} /\ lock2 \in BOOLEAN
      BY <1>3 DEF Books
    <3> HIDE DEF high, lock2
    <3>3. q \in Books /\ Alike(q, port)
      BY <1>3, <3>2 DEF Books, Alike
    <3> HIDE DEF q
    <3> QED
      BY <1>3, <3>1, <3>3 DEF Alike
  <2>3. ASSUME Pending \/ Recover \/ TakeHint \/ Milestone \/ SkipManage \/ SkipEntry \/ Periodic
        PROVE  <1>4!:
    <3>1. port' = port /\ disk' \in {disk, port}
      BY <2>3 DEF Pending, Recover, TakeHint, Milestone, SkipManage, SkipEntry, Periodic, Idle
    <3> QED
      BY <1>3, <3>1 DEF Alike
  <2> QED
    BY <2>1, <2>2, <2>3 DEF LoopStep
<1> QED
  BY <1>1, <1>2, <1>4, AlikeStays

LEMMA BootKeepsScore ==
    ASSUME IInv, ScoreInv, NEW d \in Daemons, Boot(d) \/ Die(d)
    PROVE  ScoreInv'
<1>1. /\ UNCHANGED <<bot, legacy, ledgerVol, gains, opened, tally, unrested>>
      /\ port' = disk /\ disk' = disk /\ at' \in {"roll", "off"}
  BY DEF Boot, Die, Start, Crash, files, history
<1>2. pc \in [Daemons -> Points] /\ SingleDaemon
  BY IInvParts DEF Parts, LocalTypeOK
<1>3. \A e \in Daemons : pc'[e] # "settled"
  <2>1. CASE Boot(d)
    <3>1. \A e \in Daemons : pc[e] = "off"
      BY <1>2, <2>1, ConstantsAssumption DEF Boot, Start, SingleDaemon
    <3> QED
      BY <1>2, <2>1, <3>1 DEF Boot, Start, Goto
  <2>2. CASE Die(d)
    <3>1. \A e \in Daemons : e # d => pc[e] = "off"
      BY <1>2, <2>2, OthersAreOff DEF Die, Crash
    <3> QED
      BY <1>2, <2>2, <3>1 DEF Die, Crash, Goto
  <2> QED
    BY <2>1, <2>2
<1>4. \A e \in Daemons : SaleIsTracked(e)'
  BY <1>3 DEF SaleIsTracked
<1>5. disk \in Books /\ Keeps(disk) /\ (unrested => LossIsDue(disk, ledgerVol, gains, opened))
      /\ port.market = disk.market
  BY DEF ScoreInv, BooksTyped
<1> QED
  BY <1>1, <1>4, <1>5, StaysInStep DEF Closing

LEMMA EnvironmentKeepsScore ==
    ASSUME ~ManualSales, ScoreInv, Environment \/ UNCHANGED allVars
    PROVE  ScoreInv'
<1>1. /\ UNCHANGED <<port, disk, at, gains, opened, tally, unrested>>
      /\ UNCHANGED <<bot, legacy, ledgerVol, booked, pc, snap>>
  <2>1. ASSUME NEW i \in Ids, Exchange(i), UNCHANGED dvars PROVE <1>1!:
    BY <2>1 DEF Exchange, Arrive, Lose, Fill, Complete, CancelRest, files, locals, dvars, control,
       history
  <2>2. ASSUME TurnDay \/ ReceiveHint \/ CooldownEnds \/ UNCHANGED allVars PROVE <1>1!:
    BY <2>2 DEF TurnDay, ReceiveHint, CooldownEnds, allVars, vars, files, locals, dvars, control,
       history
  <2> QED
    BY <2>1, <2>2 DEF Environment, ExchangeStep, SellByHand
<1>2. BooksTyped' /\ Keeps(disk)' /\ (Keeps(port)' <=> Keeps(port))
  BY <1>1 DEF ScoreInv, BooksTyped, Keeps
<1>3. \A d \in Daemons : SaleIsTracked(d)'
  BY <1>1 DEF ScoreInv, SaleIsTracked
<1> QED
  BY <1>1, <1>2, <1>3 DEF ScoreInv

----------------------------------------------------------------------------
(* Inside a call of the executor.                                          *)

(* A step that books nothing and settles nothing; the write-ahead of a     *)
(* sell finds its position tracked.                                        *)
LEMMA CallKeepsScore ==
    ASSUME IInv, DaemonInv, ScoreInv, NEW d \in Daemons, ExecutorStep(d)
    PROVE  ScoreInv'
<1>1. /\ Trading /\ at \notin Closing
      /\ UNCHANGED <<port, disk, at, gains, opened, tally, unrested>>
  BY DEF ExecutorStep, dvars, control, history, Trading, Closing
<1>2. PICK p \in Points \ {"off", "settled"} : Goto(d, p)
  BY DEF ExecutorStep, Refuse, Validate, CheckOrderChance, PersistActive, PlaceOrder, Accepted,
     AnswerFails, MarkUntracked, ReadTerminal, ReconcileRaises, AppendRaises, Points
<1>3. pc[d] # "off" /\ AtWork(d)
  BY DEF ExecutorStep, Refuse, Validate, CheckOrderChance, PersistActive, PlaceOrder, Accepted,
     AnswerFails, MarkUntracked, ReadTerminal, ReconcileRaises, AppendRaises, DaemonInv
<1>4. \A e \in Daemons : SaleIsTracked(e)'
  BY <1>2, <1>3, NothingInHand
<1>5. UNCHANGED <<legacy, ledgerVol>>
  BY DEF ExecutorStep, Refuse, Validate, CheckOrderChance, PersistActive, PlaceOrder, Accepted,
     AnswerFails, MarkUntracked, ReadTerminal, ReconcileRaises, AppendRaises, files
<1>6. /\ bot'.vol = bot.vol
      /\ bot'.active # None /\ bot'.side = "ask" => port.market # None
  <2>1. CASE PersistActive(d)
    <3>1. pc[d] = "cleared" /\ PointHolds(d)
      BY <2>1, IInvParts DEF PersistActive, Parts, PointsHold
    <3>2. snap[d] = bot /\ PretradeAllows(bot, plan[d])
      BY <3>1 DEF PointHolds
    <3>3. \/ bot' = bot
          \/ bot'.vol = bot.vol /\ bot'.side = plan[d].side
      BY <2>1, <3>2 DEF PersistActive, ActiveState
    <3>4. plan[d].side = "ask" => bot.vol # 0
      BY <3>2 DEF PretradeAllows
    <3>5. at \in {"selling", "halving", "buying"}
      BY <1>1, <1>3, <3>1 DEF AtWork, Trading
    <3>6. plan[d].side = "ask" => port.market # None
      BY <1>3, <3>1, <3>4, <3>5 DEF AtWork, DaemonInv, PositionIsTracked
    <3> QED
      BY <3>3, <3>6 DEF ScoreInv
  <2>2. CASE MarkUntracked(d)
    <3>1. bot = ActiveState(snap[d], plan[d])
      BY <2>2, IInvParts DEF MarkUntracked, Parts, PointsHold, PointHolds
    <3>2. bot'.vol = bot.vol /\ bot'.active = bot.active /\ bot'.side = bot.side
      BY <2>2, <3>1 DEF MarkUntracked, ActiveState
    <3> QED
      BY <3>2 DEF ScoreInv
  <2>3. CASE bot' = bot
    BY <2>3 DEF ScoreInv
  <2> QED
    BY <2>1, <2>2, <2>3 DEF ExecutorStep, Refuse, Validate, CheckOrderChance, PlaceOrder, Accepted,
       AnswerFails, ReadTerminal, ReconcileRaises, AppendRaises, files
<1>7. BooksTyped' /\ Keeps(disk)' /\ Keeps(port)'
  BY <1>1, <1>5, <1>6 DEF ScoreInv, BooksTyped, Keeps
<1> QED
  BY <1>1, <1>4, <1>5, <1>6, <1>7 DEF ScoreInv

(* The order in hand and the ledger, while its fills are booked.           *)
LEMMA BookingFacts ==
    ASSUME IInv, NEW d \in Daemons, AppendFills(d)
    PROVE  LET i == bot.active
               n == UnseenTrades(i, seen[d])
           IN  /\ snap[d] = bot /\ bot.market \in Markets /\ bot.side \in Sides /\ i # None
               /\ bot.side = "bid" <=> bot.vol = 0
               /\ booked' = booked => ledgerVol' = ledgerVol
               /\ booked' # booked =>
                    /\ n \in Nat \ {0}
                    /\ bot.side = "ask" =>
                         /\ n <= ledgerVol[bot.market]
                         /\ ledgerVol' = [ledgerVol EXCEPT ![bot.market] = @ - n]
                    /\ bot.side = "bid" =>
                         ledgerVol' = [ledgerVol EXCEPT ![bot.market] = @ + n]
               /\ ledgerVol' \in [Markets -> Volumes]
<1> DEFINE i == bot.active
           n == UnseenTrades(i, seen[d])
<1>1. /\ snap[d] = bot /\ bot.market \in Markets /\ bot.side \in Sides /\ i \in Ids /\ i # None
      /\ seen[d].filled = Fills /\ Fills \in Volumes /\ booked[i] \in {0, Fills}
      /\ FillIsConsistent(bot, seen[d])
  BY TerminalFacts DEF AppendFills
<1>2. booked \in [Ids -> Volumes] /\ ledgerVol \in [Markets -> Volumes] /\ bot.vol \in Volumes
  BY IInvParts DEF Parts, GlobalTypeOK, BotStates
<1>3. bot.side = "bid" <=> bot.vol = 0
  BY <1>1, <1>2, ConstantsAssumption DEF FillIsConsistent, Sides, Volumes
<1>4. ledgerVol' \in [Markets -> Volumes]
  <2>1. IInv'
    BY AppendStep
  <2> QED
    BY <2>1, IInvParts DEF Parts, GlobalTypeOK
<1>5. n = Fills - booked[i] /\ Fills \in Nat
  BY <1>1, ConstantsAssumption DEF UnseenTrades, Volumes
<1>6. CASE MustBook(bot, seen[d])
  <2>1. /\ bot.side = "ask" => n <= ledgerVol[bot.market]
        /\ booked' = [booked EXCEPT ![i] = Fills]
        /\ ledgerVol' = [ledgerVol EXCEPT ![bot.market] =
                           IF bot.side = "bid" THEN @ + n ELSE @ - n]
    BY <1>1, <1>6 DEF AppendFills
  <2>2. ASSUME booked' = booked PROVE ledgerVol' = ledgerVol
    <3>1. booked[i] = Fills
      BY <1>1, <1>2, <2>1, <2>2
    <3>2. n = 0
      BY <1>5, <3>1
    <3>3. ledgerVol[bot.market] + n = ledgerVol[bot.market]
          /\ ledgerVol[bot.market] - n = ledgerVol[bot.market]
      BY <1>1, <1>2, <3>2, ConstantsAssumption DEF Volumes
    <3> HIDE DEF n
    <3> QED
      BY <1>2, <2>1, <3>3
  <2>3. ASSUME booked' # booked PROVE n \in Nat \ {0}
    <3>1. booked[i] # Fills
      BY <1>1, <1>2, <2>1, <2>3
    <3> QED
      BY <1>1, <1>5, <3>1
  <2> HIDE DEF n
  <2>4. bot.side = "bid" => ledgerVol' = [ledgerVol EXCEPT ![bot.market] = @ + n]
    BY <2>1
  <2>5. bot.side = "ask" => ledgerVol' = [ledgerVol EXCEPT ![bot.market] = @ - n]
    BY <2>1
  <2> QED
    BY <1>1, <1>3, <1>4, <2>1, <2>2, <2>3, <2>4, <2>5 DEF n
<1>7. CASE ~MustBook(bot, seen[d])
  BY <1>1, <1>3, <1>4, <1>7 DEF AppendFills
<1> QED
  BY <1>6, <1>7

(* A sell is one of the position both portfolios track: the sale that      *)
(* empties it leaves its trade to be scored, and a loss to be rested.      *)
LEMMA SaleKeepsScore ==
    ASSUME IInv, DaemonInv, ScoreInv, NEW d \in Daemons, BookTrades(d),
           booked' # booked, bot.side = "ask"
    PROVE  ScoreInv'
<1> DEFINE m == bot.market
           n == UnseenTrades(bot.active, seen[d])
<1>1. /\ snap[d] = bot /\ m \in Markets /\ bot.active # None /\ bot.vol # 0
      /\ n \in Nat \ {0} /\ n <= ledgerVol[m]
      /\ ledgerVol' = [ledgerVol EXCEPT ![m] = @ - n]
      /\ ledgerVol' \in [Markets -> Volumes]
  BY BookingFacts, ConstantsAssumption DEF BookTrades
<1>2. /\ Trading /\ AppendFills(d)
      /\ UNCHANGED <<port, disk, at, opened, bot, legacy>>
  BY <1>1, ConstantsAssumption DEF BookTrades, AppendFills, control
<1>3. PICK x \in {-n, (Lot + 1) * n} : gains' = [gains EXCEPT ![m] = @ + x]
  BY <1>1 DEF BookTrades
<1>4. LET lost == gains'[m] < opened[m] IN
        IF ledgerVol'[m] = 0
          THEN /\ unrested' = (unrested \/ lost)
               /\ tally' = IF lost THEN [tally EXCEPT !.lost = @ + 1]
                                   ELSE [tally EXCEPT !.won = @ + 1]
          ELSE UNCHANGED <<unrested, tally>>
  BY <1>1 DEF BookTrades
<1> HIDE DEF n
<1>5. /\ ledgerVol \in [Markets -> Volumes] /\ bot.vol \in Volumes /\ Lot \in Nat
      /\ at \notin Closing
  BY <1>2, IInvParts, ConstantsAssumption DEF Parts, GlobalTypeOK, BotStates, Trading, Closing
<1>6. /\ port \in Books /\ disk \in Books /\ tally \in Tallies
      /\ gains \in [Markets -> Int] /\ opened \in [Markets -> Int]
  BY DEF ScoreInv, BooksTyped, Tallies
<1>7. port.market = m /\ disk.market = m /\ m # None
  <2>1. port.market # None
    BY <1>1 DEF ScoreInv
  <2> QED
    BY <1>1, <2>1 DEF ScoreInv, DaemonInv, Tracks
<1>8. ledgerVol[m] \in Nat /\ ledgerVol[m] # 0
  BY <1>1, <1>5 DEF Volumes
<1>9. ~legacy
  <2>1. ASSUME legacy PROVE ledgerVol[m] = 0
    BY <1>1, <2>1, IInvParts DEF Parts, Shared, LedgerLag
  <2> QED
    BY <1>8, <2>1
<1>10. ~port.legacy /\ ~disk.legacy
  <2>1. bot.vol > 0
    BY <1>1, <1>5 DEF Volumes
  <2> QED
    BY <1>5, <1>9, <2>1 DEF ScoreInv, Keeps, InStep, Marked
<1>11. ~unrested
  BY <1>7, <1>8 DEF ScoreInv, LossIsDue, SoldOut
<1>12. x \in Int
  <2>1. (Lot + 1) * n \in Int /\ -n \in Int
    BY <1>1, <1>5
  <2> QED
    BY <2>1
<1>13. gains' \in [Markets -> Int]
  <2>1. gains' = [gains EXCEPT ![m] = @ + x]
    BY <1>3
  <2> QED
    BY <1>1, <1>6, <1>12, <2>1
<1>14. PICK won : won = tally.won + 1
  OBVIOUS
<1>15. PICK lost : lost = tally.lost + 1
  OBVIOUS
<1>16. tally.won \in Nat /\ tally.lost \in Nat /\ won \in Nat /\ lost \in Nat
  BY <1>6, <1>14, <1>15 DEF Tallies
<1>17. ledgerVol'[m] = 0 =>
         /\ gains'[m] < opened[m] => tally' = [tally EXCEPT !.lost = lost]
         /\ ~(gains'[m] < opened[m]) => tally' = [tally EXCEPT !.won = won]
  BY <1>4, <1>6, <1>14, <1>15, Zenon
<1>18. tally' \in Tallies
  BY <1>4, <1>6, <1>16, <1>17 DEF Tallies
<1>19. ASSUME NEW p \in Books, p.market = m
       PROVE  Tallied(p, ledgerVol', gains', opened, tally, tally')
  <2>1. LostMoney(p, gains', opened) <=> gains'[m] < opened[m]
    BY <1>19 DEF LostMoney
  <2> QED
    BY <1>4, <1>6, <1>14, <1>15, <1>17, <1>19, <2>1 DEF Tallies, Tallied
<1>20. ASSUME NEW p \in Books, Keeps(p), p.market = m, ~p.legacy
       PROVE  InStep(p, legacy, bot.vol, ledgerVol', gains', opened, tally')
  <2>1. Sale(m, ledgerVol, ledgerVol', gains, gains')
    <3>1. \A k \in Markets : k # m => gains'[k] = gains[k]
      BY <1>3, <1>6
    <3>2. n \in 1..ledgerVol[m] /\ x \in {-n, (Lot + 1) * n}
      BY <1>1, <1>3, <1>8
    <3>3. ledgerVol'[m] = ledgerVol[m] - n /\ gains'[m] = gains[m] + x
      BY <1>1, <1>3, <1>5, <1>6
    <3> QED
      BY <3>1, <3>2, <3>3 DEF Sale
  <2>2. Tallied(p, ledgerVol', gains', opened, tally, tally')
    BY <1>19, <1>20
  <2>3. InStep(p, legacy, bot.vol, ledgerVol, gains, opened, tally)
    BY <1>20 DEF Keeps
  <2> QED
    BY <1>1, <1>5, <1>6, <1>7, <1>13, <1>18, <1>20, <2>1, <2>2, <2>3, BookedSale
<1>21. Keeps(port)' /\ Keeps(disk)'
  <2>1. Keeps(port) /\ Keeps(disk)
    BY <1>5 DEF ScoreInv
  <2>2. /\ InStep(port, legacy, bot.vol, ledgerVol', gains', opened, tally')
        /\ InStep(disk, legacy, bot.vol, ledgerVol', gains', opened, tally')
    BY <1>6, <1>7, <1>10, <1>20, <2>1
  <2> QED
    BY <1>2, <2>2 DEF Keeps
<1>22. \A e \in Daemons : SaleIsTracked(e)'
  BY <1>2, NothingInHand DEF AppendFills, Points
<1>23. unrested' => /\ LossIsDue(port, ledgerVol', gains', opened)
                    /\ LossIsDue(disk, ledgerVol', gains', opened)
  BY <1>4, <1>7, <1>10, <1>11 DEF LossIsDue, SoldOut, LostMoney
<1>24. BooksTyped'
  BY <1>2, <1>6, <1>13, <1>18 DEF BooksTyped, Tallies
<1> QED
  BY <1>2, <1>5, <1>7, <1>21, <1>22, <1>23, <1>24 DEF ScoreInv

(* A buy finds no position tracked, and takes note of where it begins.     *)
LEMMA BookingKeepsScore ==
    ASSUME IInv, DaemonInv, ScoreInv, NEW d \in Daemons, BookTrades(d)
    PROVE  ScoreInv'
<1> DEFINE m == bot.market
           n == UnseenTrades(bot.active, seen[d])
<1>1. /\ snap[d] = bot /\ m \in Markets /\ bot.side \in Sides /\ bot.active # None
      /\ booked' = booked => ledgerVol' = ledgerVol
      /\ ledgerVol' \in [Markets -> Volumes]
  BY BookingFacts DEF BookTrades
<1>2. /\ Trading /\ AppendFills(d) /\ at \notin Closing
      /\ UNCHANGED <<port, disk, at, bot, legacy>>
  BY DEF BookTrades, AppendFills, control, Trading, Closing
<1>3. \A e \in Daemons : SaleIsTracked(e)'
  BY <1>2, NothingInHand DEF AppendFills, Points
<1>4. CASE booked' = booked
  <2>1. UNCHANGED <<ledgerVol, gains, opened, unrested, tally>>
    BY <1>1, <1>4 DEF BookTrades
  <2>2. BooksTyped' /\ Keeps(port)' /\ Keeps(disk)'
    BY <1>2, <2>1 DEF ScoreInv, BooksTyped, Keeps
  <2> QED
    BY <1>2, <1>3, <2>1, <2>2 DEF ScoreInv
<1>5. CASE booked' # booked /\ bot.side = "bid"
  <2>1. opened' = [opened EXCEPT ![m] = gains[m]] /\ UNCHANGED <<gains, unrested, tally>>
    BY <1>1, <1>5 DEF BookTrades
  <2>2. ledgerVol' = [ledgerVol EXCEPT ![m] = @ + n]
    BY <1>5, BookingFacts DEF BookTrades
  <2>3. port.market = None /\ disk.market = None
    BY <1>1, <1>5 DEF DaemonInv, Tracks
  <2>4. Keeps(port)' /\ Keeps(disk)'
    <3>1. /\ InStep(port, legacy, bot.vol, ledgerVol', gains, opened', tally)
          /\ InStep(disk, legacy, bot.vol, ledgerVol', gains, opened', tally)
      BY <1>2, <2>3, UntrackedInStep DEF ScoreInv, Keeps
    <3> QED
      BY <1>2, <2>1, <3>1 DEF Keeps
  <2>5. BooksTyped'
    BY <1>1, <1>2, <2>1 DEF ScoreInv, BooksTyped
  <2>6. ASSUME NEW k \in Markets, ledgerVol'[k] > 0 PROVE opened'[k] = gains'[k]
    <3>1. CASE k = m
      BY <2>1, <3>1 DEF ScoreInv, BooksTyped
    <3>2. CASE k # m
      <4>1. ledgerVol'[k] = ledgerVol[k] /\ opened'[k] = opened[k]
        BY <2>1, <2>2, <3>2, IInvParts DEF Parts, GlobalTypeOK, ScoreInv, BooksTyped
      <4> QED
        BY <2>1, <2>3, <2>6, <4>1 DEF ScoreInv
    <3> QED
      BY <3>1, <3>2
  <2>7. ~unrested'
    BY <2>1, <2>3 DEF ScoreInv, LossIsDue, SoldOut
  <2> QED
    BY <1>2, <1>3, <1>5, <2>3, <2>4, <2>5, <2>6, <2>7 DEF ScoreInv, Sides
<1> QED
  BY <1>1, <1>4, <1>5, SaleKeepsScore DEF Sides

(* The settled order leaves the ledger as it was booked; a sell is one of  *)
(* the tracked position.                                                   *)
LEMMA SettlingKeepsScore ==
    ASSUME IInv, DaemonInv, ScoreInv, NEW d \in Daemons, SettleOrder(d)
    PROVE  ScoreInv'
<1> DEFINE v == IF bot.side = "bid" THEN Fills ELSE bot.vol - Fills
<1>1. /\ pc[d] = "ledgered" /\ snap[d] = bot /\ bot \in BotStates /\ PointHolds(d)
      /\ bot.active # None /\ bot.side \in Sides /\ bot.market \in Markets
      /\ seen[d].filled = Fills /\ FillIsConsistent(bot, seen[d]) /\ Fills \in Volumes
  BY TerminalFacts DEF SettleOrder, SaveTerminal
<1>2. /\ UNCHANGED <<port, disk, at, gains, opened, tally, unrested>>
      /\ UNCHANGED <<booked, ledgerVol, snap>>
      /\ Goto(d, "settled") /\ Trading /\ at \notin Closing
  BY DEF SettleOrder, SaveTerminal, locals, control, Trading, Closing
<1>3. bot'.vol = v /\ bot'.active = None /\ (legacy' <=> (legacy /\ v > 0))
  BY <1>1 DEF SettleOrder, SaveTerminal, AfterFill, HeldState
<1>4. bot.vol \in Volumes /\ (bot.side = "bid" <=> bot.vol = 0) /\ AtWork(d)
  BY <1>1, ConstantsAssumption DEF FillIsConsistent, Sides, Volumes, BotStates, DaemonInv
<1>5. ASSUME NEW p, Keeps(p), bot.side = "bid" => p.market = None
      PROVE  InStep(p, legacy', v, ledgerVol, gains, opened, tally)
  <2>1. p.legacy => legacy
    <3>1. CASE bot.side = "bid"
      BY <1>5, <3>1 DEF Keeps, InStep, Marked
    <3>2. CASE bot.side # "bid"
      <4>1. bot.vol > 0
        BY <1>4, <3>2, ConstantsAssumption DEF Volumes
      <4> QED
        BY <1>5, <4>1 DEF Keeps, InStep, Marked
    <3> QED
      BY <3>1, <3>2
  <2> HIDE DEF v
  <2> QED
    BY <1>3, <1>5, <2>1 DEF Keeps, InStep, Marked
<1>6. Keeps(port)' /\ Keeps(disk)'
  <2>1. bot.side = "bid" => port.market = None /\ disk.market = None
    BY <1>1 DEF DaemonInv, Tracks
  <2> HIDE DEF v
  <2>2. /\ InStep(port, legacy', v, ledgerVol, gains, opened, tally)
        /\ InStep(disk, legacy', v, ledgerVol, gains, opened, tally)
    BY <1>2, <1>5, <2>1 DEF ScoreInv
  <2> QED
    BY <1>2, <1>3, <2>2 DEF Keeps
<1>7. SaleIsTracked(d)'
  <2>1. at \in {"selling", "halving"} => bot.vol # 0
    BY <1>1, <1>4 DEF AtWork
  <2>2. bot.side = "ask" => bot.market = port.market /\ port.market # None
    BY <1>1 DEF ScoreInv, DaemonInv, Tracks
  <2>3. \/ at = "recovering" /\ bot.side = "ask"
        \/ at \in {"selling", "halving"}
        => bot.market = port.market /\ port.market # None
    BY <1>1, <1>4, <2>1, <2>2 DEF Sides
  <2>4. ASSUME at = "selling", v = 0
        PROVE  booked[bot.active] > 0 <=> ~port.legacy
    <3>1. bot.vol > 0 /\ Fills = bot.vol
      BY <1>1, <1>4, <2>1, <2>4, ConstantsAssumption DEF Volumes, Sides
    <3>2. port.legacy <=> legacy
      BY <1>2, <3>1 DEF ScoreInv, Keeps, InStep, Marked
    <3>3. ~legacy => booked[bot.active] > 0
      BY <1>1, <3>1 DEF PointHolds
    <3>4. legacy => ~(booked[bot.active] > 0)
      BY <1>1, IInvParts DEF Parts, Shared, LedgerLag
    <3> QED
      BY <3>2, <3>3, <3>4
  <2> HIDE DEF v
  <2> QED
    BY <1>1, <1>2, <1>3, <2>3, <2>4 DEF SaleIsTracked, Trading, InHand
<1>8. \A e \in Daemons : SaleIsTracked(e)'
  <2>1. ASSUME NEW e \in Daemons, e # d PROVE pc'[e] = "off"
    BY <1>1, <1>2, <2>1, IInvParts, OthersAreOff DEF Goto, Parts, LocalTypeOK
  <2> QED
    BY <1>7, <2>1 DEF SaleIsTracked
<1>9. BooksTyped'
  BY <1>2 DEF ScoreInv, BooksTyped
<1> QED
  BY <1>2, <1>3, <1>6, <1>8, <1>9 DEF ScoreInv

----------------------------------------------------------------------------
(* What the loop does to the portfolio when a position opens, shrinks or   *)
(* closes.                                                                 *)

(* With nothing pending and nothing held, a tracked position is sold out.  *)
LEMMA FlatIsSoldOut ==
    ASSUME IInv, bot.active = None, bot.vol = 0
    PROVE  /\ ~legacy
           /\ \A m \in Markets : ledgerVol[m] = 0
<1>1. ~legacy
  BY PositionFacts
<1>2. ASSUME NEW m \in Markets PROVE ledgerVol[m] = 0
  <2>1. holding[m] \in Nat /\ ~(holding[m] > 0)
    BY PositionFacts, IInvParts, ConstantsAssumption DEF Parts, GlobalTypeOK, Volumes
  <2> QED
    BY <1>1, <2>1, PositionFacts
<1> QED
  BY <1>1, <1>2

LEMMA ScoresTheTrade ==
    ASSUME IInv, ScoreInv, at \notin Closing, SoldOut(port, ledgerVol),
           port' = Accounted(port, port.market, TRUE), CoolDown(port, port.market)
    PROVE  /\ port' \in Books /\ port'.market = port.market
           /\ Closed(port', gains, tally) /\ ~unrested'
<1> DEFINE q == Accounted(port, port.market, TRUE)
<1>1. /\ port \in Books /\ port.market \in Markets /\ tally \in Tallies
      /\ gains \in [Markets -> Int] /\ opened \in [Markets -> Int]
      /\ BooksTyped /\ InStep(port, legacy, bot.vol, ledgerVol, gains, opened, tally)
  BY DEF ScoreInv, BooksTyped, Books, SoldOut, Tallies, Keeps
<1>2. ledgerVol \in [Markets -> Volumes]
  BY IInvParts DEF Parts, GlobalTypeOK
<1>3. /\ q \in Books /\ q.market = port.market /\ q.stamped = port.stamped
      /\ q.accounted = [port.accounted EXCEPT ![port.market] = gains[port.market]]
      /\ q.wins = IF gains[port.market] # port.accounted[port.market]
                       /\ gains[port.market] - port.baseline >= 0
                    THEN port.wins + 1 ELSE port.wins
      /\ q.losses = IF gains[port.market] # port.accounted[port.market]
                         /\ ~(gains[port.market] - port.baseline >= 0)
                      THEN port.losses + 1 ELSE port.losses
  BY <1>1, AccountedBook
<1> HIDE DEF q
<1>4. /\ Closed(q, gains, tally) /\ gains[port.market] # port.accounted[port.market]
      /\ gains[port.market] - port.baseline >= 0 <=> ~LostMoney(port, gains, opened)
  BY <1>1, <1>2, <1>3, FullyAccounted
<1>5. ~unrested'
  BY <1>4 DEF CoolDown, Won, ScoreInv, LossIsDue
<1> QED
  BY <1>3, <1>4, <1>5 DEF q

LEMMA ClosedStays ==
    ASSUME ScoreInv, at' \in Closing, UNCHANGED <<bot, legacy, ledgerVol, gains, opened, disk>>,
           port' \in Books, port'.market = port.market, ~unrested',
           tally' \in Tallies, Closed(port', gains, tally'),
           InStep(disk, legacy, bot.vol, ledgerVol, gains, opened, tally'),
           \A e \in Daemons : SaleIsTracked(e)'
    PROVE  ScoreInv'
<1>1. BooksTyped'
  BY DEF ScoreInv, BooksTyped, Tallies
<1>2. Keeps(disk)' /\ Closed(port, gains, tally)' /\ port'.market # None
  BY DEF Keeps, Closed
<1> QED
  BY <1>1, <1>2 DEF ScoreInv

LEMMA ClearedStays ==
    ASSUME IInv, ScoreInv, at \in Closing, at' \notin Closing, bot.active = None, bot.vol = 0,
           UNCHANGED <<bot, legacy, ledgerVol, gains, opened, tally, unrested>>,
           port' = Cleared(port), disk' = port',
           \A e \in Daemons : SaleIsTracked(e)'
    PROVE  ScoreInv'
<1>1. port \in Books /\ Closed(port, gains, tally) /\ ~unrested
  BY DEF ScoreInv, BooksTyped
<1>2. /\ port' \in Books /\ port'.market = None /\ ~port'.legacy /\ ~port'.stamped
      /\ port'.accounted = port.accounted /\ port'.wins = port.wins /\ port'.losses = port.losses
  BY <1>1, ClearedBook
<1>3. InStep(port', FALSE, bot.vol, ledgerVol, gains, opened, tally)
  BY <1>1, <1>2, ClearedInStep
<1>4. legacy = FALSE /\ \A m \in Markets : ledgerVol[m] = 0
  BY FlatIsSoldOut, IInvParts DEF Parts, GlobalTypeOK
<1>5. BooksTyped'
  BY <1>2 DEF ScoreInv, BooksTyped
<1>6. Keeps(port)' /\ Keeps(disk)'
  BY <1>3, <1>4 DEF Keeps
<1> QED
  BY <1>1, <1>2, <1>4, <1>5, <1>6 DEF ScoreInv

LEMMA EnteredStays ==
    ASSUME IInv, ScoreInv, at \notin Closing, at' \notin Closing,
           UNCHANGED <<bot, legacy, ledgerVol, gains, opened, tally, unrested>>,
           NEW m \in Markets, ledgerVol[m] > 0, port.market = None,
           NEW h \in HighAtEntry(port), port' \in Books, disk' = port',
           Alike(port', Entered(port, m, h)),
           \A e \in Daemons : SaleIsTracked(e)'
    PROVE  ScoreInv'
<1> DEFINE q == Entered(port, m, h)
<1>1. /\ port \in Books /\ BooksTyped /\ ~unrested /\ opened[m] = gains[m]
      /\ gains \in [Markets -> Int]
      /\ InStep(port, legacy, bot.vol, ledgerVol, gains, opened, tally)
  BY DEF ScoreInv, BooksTyped, LossIsDue, SoldOut, Keeps
<1>2. ledgerVol \in [Markets -> Volumes] /\ legacy \in BOOLEAN
  BY IInvParts DEF Parts, GlobalTypeOK
<1>3. legacy = FALSE /\ ~port.legacy
  BY <1>1, <1>2, UntrackedInStep
<1>4. /\ q \in Books /\ q.market = m /\ q.legacy = port.legacy /\ q.stamped
      /\ q.accounted = port.accounted /\ q.wins = port.wins /\ q.losses = port.losses
      /\ q.baseline = gains[m]
  BY <1>1, EnteredBook
<1> HIDE DEF q
<1>5. InStep(q, FALSE, bot.vol, ledgerVol, gains, opened, tally)
  BY <1>1, <1>2, <1>3, <1>4, EnteredInStep
<1>6. Alike(port', q)
  BY DEF q
<1>7. Keeps(port') /\ port'.market # None
  BY <1>3, <1>4, <1>5, <1>6, AlikeInStep, ConstantsAssumption DEF Keeps, Alike
<1> QED
  BY <1>1, <1>7, StaysInStep

LEMMA PartlyStays ==
    ASSUME IInv, ScoreInv, at \notin Closing, at' \notin Closing,
           UNCHANGED <<bot, legacy, ledgerVol, gains, opened, tally, unrested>>,
           port.market # None, ledgerVol[port.market] > 0,
           NEW q \in Books, Alike(q, port),
           port' \in Books, disk' = port', Alike(port', Accounted(q, port.market, FALSE)),
           \A e \in Daemons : SaleIsTracked(e)'
    PROVE  ScoreInv'
<1> DEFINE r == Accounted(q, port.market, FALSE)
<1>1. /\ port \in Books /\ port.market \in Markets /\ BooksTyped
      /\ gains \in [Markets -> Int] /\ ~unrested
      /\ InStep(port, legacy, bot.vol, ledgerVol, gains, opened, tally)
  BY DEF ScoreInv, BooksTyped, Books, Keeps, LossIsDue, SoldOut
<1>2. ledgerVol \in [Markets -> Volumes]
  BY IInvParts DEF Parts, GlobalTypeOK
<1>3. q.market = port.market /\ InStep(q, legacy, bot.vol, ledgerVol, gains, opened, tally)
  BY <1>1, AlikeInStep DEF Alike
<1>4. /\ r \in Books /\ r.market = q.market /\ r.legacy = q.legacy /\ r.stamped = q.stamped
      /\ r.baseline = q.baseline /\ r.wins = q.wins /\ r.losses = q.losses
      /\ r.accounted = [q.accounted EXCEPT ![q.market] = gains[q.market]]
  <2>1. /\ r \in Books /\ r.market = q.market /\ r.legacy = q.legacy /\ r.stamped = q.stamped
        /\ r.baseline = q.baseline /\ r.wins = q.wins /\ r.losses = q.losses
        /\ r.accounted = [q.accounted EXCEPT ![port.market] = gains[port.market]]
    BY <1>1, AccountedBook
  <2> HIDE DEF r
  <2> QED
    BY <1>3, <2>1
<1> HIDE DEF r
<1>5. InStep(r, legacy, bot.vol, ledgerVol, gains, opened, tally)
  BY <1>1, <1>2, <1>3, <1>4, PartlyAccounted
<1>6. Alike(port', r)
  BY DEF r
<1>7. Keeps(port') /\ port'.market = port.market
  BY <1>3, <1>4, <1>5, <1>6, AlikeInStep DEF Keeps, Alike
<1> QED
  BY <1>1, <1>7, StaysInStep

----------------------------------------------------------------------------
(* Repair and reconciliation.                                              *)

LEMMA AccountKeepsScore ==
    ASSUME ~ManualSales, MaxReadFaults = 0, IInv, DaemonInv, ScoreInv, AccountStep
    PROVE  ScoreInv'
<1>1. UNCHANGED <<bot, legacy, ledgerVol, pc, snap>> /\ Shape /\ ~ReadFault
  <2>1. Shape /\ ~ReadFault
    BY DEF DaemonInv, ReadFault
  <2>2. UNCHANGED vars
    BY <2>1, RepairLongStutters, ReconcileStutters
       DEF AccountStep, RepairFlat, SaveRepaired, RepairRaises, SaveGone, ReconcileRefuses, Shape
  <2> QED
    BY <2>1, <2>2 DEF vars, files, locals
<1>2. UNCHANGED <<gains, opened, tally>> /\ at \notin InHand /\ at # "closeGone"
  BY DEF AccountStep, RepairLong, RepairFlat, SaveRepaired, RepairRaises, ReconcileAccount,
     SaveGone, ReconcileRefuses, history, Move, InHand, DaemonInv, LoopHolds
<1>3. \A e \in Daemons : SaleIsTracked(e)'
  BY <1>1, <1>2, IdleHands
<1>4. port \in Books /\ disk \in Books /\ tally \in Tallies /\ BooksTyped
  BY DEF ScoreInv, BooksTyped, Tallies
<1>5. ASSUME RepairLong PROVE ScoreInv'
  <2>1. /\ at \notin Closing /\ at' \notin Closing /\ unrested' = unrested /\ disk' = port'
        /\ bot.active = None /\ bot.vol > 0
    BY <1>5 DEF RepairLong, Move, Closing, history
  <2>2. PICK m \in RepairTarget :
          \/ ledgerVol[m] > 0 /\ holding[m] = ledgerVol[m] /\ port' = Repaired(port, m)
          \/ port' = port
    BY <1>5 DEF RepairLong
  <2>3. m \in Markets
    BY <1>1 DEF RepairTarget, LedgerMarkets, Shape, Shaped
  <2>4. CASE port' = port
    BY <1>1, <1>2, <1>3, <1>4, <2>1, <2>4, AlikeStays DEF Alike
  <2>5. CASE ledgerVol[m] > 0 /\ port' = Repaired(port, m)
    <3> DEFINE q == Repaired(port, m)
    <3>1. /\ q \in Books /\ q.market = m /\ ~q.legacy /\ q.stamped
          /\ q.accounted \in {port.accounted, [port.accounted EXCEPT ![m] = gains[m]]}
          /\ q.wins = port.wins /\ q.losses = port.losses
          /\ q.baseline = IF port.stamped THEN port.baseline ELSE gains[m]
      BY <1>4, <2>3, RepairedBook
    <3>2. InStep(port, legacy, bot.vol, ledgerVol, gains, opened, tally)
      BY <2>1 DEF ScoreInv, Keeps
    <3>3. /\ ledgerVol \in [Markets -> Volumes] /\ legacy \in BOOLEAN
          /\ gains \in [Markets -> Int]
      BY <1>4, IInvParts DEF Parts, GlobalTypeOK, BooksTyped
    <3> HIDE DEF q
    <3>4. legacy = FALSE /\ ~port.legacy
      <4>1. ASSUME legacy PROVE ledgerVol[m] = 0
        BY <2>3, <4>1, IInvParts DEF Parts, Shared, LedgerLag
      <4>2. ~legacy
        BY <2>5, <4>1
      <4> QED
        BY <2>1, <3>2, <3>3, <4>2 DEF InStep, Marked
    <3>5. ASSUME port.market # None
          PROVE  InStep(q, legacy, bot.vol, ledgerVol, gains, opened, tally)
      <4>1. port.market = m
        BY <2>2, <3>5 DEF RepairTarget
      <4>2. port.stamped /\ m # None
        BY <3>2, <3>5, <4>1 DEF InStep, Marked
      <4>3. /\ q.market = port.market /\ q.legacy = port.legacy /\ q.stamped = port.stamped
            /\ q.baseline = port.baseline
        BY <1>4, <3>1, <3>4, <4>1, <4>2 DEF Books
      <4>4. CASE q.accounted = port.accounted
        BY <3>1, <3>2, <4>3, <4>4, AlikeInStep
      <4>5. CASE q.accounted = [port.accounted EXCEPT ![m] = gains[m]]
        BY <1>4, <2>5, <3>1, <3>2, <3>3, <3>5, <4>1, <4>3, <4>5, PartlyAccounted
      <4> QED
        BY <3>1, <4>4, <4>5
    <3>6. ASSUME port.market = None
          PROVE  InStep(q, legacy, bot.vol, ledgerVol, gains, opened, tally)
      <4>1. opened[m] = gains[m] /\ ~port.stamped
        BY <2>3, <2>5, <3>2, <3>6 DEF ScoreInv, InStep, Marked
      <4>2. port.accounted[m] = gains[m]
        BY <2>3, <3>2, <3>4, <3>6, ConstantsAssumption DEF InStep, Totalled
      <4>3. [port.accounted EXCEPT ![m] = gains[m]] = port.accounted
        BY <1>4, <4>2 DEF Books
      <4>4. q.accounted = port.accounted /\ q.baseline = gains[m]
        BY <3>1, <4>1, <4>3
      <4> QED
        BY <1>4, <2>3, <2>5, <3>1, <3>2, <3>3, <3>4, <3>6, <4>1, <4>4, EnteredInStep
    <3>7. InStep(q, legacy, bot.vol, ledgerVol, gains, opened, tally)
      BY <3>5, <3>6
    <3>8. ~unrested
      <4> SUFFICES ASSUME unrested PROVE FALSE
        OBVIOUS
      <4>1. port.market # None /\ ledgerVol[port.market] = 0
        BY DEF ScoreInv, LossIsDue, SoldOut
      <4> QED
        BY <2>2, <2>5, <4>1 DEF RepairTarget
    <3>9. port' = q
      BY <2>5 DEF q
    <3>10. Keeps(port') /\ m # None
      BY <2>3, <3>7, <3>9, ConstantsAssumption DEF Keeps
    <3> QED
      BY <1>1, <1>2, <1>3, <2>1, <3>1, <3>8, <3>9, <3>10, StaysInStep
  <2> QED
    BY <2>2, <2>4, <2>5
<1>6. ASSUME RepairFlat PROVE ScoreInv'
  <2>1. /\ at = "repair" /\ at \notin Closing /\ disk' = disk /\ bot.active = None /\ bot.vol = 0
    BY <1>6 DEF RepairFlat, Move, Closing
  <2>2. CASE port.market = None
    <3>1. port' = port /\ unrested' = unrested /\ at' \notin Closing
      BY <1>6, <2>2 DEF RepairFlat, Move, Closing
    <3> QED
      BY <1>1, <1>2, <1>3, <1>4, <2>1, <3>1, AlikeStays DEF Alike
  <2>3. CASE port.market # None
    <3>1. at' \in Closing
      BY <1>6, <2>3 DEF RepairFlat, Move, Closing
    <3>2. InStep(port, legacy, bot.vol, ledgerVol, gains, opened, tally)
          /\ InStep(disk, legacy, bot.vol, ledgerVol, gains, opened, tally)
      BY <2>1 DEF ScoreInv, Keeps
    <3>3. /\ port' \in Books /\ port'.market = port.market /\ ~unrested'
          /\ Closed(port', gains, tally)
      <4>1. CASE port.legacy
        <5>1. port' = port /\ unrested' = unrested
          BY <1>6, <2>3, <4>1 DEF RepairFlat
        <5> QED
          BY <1>4, <3>2, <4>1, <5>1, LegacyIsAccounted DEF ScoreInv, LossIsDue, SoldOut
      <4>2. CASE ~port.legacy
        <5>1. port' = Accounted(port, port.market, TRUE) /\ CoolDown(port, port.market)
          BY <1>6, <2>3, <4>2 DEF RepairFlat
        <5>2. port.market \in Markets
          BY <1>4, <2>3 DEF Books
        <5>3. SoldOut(port, ledgerVol)
          BY <2>1, <2>3, <4>2, <5>2, FlatIsSoldOut DEF SoldOut
        <5> QED
          BY <2>1, <5>1, <5>3, ScoresTheTrade
      <4> QED
        BY <4>1, <4>2
    <3> QED
      BY <1>1, <1>2, <1>3, <1>4, <2>1, <3>1, <3>2, <3>3, ClosedStays
  <2> QED
    BY <2>2, <2>3
<1>7. ASSUME SaveRepaired PROVE ScoreInv'
  <2>1. /\ at \in Closing /\ at' \notin Closing /\ unrested' = unrested
        /\ port' = Cleared(port) /\ disk' = port'
    BY <1>7 DEF SaveRepaired, Move, Closing, history
  <2>2. bot.active = None /\ bot.vol = 0
    BY <1>7 DEF SaveRepaired, Move, DaemonInv, LoopHolds, Between
  <2> QED
    BY <1>1, <1>2, <1>3, <2>1, <2>2, ClearedStays
<1>8. ASSUME RepairRaises \/ ReconcileRefuses PROVE ScoreInv'
  <2>1. /\ at \notin Closing /\ at' \notin Closing /\ unrested' = unrested
        /\ port' = port /\ disk' = disk
    BY <1>8 DEF RepairRaises, ReconcileRefuses, Raise, Closing, history
  <2> QED
    BY <1>1, <1>2, <1>3, <1>4, <2>1, AlikeStays DEF Alike
<1>9. ASSUME ReconcileAccount PROVE ScoreInv'
  <2>1. ~ReconcileGone
    <3> SUFFICES ASSUME ReconcileGone PROVE FALSE
      OBVIOUS
    <3>1. bot' = HeldState(0) /\ bot.vol > 0
      BY DEF ReconcileGone
    <3> QED
      BY <1>1, <3>1 DEF HeldState
  <2>2. at \notin Closing /\ unrested' = unrested
    BY <1>9 DEF ReconcileAccount, Closing, history
  <2>3. at' \notin Closing /\ disk' = port' /\ port' \in Books /\ Alike(port', port)
    <3>1. CASE ReconcileVolume
      <4> DEFINE q == [port EXCEPT !.vol = holding[port.market]]
      <4>1. Return /\ disk' = port' /\ port' = q
        BY <1>1, <3>1, Zenon DEF ReconcileVolume, SaveUnlessFault
      <4>2. holding[port.market] \in Volumes
        BY <1>4, <3>1, IInvParts DEF Parts, GlobalTypeOK, ReconcileVolume, Books
      <4>3. q \in Books /\ Alike(q, port)
        BY <1>4, <4>2 DEF Books, Alike
      <4>4. at' \notin Closing
        BY <4>1 DEF Return, Closing
      <4> QED
        BY <4>1, <4>3, <4>4
    <3>2. CASE ReconcileCash
      BY <1>4, <3>2 DEF ReconcileCash, Return, Closing, Alike
    <3> QED
      BY <1>9, <2>1, <3>1, <3>2 DEF ReconcileAccount
  <2>4. disk' \in Books /\ Alike(disk', port)
    BY <2>3
  <2> QED
    BY <1>1, <1>2, <1>3, <1>4, <2>2, <2>3, <2>4, AlikeStays
<1>10. ~SaveGone
  BY <1>2 DEF SaveGone
<1> QED
  BY <1>5, <1>6, <1>7, <1>8, <1>9, <1>10 DEF AccountStep

----------------------------------------------------------------------------
(* After a call: what the recovery and the trades make of its outcome.     *)

LEMMA RecoveryKeepsScore ==
    ASSUME MaxReadFaults = 0, IInv, DaemonInv, ScoreInv, NEW d \in Daemons, RecoverStep(d)
    PROVE  ScoreInv'
<1>1. AtWork(d) /\ ~ReadFault /\ SaleIsTracked(d)
  BY DEF ReadFault, DaemonInv, ScoreInv
<1>2. port \in Books /\ disk \in Books /\ tally \in Tallies /\ BooksTyped
  BY DEF ScoreInv, BooksTyped, Tallies
<1>3. UNCHANGED <<gains, opened, tally>>
  BY DEF RecoverStep, RecoverRaises, AdoptBuy, AdoptRemainder, AccountAdopted, SaveAdopted, history
<1>4. ASSUME RecoverRaises(d) PROVE ScoreInv'
  <2>1. /\ Resume(d) /\ at \notin Closing /\ at' \notin Closing /\ unrested' = unrested
        /\ port' = port /\ disk' = disk
    BY <1>4 DEF RecoverRaises, Raise, Closing, history
  <2> QED
    BY <1>2, <1>3, <2>1, OutOfHand, AlikeStays DEF Alike
<1>5. ASSUME AdoptBuy(d) PROVE ScoreInv'
  <2> DEFINE m == snap[d].market
  <2>1. /\ Resume(d) /\ at \notin Closing /\ at' \notin Closing /\ unrested' = unrested
        /\ at = "recovering" /\ pc[d] = "settled" /\ snap[d].side = "bid"
    BY <1>1, <1>5 DEF AdoptBuy, Adopted, Move, SaveUnlessFault, Closing, history
  <2>2. CASE bot.vol = 0
    <3>1. port' = port /\ disk' = disk
      BY <1>5, <2>2 DEF AdoptBuy
    <3> QED
      BY <1>2, <1>3, <2>1, <3>1, OutOfHand, AlikeStays DEF Alike
  <2>3. CASE bot.vol # 0
    <3>1. m \in Markets /\ port.market = None /\ ledgerVol[m] > 0
      <4>1. bot.active = None /\ (bot.vol > 0 => m \in Markets) /\ port.market = None
        BY <1>1, <2>1 DEF AtWork, Untracked
      <4> QED
        BY <1>5, <2>3, <4>1, PositionFacts, ConstantsAssumption DEF AdoptBuy, Volumes
    <3>2. PICK h \in HighAtEntry(port) :
            port' = [Entered(port, m, h) EXCEPT !.legacy = FALSE] /\ disk' = port'
      BY <1>1, <1>5, <2>3, Zenon DEF AdoptBuy, SaveUnlessFault
    <3> DEFINE q == Entered(port, m, h)
    <3>3. q \in Books /\ q.legacy = port.legacy
      BY <1>2, <3>1, EnteredBook
    <3>4. ~port.legacy
      BY <2>1, <3>1, UntrackedInStep DEF ScoreInv, Keeps
    <3> HIDE DEF q
    <3>5. port' = [q EXCEPT !.legacy = FALSE]
      BY <3>2 DEF q
    <3>6. port' \in Books /\ Alike(port', q)
      BY <1>2, <3>3, <3>4, <3>5 DEF Books, Alike
    <3>7. Alike(port', Entered(port, m, h))
      BY <3>6 DEF q
    <3> QED
      BY <1>3, <2>1, <3>1, <3>2, <3>6, <3>7, OutOfHand, EnteredStays
  <2> QED
    BY <2>2, <2>3
<1>6. ASSUME AdoptRemainder(d) PROVE ScoreInv'
  <2> DEFINE m == snap[d].market
             v == IF ledgerVol[m] > 0 THEN ledgerVol[m] ELSE bot.vol
             hi == IF port.high = "zero" THEN "near" ELSE port.high
             p == [port EXCEPT !.market = m, !.vol = v, !.high = hi]
             q == [Accounted(p, m, FALSE) EXCEPT !.partial = TRUE]
  <2>1. /\ Resume(d) /\ at \notin Closing /\ at' \notin Closing /\ unrested' = unrested
        /\ at = "recovering" /\ pc[d] = "settled" /\ snap[d].side = "ask" /\ bot.vol > 0
    BY <1>6 DEF AdoptRemainder, Adopted, Raise, Move, SaveUnlessFault, Closing, history
  <2>2. \/ port' = p /\ disk' = disk
        \/ ledgerVol[m] = bot.vol /\ disk' = port' /\ port' \in {p, q}
    BY <1>1, <1>6 DEF AdoptRemainder, SaveUnlessFault
  <2>3. m = port.market /\ m # None /\ m \in Markets
    BY <1>1, <1>2, <2>1 DEF SaleIsTracked, Books
  <2>4. v \in Volumes /\ hi \in {"zero", "near", "above"}
    BY <1>2, <2>3, IInvParts DEF Parts, GlobalTypeOK, BotStates, Books
  <2> HIDE DEF v, hi
  <2>5. p \in Books /\ Alike(p, port)
    BY <1>2, <2>3, <2>4 DEF Books, Alike
  <2> HIDE DEF p
  <2>6. CASE port' = p
    <3>1. disk' = disk \/ disk' = port'
      BY <2>2
    <3>2. disk' \in Books /\ (Alike(disk', port) \/ Alike(disk', disk))
      BY <1>2, <2>5, <2>6, <3>1 DEF Alike
    <3> QED
      BY <1>2, <1>3, <2>1, <2>5, <2>6, <3>2, OutOfHand, AlikeStays
  <2>7. CASE port' = q /\ disk' = port' /\ ledgerVol[m] = bot.vol
    <3> DEFINE r == Accounted(p, m, FALSE)
    <3>1. r \in Books
      BY <1>2, <2>3, <2>5, AccountedBook
    <3> HIDE DEF r
    <3>2. port' = [r EXCEPT !.partial = TRUE]
      BY <2>7 DEF r
    <3>3. port' \in Books /\ Alike(port', r)
      BY <3>1, <3>2 DEF Books, Alike
    <3>4. Alike(port', Accounted(p, port.market, FALSE)) /\ ledgerVol[port.market] > 0
          /\ port.market # None
      BY <2>1, <2>3, <2>7, <3>3 DEF r
    <3> QED
      BY <1>3, <2>1, <2>5, <2>7, <3>3, <3>4, OutOfHand, PartlyStays
  <2> QED
    BY <2>2, <2>6, <2>7
<1>7. ASSUME AccountAdopted(d) PROVE ScoreInv'
  <2>1. /\ at = "recovering" /\ at' = "closeAdopted" /\ pc[d] = "settled" /\ snap[d].side = "ask"
        /\ bot.vol = 0 /\ disk' = disk
        /\ UNCHANGED <<bot, legacy, ledgerVol, pc, snap>>
    BY <1>7 DEF AccountAdopted, Move, vars, files, locals
  <2>2. bot.active = None
    BY <1>1, <2>1 DEF AtWork
  <2>3. snap[d].market = port.market /\ port.market # None /\ port.market \in Markets
    BY <1>1, <1>2, <2>1 DEF SaleIsTracked, Books
  <2>4. InStep(port, legacy, bot.vol, ledgerVol, gains, opened, tally)
        /\ InStep(disk, legacy, bot.vol, ledgerVol, gains, opened, tally)
    BY <2>1 DEF ScoreInv, Keeps, Closing
  <2>5. /\ port' \in Books /\ port'.market = port.market /\ ~unrested'
        /\ Closed(port', gains, tally)
    <3>1. CASE port.legacy
      <4>1. port' = port /\ unrested' = unrested
        BY <1>7, <3>1 DEF AccountAdopted
      <4> QED
        BY <1>2, <2>4, <3>1, <4>1, LegacyIsAccounted DEF ScoreInv, LossIsDue, SoldOut
    <3>2. CASE ~port.legacy
      <4>1. port' = Accounted(port, port.market, TRUE) /\ CoolDown(port, port.market)
        BY <1>7, <2>3, <3>2 DEF AccountAdopted
      <4>2. SoldOut(port, ledgerVol)
        BY <2>1, <2>2, <2>3, <3>2, FlatIsSoldOut DEF SoldOut
      <4> QED
        BY <2>1, <4>1, <4>2, ScoresTheTrade DEF Closing
    <3> QED
      BY <3>1, <3>2
  <2>6. ASSUME NEW e \in Daemons PROVE SaleIsTracked(e)'
    BY <2>1 DEF SaleIsTracked, InHand
  <2>7. at' \in Closing
    BY <2>1 DEF Closing
  <2> QED
    BY <1>2, <1>3, <2>1, <2>4, <2>5, <2>6, <2>7, ClosedStays
<1>8. ASSUME SaveAdopted(d) PROVE ScoreInv'
  <2>1. /\ Resume(d) /\ at \in Closing /\ at' \notin Closing /\ unrested' = unrested
        /\ port' = Cleared(port) /\ disk' = port'
    BY <1>8 DEF SaveAdopted, Move, Closing, history
  <2>2. bot.active = None /\ bot.vol = 0
    BY <1>8 DEF SaveAdopted, Move, DaemonInv, LoopHolds, Between
  <2> QED
    BY <1>3, <2>1, <2>2, OutOfHand, ClearedStays
<1> QED
  BY <1>4, <1>5, <1>6, <1>7, <1>8 DEF RecoverStep

LEMMA TradesKeepScore ==
    ASSUME MaxReadFaults = 0, IInv, DaemonInv, ScoreInv, NEW d \in Daemons, TradeStep(d)
    PROVE  ScoreInv'
<1>1. AtWork(d) /\ ~ReadFault /\ SaleIsTracked(d)
  BY DEF ReadFault, DaemonInv, ScoreInv
<1>2. port \in Books /\ disk \in Books /\ tally \in Tallies /\ BooksTyped
  BY DEF ScoreInv, BooksTyped, Tallies
<1>3. UNCHANGED <<gains, opened>>
  BY DEF TradeStep, BeginSell, BeginHalfSell, BeginBuy, OrderFails, FinishBuy, FinishRemainder,
     FinishHalf, AccountSold, SaveSold, Idle, history
<1>4. ASSUME BeginSell(d) \/ BeginHalfSell(d) \/ BeginBuy(d) PROVE ScoreInv'
  <2>1. /\ at \notin Closing /\ at' \notin Closing /\ UNCHANGED <<tally, unrested>>
        /\ port' = port /\ disk' = disk
        /\ pc[d] # "off" /\ Goto(d, "planned") /\ UNCHANGED <<bot, legacy, ledgerVol>>
    BY <1>4 DEF BeginSell, BeginHalfSell, BeginBuy, PlanExecution, Move, Idle, Closing, files,
       history
  <2>2. \A e \in Daemons : SaleIsTracked(e)'
    BY <2>1, NothingInHand DEF Points
  <2> QED
    BY <1>2, <1>3, <2>1, <2>2, AlikeStays DEF Alike
<1>5. ASSUME OrderFails(d) PROVE ScoreInv'
  <2>1. /\ Resume(d) /\ at \notin Closing /\ at' \notin Closing /\ UNCHANGED <<tally, unrested>>
        /\ port' = port /\ disk' = disk
    BY <1>5 DEF OrderFails, AfterOrder, Closing, history
  <2> QED
    BY <1>2, <1>3, <2>1, OutOfHand, AlikeStays DEF Alike
<1>6. ASSUME FinishBuy(d) PROVE ScoreInv'
  <2> DEFINE m == snap[d].market
  <2>1. /\ Resume(d) /\ at \notin Closing /\ at' \notin Closing /\ UNCHANGED <<tally, unrested>>
        /\ at = "buying" /\ pc[d] = "settled"
    BY <1>6 DEF FinishBuy, Move, Closing, history
  <2>2. CASE port' = port /\ disk' = disk
    BY <1>2, <1>3, <2>1, <2>2, OutOfHand, AlikeStays DEF Alike
  <2>3. CASE ~(port' = port /\ disk' = disk)
    <3>1. /\ bot.vol > 0 /\ holding[m] = ledgerVol[m]
          /\ \E h \in HighAtEntry(port) : port' = [Entered(port, m, h) EXCEPT !.partial = FALSE]
          /\ disk' = port'
      BY <1>6, <2>3 DEF FinishBuy
    <3>2. PICK h \in HighAtEntry(port) : port' = [Entered(port, m, h) EXCEPT !.partial = FALSE]
      BY <3>1
    <3>3. m \in Markets /\ port.market = None /\ ledgerVol[m] > 0
      BY <1>1, <2>1, <3>1 DEF AtWork, DaemonInv, FlatIsUntracked, Untracked
    <3> DEFINE q == Entered(port, m, h)
    <3>4. q \in Books
      BY <1>2, <3>3, EnteredBook
    <3> HIDE DEF q
    <3>5. port' = [q EXCEPT !.partial = FALSE]
      BY <3>2 DEF q
    <3>6. port' \in Books /\ Alike(port', q)
      BY <3>4, <3>5 DEF Books, Alike
    <3>7. Alike(port', Entered(port, m, h))
      BY <3>6 DEF q
    <3> QED
      BY <1>3, <2>1, <3>1, <3>3, <3>6, <3>7, OutOfHand, EnteredStays
  <2> QED
    BY <2>2, <2>3
<1>7. ASSUME FinishRemainder(d) PROVE ScoreInv'
  <2>1. /\ Resume(d) /\ at \notin Closing /\ at' \notin Closing /\ UNCHANGED <<tally, unrested>>
        /\ port' = [port EXCEPT !.vol = bot.vol] /\ disk' = port'
    BY <1>7 DEF FinishRemainder, Move, Closing, history
  <2>2. bot.vol \in Volumes
    BY IInvParts DEF Parts, GlobalTypeOK, BotStates
  <2>3. port' \in Books /\ Alike(port', port)
    BY <1>2, <2>1, <2>2 DEF Books, Alike
  <2>4. disk' \in Books /\ Alike(disk', port)
    BY <2>1, <2>3
  <2> QED
    BY <1>3, <2>1, <2>3, <2>4, OutOfHand, AlikeStays DEF Closing, FinishRemainder
<1>8. ASSUME FinishHalf(d) PROVE ScoreInv'
  <2> DEFINE m == snap[d].market
  <2>1. /\ Resume(d) /\ at \notin Closing /\ at' \notin Closing /\ UNCHANGED <<tally, unrested>>
        /\ at = "halving" /\ pc[d] = "settled"
    BY <1>8 DEF FinishHalf, Move, Closing, history
  <2>2. CASE port' = port /\ disk' = disk
    BY <1>2, <1>3, <2>1, <2>2, OutOfHand, AlikeStays DEF Alike
  <2>3. CASE ~(port' = port /\ disk' = disk)
    <3>1. /\ bot.vol = holding[m] /\ ledgerVol[m] = holding[m] /\ disk' = port'
          /\ port' = [Accounted(port, m, FALSE) EXCEPT !.vol = bot.vol, !.partial = TRUE]
      BY <1>8, <2>3 DEF FinishHalf
    <3>2. m = port.market /\ m # None /\ m \in Markets /\ bot.vol > 0
      BY <1>1, <1>2, <2>1 DEF SaleIsTracked, AtWork, Books
    <3> DEFINE r == Accounted(port, m, FALSE)
    <3>3. r \in Books /\ bot.vol \in Volumes
      BY <1>2, <3>2, AccountedBook, IInvParts DEF Parts, GlobalTypeOK, BotStates
    <3> HIDE DEF r
    <3>4. port' = [r EXCEPT !.vol = bot.vol, !.partial = TRUE]
      BY <3>1 DEF r
    <3>5. port' \in Books /\ Alike(port', r)
      BY <3>3, <3>4 DEF Books, Alike
    <3>6. Alike(port', Accounted(port, port.market, FALSE)) /\ Alike(port, port)
          /\ port.market # None /\ ledgerVol[port.market] > 0
      BY <3>1, <3>2, <3>5 DEF r, Alike
    <3> QED
      BY <1>2, <1>3, <2>1, <3>1, <3>5, <3>6, OutOfHand, PartlyStays
  <2> QED
    BY <2>2, <2>3
<1>9. ASSUME AccountSold(d) PROVE ScoreInv'
  <2>1. /\ at = "selling" /\ at' = "closeSold" /\ pc[d] = "settled" /\ bot.vol = 0
        /\ disk' = disk /\ UNCHANGED <<bot, legacy, ledgerVol, pc, snap>>
        /\ at \notin Closing /\ at' \in Closing
    BY <1>9 DEF AccountSold, Move, vars, files, locals, Closing
  <2>2. bot.active = None /\ (booked[snap[d].active] > 0 <=> ~port.legacy)
        /\ port.market # None /\ port.market \in Markets
    BY <1>1, <1>2, <2>1 DEF AtWork, SaleIsTracked, Books
  <2>3. InStep(port, legacy, bot.vol, ledgerVol, gains, opened, tally)
        /\ InStep(disk, legacy, bot.vol, ledgerVol, gains, opened, tally)
    BY <2>1 DEF ScoreInv, Keeps
  <2>4. ASSUME NEW e \in Daemons PROVE SaleIsTracked(e)'
    BY <2>1 DEF SaleIsTracked, InHand
  <2>5. CASE ~port.legacy
    <3>1. port' = Accounted(port, port.market, TRUE) /\ CoolDown(port, port.market)
          /\ tally' = tally
      BY <1>9, <2>2, <2>5 DEF AccountSold
    <3>2. SoldOut(port, ledgerVol)
      BY <2>1, <2>2, <2>5, FlatIsSoldOut DEF SoldOut
    <3>3. /\ port' \in Books /\ port'.market = port.market /\ ~unrested'
          /\ Closed(port', gains, tally)
      BY <2>1, <3>1, <3>2, ScoresTheTrade
    <3> QED
      BY <1>2, <1>3, <2>1, <2>3, <2>4, <3>1, <3>3, ClosedStays
  <2>6. CASE port.legacy
    <3>1. ~unrested' /\ Closed(port, gains, tally)
      <4>1. unrested' = unrested
        BY <1>9, <2>2, <2>6 DEF AccountSold
      <4>2. ~unrested
        BY <2>6 DEF ScoreInv, LossIsDue, SoldOut
      <4>3. Closed(port, gains, tally)
        BY <1>2, <2>3, <2>6, LegacyIsAccounted
      <4> QED
        BY <4>1, <4>2, <4>3
    <3>2. PICK w : w = port.wins + 1
      OBVIOUS
    <3>3. PICK l : l = port.losses + 1
      OBVIOUS
    <3>4. PICK n : n = tally.imported + 1
      OBVIOUS
    <3>5. /\ \/ port' = [port EXCEPT !.wins = w]
             \/ port' = [port EXCEPT !.losses = l]
          /\ tally' = [tally EXCEPT !.imported = n]
      BY <1>9, <2>2, <2>6, <3>2, <3>3, <3>4, Zenon DEF AccountSold
    <3>6. /\ port.wins \in Nat /\ port.losses \in Nat /\ w \in Nat /\ l \in Nat /\ n \in Nat
          /\ tally.won \in Nat /\ tally.lost \in Nat /\ tally.imported \in Nat
      BY <1>2, <3>2, <3>3, <3>4 DEF Books, Tallies
    <3>7. tally' \in Tallies /\ tally'.won = tally.won /\ tally'.lost = tally.lost
          /\ tally'.imported = tally.imported + 1
      BY <1>2, <3>4, <3>5, <3>6 DEF Tallies
    <3>8. InStep(disk, legacy, bot.vol, ledgerVol, gains, opened, tally')
      BY <1>2, <2>3, <3>7, ImportedInStep
    <3>9. /\ port' \in Books /\ port'.market = port.market /\ port'.stamped = port.stamped
          /\ port'.accounted = port.accounted
          /\ \/ port'.wins = w /\ port'.losses = port.losses
             \/ port'.losses = l /\ port'.wins = port.wins
      BY <1>2, <3>5, <3>6 DEF Books
    <3>10. Score(port', 0, 0, tally')
      BY <3>1, <3>2, <3>3, <3>6, <3>7, <3>9 DEF Closed, Score
    <3>11. Closed(port', gains, tally')
      BY <3>1, <3>9, <3>10 DEF Closed
    <3> QED
      BY <1>3, <2>1, <2>4, <3>1, <3>7, <3>8, <3>9, <3>11, ClosedStays
  <2> QED
    BY <2>5, <2>6
<1>10. ASSUME SaveSold(d) PROVE ScoreInv'
  <2>1. /\ Resume(d) /\ at \in Closing /\ at' \notin Closing /\ UNCHANGED <<tally, unrested>>
        /\ port' = Cleared(port) /\ disk' = port'
    BY <1>10 DEF SaveSold, Move, Closing, history
  <2>2. bot.active = None /\ bot.vol = 0
    BY <1>10 DEF SaveSold, Move, DaemonInv, LoopHolds, Between
  <2> QED
    BY <1>3, <2>1, <2>2, OutOfHand, ClearedStays
<1> QED
  BY <1>4, <1>5, <1>6, <1>7, <1>8, <1>9, <1>10 DEF TradeStep

----------------------------------------------------------------------------
LEMMA ScoreInvHolds == DaemonInit => ScoreInv
<1> SUFFICES ASSUME DaemonInit PROVE ScoreInv
  OBVIOUS
<1>1. IInv /\ bot.active = None /\ bot.vol \in Volumes /\ legacy \in BOOLEAN
      /\ ledgerVol \in [Markets -> Volumes]
  <2>1. IInv
    BY DaemonInitHolds
  <2>2. bot.active = None
    BY DEF DaemonInit, Init, HeldState
  <2> QED
    BY <2>1, <2>2, IInvParts DEF Parts, GlobalTypeOK, BotStates
<1>2. PICK zero : zero = 0
  OBVIOUS
<1>3. PICK m \in Markets \cup {None} :
        /\ m = None <=> bot.vol = 0
        /\ m # None => holding[m] > 0
        /\ port = [market |-> m, vol |-> bot.vol, entries |-> zero,
                   accounted |-> [n \in Markets |-> zero], baseline |-> zero,
                   wins |-> zero, losses |-> zero,
                   high |-> IF bot.vol > 0 THEN "near" ELSE "zero",
                   locked |-> FALSE, legacy |-> legacy, partial |-> FALSE,
                   eligible |-> Eligible(bot.policy), stamped |-> bot.vol > 0]
  BY <1>2, Zenon DEF DaemonInit
<1>4. /\ gains = [n \in Markets |-> zero] /\ opened = gains
      /\ tally = [won |-> zero, lost |-> zero, imported |-> zero]
  BY <1>2, Zenon DEF DaemonInit
<1>5. disk = port /\ at = "off" /\ ~unrested /\ \A d \in Daemons : pc[d] = "off"
  BY DEF DaemonInit, Init
<1>6. Eligible(bot.policy) \in BOOLEAN /\ (bot.vol > 0) \in BOOLEAN
      /\ (IF bot.vol > 0 THEN "near" ELSE "zero") \in {"zero", "near", "above"}
  BY DEF Eligible
<1>7. BooksTyped
  <2>1. zero \in Nat /\ zero \in Int
    BY <1>2
  <2>2. port \in Books
    BY <1>1, <1>3, <1>6, <2>1 DEF Books
  <2> QED
    BY <1>4, <1>5, <2>1, <2>2 DEF BooksTyped
<1>8. /\ port.market = m /\ port.legacy = legacy /\ port.stamped = (bot.vol > 0)
      /\ port.baseline = 0 /\ port.wins = 0 /\ port.losses = 0
      /\ \A n \in Markets : port.accounted[n] = 0 /\ gains[n] = 0 /\ opened[n] = 0
      /\ tally.won = 0 /\ tally.lost = 0 /\ tally.imported = 0
  BY <1>2, <1>3, <1>4
<1>9. m # None /\ ~legacy => m \in Markets /\ ledgerVol[m] > 0
  BY <1>1, <1>3, PositionFacts
<1>10. Marked(port, legacy, bot.vol)
  <2>1. m # None <=> bot.vol > 0
    BY <1>1, <1>3, ConstantsAssumption DEF Volumes
  <2>2. legacy => bot.vol > 0
    BY <1>1, PositionFacts
  <2> QED
    BY <1>8, <2>1, <2>2 DEF Marked
<1>11. Totalled(port, ledgerVol, gains, opened)
  <2>1. ASSUME m # None, ~legacy
        PROVE  /\ 0 \in 0..(Lot - ledgerVol[m]) /\ ledgerVol[m] # 0
               /\ gains[m] - port.accounted[m] \in Results(0)
    <3>1. ledgerVol[m] \in Volumes /\ ledgerVol[m] > 0 /\ m \in Markets
      BY <1>1, <1>9, <2>1
    <3>2. gains[m] - port.accounted[m] = 0
      BY <1>8, <3>1
    <3> QED
      BY <3>1, <3>2, ResultsOfNone, ConstantsAssumption DEF Volumes
  <2>2. port.market # None /\ ~port.legacy => port.baseline = opened[port.market]
    BY <1>8, <1>9
  <2> QED
    BY <1>8, <2>1, <2>2 DEF Totalled
<1>12. Scored(port, ledgerVol, gains, opened, tally)
  <2>1. ~SoldOut(port, ledgerVol)
    BY <1>8, <1>9 DEF SoldOut
  <2> QED
    BY <1>8, <2>1 DEF Scored, Score
<1> QED
  BY <1>1, <1>5, <1>7, <1>8, <1>10, <1>11, <1>12 DEF ScoreInv, Keeps, InStep, SaleIsTracked, Closing

LEMMA ScoreInvKept ==
    ASSUME ~ManualSales, MaxReadFaults = 0, IInv, DaemonInv, ScoreInv, [DaemonNext]_allVars
    PROVE  ScoreInv'
BY BootKeepsScore, CallKeepsScore, BookingKeepsScore, SettlingKeepsScore, RecoveryKeepsScore,
   TradesKeepScore, AccountKeepsScore, LoopKeepsScore, EnvironmentKeepsScore DEF DaemonNext

LEMMA ScoreIsKept ==
    ASSUME ~ManualSales, MaxReadFaults = 0
    PROVE  DaemonSpec => [](IInv /\ DaemonInv /\ ScoreInv)
<1>1. DaemonInit => IInv /\ DaemonInv /\ ScoreInv
  BY DaemonInitHolds, DaemonInvHolds, ScoreInvHolds
<1>2. IInv /\ DaemonInv /\ ScoreInv /\ [DaemonNext]_allVars => (IInv /\ DaemonInv /\ ScoreInv)'
  BY DaemonInvKept, ScoreInvKept
<1> QED
  BY <1>1, <1>2, PTL DEF DaemonSpec

(* Whatever crashes between the sale that loses and the file that rests    *)
(* the market, no buy is open until the rest is set                        *)
(* (autonomous_trader.py: LOSS_COOLDOWN_SEC, account_ledger_realization).  *)
THEOREM LossesRestFirst ==
    ~ManualSales /\ MaxReadFaults = 0 /\ DaemonSpec => []LossRestsFirst
<1> SUFFICES ASSUME ~ManualSales, MaxReadFaults = 0
             PROVE  DaemonSpec => []LossRestsFirst
  OBVIOUS
<1>1. ASSUME IInv, DaemonInv, ScoreInv PROVE LossRestsFirst
  <2> SUFFICES ASSUME unrested, NEW i \in Ids, Open(i), orders[i].side = "bid" PROVE FALSE
    BY DEF LossRestsFirst
  <2>1. port.market # None
    BY <1>1 DEF ScoreInv, LossIsDue, SoldOut
  <2>2. bot.active = i /\ i # None /\ orders[i].st # "none"
    BY <1>1, IInvParts, ConstantsAssumption DEF Parts, Shared, NoOrphanOrder, Open
  <2>3. bot.side = "bid"
    BY <1>1, <2>2, IInvParts DEF Parts, Shared, OrdersAreKnown
  <2> QED
    BY <1>1, <2>1, <2>2, <2>3 DEF DaemonInv, Tracks
<1> QED
  BY <1>1, ScoreIsKept, PTL

(* Whatever crashes, every trade the ledger closed is taken over once, as  *)
(* the win or the loss it was, before the loop goes on with nothing held,  *)
(* and none is scored twice (autonomous_trader.py:                         *)
(* account_ledger_realization, docstring: exactly once).                   *)
THEOREM TradesAreScored ==
    ~ManualSales /\ MaxReadFaults = 0 /\ DaemonSpec => []EveryTradeIsScored
<1> SUFFICES ASSUME ~ManualSales, MaxReadFaults = 0
             PROVE  DaemonSpec => []EveryTradeIsScored
  OBVIOUS
<1>1. ASSUME IInv, DaemonInv, ScoreInv PROVE EveryTradeIsScored
  <2>1. /\ port \in Books /\ gains \in [Markets -> Int]
        /\ port.wins \in Nat /\ port.losses \in Nat
        /\ tally.won \in Nat /\ tally.lost \in Nat /\ tally.imported \in Nat
    BY <1>1 DEF ScoreInv, BooksTyped, Books
  <2>2. port.wins + port.losses <= tally.won + tally.lost + tally.imported
    BY <1>1, <2>1 DEF ScoreInv, Keeps, InStep, Scored, Closed, Score
  <2>3. ASSUME Quiet
        PROVE  /\ port.market = None
               /\ port.accounted = gains
               /\ port.wins - tally.won \in 0..tally.imported
               /\ port.losses - tally.lost \in 0..tally.imported
    <3>1. port.market = None
      BY <1>1, <2>3 DEF Quiet, DaemonInv, FlatIsUntracked, Untracked
    <3>2. InStep(port, legacy, bot.vol, ledgerVol, gains, opened, tally)
      BY <1>1, <2>3 DEF Quiet, ScoreInv, Keeps, Closing
    <3>3. \A n \in Markets : port.accounted[n] = gains[n]
      BY <3>1, <3>2, ConstantsAssumption DEF InStep, Totalled
    <3>4. port.accounted = gains
      BY <2>1, <3>3 DEF Books
    <3>5. Score(port, 0, 0, tally)
      BY <3>1, <3>2 DEF InStep, Scored, SoldOut
    <3>6. /\ port.wins - tally.won \in 0..tally.imported
          /\ port.losses - tally.lost \in 0..tally.imported
      BY <2>1, <3>5 DEF Score
    <3> QED
      BY <3>1, <3>4, <3>6
  <2> QED
    BY <2>2, <2>3 DEF EveryTradeIsScored
<1> QED
  BY <1>1, ScoreIsKept, PTL

----------------------------------------------------------------------------
(* The daemon's counters and amounts stay within what the orders allow,    *)
(* failed reads included: an entry is a buy that is over, a trade scored   *)
(* is a sale in the ledger, and so is each change of the gains.  None of   *)
(* the invariants above is used, for they need every read to succeed.      *)

(* Orders that are over, the buys among them, and those with trades in the *)
(* ledger.                                                                 *)
Past(i) == orders[i].st # "none" /\ bot.active # i

Buys == {i \in Ids : Past(i) /\ orders[i].side = "bid"}

Booked == {i \in Ids : booked[i] > 0}

(* What so many orders in the ledger may have lost or brought.             *)
Amounts(c) == -(Lot * c)..((Lot + 1) * Lot * c)

(* A portfolio with no more entries than buys and amounts the ledger had.  *)
Counted(p, b, c) ==
    /\ p.entries <= b
    /\ p.baseline \in Amounts(c)
    /\ \A m \in Markets : p.accounted[m] \in Amounts(c)

(* The markets that are sold out with gains a portfolio has not taken over *)
(* yet: it may still score one trade for each, and has scored no more than *)
(* were closed.                                                            *)
Unscored(p) == {m \in Markets : ledgerVol[m] = 0 /\ gains[m] # p.accounted[m]}

ScoredOnce(p) ==
    /\ IsFiniteSet(Unscored(p))
    /\ p.wins + p.losses + Cardinality(Unscored(p)) <= tally.won + tally.lost + tally.imported

(* Inside a call a position is sold, or none is held and one is bought,    *)
(* and an order is settled only there.                                     *)
InCall(d) ==
    /\ ~Trading => pc[d] \in {"off", "caller", "settled"}
    /\ pc[d] = "settled" => at \in InHand /\ bot.active = None
    /\ at \in {"selling", "halving", "buying"} => pc[d] # "caller"
    /\ at \in {"selling", "halving"} /\ pc[d] \notin {"off", "settled"} => bot.vol > 0
    /\ at = "buying" /\ pc[d] \notin {"off", "settled"} => bot.vol = 0

CallsHold ==
    /\ at # "closeGone"
    /\ at \in {"selling", "halving"} => port.market \in Markets
    /\ \A d \in Daemons : InCall(d)

(* A settled order in hand is over; a buy is counted in no portfolio yet,  *)
(* and the sale of a position older than the ledger is not either.         *)
HandCounted(d) ==
    pc[d] = "settled" =>
      /\ snap[d].active \in Ids /\ Past(snap[d].active) /\ snap[d].market \in Markets
      /\ \/ at = "buying"
         \/ at = "recovering" /\ snap[d].side = "bid"
         => port.entries < Cardinality(Buys) /\ disk.entries < Cardinality(Buys)
      /\ at = "selling" /\ bot.vol = 0 /\ booked[snap[d].active] = 0 => tally.imported = 0

(* Only the position older than the ledger is sold without it, and once.   *)
ImportedOnce ==
    /\ tally.imported > 0 => \E i \in Ids : Past(i) /\ booked[i] = 0
    /\ tally.imported <= 1
    /\ legacy => tally.imported = 0

ControlTyped ==
    /\ at \in Places /\ back \in {"boot", "pending", "hint", "periodic", "loop"}
    /\ healthy \in BOOLEAN /\ hint \in BOOLEAN /\ dayTurned \in BOOLEAN
    /\ rest \in BOOLEAN /\ exits \subseteq Markets
    /\ crashes \in 0..MaxCrashes /\ faults \in 0..MaxReadFaults
    /\ unrested \in BOOLEAN /\ earned \in BOOLEAN

CountInv ==
    /\ entered \in Nat /\ entered <= Cardinality(Buys)
    /\ Counted(port, Cardinality(Buys), Cardinality(Booked))
    /\ Counted(disk, Cardinality(Buys), Cardinality(Booked))
    /\ \A m \in Markets : /\ gains[m] \in Amounts(Cardinality(Booked))
                          /\ opened[m] \in Amounts(Cardinality(Booked))
    /\ tally.won + tally.lost <= Cardinality(Booked)
    /\ ImportedOnce
    /\ ScoredOnce(port) /\ ScoredOnce(disk)
    /\ \A d \in Daemons : HandCounted(d)

----------------------------------------------------------------------------
(* Orders only grow, and what is over stays over.                          *)

OrdersGoOn ==
    /\ \A i \in Ids : Past(i) => Past(i)' /\ orders'[i].side = orders[i].side
                                 /\ booked'[i] = booked[i]
    /\ \A i \in Ids : booked[i] > 0 => booked'[i] > 0
    /\ legacy' => legacy

LEMMA OrdersGo ==
    ASSUME IInv, [Next]_vars
    PROVE  OrdersGoOn
<1>1. /\ orders \in [Ids -> Orders] /\ booked \in [Ids -> Volumes] /\ legacy \in BOOLEAN
      /\ plan \in [Daemons -> Plans]
      /\ seen \in [Daemons -> [st : {"none", "done", "cancel"}, filled : Volumes]]
      /\ SingleDaemon /\ PointsHold /\ OrdersAreKnown /\ StateIsValid
  BY IInvParts DEF Parts, GlobalTypeOK, LocalTypeOK, Shared
<1>2. ASSUME UNCHANGED <<orders, booked, legacy>>, bot' = bot \/ bot'.active = None
      PROVE  OrdersGoOn
  BY <1>2, ConstantsAssumption DEF Past, OrdersGoOn
<1>3. ASSUME NEW d \in Daemons,
             \/ Start(d) \/ Crash(d) \/ Resume(d) \/ PlanExecution(d) \/ Refuse(d) \/ Validate(d)
             \/ CheckOrderChance(d) \/ Accepted(d) \/ AnswerFails(d) \/ ReadTerminal(d)
             \/ ReconcileRaises(d) \/ AppendRaises(d)
      PROVE  OrdersGoOn
  BY <1>2, <1>3 DEF Start, Crash, Resume, PlanExecution, Refuse, Validate, CheckOrderChance,
     Accepted, AnswerFails, ReadTerminal, ReconcileRaises, AppendRaises, files, venue
<1>4. ASSUME NEW d \in Daemons, PersistActive(d) PROVE OrdersGoOn
  <2>1. /\ orders[plan[d].id].st = "none" /\ plan[d].id \in Ids
        /\ bot' = bot \/ bot'.active = plan[d].id
    BY <1>1, <1>4 DEF PersistActive, PointsHold, PointHolds, PlanIsFresh, ActiveState
  <2>2. UNCHANGED <<orders, booked, legacy>>
    BY <1>4 DEF PersistActive, venue
  <2> QED
    BY <2>1, <2>2 DEF Past, OrdersGoOn
<1>5. ASSUME NEW d \in Daemons, PlaceOrder(d) PROVE OrdersGoOn
  <2>1. /\ plan[d].id \in Ids /\ bot.active = plan[d].id
    BY <1>1, <1>5 DEF PlaceOrder, PointsHold, PointHolds
  <2>2. UNCHANGED <<bot, booked, legacy>> /\ \A i \in Ids : i # plan[d].id => orders'[i] = orders[i]
    BY <1>1, <1>5 DEF PlaceOrder, files
  <2> QED
    BY <2>1, <2>2 DEF Past, OrdersGoOn
<1>6. ASSUME NEW d \in Daemons, MarkUntracked(d) PROVE OrdersGoOn
  <2>1. bot = ActiveState(snap[d], plan[d])
    BY <1>1, <1>6 DEF MarkUntracked, PointsHold, PointHolds
  <2>2. bot'.active = bot.active /\ UNCHANGED <<orders, booked, legacy>>
    BY <1>6, <2>1 DEF MarkUntracked, ActiveState, venue
  <2> QED
    BY <2>2 DEF Past, OrdersGoOn
<1>7. ASSUME NEW d \in Daemons, AppendFills(d) PROVE OrdersGoOn
  <2>1. /\ snap[d] = bot /\ bot.active # None
        /\ seen[d].filled \in Volumes
    BY <1>1, <1>7 DEF AppendFills, PointsHold, PointHolds
  <2>2. /\ UNCHANGED <<bot, orders, legacy>>
        /\ booked' \in {booked, [booked EXCEPT ![bot.active] = seen[d].filled]}
        /\ booked' # booked => seen[d].filled > 0
    BY <1>7, <2>1 DEF AppendFills, venue, MustBook
  <2>3. ASSUME NEW i \in Ids PROVE booked'[i] = booked[i] \/ (i = bot.active /\ booked'[i] > 0)
    <3>1. CASE booked' = booked
      BY <3>1
    <3>2. CASE booked' # booked
      BY <1>1, <2>2, <3>2
    <3> QED
      BY <3>1, <3>2
  <2> QED
    BY <1>1, <2>2, <2>3 DEF Past, OrdersGoOn
<1>8. ASSUME NEW d \in Daemons, SaveTerminal(d) PROVE OrdersGoOn
  <2>1. bot'.active = None /\ UNCHANGED <<orders, booked>> /\ (legacy' => legacy)
    BY <1>8 DEF SaveTerminal, AfterFill, HeldState, venue
  <2> QED
    BY <2>1, ConstantsAssumption DEF Past, OrdersGoOn
<1>9. ASSUME NEW j \in Ids, Exchange(j) PROVE OrdersGoOn
  <2>1. UNCHANGED <<bot, booked, legacy>>
    BY <1>9 DEF Exchange, Arrive, Lose, Fill, Complete, CancelRest, files
  <2>2. \A i \in Ids : /\ orders'[i].side = orders[i].side
                       /\ orders'[i].st = "none" => orders[i].st = "none"
    <3>1. \A i \in Ids : i # j => orders'[i] = orders[i]
      BY <1>1, <1>9 DEF Exchange, Arrive, Lose, Fill, Complete, CancelRest
    <3>2. PICK f : f = orders[j].filled + 1
      OBVIOUS
    <3>3. \E s \in {"wait", "lost", "done", "cancel"} :
            orders' \in {[orders EXCEPT ![j].st = s], [orders EXCEPT ![j].filled = f]}
      BY <1>9, <3>2, Zenon DEF Exchange, Arrive, Lose, Fill, Complete, CancelRest
    <3>4. orders'[j].side = orders[j].side /\ (orders'[j].st = "none" => orders[j].st = "none")
      BY <1>1, <3>3 DEF Orders
    <3> QED
      BY <3>1, <3>4
  <2> QED
    BY <2>1, <2>2 DEF Past, OrdersGoOn
<1>10. ASSUME UNCHANGED vars PROVE OrdersGoOn
  BY <1>2, <1>10 DEF vars, files, venue
<1> QED
  BY <1>3, <1>4, <1>5, <1>6, <1>7, <1>8, <1>9, <1>10 DEF Next, Execute, Reconcile

(* So the counts of what is over, and of what is booked, only rise.        *)
LEMMA CountsRise ==
    ASSUME IsFiniteSet(Ids), IInv, [Next]_vars
    PROVE  /\ Buys \subseteq Buys' /\ Booked \subseteq Booked'
           /\ Cardinality(Buys) \in Nat /\ Cardinality(Buys)' \in Nat
           /\ Cardinality(Booked) \in Nat /\ Cardinality(Booked)' \in Nat
           /\ Cardinality(Buys) <= Cardinality(Buys)'
           /\ Cardinality(Booked) <= Cardinality(Booked)'
<1>1. Buys \subseteq Buys' /\ Booked \subseteq Booked'
  BY OrdersGo DEF OrdersGoOn, Buys, Booked
<1>2. /\ IsFiniteSet(Buys') /\ IsFiniteSet(Booked') /\ IsFiniteSet(Buys) /\ IsFiniteSet(Booked)
  BY FS_Subset DEF Buys, Booked
<1>3. /\ Cardinality(Buys) \in Nat /\ Cardinality(Buys') \in Nat
      /\ Cardinality(Booked) \in Nat /\ Cardinality(Booked') \in Nat
  BY <1>2, FS_CardinalityType
<1>4. Cardinality(Buys) <= Cardinality(Buys') /\ Cardinality(Booked) <= Cardinality(Booked')
  BY <1>1, <1>2, FS_Subset
<1> QED
  BY <1>1, <1>3, <1>4

(* One more of either.                                                     *)
LEMMA OneMore ==
    ASSUME NEW S, NEW T, IsFiniteSet(T), S \subseteq T, NEW i \in T, i \notin S
    PROVE  Cardinality(S) + 1 <= Cardinality(T)
<1>1. IsFiniteSet(S) /\ S \cup {i} \subseteq T
  BY FS_Subset
<1>2. IsFiniteSet(S \cup {i}) /\ Cardinality(S \cup {i}) = Cardinality(S) + 1
  BY <1>1, FS_AddElement
<1>3. Cardinality(S \cup {i}) <= Cardinality(T)
  BY <1>1, FS_Subset
<1> QED
  BY <1>2, <1>3

----------------------------------------------------------------------------
(* Amounts.                                                                *)

LEMMA AmountsGrow ==
    ASSUME NEW c \in Nat, NEW k \in Nat, c <= k, NEW x \in Amounts(c)
    PROVE  x \in Amounts(k)
<1>1. Lot \in Nat
  BY ConstantsAssumption
<1>2. PICK e \in Nat : k = c + e
  <2>1. k - c \in Nat /\ k = c + (k - c)
    OBVIOUS
  <2> QED
    BY <2>1
<1> DEFINE low(n) == Lot * n
           top(n) == (Lot + 1) * Lot * n
<1>3. /\ low(k) = low(c) + low(e) /\ low(e) \in Nat /\ low(c) \in Nat /\ low(k) \in Nat
  BY <1>1, <1>2
<1>4. /\ (Lot + 1) * Lot \in Nat
  BY <1>1
<1>5. /\ top(k) = top(c) + top(e) /\ top(e) \in Nat /\ top(c) \in Nat /\ top(k) \in Nat
  BY <1>2, <1>4
<1>6. x \in -low(c)..top(c)
  BY DEF Amounts
<1> HIDE DEF low, top
<1>7. x \in -low(k)..top(k)
  BY <1>3, <1>5, <1>6
<1> QED
  BY <1>7 DEF low, top, Amounts

LEMMA AmountsOfSale ==
    ASSUME NEW c \in Nat, NEW x \in Amounts(c), NEW n \in 1..Lot, NEW g \in {-n, (Lot + 1) * n}
    PROVE  x + g \in Amounts(c + 1)
<1>1. Lot \in Nat /\ n \in Nat /\ n <= Lot
  BY ConstantsAssumption
<1> DEFINE low(k) == Lot * k
           top(k) == (Lot + 1) * Lot * k
           one == (Lot + 1) * Lot
           won == (Lot + 1) * n
<1>2. low(c + 1) = low(c) + Lot /\ low(c) \in Nat
  BY <1>1
<1>3. one \in Nat
  BY <1>1
<1>4. top(c + 1) = top(c) + one /\ top(c) \in Nat
  BY <1>3
<1>5. won \in Nat /\ won <= one
  <2>1. PICK e \in Nat : Lot = n + e
    <3>1. Lot - n \in Nat /\ Lot = n + (Lot - n)
      BY <1>1
    <3> QED
      BY <3>1
  <2>2. one = won + (Lot + 1) * e /\ (Lot + 1) * e \in Nat /\ won \in Nat
    BY <1>1, <2>1
  <2> QED
    BY <2>2, <1>3
<1>6. x \in -low(c)..top(c)
  BY DEF Amounts
<1>7. g \in {-n, won}
  OBVIOUS
<1> HIDE DEF low, top, one, won
<1>8. x + g \in -low(c + 1)..top(c + 1)
  BY <1>1, <1>2, <1>3, <1>4, <1>5, <1>6, <1>7
<1> QED
  BY <1>8 DEF low, top, Amounts

LEMMA NothingIsAnAmount ==
    ASSUME NEW c \in Nat
    PROVE  0 \in Amounts(c)
<1>1. Lot \in Nat /\ (Lot + 1) * Lot \in Nat
  BY ConstantsAssumption
<1>2. Lot * c \in Nat /\ (Lot + 1) * Lot * c \in Nat
  BY <1>1
<1> QED
  BY <1>2 DEF Amounts

----------------------------------------------------------------------------
(* A portfolio made from another one, from nothing or from the ledger: it  *)
(* takes gains over and scores at most one trade, one of a market whose    *)
(* gains it now has.                                                       *)
From(q, p) ==
    /\ q \in Books
    /\ q.entries <= p.entries
    /\ q.baseline = p.baseline \/ q.baseline = 0 \/ (\E m \in Markets : q.baseline = gains[m])
    /\ \A m \in Markets : q.accounted[m] = p.accounted[m] \/ q.accounted[m] = gains[m]
    /\ \/ q.wins + q.losses = p.wins + p.losses
       \/ /\ q.wins + q.losses = p.wins + p.losses + 1
          /\ \E m \in Unscored(p) : m \notin Unscored(q)

Same(q, p) ==
    /\ q \in Books
    /\ q.entries = p.entries /\ q.baseline = p.baseline /\ q.accounted = p.accounted
    /\ q.wins = p.wins /\ q.losses = p.losses

LEMMA AccountedFrom ==
    ASSUME BooksTyped, NEW p \in Books, NEW m \in Markets, NEW terminal \in BOOLEAN,
           terminal => ledgerVol[m] = 0
    PROVE  Accounted(p, m, terminal) \in Books /\ From(Accounted(p, m, terminal), p)
<1> DEFINE q == Accounted(p, m, terminal)
<1>1. /\ q \in Books /\ q.baseline = p.baseline /\ q.entries = p.entries
      /\ q.accounted = [p.accounted EXCEPT ![m] = gains[m]]
      /\ q.wins = IF gains[m] # p.accounted[m] /\ terminal /\ gains[m] - p.baseline >= 0
                    THEN p.wins + 1 ELSE p.wins
      /\ q.losses = IF gains[m] # p.accounted[m] /\ terminal /\ ~(gains[m] - p.baseline >= 0)
                      THEN p.losses + 1 ELSE p.losses
  BY AccountedBook
<1> HIDE DEF q
<1>2. p.entries \in Nat /\ p.accounted \in [Markets -> Int] /\ p.wins \in Nat /\ p.losses \in Nat
  BY DEF Books
<1>3. /\ q.entries <= p.entries
      /\ \A n \in Markets : q.accounted[n] = p.accounted[n] \/ q.accounted[n] = gains[n]
  BY <1>1, <1>2
<1>4. CASE gains[m] = p.accounted[m] \/ ~terminal
  <2>1. q.wins = p.wins /\ q.losses = p.losses
    BY <1>1, <1>4
  <2> QED
    BY <1>1, <1>3, <2>1 DEF From, q
<1>5. CASE gains[m] # p.accounted[m] /\ terminal
  <2>1. q.wins + q.losses = p.wins + p.losses + 1
    BY <1>1, <1>2, <1>5
  <2>2. m \in Unscored(p)
    BY <1>5 DEF Unscored
  <2>3. q.accounted[m] = gains[m]
    BY <1>1, <1>2
  <2>4. m \notin Unscored(q)
    BY <2>3 DEF Unscored
  <2> QED
    BY <1>1, <1>3, <2>1, <2>2, <2>4 DEF From, q
<1> QED
  BY <1>4, <1>5

LEMMA SameFrom ==
    ASSUME NEW p \in Books, NEW q, NEW r, Same(q, r), From(r, p)
    PROVE  From(q, p)
<1>1. Unscored(q) = Unscored(r)
  BY DEF Same, Unscored
<1> QED
  BY <1>1 DEF Same, From

LEMMA SelfFrom ==
    ASSUME NEW p \in Books
    PROVE  From(p, p)
<1>1. p.entries \in Nat
  BY DEF Books
<1> QED
  BY <1>1 DEF From

LEMMA FromSame ==
    ASSUME NEW p \in Books, NEW q, NEW r, From(q, r), Same(r, p)
    PROVE  From(q, p)
<1>1. Unscored(r) = Unscored(p)
  BY DEF Same, Unscored
<1> QED
  BY <1>1 DEF Same, From

LEMMA ClearedFrom ==
    ASSUME NEW p \in Books
    PROVE  From(Cleared(p), p)
<1> DEFINE q == Cleared(p)
<1>1. /\ q \in Books /\ q.entries = p.entries /\ q.accounted = p.accounted /\ p.entries \in Nat
      /\ q.wins = p.wins /\ q.losses = p.losses
  BY ClearedBook DEF Books
<1>2. q.baseline = 0
  <2>1. PICK zero : zero = 0
    OBVIOUS
  <2>2. q = [[p EXCEPT !.market = None, !.vol = zero, !.high = "zero", !.legacy = FALSE,
                       !.partial = FALSE, !.baseline = zero, !.eligible = FALSE,
                       !.stamped = FALSE] EXCEPT !.locked = FALSE]
    BY <2>1, Zenon DEF Cleared, ClearedByReconcile
  <2> HIDE DEF q
  <2> QED
    BY <2>1, <2>2 DEF Books
<1> HIDE DEF q
<1>3. From(q, p)
  BY <1>1, <1>2 DEF From
<1> QED
  BY <1>3 DEF q

LEMMA RepairedFrom ==
    ASSUME IInv, BooksTyped, NEW p \in Books, NEW m \in Markets
    PROVE  From(Repaired(p, m), p)
<1> DEFINE q == Repaired(p, m)
<1>1. /\ q \in Books
      /\ q.accounted \in {p.accounted, [p.accounted EXCEPT ![m] = gains[m]]}
      /\ q.entries = p.entries /\ q.wins = p.wins /\ q.losses = p.losses
      /\ q.baseline = IF p.stamped THEN p.baseline ELSE gains[m]
  BY RepairedBook
<1> HIDE DEF q
<1>2. p.entries \in Nat /\ p.accounted \in [Markets -> Int]
  BY DEF Books
<1>3. From(q, p)
  BY <1>1, <1>2 DEF From
<1> QED
  BY <1>3 DEF q

(* What is counted stays counted when the counts rise, and in what is made *)
(* from it.                                                                *)
LEMMA FromCounted ==
    ASSUME NEW p \in Books, NEW q, From(q, p),
           NEW b \in Nat, NEW b2 \in Nat, NEW c \in Nat, NEW c2 \in Nat, b <= b2, c <= c2,
           Counted(p, b, c), \A m \in Markets : gains[m] \in Amounts(c)
    PROVE  Counted(q, b2, c2)
<1>1. q.entries <= b2
  <2>1. q.entries <= p.entries /\ p.entries <= b /\ p.entries \in Nat /\ q.entries \in Nat
    BY DEF From, Counted, Books
  <2> QED
    BY <2>1
<1>2. q.baseline \in Amounts(c) /\ \A m \in Markets : q.accounted[m] \in Amounts(c)
  BY NothingIsAnAmount DEF From, Counted
<1>3. q.baseline \in Amounts(c2) /\ \A m \in Markets : q.accounted[m] \in Amounts(c2)
  BY <1>2, AmountsGrow
<1> QED
  BY <1>1, <1>3 DEF Counted

(* A trade that is scored is one less to be scored.                        *)
LEMMA FromScored ==
    ASSUME BooksTyped, NEW p \in Books, NEW q, From(q, p), ScoredOnce(p)
    PROVE  ScoredOnce(q)
<1> DEFINE S == Unscored(p)
           T == Unscored(q)
<1>1. T \subseteq S
  BY DEF From, Unscored
<1>2. /\ IsFiniteSet(S) /\ IsFiniteSet(T)
      /\ Cardinality(S) \in Nat /\ Cardinality(T) \in Nat /\ Cardinality(T) <= Cardinality(S)
  BY <1>1, FS_Subset, FS_CardinalityType DEF ScoredOnce
<1>3. /\ p.wins \in Nat /\ p.losses \in Nat /\ q.wins \in Nat /\ q.losses \in Nat
      /\ tally.won \in Nat /\ tally.lost \in Nat /\ tally.imported \in Nat
  BY DEF From, Books, BooksTyped
<1>4. q.wins + q.losses + Cardinality(T) <= p.wins + p.losses + Cardinality(S)
  <2>1. CASE q.wins + q.losses = p.wins + p.losses
    BY <1>2, <1>3, <2>1
  <2>2. CASE q.wins + q.losses = p.wins + p.losses + 1 /\ \E m \in S : m \notin T
    <3>1. Cardinality(T) + 1 <= Cardinality(S)
      BY <1>1, <1>2, <2>2, OneMore
    <3> QED
      BY <1>2, <1>3, <2>2, <3>1
  <2> QED
    BY <2>1, <2>2 DEF From
<1>5. p.wins + p.losses + Cardinality(S) <= tally.won + tally.lost + tally.imported
  BY DEF ScoredOnce
<1>6. q.wins + q.losses + Cardinality(T) <= tally.won + tally.lost + tally.imported
  BY <1>2, <1>3, <1>4, <1>5
<1> QED
  BY <1>2, <1>6 DEF ScoredOnce

----------------------------------------------------------------------------
(* Steps that change the portfolios only.                                  *)

(* An imported sale stays one.                                             *)
LEMMA ImportedStays ==
    ASSUME IInv, [Next]_vars, ImportedOnce, tally'.imported = tally.imported
    PROVE  ImportedOnce'
<1>1. tally.imported > 0 => \E i \in Ids : Past(i)' /\ booked'[i] = 0
  <2> SUFFICES ASSUME NEW i \in Ids, Past(i), booked[i] = 0 PROVE Past(i)' /\ booked'[i] = 0
    BY DEF ImportedOnce
  <2> QED
    BY OrdersGo DEF OrdersGoOn
<1>2. legacy' => legacy
  BY OrdersGo DEF OrdersGoOn
<1> QED
  BY <1>1, <1>2 DEF ImportedOnce

LEMMA CountedStays ==
    ASSUME IsFiniteSet(Ids), IInv, [Next]_vars, BooksTyped, CountInv,
           UNCHANGED <<gains, opened, tally, ledgerVol>>, entered' \in {0, entered},
           port' \in Books, disk' \in Books,
           Counted(port', Cardinality(Buys)', Cardinality(Booked)'),
           Counted(disk', Cardinality(Buys)', Cardinality(Booked)'),
           ScoredOnce(port'), ScoredOnce(disk'),
           \A d \in Daemons : HandCounted(d)'
    PROVE  BooksTyped' /\ CountInv'
<1> DEFINE b == Cardinality(Buys)
           b2 == Cardinality(Buys)'
           c == Cardinality(Booked)
           c2 == Cardinality(Booked)'
<1>1. b \in Nat /\ b2 \in Nat /\ c \in Nat /\ c2 \in Nat /\ b <= b2 /\ c <= c2
  BY CountsRise
<1>2. tally.won \in Nat /\ tally.lost \in Nat
  BY DEF BooksTyped
<1>3. /\ entered \in Nat /\ entered <= b
      /\ \A m \in Markets : gains[m] \in Amounts(c) /\ opened[m] \in Amounts(c)
      /\ tally.won + tally.lost <= c /\ ImportedOnce
  BY DEF CountInv
<1>4. Counted(port', b2, c2) /\ Counted(disk', b2, c2)
  OBVIOUS
<1> HIDE DEF b, b2, c, c2
<1>5. \A m \in Markets : gains'[m] \in Amounts(c2) /\ opened'[m] \in Amounts(c2)
  BY <1>1, <1>3, AmountsGrow
<1>6. entered' \in Nat /\ entered' <= b2
  BY <1>1, <1>3
<1>7. tally'.won + tally'.lost <= c2
  BY <1>1, <1>2, <1>3
<1>8. ImportedOnce'
  BY <1>3, ImportedStays
<1>9. ScoredOnce(port)' /\ ScoredOnce(disk)'
  BY DEF ScoredOnce, Unscored
<1>10. BooksTyped'
  BY DEF BooksTyped
<1> QED
  BY <1>4, <1>5, <1>6, <1>7, <1>8, <1>9, <1>10 DEF CountInv, b2, c2, Counted, Amounts

LEMMA CountStays ==
    ASSUME IsFiniteSet(Ids), IInv, [Next]_vars, BooksTyped, CountInv,
           UNCHANGED <<gains, opened, tally, ledgerVol>>, entered' \in {0, entered},
           From(port', port) \/ From(port', disk), From(disk', port) \/ From(disk', disk),
           \A d \in Daemons : HandCounted(d)'
    PROVE  BooksTyped' /\ CountInv'
<1> DEFINE b == Cardinality(Buys)
           b2 == Cardinality(Buys)'
           c == Cardinality(Booked)
           c2 == Cardinality(Booked)'
<1>1. b \in Nat /\ b2 \in Nat /\ c \in Nat /\ c2 \in Nat /\ b <= b2 /\ c <= c2
  BY CountsRise
<1>2. port \in Books /\ disk \in Books /\ port' \in Books /\ disk' \in Books
  BY DEF BooksTyped, From
<1>3. /\ Counted(port, b, c) /\ Counted(disk, b, c)
      /\ \A m \in Markets : gains[m] \in Amounts(c)
      /\ ScoredOnce(port) /\ ScoredOnce(disk)
  BY DEF CountInv
<1> HIDE DEF b, b2, c, c2
<1>4. Counted(port', b2, c2) /\ Counted(disk', b2, c2)
  BY <1>1, <1>2, <1>3, FromCounted
<1>5. ScoredOnce(port') /\ ScoredOnce(disk')
  BY <1>2, <1>3, FromScored
<1> QED
  BY <1>2, <1>4, <1>5, CountedStays DEF b2, c2

(* Nobody has a settled order in hand.                                     *)
LEMMA NoHands ==
    ASSUME \A d \in Daemons : pc'[d] # "settled"
    PROVE  \A d \in Daemons : HandCounted(d)'
BY DEF HandCounted

LEMMA NoneSettled ==
    ASSUME IInv, NEW d \in Daemons, pc[d] # "off", NEW p \in Points \ {"settled"}, Goto(d, p)
    PROVE  \A e \in Daemons : pc'[e] # "settled"
<1>1. \A e \in Daemons : e # d => pc'[e] = "off"
  BY IInvParts, OthersAreOff DEF Goto, Parts, LocalTypeOK
<1>2. pc'[d] = p
  BY IInvParts DEF Goto, Parts, LocalTypeOK
<1> QED
  BY <1>1, <1>2

----------------------------------------------------------------------------
(* The calls of the executor, whatever is read in between.                 *)

LEMMA BooksAreShaped ==
    ASSUME BooksTyped
    PROVE  Shape
BY DEF BooksTyped, Books, Shape, Shaped

(* Back from a call, or before the first one.                              *)
LEMMA CallIsOver ==
    ASSUME IInv, NEW d \in Daemons, Resume(d),
           at' \notin {"selling", "halving", "buying", "closeGone"}
    PROVE  CallsHold'
<1>1. \A e \in Daemons : pc'[e] \in {"off", "caller"}
  <2>1. pc'[d] = "caller" /\ pc[d] # "off"
    BY IInvParts DEF Resume, Goto, Parts, LocalTypeOK
  <2>2. \A e \in Daemons : e # d => pc'[e] = "off"
    BY <2>1, IInvParts, OthersAreOff DEF Resume, Goto, Parts, LocalTypeOK
  <2> QED
    BY <2>1, <2>2
<1> QED
  BY <1>1 DEF CallsHold, InCall

LEMMA CallStarts ==
    ASSUME IInv, NEW d \in Daemons, PlanExecution(d),
           at' \in {"selling", "halving"} =>
             plan'[d].side = "ask" /\ port'.market = plan'[d].market,
           at' = "buying" => plan'[d].side = "bid",
           at' \in {"selling", "halving", "buying"}
    PROVE  CallsHold'
<1>1. \A e \in Daemons : pc'[e] # "settled" /\ (e # d => pc'[e] = "off") /\ pc'[d] = "planned"
  BY NoneSettled, OthersAreOff, IInvParts DEF PlanExecution, Points, Goto, Parts, LocalTypeOK
<1>2. bot' = bot /\ bot.vol \in Volumes
  BY IInvParts DEF PlanExecution, files, Parts, GlobalTypeOK, BotStates
<1>3. plan'[d].market \in Markets /\ plan'[d].side = IF bot.vol = 0 THEN "bid" ELSE "ask"
  BY IInvParts DEF PlanExecution, Parts, LocalTypeOK
<1> QED
  BY <1>1, <1>2, <1>3, ConstantsAssumption DEF CallsHold, InCall, Volumes, Trading

LEMMA LoopKeepsCalls ==
    ASSUME CallsHold, BooksTyped, LoopStep
    PROVE  CallsHold' /\ \A d \in Daemons : pc'[d] # "settled"
<1>1. UNCHANGED <<bot, pc>> /\ at \notin InHand
      /\ at' \notin {"selling", "halving", "buying", "closeGone"}
  BY DEF LoopStep, Roll, Pending, Recover, TakeHint, Milestone, Watch, SkipManage,
         SkipEntry, Periodic, Idle, vars, files, Move, Raise, InHand
<1> QED
  BY <1>1 DEF CallsHold, InCall, InHand, Trading

LEMMA ProcessKeepsCalls ==
    ASSUME IInv, NEW d \in Daemons, Boot(d) \/ Die(d)
    PROVE  CallsHold' /\ \A e \in Daemons : pc'[e] # "settled"
<1>1. pc \in [Daemons -> Points] /\ SingleDaemon
  BY IInvParts DEF Parts, LocalTypeOK
<1>2. at' \in {"roll", "off"}
  BY DEF Boot, Die
<1>3. \A e \in Daemons : pc'[e] \in {"off", "caller"}
  <2>1. CASE Boot(d)
    BY <1>1, <2>1, ConstantsAssumption DEF Boot, Start, Goto, SingleDaemon
  <2>2. CASE Die(d)
    <3>1. pc[d] # "off" /\ Goto(d, "off")
      BY <2>2 DEF Die, Crash
    <3> QED
      BY <1>1, <3>1, IInvParts, OthersAreOff DEF Goto, Parts, LocalTypeOK
  <2> QED
    BY <2>1, <2>2
<1> QED
  BY <1>2, <1>3 DEF CallsHold, InCall

LEMMA EnvironmentKeepsCalls ==
    ASSUME ~ManualSales, CallsHold, Environment \/ UNCHANGED allVars
    PROVE  CallsHold'
<1>1. UNCHANGED <<port, at, pc, bot>>
  <2>1. ASSUME NEW i \in Ids, Exchange(i), UNCHANGED dvars PROVE <1>1!:
    BY <2>1 DEF Exchange, Arrive, Lose, Fill, Complete, CancelRest, files, dvars, control
  <2>2. ASSUME TurnDay \/ ReceiveHint \/ CooldownEnds \/ UNCHANGED allVars PROVE <1>1!:
    BY <2>2 DEF TurnDay, ReceiveHint, CooldownEnds, allVars, vars, files, dvars, control
  <2> QED
    BY <2>1, <2>2 DEF Environment, ExchangeStep, SellByHand
<1> QED
  BY <1>1 DEF CallsHold, InCall, Trading

LEMMA ExecutorKeepsCalls ==
    ASSUME IInv, CallsHold, NEW d \in Daemons,
           ExecutorStep(d) \/ BookTrades(d) \/ SettleOrder(d)
    PROVE  CallsHold'
<1>1. Trading /\ UNCHANGED <<port, at>>
  BY DEF ExecutorStep, BookTrades, SettleOrder, dvars, control
<1>2. pc[d] \notin {"off", "settled"}
  BY DEF ExecutorStep, BookTrades, SettleOrder, Refuse, Validate, CheckOrderChance, PersistActive,
     PlaceOrder, Accepted, AnswerFails, MarkUntracked, ReadTerminal, ReconcileRaises, AppendFills,
     AppendRaises, SaveTerminal
<1>3. \A e \in Daemons : e # d => pc[e] = "off" /\ (\A p \in Points : Goto(d, p) => pc'[e] = "off")
  BY <1>2, IInvParts, OthersAreOff DEF Goto, Parts, LocalTypeOK
<1>4. CASE ExecutorStep(d) \/ BookTrades(d)
  <2>1. PICK p \in Points \ {"off", "caller", "settled"} : Goto(d, p)
    BY <1>4 DEF ExecutorStep, BookTrades, Refuse, Validate, CheckOrderChance, PersistActive,
       PlaceOrder, Accepted, AnswerFails, MarkUntracked, ReadTerminal, ReconcileRaises, AppendFills,
       AppendRaises, Points
  <2>2. bot'.vol = bot.vol
    <3>1. CASE PersistActive(d)
      <4>1. snap[d] = bot
        BY <3>1, IInvParts DEF PersistActive, Parts, PointsHold, PointHolds
      <4> QED
        BY <3>1, <4>1 DEF PersistActive, ActiveState
    <3>2. CASE MarkUntracked(d)
      <4>1. bot = ActiveState(snap[d], plan[d])
        BY <3>2, IInvParts DEF MarkUntracked, Parts, PointsHold, PointHolds
      <4> QED
        BY <3>2, <4>1 DEF MarkUntracked, ActiveState
    <3>3. CASE ~PersistActive(d) /\ ~MarkUntracked(d)
      BY <1>4, <3>3 DEF ExecutorStep, BookTrades, Refuse, Validate, CheckOrderChance,
         PlaceOrder, Accepted, AnswerFails, ReadTerminal, ReconcileRaises, AppendFills,
         AppendRaises, files
    <3> QED
      BY <3>1, <3>2, <3>3
  <2>3. pc'[d] = p
    BY <2>1, IInvParts DEF Goto, Parts, LocalTypeOK
  <2>4. InCall(d)'
    BY <1>1, <1>2, <2>1, <2>2, <2>3 DEF CallsHold, InCall, Trading
  <2>5. ASSUME NEW e \in Daemons, e # d PROVE InCall(e)'
    BY <1>3, <2>1, <2>5 DEF InCall
  <2> QED
    BY <1>1, <2>4, <2>5 DEF CallsHold
<1>5. CASE SettleOrder(d)
  <2>1. Goto(d, "settled") /\ bot'.active = None
    BY <1>5 DEF SettleOrder, SaveTerminal, AfterFill, HeldState
  <2>2. pc'[d] = "settled"
    BY <2>1, IInvParts DEF Goto, Parts, LocalTypeOK
  <2>3. InCall(d)'
    BY <1>1, <2>1, <2>2 DEF InCall, InHand, Trading
  <2>4. ASSUME NEW e \in Daemons, e # d PROVE InCall(e)'
    BY <1>3, <2>1, <2>4 DEF InCall, Points
  <2> QED
    BY <1>1, <2>3, <2>4 DEF CallsHold
<1> QED
  BY <1>4, <1>5

LEMMA AccountStutters ==
    ASSUME IInv, BooksTyped, CallsHold, AccountStep
    PROVE  /\ UNCHANGED vars /\ ~SaveGone /\ ~ReconcileGone
           /\ at \notin InHand
           /\ at' \notin {"selling", "halving", "buying", "closeGone"}
<1>1. Shape
  BY BooksAreShaped
<1>2. ~SaveGone /\ at # "closeGone"
  BY DEF SaveGone, CallsHold
<1>3. UNCHANGED vars
  BY <1>1, <1>2, RepairLongStutters, ReconcileStutters
     DEF AccountStep, RepairFlat, SaveRepaired, RepairRaises, ReconcileRefuses, Shape
<1>4. ~ReconcileGone
  <2> SUFFICES ASSUME ReconcileGone PROVE FALSE
    OBVIOUS
  <2>1. bot' = HeldState(0) /\ bot.vol > 0
    BY DEF ReconcileGone
  <2> QED
    BY <1>3, <2>1 DEF HeldState, vars, files
<1>5. at \notin InHand /\ at' \notin {"selling", "halving", "buying", "closeGone"}
  BY <1>2, <1>4 DEF AccountStep, RepairLong, RepairFlat, SaveRepaired, RepairRaises,
     ReconcileAccount,
     ReconcileVolume, ReconcileCash, SaveUnlessFault, Return, Raise,
     ReconcileRefuses, Move, InHand
<1> QED
  BY <1>2, <1>3, <1>4, <1>5

LEMMA AccountKeepsCalls ==
    ASSUME IInv, BooksTyped, CallsHold, AccountStep
    PROVE  CallsHold' /\ \A d \in Daemons : pc'[d] # "settled"
<1>1. UNCHANGED <<bot, pc>> /\ at \notin InHand
      /\ at' \notin {"selling", "halving", "buying", "closeGone"}
  BY AccountStutters DEF vars, files
<1> QED
  BY <1>1 DEF CallsHold, InCall, InHand, Trading

LEMMA TradesKeepCalls ==
    ASSUME IInv, BooksTyped, CallsHold, NEW d \in Daemons, RecoverStep(d) \/ TradeStep(d)
    PROVE  CallsHold'
<1>1. CASE \/ RecoverRaises(d) \/ AdoptBuy(d) \/ AdoptRemainder(d) \/ SaveAdopted(d)
           \/ OrderFails(d) \/ FinishBuy(d) \/ FinishRemainder(d) \/ FinishHalf(d) \/ SaveSold(d)
  <2>1. Resume(d) /\ at' \notin {"selling", "halving", "buying", "closeGone"}
    BY <1>1 DEF RecoverRaises, AdoptBuy, AdoptRemainder, SaveAdopted, OrderFails, FinishBuy,
       FinishRemainder, FinishHalf, SaveSold, Adopted, AfterOrder, SaveUnlessFault, Move, Raise
  <2> QED
    BY <2>1, CallIsOver
<1>2. CASE BeginSell(d) \/ BeginHalfSell(d) \/ BeginBuy(d)
  <2>1. PlanExecution(d) /\ at' \in {"selling", "halving", "buying"} /\ port' = port
    BY <1>2 DEF BeginSell, BeginHalfSell, BeginBuy, Move, Idle
  <2>2. /\ at' \in {"selling", "halving"} => plan'[d].side = "ask" /\ port'.market = plan'[d].market
        /\ at' = "buying" => plan'[d].side = "bid"
    BY <1>2, <2>1 DEF BeginSell, BeginHalfSell, BeginBuy, Move
  <2> QED
    BY <2>1, <2>2, CallStarts
<1>3. CASE AccountAdopted(d) \/ AccountSold(d)
  <2>1. /\ UNCHANGED <<bot, pc>> /\ at \in InHand /\ at' \in {"closeAdopted", "closeSold"}
        /\ pc[d] = "settled"
    BY <1>3 DEF AccountAdopted, AccountSold, Move, vars, files, InHand
  <2>2. \A e \in Daemons : pc[e] \in {"off", "settled"}
    BY <2>1, IInvParts, OthersAreOff DEF Parts
  <2> QED
    BY <2>1, <2>2 DEF CallsHold, InCall, InHand
<1> QED
  BY <1>1, <1>2, <1>3 DEF RecoverStep, TradeStep

----------------------------------------------------------------------------
(* The loop, the processes that come and go, and the environment.          *)

(* What every lemma on a kind of step starts from, and what it shows.      *)
Before == IsFiniteSet(Ids) /\ IInv /\ BooksTyped /\ CallsHold /\ CountInv

Kept == BooksTyped' /\ CountInv'

LEMMA LoopKeepsCounts ==
    ASSUME Before, [Next]_vars, LoopStep
    PROVE  Kept
<1>1. UNCHANGED <<gains, opened, tally, ledgerVol>> /\ entered' \in {0, entered}
  BY DEF LoopStep, Roll, Pending, Recover, TakeHint, Milestone, Watch, SkipManage,
         SkipEntry, Periodic, Idle, vars, files, history
<1>2. \A d \in Daemons : HandCounted(d)'
  BY LoopKeepsCalls, NoHands DEF Before
<1>3. port \in Books /\ disk \in Books
  BY DEF Before, BooksTyped
<1>4. From(port', port) /\ (From(disk', port) \/ From(disk', disk))
  <2>1. ASSUME Roll PROVE <1>4!:
    <3>1. PICK zero : zero = 0
      OBVIOUS
    <3> DEFINE q == [port EXCEPT !.entries = zero]
    <3>2. port' \in {port, q} /\ disk' \in {disk, port'}
      BY <2>1, <3>1, Zenon DEF Roll
    <3>3. q \in Books /\ q.entries = 0 /\ q.baseline = port.baseline
          /\ q.accounted = port.accounted /\ q.wins = port.wins /\ q.losses = port.losses
          /\ port.entries \in Nat
      BY <1>3, <3>1 DEF Books
    <3> HIDE DEF q
    <3>4. From(q, port)
      BY <3>3 DEF From
    <3> QED
      BY <1>3, <3>2, <3>4, SelfFrom
  <2>2. ASSUME NEW peak \in BOOLEAN, Watch(peak) PROVE <1>4!:
    <3> DEFINE high == IF peak THEN "above" ELSE port.high
               lock2 == port.locked \/ high = "above"
               q == [port EXCEPT !.high = high, !.locked = lock2]
    <3>1. port' = q /\ disk' \in {disk, port'}
      BY <2>2 DEF Watch
    <3>2. lock2 \in BOOLEAN
      BY <1>3 DEF Books
    <3>3. high \in {"zero", "near", "above"}
      BY <1>3 DEF Books
    <3> HIDE DEF high, lock2
    <3>4. Same(q, port)
      BY <1>3, <3>2, <3>3 DEF Books, Same
    <3> HIDE DEF q
    <3> QED
      BY <1>3, <3>1, <3>4, SelfFrom, SameFrom
  <2>3. ASSUME Pending \/ Recover \/ TakeHint \/ Milestone \/ SkipManage \/ SkipEntry \/ Periodic
        PROVE  <1>4!:
    <3>1. port' = port /\ disk' \in {disk, port}
      BY <2>3 DEF Pending, Recover, TakeHint, Milestone, SkipManage, SkipEntry, Periodic, Idle
    <3> QED
      BY <1>3, <3>1, SelfFrom
  <2> QED
    BY <2>1, <2>2, <2>3 DEF LoopStep
<1> QED
  BY <1>1, <1>2, <1>4, CountStays DEF Before, Kept

LEMMA BootKeepsCounts ==
    ASSUME Before, [Next]_vars, NEW d \in Daemons, Boot(d) \/ Die(d)
    PROVE  Kept
<1>1. /\ UNCHANGED <<gains, opened, tally, entered, ledgerVol>>
      /\ port' = disk /\ disk' = disk
  BY DEF Boot, Die, Start, Crash, files, history
<1>2. disk \in Books
  BY DEF Before, BooksTyped
<1>3. \A e \in Daemons : HandCounted(e)'
  BY ProcessKeepsCalls, NoHands DEF Before
<1> QED
  BY <1>1, <1>2, <1>3, SelfFrom, CountStays DEF Before, Kept

LEMMA EnvironmentKeepsCounts ==
    ASSUME ~ManualSales, Before, [Next]_vars, Environment \/ UNCHANGED allVars
    PROVE  Kept
<1>1. UNCHANGED <<port, disk, at, gains, opened, tally, entered, pc, snap, bot, booked, ledgerVol>>
  <2>1. ASSUME NEW i \in Ids, Exchange(i), UNCHANGED dvars PROVE <1>1!:
    BY <2>1 DEF Exchange, Arrive, Lose, Fill, Complete, CancelRest, files, locals, dvars, control,
       history
  <2>2. ASSUME TurnDay \/ ReceiveHint \/ CooldownEnds \/ UNCHANGED allVars PROVE <1>1!:
    BY <2>2 DEF TurnDay, ReceiveHint, CooldownEnds, allVars, vars, files, locals, dvars, control,
       history
  <2> QED
    BY <2>1, <2>2 DEF Environment, ExchangeStep, SellByHand
<1>2. port \in Books /\ disk \in Books /\ port.entries \in Nat /\ disk.entries \in Nat
  BY DEF Before, BooksTyped, Books
<1>3. ASSUME NEW d \in Daemons PROVE HandCounted(d)'
  <2>1. /\ Cardinality(Buys) \in Nat /\ Cardinality(Buys)' \in Nat
        /\ Cardinality(Buys) <= Cardinality(Buys)'
    BY CountsRise DEF Before
  <2>2. HandCounted(d)
    BY DEF Before, CountInv
  <2>3. \A i \in Ids : Past(i) => Past(i)'
    BY OrdersGo DEF OrdersGoOn, Before
  <2> QED
    BY <1>1, <1>2, <2>1, <2>2, <2>3 DEF HandCounted
<1> QED
  BY <1>1, <1>2, <1>3, SelfFrom, CountStays DEF Before, Kept

----------------------------------------------------------------------------
(* Inside a call of the executor.                                          *)

LEMMA CallKeepsCounts ==
    ASSUME Before, [Next]_vars, NEW d \in Daemons, ExecutorStep(d)
    PROVE  Kept
<1>1. UNCHANGED <<port, disk, gains, opened, tally, entered, ledgerVol>>
  BY DEF ExecutorStep, dvars, history, Refuse, Validate, CheckOrderChance, PersistActive,
     PlaceOrder, Accepted, AnswerFails, MarkUntracked, ReadTerminal, ReconcileRaises,
     AppendRaises, files
<1>2. PICK p \in Points \ {"off", "settled"} : Goto(d, p)
  BY DEF ExecutorStep, Refuse, Validate, CheckOrderChance, PersistActive, PlaceOrder, Accepted,
     AnswerFails, MarkUntracked, ReadTerminal, ReconcileRaises, AppendRaises, Points
<1>3. pc[d] # "off"
  BY DEF ExecutorStep, Refuse, Validate, CheckOrderChance, PersistActive, PlaceOrder, Accepted,
     AnswerFails, MarkUntracked, ReadTerminal, ReconcileRaises, AppendRaises
<1>4. \A e \in Daemons : HandCounted(e)'
  BY <1>2, <1>3, NoneSettled, NoHands DEF Before
<1>5. port \in Books /\ disk \in Books
  BY DEF Before, BooksTyped
<1> QED
  BY <1>1, <1>4, <1>5, SelfFrom, CountStays DEF Before, Kept

(* A market whose position is sold out and booked is one more to score,    *)
(* and one more trade that is closed.                                      *)
LEMMA BookedScored ==
    ASSUME BooksTyped, tally' \in Tallies, tally'.imported = tally.imported,
           NEW p \in Books, ScoredOnce(p), NEW m \in Markets,
           \A k \in Markets : k # m => ledgerVol'[k] = ledgerVol[k] /\ gains'[k] = gains[k],
           \/ ledgerVol'[m] # 0 /\ tally'.won + tally'.lost = tally.won + tally.lost
           \/ tally'.won + tally'.lost = tally.won + tally.lost + 1
    PROVE  LET U == {k \in Markets : ledgerVol'[k] = 0 /\ gains'[k] # p.accounted[k]} IN
           /\ IsFiniteSet(U)
           /\ p.wins + p.losses + Cardinality(U) <= tally'.won + tally'.lost + tally'.imported
<1> DEFINE U == {k \in Markets : ledgerVol'[k] = 0 /\ gains'[k] # p.accounted[k]}
           S == Unscored(p)
<1>1. /\ IsFiniteSet(S) /\ Cardinality(S) \in Nat
      /\ p.wins + p.losses + Cardinality(S) <= tally.won + tally.lost + tally.imported
  BY FS_CardinalityType DEF ScoredOnce
<1>2. /\ p.wins \in Nat /\ p.losses \in Nat
      /\ tally.won \in Nat /\ tally.lost \in Nat /\ tally.imported \in Nat
      /\ tally'.won \in Nat /\ tally'.lost \in Nat
  BY DEF Books, BooksTyped, Tallies
<1>3. CASE ledgerVol'[m] # 0 /\ tally'.won + tally'.lost = tally.won + tally.lost
  <2>1. U \subseteq S
    BY <1>3 DEF Unscored
  <2>2. IsFiniteSet(U) /\ Cardinality(U) <= Cardinality(S) /\ Cardinality(U) \in Nat
    BY <1>1, <2>1, FS_Subset, FS_CardinalityType
  <2> HIDE DEF U, S
  <2>3. p.wins + p.losses + Cardinality(U) <= tally'.won + tally'.lost + tally'.imported
    BY <1>1, <1>2, <1>3, <2>2
  <2> QED
    BY <2>2, <2>3 DEF U
<1>4. CASE tally'.won + tally'.lost = tally.won + tally.lost + 1
  <2>1. U \subseteq S \cup {m}
    BY DEF Unscored
  <2>2. /\ IsFiniteSet(S \cup {m})
        /\ Cardinality(S \cup {m}) \in {Cardinality(S), Cardinality(S) + 1}
    BY <1>1, FS_AddElement
  <2>3. IsFiniteSet(U) /\ Cardinality(U) <= Cardinality(S \cup {m}) /\ Cardinality(U) \in Nat
    BY <2>1, <2>2, FS_Subset, FS_CardinalityType
  <2> HIDE DEF U, S
  <2>4. p.wins + p.losses + Cardinality(U) <= tally'.won + tally'.lost + tally'.imported
    BY <1>1, <1>2, <1>4, <2>2, <2>3
  <2> QED
    BY <2>3, <2>4 DEF U
<1> QED
  BY <1>3, <1>4

(* The trades of an order enter the ledger: one more order is booked, and  *)
(* what it changes is at most what one order may bring.                    *)
LEMMA BookingKeepsCounts ==
    ASSUME Before, [Next]_vars, NEW d \in Daemons, BookTrades(d)
    PROVE  Kept
<1> DEFINE m == bot.market
           n == UnseenTrades(bot.active, seen[d])
           b == Cardinality(Buys)
           b2 == Cardinality(Buys)'
           c == Cardinality(Booked)
           c2 == Cardinality(Booked)'
<1>1. b \in Nat /\ b2 \in Nat /\ c \in Nat /\ c2 \in Nat /\ b <= b2 /\ c <= c2
  BY CountsRise DEF Before
<1>2. /\ port \in Books /\ disk \in Books /\ gains \in [Markets -> Int]
      /\ opened \in [Markets -> Int]
      /\ tally \in Tallies /\ tally.won \in Nat /\ tally.lost \in Nat
  BY DEF Before, BooksTyped, Tallies
<1>3. /\ entered \in Nat /\ entered <= b /\ Counted(port, b, c) /\ Counted(disk, b, c)
      /\ \A k \in Markets : gains[k] \in Amounts(c) /\ opened[k] \in Amounts(c)
      /\ tally.won + tally.lost <= c /\ ImportedOnce
  BY DEF Before, CountInv
<1>4. /\ UNCHANGED <<port, disk, at, entered>> /\ AppendFills(d)
  BY DEF BookTrades, control
<1>5. \A e \in Daemons : HandCounted(e)'
  BY <1>4, NoneSettled, NoHands DEF AppendFills, Points, Before
<1>6. /\ snap[d] = bot /\ m \in Markets /\ bot.side \in Sides /\ bot.active \in Ids
      /\ seen[d].filled = Fills /\ Fills \in Volumes /\ booked[bot.active] \in {0, Fills}
  BY <1>4, TerminalFacts DEF AppendFills, Before
<1>7. Counted(port', b2, c2) /\ Counted(disk', b2, c2)
  <2> HIDE DEF b, b2, c, c2
  <2> QED
    BY <1>1, <1>2, <1>3, <1>4, SelfFrom, FromCounted
<1>8. entered' \in Nat /\ entered' <= b2
  <2> HIDE DEF b, b2, c, c2
  <2> QED
    BY <1>1, <1>3, <1>4
<1>9. CASE booked' = booked
  <2>1. UNCHANGED <<gains, opened, tally>>
    BY <1>9 DEF BookTrades
  <2>2. ledgerVol' = ledgerVol
    <3>1. /\ booked \in [Ids -> Volumes] /\ ledgerVol \in [Markets -> Volumes]
          /\ n = Fills - booked[bot.active]
      BY <1>6, IInvParts DEF Before, Parts, GlobalTypeOK, UnseenTrades
    <3>2. CASE MustBook(bot, seen[d])
      <4>1. booked' = [booked EXCEPT ![bot.active] = Fills]
        BY <1>4, <1>6, <3>2 DEF AppendFills
      <4>2. n = 0
        BY <1>6, <1>9, <3>1, <4>1, ConstantsAssumption DEF Volumes
      <4>3. \E v \in {ledgerVol[m] + n, ledgerVol[m] - n} : ledgerVol' = [ledgerVol EXCEPT ![m] = v]
        BY <1>4, <1>6, <3>2 DEF AppendFills
      <4>4. ledgerVol[m] \in Nat
        BY <1>6, <3>1, ConstantsAssumption DEF Volumes
      <4>5. PICK v \in {ledgerVol[m] + n, ledgerVol[m] - n} :
              ledgerVol' = [ledgerVol EXCEPT ![m] = v]
        BY <4>3
      <4> HIDE DEF m, n
      <4>6. v = ledgerVol[m]
        BY <4>2, <4>4, <4>5
      <4> QED
        BY <3>1, <4>5, <4>6
    <3>3. CASE ~MustBook(bot, seen[d])
      BY <1>4, <1>6, <3>3 DEF AppendFills
    <3> QED
      BY <3>2, <3>3
  <2> QED
    BY <1>2, <1>4, <1>5, <2>1, <2>2, SelfFrom, CountStays DEF Before, Kept
<1>10. CASE booked' # booked
  <2>1. /\ booked \in [Ids -> Volumes] /\ booked' = [booked EXCEPT ![bot.active] = Fills]
        /\ n \in 1..Lot
    <3>1. booked \in [Ids -> Volumes]
      BY IInvParts DEF Before, Parts, GlobalTypeOK
    <3>2. booked' = [booked EXCEPT ![bot.active] = Fills]
      BY <1>4, <1>6, <1>10 DEF AppendFills
    <3>3. booked[bot.active] # Fills
      BY <1>10, <3>1, <3>2
    <3>4. n = Fills - booked[bot.active]
      BY <1>6 DEF UnseenTrades
    <3> QED
      BY <1>6, <3>1, <3>2, <3>3, <3>4, ConstantsAssumption DEF Volumes
  <2>2. c + 1 <= c2
    <3>1. booked[bot.active] = 0 /\ booked'[bot.active] = Fills /\ Fills > 0
      BY <1>6, <1>10, <2>1, ConstantsAssumption DEF Volumes
    <3>2. bot.active \in Booked' /\ bot.active \notin Booked
      BY <1>6, <3>1 DEF Booked
    <3>3. Booked \subseteq Booked'
      BY CountsRise DEF Before
    <3>4. IsFiniteSet(Booked')
      BY FS_Subset DEF Before, Booked
    <3> QED
      BY <3>2, <3>3, <3>4, OneMore
  <2>3. /\ \A k \in Markets : gains'[k] \in Amounts(c + 1) /\ opened'[k] \in Amounts(c + 1)
        /\ \/ tally' = tally /\ ledgerVol'[m] # 0
           \/ tally'.won + tally'.lost = tally.won + tally.lost + 1
        /\ tally' \in Tallies /\ tally'.imported = tally.imported
        /\ gains' \in [Markets -> Int] /\ opened' \in [Markets -> Int]
        /\ \A k \in Markets : k # m => gains'[k] = gains[k]
    <3>1. \A k \in Markets : gains[k] \in Amounts(c + 1) /\ opened[k] \in Amounts(c + 1)
      <4>1. c + 1 \in Nat /\ c <= c + 1
        BY <1>1
      <4> HIDE DEF c
      <4> QED
        BY <1>1, <1>3, <4>1, AmountsGrow
    <3>2. CASE bot.side = "bid"
      <4>1. opened' = [opened EXCEPT ![m] = gains[m]] /\ UNCHANGED <<gains, tally>>
        BY <1>6, <1>10, <3>2 DEF BookTrades
      <4>2. \A k \in Markets : opened'[k] \in {opened[k], gains[k]}
        BY <1>2, <1>6, <4>1
      <4>3. ledgerVol'[m] # 0
        <5>1. ledgerVol \in [Markets -> Volumes] /\ n > 0
          BY <2>1, IInvParts DEF Before, Parts, GlobalTypeOK
        <5>2. ledgerVol' = [ledgerVol EXCEPT ![m] = ledgerVol[m] + n]
          BY <1>4, <1>6, <1>10, <3>2 DEF AppendFills
        <5> QED
          BY <1>6, <2>1, <5>1, <5>2, ConstantsAssumption DEF Volumes
      <4>4. opened' \in [Markets -> Int]
        BY <1>2, <1>6, <4>1
      <4> QED
        BY <1>2, <3>1, <4>1, <4>2, <4>3, <4>4
    <3>3. CASE bot.side = "ask"
      <4>1. PICK g \in {-n, (Lot + 1) * n} : gains' = [gains EXCEPT ![m] = @ + g]
        BY <1>6, <1>10, <3>3 DEF BookTrades
      <4>2. opened' = opened
        BY <1>6, <1>10, <3>3 DEF BookTrades
      <4>3. ASSUME NEW k \in Markets PROVE gains'[k] \in Amounts(c + 1)
        <5>1. CASE k = m
          <6>1. gains'[k] = gains[k] + g
            BY <1>2, <4>1, <5>1
          <6> HIDE DEF n, c
          <6>2. gains[k] + g \in Amounts(c + 1)
            BY <1>1, <1>3, <2>1, <4>1, AmountsOfSale
          <6> QED
            BY <6>1, <6>2
        <5>2. CASE k # m
          BY <1>2, <3>1, <4>1, <5>2
        <5> QED
          BY <5>1, <5>2
      <4>4. /\ \/ tally' = tally /\ ledgerVol'[m] # 0
               \/ tally'.won + tally'.lost = tally.won + tally.lost + 1
            /\ tally' \in Tallies /\ tally'.imported = tally.imported
        <5>1. PICK w : w = tally.won + 1
          OBVIOUS
        <5>2. PICK l : l = tally.lost + 1
          OBVIOUS
        <5>3. \/ tally' = tally /\ ledgerVol'[m] # 0
              \/ tally' \in {[tally EXCEPT !.won = w], [tally EXCEPT !.lost = l]}
          BY <1>6, <1>10, <3>3, <5>1, <5>2, Zenon DEF BookTrades
        <5>4. w \in Nat /\ l \in Nat
          BY <1>2, <5>1, <5>2
        <5>5. /\ tally' \in Tallies /\ tally'.imported = tally.imported
              /\ \/ tally' = tally /\ ledgerVol'[m] # 0
                 \/ tally'.won = w /\ tally'.lost = tally.lost
                 \/ tally'.won = tally.won /\ tally'.lost = l
          BY <1>2, <5>3, <5>4 DEF Tallies
        <5> QED
          BY <1>2, <5>1, <5>2, <5>5
      <4>5. gains' \in [Markets -> Int] /\ \A k \in Markets : k # m => gains'[k] = gains[k]
        <5>1. PICK x : x = gains[m] + g
          OBVIOUS
        <5>2. x \in Int
          BY <1>2, <1>6, <2>1, <4>1, <5>1, ConstantsAssumption
        <5>3. gains' = [gains EXCEPT ![m] = x]
          BY <4>1, <5>1
        <5> QED
          BY <1>2, <5>2, <5>3
      <4> QED
        BY <1>2, <3>1, <4>2, <4>3, <4>4, <4>5
    <3> QED
      BY <1>6, <3>2, <3>3 DEF Sides
  <2>4. \A k \in Markets : gains'[k] \in Amounts(c2) /\ opened'[k] \in Amounts(c2)
    <3>1. c + 1 \in Nat
      BY <1>1
    <3> HIDE DEF c, c2
    <3> QED
      BY <1>1, <2>2, <2>3, <3>1, AmountsGrow
  <2>5. tally'.won + tally'.lost <= c2
    <3>1. tally'.won \in Nat /\ tally'.lost \in Nat
      BY <2>3 DEF Tallies
    <3> HIDE DEF c, c2
    <3> QED
      BY <1>1, <1>2, <1>3, <2>2, <2>3, <3>1
  <2>6. ImportedOnce'
    BY <1>3, <2>3, ImportedStays DEF Before
  <2>7. ScoredOnce(port)' /\ ScoredOnce(disk)'
    <3>1. \A k \in Markets : k # m => ledgerVol'[k] = ledgerVol[k]
      BY <1>4, <1>6, IInvParts DEF AppendFills, Before, Parts, GlobalTypeOK
    <3>2. \/ ledgerVol'[m] # 0 /\ tally'.won + tally'.lost = tally.won + tally.lost
          \/ tally'.won + tally'.lost = tally.won + tally.lost + 1
      BY <2>3
    <3>3. ScoredOnce(port) /\ ScoredOnce(disk) /\ BooksTyped
      BY DEF Before, CountInv
    <3> HIDE DEF m, n
    <3> QED
      BY <1>2, <1>4, <1>6, <2>3, <3>1, <3>2, <3>3, BookedScored DEF ScoredOnce, Unscored
  <2>8. BooksTyped'
    BY <1>2, <1>4, <2>3 DEF BooksTyped, Tallies
  <2> QED
    BY <1>5, <1>7, <1>8, <2>4, <2>5, <2>6, <2>7, <2>8 DEF CountInv, Counted, Amounts, Kept
<1> QED
  BY <1>9, <1>10

(* A buy that is settled is one more that is over.                         *)
LEMMA SettlingKeepsCounts ==
    ASSUME Before, [Next]_vars, NEW d \in Daemons, SettleOrder(d)
    PROVE  Kept
<1> DEFINE b == Cardinality(Buys)
           b2 == Cardinality(Buys)'
           c == Cardinality(Booked)
           c2 == Cardinality(Booked)'
<1>1. b \in Nat /\ b2 \in Nat /\ c \in Nat /\ c2 \in Nat /\ b <= b2 /\ c <= c2
  BY CountsRise DEF Before
<1>2. /\ port \in Books /\ disk \in Books /\ tally.won \in Nat /\ tally.lost \in Nat
      /\ port.entries \in Nat /\ disk.entries \in Nat
  BY DEF Before, BooksTyped, Books
<1>3. /\ entered \in Nat /\ entered <= b /\ Counted(port, b, c) /\ Counted(disk, b, c)
      /\ \A k \in Markets : gains[k] \in Amounts(c) /\ opened[k] \in Amounts(c)
      /\ tally.won + tally.lost <= c /\ ImportedOnce
  BY DEF Before, CountInv
<1>4. /\ UNCHANGED <<port, disk, at, gains, opened, tally, ledgerVol>> /\ SaveTerminal(d) /\ Trading
      /\ snap' = snap /\ booked' = booked /\ orders' = orders /\ Goto(d, "settled")
  BY DEF SettleOrder, SaveTerminal, control, locals, venue
<1>5. /\ pc[d] = "ledgered" /\ snap[d] = bot /\ bot \in BotStates /\ bot.active \in Ids
      /\ bot.side \in Sides /\ FillIsConsistent(bot, seen[d]) /\ Terminal(bot.active)
      /\ orders[bot.active].side = bot.side
  <2>1. pc[d] = "ledgered"
    BY <1>4 DEF SaveTerminal
  <2>2. /\ snap[d] = bot /\ bot \in BotStates /\ bot.active \in Ids
        /\ bot.side \in Sides /\ FillIsConsistent(bot, seen[d]) /\ PointHolds(d)
    BY <2>1, TerminalFacts DEF Before
  <2>3. Terminal(bot.active)
    BY <2>1, <2>2 DEF PointHolds
  <2>4. orders[bot.active].side = bot.side
    BY <2>2, <2>3, IInvParts DEF Before, Parts, Shared, OrdersAreKnown, Terminal
  <2> QED
    BY <2>1, <2>2, <2>3, <2>4
<1> PICK i \in Ids : i = bot.active
  BY <1>5
<1>6. Past(i)' /\ ~Past(i) /\ orders[i].side = bot.side
  <2>1. bot'.active = None
    BY <1>4 DEF SaveTerminal, AfterFill, HeldState
  <2> QED
    BY <1>4, <1>5, <2>1, ConstantsAssumption DEF Past, Terminal
<1>7. bot.side = "bid" => b + 1 <= b2
  <2> SUFFICES ASSUME bot.side = "bid" PROVE b + 1 <= b2
    OBVIOUS
  <2>1. i \in Buys' /\ i \notin Buys
    BY <1>4, <1>6 DEF Buys
  <2>2. Buys \subseteq Buys' /\ IsFiniteSet(Buys')
    BY CountsRise, FS_Subset DEF Before, Buys
  <2> QED
    BY <2>1, <2>2, OneMore
<1>8. entered' \in Nat /\ entered' <= b2
  <2>1. \/ entered' = entered
        \/ entered' = entered + 1 /\ bot.side = "bid"
    BY <1>5 DEF SettleOrder
  <2> HIDE DEF b, b2
  <2> QED
    BY <1>1, <1>3, <1>7, <2>1
<1>9. HandCounted(d)'
  <2>1. pc'[d] = "settled" /\ snap'[d].active = i /\ snap'[d].side = bot.side
        /\ snap'[d].market \in Markets
    BY <1>4, <1>5, TerminalFacts, IInvParts DEF Goto, Before, Parts, LocalTypeOK
  <2>2. InCall(d)
    BY DEF Before, CallsHold
  <2>3. at = "buying" => bot.side = "bid"
    <3> SUFFICES ASSUME at = "buying", bot.side = "ask" PROVE FALSE
      BY <1>5 DEF Sides
    <3>1. bot.vol = 0
      BY <1>5, <2>2 DEF InCall
    <3> QED
      BY <1>5, <3>1 DEF FillIsConsistent
  <2>4. port.entries <= b /\ disk.entries <= b
    BY <1>3 DEF Counted
  <2>5. bot.side = "bid" => port.entries < b2 /\ disk.entries < b2
    <3> HIDE DEF b, b2
    <3> QED
      BY <1>1, <1>2, <1>7, <2>4
  <2>6. at = "selling" /\ bot'.vol = 0 /\ booked[i] = 0 => tally.imported = 0
    <3> SUFFICES ASSUME at = "selling", bot'.vol = 0, booked[i] = 0 PROVE tally.imported = 0
      OBVIOUS
    <3>1. bot.vol > 0 /\ bot.side = "ask"
      <4>1. bot.vol > 0
        BY <1>5, <2>2 DEF InCall
      <4> QED
        BY <1>5, <4>1 DEF FillIsConsistent, Sides
    <3>2. legacy \/ Fills = 0
      BY <1>5, IInvParts DEF Before, Parts, PointsHold, PointHolds
    <3>3. Fills # 0
      <4>1. seen[d].filled = Fills /\ Fills \in Volumes /\ bot.vol \in Volumes
        BY <1>5, TerminalFacts DEF Before, BotStates
      <4>2. bot'.vol = bot.vol - Fills
        BY <1>4, <1>5, <3>1, <4>1 DEF SaveTerminal, AfterFill, HeldState
      <4> QED
        BY <3>1, <4>1, <4>2, ConstantsAssumption DEF Volumes
    <3> QED
      BY <1>3, <3>2, <3>3 DEF ImportedOnce
  <2> QED
    BY <1>4, <1>5, <1>6, <2>1, <2>3, <2>5, <2>6 DEF HandCounted
<1>10. \A e \in Daemons : HandCounted(e)'
  <2>1. ASSUME NEW e \in Daemons, e # d PROVE pc'[e] = "off"
    BY <1>4, <1>5, <2>1, IInvParts, OthersAreOff DEF Goto, Before, Parts, LocalTypeOK
  <2> QED
    BY <1>9, <2>1 DEF HandCounted
<1>11. /\ Counted(port', b2, c2) /\ Counted(disk', b2, c2)
       /\ \A k \in Markets : gains'[k] \in Amounts(c2) /\ opened'[k] \in Amounts(c2)
       /\ tally'.won + tally'.lost <= c2
  <2> HIDE DEF b, b2, c, c2
  <2>1. Counted(port', b2, c2) /\ Counted(disk', b2, c2)
    BY <1>1, <1>2, <1>3, <1>4, SelfFrom, FromCounted
  <2>2. \A k \in Markets : gains'[k] \in Amounts(c2) /\ opened'[k] \in Amounts(c2)
    BY <1>1, <1>3, <1>4, AmountsGrow
  <2>3. tally'.won + tally'.lost <= c2
    BY <1>1, <1>2, <1>3, <1>4
  <2> QED
    BY <2>1, <2>2, <2>3
<1>12. ImportedOnce'
  BY <1>3, <1>4, ImportedStays DEF Before
<1>13. ScoredOnce(port)' /\ ScoredOnce(disk)'
  BY <1>4 DEF Before, CountInv, ScoredOnce, Unscored
<1>14. BooksTyped'
  BY <1>4 DEF Before, BooksTyped
<1> QED
  BY <1>8, <1>10, <1>11, <1>12, <1>13, <1>14 DEF CountInv, Counted, Amounts, Kept

----------------------------------------------------------------------------
(* What the loop does to the portfolio when a position opens, shrinks or   *)
(* closes.                                                                 *)

LEMMA HandsEmptied ==
    ASSUME IInv, NEW d \in Daemons, Resume(d)
    PROVE  \A e \in Daemons : HandCounted(e)'
BY NoneSettled, NoHands DEF Resume, Points

(* The portfolio that takes a settled buy over counts it.                  *)
LEMMA EntryIsCounted ==
    ASSUME Before, [Next]_vars, NEW d \in Daemons, Resume(d), pc[d] = "settled",
           at = "buying" \/ (at = "recovering" /\ snap[d].side = "bid"),
           UNCHANGED <<gains, opened, tally, entered, ledgerVol>>,
           NEW m \in Markets, NEW h \in HighAtEntry(port),
           Same(port', Entered(port, m, h)), disk' \in {port', disk}
    PROVE  Kept
<1> DEFINE b == Cardinality(Buys)
           b2 == Cardinality(Buys)'
           c == Cardinality(Booked)
           c2 == Cardinality(Booked)'
           q == Entered(port, m, h)
<1>1. b \in Nat /\ b2 \in Nat /\ c \in Nat /\ c2 \in Nat /\ b <= b2 /\ c <= c2
  BY CountsRise DEF Before
<1>2. /\ q.accounted = port.accounted /\ q.baseline = gains[m] /\ q.entries = port.entries + 1
      /\ q.wins = port.wins /\ q.losses = port.losses
      /\ port.entries \in Nat /\ port \in Books /\ disk \in Books
  BY EnteredBook DEF Before, BooksTyped, Books
<1>3. port.entries < b
  BY DEF Before, CountInv, HandCounted
<1>4. /\ \A k \in Markets : port.accounted[k] \in Amounts(c) /\ gains[k] \in Amounts(c)
      /\ Counted(disk, b, c) /\ ScoredOnce(port) /\ ScoredOnce(disk)
  BY DEF Before, CountInv, Counted
<1>5. /\ port'.accounted = port.accounted /\ port'.baseline = gains[m]
      /\ port'.entries = port.entries + 1
      /\ port'.wins = port.wins /\ port'.losses = port.losses /\ port' \in Books
  BY <1>2 DEF Same
<1> HIDE DEF b, b2, c, c2, q
<1>6. Counted(port', b2, c2)
  <2>1. port'.entries <= b2
    BY <1>1, <1>2, <1>3, <1>5
  <2>2. port'.baseline \in Amounts(c2) /\ \A k \in Markets : port'.accounted[k] \in Amounts(c2)
    BY <1>1, <1>4, <1>5, AmountsGrow
  <2> QED
    BY <2>1, <2>2 DEF Counted
<1>7. Counted(disk, b2, c2)
  BY <1>1, <1>2, <1>4, SelfFrom, FromCounted
<1>8. ScoredOnce(port')
  <2>1. Unscored(port') = Unscored(port)
    BY <1>5 DEF Unscored
  <2> QED
    BY <1>4, <1>5, <2>1 DEF ScoredOnce
<1>9. \A e \in Daemons : HandCounted(e)'
  BY HandsEmptied DEF Before
<1>10. Counted(disk', b2, c2) /\ ScoredOnce(disk') /\ disk' \in Books
  BY <1>2, <1>4, <1>5, <1>6, <1>7, <1>8
<1> QED
  BY <1>5, <1>6, <1>8, <1>9, <1>10, CountedStays DEF Before, Kept, b2, c2

LEMMA AccountKeepsCounts ==
    ASSUME Before, [Next]_vars, AccountStep
    PROVE  Kept
<1>1. UNCHANGED <<bot, pc, snap, ledgerVol>> /\ Shape /\ ~SaveGone /\ ~ReconcileGone
  BY AccountStutters, BooksAreShaped DEF vars, files, locals, Before
<1>2. UNCHANGED <<gains, opened, tally, entered>>
  BY <1>1 DEF AccountStep, RepairLong, RepairFlat, SaveRepaired, RepairRaises, ReconcileAccount,
     ReconcileRefuses, history
<1>3. \A e \in Daemons : HandCounted(e)'
  BY AccountKeepsCalls, NoHands DEF Before
<1>4. port \in Books /\ disk \in Books /\ BooksTyped /\ IInv
  BY DEF Before, BooksTyped
<1>5. ASSUME RepairLong PROVE From(port', port) /\ From(disk', port)
  <2>1. disk' = port' /\ \E m \in RepairTarget : port' = port \/ port' = Repaired(port, m)
    BY <1>5 DEF RepairLong
  <2>2. RepairTarget \subseteq Markets
    BY <1>1 DEF RepairTarget, LedgerMarkets, Shape, Shaped
  <2> QED
    BY <1>4, <2>1, <2>2, SelfFrom, RepairedFrom
<1>6. ASSUME RepairFlat PROVE From(port', port) /\ From(disk', disk)
  <2>1. disk' = disk
    BY <1>6 DEF RepairFlat
  <2>2. port' = port \/ (port.market # None /\ port' = Accounted(port, port.market, TRUE))
    BY <1>6 DEF RepairFlat
  <2>3. port.market # None => port.market \in Markets /\ ledgerVol[port.market] = 0
    <3>1. \A m \in Markets : ledgerVol[m] = 0
      BY <1>4, <1>6, FlatIsSoldOut DEF RepairFlat
    <3> QED
      BY <1>4, <3>1 DEF Books
  <2> QED
    BY <1>4, <2>1, <2>2, <2>3, SelfFrom, AccountedFrom
<1>7. ASSUME SaveRepaired PROVE From(port', port) /\ From(disk', port)
  BY <1>4, <1>7, ClearedFrom DEF SaveRepaired
<1>8. ASSUME RepairRaises \/ ReconcileRefuses PROVE From(port', port) /\ From(disk', disk)
  BY <1>4, <1>8, SelfFrom DEF RepairRaises, ReconcileRefuses
<1>9. ASSUME ReconcileAccount PROVE From(port', port) /\ (From(disk', port) \/ From(disk', disk))
  <2>1. CASE ReconcileVolume
    <3>1. disk' \in {port', disk} /\ port' = [port EXCEPT !.vol = holding[port.market]]
      BY <2>1, Zenon DEF ReconcileVolume, SaveUnlessFault
    <3>2. port' = [port EXCEPT !.vol = port'.vol] /\ port'.vol \in Volumes
      <4>1. port.market \in Markets
        BY <1>4, <2>1 DEF ReconcileVolume, Books
      <4>2. holding[port.market] \in Volumes
        BY <1>4, <4>1, IInvParts DEF Parts, GlobalTypeOK
      <4> QED
        BY <1>4, <3>1, <4>2 DEF Books
    <3>3. Same(port', port)
      BY <1>4, <3>2 DEF Books, Same
    <3> QED
      BY <1>4, <3>1, <3>3, SelfFrom, SameFrom
  <2>2. CASE ReconcileCash
    BY <1>4, <2>2, SelfFrom DEF ReconcileCash
  <2> QED
    BY <1>1, <1>9, <2>1, <2>2 DEF ReconcileAccount
<1>10. From(port', port) /\ (From(disk', port) \/ From(disk', disk))
  BY <1>1, <1>5, <1>6, <1>7, <1>8, <1>9 DEF AccountStep
<1> QED
  BY <1>1, <1>2, <1>3, <1>10, CountStays DEF Before, Kept

LEMMA RecoveryKeepsCounts ==
    ASSUME Before, [Next]_vars, NEW d \in Daemons, RecoverStep(d)
    PROVE  Kept
<1>1. HandCounted(d) /\ InCall(d)
  BY DEF Before, CountInv, CallsHold
<1>2. port \in Books /\ disk \in Books /\ BooksTyped /\ IInv
  BY DEF Before, BooksTyped
<1>3. UNCHANGED <<gains, opened, tally, entered, ledgerVol>>
  BY DEF RecoverStep, RecoverRaises, AdoptBuy, AdoptRemainder, AccountAdopted, SaveAdopted, history,
     Resume, vars, files
<1>4. ASSUME RecoverRaises(d) PROVE Kept
  <2>1. Resume(d) /\ port' = port /\ disk' = disk
    BY <1>4 DEF RecoverRaises
  <2> QED
    BY <1>2, <1>3, <2>1, HandsEmptied, SelfFrom, CountStays DEF Before, Kept
<1>5. ASSUME AdoptBuy(d) PROVE Kept
  <2> DEFINE m == snap[d].market
  <2>1. Resume(d) /\ at = "recovering" /\ pc[d] = "settled" /\ snap[d].side = "bid"
    BY <1>5 DEF AdoptBuy
  <2>2. CASE bot.vol = 0
    <3>1. port' = port /\ disk' = disk
      BY <1>5, <2>2 DEF AdoptBuy
    <3> QED
      BY <1>2, <1>3, <2>1, <3>1, HandsEmptied, SelfFrom, CountStays DEF Before, Kept
  <2>3. CASE bot.vol # 0
    <3>1. m \in Markets
      BY <1>1, <2>1 DEF HandCounted
    <3>2. PICK h \in HighAtEntry(port) :
            /\ port' = [Entered(port, m, h) EXCEPT !.legacy = FALSE]
            /\ disk' \in {port', disk}
      BY <1>5, <2>3, Zenon DEF AdoptBuy, SaveUnlessFault
    <3> DEFINE q == Entered(port, m, h)
    <3>3. q \in Books
      BY <1>2, <3>1, EnteredBook
    <3> HIDE DEF q
    <3>4. port' = [q EXCEPT !.legacy = FALSE]
      BY <3>2 DEF q
    <3>5. Same(port', q)
      BY <3>3, <3>4 DEF Books, Same
    <3>6. Same(port', Entered(port, m, h))
      BY <3>5 DEF q
    <3> QED
      BY <1>3, <2>1, <3>1, <3>2, <3>6, EntryIsCounted
  <2> QED
    BY <2>2, <2>3
<1>6. ASSUME AdoptRemainder(d) PROVE Kept
  <2> DEFINE m == snap[d].market
             v == IF ledgerVol[m] > 0 THEN ledgerVol[m] ELSE bot.vol
             hi == IF port.high = "zero" THEN "near" ELSE port.high
             p == [port EXCEPT !.market = m, !.vol = v, !.high = hi]
             q == [Accounted(p, m, FALSE) EXCEPT !.partial = TRUE]
  <2>1. Resume(d) /\ at = "recovering" /\ pc[d] = "settled" /\ snap[d].side = "ask" /\ bot.vol > 0
    BY <1>6 DEF AdoptRemainder
  <2>2. disk' \in {port', disk} /\ port' \in {p, q}
    BY <1>6 DEF AdoptRemainder, SaveUnlessFault
  <2>3. m \in Markets
    BY <1>1, <2>1 DEF HandCounted
  <2>4. v \in Volumes /\ hi \in {"zero", "near", "above"}
    BY <1>2, <2>3, IInvParts DEF Parts, GlobalTypeOK, BotStates, Books
  <2> HIDE DEF v, hi
  <2>5. p \in Books /\ Same(p, port)
    BY <1>2, <2>3, <2>4 DEF Books, Same
  <2> HIDE DEF p
  <2> DEFINE r == Accounted(p, m, FALSE)
  <2>6. r \in Books /\ From(r, p)
    BY <1>2, <2>3, <2>5, AccountedFrom
  <2> HIDE DEF r
  <2>7. Same(q, r)
    <3>1. q = [r EXCEPT !.partial = TRUE]
      BY DEF r
    <3> QED
      BY <2>6, <3>1 DEF Books, Same
  <2> HIDE DEF q
  <2>8. From(p, port) /\ From(q, port)
    <3>1. From(p, port) /\ From(q, p)
      BY <1>2, <2>5, <2>6, <2>7, SelfFrom, SameFrom
    <3> QED
      BY <1>2, <2>5, <3>1, FromSame
  <2>9. From(port', port) /\ (From(disk', port) \/ From(disk', disk))
    BY <1>2, <2>2, <2>8, SelfFrom
  <2> QED
    BY <1>2, <1>3, <2>1, <2>9, HandsEmptied, CountStays DEF Before, Kept
<1>7. ASSUME AccountAdopted(d) PROVE Kept
  <2>1. /\ at = "recovering" /\ at' = "closeAdopted" /\ pc[d] = "settled" /\ snap[d].side = "ask"
        /\ disk' = disk /\ UNCHANGED <<pc, snap>>
    BY <1>7 DEF AccountAdopted, Move, vars, locals
  <2> DEFINE m == snap[d].market
  <2>2. m \in Markets /\ ledgerVol[m] = 0
    <3>1. bot.active = None /\ bot.vol = 0
      BY <1>1, <1>7 DEF InCall, AccountAdopted
    <3> QED
      BY <1>1, <1>2, <2>1, <3>1, FlatIsSoldOut DEF HandCounted
  <2>3. port' = port \/ port' = Accounted(port, m, TRUE)
    BY <1>7 DEF AccountAdopted
  <2>4. From(port', port) /\ From(disk', disk)
    BY <1>2, <2>1, <2>2, <2>3, SelfFrom, AccountedFrom
  <2>5. \A e \in Daemons : HandCounted(e)'
    <3>1. \A i \in Ids : Past(i) => Past(i)'
      BY OrdersGo DEF OrdersGoOn, Before
    <3> QED
      BY <2>1, <3>1 DEF Before, CountInv, HandCounted
  <2> QED
    BY <1>3, <2>4, <2>5, CountStays DEF Before, Kept
<1>8. ASSUME SaveAdopted(d) PROVE Kept
  <2>1. Resume(d) /\ port' = Cleared(port) /\ disk' = port'
    BY <1>8 DEF SaveAdopted
  <2>2. From(port', port) /\ From(disk', port)
    BY <1>2, <2>1, ClearedFrom
  <2> QED
    BY <1>2, <1>3, <2>1, <2>2, HandsEmptied, CountStays DEF Before, Kept
<1> QED
  BY <1>4, <1>5, <1>6, <1>7, <1>8 DEF RecoverStep

(* The sale of a position older than the ledger is scored on its own, and  *)
(* no other one is ever.                                                   *)
LEMMA ImportIsCounted ==
    ASSUME Before, [Next]_vars, NEW d \in Daemons, AccountSold(d),
           ~(booked[snap[d].active] > 0), \A e \in Daemons : HandCounted(e)'
    PROVE  Kept
<1> DEFINE b == Cardinality(Buys)
           c == Cardinality(Booked)
<1>1. /\ at = "selling" /\ at' = "closeSold" /\ pc[d] = "settled" /\ bot.vol = 0
      /\ disk' = disk
      /\ UNCHANGED <<bot, booked, orders, legacy, ledgerVol, gains, opened, entered>>
  BY DEF AccountSold, Move, vars, files, venue, history
<1>2. PICK i \in Ids : i = snap[d].active /\ Past(i)
  BY <1>1 DEF Before, CountInv, HandCounted
<1>3. booked[i] = 0 /\ ~legacy
  <2>1. booked[i] \in Nat
    BY IInvParts, ConstantsAssumption DEF Before, Parts, GlobalTypeOK, Volumes
  <2>2. ~legacy
    BY <1>1, FlatIsSoldOut DEF Before, CallsHold, InCall
  <2> QED
    BY <1>2, <2>1, <2>2
<1>4. /\ port \in Books /\ disk \in Books /\ tally \in Tallies /\ b \in Nat /\ c \in Nat
  BY CountsRise DEF Before, BooksTyped, Tallies
<1>5. PICK n : n = tally.imported + 1
  OBVIOUS
<1>6. PICK w : w = port.wins + 1
  OBVIOUS
<1>7. PICK l : l = port.losses + 1
  OBVIOUS
<1>8. /\ port' = [port EXCEPT !.wins = w] \/ port' = [port EXCEPT !.losses = l]
      /\ tally' = [tally EXCEPT !.imported = n]
  BY <1>2, <1>5, <1>6, <1>7, Zenon DEF AccountSold
<1>9. /\ tally.imported = 0 /\ tally'.won = tally.won /\ tally'.lost = tally.lost
      /\ tally'.imported = 1 /\ tally' \in Tallies
  <2>1. tally.imported = 0
    BY <1>1, <1>2, <1>3 DEF Before, CountInv, HandCounted
  <2> QED
    BY <1>4, <1>5, <1>8, <2>1 DEF Tallies
<1>10. /\ port' \in Books /\ port'.entries = port.entries /\ port'.baseline = port.baseline
       /\ port'.accounted = port.accounted
  BY <1>4, <1>6, <1>7, <1>8 DEF Books
<1>11. Buys' = Buys /\ Booked' = Booked /\ Past(i)'
  BY <1>1, <1>2 DEF Buys, Booked, Past
<1>12. Counted(port', b, c) /\ Counted(disk', b, c)
  <2>1. Counted(port, b, c) /\ Counted(disk, b, c)
    BY DEF Before, CountInv
  <2> HIDE DEF b, c
  <2> QED
    BY <1>1, <1>10, <2>1 DEF Counted
<1>13. ImportedOnce'
  <2>1. \E j \in Ids : Past(j)' /\ booked'[j] = 0
    BY <1>1, <1>3, <1>11
  <2>2. ~legacy'
    BY <1>1, <1>3
  <2> QED
    BY <1>9, <2>1, <2>2 DEF ImportedOnce
<1>14. ScoredOnce(port)' /\ ScoredOnce(disk)'
  <2>1. Unscored(port)' = Unscored(port) /\ Unscored(disk)' = Unscored(disk)
    BY <1>1, <1>10 DEF Unscored
  <2>2. ScoredOnce(port) /\ ScoredOnce(disk)
    BY DEF Before, CountInv
  <2>3. Cardinality(Unscored(port)) \in Nat /\ Cardinality(Unscored(disk)) \in Nat
    BY <2>2, FS_CardinalityType DEF ScoredOnce
  <2>4. /\ port.wins \in Nat /\ port.losses \in Nat /\ disk.wins \in Nat /\ disk.losses \in Nat
        /\ tally.won \in Nat /\ tally.lost \in Nat
    BY <1>4 DEF Books, Tallies
  <2>5. port'.wins + port'.losses = port.wins + port.losses + 1
    BY <1>4, <1>6, <1>7, <1>8, <2>4 DEF Books
  <2>6. port'.wins + port'.losses + Cardinality(Unscored(port))
          <= tally'.won + tally'.lost + tally'.imported
    BY <1>9, <2>2, <2>3, <2>4, <2>5 DEF ScoredOnce
  <2>7. disk.wins + disk.losses + Cardinality(Unscored(disk))
          <= tally'.won + tally'.lost + tally'.imported
    BY <1>9, <2>2, <2>3, <2>4 DEF ScoredOnce
  <2> QED
    BY <1>1, <2>1, <2>2, <2>6, <2>7 DEF ScoredOnce
<1>15. BooksTyped'
  BY <1>1, <1>4, <1>9, <1>10 DEF Before, BooksTyped, Tallies
<1> QED
  BY <1>1, <1>9, <1>11, <1>12, <1>13, <1>14, <1>15 DEF Before, CountInv, Counted, Amounts, Kept

LEMMA TradesKeepCounts ==
    ASSUME Before, [Next]_vars, NEW d \in Daemons, TradeStep(d)
    PROVE  Kept
<1>1. /\ HandCounted(d) /\ InCall(d)
      /\ at \in {"selling", "halving"} => port.market \in Markets
  BY DEF Before, CountInv, CallsHold
<1>2. port \in Books /\ disk \in Books /\ BooksTyped /\ IInv
  BY DEF Before, BooksTyped
<1>3. UNCHANGED <<gains, opened, entered, ledgerVol>>
  BY DEF TradeStep, BeginSell, BeginHalfSell, BeginBuy, OrderFails, FinishBuy, FinishRemainder,
     FinishHalf, AccountSold, SaveSold, Idle, history, Resume, PlanExecution, vars, files
<1>4. ASSUME BeginSell(d) \/ BeginHalfSell(d) \/ BeginBuy(d) PROVE Kept
  <2>1. /\ UNCHANGED tally /\ port' = port /\ disk' = disk
        /\ pc[d] # "off" /\ Goto(d, "planned")
    BY <1>4 DEF BeginSell, BeginHalfSell, BeginBuy, PlanExecution, Idle, history, Move
  <2>2. \A e \in Daemons : HandCounted(e)'
    BY <1>2, <2>1, NoneSettled, NoHands DEF Points
  <2> QED
    BY <1>2, <1>3, <2>1, <2>2, SelfFrom, CountStays DEF Before, Kept
<1>5. ASSUME OrderFails(d) PROVE Kept
  <2>1. Resume(d) /\ UNCHANGED tally /\ port' = port /\ disk' = disk
    BY <1>5 DEF OrderFails, AfterOrder, history
  <2> QED
    BY <1>2, <1>3, <2>1, HandsEmptied, SelfFrom, CountStays DEF Before, Kept
<1>6. ASSUME FinishBuy(d) PROVE Kept
  <2> DEFINE m == snap[d].market
  <2>1. Resume(d) /\ UNCHANGED tally /\ at = "buying" /\ pc[d] = "settled"
    BY <1>6 DEF FinishBuy, Move, history
  <2>2. CASE port' = port /\ disk' = disk
    BY <1>2, <1>3, <2>1, <2>2, HandsEmptied, SelfFrom, CountStays DEF Before, Kept
  <2>3. CASE ~(port' = port /\ disk' = disk)
    <3>1. /\ bot.vol > 0
          /\ \E h \in HighAtEntry(port) : port' = [Entered(port, m, h) EXCEPT !.partial = FALSE]
          /\ disk' = port'
      BY <1>6, <2>3 DEF FinishBuy
    <3>2. PICK h \in HighAtEntry(port) : port' = [Entered(port, m, h) EXCEPT !.partial = FALSE]
      BY <3>1
    <3>3. m \in Markets
      BY <1>1, <2>1 DEF HandCounted
    <3> DEFINE q == Entered(port, m, h)
    <3>4. q \in Books
      BY <1>2, <3>3, EnteredBook
    <3> HIDE DEF q
    <3>5. port' = [q EXCEPT !.partial = FALSE]
      BY <3>2 DEF q
    <3>6. Same(port', q)
      BY <3>4, <3>5 DEF Books, Same
    <3>7. Same(port', Entered(port, m, h))
      BY <3>6 DEF q
    <3> QED
      BY <1>3, <2>1, <3>1, <3>3, <3>7, EntryIsCounted
  <2> QED
    BY <2>2, <2>3
<1>7. ASSUME FinishRemainder(d) PROVE Kept
  <2>1. /\ Resume(d) /\ UNCHANGED tally
        /\ port' = [port EXCEPT !.vol = bot.vol] /\ disk' = port'
    BY <1>7 DEF FinishRemainder, Move, history
  <2>2. Same(port', port) /\ Same(disk', port)
    <3>1. bot.vol \in Volumes
      BY <1>2, IInvParts DEF Parts, GlobalTypeOK, BotStates
    <3> QED
      BY <1>2, <2>1, <3>1 DEF Books, Same
  <2>3. From(port', port) /\ From(disk', port)
    BY <1>2, <2>2, SelfFrom, SameFrom
  <2> QED
    BY <1>2, <1>3, <2>1, <2>3, HandsEmptied, CountStays DEF Before, Kept
<1>8. ASSUME FinishHalf(d) PROVE Kept
  <2> DEFINE m == snap[d].market
  <2>1. Resume(d) /\ UNCHANGED tally /\ at = "halving" /\ pc[d] = "settled"
    BY <1>8 DEF FinishHalf, Move, history
  <2>2. CASE port' = port /\ disk' = disk
    BY <1>2, <1>3, <2>1, <2>2, HandsEmptied, SelfFrom, CountStays DEF Before, Kept
  <2>3. CASE ~(port' = port /\ disk' = disk)
    <3>1. /\ disk' = port'
          /\ port' = [Accounted(port, m, FALSE) EXCEPT !.vol = bot.vol, !.partial = TRUE]
      BY <1>8, <2>3 DEF FinishHalf
    <3>2. m \in Markets
      BY <1>1, <2>1 DEF HandCounted
    <3> DEFINE r == Accounted(port, m, FALSE)
    <3>3. r \in Books /\ From(r, port)
      BY <1>2, <3>2, AccountedFrom
    <3> HIDE DEF r
    <3>4. port' = [r EXCEPT !.vol = bot.vol, !.partial = TRUE]
      BY <3>1 DEF r
    <3>5. Same(port', r) /\ Same(disk', r)
      <4>1. bot.vol \in Volumes
        BY <1>2, IInvParts DEF Parts, GlobalTypeOK, BotStates
      <4> QED
        BY <3>1, <3>3, <3>4, <4>1 DEF Books, Same
    <3>6. From(port', port) /\ From(disk', port)
      BY <1>2, <3>3, <3>5, SameFrom
    <3> QED
      BY <1>2, <1>3, <2>1, <3>6, HandsEmptied, CountStays DEF Before, Kept
  <2> QED
    BY <2>2, <2>3
<1>9. ASSUME AccountSold(d) PROVE Kept
  <2>1. /\ at = "selling" /\ at' = "closeSold" /\ pc[d] = "settled" /\ bot.vol = 0
        /\ disk' = disk /\ UNCHANGED <<bot, booked, orders, legacy, pc, snap>>
    BY <1>9 DEF AccountSold, Move, vars, files, locals, venue
  <2>2. port.market \in Markets /\ ledgerVol[port.market] = 0
    <3>1. bot.active = None
      BY <1>1, <2>1 DEF InCall
    <3> QED
      BY <1>1, <1>2, <2>1, <3>1, FlatIsSoldOut
  <2>3. \A e \in Daemons : HandCounted(e)'
    <3>1. \A i \in Ids : Past(i) => Past(i)'
      BY OrdersGo DEF OrdersGoOn, Before
    <3> QED
      BY <2>1, <3>1 DEF Before, CountInv, HandCounted
  <2>4. CASE booked[snap[d].active] > 0
    <3>1. port' = Accounted(port, port.market, TRUE) /\ tally' = tally
      BY <1>9, <2>4 DEF AccountSold
    <3>2. From(port', port) /\ From(disk', disk)
      BY <1>2, <2>1, <2>2, <3>1, SelfFrom, AccountedFrom
    <3> QED
      BY <1>3, <2>1, <2>3, <3>1, <3>2, CountStays DEF Before, Kept
  <2>5. CASE ~(booked[snap[d].active] > 0)
    BY <1>9, <2>3, <2>5, ImportIsCounted
  <2> QED
    BY <2>4, <2>5
<1>10. ASSUME SaveSold(d) PROVE Kept
  <2>1. Resume(d) /\ UNCHANGED tally /\ port' = Cleared(port) /\ disk' = port'
    BY <1>10 DEF SaveSold, Move, history
  <2>2. From(port', port) /\ From(disk', port)
    BY <1>2, <2>1, ClearedFrom
  <2> QED
    BY <1>2, <1>3, <2>1, <2>2, HandsEmptied, CountStays DEF Before, Kept
<1> QED
  BY <1>4, <1>5, <1>6, <1>7, <1>8, <1>9, <1>10 DEF TradeStep

----------------------------------------------------------------------------
(* The control variables.                                                  *)

LEMMA CoolDownTyped ==
    ASSUME ControlTyped, NEW p, NEW m \in Markets,
           CoolDown(p, m) \/ UNCHANGED <<cool, unrested>>
    PROVE  rest' \in BOOLEAN /\ unrested' \in BOOLEAN /\ exits' \subseteq Markets
<1>1. CASE UNCHANGED <<cool, unrested>>
  BY <1>1 DEF cool, ControlTyped
<1>2. CASE CoolDown(p, m) /\ ~UNCHANGED <<cool, unrested>>
  <2>1. /\ exits' = exits \cup {m}
        /\ rest' = (rest \/ ~Won(p, m)) /\ unrested' = (unrested /\ Won(p, m))
    BY <1>2 DEF CoolDown
  <2>2. exits' \subseteq Markets
    BY <2>1 DEF ControlTyped
  <2>3. rest' \in BOOLEAN /\ unrested' \in BOOLEAN
    BY <2>1, Zenon
  <2> QED
    BY <2>2, <2>3
<1> QED
  BY <1>1, <1>2

LEMMA MovesTyped ==
    ASSUME ControlTyped, Raise \/ Return \/ UNCHANGED <<back, healthy, hint>>
    PROVE  /\ back' \in {"boot", "pending", "hint", "periodic", "loop"}
           /\ healthy' \in BOOLEAN /\ hint' \in BOOLEAN
<1>1. CASE Raise
  <2>1. back' = "loop"
    BY <1>1 DEF Raise
  <2>2. healthy' \in BOOLEAN /\ hint' \in BOOLEAN
    BY <1>1, Zenon DEF Raise
  <2> QED
    BY <2>1, <2>2
<1>2. CASE Return \/ UNCHANGED <<back, healthy, hint>>
  BY <1>2 DEF Return, ControlTyped
<1> QED
  BY <1>1, <1>2

LEMMA ControlStays ==
    ASSUME ControlTyped, UNCHANGED <<dayTurned, cool, crashes, unrested, earned>>,
           ReadFault \/ UNCHANGED faults,
           at' \in Places, Raise \/ Return \/ UNCHANGED <<back, healthy, hint>>
    PROVE  ControlTyped'
<1>2. faults' \in 0..MaxReadFaults
  BY DaemonAssumption DEF ReadFault, ControlTyped
<1>1. /\ back' \in {"boot", "pending", "hint", "periodic", "loop"}
      /\ healthy' \in BOOLEAN /\ hint' \in BOOLEAN
  BY MovesTyped
<1> QED
  BY <1>1, <1>2 DEF ControlTyped, cool

LEMMA LoopKeepsControl ==
    ASSUME ControlTyped, LoopStep
    PROVE  ControlTyped'
<1>1. CASE Roll
  <2>1. /\ at' \in Places /\ dayTurned' = FALSE
        /\ UNCHANGED <<back, healthy, hint, cool, budget, unrested, earned>>
    BY <1>1 DEF Roll, Places
  <2> QED
    BY <2>1 DEF ControlTyped, cool, budget
<1>2. CASE Pending \/ Recover \/ Milestone \/ SkipManage \/ SkipEntry \/ Periodic \/ TakeHint
  <2>1. /\ at' \in Places /\ UNCHANGED <<dayTurned, cool, budget, unrested, earned>>
    BY <1>2 DEF Pending, Recover, Milestone, SkipManage, SkipEntry, Periodic, TakeHint, Idle, Move,
       Raise, history, Places, ControlTyped
  <2>2. /\ back' \in {"boot", "pending", "hint", "periodic", "loop"}
        /\ healthy' \in BOOLEAN /\ hint' \in BOOLEAN
    <3>1. CASE Recover
      BY <3>1, MovesTyped DEF Recover, Move
    <3>2. CASE ~Recover
      BY <1>2, <3>2 DEF Pending, Milestone, SkipManage, SkipEntry, Periodic, TakeHint, Move,
         ControlTyped
    <3> QED
      BY <3>1, <3>2
  <2> QED
    BY <2>1, <2>2 DEF ControlTyped, cool, budget
<1>3. ASSUME NEW peak \in BOOLEAN, Watch(peak) PROVE ControlTyped'
  <2>1. /\ at' \in Places
        /\ UNCHANGED <<back, healthy, hint, dayTurned, cool, budget, unrested>>
        /\ earned' = (earned \/ peak)
    BY <1>3 DEF Watch, Move, Places
  <2>2. earned' \in BOOLEAN
    BY <2>1, Zenon
  <2> QED
    BY <2>1, <2>2 DEF ControlTyped, cool, budget
<1> QED
  BY <1>1, <1>2, <1>3 DEF LoopStep

LEMMA ProcessKeepsControl ==
    ASSUME ControlTyped, NEW d \in Daemons,
           Boot(d) \/ Die(d) \/ ExecutorStep(d) \/ BookTrades(d) \/ SettleOrder(d)
    PROVE  ControlTyped'
<1>1. CASE Boot(d)
  BY <1>1 DEF Boot, history, ControlTyped, cool, budget, Places
<1>2. CASE Die(d)
  <2>1. crashes' \in 0..MaxCrashes
    BY <1>2, DaemonAssumption DEF Die, ControlTyped
  <2> QED
    BY <1>2, <2>1 DEF Die, history, ControlTyped, cool, Places
<1>3. CASE ExecutorStep(d)
  BY <1>3 DEF ExecutorStep, dvars, control, history, ControlTyped, cool, budget
<1>4. CASE BookTrades(d)
  <2>1. UNCHANGED <<control, dayTurned, cool, budget, earned>>
    BY <1>4 DEF BookTrades
  <2>2. unrested' \in BOOLEAN
    <3>1. \/ unrested' = unrested
          \/ \E lost \in BOOLEAN : unrested' = (unrested \/ lost)
      <4>1. (gains'[snap[d].market] < opened[snap[d].market]) \in BOOLEAN
        OBVIOUS
      <4> QED
        BY <1>4, <4>1, Zenon DEF BookTrades
    <3> QED
      BY <3>1, Zenon DEF ControlTyped
  <2> QED
    BY <2>1, <2>2 DEF control, ControlTyped, cool, budget
<1>5. CASE SettleOrder(d)
  <2>1. UNCHANGED <<control, dayTurned, cool, budget, unrested>>
    BY <1>5 DEF SettleOrder
  <2>2. earned' \in BOOLEAN
    BY <1>5, Zenon DEF SettleOrder
  <2> QED
    BY <2>1, <2>2 DEF control, ControlTyped, cool, budget
<1> QED
  BY <1>1, <1>2, <1>3, <1>4, <1>5

LEMMA EnvironmentKeepsControl ==
    ASSUME ControlTyped, Environment \/ UNCHANGED allVars
    PROVE  ControlTyped'
<1>1. CASE CooldownEnds
  BY <1>1 DEF CooldownEnds, control, history, ControlTyped, budget
<1>2. CASE TurnDay \/ ReceiveHint
  BY <1>2 DEF TurnDay, ReceiveHint, control, history, ControlTyped, cool, budget
<1>3. CASE ExchangeStep \/ SellByHand \/ UNCHANGED allVars
  BY <1>3 DEF ExchangeStep, SellByHand, allVars, dvars, control, history, ControlTyped, cool, budget
<1> QED
  BY <1>1, <1>2, <1>3 DEF Environment

LEMMA AccountKeepsControl ==
    ASSUME ControlTyped, BooksTyped, AccountStep
    PROVE  ControlTyped'
<1>2. CASE \/ RepairLong \/ SaveRepaired \/ RepairRaises \/ ReconcileAccount \/ SaveGone
           \/ ReconcileRefuses
  <2>1. UNCHANGED <<dayTurned, cool, crashes, unrested, earned>>
        /\ (ReadFault \/ UNCHANGED faults)
    BY <1>2 DEF RepairLong, SaveRepaired, RepairRaises, ReconcileAccount, ReconcileGone,
       ReconcileVolume, ReconcileCash, SaveUnlessFault, SaveGone, ReconcileRefuses, history, budget
  <2>2. at' \in Places /\ (Raise \/ Return \/ UNCHANGED <<back, healthy, hint>>)
    BY <1>2 DEF RepairLong, SaveRepaired, RepairRaises, ReconcileAccount, ReconcileGone,
       ReconcileVolume, ReconcileCash, SaveUnlessFault, SaveGone, ReconcileRefuses, Move, Raise,
       Return, Places
  <2> QED
    BY <2>1, <2>2, ControlStays
<1>3. CASE RepairFlat
  <2>1. /\ at' \in Places /\ UNCHANGED <<back, healthy, hint, dayTurned, budget, earned>>
    BY <1>3 DEF RepairFlat, Move, Places
  <2>2. rest' \in BOOLEAN /\ unrested' \in BOOLEAN /\ exits' \subseteq Markets
    <3>1. CASE port.market = None
      BY <1>3, <3>1 DEF RepairFlat, cool, ControlTyped
    <3>2. CASE port.market # None
      <4>1. port.market \in Markets
        BY <3>2 DEF BooksTyped, Books
      <4>2. CoolDown(port, port.market) \/ UNCHANGED <<cool, unrested>>
        BY <1>3, <3>2 DEF RepairFlat
      <4> QED
        BY <4>1, <4>2, CoolDownTyped
    <3> QED
      BY <3>1, <3>2
  <2> QED
    BY <2>1, <2>2 DEF ControlTyped, budget
<1> QED
  BY <1>2, <1>3 DEF AccountStep

LEMMA CallsKeepControl ==
    ASSUME ControlTyped, Before, NEW d \in Daemons,
           RecoverStep(d) \/ TradeStep(d)
    PROVE  ControlTyped'
<1>1. /\ HandCounted(d) /\ InCall(d)
      /\ at \in {"selling", "halving"} => port.market \in Markets
  BY DEF Before, CountInv, CallsHold
<1>2. CASE \/ RecoverRaises(d) \/ AdoptBuy(d) \/ AdoptRemainder(d)
           \/ BeginSell(d) \/ BeginHalfSell(d) \/ BeginBuy(d) \/ OrderFails(d)
           \/ FinishBuy(d) \/ FinishRemainder(d) \/ FinishHalf(d)
  <2>1. UNCHANGED <<dayTurned, cool, crashes, unrested, earned>>
        /\ (ReadFault \/ UNCHANGED faults)
    BY <1>2 DEF RecoverRaises, AdoptBuy, AdoptRemainder, BeginSell, BeginHalfSell, BeginBuy,
       OrderFails, FinishBuy, FinishRemainder, FinishHalf, SaveUnlessFault, Idle, history, budget
  <2>2. at' \in Places /\ (Raise \/ Return \/ UNCHANGED <<back, healthy, hint>>)
    BY <1>2 DEF RecoverRaises, AdoptBuy, AdoptRemainder, BeginSell, BeginHalfSell, BeginBuy,
       OrderFails, FinishBuy, FinishRemainder, FinishHalf, SaveUnlessFault, Adopted, AfterOrder,
       Move, Raise, Places
  <2> QED
    BY <2>1, <2>2, ControlStays
<1>3. CASE AccountAdopted(d) \/ AccountSold(d)
  <2>1. /\ at' \in Places /\ UNCHANGED <<back, healthy, hint, dayTurned, budget, earned>>
        /\ pc[d] = "settled" /\ snap[d].market \in Markets
    BY <1>1, <1>3 DEF AccountAdopted, AccountSold, Move, Places, HandCounted
  <2>2. rest' \in BOOLEAN /\ unrested' \in BOOLEAN /\ exits' \subseteq Markets
    <3>1. CASE AccountAdopted(d)
      <4>1. CoolDown(port, snap[d].market) \/ UNCHANGED <<cool, unrested>>
        BY <3>1 DEF AccountAdopted
      <4> QED
        BY <2>1, <4>1, CoolDownTyped
    <3>2. CASE AccountSold(d)
      <4>1. port.market \in Markets
        BY <1>1, <3>2 DEF AccountSold, Move
      <4>2. \/ CoolDown(port, port.market)
            \/ rest' \in {rest, TRUE} /\ UNCHANGED <<exits, unrested>>
        BY <3>2 DEF AccountSold
      <4> QED
        BY <4>1, <4>2, CoolDownTyped DEF ControlTyped
    <3> QED
      BY <1>3, <3>1, <3>2
  <2> QED
    BY <2>1, <2>2 DEF ControlTyped, budget
<1>4. CASE SaveAdopted(d) \/ SaveSold(d)
  <2>1. /\ at' \in Places
        /\ UNCHANGED <<back, healthy, hint, dayTurned, rest, budget, unrested, earned>>
        /\ exits' = exits \cup {snap[d].market} /\ Resume(d) /\ ~Trading
    BY <1>4 DEF SaveAdopted, SaveSold, Move, Places, Trading, history
  <2>2. snap[d].market \in Markets
    BY <1>1, <2>1 DEF Resume, InCall, HandCounted
  <2> QED
    BY <2>1, <2>2 DEF ControlTyped, budget
<1> QED
  BY <1>2, <1>3, <1>4 DEF RecoverStep, TradeStep

----------------------------------------------------------------------------
LEMMA CountInvHolds ==
    ASSUME IsFiniteSet(Ids), DaemonInit
    PROVE  IInv /\ BooksTyped /\ CallsHold /\ CountInv /\ ControlTyped
<1> DEFINE b == Cardinality(Buys)
           c == Cardinality(Booked)
<1>1. b \in Nat /\ c \in Nat
  BY FS_Subset, FS_CardinalityType DEF Buys, Booked
<1>2. PICK zero : zero = 0
  OBVIOUS
<1>3. \E m \in Markets \cup {None} :
        port = [market |-> m, vol |-> bot.vol, entries |-> zero,
                accounted |-> [n \in Markets |-> zero], baseline |-> zero,
                wins |-> zero, losses |-> zero,
                high |-> IF bot.vol > 0 THEN "near" ELSE "zero",
                locked |-> FALSE, legacy |-> legacy, partial |-> FALSE,
                eligible |-> Eligible(bot.policy), stamped |-> bot.vol > 0]
  BY <1>2, Zenon DEF DaemonInit
<1>4. /\ gains = [n \in Markets |-> zero] /\ opened = gains
      /\ tally = [won |-> zero, lost |-> zero, imported |-> zero] /\ entered = zero
  BY <1>2, Zenon DEF DaemonInit
<1>5. /\ disk = port /\ \A d \in Daemons : pc[d] = "off"
  BY DEF DaemonInit, Init
<1>6. /\ port.entries = 0 /\ port.baseline = 0 /\ \A m \in Markets : port.accounted[m] = 0
  BY <1>2, <1>3
<1>7. /\ \A m \in Markets : gains[m] = 0 /\ opened[m] = 0
      /\ tally.won = 0 /\ tally.lost = 0 /\ tally.imported = 0 /\ entered = 0
  BY <1>2, <1>4
<1>8. 0 \in Amounts(c)
  BY <1>1, NothingIsAnAmount
<1>9. Counted(port, b, c) /\ Counted(disk, b, c)
  <2> HIDE DEF b, c
  <2> QED
    BY <1>1, <1>5, <1>6, <1>8 DEF Counted
<1>10. /\ entered \in Nat /\ entered <= b /\ tally.won + tally.lost <= c
       /\ \A m \in Markets : gains[m] \in Amounts(c) /\ opened[m] \in Amounts(c)
  <2> HIDE DEF b, c
  <2> QED
    BY <1>1, <1>7, <1>8
<1>11. ImportedOnce
  BY <1>7 DEF ImportedOnce
<1>12. \A d \in Daemons : HandCounted(d)
  BY <1>5 DEF HandCounted
<1>13. ControlTyped
  <2>1. /\ at = "off" /\ back = "boot" /\ ~healthy /\ ~hint /\ ~dayTurned /\ ~rest
        /\ exits = {} /\ ~unrested /\ ~earned
    BY DEF DaemonInit
  <2>2. /\ healthy \in BOOLEAN /\ hint \in BOOLEAN /\ dayTurned \in BOOLEAN
        /\ rest \in BOOLEAN /\ unrested \in BOOLEAN /\ earned \in BOOLEAN
    BY Zenon DEF DaemonInit
  <2>3. crashes = 0 /\ faults = 0
    BY Zenon DEF DaemonInit
  <2>4. crashes \in 0..MaxCrashes /\ faults \in 0..MaxReadFaults
    BY <2>3, DaemonAssumption
  <2> QED
    BY <2>1, <2>2, <2>4 DEF ControlTyped, Places
<1>14. IInv /\ BooksTyped
  BY DaemonInitHolds, ScoreInvHolds DEF ScoreInv
<1>15. CallsHold
  BY <1>5 DEF DaemonInit, CallsHold, InCall
<1>16. ScoredOnce(port) /\ ScoredOnce(disk)
  <2>1. \A m \in Markets : gains[m] = port.accounted[m]
    BY <1>6, <1>7
  <2>2. Unscored(port) = {}
    BY <2>1 DEF Unscored
  <2>3. port.wins = 0 /\ port.losses = 0
    BY <1>2, <1>3
  <2> QED
    BY <1>5, <1>7, <2>2, <2>3, FS_EmptySet DEF ScoredOnce
<1> QED
  BY <1>9, <1>10, <1>11, <1>12, <1>13, <1>14, <1>15, <1>16 DEF CountInv

LEMMA CountInvKept ==
    ASSUME ~ManualSales, IsFiniteSet(Ids), IInv, BooksTyped, CallsHold, CountInv, ControlTyped,
           [DaemonNext]_allVars
    PROVE  IInv' /\ BooksTyped' /\ CallsHold' /\ CountInv' /\ ControlTyped'
<1>1. Before /\ [Next]_vars /\ IInv'
  BY DaemonKeeps, BooksAreShaped DEF Before
<1>2. CASE LoopStep
  BY <1>1, <1>2, LoopKeepsCalls, LoopKeepsCounts, LoopKeepsControl DEF Kept
<1>3. ASSUME NEW d \in Daemons, Boot(d) \/ Die(d) PROVE CallsHold' /\ Kept /\ ControlTyped'
  BY <1>1, <1>3, ProcessKeepsCalls, BootKeepsCounts, ProcessKeepsControl
<1>4. ASSUME NEW d \in Daemons, ExecutorStep(d) \/ BookTrades(d) \/ SettleOrder(d)
      PROVE  CallsHold' /\ Kept /\ ControlTyped'
  BY <1>1, <1>4, ExecutorKeepsCalls, CallKeepsCounts, BookingKeepsCounts, SettlingKeepsCounts,
     ProcessKeepsControl
<1>5. ASSUME NEW d \in Daemons, RecoverStep(d) \/ TradeStep(d)
      PROVE  CallsHold' /\ Kept /\ ControlTyped'
  BY <1>1, <1>5, TradesKeepCalls, RecoveryKeepsCounts, TradesKeepCounts, CallsKeepControl
<1>6. CASE AccountStep
  BY <1>1, <1>6, AccountKeepsCalls, AccountKeepsCounts, AccountKeepsControl DEF Kept
<1>7. CASE Environment \/ UNCHANGED allVars
  BY <1>1, <1>7, EnvironmentKeepsCalls, EnvironmentKeepsCounts, EnvironmentKeepsControl DEF Kept
<1> QED
  BY <1>1, <1>2, <1>3, <1>4, <1>5, <1>6, <1>7 DEF DaemonNext, Kept

LEMMA CountsAreKept ==
    ASSUME ~ManualSales, IsFiniteSet(Ids)
    PROVE  DaemonSpec => [](IInv /\ BooksTyped /\ CallsHold /\ CountInv /\ ControlTyped)
<1>1. DaemonInit => IInv /\ BooksTyped /\ CallsHold /\ CountInv /\ ControlTyped
  BY CountInvHolds
<1>2. IInv /\ BooksTyped /\ CallsHold /\ CountInv /\ ControlTyped /\ [DaemonNext]_allVars
        => (IInv /\ BooksTyped /\ CallsHold /\ CountInv /\ ControlTyped)'
  BY CountInvKept
<1> QED
  BY <1>1, <1>2, PTL DEF DaemonSpec

(* No portfolio has scored more trades than were closed.                   *)
LEMMA ScoredAreClosed ==
    ASSUME BooksTyped, CountInv
    PROVE  /\ port.wins + port.losses <= tally.won + tally.lost + tally.imported
           /\ disk.wins + disk.losses <= tally.won + tally.lost + tally.imported
<1>1. /\ port.wins \in Nat /\ port.losses \in Nat /\ disk.wins \in Nat /\ disk.losses \in Nat
      /\ tally.won \in Nat /\ tally.lost \in Nat /\ tally.imported \in Nat
  BY DEF BooksTyped, Books
<1>2. ASSUME NEW p \in {port, disk}
      PROVE  p.wins + p.losses <= tally.won + tally.lost + tally.imported
  <2>1. ScoredOnce(p)
    BY DEF CountInv
  <2>2. Cardinality(Unscored(p)) \in Nat
    BY <2>1, FS_CardinalityType DEF ScoredOnce
  <2>3. p.wins + p.losses + Cardinality(Unscored(p)) <= tally.won + tally.lost + tally.imported
    BY <2>1 DEF ScoredOnce
  <2> QED
    BY <1>1, <2>2, <2>3
<1> QED
  BY <1>2

(* The bounds of the types are those of the counts.                        *)
LEMMA CountsAreBounded ==
    ASSUME IsFiniteSet(Ids), BooksTyped, CountInv
    PROVE  /\ entered \in Counts /\ port.entries \in Counts /\ disk.entries \in Counts
           /\ tally \in [won : Counts, lost : Counts, imported : 0..1]
           /\ port.wins \in Counts /\ port.losses \in Counts
           /\ disk.wins \in Counts /\ disk.losses \in Counts
<1> DEFINE all == Cardinality(Ids)
           b == Cardinality(Buys)
           c == Cardinality(Booked)
<1>1. /\ all \in Nat /\ b \in Nat /\ c \in Nat /\ b <= all /\ c <= all
      /\ IsFiniteSet(Booked) /\ Booked \subseteq Ids
  <2>1. Booked \subseteq Ids /\ Buys \subseteq Ids
    BY DEF Booked, Buys
  <2>2. IsFiniteSet(Booked) /\ IsFiniteSet(Buys) /\ b <= all /\ c <= all
    BY <2>1, FS_Subset
  <2> QED
    BY <2>1, <2>2, FS_CardinalityType
<1>2. /\ port \in Books /\ disk \in Books
      /\ port.entries \in Nat /\ port.wins \in Nat /\ port.losses \in Nat
      /\ disk.entries \in Nat /\ disk.wins \in Nat /\ disk.losses \in Nat
      /\ tally \in [won : Nat, lost : Nat, imported : Nat]
      /\ tally.won \in Nat /\ tally.lost \in Nat /\ tally.imported \in Nat
  BY DEF BooksTyped, Books
<1>3. /\ entered \in Nat /\ entered <= b /\ port.entries <= b /\ disk.entries <= b
      /\ tally.won + tally.lost <= c /\ tally.imported <= 1
  BY DEF CountInv, Counted, ImportedOnce
<1>4. tally.imported > 0 => c + 1 <= all
  <2> SUFFICES ASSUME NEW i \in Ids, booked[i] = 0 PROVE c + 1 <= all
    BY DEF CountInv, ImportedOnce
  <2>1. i \notin Booked
    BY DEF Booked
  <2> QED
    BY <1>1, <2>1, OneMore
<1>5. /\ port.wins + port.losses <= tally.won + tally.lost + tally.imported
      /\ disk.wins + disk.losses <= tally.won + tally.lost + tally.imported
  BY <1>2, ScoredAreClosed
<1> HIDE DEF all, b, c
<1>6. Counts = 0..all
  BY DEF Counts, all
<1>7. tally.won + tally.lost + tally.imported <= all
  BY <1>1, <1>2, <1>3, <1>4
<1>8. tally.won \in 0..all /\ tally.lost \in 0..all /\ tally.imported \in 0..1
  BY <1>1, <1>2, <1>3
<1>9. tally \in [won : 0..all, lost : 0..all, imported : 0..1]
  BY <1>2, <1>8
<1>10. /\ port.wins \in 0..all /\ port.losses \in 0..all
       /\ disk.wins \in 0..all /\ disk.losses \in 0..all
  BY <1>1, <1>2, <1>5, <1>7
<1>11. entered \in 0..all /\ port.entries \in 0..all /\ disk.entries \in 0..all
  BY <1>1, <1>2, <1>3
<1> QED
  BY <1>6, <1>9, <1>10, <1>11

LEMMA AmountsAreBounded ==
    ASSUME IsFiniteSet(Ids), BooksTyped, CountInv
    PROVE  /\ gains \in [Markets -> Gain] /\ opened \in [Markets -> Gain]
           /\ port.baseline \in Gain /\ port.accounted \in [Markets -> Gain]
           /\ disk.baseline \in Gain /\ disk.accounted \in [Markets -> Gain]
<1> DEFINE all == Cardinality(Ids)
           c == Cardinality(Booked)
<1>1. Gain = Amounts(all)
  BY DEF Gain, Amounts
<1>2. all \in Nat /\ c \in Nat /\ c <= all
  <2>1. IsFiniteSet(Booked) /\ c <= all
    BY FS_Subset DEF Booked
  <2> QED
    BY <2>1, FS_CardinalityType
<1>3. /\ gains \in [Markets -> Int] /\ opened \in [Markets -> Int]
      /\ port.accounted \in [Markets -> Int] /\ disk.accounted \in [Markets -> Int]
  BY DEF BooksTyped, Books
<1>4. /\ \A m \in Markets : /\ gains[m] \in Amounts(c) /\ opened[m] \in Amounts(c)
                            /\ port.accounted[m] \in Amounts(c)
                            /\ disk.accounted[m] \in Amounts(c)
      /\ port.baseline \in Amounts(c) /\ disk.baseline \in Amounts(c)
  BY DEF CountInv, Counted
<1> HIDE DEF all, c
<1>5. \A x \in Amounts(c) : x \in Gain
  BY <1>1, <1>2, AmountsGrow
<1> QED
  BY <1>3, <1>4, <1>5

(* Whatever crashes and whatever read fails, the daemon's counters and     *)
(* amounts stay within what the orders allow: no entry is counted for an   *)
(* order that is not a buy that is over, no trade scored and no gain taken *)
(* over twice (autonomous_trader.py: PortfolioState; finitely many ids).   *)
THEOREM DaemonTypeCorrect ==
    IsFiniteSet(Ids) /\ ~ManualSales /\ DaemonSpec => []DaemonTypeOK
<1> SUFFICES ASSUME IsFiniteSet(Ids), ~ManualSales PROVE DaemonSpec => []DaemonTypeOK
  OBVIOUS
<1>1. ASSUME BooksTyped, CountInv, ControlTyped PROVE DaemonTypeOK
  <2>1. port \in Books /\ disk \in Books
    BY <1>1 DEF BooksTyped
  <2>2. ASSUME NEW p \in Books, p.entries \in Counts, p.wins \in Counts, p.losses \in Counts,
               p.baseline \in Gain, p.accounted \in [Markets -> Gain]
        PROVE  p \in Portfolios
    BY <2>2 DEF Books, Portfolios
  <2>3. port \in Portfolios /\ disk \in Portfolios
    BY <1>1, <2>1, <2>2, CountsAreBounded, AmountsAreBounded
  <2> QED
    BY <1>1, <2>3, CountsAreBounded, AmountsAreBounded DEF ControlTyped, DaemonTypeOK
<1> QED
  BY <1>1, CountsAreKept, PTL

(* Whatever crashes and whatever read fails, neither the portfolio in      *)
(* memory nor the one on disk has scored more trades than were closed:     *)
(* what a failed read leaves out is made up for at most once               *)
(* (autonomous_trader.py: account_ledger_realization, docstring: exactly   *)
(* once).                                                                  *)
THEOREM NoTradeIsScoredTwice ==
    IsFiniteSet(Ids) /\ ~ManualSales /\ DaemonSpec =>
      [](/\ port.wins + port.losses <= tally.won + tally.lost + tally.imported
         /\ disk.wins + disk.losses <= tally.won + tally.lost + tally.imported)
<1> SUFFICES ASSUME IsFiniteSet(Ids), ~ManualSales
             PROVE  DaemonSpec =>
                      [](/\ port.wins + port.losses <= tally.won + tally.lost + tally.imported
                         /\ disk.wins + disk.losses <= tally.won + tally.lost + tally.imported)
  OBVIOUS
<1> QED
  BY ScoredAreClosed, CountsAreKept, PTL
=============================================================================
