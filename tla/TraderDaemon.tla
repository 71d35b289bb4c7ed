----------------------------- MODULE TraderDaemon -----------------------------
(***************************************************************************)
(* The loop of scripts/autonomous_trader.py on top of OrderExecutor: crash *)
(* recovery, the repair of the portfolio file, account reconciliation,     *)
(* exits, entries, and the accounting of realised profit and loss.         *)
(*                                                                         *)
(* The portfolio lives in memory (port) and in a file (disk); only a save  *)
(* makes them equal, and a crash or an exception before the save parts     *)
(* them.  Prices are abstracted to what the loop decides from: whether the *)
(* peak is 1% above the entry, and whether a sale won or lost.             *)
(***************************************************************************)
EXTENDS OrderExecutor

CONSTANTS
    MaxEntries,     \* MAX_DAILY_ENTRIES
    MaxCrashes,     \* bound: crashes in a behaviour
    MaxReadFaults,  \* bound: failed balance, price or candle reads
    ManualSales     \* TRUE: a pre-ledger holding may be sold by hand

ASSUME DaemonAssumption ==
    /\ MaxEntries \in Nat /\ MaxCrashes \in Nat /\ MaxReadFaults \in Nat
    /\ ManualSales \in BOOLEAN

VARIABLES
    port, disk,   \* PortfolioState in memory and in state/portfolio.json
    at, back,     \* control point of main(), and the block that called repair
    healthy,      \* reconciliation_healthy
    hint,         \* websocket_reconcile_requested
    dayTurned,    \* today differs from portfolio.last_trade_day
    rest,         \* state/market_rest.json: the market rests after a loss
    exits,        \* state/recent_exits.json: markets in re-entry cooldown
    gains,        \* fill_ledger.jsonl: cumulative realized_pnl per market
    crashes, faults,                     \* how much of the bounds is used
    opened, tally, unrested, entered, earned  \* history, see below

(* opened[m]: gains[m] when the position in m was opened.  tally: trades   *)
(* sold out with a profit, with a loss, and without ledger.  unrested: a   *)
(* loss was realised and the rest not yet set.  entered: filled entries of *)
(* the day.  earned: the price of the position did reach 1% above entry.   *)
history == <<opened, tally, unrested, entered, earned>>
cool    == <<rest, exits>>
budget  == <<crashes, faults>>
control == <<at, back, healthy, hint>>
dvars   == <<port, disk, control, dayTurned, cool, gains, budget, history>>

Counts == 0..Cardinality(Ids)
Gain   == -(Lot * Cardinality(Ids))..((Lot + 1) * Lot * Cardinality(Ids))
Places == {"off", "roll", "pending", "recover", "recovering", "closeAdopted",
           "repair", "closeRepaired", "reconcile", "closeGone", "hint", "milestone", "manage",
           "decide",
           "selling", "halving", "closeSold", "entry", "buying", "periodic"}

Portfolios ==
    [market : Markets \cup {None}, vol : Volumes, entries : Counts,
     accounted : [Markets -> Gain], baseline : Gain,
     wins : Counts, losses : Counts,
     high : {"zero", "near", "above"}, locked : BOOLEAN, legacy : BOOLEAN,
     partial : BOOLEAN, eligible : BOOLEAN, stamped : BOOLEAN]

DaemonTypeOK ==
    /\ port \in Portfolios /\ disk \in Portfolios
    /\ at \in Places /\ back \in {"boot", "pending", "hint", "periodic", "loop"}
    /\ healthy \in BOOLEAN /\ hint \in BOOLEAN /\ dayTurned \in BOOLEAN
    /\ rest \in BOOLEAN /\ exits \subseteq Markets
    /\ gains \in [Markets -> Gain]
    /\ crashes \in 0..MaxCrashes /\ faults \in 0..MaxReadFaults
    /\ opened \in [Markets -> Gain] /\ tally \in [won : Counts, lost : Counts, imported : 0..1]
    /\ unrested \in BOOLEAN /\ entered \in Counts /\ earned \in BOOLEAN

(* ENHANCED_EXIT_POLICY_VERSION = 1.                                       *)
Eligible(policy) == policy >= 1

DaemonInit ==
    /\ Init
    /\ \E m \in Markets \cup {None} :
         /\ m = None <=> bot.vol = 0
         /\ m # None => holding[m] > 0
         /\ port = [market |-> m, vol |-> bot.vol, entries |-> 0,
                    accounted |-> [n \in Markets |-> 0], baseline |-> 0,
                    wins |-> 0, losses |-> 0,
                    high |-> IF bot.vol > 0 THEN "near" ELSE "zero",
                    locked |-> FALSE, legacy |-> legacy, partial |-> FALSE,
                    eligible |-> Eligible(bot.policy), stamped |-> bot.vol > 0]
    /\ disk = port
    /\ at = "off" /\ back = "boot"
    /\ healthy = FALSE /\ hint = FALSE /\ dayTurned = FALSE
    /\ rest = FALSE /\ exits = {}
    /\ gains = [m \in Markets |-> 0]
    /\ crashes = 0 /\ faults = 0
    /\ opened = gains /\ tally = [won |-> 0, lost |-> 0, imported |-> 0]
    /\ unrested = FALSE /\ entered = 0 /\ earned = FALSE

----------------------------------------------------------------------------
(* Portfolio arithmetic.                                                   *)

(* The fields an exit resets; reconcile_with_exchange forgets one of them. *)
ClearedByReconcile(p) ==
    [p EXCEPT !.market = None, !.vol = 0, !.high = "zero", !.legacy = FALSE,
              !.partial = FALSE, !.baseline = 0, !.eligible = FALSE,
              !.stamped = FALSE]

(* Mutant: no exit resets the break-even lock.                             *)
ClearedKeepsLock(p) == ClearedByReconcile(p)

Cleared(p) == [ClearedByReconcile(p) EXCEPT !.locked = FALSE]

Won(p, m) == gains[m] - p.baseline >= 0

(* Mutant: a partial exit scores the trade as well.                        *)
AccountedEveryTime(p, m, terminal) ==
    IF gains[m] = p.accounted[m] THEN p
    ELSE [p EXCEPT !.accounted[m] = gains[m],
                   !.wins = IF Won(p, m) THEN @ + 1 ELSE @,
                   !.losses = IF ~Won(p, m) THEN @ + 1 ELSE @]

(* account_ledger_realization: the ledger's cumulative total is taken over *)
(* once; a terminal exit also scores the trade.                            *)
Accounted(p, m, terminal) ==
    IF gains[m] = p.accounted[m] THEN p
    ELSE [p EXCEPT !.accounted[m] = gains[m],
                   !.wins = IF terminal /\ Won(p, m) THEN @ + 1 ELSE @,
                   !.losses = IF terminal /\ ~Won(p, m) THEN @ + 1 ELSE @]

(* Mutant: a loss does not rest the market.                                *)
CoolDownWithoutRest(p, m) ==
    /\ exits' = exits \cup {m}
    /\ UNCHANGED <<rest, unrested>>

(* The files a terminal accounting writes before the portfolio is saved.   *)
CoolDown(p, m) ==
    IF gains[m] = p.accounted[m] THEN UNCHANGED <<cool, unrested>>
    ELSE /\ exits' = exits \cup {m}
         /\ rest' = (rest \/ ~Won(p, m))
         /\ unrested' = (unrested /\ Won(p, m))

(* max(highest_price, entry_price) against a new entry price: a peak left  *)
(* over from another position may lie anywhere.                            *)
HighAtEntry(p) == IF p.high = "zero" THEN {"near"} ELSE {"near", "above"}

(* A filled entry in m is taken over from the ledger and counted.          *)
Entered(p, m, h) ==
    [p EXCEPT !.market = m, !.vol = ledgerVol[m], !.high = h,
              !.entries = @ + 1, !.baseline = gains[m], !.stamped = TRUE,
              !.eligible = Eligible(bot.policy)]

(* Mutant: the ledger's volume is added to the portfolio's.                *)
RepairedAdds(p, m) == [p EXCEPT !.market = m, !.vol = @ + ledgerVol[m]]

(* repair_portfolio_invariant on a long state: the ledger's position is    *)
(* taken over, and a volume that shrank behind the portfolio accounted.    *)
Repaired(p, m) ==
    LET shrunk == ledgerVol[m] < p.vol
        q == IF shrunk THEN Accounted(p, m, FALSE) ELSE p
    IN  [q EXCEPT !.market = m, !.vol = ledgerVol[m],
                  !.high = IF @ = "zero" THEN "near" ELSE @,
                  !.legacy = FALSE, !.partial = @ \/ shrunk,
                  !.baseline = IF p.stamped THEN @ ELSE gains[m],
                  !.stamped = TRUE, !.eligible = Eligible(bot.policy)]

----------------------------------------------------------------------------
(* Control.  Raise: the exception reaches the block of main() that called. *)

Raise ==
    /\ at' = "roll" /\ back' = "loop"
    /\ healthy' = (healthy /\ back \notin {"hint", "periodic"})
    /\ hint' = (hint \/ back = "hint")

Return ==
    /\ at' = CASE back = "pending" -> "hint" [] back = "hint" -> "milestone"
               [] OTHER -> "roll"
    /\ back' = "loop"
    /\ healthy' = TRUE
    /\ hint' = hint

Move(from, to) == at = from /\ at' = to /\ UNCHANGED <<back, healthy, hint>>

ReadFault == faults < MaxReadFaults /\ faults' = faults + 1

(* The portfolio is saved and the handler goes on at next, or the price or *)
(* candle read before the save fails and only memory has changed.          *)
SaveUnlessFault(p, next) ==
    /\ port' = p
    /\ \/ /\ disk' = p
          /\ next
          /\ UNCHANGED faults
       \/ /\ ReadFault
          /\ disk' = disk
          /\ Raise

Boot(d) ==
    /\ Start(d)
    /\ port' = disk
    /\ at' = "roll" /\ back' = "boot" /\ healthy' = FALSE /\ hint' = FALSE
    /\ UNCHANGED <<disk, dayTurned, cool, gains, budget, history>>

Die(d) ==
    /\ crashes < MaxCrashes
    /\ Crash(d)
    /\ crashes' = crashes + 1
    /\ port' = disk
    /\ at' = "off" /\ back' = "boot" /\ healthy' = FALSE /\ hint' = FALSE
    /\ UNCHANGED <<disk, dayTurned, cool, gains, faults, history>>

(* A new day resets the entry counter, at start and at the loop's head.    *)
Roll ==
    /\ at = "roll"
    /\ at' = IF back = "boot" THEN "recover" ELSE "pending"
    /\ port' = IF dayTurned THEN [port EXCEPT !.entries = 0] ELSE port
    /\ disk' = IF dayTurned THEN port' ELSE disk
    /\ entered' = IF dayTurned THEN 0 ELSE entered
    /\ dayTurned' = FALSE
    /\ UNCHANGED <<vars, back, healthy, hint, cool, gains, budget,
                   opened, tally, unrested, earned>>

----------------------------------------------------------------------------
(* recover_pending_order.                                                  *)

Pending ==
    /\ at = "pending"
    /\ IF bot.active # None
         THEN at' = "recover" /\ back' = "pending"
         ELSE at' = "hint" /\ UNCHANGED back
    /\ UNCHANGED <<vars, port, disk, healthy, hint, dayTurned, cool, gains,
                   budget, history>>

(* FillLedger.positions() has an entry for m: some trade of m is recorded. *)
HasHistory(m) ==
    ledgerVol[m] > 0 \/ \E i \in Ids : booked[i] > 0 /\ orders[i].market = m

(* Mutant: a buy, too, needs a position the ledger already knows.          *)
MayRecoverKnown == ~port.legacy => HasHistory(bot.market)

(* A sell is recovered only for a position the ledger knows; a buy always. *)
MayRecover ==
    bot.side = "ask" /\ ~port.legacy => HasHistory(bot.market)

Recover ==
    /\ at = "recover"
    /\ \/ bot.active = None /\ Move("recover", "repair")
       \/ bot.active # None /\ MayRecover /\ Move("recover", "recovering")
       \/ bot.active # None /\ ~MayRecover /\ Raise
    /\ UNCHANGED <<vars, port, disk, dayTurned, cool, gains, budget, history>>

(* reconcile_until_terminal raised, or the balances cannot be read after   *)
(* the order was settled: the portfolio has not been touched.              *)
RecoverRaises(d) ==
    /\ at = "recovering"
    /\ Resume(d)
    /\ IF pc[d] = "settled" THEN ReadFault ELSE UNCHANGED faults
    /\ Raise
    /\ UNCHANGED <<port, disk, dayTurned, cool, gains, crashes, history>>

Adopted == Move("recovering", "repair")

AdoptBuy(d) ==
    /\ at = "recovering" /\ pc[d] = "settled" /\ snap[d].side = "bid"
    /\ Resume(d)
    /\ LET m == snap[d].market IN
       IF bot.vol = 0
         THEN Adopted /\ UNCHANGED <<port, disk, faults>>
         ELSE /\ ledgerVol[m] > 0
              /\ \E h \in HighAtEntry(port) :
                   SaveUnlessFault([Entered(port, m, h) EXCEPT !.legacy = FALSE], Adopted)
    /\ UNCHANGED <<dayTurned, cool, gains, crashes, history>>

(* A sell that left a remainder must leave the same one in the ledger.     *)
AdoptRemainder(d) ==
    /\ at = "recovering" /\ pc[d] = "settled" /\ snap[d].side = "ask" /\ bot.vol > 0
    /\ Resume(d)
    /\ LET m == snap[d].market
           v == IF ledgerVol[m] > 0 THEN ledgerVol[m] ELSE bot.vol
           p == [port EXCEPT !.market = m, !.vol = v,
                             !.high = IF @ = "zero" THEN "near" ELSE @]
       IN  IF ledgerVol[m] # bot.vol
             THEN port' = p /\ disk' = disk /\ Raise /\ UNCHANGED faults
             ELSE SaveUnlessFault(
                    IF v < snap[d].vol
                      THEN [Accounted(p, m, FALSE) EXCEPT !.partial = TRUE] ELSE p,
                    Adopted)
    /\ UNCHANGED <<dayTurned, cool, gains, crashes, history>>

(* A sell that closed the position is accounted first (its cooldown files  *)
(* are written), then the cleared portfolio is saved and the exit recorded.*)
AccountAdopted(d) ==
    /\ at = "recovering" /\ pc[d] = "settled" /\ snap[d].side = "ask" /\ bot.vol = 0
    /\ IF port.legacy
         THEN port' = port /\ UNCHANGED <<cool, unrested>>
         ELSE /\ port' = Accounted(port, snap[d].market, TRUE)
              /\ CoolDown(port, snap[d].market)
    /\ Move("recovering", "closeAdopted")
    /\ UNCHANGED <<vars, disk, dayTurned, gains, budget, opened, tally, entered, earned>>

SaveAdopted(d) ==
    /\ Move("closeAdopted", "repair")
    /\ Resume(d)
    /\ port' = Cleared(port) /\ disk' = port'
    /\ exits' = exits \cup {snap[d].market}
    /\ UNCHANGED <<dayTurned, rest, gains, budget, history>>

----------------------------------------------------------------------------
(* repair_portfolio_invariant: only what the ledger proves is repaired.    *)

LedgerMarkets == {m \in Markets : ledgerVol[m] > 0}

(* Mutant: a flat portfolio is never mapped to the ledger.                 *)
RepairTargetOfPortfolio == {port.market} \ {None}

RepairTarget ==
    IF port.market # None THEN {port.market}
    ELSE IF Cardinality(LedgerMarkets) = 1 THEN LedgerMarkets ELSE {}

RepairLong ==
    /\ bot.active = None /\ bot.vol > 0
    /\ \E m \in RepairTarget :
         \/ /\ ledgerVol[m] > 0 /\ holding[m] = ledgerVol[m]
            /\ port' = Repaired(port, m)
            /\ bot' = [bot EXCEPT !.vol = ledgerVol[m]]
         \/ /\ ledgerVol[m] = 0 /\ port.legacy
            /\ UNCHANGED <<port, bot>>
    /\ disk' = port'
    /\ Move("repair", "reconcile")
    /\ UNCHANGED <<booked, ledgerVol, legacy, venue, lock, pc, locals,
                   dayTurned, cool, gains, budget, history>>

(* Flat everywhere: nothing to repair.  Flat with a market in the          *)
(* portfolio: the exit happened, and is accounted now.                     *)
RepairFlat ==
    /\ bot.active = None /\ bot.vol = 0 /\ LedgerMarkets = {}
    /\ \/ /\ port.market = None /\ Move("repair", "reconcile")
          /\ UNCHANGED <<port, cool, unrested>>
       \/ /\ port.market # None /\ holding[port.market] = 0
          /\ IF port.legacy
               THEN UNCHANGED <<port, cool, unrested>>
               ELSE /\ port' = Accounted(port, port.market, TRUE)
                    /\ CoolDown(port, port.market)
          /\ Move("repair", "closeRepaired")
    /\ UNCHANGED <<vars, disk, dayTurned, gains, budget, opened, tally, entered, earned>>

SaveRepaired ==
    /\ Move("closeRepaired", "reconcile")
    /\ port' = Cleared(port) /\ disk' = port'
    /\ UNCHANGED <<vars, dayTurned, cool, gains, budget, history>>

(* The balances cannot be read, the ledger proves nothing, or the cash     *)
(* delta of a manual sale looks like a deposit.                            *)
RepairRaises ==
    /\ at = "repair"
    /\ \/ bot.active # None /\ UNCHANGED faults
       \/ /\ bot.vol > 0
          /\ \A m \in RepairTarget :
               \/ ledgerVol[m] > 0 /\ holding[m] # ledgerVol[m]
               \/ ledgerVol[m] = 0 /\ (~port.legacy \/ holding[m] = 0)
          /\ UNCHANGED faults
       \/ /\ bot.vol = 0
          /\ \/ LedgerMarkets # {}
             \/ port.market # None /\ (holding[port.market] > 0 \/ port.legacy)
          /\ UNCHANGED faults
       \/ ReadFault /\ (bot.vol > 0 \/ port.market # None)
    /\ Raise
    /\ UNCHANGED <<vars, port, disk, dayTurned, cool, gains, crashes, history>>

----------------------------------------------------------------------------
(* reconcile_with_exchange: the balances are the source of truth.          *)
(* MANUAL_HOLDINGS_ALLOWLIST is taken as empty (a listed coin would count  *)
(* as no balance), and volumes are units above the code's tolerance of     *)
(* 1 %: they are equal, or differ.                                         *)

Elsewhere == {m \in Markets \ {port.market} : holding[m] > 0}

Conflict ==
    \/ bot.active # None
    \/ Elsewhere # {} /\ (bot.vol > 0 <=> port.market # None)
    \/ /\ bot.vol > 0 /\ port.market # None
       /\ ledgerVol[port.market] > 0
       /\ holding[port.market] # ledgerVol[port.market]

(* Mutant: any balance up to the tracked volume passes for a sale by hand. *)
GoneIfNoMore(m) == holding[m] <= port.vol

Gone(m) == holding[m] = 0 /\ port.vol > 0

(* The position is gone (sold by hand): the portfolio in memory and the    *)
(* state file become flat; the portfolio file follows.                     *)
ReconcileGone ==
    /\ bot.vol > 0 /\ port.market # None /\ Gone(port.market)
    /\ port' = ClearedByReconcile(port)
    /\ bot' = HeldState(0)
    /\ legacy' = FALSE
    /\ Move("reconcile", "closeGone")
    /\ UNCHANGED <<disk, faults>>

(* The volume differs from the portfolio's: the balance is taken over.     *)
ReconcileVolume ==
    /\ bot.vol > 0 /\ port.market # None /\ holding[port.market] > 0
    /\ LET v == holding[port.market] IN
         /\ SaveUnlessFault([port EXCEPT !.vol = v], Return)
         /\ bot' = IF v = port.vol THEN bot ELSE [HeldState(v) EXCEPT !.policy = bot.policy]
    /\ UNCHANGED legacy

ReconcileCash ==
    /\ bot.vol = 0 \/ port.market = None
    /\ port' = port /\ disk' = port
    /\ Return
    /\ UNCHANGED <<bot, legacy, faults>>

ReconcileAccount ==
    /\ at = "reconcile" /\ ~Conflict
    /\ ReconcileGone \/ ReconcileVolume \/ ReconcileCash
    /\ UNCHANGED <<booked, ledgerVol, venue, lock, pc, locals, dayTurned, cool,
                   gains, crashes, history>>

SaveGone ==
    /\ at = "closeGone"
    /\ disk' = port
    /\ Return
    /\ UNCHANGED <<vars, port, dayTurned, cool, gains, budget, history>>

(* A conflict, an unreadable account, or a cash delta that looks like a    *)
(* deposit (a pre-ledger position sold by hand).                           *)
ReconcileRefuses ==
    /\ at = "reconcile"
    /\ \/ Conflict /\ UNCHANGED faults
       \/ bot.vol > 0 /\ port.legacy /\ holding[port.market] = 0 /\ UNCHANGED faults
       \/ ReadFault
    /\ Raise
    /\ UNCHANGED <<vars, port, disk, dayTurned, cool, gains, crashes, history>>

----------------------------------------------------------------------------
(* The rest of the loop.                                                   *)

TakeHint ==
    /\ at = "hint"
    /\ IF hint THEN at' = "repair" /\ back' = "hint" ELSE at' = "milestone" /\ UNCHANGED back
    /\ hint' = FALSE
    /\ UNCHANGED <<vars, port, disk, healthy, dayTurned, cool, gains, budget, history>>

(* A capital goal reached is moved on and the portfolio saved.             *)
Milestone ==
    /\ Move("milestone", "manage")
    /\ disk' \in {disk, port}
    /\ UNCHANGED <<vars, port, dayTurned, cool, gains, budget, history>>

(* The position check: a new peak 1% above the entry locks break-even.  A  *)
(* failed price read skips it.                                             *)
Watch(peak) ==
    /\ at = "manage" /\ bot.vol > 0 /\ port.market # None
    /\ LET high == IF peak THEN "above" ELSE port.high IN
         port' = [port EXCEPT !.high = high, !.locked = @ \/ high = "above"]
    /\ disk' = IF port' = port THEN disk ELSE port'
    /\ earned' = (earned \/ peak)
    /\ Move("manage", "decide")
    /\ UNCHANGED <<vars, dayTurned, cool, gains, budget, opened, tally, unrested, entered>>

SkipManage ==
    /\ Move("manage", "entry") \/ Move("decide", "entry")
    /\ UNCHANGED <<vars, port, disk, dayTurned, cool, gains, budget, history>>

Idle == UNCHANGED <<port, disk, dayTurned, cool, gains, budget, history>>

(* execute_sell: the whole tracked volume, which the ledger must confirm.  *)
BeginSell(d) ==
    /\ Move("decide", "selling")
    /\ port.legacy \/ ledgerVol[port.market] = bot.vol
    /\ PlanExecution(d)
    /\ plan'[d].side = "ask" /\ plan'[d].market = port.market
    /\ plan'[d].want = bot.vol /\ ~plan'[d].partial
    /\ Idle

(* execute_sell_partial: half of a position an eligible policy opened.     *)
BeginHalfSell(d) ==
    /\ Move("decide", "halving")
    /\ port.eligible /\ ~port.legacy /\ ~port.partial
    /\ bot.vol % 2 = 0 /\ ledgerVol[port.market] = bot.vol
    /\ PlanExecution(d)
    /\ plan'[d].side = "ask" /\ plan'[d].market = port.market
    /\ plan'[d].want = bot.vol \div 2 /\ plan'[d].partial
    /\ Idle

(* evaluate_pretrade: the entries counted today are below the limit.       *)
CapAllows == port.entries < MaxEntries

(* execute_buy behind the gates of the entry block and its own.            *)
BeginBuy(d) ==
    /\ Move("entry", "buying")
    /\ healthy /\ ~rest
    /\ bot.vol = 0 /\ bot.active = None /\ ~bot.untracked
    /\ CapAllows
    /\ PlanExecution(d)
    /\ plan'[d].side = "bid" /\ plan'[d].market \notin exits
    /\ plan'[d].policy \in EntryPolicies
    /\ Idle

SkipEntry ==
    /\ Move("entry", "periodic")
    /\ UNCHANGED vars /\ Idle

(* The order raised, or the balances cannot be read after it settled: the  *)
(* handler prints the error and the loop goes on.                          *)
AfterOrder == IF at = "buying" THEN "periodic" ELSE "entry"

OrderFails(d) ==
    /\ at \in {"selling", "halving", "buying"}
    /\ Resume(d)
    /\ \/ pc[d] = "raised" /\ UNCHANGED faults
       \/ pc[d] = "settled" /\ ReadFault
    /\ at' = AfterOrder
    /\ UNCHANGED <<back, healthy, hint, port, disk, dayTurned, cool, gains,
                   crashes, history>>

FinishBuy(d) ==
    /\ Move("buying", "periodic")
    /\ pc[d] = "settled" /\ Resume(d)
    /\ LET m == snap[d].market IN
         \/ /\ bot.vol > 0 /\ holding[m] = ledgerVol[m]
            /\ \E h \in HighAtEntry(port) :
                 port' = [Entered(port, m, h) EXCEPT !.partial = FALSE]
            /\ disk' = port'
         \/ /\ bot.vol = 0 \/ holding[m] # ledgerVol[m]
            /\ UNCHANGED <<port, disk>>
    /\ UNCHANGED <<dayTurned, cool, gains, budget, history>>

(* A cancelled sell leaves a remainder to manage.                          *)
FinishRemainder(d) ==
    /\ Move("selling", "entry")
    /\ pc[d] = "settled" /\ bot.vol > 0 /\ Resume(d)
    /\ port' = [port EXCEPT !.vol = bot.vol] /\ disk' = port'
    /\ UNCHANGED <<dayTurned, cool, gains, budget, history>>

FinishHalf(d) ==
    /\ Move("halving", "entry")
    /\ pc[d] = "settled" /\ Resume(d)
    /\ LET m == snap[d].market IN
         \/ /\ bot.vol = holding[m] /\ ledgerVol[m] = holding[m]
            /\ ledgerVol[m] < snap[d].vol
            /\ port' = [Accounted(port, m, FALSE) EXCEPT !.vol = bot.vol, !.partial = TRUE]
            /\ disk' = port'
         \/ /\ bot.vol # holding[m] \/ ledgerVol[m] # holding[m]
                  \/ ledgerVol[m] >= snap[d].vol
            /\ UNCHANGED <<port, disk>>
    /\ UNCHANGED <<dayTurned, cool, gains, budget, history>>

(* A closed position is accounted from the ledger - a pre-ledger one from  *)
(* an estimate - before the cleared portfolio is saved.                    *)
AccountSold(d) ==
    /\ Move("selling", "closeSold")
    /\ pc[d] = "settled" /\ bot.vol = 0
    /\ IF booked[snap[d].active] > 0
         THEN /\ port' = Accounted(port, port.market, TRUE)
              /\ CoolDown(port, port.market)
              /\ UNCHANGED tally
         ELSE /\ \/ port' = [port EXCEPT !.wins = @ + 1] /\ UNCHANGED rest
                 \/ port' = [port EXCEPT !.losses = @ + 1] /\ rest' = TRUE
              /\ tally' = [tally EXCEPT !.imported = @ + 1]
              /\ UNCHANGED <<exits, unrested>>
    /\ UNCHANGED <<vars, disk, dayTurned, gains, budget, opened, entered, earned>>

SaveSold(d) ==
    /\ Move("closeSold", "entry")
    /\ Resume(d)
    /\ port' = Cleared(port) /\ disk' = port'
    /\ exits' = exits \cup {snap[d].market}
    /\ UNCHANGED <<dayTurned, rest, gains, budget, history>>

(* Every RECONCILE_LOOPS rounds the account is reconciled.                 *)
Periodic ==
    /\ at = "periodic"
    /\ \/ at' = "repair" /\ back' = "periodic"
       \/ at' = "roll" /\ back' = "loop"
    /\ UNCHANGED <<vars, port, disk, healthy, hint, dayTurned, cool, gains, budget, history>>

----------------------------------------------------------------------------
(* The executor's own steps, while the loop is inside one of its calls.    *)

Trading == at \in {"recovering", "selling", "halving", "buying"}

ExecutorStep(d) ==
    /\ Trading
    /\ \/ Refuse(d) \/ Validate(d) \/ CheckOrderChance(d) \/ PersistActive(d)
       \/ PlaceOrder(d) \/ Accepted(d) \/ AnswerFails(d) \/ MarkUntracked(d)
       \/ ReadTerminal(d) \/ ReconcileRaises(d) \/ AppendRaises(d)
    /\ UNCHANGED dvars

(* Booking a sell realises a profit of Lot + 1 or a loss of 1 on each      *)
(* unit, so that no total of a position cancels out.                       *)
BookTrades(d) ==
    LET m == snap[d].market
        n == UnseenTrades(snap[d].active, seen[d])
    IN  /\ Trading
        /\ AppendFills(d)
        /\ \/ /\ booked' # booked /\ snap[d].side = "ask"
              /\ \E g \in {-n, (Lot + 1) * n} : gains' = [gains EXCEPT ![m] = @ + g]
              /\ LET lost == gains'[m] < opened[m] IN
                   IF ledgerVol'[m] = 0
                     THEN /\ unrested' = (unrested \/ lost)
                          /\ tally' = IF lost THEN [tally EXCEPT !.lost = @ + 1]
                                             ELSE [tally EXCEPT !.won = @ + 1]
                     ELSE UNCHANGED <<unrested, tally>>
              /\ UNCHANGED opened
           \/ /\ booked' # booked /\ snap[d].side = "bid"
              /\ opened' = [opened EXCEPT ![m] = gains[m]]
              /\ UNCHANGED <<gains, unrested, tally>>
           \/ /\ booked' = booked
              /\ UNCHANGED <<gains, opened, unrested, tally>>
    /\ UNCHANGED <<port, disk, control, dayTurned, cool, budget, entered, earned>>

SettleOrder(d) ==
    /\ Trading
    /\ SaveTerminal(d)
    /\ LET entry == snap[d].side = "bid" /\ bot'.vol > 0 IN
         /\ entered' = IF entry THEN entered + 1 ELSE entered
         /\ earned' = (earned /\ ~entry)
    /\ UNCHANGED <<port, disk, control, dayTurned, cool, gains, budget,
                   opened, tally, unrested>>

----------------------------------------------------------------------------
(* The environment: the exchange, the clock, the private stream's          *)
(* reconciliation hints, and a user selling a pre-ledger holding by hand.  *)

ExchangeStep == (\E i \in Ids : Exchange(i)) /\ UNCHANGED dvars

TurnDay ==
    /\ ~dayTurned /\ dayTurned' = TRUE
    /\ UNCHANGED <<vars, port, disk, control, cool, gains, budget, history>>

ReceiveHint ==
    /\ at # "off" /\ ~hint /\ hint' = TRUE
    /\ UNCHANGED <<vars, port, disk, at, back, healthy, dayTurned, cool, gains,
                   budget, history>>

CooldownEnds ==
    /\ rest' \in {rest, FALSE}
    /\ exits' \in SUBSET exits
    /\ cool' # cool
    /\ UNCHANGED <<vars, port, disk, control, dayTurned, gains, budget, history>>

SellByHand ==
    /\ ManualSales /\ legacy /\ bot.active = None
    /\ \E m \in Markets : holding[m] > 0
    /\ holding' = [m \in Markets |-> 0]
    /\ UNCHANGED <<files, orders, lock, pc, locals, dvars>>

----------------------------------------------------------------------------
RecoverStep(d) ==
    \/ RecoverRaises(d) \/ AdoptBuy(d) \/ AdoptRemainder(d)
    \/ AccountAdopted(d) \/ SaveAdopted(d)

AccountStep ==
    \/ RepairLong \/ RepairFlat \/ SaveRepaired \/ RepairRaises
    \/ ReconcileAccount \/ SaveGone \/ ReconcileRefuses

TradeStep(d) ==
    \/ BeginSell(d) \/ BeginHalfSell(d) \/ BeginBuy(d) \/ OrderFails(d)
    \/ FinishBuy(d) \/ FinishRemainder(d) \/ FinishHalf(d)
    \/ AccountSold(d) \/ SaveSold(d)

LoopStep ==
    \/ Roll \/ Pending \/ Recover \/ TakeHint \/ Milestone
    \/ (\E peak \in BOOLEAN : Watch(peak)) \/ SkipManage \/ SkipEntry \/ Periodic

Environment ==
    ExchangeStep \/ TurnDay \/ ReceiveHint \/ CooldownEnds \/ SellByHand

DaemonNext ==
    \/ \E d \in Daemons :
         \/ Boot(d) \/ Die(d) \/ ExecutorStep(d) \/ BookTrades(d) \/ SettleOrder(d)
         \/ RecoverStep(d) \/ TradeStep(d)
    \/ AccountStep
    \/ LoopStep
    \/ Environment

allVars == <<vars, dvars>>

DaemonSpec == DaemonInit /\ [][DaemonNext]_allVars

----------------------------------------------------------------------------
(* Fairness: launchd restarts the process and the loop never stops; what   *)
(* it retries - a price, the order's terminal report, the ledger append -  *)
(* succeeds again and again; the exchange answers and ends every order.    *)
FairDaemonSpec ==
    /\ DaemonSpec
    /\ \A d \in Daemons :
         /\ WF_allVars(Boot(d))
         /\ WF_allVars(ExecutorStep(d) \/ BookTrades(d) \/ SettleOrder(d)
                         \/ RecoverStep(d) \/ TradeStep(d))
         /\ SF_allVars(Trading /\ ReadTerminal(d) /\ UNCHANGED dvars)
         /\ SF_allVars(BookTrades(d))
    /\ WF_allVars(AccountStep)
    /\ WF_allVars(LoopStep)
    /\ SF_allVars(\E peak \in BOOLEAN : Watch(peak))
    /\ \A i \in Ids :
         /\ WF_allVars((Arrive(i) \/ Lose(i)) /\ UNCHANGED dvars)
         /\ WF_allVars((Complete(i) \/ CancelRest(i)) /\ UNCHANGED dvars)

----------------------------------------------------------------------------
(* The position the loop checks for an exit is the one the exchange holds, *)
(* every held position is checked every round, and a settled position is   *)
(* one the repair can map to its market, so it is not lost by a restart    *)
(* (autonomous_trader.py: main, MANAGE ACTIVE POSITION every 3 seconds;    *)
(* reconcile_with_exchange, docstring).                                    *)
ManagesWhatItHolds ==
    bot.vol > 0 =>
      /\ at = "manage" => port.market # None /\ holding[port.market] = bot.vol
      /\ at = "repair" /\ bot.active = None => \E m \in RepairTarget : holding[m] = bot.vol

(* No buy order is open between the loss of a trade and the rest it        *)
(* imposes (autonomous_trader.py: LOSS_COOLDOWN_SEC).                      *)
LossRestsFirst ==
    unrested => ~\E i \in Ids : Open(i) /\ orders[i].side = "bid"

(* No more entries are filled in a day than the cap allows                 *)
(* (autonomous_trader.py: MAX_DAILY_ENTRIES).                              *)
DailyCap == entered <= MaxEntries

(* The exit is decided against a break-even stop only when the price of    *)
(* this very position did gain 1% (autonomous_trader.py:                   *)
(* BREAKEVEN_ACTIVATE_PCT).                                                *)
LockIsEarned == at = "decide" /\ port.locked => earned

(* Between two rounds, with nothing held or pending, every trade the       *)
(* ledger closed has been taken over once: its result is in the totals and *)
(* it counts as the win or the loss it was; and at no time is a trade      *)
(* scored twice (autonomous_trader.py: account_ledger_realization).        *)
Quiet == at = "pending" /\ healthy /\ bot.active = None /\ bot.vol = 0

EveryTradeIsScored ==
    /\ Quiet =>
         /\ port.market = None
         /\ port.accounted = gains
         /\ port.wins - tally.won \in 0..tally.imported
         /\ port.losses - tally.lost \in 0..tally.imported
    /\ port.wins + port.losses <= tally.won + tally.lost + tally.imported

(* What is in the totals is in them once, and nothing is left out of them  *)
(* when the portfolio tracks no position any more                          *)
(* (account_ledger_realization, docstring: exactly once).                  *)
NoTradeIsForgotten ==
    Quiet /\ port.market = None => port.accounted = gains

(* A pending order the exchange has finished is taken over in the end, by  *)
(* this process or by the one that follows it (recover_pending_order).     *)
PendingIsSettled ==
    \A i \in Ids : bot.active = i /\ Terminal(i) ~> bot.active # i

(* A position is watched for its exit again and again until it is sold, by *)
(* the loop or by hand, or an order for it is pending (main: the loop      *)
(* survives every error); unless a balance read failed, after which the    *)
(* loop may pass over a position no portfolio tracks.                      *)
PositionIsWatched ==
    bot.vol > 0 /\ bot.active = None ~>
      at = "decide" \/ bot.vol = 0 \/ bot.active # None \/ faults > 0
        \/ \A m \in Markets : holding[m] = 0

(* The loop uses the executor as the executor allows: one order at a time, *)
(* planned on the state it has read (execution.py: BithumbExecutor).       *)
UsesExecutor == [][Next]_vars
=============================================================================
