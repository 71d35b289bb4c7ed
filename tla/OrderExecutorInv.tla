--------------------------- MODULE OrderExecutorInv ---------------------------
(***************************************************************************)
(* The inductive invariant of OrderExecutor, in named parts, and the       *)
(* refinement mapping to OrderLifecycle.                                   *)
(***************************************************************************)
EXTENDS OrderExecutor

(* The state file is always one that BotState accepts.                     *)
StateIsValid ==
    /\ ValidState(bot)
    /\ bot.untracked => bot.active # None

(* What the exchange knows of an order is what was asked of it, and the    *)
(* ledger has booked all of a finished order or nothing.                   *)
OrdersAreKnown ==
    \A i \in Ids :
      /\ orders[i].st = "none" => orders[i] = NoOrder /\ booked[i] = 0
      /\ orders[i].st \in {"inflight", "lost"} => orders[i].filled = 0
      /\ bot.active = i /\ orders[i].st # "none" =>
           /\ orders[i].side = bot.side
           /\ orders[i].market = bot.market
           /\ orders[i].want = bot.want
      /\ bot.active = i => orders[i].filled <= IF bot.side = "bid" THEN Lot ELSE bot.want
      /\ bot.active = i =>
           \/ booked[i] = 0
           \/ Terminal(i) /\ booked[i] = orders[i].filled

(* The ledger lags the exchange by the unbooked trades of the pending      *)
(* order and by nothing else.                                              *)
Lag(m) == IF bot.active # None /\ bot.market = m
            THEN Fills - booked[bot.active] ELSE 0

LedgerLag ==
    IF legacy
      THEN /\ ledgerVol = [m \in Markets |-> 0]
           /\ bot.vol > 0 /\ bot.policy = 0
           /\ bot.active # None => booked[bot.active] = 0
      ELSE \A m \in Markets :
             ledgerVol[m] = IF bot.side = "bid" THEN holding[m] - Lag(m)
                                                ELSE holding[m] + Lag(m)

(* What each point of a running process relies on.                         *)
PlanIsFresh(d) ==
    LET p == plan[d] IN
    /\ p.id \in Ids /\ p.side \in Sides /\ p.market \in Markets
    /\ p.side = "bid" => p.want = 0
    /\ p.side = "ask" => p.want > 0
    /\ orders[p.id].st = "none"

PointHolds(d) ==
    LET p == plan[d] IN
    /\ pc[d] \in {"planned", "validated", "cleared"} =>
         snap[d] = bot /\ PlanIsFresh(d) /\ bot.active # p.id
    /\ pc[d] \in {"validated", "cleared"} => PretradeAllows(bot, p)
    /\ pc[d] = "cleared" /\ p.side = "ask" => holding[p.market] >= p.want
    /\ pc[d] = "armed" => PlanIsFresh(d)
    /\ pc[d] \in {"armed", "sent", "ambiguous"} =>
         bot = ActiveState(snap[d], p) /\ bot.active = p.id /\ p.id \in Ids
    /\ pc[d] = "sent" => orders[p.id].st # "none"
    /\ pc[d] \in {"terminal", "ledgered"} =>
         /\ snap[d] = bot
         /\ bot.active # None /\ Terminal(bot.active)
         /\ seen[d] = [st |-> orders[bot.active].st, filled |-> Fills]
         /\ FillIsConsistent(bot, seen[d])
    /\ pc[d] = "ledgered" => legacy \/ booked[bot.active] = Fills

PointsHold == \A d \in Daemons : PointHolds(d)

IInv ==
    /\ TypeOK
    /\ SingleDaemon
    /\ StateIsValid
    /\ NoOrphanOrder
    /\ OrdersAreKnown
    /\ PositionMatchesExchange
    /\ LedgerLag
    /\ PointsHold

(* The abstract order is the one the state file names.                     *)
Lifecycle == INSTANCE OrderLifecycle WITH
    account  <- holding,
    position <- bot.vol,
    order    <- [id |-> bot.active, side |-> bot.side, market |-> bot.market,
                 traded |-> Fills],
    spent    <- {i \in Ids : orders[i].st # "none" \/ bot.active = i}

(* The executor keeps the promise of OrderLifecycle                        *)
(* (execution.py: BithumbExecutor as a whole).                             *)
ImplementsLifecycle == Lifecycle!LSpec
=============================================================================
