---------------------------- MODULE OrderExecutor ----------------------------
(***************************************************************************)
(* The live order path: BithumbExecutor (execution.py) together with the   *)
(* bot state file it writes ahead (state.py), the fill ledger it feeds     *)
(* (fill_ledger.py), the daemon lock that serialises its callers           *)
(* (acquire_daemon_lock) and, as the environment, the exchange.            *)
(*                                                                         *)
(* Every persisted write and every call to the exchange is a step of its   *)
(* own, so a crash, or the exchange, may come between any two of them.     *)
(* A volume is a number of units; a unit filled is one immutable trade, so *)
(* the trades of order i are the numbers 1..orders[i].filled, and the      *)
(* ledger has booked the first booked[i] of them.                          *)
(***************************************************************************)
EXTENDS Integers, FiniteSets

CONSTANTS
    Daemons,        \* daemon processes that may be started on the host
    Markets,        \* KRW markets
    Ids,            \* client order ids
    None,           \* no order, no lock owner, no market
    Lot,            \* the most units one buy can fill
    EntryPolicies,  \* position_policy_version values an entry plan may carry
    HeldPolicies,   \* the same, for a position an earlier deployment opened
    HeldVolumes     \* volumes the first run may find already held (0: flat)

ASSUME ConstantsAssumption ==
    /\ None \notin Ids \cup Markets \cup Daemons \cup {"bid", "ask"}
    /\ Lot \in Nat \ {0}
    /\ EntryPolicies \subseteq Nat /\ HeldPolicies \subseteq Nat
    /\ HeldVolumes \subseteq 0..Lot

VARIABLES
    bot,        \* state/live.json
    booked,     \* fill_ledger.jsonl: trades of each order it holds
    ledgerVol,  \* fill_ledger.jsonl: position volume per market on replay
    legacy,     \* history: the tracked position predates the ledger
    orders,     \* the exchange: what became of each client order id
    holding,    \* the exchange: asset balances
    lock,       \* owner of state/autonomous_trader.lock (flock)
    pc, snap, plan, seen  \* each daemon's control point and local variables

files  == <<bot, booked, ledgerVol, legacy>>
venue  == <<orders, holding>>
locals == <<snap, plan, seen>>
vars   == <<files, venue, lock, pc, locals>>

Volumes  == 0..Lot
Sides    == {"bid", "ask"}
Policies == EntryPolicies \cup HeldPolicies \cup {0}

(* BotState: position is "flat" exactly when vol = 0.  want is             *)
(* pending_order_volume (0 for a buy, which declares none).                *)
BotStates ==
    [vol : Volumes, active : Ids \cup {None}, side : Sides \cup {None},
     market : Markets \cup {None}, want : Volumes,
     untracked : BOOLEAN, policy : Policies]

HeldState(v) ==
    [vol |-> v, active |-> None, side |-> None, market |-> None, want |-> 0,
     untracked |-> FALSE, policy |-> 0]

(* BotState.__post_init__: the combinations a state may not have.          *)
ValidState(b) ==
    /\ b.vol = 0 => b.policy = 0
    /\ b.active = None => b.side = None /\ b.market = None /\ b.want = 0
    /\ b.active # None =>
         /\ b.side \in Sides /\ b.market \in Markets
         /\ b.side = "bid" => b.want = 0
         /\ b.side = "ask" => b.vol > 0 /\ b.want \in 1..b.vol

Orders ==
    [st : {"none", "inflight", "lost", "wait", "done", "cancel"},
     side : Sides \cup {None}, market : Markets \cup {None},
     want : Volumes, filled : Volumes]

NoOrder == [st |-> "none", side |-> None, market |-> None, want |-> 0, filled |-> 0]

Plans ==
    [id : Ids \cup {None}, side : Sides \cup {None}, market : Markets \cup {None},
     want : Volumes, partial : BOOLEAN, policy : Policies]

NoPlan == [id |-> None, side |-> None, market |-> None, want |-> 0,
           partial |-> FALSE, policy |-> 0]

NoSight == [st |-> "none", filled |-> 0]

Points ==
    {"off", "caller", "planned", "validated", "cleared", "armed", "sent",
     "ambiguous", "polling", "terminal", "ledgered", "raised", "settled"}

Open(i)     == orders[i].st \in {"inflight", "wait"}
Terminal(i) == orders[i].st \in {"done", "cancel"}

TypeOK ==
    /\ bot \in BotStates
    /\ booked \in [Ids -> Volumes]
    /\ ledgerVol \in [Markets -> Volumes]
    /\ legacy \in BOOLEAN
    /\ orders \in [Ids -> Orders]
    /\ holding \in [Markets -> Volumes]
    /\ lock \in Daemons \cup {None}
    /\ pc \in [Daemons -> Points]
    /\ snap \in [Daemons -> BotStates]
    /\ plan \in [Daemons -> Plans]
    /\ seen \in [Daemons -> [st : {"none", "done", "cancel"}, filled : Volumes]]

Init ==
    /\ \E v \in HeldVolumes, m \in Markets, p \in HeldPolicies \cup {0} :
         /\ legacy \in BOOLEAN
         /\ legacy => v > 0
         /\ v = 0 \/ legacy => p = 0
         /\ bot = [HeldState(v) EXCEPT !.policy = p]
         /\ holding = [n \in Markets |-> IF n = m THEN v ELSE 0]
         /\ ledgerVol = [n \in Markets |-> IF n = m /\ ~legacy THEN v ELSE 0]
    /\ booked = [i \in Ids |-> 0]
    /\ orders = [i \in Ids |-> NoOrder]
    /\ lock = None
    /\ pc = [d \in Daemons |-> "off"]
    /\ snap = [d \in Daemons |-> HeldState(0)]
    /\ plan = [d \in Daemons |-> NoPlan]
    /\ seen = [d \in Daemons |-> NoSight]

Goto(d, p) == pc' = [pc EXCEPT ![d] = p]

----------------------------------------------------------------------------
(* Processes come and go: flock is released by the kernel when the owner   *)
(* dies, and nothing in the memory of a process survives it.               *)

(* Mutant: a second daemon does not notice the lock.                       *)
StartWithoutLock(d) ==
    /\ pc[d] = "off"
    /\ lock' = d
    /\ Goto(d, "caller")
    /\ UNCHANGED <<files, venue, locals>>

Start(d) ==
    /\ pc[d] = "off"
    /\ lock = None
    /\ lock' = d
    /\ Goto(d, "caller")
    /\ UNCHANGED <<files, venue, locals>>

Crash(d) ==
    /\ pc[d] # "off"
    /\ lock' = None
    /\ Goto(d, "off")
    /\ snap' = [snap EXCEPT ![d] = HeldState(0)]
    /\ plan' = [plan EXCEPT ![d] = NoPlan]
    /\ seen' = [seen EXCEPT ![d] = NoSight]
    /\ UNCHANGED <<files, venue>>

----------------------------------------------------------------------------
(* plan_execution: the caller reads the state and plans the opposite       *)
(* position under a client order id nobody has used (a fresh uuid).        *)

FreshId(i) ==
    /\ orders[i].st = "none"
    /\ bot.active # i
    /\ \A d \in Daemons : plan[d].id # i

PlanExecution(d) ==
    /\ pc[d] = "caller"
    /\ \E i \in Ids, m \in Markets, w \in Volumes, partial \in BOOLEAN,
          v \in EntryPolicies \cup {0} :
         /\ FreshId(i)
         /\ IF bot.vol = 0
              THEN w = 0 /\ ~partial
              ELSE w \in 1..bot.vol /\ v = 0
         /\ plan' = [plan EXCEPT ![d] =
              [id |-> i, side |-> IF bot.vol = 0 THEN "bid" ELSE "ask",
               market |-> m, want |-> w, partial |-> partial, policy |-> v]]
    /\ snap' = [snap EXCEPT ![d] = bot]
    /\ Goto(d, "planned")
    /\ UNCHANGED <<files, venue, lock, seen>>

(* Any refusal before the write-ahead raises and leaves everything as it   *)
(* was: closed gates, risk limits, an unusable answer, a failed read.      *)
Refuse(d) ==
    /\ pc[d] \in {"planned", "validated"}
    /\ Goto(d, "raised")
    /\ UNCHANGED <<files, venue, lock, locals>>

(* Mutant: a pending order does not block the next one.                    *)
PretradeIgnoresPending(b, p) ==
    /\ ~b.untracked
    /\ (p.side = "bid") <=> (b.vol = 0)
    /\ p.side = "ask" => p.want <= b.vol /\ (p.want = b.vol \/ p.partial)

(* _validate_pretrade on the persisted state, after the staleness check.   *)
PretradeAllows(b, p) ==
    /\ ~b.untracked /\ b.active = None
    /\ (p.side = "bid") <=> (b.vol = 0)
    /\ p.side = "ask" => p.want <= b.vol /\ (p.want = b.vol \/ p.partial)

Validate(d) ==
    /\ pc[d] = "planned"
    /\ bot = snap[d]
    /\ PretradeAllows(bot, plan[d])
    /\ Goto(d, "validated")
    /\ UNCHANGED <<files, venue, lock, locals>>

(* account_get_order_chance: the asset balance covers the sell.            *)
CheckOrderChance(d) ==
    /\ pc[d] = "validated"
    /\ plan[d].side = "ask" => holding[plan[d].market] >= plan[d].want
    /\ Goto(d, "cleared")
    /\ UNCHANGED <<files, venue, lock, locals>>

(* The state execute() derives from the state it validated and the plan.   *)
ActiveState(b, p) ==
    [vol |-> b.vol, active |-> p.id, side |-> p.side, market |-> p.market,
     want |-> p.want, untracked |-> FALSE,
     policy |-> IF p.side = "bid" THEN p.policy ELSE b.policy]

(* Write ahead.  replace() re-runs BotState's validation and raises when   *)
(* the derived state is not a legal one.                                   *)
PersistActive(d) ==
    /\ pc[d] = "cleared"
    /\ LET b == ActiveState(snap[d], plan[d]) IN
         IF ValidState(b)
           THEN bot' = b /\ Goto(d, "armed")
           ELSE bot' = bot /\ Goto(d, "raised")
    /\ UNCHANGED <<booked, ledgerVol, legacy, venue, lock, locals>>

(* call_tool(trade_place_order): the request leaves, or fails to.          *)
PlaceOrder(d) ==
    /\ pc[d] = "armed"
    /\ orders' = [orders EXCEPT ![plan[d].id] =
         [st |-> "inflight", side |-> plan[d].side, market |-> plan[d].market,
          want |-> plan[d].want, filled |-> 0]]
    /\ Goto(d, "sent")
    /\ UNCHANGED <<files, holding, lock, locals>>

Accepted(d) ==
    /\ pc[d] = "sent"
    /\ orders[plan[d].id].st \notin {"inflight", "lost"}
    /\ Goto(d, "polling")
    /\ UNCHANGED <<files, venue, lock, locals>>

(* A refused call, a timeout, a lost answer: call_tool raises, and whether *)
(* the exchange has, will have or never gets the order is unknown.         *)
AnswerFails(d) ==
    /\ pc[d] \in {"armed", "sent"}
    /\ Goto(d, "ambiguous")
    /\ UNCHANGED <<files, venue, lock, locals>>

MarkUntracked(d) ==
    /\ pc[d] = "ambiguous"
    /\ bot' = [ActiveState(snap[d], plan[d]) EXCEPT !.untracked = TRUE]
    /\ Goto(d, "raised")
    /\ UNCHANGED <<booked, ledgerVol, legacy, venue, lock, locals>>

----------------------------------------------------------------------------
(* reconcile_active_order, polled by reconcile_until_terminal: after a     *)
(* submission, or by the caller for an order a previous run left behind.   *)

(* _apply_terminal_fill: the checks, then the state they lead to.          *)
FillIsConsistent(b, s) ==
    IF b.side = "bid"
      THEN b.vol = 0 /\ ~(s.st = "done" /\ s.filled = 0)
      ELSE /\ b.vol > 0 /\ b.want <= b.vol /\ s.filled <= b.want
           /\ s.st = "done" => s.filled = b.want

(* Mutant: a terminal sell is taken to have closed the position.           *)
AfterFillAssumesClosed(b, s) ==
    HeldState(IF b.side = "bid" THEN s.filled ELSE 0)

AfterFill(b, s) ==
    LET v == IF b.side = "bid" THEN s.filled ELSE b.vol - s.filled
    IN  [HeldState(v) EXCEPT !.policy = IF v = 0 THEN 0 ELSE b.policy]

ReadTerminal(d) ==
    /\ pc[d] \in {"caller", "polling"}
    /\ bot.active # None
    /\ Terminal(bot.active)
    /\ orders[bot.active].market = bot.market
    /\ orders[bot.active].side = bot.side
    /\ LET s == [st |-> orders[bot.active].st, filled |-> orders[bot.active].filled]
       IN  /\ FillIsConsistent(bot, s)
           /\ seen' = [seen EXCEPT ![d] = s]
    /\ snap' = [snap EXCEPT ![d] = bot]
    /\ Goto(d, "terminal")
    /\ UNCHANGED <<files, venue, lock, plan>>

(* Not found, a failed read, a payload that contradicts the state, or      *)
(* still waiting when the polling deadline passes.  A wait before the      *)
(* deadline changes nothing and is a stutter.                              *)
ReconcileRaises(d) ==
    /\ pc[d] \in {"caller", "polling"}
    /\ bot.active # None
    /\ Goto(d, "raised")
    /\ UNCHANGED <<files, venue, lock, locals>>

(* Mutant: a buy without a ledger position is not booked either.           *)
MustBookKnownMarket(b, s) ==
    s.filled > 0 /\ (ledgerVol[b.market] > 0 \/ b.policy > 0)

(* Whether the fills must be in the ledger before the order is cleared:    *)
(* only a pre-ledger holding may be sold without.                          *)
MustBook(b, s) ==
    s.filled > 0 /\ (b.side = "bid" \/ ledgerVol[b.market] > 0 \/ b.policy > 0)

(* Mutant: executed_volume is booked as if it were a new fill.             *)
AllTrades(i, s) == s.filled

(* Trades of the order snapshot that the ledger does not hold.             *)
UnseenTrades(i, s) == s.filled - booked[i]

(* append_order: only unseen trades are appended, and a sell may not       *)
(* exceed the ledger's position.                                           *)
AppendFills(d) ==
    LET b == snap[d]
        s == seen[d]
        unseen == UnseenTrades(b.active, s)
    IN  /\ pc[d] = "terminal"
        /\ IF MustBook(b, s)
             THEN /\ b.side = "ask" => unseen <= ledgerVol[b.market]
                  /\ booked' = [booked EXCEPT ![b.active] = s.filled]
                  /\ ledgerVol' = [ledgerVol EXCEPT ![b.market] =
                       IF b.side = "bid" THEN @ + unseen ELSE @ - unseen]
             ELSE UNCHANGED <<booked, ledgerVol>>
        /\ Goto(d, "ledgered")
        /\ UNCHANGED <<bot, legacy, venue, lock, locals>>

(* append_order raises: an unreadable ledger, a conflicting trade, a sell  *)
(* beyond the position, no disk.  What a short write leaves of a line is   *)
(* not modelled: the ledger is taken to be as before.                      *)
AppendRaises(d) ==
    /\ pc[d] = "terminal"
    /\ MustBook(snap[d], seen[d])
    /\ Goto(d, "raised")
    /\ UNCHANGED <<files, venue, lock, locals>>

SaveTerminal(d) ==
    /\ pc[d] = "ledgered"
    /\ bot' = AfterFill(snap[d], seen[d])
    /\ legacy' = (legacy /\ bot'.vol > 0)
    /\ Goto(d, "settled")
    /\ UNCHANGED <<booked, ledgerVol, venue, lock, locals>>

(* The caller handles the exception, or the settled state, and goes on.    *)
Resume(d) ==
    /\ pc[d] \in {"raised", "settled"}
    /\ Goto(d, "caller")
    /\ snap' = [snap EXCEPT ![d] = HeldState(0)]
    /\ plan' = [plan EXCEPT ![d] = NoPlan]
    /\ seen' = [seen EXCEPT ![d] = NoSight]
    /\ UNCHANGED <<files, venue, lock>>

----------------------------------------------------------------------------
(* The exchange.  A request in flight arrives, however late, or is lost; a *)
(* waiting order fills trade by trade and ends done or cancelled.          *)

Arrive(i) ==
    /\ orders[i].st = "inflight"
    /\ orders' = [orders EXCEPT ![i].st = "wait"]
    /\ UNCHANGED <<files, holding, lock, pc, locals>>

Lose(i) ==
    /\ orders[i].st = "inflight"
    /\ orders' = [orders EXCEPT ![i].st = "lost"]
    /\ UNCHANGED <<files, holding, lock, pc, locals>>

Fill(i) ==
    LET o == orders[i] IN
    /\ o.st = "wait"
    /\ IF o.side = "bid"
         THEN o.filled < Lot /\ holding[o.market] < Lot
         ELSE o.filled < o.want /\ holding[o.market] > 0
    /\ orders' = [orders EXCEPT ![i].filled = @ + 1]
    /\ holding' = [holding EXCEPT ![o.market] = IF o.side = "bid" THEN @ + 1 ELSE @ - 1]
    /\ UNCHANGED <<files, lock, pc, locals>>

Complete(i) ==
    LET o == orders[i] IN
    /\ o.st = "wait"
    /\ o.filled > 0
    /\ o.side = "ask" => o.filled = o.want
    /\ orders' = [orders EXCEPT ![i].st = "done"]
    /\ UNCHANGED <<files, holding, lock, pc, locals>>

CancelRest(i) ==
    /\ orders[i].st = "wait"
    /\ orders' = [orders EXCEPT ![i].st = "cancel"]
    /\ UNCHANGED <<files, holding, lock, pc, locals>>

----------------------------------------------------------------------------
Execute(d) ==
    \/ PlanExecution(d) \/ Refuse(d) \/ Validate(d) \/ CheckOrderChance(d)
    \/ PersistActive(d) \/ PlaceOrder(d) \/ Accepted(d) \/ AnswerFails(d)
    \/ MarkUntracked(d)

Reconcile(d) ==
    \/ ReadTerminal(d) \/ ReconcileRaises(d) \/ AppendFills(d) \/ AppendRaises(d)
    \/ SaveTerminal(d)

Exchange(i) == Arrive(i) \/ Lose(i) \/ Fill(i) \/ Complete(i) \/ CancelRest(i)

Next ==
    \/ \E d \in Daemons :
         Start(d) \/ Crash(d) \/ Execute(d) \/ Reconcile(d) \/ Resume(d)
    \/ \E i \in Ids : Exchange(i)

Spec == Init /\ [][Next]_vars

----------------------------------------------------------------------------
(* flock admits one daemon at a time: every other process is off           *)
(* (autonomous_trader.py: acquire_daemon_lock).                            *)
SingleDaemon == \A d \in Daemons : pc[d] # "off" => lock = d

(* An order that can still trade is the one order the state file names, so *)
(* no crash, lost answer or late arrival leaves an order nobody will read, *)
(* and no second order is sent while one may be alive                      *)
(* (execution.py: the save_state before call_tool).                        *)
NoOrphanOrder == \A i \in Ids : Open(i) => bot.active = i

(* What the exchange holds is what the state says once the fills of the    *)
(* pending order, if any, are counted - and it is held in the market of    *)
(* the pending order (execution.py: _apply_terminal_fill).                 *)
Fills == IF bot.active = None THEN 0 ELSE orders[bot.active].filled
HeldUnits == IF bot.side = "ask" THEN bot.vol - Fills ELSE bot.vol + Fills

PositionMatchesExchange ==
    \E m \in Markets :
      /\ holding = [n \in Markets |-> IF n = m THEN HeldUnits ELSE 0]
      /\ bot.active # None => bot.market = m

(* With nothing pending the ledger replays to the exchange balance, every  *)
(* trade booked once; a position older than the ledger is absent from it   *)
(* (execution.py: the append_order before save_state; FillLedger).         *)
LedgerMatchesExchange ==
    bot.active = None =>
      ledgerVol = IF legacy THEN [m \in Markets |-> 0] ELSE holding

(* A pending order is cleared only once the exchange reported it done or   *)
(* cancelled, and its trades are in the ledger by then unless the position *)
(* predates it (docs/LIVE_READINESS.md: the state is not cleared before    *)
(* the order is reconciled by its client order id).                        *)
ClearedOnlyWhenSettled ==
    [][\A i \in Ids : bot.active = i /\ bot'.active # i =>
         /\ Terminal(i)
         /\ legacy \/ booked[i] = orders[i].filled]_vars

(* A plan that passed every check is one the state file can hold           *)
(* (execution.py: plan_execution assigns a policy version on entry).       *)
PlansAreStorable ==
    \A d \in Daemons : pc[d] = "cleared" => ValidState(ActiveState(snap[d], plan[d]))
=============================================================================
