---------------------------- MODULE PaperLedger ----------------------------
(***************************************************************************)
(* The paper trader of paper.py and its hourly command (paper-run in       *)
(* cli.py): one long/flat decision for each completed day, kept in a state *)
(* file, an append-only audit and a pending transaction that announces     *)
(* both.  Each file change is a step; a run may die or raise between any   *)
(* two, and in the middle of an append.                                    *)
(*                                                                         *)
(* A run holds the command's lock from beginning to end, so there is one   *)
(* run at a time.  An amount is a Decimal that keeps a number of digits,   *)
(* so a large one keeps fewer places than a small one: amounts are counted *)
(* here in the last place of a small one, and every operation rounds to    *)
(* the places its result keeps.  A quantity is kept as the amount paid for *)
(* it and the price paid.  The signal and the prices of a day are the      *)
(* strategy's and the market's.                                            *)
(***************************************************************************)
EXTENDS Integers, Sequences

CONSTANTS
  Precision,     \* the first amount that keeps one place less
  InitialCash, MaxOrder, MinOrder, CashReserve,
  FeePart,       \* FEE_RATE is 1/FeePart
  SlippagePart,  \* SLIPPAGE_RATE is 1/SlippagePart
  Price,         \* opening prices of the market
  MaxDay,        \* bound: the last day that completes
  MaxFaults      \* bound on runs that die or raise

ASSUME PaperAssumption ==
  /\ InitialCash \in Nat /\ MaxOrder \in Nat /\ MinOrder \in Nat \ {0} /\ CashReserve \in Nat
  /\ InitialCash >= CashReserve
  /\ Precision \in Nat /\ FeePart \in Nat \ {0} /\ SlippagePart \in Nat \ {0}
  /\ Price \subseteq Nat \ {0}
  /\ MaxDay \in Nat /\ MaxFaults \in Nat

VARIABLES
  today,    \* the newest day whose decision can be executed
  state,    \* the state file
  audit,    \* the records of the audit file that can be read
  tail,     \* what follows the last newline of the audit
  pending,  \* <<record>>, the pending transaction, or <<>>
  pc,       \* what the run does next
  todo,     \* the decisions the run has still to process
  faults

files == <<state, audit, tail, pending>>
paperVars == <<today, state, audit, tail, pending, pc, todo, faults>>

Positions == {"flat", "long"}
Actions == {"buy", "sell", "hold"}

(* PaperState.  day is the last decision, 0 for none; cost is the amount    *)
(* paid with its fee, notional without; at is the market price of the day.  *)
States == [day : Nat, cash : Int, strategy : Positions, notional : Nat, at : Nat,
           cost : Int, realized : Int, decisions : Nat]

NoDecision ==
  [day |-> 0, cash |-> InitialCash, strategy |-> "flat", notional |-> 0, at |-> 0,
   cost |-> 0, realized |-> 0, decisions |-> 0]

Position(s) == IF s.notional > 0 THEN "long" ELSE "flat"

PaperInit ==
  /\ today = 0
  /\ state = NoDecision
  /\ audit = <<>> /\ tail = "none" /\ pending = <<>>
  /\ pc = "idle" /\ todo = <<>>
  /\ faults = 0

-----------------------------------------------------------------------------
(* Decimal arithmetic: the quotient a / b in the places it keeps, rounded   *)
(* half to even.  Amounts of 1000 * Precision are never reached.            *)

Place(x) == IF x < Precision THEN 1 ELSE IF x < 10 * Precision THEN 10 ELSE 100

HalfEven(a, b) ==
  LET q == a \div b
      up == 2 * (a % b) > b \/ (2 * (a % b) = b /\ q % 2 = 1)
  IN IF up THEN q + 1 ELSE q

Kept(a, b) == Place(a \div b) * HalfEven(a, b * Place(a \div b))
Rounded[f \in Int \X (Nat \ {0})] ==
  IF f[1] < 0 THEN -Kept(-f[1], f[2]) ELSE Kept(f[1], f[2])
Quotient(a, b) == Rounded[<<a, b>>]

Plus(x, y) == Quotient(x + y, 1)
Minus(x, y) == Quotient(x - y, 1)

-----------------------------------------------------------------------------
(* A decision.                                                              *)

(* The order and its fee are taken from what the reserve leaves.            *)
BuyTerms(cash) ==
  LET available == Minus(cash, CashReserve)
      part == Quotient(available * FeePart, FeePart + 1)
  IN IF available * FeePart >= MaxOrder * (FeePart + 1)
     THEN [notional |-> MaxOrder, fee |-> Quotient(MaxOrder, FeePart)]
     ELSE [notional |-> part, fee |-> Minus(available, part)]

(* The limit of one entry a day never binds: no two decisions are executed  *)
(* on the same day.                                                         *)
Buys(s, want) ==
  want = "long" /\ Position(s) = "flat" /\ BuyTerms(s.cash).notional >= MinOrder

Sells(s, want) == want = "flat" /\ Position(s) = "long"

Debit(s) == Plus(BuyTerms(s.cash).notional, BuyTerms(s.cash).fee)

Bought(s, price) ==
  [day |-> s.day + 1, cash |-> Minus(s.cash, Debit(s)), strategy |-> "long",
   notional |-> BuyTerms(s.cash).notional, at |-> price, cost |-> Debit(s),
   realized |-> s.realized, decisions |-> s.decisions + 1]

(* What the quantity fetches, slippage taken on both sides; the quantity's  *)
(* own rounding is folded into this one.                                    *)
Gross(s, price) ==
  Quotient(s.notional * price * (SlippagePart - 1), s.at * (SlippagePart + 1))

FeeOf(gross) == Quotient(gross, FeePart)

Proceeds(s, price) == Minus(Gross(s, price), FeeOf(Gross(s, price)))

Gain(s, price) == Minus(Proceeds(s, price), s.cost)

Sold(s, price) ==
  [day |-> s.day + 1, cash |-> Plus(s.cash, Proceeds(s, price)), strategy |-> "flat",
   notional |-> 0, at |-> 0, cost |-> 0,
   realized |-> Plus(s.realized, Gain(s, price)), decisions |-> s.decisions + 1]

Held(s, want) ==
  [day |-> s.day + 1, cash |-> s.cash, strategy |-> want, notional |-> s.notional,
   at |-> s.at, cost |-> s.cost, realized |-> s.realized, decisions |-> s.decisions + 1]

Action(s, want) ==
  IF Buys(s, want) THEN "buy" ELSE IF Sells(s, want) THEN "sell" ELSE "hold"

After(s, want, price) ==
  IF Buys(s, want) THEN Bought(s, price)
  ELSE IF Sells(s, want) THEN Sold(s, price) ELSE Held(s, want)

FeePaid(s, want, price) ==
  IF Buys(s, want) THEN BuyTerms(s.cash).fee
  ELSE IF Sells(s, want) THEN FeeOf(Gross(s, price)) ELSE 0

(* The audit record of a decision; d is its day, which is the state's next  *)
(* one except for the first decision.                                       *)
Dated(s, d) == [s EXCEPT !.day = d]
Record(s, d, want, price) ==
  [action |-> Action(s, want), requested |-> want, price |-> price,
   fee |-> FeePaid(s, want, price),
   gain |-> IF Sells(s, want) THEN Gain(s, price) ELSE 0,
   after |-> Dated(After(s, want, price), d)]

Records == [action : Actions, requested : Positions, price : Price, fee : Int, gain : Int,
            after : States]

-----------------------------------------------------------------------------
(* The command.                                                             *)

DayCompletes ==
  /\ today < MaxDay
  /\ today' = today + 1
  /\ UNCHANGED <<files, pc, todo, faults>>

\* Mutant: a run looks at the newest day only.
NewestOnly == <<today>>

(* The decisions after the one in the state file, oldest first; the newest  *)
(* alone when there is none or nothing is missing.  The state is read       *)
(* before the pending transaction is recovered.                             *)
Missing ==
  IF state.day \in 1..(today - 1)
  THEN [i \in 1..(today - state.day) |-> state.day + i] ELSE <<today>>

Start ==
  /\ pc = "idle" /\ today > 0
  /\ todo' = Missing
  /\ pc' = "recover"
  /\ UNCHANGED <<today, files, faults>>

Stop == pc' = "idle" /\ todo' = <<>>

(* The end of one decision: the next one, or the end of the run.            *)
NextDecision ==
  /\ todo' = Tail(todo)
  /\ pc' = IF Len(todo) = 1 THEN "idle" ELSE "recover"

-----------------------------------------------------------------------------
(* _recover_pending, which every decision begins with.                      *)

NothingPending ==
  /\ pc = "recover" /\ pending = <<>>
  /\ pc' = "decide"
  /\ UNCHANGED <<today, files, todo, faults>>

Announced == pending[1]

\* Mutant: a torn record is left where it is.
RepairNothing == UNCHANGED <<tail, audit>>

(* A part of a record is cut off, a record without its newline gets one.    *)
(* Such a record is the announced one, or the run would be refused.         *)
Repaired == tail' = "none" /\ UNCHANGED audit

RepairTail ==
  /\ pc = "recover" /\ pending # <<>>
  /\ tail = "unterminated" => audit # <<>> /\ audit[Len(audit)] = Announced
  /\ Repaired
  /\ pc' = "replay state"
  /\ UNCHANGED <<today, state, pending, todo, faults>>

ReplayState ==
  /\ pc = "replay state"
  /\ state' = Announced.after
  /\ pc' = "replay audit"
  /\ UNCHANGED <<today, audit, tail, pending, todo, faults>>

-----------------------------------------------------------------------------
(* process.                                                                 *)

AlreadyProcessed ==
  /\ pc = "decide" /\ state.day = todo[1]
  /\ NextDecision
  /\ UNCHANGED <<today, files, faults>>

\* Mutant: any later day will do.
FollowsLater(d) == d > state.day

Follows(d) == state.day = 0 \/ d = state.day + 1

(* Missing decisions must not be skipped, and none is taken twice.          *)
RefuseGap ==
  /\ pc = "decide" /\ state.day # todo[1] /\ ~Follows(todo[1])
  /\ Stop
  /\ UNCHANGED <<today, files, faults>>

Decide(want, price) ==
  /\ pc = "decide" /\ Follows(todo[1])
  /\ pending' = <<Record(state, todo[1], want, price)>>
  /\ pc' = "state"
  /\ UNCHANGED <<today, state, audit, tail, todo, faults>>

SaveState ==
  /\ pc = "state"
  /\ state' = Announced.after
  /\ pc' = "audit"
  /\ UNCHANGED <<today, audit, tail, pending, todo, faults>>

AuditContains(r) == \E i \in 1..Len(audit) : audit[i] = r

(* Both the decision and the recovery: a record that is there is not        *)
(* appended again.                                                          *)
AppendAudit ==
  /\ pc \in {"audit", "replay audit"}
  /\ audit' = IF AuditContains(Announced) THEN audit ELSE Append(audit, Announced)
  /\ pc' = IF pc = "audit" THEN "unlink" ELSE "replay unlink"
  /\ UNCHANGED <<today, state, tail, pending, todo, faults>>

Unlink ==
  /\ pc = "unlink"
  /\ pending' = <<>>
  /\ NextDecision
  /\ UNCHANGED <<today, state, audit, tail, faults>>

ReplayUnlink ==
  /\ pc = "replay unlink"
  /\ pending' = <<>>
  /\ pc' = "decide"
  /\ UNCHANGED <<today, state, audit, tail, todo, faults>>

-----------------------------------------------------------------------------
(* A run dies, or a call of it raises, between two file changes.            *)
Fail ==
  /\ pc # "idle" /\ faults < MaxFaults
  /\ faults' = faults + 1
  /\ Stop
  /\ UNCHANGED <<today, files>>

(* ... or after a part of the record has been written: less than the        *)
(* record, or all of it but the newline.                                    *)
Tear ==
  /\ pc \in {"audit", "replay audit"} /\ ~AuditContains(Announced)
  /\ faults < MaxFaults
  /\ faults' = faults + 1
  /\ \/ tail' = "partial" /\ UNCHANGED audit
     \/ tail' = "unterminated" /\ audit' = Append(audit, Announced)
  /\ Stop
  /\ UNCHANGED <<today, state, pending>>

RunStep ==
  \/ NothingPending \/ RepairTail \/ ReplayState \/ AppendAudit \/ ReplayUnlink
  \/ AlreadyProcessed \/ RefuseGap \/ SaveState \/ Unlink
  \/ \E want \in Positions, price \in Price : Decide(want, price)

PaperNext == DayCompletes \/ Start \/ RunStep \/ Fail \/ Tear

PaperSpec == PaperInit /\ [][PaperNext]_paperVars

(* cron starts the command every hour, and a run goes on until it ends.     *)
PaperFairSpec == PaperSpec /\ WF_paperVars(Start) /\ WF_paperVars(RunStep)

-----------------------------------------------------------------------------
(* Files have the shape their readers expect.                               *)
PaperTypeOK ==
  /\ today \in Nat
  /\ state \in States
  /\ audit \in Seq(Records)
  /\ tail \in {"none", "partial", "unterminated"}
  /\ pending \in Seq(Records) /\ Len(pending) <= 1
  /\ pc \in {"idle", "recover", "replay state", "replay audit", "replay unlink",
             "decide", "state", "audit", "unlink"}
  /\ todo \in Seq(Nat)
  /\ faults \in Nat

(* What audit_evidence asks of a record and the state s before it, by its   *)
(* own computation, but for the cash.                                       *)
Verifies(s, r) ==
  /\ r.action = Action(s, r.requested)
  /\ r.after.strategy = r.requested /\ r.after.decisions = s.decisions + 1
  /\ s.day # 0 => r.after.day = s.day + 1
  /\ r.action = "buy" =>
       /\ r.fee = BuyTerms(s.cash).fee /\ r.gain = 0
       /\ r.after.notional = BuyTerms(s.cash).notional /\ r.after.at = r.price
       /\ r.after.cost = Plus(r.after.notional, r.fee) /\ r.after.realized = s.realized
  /\ r.action = "sell" =>
       /\ r.fee = FeeOf(Gross(s, r.price))
       /\ r.gain = Minus(Minus(Gross(s, r.price), r.fee), s.cost)
       /\ r.after.notional = 0 /\ r.after.cost = 0
       /\ r.after.realized = Plus(s.realized, r.gain)
  /\ r.action = "hold" =>
       /\ r.fee = 0 /\ r.gain = 0
       /\ \A f \in {"cash", "notional", "at", "cost", "realized"} : r.after[f] = s[f]

(* What it asks of the cash, added up in another order than the decision's. *)
CashAdds(s, r) ==
  /\ r.action = "buy" =>
       /\ r.after.cash = Minus(Minus(s.cash, r.after.notional), r.fee)
       /\ r.after.cash >= CashReserve
  /\ r.action = "sell" => r.after.cash = Minus(Plus(s.cash, Gross(s, r.price)), r.fee)

StateBefore(i) == IF i = 1 THEN NoDecision ELSE audit[i - 1].after
Replays == \A i \in 1..Len(audit) : Verifies(StateBefore(i), audit[i])

LastState == IF audit = <<>> THEN NoDecision ELSE audit[Len(audit)].after

(* Whenever no transaction is pending the audit is whole, each record is a  *)
(* decision that follows from the one before it (what verify_audit asks but *)
(* for the sums of the cash), and it ends in the state file, wherever       *)
(* earlier runs died.                                                       *)
VerifiesWhenSettled ==
  pending = <<>> => tail = "none" /\ Replays /\ state = LastState

(* "Replay and verify the append-only audit": verify_audit accepts what the *)
(* decisions wrote, its sums of the cash included.                          *)
AuditAccepts ==
  pending = <<>> =>
    /\ Replays /\ state = LastState
    /\ \A i \in 1..Len(audit) : CashAdds(StateBefore(i), audit[i])

(* What a recovery makes of the audit.                                      *)
Book == IF pending = <<>> \/ AuditContains(Announced) THEN audit ELSE Append(audit, Announced)

(* The book of decisions only grows, one day at a time: no crash takes a    *)
(* decision back, repeats it, changes it or skips a day.                    *)
BookGrows ==
  [][Book' # Book =>
       /\ Len(Book') = Len(Book) + 1
       /\ SubSeq(Book', 1, Len(Book)) = Book
       /\ Book # <<>> => Book'[Len(Book')].after.day = Book[Len(Book)].after.day + 1]_paperVars

(* Once there is a first decision, every day that completes gets one.       *)
EveryDayIsDecided ==
  \A d \in 1..MaxDay : (state.day \in 1..d /\ today >= d) ~> (state.day >= d /\ pending = <<>>)

=============================================================================
