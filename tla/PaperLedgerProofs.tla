-------------------------- MODULE PaperLedgerProofs --------------------------
(***************************************************************************)
(* Whenever no transaction is pending, every record of the audit passes    *)
(* the audit's own computation, but for the sums of the cash; and the book *)
(* of decisions only grows, wherever earlier runs died.  The pending       *)
(* transaction names the decision that is being written, so the book is    *)
(* known at every step, and only Decide adds to it.                        *)
(***************************************************************************)
EXTENDS PaperLedger, SequenceTheorems, TLAPS

(* A state one can sell from: what is held was bought at a price.          *)
Sound(s) == s \in States /\ (s.notional > 0 => s.at > 0)

SoundRecords == {r \in Records : Sound(r.after) /\ r.after.day > 0}

(* A book of decisions: each follows from the one before, day by day.      *)
Before(b, i) == IF i = 1 THEN NoDecision ELSE b[i - 1].after
LastOf(b) == IF b = <<>> THEN NoDecision ELSE b[Len(b)].after

FollowsFrom(s, r) == r = Record(s, r.after.day, r.requested, r.price)

Chained(b) ==
  \A i \in 1..Len(b) :
    /\ FollowsFrom(Before(b, i), b[i])
    /\ i > 1 => b[i].after.day = b[i - 1].after.day + 1

Rising(b) == \A i, j \in 1..Len(b) : i < j => b[i].after.day < b[j].after.day

Recovering == {"replay state", "replay audit", "replay unlink"}
Deciding == {"state", "audit", "unlink"}

Typed ==
  /\ today \in Nat
  /\ Sound(state)
  /\ audit \in Seq(SoundRecords)
  /\ tail \in {"none", "partial", "unterminated"}
  /\ pending = <<>> \/ \E r \in SoundRecords : pending = <<r>>
  /\ pc \in {"idle", "recover", "decide"} \cup Recovering \cup Deciding
  /\ todo \in Seq(Nat \ {0})
  /\ pc # "idle" => todo # <<>>
  /\ faults \in Nat

(* What is known at each point of a run.                                   *)
AtPoint ==
  /\ pc \in Recovering \cup Deciding => pending # <<>> /\ tail = "none"
  /\ pc = "decide" => pending = <<>>
  /\ pc \in {"audit", "replay audit", "unlink", "replay unlink"} => state = Announced.after
  /\ pc \in {"unlink", "replay unlink"} => AuditContains(Announced)

(* The book, and where in it the files are.                                *)
BookHolds ==
  /\ Chained(Book) /\ Rising(Book)
  /\ pending = <<>> => tail = "none" /\ state = LastOf(Book)
  /\ pending # <<>> => Book # <<>> /\ Book[Len(Book)] = Announced

PaperInv == Typed /\ AtPoint /\ BookHolds

----------------------------------------------------------------------------
(* What a decision makes of a state.                                       *)

(* A sum or a quotient of amounts is an amount.                            *)
LEMMA QuotientIsAmount ==
  ASSUME NEW a \in Int, NEW b \in Nat \ {0}
  PROVE  Quotient(a, b) \in Int
<1>1. \A x \in Int, y \in Nat \ {0} : x \div y \in Int /\ x % y \in Int
  OBVIOUS
<1>2. \A x \in Int, y \in Nat \ {0} : HalfEven(x, y) \in Int
  BY <1>1 DEF HalfEven
<1>3. \A x \in Int : Place(x) \in Nat \ {0}
  BY DEF Place
<1>4. \A x \in Int, y \in Nat \ {0} : Kept(x, y) \in Int
  <2> SUFFICES ASSUME NEW x \in Int, NEW y \in Nat \ {0}
               PROVE  Kept(x, y) \in Int
    OBVIOUS
  <2>1. PICK p \in Nat \ {0} : p = Place(x \div y)
    BY <1>1, <1>3
  <2>2. PICK z \in Nat \ {0} : z = y * p
    BY <2>1
  <2>3. PICK h \in Int : h = HalfEven(x, z)
    BY <1>2, <2>2
  <2>4. p * h \in Int
    BY <2>1, <2>3
  <2> QED
    BY <2>1, <2>2, <2>3, <2>4 DEF Kept
<1>5. -a \in Int
  OBVIOUS
<1>6. Kept(a, b) \in Int /\ Kept(-a, b) \in Int
  BY <1>4, <1>5
<1>7. -Kept(-a, b) \in Int
  BY <1>6
<1>8. Quotient(a, b) = IF a < 0 THEN -Kept(-a, b) ELSE Kept(a, b)
  BY Zenon DEF Quotient, Rounded
<1> QED
  BY <1>6, <1>7, <1>8

LEMMA SumsAreAmounts ==
  ASSUME NEW x \in Int, NEW y \in Int
  PROVE  Plus(x, y) \in Int /\ Minus(x, y) \in Int
<1>1. x + y \in Int /\ x - y \in Int /\ 1 \in Nat \ {0}
  OBVIOUS
<1> QED
  BY <1>1, QuotientIsAmount DEF Plus, Minus

LEMMA TermsAreAmounts ==
  ASSUME NEW cash \in Int
  PROVE  BuyTerms(cash).notional \in Int /\ BuyTerms(cash).fee \in Int
<1> USE PaperAssumption
<1>1. PICK available \in Int : available = Minus(cash, CashReserve)
  BY SumsAreAmounts
<1>2. available * FeePart \in Int /\ FeePart + 1 \in Nat \ {0}
  BY <1>1
<1>3. PICK part \in Int : part = Quotient(available * FeePart, FeePart + 1)
  BY <1>2, QuotientIsAmount
<1>4. Quotient(MaxOrder, FeePart) \in Int /\ Minus(available, part) \in Int /\ MaxOrder \in Int
  BY <1>1, <1>3, QuotientIsAmount, SumsAreAmounts
<1> QED
  BY <1>1, <1>3, <1>4 DEF BuyTerms

(* What a sale fetches, its fee and its gain.                              *)
LEMMA SaleIsAmount ==
  ASSUME NEW s, Sound(s), s.notional > 0, NEW price \in Price
  PROVE  /\ Gross(s, price) \in Int /\ FeeOf(Gross(s, price)) \in Int
         /\ Proceeds(s, price) \in Int /\ Gain(s, price) \in Int
<1> USE PaperAssumption
<1>1. s.notional \in Int /\ s.at \in Nat \ {0} /\ s.cost \in Int /\ price \in Int
  BY DEF Sound, States
<1>2. SlippagePart - 1 \in Int /\ SlippagePart + 1 \in Nat \ {0}
  OBVIOUS
<1>3. s.notional * price \in Int
  BY <1>1
<1>4. s.notional * price * (SlippagePart - 1) \in Int
  BY <1>2, <1>3
<1>5. s.at * (SlippagePart + 1) \in Nat \ {0}
  <2>1. PICK p \in Nat \ {0} : p = s.at
    BY <1>1
  <2>2. PICK q \in Nat \ {0} : q = SlippagePart + 1
    BY <1>2
  <2> QED
    BY <2>1, <2>2
<1>6. Gross(s, price) \in Int
  BY <1>4, <1>5, QuotientIsAmount DEF Gross
<1>7. FeeOf(Gross(s, price)) \in Int
  BY <1>6, QuotientIsAmount DEF FeeOf
<1> QED
  BY <1>1, <1>6, <1>7, SumsAreAmounts DEF Proceeds, Gain

(* What a decision leaves is a state one can sell from.                    *)
LEMMA DecisionIsSound ==
  ASSUME NEW s, Sound(s), NEW want \in Positions, NEW price \in Price
  PROVE  Sound(After(s, want, price)) /\ FeePaid(s, want, price) \in Int
<1>0. /\ s.day \in Nat /\ s.cash \in Int /\ s.realized \in Int /\ s.decisions \in Nat
      /\ price \in Nat \ {0}
  BY PaperAssumption DEF Sound, States
<1>1. CASE Buys(s, want)
  <2>1. PICK n \in Int, fee \in Int : BuyTerms(s.cash).notional = n /\ BuyTerms(s.cash).fee = fee
    BY <1>0, TermsAreAmounts
  <2>2. n > 0
    BY <1>1, <2>1, PaperAssumption DEF Buys
  <2>3. Debit(s) \in Int /\ Minus(s.cash, Debit(s)) \in Int
    BY <1>0, <2>1, SumsAreAmounts DEF Debit
  <2>4. PICK e \in Nat, k \in Nat : e = s.day + 1 /\ k = s.decisions + 1
    BY <1>0
  <2>5. Bought(s, price) =
          [day |-> e, cash |-> Minus(s.cash, Debit(s)), strategy |-> "long", notional |-> n,
           at |-> price, cost |-> Debit(s), realized |-> s.realized, decisions |-> k]
    BY <2>1, <2>4 DEF Bought
  <2>6. Sound(Bought(s, price))
    BY <1>0, <2>2, <2>3, <2>5 DEF Sound, States, Positions
  <2> QED
    BY <1>1, <2>1, <2>6 DEF After, FeePaid
<1>2. CASE ~Buys(s, want) /\ Sells(s, want)
  <2>1. s.notional > 0
    BY <1>2 DEF Sells, Position
  <2>2. /\ FeeOf(Gross(s, price)) \in Int
        /\ Plus(s.cash, Proceeds(s, price)) \in Int /\ Plus(s.realized, Gain(s, price)) \in Int
    BY <1>0, <2>1, SaleIsAmount, SumsAreAmounts
  <2>3. PICK e \in Nat, k \in Nat, zero \in Nat : e = s.day + 1 /\ k = s.decisions + 1 /\ zero = 0
    BY <1>0
  <2>4. Sold(s, price) =
          [day |-> e, cash |-> Plus(s.cash, Proceeds(s, price)), strategy |-> "flat",
           notional |-> zero, at |-> zero, cost |-> zero,
           realized |-> Plus(s.realized, Gain(s, price)), decisions |-> k]
    BY <2>3 DEF Sold
  <2>5. Sound(Sold(s, price))
    BY <1>0, <2>2, <2>3, <2>4 DEF Sound, States, Positions
  <2> QED
    BY <1>2, <2>2, <2>5 DEF After, FeePaid
<1>3. CASE ~Buys(s, want) /\ ~Sells(s, want)
  BY <1>3 DEF After, Held, FeePaid, Sound, States, Positions
<1> QED
  BY <1>1, <1>2, <1>3

LEMMA NothingDecided == Sound(NoDecision)
BY PaperAssumption DEF Sound, States, Positions, NoDecision

LEMMA RecordIsSound ==
  ASSUME NEW s, Sound(s), NEW d \in Nat \ {0}, NEW want \in Positions, NEW price \in Price
  PROVE  /\ Record(s, d, want, price) \in SoundRecords
         /\ Record(s, d, want, price).after.day = d
         /\ FollowsFrom(s, Record(s, d, want, price))
<1> DEFINE a == After(s, want, price)
           act == Action(s, want)
           fee == FeePaid(s, want, price)
           gain == IF Sells(s, want) THEN Gain(s, price) ELSE 0
<1>1. Sound(a) /\ fee \in Int
  BY DecisionIsSound
<1>2. gain \in Int
  BY SaleIsAmount DEF Sells, Position
<1>3. act \in Actions
  BY DEF Action, Actions
<1>4. Record(s, d, want, price) =
        [action |-> act, requested |-> want, price |-> price, fee |-> fee, gain |-> gain,
         after |-> Dated(a, d)]
  BY DEF Record
<1> HIDE DEF a, act, fee, gain
<1>5. Sound(Dated(a, d)) /\ Dated(a, d).day = d
  BY <1>1 DEF Sound, States, Dated
<1>6. Record(s, d, want, price) \in SoundRecords
  BY <1>1, <1>2, <1>3, <1>4, <1>5 DEF SoundRecords, Records, Sound
<1>7. Record(s, d, want, price).after.day = d
  BY <1>4, <1>5
<1>8. FollowsFrom(s, Record(s, d, want, price))
  BY <1>4, <1>7 DEF FollowsFrom
<1> QED
  BY <1>6, <1>7, <1>8

(* What process writes passes the audit's own computation.                 *)
LEMMA RecordVerifies ==
  ASSUME NEW s, Sound(s), NEW r \in SoundRecords, FollowsFrom(s, r),
         s.day # 0 => r.after.day = s.day + 1
  PROVE  Verifies(s, r)
<1> DEFINE want == r.requested
           price == r.price
           d == r.after.day
           a == After(s, want, price)
<1>1. /\ r.action = Action(s, want) /\ r.after = Dated(a, d)
      /\ r.fee = FeePaid(s, want, price)
      /\ r.gain = IF Sells(s, want) THEN Gain(s, price) ELSE 0
  BY DEF FollowsFrom, Record
<1>2. want \in Positions
  BY DEF SoundRecords, Records
<1>3. a \in States
  BY <1>2, DecisionIsSound DEF SoundRecords, Records, Sound
<1> HIDE DEF want, price, d
<1>4. \A f \in DOMAIN a \ {"day"} : r.after[f] = a[f]
  BY <1>1, <1>3 DEF Dated
<1>5. DOMAIN a = {"day", "cash", "strategy", "notional", "at", "cost", "realized", "decisions"}
  BY <1>3 DEF States
<1> HIDE DEF a
<1>6. /\ r.after.cash = a.cash /\ r.after.strategy = a.strategy /\ r.after.at = a.at
      /\ r.after.notional = a.notional /\ r.after.cost = a.cost
      /\ r.after.realized = a.realized /\ r.after.decisions = a.decisions
  BY <1>4, <1>5
<1>7. a.decisions = s.decisions + 1
  BY DEF a, After, Bought, Sold, Held
<1>8. a.strategy = want
  BY <1>2 DEF a, After, Bought, Sold, Held, Buys, Sells, Positions
<1>9. CASE Buys(s, want)
  <2>1. r.action = "buy" /\ ~Sells(s, want)
    BY <1>1, <1>9 DEF Action, Buys, Sells
  <2>2. a = Bought(s, price)
    BY <1>9 DEF a, After
  <2>3. /\ a.notional = BuyTerms(s.cash).notional /\ a.at = price
        /\ a.cost = Debit(s) /\ a.realized = s.realized
    BY <2>2 DEF Bought
  <2>4. r.fee = BuyTerms(s.cash).fee /\ r.gain = 0
    BY <1>1, <1>9, <2>1 DEF FeePaid
  <2> QED
    BY <1>1, <1>6, <1>7, <1>8, <2>1, <2>3, <2>4 DEF Verifies, Debit, want, price
<1>10. CASE ~Buys(s, want) /\ Sells(s, want)
  <2>1. r.action = "sell"
    BY <1>1, <1>10 DEF Action
  <2>2. a = Sold(s, price)
    BY <1>10 DEF a, After
  <2>3. a.notional = 0 /\ a.cost = 0 /\ a.realized = Plus(s.realized, Gain(s, price))
    BY <2>2 DEF Sold
  <2>4. r.fee = FeeOf(Gross(s, price)) /\ r.gain = Gain(s, price)
    BY <1>1, <1>10 DEF FeePaid
  <2> QED
    BY <1>1, <1>6, <1>7, <1>8, <2>1, <2>3, <2>4 DEF Verifies, Gain, Proceeds, want, price
<1>11. CASE ~Buys(s, want) /\ ~Sells(s, want)
  <2>1. r.action = "hold" /\ r.fee = 0 /\ r.gain = 0
    BY <1>1, <1>11 DEF Action, FeePaid
  <2>2. a = Held(s, want)
    BY <1>11 DEF a, After
  <2>3. \A f \in {"cash", "notional", "at", "cost", "realized"} : r.after[f] = s[f]
    BY <1>6, <2>2 DEF Held
  <2> QED
    BY <1>1, <1>6, <1>7, <1>8, <2>1, <2>3 DEF Verifies, want, d
<1> QED
  BY <1>9, <1>10, <1>11

----------------------------------------------------------------------------
(* Books.                                                                  *)

LEMMA EndIsSound ==
  ASSUME NEW b \in Seq(SoundRecords)
  PROVE  Sound(LastOf(b)) /\ (b # <<>> => LastOf(b).day > 0)
BY NothingDecided, EmptySeq DEF LastOf, SoundRecords

LEMMA SoundRecordsAre ==
  \A r \in SoundRecords : Sound(r.after) /\ r.after.day \in Nat \ {0}
BY DEF SoundRecords, Records, Sound, States

(* A decision that follows the end of a book is not in it and extends it.  *)
LEMMA BookExtends ==
  ASSUME NEW b \in Seq(SoundRecords), Chained(b), Rising(b),
         NEW r \in SoundRecords, FollowsFrom(LastOf(b), r),
         b # <<>> => r.after.day = LastOf(b).day + 1
  PROVE  /\ Append(b, r) \in Seq(SoundRecords)
         /\ Chained(Append(b, r)) /\ Rising(Append(b, r))
         /\ LastOf(Append(b, r)) = r.after
         /\ ~\E i \in 1..Len(b) : b[i] = r
<1> DEFINE c == Append(b, r)
<1>1. /\ c \in Seq(SoundRecords) /\ Len(c) = Len(b) + 1 /\ Len(b) \in Nat
      /\ c[Len(c)] = r /\ c # <<>>
      /\ \A i \in 1..Len(b) : c[i] = b[i]
  BY AppendProperties, LenProperties
<1>2. \A i \in 1..Len(b) : b[i].after.day \in Nat
  BY ElementOfSeq, SoundRecordsAre
<1>3. \A i \in 1..Len(b) : b[i].after.day < r.after.day
  <2> SUFFICES ASSUME NEW i \in 1..Len(b)
               PROVE  b[i].after.day < r.after.day
    OBVIOUS
  <2>1. b # <<>> /\ Len(b) \in 1..Len(b)
    BY EmptySeq, <1>1
  <2>2. r.after.day = b[Len(b)].after.day + 1
    BY <2>1 DEF LastOf
  <2>3. b[i].after.day <= b[Len(b)].after.day
    BY <1>1, <1>2, <2>1 DEF Rising
  <2> QED
    BY <1>2, <2>1, <2>2, <2>3
<1> HIDE DEF c
<1>4. Chained(c)
  <2> SUFFICES ASSUME NEW i \in 1..Len(c)
               PROVE  /\ FollowsFrom(Before(c, i), c[i])
                      /\ i > 1 => c[i].after.day = c[i - 1].after.day + 1
    BY DEF Chained
  <2>1. CASE i <= Len(b)
    BY <1>1, <2>1 DEF Chained, Before
  <2>2. CASE i = Len(c)
    <3>1. Before(c, i) = LastOf(b)
      BY <1>1, <2>2, EmptySeq DEF Before, LastOf
    <3>2. i > 1 => b # <<>> /\ c[i - 1] = b[Len(b)]
      BY <1>1, <2>2, EmptySeq
    <3> QED
      BY <1>1, <2>2, <3>1, <3>2 DEF LastOf
  <2> QED
    BY <1>1, <2>1, <2>2
<1>5. Rising(c)
  <2> SUFFICES ASSUME NEW i \in 1..Len(c), NEW j \in 1..Len(c), i < j
               PROVE  c[i].after.day < c[j].after.day
    BY DEF Rising
  <2>1. i \in 1..Len(b) /\ c[i] = b[i]
    BY <1>1
  <2>2. CASE j \in 1..Len(b)
    BY <1>1, <2>1, <2>2 DEF Rising
  <2>3. CASE j = Len(c)
    BY <1>1, <1>3, <2>1, <2>3
  <2> QED
    BY <1>1, <2>2, <2>3
<1>6. LastOf(c) = r.after
  BY <1>1 DEF LastOf
<1>7. ~\E i \in 1..Len(b) : b[i] = r
  BY <1>2, <1>3
<1> QED
  BY <1>1, <1>4, <1>5, <1>6, <1>7 DEF c

(* The announced decision is the last of the book, and nowhere else.       *)
LEMMA BookCases ==
  ASSUME Typed, BookHolds
  PROVE  /\ Book \in Seq(SoundRecords)
         /\ pending = <<>> => Book = audit
         /\ pending # <<>> => Announced \in SoundRecords
         /\ pending # <<>> /\ AuditContains(Announced) => Book = audit
         /\ pending # <<>> /\ ~AuditContains(Announced) => Book = Append(audit, Announced)
<1>1. pending # <<>> => Announced \in SoundRecords
  BY DEF Typed, Announced
<1> QED
  BY <1>1, AppendProperties DEF Typed, Book

----------------------------------------------------------------------------
(* The invariant.                                                          *)

LEMMA InvAtStart == PaperInit => PaperInv
<1> SUFFICES ASSUME PaperInit PROVE PaperInv
  OBVIOUS
<1> USE DEF PaperInit
<1>1. Typed
  BY NothingDecided, EmptySeq DEF Typed
<1>2. AtPoint
  BY DEF AtPoint, Recovering, Deciding
<1>3. Book = <<>>
  BY DEF Book
<1>4. BookHolds
  BY <1>3, EmptySeq DEF BookHolds, Chained, Rising, LastOf
<1> QED
  BY <1>1, <1>2, <1>4 DEF PaperInv

(* The book stays when the audit and the transaction do.                   *)
LEMMA BookUnchanged ==
  ASSUME UNCHANGED <<audit, pending>>
  PROVE  Book' = Book /\ Announced' = Announced /\ AuditContains(Announced)' = AuditContains(Announced)
BY DEF Book, Announced, AuditContains

LEMMA BookHoldsStays ==
  ASSUME BookHolds, UNCHANGED <<audit, pending>>,
         pending = <<>> => UNCHANGED <<tail, state>>
  PROVE  BookHolds' /\ Book' = Book
<1>1. Book' = Book /\ Announced' = Announced
  BY BookUnchanged
<1>2. Chained(Book)' /\ Rising(Book)'
  BY <1>1 DEF BookHolds, Chained, Rising, Before, FollowsFrom
<1>3. LastOf(Book)' = LastOf(Book)
  BY <1>1 DEF LastOf
<1>4. pending' = <<>> => tail' = "none" /\ state' = LastOf(Book)'
  BY <1>3 DEF BookHolds
<1>5. pending' # <<>> => Book' # <<>> /\ Book'[Len(Book')] = Announced'
  BY <1>1 DEF BookHolds
<1> QED
  BY <1>1, <1>2, <1>4, <1>5 DEF BookHolds

LEMMA TodoShrinks ==
  ASSUME NEW s \in Seq(Nat \ {0}), s # <<>>
  PROVE  Tail(s) \in Seq(Nat \ {0}) /\ (Len(s) # 1 => Tail(s) # <<>>)
<1>1. Tail(s) \in Seq(Nat \ {0}) /\ Len(Tail(s)) = Len(s) - 1 /\ Len(s) \in Nat
  BY HeadTailProperties, LenProperties
<1>2. Len(s) # 1 => Len(Tail(s)) # 0
  BY <1>1
<1> QED
  BY <1>1, <1>2, EmptySeq

(* A step that leaves the files alone, or only the run's own state.        *)
LEMMA QuietSteps ==
  ASSUME PaperInv,
         \/ DayCompletes \/ Start \/ NothingPending \/ AlreadyProcessed
         \/ RefuseGap \/ Fail \/ UNCHANGED paperVars
  PROVE  PaperInv' /\ Book' = Book
<1> USE DEF PaperInv
<1>1. UNCHANGED files
  BY DEF DayCompletes, Start, NothingPending, AlreadyProcessed, RefuseGap, Fail, paperVars, files
<1>2. BookHolds' /\ Book' = Book
  BY <1>1, BookHoldsStays DEF files
<1>3. Typed'
  <2>1. CASE Start
    <3>1. Missing \in Seq(Nat \ {0}) /\ Missing # <<>>
      <4>1. CASE state.day \in 1..(today - 1)
        <5> DEFINE n == today - state.day
        <5>1. n \in Nat \ {0} /\ state.day \in Nat
          BY <4>1 DEF Typed, Sound, States
        <5>2. Missing = [i \in 1..n |-> state.day + i]
          BY <4>1 DEF Missing
        <5>3. Missing \in [1..n -> Nat \ {0}]
          BY <5>1, <5>2
        <5>4. Missing \in Seq(Nat \ {0}) /\ Len(Missing) = n
          BY <5>1, <5>3, SeqDef, LenProperties
        <5> QED
          BY <5>1, <5>4
      <4>2. CASE state.day \notin 1..(today - 1)
        <5>1. Missing = <<today>> /\ today \in Nat \ {0}
          BY <2>1, <4>2 DEF Missing, Start, Typed
        <5> QED
          BY <5>1
      <4> QED
        BY <4>1, <4>2
    <3> QED
      BY <1>1, <2>1, <3>1 DEF Typed, Start, Sound, files
  <2>2. CASE AlreadyProcessed
    <3>1. todo # <<>>
      BY <2>2 DEF Typed, AlreadyProcessed
    <3>2. Tail(todo) \in Seq(Nat \ {0}) /\ (Len(todo) # 1 => Tail(todo) # <<>>)
      BY <3>1, TodoShrinks DEF Typed
    <3> QED
      BY <1>1, <2>2, <3>1, <3>2 DEF AlreadyProcessed, NextDecision, Typed, Sound, files
  <2>3. CASE DayCompletes
    BY <1>1, <2>3 DEF DayCompletes, Typed, Sound, files
  <2>4. CASE NothingPending
    BY <1>1, <2>4 DEF NothingPending, Typed, Sound, files
  <2>5. CASE RefuseGap
    BY <1>1, <2>5, EmptySeq DEF RefuseGap, Stop, Typed, Sound, files
  <2>6. CASE Fail
    BY <1>1, <2>6, EmptySeq DEF Fail, Stop, Typed, Sound, files
  <2>7. CASE UNCHANGED paperVars
    BY <2>7 DEF paperVars, Typed, Sound, files
  <2> QED
    BY <2>1, <2>2, <2>3, <2>4, <2>5, <2>6, <2>7
<1>4. AtPoint'
  <2>1. \/ pc' \in {"idle", "recover"}
        \/ pc' = "decide" /\ pending = <<>>
        \/ pc' = pc
    <3>1. AlreadyProcessed => pc' \in {"idle", "recover"}
      BY DEF AlreadyProcessed, NextDecision
    <3>2. DayCompletes \/ UNCHANGED paperVars => pc' = pc
      BY DEF DayCompletes, paperVars
    <3>3. Start => pc' = "recover"
      BY DEF Start
    <3>4. NothingPending => pc' = "decide" /\ pending = <<>>
      BY DEF NothingPending
    <3>5. RefuseGap \/ Fail => pc' = "idle"
      BY DEF RefuseGap, Fail, Stop
    <3> QED
      BY <3>1, <3>2, <3>3, <3>4, <3>5
  <2>2. Announced' = Announced /\ AuditContains(Announced)' = AuditContains(Announced)
    BY <1>1, BookUnchanged DEF files
  <2> QED
    BY <1>1, <2>1, <2>2 DEF AtPoint, Recovering, Deciding, files
<1> QED
  BY <1>2, <1>3, <1>4

(* A recovery, and the state file of a decision.                           *)
LEMMA StateSteps ==
  ASSUME PaperInv, RepairTail \/ ReplayState \/ SaveState
  PROVE  PaperInv' /\ Book' = Book
<1> USE DEF PaperInv
<1>1. pending # <<>> /\ UNCHANGED <<audit, pending, today, todo, faults>>
  BY DEF RepairTail, Repaired, ReplayState, SaveState, AtPoint, Recovering, Deciding
<1>2. BookHolds' /\ Book' = Book
  BY <1>1, BookHoldsStays
<1>3. Announced \in SoundRecords /\ Announced' = Announced
      /\ AuditContains(Announced)' = AuditContains(Announced)
  BY <1>1, BookCases, BookUnchanged
<1>4. Typed'
  <2>1. Sound(state')
    BY <1>3, SoundRecordsAre DEF RepairTail, ReplayState, SaveState, Typed
  <2>2. pc' \in Recovering \cup Deciding /\ pc # "idle"
    BY DEF RepairTail, ReplayState, SaveState, Recovering, Deciding
  <2>3. tail' \in {"none", "partial", "unterminated"}
    BY DEF RepairTail, Repaired, ReplayState, SaveState, Typed
  <2> QED
    BY <1>1, <2>1, <2>2, <2>3 DEF Typed
<1>5. AtPoint'
  BY <1>1, <1>3 DEF RepairTail, Repaired, ReplayState, SaveState, AtPoint, Recovering, Deciding
<1> QED
  BY <1>2, <1>4, <1>5

(* The record is appended, whole or torn; the book had it already.         *)
LEMMA AuditSteps ==
  ASSUME PaperInv, AppendAudit \/ Tear
  PROVE  PaperInv' /\ Book' = Book
<1> USE DEF PaperInv
<1>1. pending # <<>> /\ UNCHANGED <<today, state, pending>> /\ Announced' = Announced
  BY DEF AppendAudit, Tear, AtPoint, Recovering, Deciding, Announced
<1>2. Book \in Seq(SoundRecords) /\ Book # <<>> /\ Book[Len(Book)] = Announced
  BY <1>1, BookCases DEF BookHolds
<1>3. \/ audit' = Book
      \/ audit' = audit /\ ~AuditContains(Announced)
  BY <1>1, BookCases DEF AppendAudit, Tear
<1>4. Book' = Book
  <2>1. CASE audit' = Book
    <3>1. Len(Book) \in 1..Len(Book)
      BY <1>2, LenProperties, EmptySeq
    <3>2. AuditContains(Announced)'
      BY <1>1, <1>2, <2>1, <3>1 DEF AuditContains
    <3> QED
      BY <1>1, <2>1, <3>2 DEF Book
  <2>2. CASE audit' = audit
    BY <1>1, <2>2, BookUnchanged
  <2> QED
    BY <1>3, <2>1, <2>2
<1>5. BookHolds'
  <2>1. Chained(Book)' /\ Rising(Book)'
    BY <1>4 DEF BookHolds, Chained, Rising, Before, FollowsFrom
  <2> QED
    BY <1>1, <1>2, <1>4, <2>1 DEF BookHolds
<1>6. Typed'
  <2>1. audit' \in Seq(SoundRecords)
    BY <1>2, <1>3 DEF Typed
  <2>2. CASE AppendAudit
    BY <1>1, <2>1, <2>2 DEF Typed, Sound, AppendAudit, Recovering, Deciding
  <2>3. CASE Tear
    <3>1. pc' = "idle" /\ todo' = <<>> /\ faults' = faults + 1
          /\ tail' \in {"none", "partial", "unterminated"}
      BY <2>3 DEF Tear, Stop
    <3>2. todo' \in Seq(Nat \ {0})
      BY <3>1, EmptySeq
    <3> QED
      BY <1>1, <2>1, <3>1, <3>2 DEF Typed, Sound
  <2> QED
    BY <2>2, <2>3
<1>7. AtPoint'
  <2>1. CASE AppendAudit
    <3>1. AuditContains(Announced)'
      <4>1. CASE AuditContains(Announced)
        BY <1>1, <2>1, <4>1 DEF AppendAudit, AuditContains
      <4>2. CASE ~AuditContains(Announced)
        <5>1. audit' = Book
          BY <1>1, <2>1, <4>2, BookCases DEF AppendAudit
        <5> QED
          BY <1>1, <1>2, <5>1, LenProperties, EmptySeq DEF AuditContains
      <4> QED
        BY <4>1, <4>2
    <3> QED
      BY <1>1, <2>1, <3>1 DEF AppendAudit, AtPoint, Recovering, Deciding
  <2>2. CASE Tear
    BY <2>2 DEF Tear, Stop, AtPoint, Recovering, Deciding
  <2> QED
    BY <2>1, <2>2
<1> QED
  BY <1>4, <1>5, <1>6, <1>7

(* The transaction is dropped when the audit has its record.               *)
LEMMA UnlinkSteps ==
  ASSUME PaperInv, Unlink \/ ReplayUnlink
  PROVE  PaperInv' /\ Book' = Book
<1> USE DEF PaperInv
<1>1. /\ pending # <<>> /\ AuditContains(Announced) /\ state = Announced.after
      /\ tail = "none" /\ pending' = <<>> /\ UNCHANGED <<today, state, audit, tail, faults>>
  BY DEF Unlink, ReplayUnlink, AtPoint, Recovering, Deciding
<1>2. Book = audit /\ Book' = Book
  BY <1>1, BookCases DEF Book
<1>3. BookHolds'
  <2>1. Chained(Book)' /\ Rising(Book)'
    BY <1>2 DEF BookHolds, Chained, Rising, Before, FollowsFrom
  <2>2. state = LastOf(Book)
    BY <1>1 DEF BookHolds, LastOf
  <2>3. LastOf(Book)' = LastOf(Book)
    BY <1>2 DEF LastOf
  <2> QED
    BY <1>1, <2>1, <2>2, <2>3 DEF BookHolds
<1>4. Typed'
  <2>1. /\ todo' \in Seq(Nat \ {0}) /\ pc' \in {"idle", "recover", "decide"}
        /\ pc' # "idle" => todo' # <<>>
    <3>1. todo # <<>>
      BY DEF Typed, Unlink, ReplayUnlink
    <3>2. Tail(todo) \in Seq(Nat \ {0}) /\ (Len(todo) # 1 => Tail(todo) # <<>>)
      BY <3>1, TodoShrinks DEF Typed
    <3>3. CASE Unlink
      BY <3>1, <3>2, <3>3 DEF Unlink, NextDecision
    <3>4. CASE ReplayUnlink
      BY <3>1, <3>4 DEF ReplayUnlink, Typed
    <3> QED
      BY <3>3, <3>4
  <2> QED
    BY <1>1, <2>1 DEF Typed, Sound
<1>5. AtPoint'
  BY <1>1 DEF Unlink, ReplayUnlink, NextDecision, AtPoint, Recovering, Deciding
<1> QED
  BY <1>2, <1>3, <1>4, <1>5

(* A decision is the next page of the book.                                *)
Extends(r) ==
  /\ r \in SoundRecords
  /\ Book # <<>> => r.after.day = LastOf(Book).day + 1
  /\ Book' = Append(Book, r)

LEMMA DecideStep ==
  ASSUME PaperInv, NEW want \in Positions, NEW price \in Price, Decide(want, price)
  PROVE  PaperInv' /\ \E r \in SoundRecords : Extends(r)
<1> USE DEF PaperInv
<1> DEFINE r == Record(state, todo[1], want, price)
<1>1. pending = <<>> /\ tail = "none" /\ Book = audit /\ state = LastOf(Book)
      /\ pending' = <<r>> /\ UNCHANGED <<today, state, audit, tail, todo, faults>> /\ pc' = "state"
  BY BookCases DEF Decide, AtPoint, BookHolds
<1>2. todo # <<>> /\ todo[1] \in Nat \ {0}
  BY ElementOfSeq, LenProperties, EmptySeq DEF Typed, Decide
<1>3. r \in SoundRecords /\ r.after.day = todo[1] /\ FollowsFrom(state, r)
  BY <1>2, RecordIsSound DEF Typed
<1> HIDE DEF r
<1>4. Book \in Seq(SoundRecords) /\ Chained(Book) /\ Rising(Book)
  BY BookCases DEF BookHolds
<1>5. Book # <<>> => r.after.day = LastOf(Book).day + 1
  BY <1>1, <1>3, <1>4, EndIsSound DEF Decide, Follows
<1>6. /\ Append(Book, r) \in Seq(SoundRecords)
      /\ Chained(Append(Book, r)) /\ Rising(Append(Book, r))
      /\ LastOf(Append(Book, r)) = r.after
      /\ ~\E i \in 1..Len(Book) : Book[i] = r
  BY <1>1, <1>3, <1>4, <1>5, BookExtends
<1>7. Announced' = r /\ pending' # <<>>
  BY <1>1, <1>3 DEF Announced
<1>8. Book' = Append(Book, r)
  BY <1>1, <1>6, <1>7 DEF Book, AuditContains
<1>9. BookHolds'
  <2>1. Chained(Book)' /\ Rising(Book)'
    BY <1>6, <1>8 DEF Chained, Rising, Before, FollowsFrom
  <2>2. Book' # <<>> /\ Book'[Len(Book')] = r
    BY <1>3, <1>4, <1>8, AppendProperties
  <2> QED
    BY <1>7, <2>1, <2>2 DEF BookHolds
<1>10. Typed'
  BY <1>1, <1>2, <1>3 DEF Typed, Sound, Deciding
<1>11. AtPoint'
  BY <1>1, <1>7 DEF AtPoint, Recovering, Deciding
<1> QED
  BY <1>3, <1>5, <1>8, <1>9, <1>10, <1>11 DEF Extends

LEMMA InvStep ==
  ASSUME PaperInv, [PaperNext]_paperVars
  PROVE  PaperInv' /\ (Book' = Book \/ \E r \in SoundRecords : Extends(r))
BY QuietSteps, StateSteps, AuditSteps, UnlinkSteps, DecideStep DEF PaperNext, RunStep

(* The invariant holds in every reachable state.                           *)
THEOREM PaperInvIsInvariant == PaperSpec => []PaperInv
<1>1. PaperInv /\ [PaperNext]_paperVars => PaperInv'
  BY InvStep
<1> QED
  BY InvAtStart, <1>1, PTL DEF PaperSpec

(* The files of the paper trader have the shape their readers expect.      *)
THEOREM PaperTypeCorrect == PaperSpec => []PaperTypeOK
<1>1. PaperInv => PaperTypeOK
  <2> SUFFICES ASSUME PaperInv PROVE PaperTypeOK
    OBVIOUS
  <2> USE DEF PaperInv, Typed
  <2>1. audit \in Seq(Records)
    BY SeqMonotonic DEF SoundRecords
  <2>2. pending \in Seq(Records) /\ Len(pending) <= 1
    <3>1. CASE pending = <<>>
      BY <3>1, EmptySeq
    <3>2. CASE pending # <<>>
      <4>1. PICK r \in SoundRecords : pending = <<r>>
        BY <3>2
      <4> QED
        BY <4>1 DEF SoundRecords
    <3> QED
      BY <3>1, <3>2
  <2>3. todo \in Seq(Nat)
    BY SeqMonotonic
  <2> QED
    BY <2>1, <2>2, <2>3 DEF PaperTypeOK, Sound, Recovering, Deciding
<1> QED
  BY PaperInvIsInvariant, <1>1, PTL

(* Whenever no transaction is pending the audit is whole, every record     *)
(* passes the audit's own computation of actions, fees, gains, positions   *)
(* and days from the first decision on, and the last one is the state file *)
(* (audit_evidence and verify_audit, but for the sums of the cash, which   *)
(* they may refuse), for every market, any amounts and any number of       *)
(* failures between or inside the file changes.                            *)
THEOREM AuditVerifies == PaperSpec => []VerifiesWhenSettled
<1>1. PaperInv => VerifiesWhenSettled
  <2> SUFFICES ASSUME PaperInv, pending = <<>>
               PROVE  tail = "none" /\ Replays /\ state = LastState
    BY DEF VerifiesWhenSettled
  <2>1. Book = audit /\ audit \in Seq(SoundRecords) /\ Chained(audit)
    BY BookCases DEF PaperInv, BookHolds
  <2>2. Replays
    <3> SUFFICES ASSUME NEW i \in 1..Len(audit)
                 PROVE  Verifies(StateBefore(i), audit[i])
      BY DEF Replays
    <3>1. audit[i] \in SoundRecords /\ FollowsFrom(StateBefore(i), audit[i])
      BY <2>1, ElementOfSeq DEF Chained, Before, StateBefore
    <3>2. CASE i = 1
      <4>1. StateBefore(i) = NoDecision /\ NoDecision.day = 0
        BY <3>2 DEF StateBefore, NoDecision
      <4> QED
        BY <3>1, <4>1, NothingDecided, RecordVerifies
    <3>3. CASE i # 1
      <4>1. i > 1 /\ i - 1 \in 1..Len(audit) /\ StateBefore(i) = audit[i - 1].after
        BY <2>1, <3>3, LenProperties DEF StateBefore
      <4>2. Sound(StateBefore(i))
        BY <2>1, <4>1, ElementOfSeq, SoundRecordsAre
      <4>3. audit[i].after.day = StateBefore(i).day + 1
        BY <2>1, <4>1 DEF Chained
      <4> QED
        BY <3>1, <4>2, <4>3, RecordVerifies
    <3> QED
      BY <3>2, <3>3
  <2> QED
    BY <2>1, <2>2 DEF PaperInv, BookHolds, LastOf, LastState
<1> QED
  BY PaperInvIsInvariant, <1>1, PTL

(* The book of decisions only grows, one day at a time: no crash takes a   *)
(* decision back, repeats it, changes it or skips a day                    *)
(* (_recover_pending: the announced decision is made, once).               *)
THEOREM BookOnlyGrows == PaperSpec => BookGrows
<1>1. PaperInv /\ [PaperNext]_paperVars =>
        [Book' # Book =>
           /\ Len(Book') = Len(Book) + 1
           /\ SubSeq(Book', 1, Len(Book)) = Book
           /\ Book # <<>> => Book'[Len(Book')].after.day = Book[Len(Book)].after.day + 1]_paperVars
  <2> SUFFICES ASSUME PaperInv, [PaperNext]_paperVars, Book' # Book
               PROVE  /\ Len(Book') = Len(Book) + 1
                      /\ SubSeq(Book', 1, Len(Book)) = Book
                      /\ Book # <<>> => Book'[Len(Book')].after.day = Book[Len(Book)].after.day + 1
    OBVIOUS
  <2>1. PICK r \in SoundRecords : Extends(r)
    BY InvStep
  <2>2. Book \in Seq(SoundRecords) /\ Len(Book) \in Nat
    BY BookCases, LenProperties DEF PaperInv
  <2> DEFINE b == Book
  <2>3. Book' = Append(b, r)
    BY <2>1 DEF Extends
  <2> HIDE DEF b
  <2>4. /\ Append(b, r) \in Seq(SoundRecords) /\ Len(Append(b, r)) = Len(b) + 1
        /\ \A i \in 1..Len(b) : Append(b, r)[i] = b[i]
        /\ Append(b, r)[Len(b) + 1] = r
    BY <2>2, AppendProperties DEF b
  <2>5. SubSeq(Append(b, r), 1, Len(b)) = b
    <3>1. b \in Seq(SoundRecords) /\ Len(b) \in Nat
      BY <2>2 DEF b
    <3>2. \A i \in 1..Len(b) : Append(b, r)[i] \in SoundRecords
      BY <2>4, <3>1, ElementOfSeq
    <3>3. /\ SubSeq(Append(b, r), 1, Len(b)) \in Seq(SoundRecords)
          /\ Len(SubSeq(Append(b, r), 1, Len(b))) = Len(b)
          /\ \A i \in 1..Len(b) : SubSeq(Append(b, r), 1, Len(b))[i] = b[i]
      BY <2>4, <3>1, <3>2, SubSeqProperties
    <3> QED
      BY <3>1, <3>3, SeqEqual
  <2> QED
    BY <2>1, <2>3, <2>4, <2>5 DEF Extends, LastOf, b
<1> QED
  BY PaperInvIsInvariant, <1>1, PTL DEF PaperSpec, BookGrows

=============================================================================
