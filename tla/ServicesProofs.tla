---------------------------- MODULE ServicesProofs ----------------------------
(***************************************************************************)
(* The market tools, and the composition of the eight services.             *)
(*                                                                         *)
(* A depth quote is best because the walk takes whole levels up to a pivot  *)
(* and nothing after it, and the side is ordered: any other way to take the *)
(* same volume moves some of it from before the pivot to after it, where it *)
(* is no better (WalkIsBest, with Exchange of FiniteSums).                  *)
(***************************************************************************)
EXTENDS MCServices, AccountProofs, HistoryProofs, FiniteSums, TLAPS
-------------------------------------------------------------------------------
(* The market tools. Reading keeps the order of a book and shows what it     *)
(* held, so that without a change between the calls asks and bids do not     *)
(* cross (MarketInv).                                                        *)

Climbs(book) == \A i, j \in 1..Len(book) : i <= j => book[i].price <= book[j].price
Falls(book) == \A i, j \in 1..Len(book) : i <= j => book[i].price >= book[j].price
Shows(levels, book) ==
  \A i \in 1..Len(levels) : \E j \in 1..Len(book) : levels[i] = book[j]

LedgerBooks ==
  /\ Len(sells) <= MaxOffers /\ Climbs(sells) /\ Len(buys) <= MaxOffers /\ Falls(buys)
  /\ Uncrossed(sells, buys)
  /\ want \in [amount : TradeAmounts, side : {"buy", "sell"}]
Reading == [step : {"asks", "bids", "pool", "answered", "failed"}, asks : Seq(Offer),
            bids : Seq(Offer), pool : Pool \cup {NoPool}]
SeenBooks ==
  /\ seen \in Reading
  /\ Len(seen.asks) <= MaxOffers /\ Climbs(seen.asks)
  /\ Len(seen.bids) <= MaxOffers /\ Falls(seen.bids)
  /\ shifts = 0 => Shows(seen.asks, sells) /\ Shows(seen.bids, buys)
MarketInv == MarketTypeOK /\ LedgerBooks /\ SeenBooks

\* What the ledger answers is ordered from end to end.
LEMMA BookOrder ==
  /\ \A b \in Book : b \in Seq(Offer) /\ Len(b) <= MaxOffers
  /\ \A b \in Rising : b \in Book /\ Climbs(b)
  /\ \A b \in Falling : b \in Book /\ Falls(b)
<1>1. ASSUME NEW b \in Book
      PROVE  /\ b \in Seq(Offer) /\ Len(b) \in Nat /\ Len(b) <= MaxOffers
             /\ \A i \in 1..Len(b) : b[i].price \in Int
  <2>1. PICK n \in 0..MaxOffers : b \in [1..n -> Offer] BY DEF Book
  <2>2. b \in Seq(Offer) /\ Len(b) = n /\ n \in Nat BY <2>1, MarketAssumption
  <2>3. ASSUME NEW i \in 1..Len(b) PROVE b[i].price \in Int
    <3>1. b[i] \in Offer BY <2>1, <2>2
    <3>2. b[i].price \in Prices BY <3>1 DEF Offer
    <3>3. Prices \subseteq Int BY MarketAssumption
    <3> QED BY <3>2, <3>3
  <2> QED BY <2>1, <2>2, <2>3, MarketAssumption
<1>2. ASSUME NEW b \in Rising PROVE b \in Book /\ Climbs(b)
  <2>1. b \in Book /\ \A i \in 1..(Len(b) - 1) : b[i].price <= b[i + 1].price
    BY DEF Rising
  <2> DEFINE n == Len(b)
             p == [i \in 1..n |-> b[i].price]
  <2>2. n \in Nat /\ \A i \in 1..n : p[i] \in Int BY <1>1, <2>1
  <2>3. \A i \in 1..(n - 1) : p[i] <= p[i + 1]
    <3>1. ASSUME NEW i \in 1..(n - 1) PROVE p[i] <= p[i + 1]
      <4>1. i \in 1..n /\ i + 1 \in 1..n BY <2>2
      <4> QED BY <2>1, <4>1
    <3> QED BY <3>1
  <2> HIDE DEF p
  <2>4. \A i, j \in 1..n : i <= j => p[i] <= p[j] BY <2>2, <2>3, Ascends
  <2> QED BY <2>1, <2>4 DEF Climbs, p
<1>3. ASSUME NEW b \in Falling PROVE b \in Book /\ Falls(b)
  <2>1. b \in Book /\ \A i \in 1..(Len(b) - 1) : b[i].price >= b[i + 1].price
    BY DEF Falling
  <2> DEFINE n == Len(b)
             p == [i \in 1..n |-> -b[i].price]
  <2>2. n \in Nat /\ \A i \in 1..n : p[i] \in Int BY <1>1, <2>1
  <2>3. \A i \in 1..(n - 1) : p[i] <= p[i + 1]
    <3>1. ASSUME NEW i \in 1..(n - 1) PROVE p[i] <= p[i + 1]
      <4>1. i \in 1..n /\ i + 1 \in 1..n BY <2>2
      <4>2. b[i].price \in Int /\ b[i + 1].price \in Int BY <1>1, <2>1, <4>1
      <4> QED BY <2>1, <4>1, <4>2
    <3> QED BY <3>1
  <2>4. \A i \in 1..n : p[i] = -b[i].price OBVIOUS
  <2> HIDE DEF p
  <2>5. \A i, j \in 1..n : i <= j => p[i] <= p[j] BY <2>2, <2>3, Ascends
  <2>6. ASSUME NEW i \in 1..n, NEW j \in 1..n, i <= j PROVE b[i].price >= b[j].price
    <3>1. b[i].price \in Int /\ b[j].price \in Int BY <1>1, <2>1
    <3>2. p[i] <= p[j] BY <2>5, <2>6
    <3> QED BY <2>4, <3>1, <3>2
  <2> QED BY <2>1, <2>6 DEF Falls
<1> QED BY <1>1, <1>2, <1>3

\* The loop over the offers keeps their order, and shows nothing else.
LEMMA LevelsKeepOrder ==
  ASSUME NEW book \in Seq(Offer)
  PROVE  /\ Levels(book) \in Seq(Offer) /\ Len(Levels(book)) <= Len(book)
         /\ \A i, k \in 1..Len(Levels(book)) : i <= k =>
              \E j, m \in 1..Len(book) :
                j <= m /\ Levels(book)[i] = book[j] /\ Levels(book)[k] = book[m]
<1> DEFINE n == Len(book)
           keep(i, s) == IF book[i].volume > 0 THEN Append(s, book[i]) ELSE s
           Table(g) == g = [i \in 0..n |-> IF i = 0 THEN <<>> ELSE keep(i, g[i - 1])]
           upTo == CHOOSE g : Table(g)
<1>1. n \in Nat /\ \A i \in 1..n : book[i] \in Offer OBVIOUS
<1>2. Levels(book) = upTo[n] BY DEF Levels
<1>3. \A i \in 1..n, s \in Seq(Offer) : keep(i, s) \in Seq(Offer) BY <1>1
<1>4. \A i \in 1..n, s \in Seq(Offer) :
        \/ keep(i, s) = s
        \/ keep(i, s) = Append(s, book[i])
  OBVIOUS
<1>5. <<>> \in Seq(Offer) OBVIOUS
<1> HIDE DEF n, keep, upTo
<1>6. \E g : Table(g)
  <2> DEFINE step == [i \in 1..n |-> [s \in Seq(Offer) |-> keep(i, s)]]
             S == Seq(Offer)
             base == <<>>
  <2>1. \A i \in 1..n, s \in S : step[i][s] \in S BY <1>3
  <2>2. \A i \in 1..n, s \in S : step[i][s] = keep(i, s) OBVIOUS
  <2>3. base \in S BY <1>5
  <2>4. Stepwise(n, S, base, step) BY <1>1, <2>1, <2>3 DEF Stepwise
  <2> HIDE DEF step, S, base
  <2>7. PICK g \in [0..n -> S] : g[0] = base /\ \A i \in 1..n : g[i] = step[i][g[i - 1]]
    BY <2>4, StepTable
  <2> USE DEF S
  <2>5. ASSUME NEW i \in 0..n
        PROVE  g[i] = IF i = 0 THEN base ELSE keep(i, g[i - 1])
    <3>1. CASE i = 0 BY <2>7, <3>1
    <3>2. CASE i # 0
      <4>1. i \in 1..n /\ i - 1 \in 0..n BY <1>1, <3>2
      <4> QED BY <2>2, <2>7, <3>2, <4>1
    <3> QED BY <3>1, <3>2
  <2>6. g = [i \in 0..n |-> IF i = 0 THEN base ELSE keep(i, g[i - 1])] BY <2>5, <2>7
  <2> QED BY <2>6 DEF base
<1>7. Table(upTo) BY <1>6 DEF upTo
<1>8. upTo[0] = <<>> /\ \A i \in 1..n : upTo[i] = keep(i, upTo[i - 1])
  <2>1. upTo = [i \in 0..n |-> IF i = 0 THEN <<>> ELSE keep(i, upTo[i - 1])] BY <1>7
  <2>2. 0 \in 0..n /\ \A i \in 1..n : i \in 0..n /\ i # 0 BY <1>1
  <2> QED BY <2>1, <2>2
<1> HIDE DEF Table
<1> DEFINE From(s, l) ==
             /\ s \in Seq(Offer) /\ Len(s) <= l
             /\ \A i, k \in 1..Len(s) : i <= k =>
                  \E j, m \in 1..l : j <= m /\ s[i] = book[j] /\ s[k] = book[m]
           P == {l \in 0..n : From(upTo[l], l)}
<1>9. 0 \in P
  <2>1. From(<<>>, 0) BY <1>5
  <2> HIDE DEF From
  <2> QED BY <1>1, <1>8, <2>1
<1>10. ASSUME NEW l \in 0..(n - 1), l \in P PROVE l + 1 \in P
  <2>1. PICK s : s = upTo[l] OBVIOUS
  <2>2. PICK t : t = upTo[l + 1] OBVIOUS
  <2>3. l + 1 \in 1..n /\ l \in Nat /\ (l + 1) - 1 = l BY <1>1
  <2>4. From(s, l) BY <1>10, <2>1
  <2>5. s \in Seq(Offer) /\ Len(s) \in Nat /\ Len(s) <= l BY <2>4
  <2>6. t = keep(l + 1, s) BY <1>8, <2>1, <2>2, <2>3
  <2>7. t = s \/ t = Append(s, book[l + 1]) BY <1>4, <2>3, <2>5, <2>6
  <2>8. CASE t = s
    <3>1. \A j \in 1..l : j \in 1..(l + 1) BY <2>3
    <3>2. From(t, l + 1) BY <2>3, <2>4, <2>5, <2>8, <3>1
    <3> HIDE DEF From
    <3> QED BY <2>2, <2>3, <3>2
  <2>9. CASE t = Append(s, book[l + 1])
    <3> DEFINE o == book[l + 1]
               z == Len(s) + 1
    <3>1. o \in Offer BY <1>1, <2>3
    <3>2. t \in Seq(Offer) /\ Len(t) = z /\ t[z] = o /\ \A i \in 1..Len(s) : t[i] = s[i]
      BY <2>5, <2>9, <3>1
    <3>3. ASSUME NEW i \in 1..z, NEW k \in 1..z, i <= k
          PROVE  \E j, m \in 1..(l + 1) : j <= m /\ t[i] = book[j] /\ t[k] = book[m]
      <4>1. CASE k # z
        <5>1. i \in 1..Len(s) /\ k \in 1..Len(s) BY <2>5, <3>3, <4>1
        <5>2. PICK j \in 1..l, m \in 1..l : j <= m /\ s[i] = book[j] /\ s[k] = book[m]
          BY <2>4, <3>3, <5>1
        <5>3. j \in 1..(l + 1) /\ m \in 1..(l + 1) BY <2>3
        <5> QED BY <3>2, <5>1, <5>2, <5>3
      <4>2. CASE k = z /\ i # z
        <5>1. i \in 1..Len(s) /\ i <= i BY <2>5, <3>3, <4>2
        <5>2. PICK j \in 1..l, m \in 1..l : j <= m /\ s[i] = book[j] /\ s[i] = book[m]
          BY <2>4, <5>1
        <5>3. j \in 1..(l + 1) /\ l + 1 \in 1..(l + 1) /\ j <= l + 1 BY <2>3
        <5> QED BY <3>2, <4>2, <5>1, <5>2, <5>3
      <4>3. CASE k = z /\ i = z
        <5>1. l + 1 \in 1..(l + 1) /\ l + 1 <= l + 1 BY <2>3
        <5> QED BY <3>2, <4>3, <5>1
      <4> QED BY <4>1, <4>2, <4>3
    <3>4. Len(t) <= l + 1 BY <2>3, <2>5, <3>2
    <3> HIDE DEF z
    <3>5. From(t, l + 1) BY <3>2, <3>3, <3>4
    <3> HIDE DEF From
    <3> QED BY <2>2, <2>3, <3>5
  <2> QED BY <2>7, <2>8, <2>9
<1> HIDE DEF P
<1>11. 0..n \subseteq P BY <1>1, <1>9, <1>10, Upward
<1>12. n \in P BY <1>1, <1>11
<1>13. From(upTo[n], n) BY <1>12 DEF P
<1> QED BY <1>2, <1>13 DEF n

\* What is left of an ordered book without its first offer is ordered.
LEMMA TailKeepsOrder ==
  ASSUME NEW b \in Seq(Offer), b # <<>>
  PROVE  /\ Tail(b) \in Seq(Offer) /\ Len(Tail(b)) <= Len(b)
         /\ Climbs(b) => Climbs(Tail(b))
         /\ Falls(b) => Falls(Tail(b))
         /\ \A i \in DOMAIN Tail(b) : \E j \in DOMAIN b : Tail(b)[i] = b[j]
<1> DEFINE t == Tail(b)
<1>1. /\ t \in Seq(Offer) /\ Len(t) = Len(b) - 1 /\ Len(b) \in Nat /\ Len(t) \in Nat
      /\ \A i \in 1..Len(t) : t[i] = b[i + 1] /\ i + 1 \in 1..Len(b)
      /\ DOMAIN t = 1..Len(t) /\ DOMAIN b = 1..Len(b)
  OBVIOUS
<1> HIDE DEF t
<1>2. ASSUME NEW i \in 1..Len(t), NEW j \in 1..Len(t), i <= j
      PROVE  /\ t[i] = b[i + 1] /\ t[j] = b[j + 1] /\ i + 1 <= j + 1
             /\ i + 1 \in 1..Len(b) /\ j + 1 \in 1..Len(b)
  BY <1>1, <1>2
<1>3. Climbs(b) => Climbs(t) BY <1>2 DEF Climbs
<1>4. Falls(b) => Falls(t) BY <1>2 DEF Falls
<1> QED BY <1>1, <1>3, <1>4 DEF t

\* What a tool reads of a book keeps the order and shows nothing but what the book held.
LEMMA LevelsShow ==
  ASSUME NEW b \in Seq(Offer)
  PROVE  /\ Levels(b) \in Seq(Offer) /\ Len(Levels(b)) <= Len(b)
         /\ Climbs(b) => Climbs(Levels(b))
         /\ Falls(b) => Falls(Levels(b))
         /\ Shows(Levels(b), b)
<1> DEFINE l == Levels(b)
<1>2. /\ l \in Seq(Offer) /\ Len(l) <= Len(b)
      /\ \A i, k \in 1..Len(l) : i <= k =>
           \E j, m \in 1..Len(b) : j <= m /\ l[i] = b[j] /\ l[k] = b[m]
  BY LevelsKeepOrder
<1> HIDE DEF l
<1>3. Climbs(b) => Climbs(l) BY <1>2 DEF Climbs
<1>4. Falls(b) => Falls(l) BY <1>2 DEF Falls
<1>5. Shows(l, b)
  <2>1. ASSUME NEW i \in 1..Len(l) PROVE \E j \in 1..Len(b) : l[i] = b[j]
    <3>1. i <= i OBVIOUS
    <3> QED BY <1>2, <3>1
  <2> QED BY <2>1 DEF Shows
<1> QED BY <1>2, <1>3, <1>4, <1>5 DEF l

\* A book with nothing in it.
LEMMA NoOffers ==
  /\ <<>> \in Seq(Offer) /\ Len(<<>>) = 0 /\ Climbs(<<>>) /\ Falls(<<>>)
  /\ \A b : Shows(<<>>, b)
BY DEF Climbs, Falls, Shows

\* Neither does an answer without offers.
LEMMA HeardShows ==
  ASSUME NEW b \in Seq(Offer), Len(b) <= MaxOffers, NEW l \in Heard(b)
  PROVE  /\ l \in Seq(Offer) /\ Len(l) \in Nat /\ Len(l) <= MaxOffers
         /\ Climbs(b) => Climbs(l)
         /\ Falls(b) => Falls(l)
         /\ Shows(l, b)
<1>1. CASE l = Levels(b)
  <2>1. l \in Seq(Offer) /\ Len(l) <= Len(b) BY <1>1, LevelsShow
  <2>2. Len(l) \in Nat /\ Len(b) \in Nat /\ MaxOffers \in Nat BY <2>1, MarketAssumption
  <2> QED BY <1>1, <2>1, <2>2, LevelsShow
<1>2. CASE l = <<>> BY <1>2, NoOffers, MarketAssumption
<1> QED BY <1>1, <1>2 DEF Heard

\* The market tools start within the invariant.
LEMMA MarketInitInv == MarketInit => MarketInv
<1> SUFFICES ASSUME MarketInit PROVE MarketInv OBVIOUS
<1> USE MarketAssumption
<1>1. LedgerBooks /\ sells \in Seq(Offer) /\ buys \in Seq(Offer)
  BY BookOrder DEF MarketInit, LedgerBooks
<1>2. /\ seen.step = "asks" /\ seen.asks = <<>> /\ seen.bids = <<>>
      /\ seen = [step |-> "asks", asks |-> <<>>, bids |-> <<>>, pool |-> pool]
      /\ pool \in Pool
  BY DEF MarketInit
<1>3. MarketTypeOK BY <1>1, <1>2 DEF MarketInit, MarketTypeOK
<1>4. seen \in Reading
  BY <1>2, NoOffers DEF Reading
<1>5. SeenBooks BY <1>2, <1>4, NoOffers DEF SeenBooks
<1> QED BY <1>1, <1>3, <1>5 DEF MarketInv

\* A change of the market and each read keep it.
LEMMA MarketStep == MarketInv /\ [MarketNext]_marketVars => MarketInv'
<1> SUFFICES ASSUME MarketInv, [MarketNext]_marketVars PROVE MarketInv' OBVIOUS
<1> USE MarketAssumption
<1>0. /\ sells \in Seq(Offer) /\ Len(sells) <= MaxOffers /\ Climbs(sells)
      /\ buys \in Seq(Offer) /\ Len(buys) <= MaxOffers /\ Falls(buys)
      /\ Uncrossed(sells, buys) /\ Len(sells) \in Nat /\ Len(buys) \in Nat
      /\ pool \in Pool /\ shifts \in 0..MaxShifts
      /\ seen \in Reading
  BY DEF MarketInv, MarketTypeOK, LedgerBooks, SeenBooks, Reading
<1>1. CASE Shift
  <2>1. UNCHANGED <<pool, want, seen>> /\ shifts' = shifts + 1 /\ shifts < MaxShifts
    BY <1>1 DEF Shift
  <2>2. shifts' \in 0..MaxShifts /\ shifts' # 0 BY <1>0, <2>1
  <2>3. /\ sells' \in Seq(Offer) /\ Len(sells') <= MaxOffers /\ Climbs(sells')
        /\ buys' \in Seq(Offer) /\ Len(buys') <= MaxOffers /\ Falls(buys')
        /\ Uncrossed(sells', buys')
    <3>1. CASE sells # <<>> /\ sells' = Tail(sells) /\ UNCHANGED buys
      <4>1. PICK t : t = Tail(sells) OBVIOUS
      <4>2. /\ t \in Seq(Offer) /\ Len(t) \in Nat /\ Len(t) <= Len(sells) /\ Climbs(t)
            /\ \A i \in DOMAIN t : \E j \in DOMAIN sells : t[i] = sells[j]
        BY <1>0, <3>1, <4>1, TailKeepsOrder
      <4>3. Uncrossed(t, buys) BY <1>0, <4>2 DEF Uncrossed
      <4>4. sells' = t /\ buys' = buys BY <3>1, <4>1
      <4> QED BY <1>0, <4>2, <4>3, <4>4
    <3>2. CASE buys # <<>> /\ buys' = Tail(buys) /\ UNCHANGED sells
      <4>1. PICK t : t = Tail(buys) OBVIOUS
      <4>2. /\ t \in Seq(Offer) /\ Len(t) \in Nat /\ Len(t) <= Len(buys) /\ Falls(t)
            /\ \A i \in DOMAIN t : \E j \in DOMAIN buys : t[i] = buys[j]
        BY <1>0, <3>2, <4>1, TailKeepsOrder
      <4>3. Uncrossed(sells, t) BY <1>0, <4>2 DEF Uncrossed
      <4>4. buys' = t /\ sells' = sells BY <3>2, <4>1
      <4> QED BY <1>0, <4>2, <4>3, <4>4
    <3>3. CASE buys' \in Falling /\ Uncrossed(sells, buys') /\ UNCHANGED sells
      <4>1. PICK t : t = buys' OBVIOUS
      <4>2. t \in Falling /\ Uncrossed(sells, t) BY <3>3, <4>1
      <4>3. t \in Seq(Offer) /\ Len(t) <= MaxOffers /\ Falls(t) BY <4>2, BookOrder
      <4>4. buys' = t /\ sells' = sells BY <3>3, <4>1
      <4> QED BY <1>0, <4>2, <4>3, <4>4
    <3> QED BY <1>1, <3>1, <3>2, <3>3 DEF Shift
  <2>4. MarketTypeOK' BY <1>0, <2>1, <2>2, <2>3 DEF MarketTypeOK, Reading
  <2>5. LedgerBooks' BY <2>1, <2>3 DEF MarketInv, LedgerBooks
  <2>6. SeenBooks' BY <2>1, <2>2 DEF MarketInv, SeenBooks, Reading
  <2> QED BY <2>4, <2>5, <2>6 DEF MarketInv
<1>2. CASE ReadAsks
  <2>1. UNCHANGED <<sells, buys, pool, shifts, want>> BY <1>2 DEF ReadAsks
  <2>2. PICK l \in Heard(sells) : seen' = [seen EXCEPT !.step = "bids", !.asks = l]
    BY <1>2 DEF ReadAsks
  <2>3. /\ l \in Seq(Offer) /\ Len(l) \in Nat /\ Len(l) <= MaxOffers /\ Climbs(l)
        /\ Shows(l, sells)
    BY <1>0, HeardShows
  <2>4. /\ seen'.step = "bids" /\ seen'.asks = l /\ seen'.bids = seen.bids
        /\ seen' \in Reading
    BY <1>0, <2>2, <2>3 DEF Reading
  <2>5. MarketTypeOK' BY <1>0, <2>1, <2>4 DEF MarketTypeOK
  <2>6. LedgerBooks' BY <2>1 DEF MarketInv, LedgerBooks
  <2>7. SeenBooks' BY <2>1, <2>3, <2>4 DEF MarketInv, SeenBooks, Reading
  <2> QED BY <2>5, <2>6, <2>7 DEF MarketInv
<1>3. CASE ReadBids
  <2>1. UNCHANGED <<sells, buys, pool, shifts, want>> BY <1>3 DEF ReadBids
  <2>2. PICK l \in Heard(buys) : seen' = [seen EXCEPT !.step = "pool", !.bids = l]
    BY <1>3 DEF ReadBids
  <2>3. /\ l \in Seq(Offer) /\ Len(l) \in Nat /\ Len(l) <= MaxOffers /\ Falls(l)
        /\ Shows(l, buys)
    BY <1>0, HeardShows
  <2>4. /\ seen'.step = "pool" /\ seen'.bids = l /\ seen'.asks = seen.asks
        /\ seen' \in Reading
    BY <1>0, <2>2, <2>3 DEF Reading
  <2>5. MarketTypeOK' BY <1>0, <2>1, <2>4 DEF MarketTypeOK
  <2>6. LedgerBooks' BY <2>1 DEF MarketInv, LedgerBooks
  <2>7. SeenBooks' BY <2>1, <2>3, <2>4 DEF MarketInv, SeenBooks, Reading
  <2> QED BY <2>5, <2>6, <2>7 DEF MarketInv
<1>4. CASE ReadPool \/ BookFails
  <2>1. UNCHANGED <<sells, buys, pool, shifts, want>> BY <1>4 DEF ReadPool, BookFails
  <2>2. /\ seen'.step \in {"answered", "failed"} /\ seen'.asks = seen.asks
        /\ seen'.bids = seen.bids /\ seen' \in Reading
    <3>1. CASE BookFails BY <1>0, <3>1 DEF BookFails, Reading
    <3>2. CASE ReadPool
      <4>1. PICK read \in {pool, NoPool} :
              seen' = [seen EXCEPT !.step = "answered", !.pool = read]
        BY <3>2 DEF ReadPool
      <4>2. read \in Pool \cup {NoPool} BY <1>0
      <4> QED BY <1>0, <4>1, <4>2 DEF Reading
    <3> QED BY <1>4, <3>1, <3>2
  <2>3. MarketTypeOK' BY <1>0, <2>1, <2>2 DEF MarketTypeOK
  <2>4. LedgerBooks' BY <2>1 DEF MarketInv, LedgerBooks
  <2>5. SeenBooks' BY <2>1, <2>2 DEF MarketInv, SeenBooks, Reading
  <2> QED BY <2>3, <2>4, <2>5 DEF MarketInv
<1>5. CASE UNCHANGED marketVars
  BY <1>5 DEF MarketInv, MarketTypeOK, LedgerBooks, SeenBooks, marketVars
<1> QED BY <1>1, <1>2, <1>3, <1>4, <1>5 DEF MarketNext

\* The books stay in order at every step of the market tools.
LEMMA MarketInvariance == MarketSpec => []MarketInv
<1>1. MarketInit => MarketInv BY MarketInitInv
<1>2. MarketInv /\ [MarketNext]_marketVars => MarketInv' BY MarketStep
<1> QED BY <1>1, <1>2, PTL DEF MarketSpec

\* The best prices are prices of offers that were read.
LEMMA BestPrices ==
  ASSUME MarketInv
  PROVE  /\ seen.bids # <<>> => /\ BestBid \in Nat
                                /\ \E i \in 1..Len(seen.bids) : BestBid = seen.bids[i].price
         /\ seen.asks # <<>> => /\ BestAsk \in Nat
                                /\ \E i \in 1..Len(seen.asks) : BestAsk = seen.asks[i].price
<1> USE MarketAssumption
<1>1. /\ seen.asks \in Seq(Offer) /\ Climbs(seen.asks)
      /\ seen.bids \in Seq(Offer) /\ Falls(seen.bids)
  BY DEF MarketInv, SeenBooks, Reading
<1>2. ASSUME NEW b \in Seq(Offer), NEW i \in 1..Len(b) PROVE b[i].price \in Nat
  <2>1. b[i] \in Offer OBVIOUS
  <2>2. b[i].price \in Prices /\ Prices \subseteq Nat BY <2>1 DEF Offer
  <2> QED BY <2>2
<1>3. ASSUME seen.bids # <<>>
      PROVE  /\ BestBid \in Nat
             /\ \E i \in 1..Len(seen.bids) : BestBid = seen.bids[i].price
  <2> DEFINE b == seen.bids
             S == {b[i].price : i \in DOMAIN b}
  <2>1. 1 \in 1..Len(b) /\ DOMAIN b = 1..Len(b) /\ \A i \in 1..Len(b) : 1 <= i
    BY <1>1, <1>3
  <2>2. b[1].price \in S /\ \A y \in S : b[1].price >= y BY <1>1, <2>1 DEF Falls
  <2>3. Max(S) \in S BY <2>2 DEF Max
  <2>4. BestBid = Max(S) BY DEF BestBid
  <2> QED BY <1>1, <1>2, <2>1, <2>3, <2>4
<1>4. ASSUME seen.asks # <<>>
      PROVE  /\ BestAsk \in Nat
             /\ \E i \in 1..Len(seen.asks) : BestAsk = seen.asks[i].price
  <2> DEFINE b == seen.asks
             S == {b[i].price : i \in DOMAIN b}
  <2>1. 1 \in 1..Len(b) /\ DOMAIN b = 1..Len(b) /\ \A i \in 1..Len(b) : 1 <= i
    BY <1>1, <1>4
  <2>2. b[1].price \in S /\ \A y \in S : b[1].price <= y BY <1>1, <2>1 DEF Climbs
  <2>3. Min(S) \in S BY <2>2 DEF Min
  <2>4. BestAsk = Min(S) BY DEF BestAsk
  <2> QED BY <1>1, <1>2, <2>1, <2>3, <2>4
<1> QED BY <1>3, <1>4

\* A gain on the margin outweighs a fixed cost c once the trade is divided finely enough.
LEMMA SmallTrade ==
  ASSUME NEW x \in Int, NEW y \in Int, NEW c \in Nat, NEW g \in Nat, g > c
  PROVE  x > y <=> g * x - c > g * y
<1> DEFINE d == x - y
<1>1. g * x - g * y = g * d OBVIOUS
<1>2. g * x \in Int /\ g * y \in Int /\ g * d \in Int /\ d \in Int OBVIOUS
<1>3. CASE d >= 1
  <2>1. g * d >= g BY <1>2, <1>3
  <2> QED BY <1>1, <1>2, <1>3, <2>1
<1>4. CASE d <= 0
  <2>1. g * d <= 0 BY <1>2, <1>4
  <2> QED BY <1>1, <1>2, <1>4, <2>1
<1> QED BY <1>2, <1>3, <1>4

\* The grain of a price is fine enough.
LEMMA FineGrain ==
  ASSUME NEW p \in Nat, NEW F \in Nat, NEW N \in Nat, N <= F
  PROVE  p * F + 1 \in Nat /\ p * N \in Nat /\ p * F + 1 > p * N
<1>1. p * N <= p * F OBVIOUS
<1>2. p * F \in Nat /\ p * N \in Nat OBVIOUS
<1> QED BY <1>1, <1>2

\* When the pool is above the bids and below the asks at once, the books have crossed.
LEMMA BothPay ==
  ASSUME NEW B \in Nat, NEW A \in Nat, NEW b \in Nat, NEW q \in Nat, NEW F \in Nat,
         NEW N \in Nat, N <= F, B * b * N > q * F, q * N > A * b * F
  PROVE  B > A
<1> DEFINE m == b * N
<1>1. q * N <= q * F OBVIOUS
<1>2. A * m <= A * b * F
  <2>1. b * N <= b * F OBVIOUS
  <2>2. PICK k \in Nat, l \in Nat : k = b * N /\ l = b * F OBVIOUS
  <2>3. A * k <= A * l BY <2>1, <2>2
  <2>4. A * l = A * b * F /\ A * k = A * m BY <2>2
  <2> QED BY <2>3, <2>4
<1>3. B * m = B * b * N OBVIOUS
<1>4. m \in Nat /\ q * N \in Nat /\ q * F \in Nat /\ A * b * F \in Nat OBVIOUS
<1> HIDE DEF m
<1>5. B * m \in Nat /\ A * m \in Nat BY <1>4
<1>6. B * m > A * m
  <2>1. B * m > q * F BY <1>3
  <2> QED BY <2>1, <1>1, <1>2, <1>4, <1>5
<1>7. B <= A => B * m <= A * m BY <1>4
<1> QED BY <1>5, <1>6, <1>7

\* The scanner of arbitrage reports what pays.
LEMMA ReportsWhatPays == MarketInv => ArbitrageIsReal
<1> SUFFICES ASSUME MarketInv, seen.step = "answered", Pooled
             PROVE  /\ Strategy = "BUY_AMM_SELL_CLOB" <=> BuyPays
                    /\ Strategy = "BUY_CLOB_SELL_AMM" <=> SellPays /\ ~BuyPays
                    /\ BuyPays /\ SellPays => shifts > 0
  BY DEF ArbitrageIsReal, Strategy, BuyAmmSellClob, BuyClobSellAmm
<1> USE MarketAssumption
<1>1. PICK b \in Nat, q \in Nat, fee0 \in Nat :
        b = seen.pool.base /\ q = seen.pool.quote /\ fee0 = seen.pool.fee /\ fee0 < FeeUnit
  <2>1. seen.pool \in Pool BY DEF MarketInv, SeenBooks, Reading, Pooled, NoPool
  <2>2. /\ seen.pool.base \in Reserves /\ seen.pool.quote \in Reserves
        /\ seen.pool.fee \in Fees
    BY <2>1 DEF Pool
  <2>3. Reserves \subseteq Nat /\ Fees \subseteq 0..(FeeUnit - 1) /\ FeeUnit \in Nat
    OBVIOUS
  <2>4. /\ seen.pool.base \in Nat /\ seen.pool.quote \in Nat
        /\ seen.pool.fee \in 0..(FeeUnit - 1)
    BY <2>2, <2>3
  <2>5. seen.pool.fee \in Nat /\ seen.pool.fee < FeeUnit BY <2>3, <2>4
  <2> QED BY <2>4, <2>5
<1>2. PICK N \in Nat : N = NetFee /\ N <= FeeUnit BY <1>1 DEF NetFee
<1>3. BuyAmmSellClob <=> BuyPays
  <2>1. CASE seen.bids = <<>> BY <2>1 DEF BuyAmmSellClob, BuyPays
  <2>2. CASE seen.bids # <<>>
    <3>1. PICK B \in Nat : B = BestBid BY <2>2, BestPrices
    <3>2. PICK g \in Nat : g = Grain(B) /\ g > B * N /\ B * N \in Nat
      BY <1>2, FineGrain DEF Grain
    <3>3. B * b * N \in Int /\ q * FeeUnit \in Int OBVIOUS
    <3>4. B * b * N > q * FeeUnit <=> g * (B * b * N) - B * N > g * (q * FeeUnit)
      BY <3>2, <3>3, SmallTrade
    <3>5. g * (B * b * N) - B * N = B * (g * b - 1) * N OBVIOUS
    <3>6. g * (q * FeeUnit) = q * g * FeeUnit OBVIOUS
    <3>7. BuyAmmSellClob <=> B * b * N > q * FeeUnit
      BY <1>1, <1>2, <2>2, <3>1 DEF BuyAmmSellClob, Pooled
    <3>8. BuyPays <=> B * (g * b - 1) * N > q * g * FeeUnit
      BY <1>1, <1>2, <2>2, <3>1, <3>2 DEF BuyPays
    <3> QED BY <3>4, <3>5, <3>6, <3>7, <3>8
  <2> QED BY <2>1, <2>2
<1>4. BuyClobSellAmm <=> SellPays
  <2>1. CASE seen.asks = <<>> BY <2>1 DEF BuyClobSellAmm, SellPays
  <2>2. CASE seen.asks # <<>>
    <3>1. PICK A \in Nat : A = BestAsk BY <2>2, BestPrices
    <3>2. PICK g \in Nat : g = Grain(A) /\ g > A * N /\ A * N \in Nat
      BY <1>2, FineGrain DEF Grain
    <3>3. q * N \in Int /\ A * b * FeeUnit \in Int OBVIOUS
    <3>4. q * N > A * b * FeeUnit <=> g * (q * N) - A * N > g * (A * b * FeeUnit)
      BY <3>2, <3>3, SmallTrade
    <3>5. g * (q * N) = q * g * N OBVIOUS
    <3>6. A * (g * b * FeeUnit + N) = g * (A * b * FeeUnit) + A * N OBVIOUS
    <3>7. BuyClobSellAmm <=> q * N > A * b * FeeUnit
      BY <1>1, <1>2, <2>2, <3>1 DEF BuyClobSellAmm, Pooled
    <3>8. SellPays <=> q * g * N > A * (g * b * FeeUnit + N)
      BY <1>1, <1>2, <2>2, <3>1, <3>2 DEF SellPays
    <3>9. /\ g * (q * N) \in Int /\ A * N \in Int /\ g * (A * b * FeeUnit) \in Int
      OBVIOUS
    <3>10. g * (q * N) - A * N > g * (A * b * FeeUnit)
             <=> g * (q * N) > g * (A * b * FeeUnit) + A * N
      BY <3>9
    <3> QED BY <3>4, <3>5, <3>6, <3>7, <3>8, <3>10
  <2> QED BY <2>1, <2>2
<1>5. BuyPays /\ SellPays => shifts > 0
  <2> SUFFICES ASSUME BuyAmmSellClob, BuyClobSellAmm, shifts = 0 PROVE FALSE
    <3>1. shifts \in Nat BY DEF MarketInv, MarketTypeOK
    <3> QED BY <1>3, <1>4, <3>1
  <2>1. seen.bids # <<>> /\ seen.asks # <<>> BY DEF BuyAmmSellClob, BuyClobSellAmm
  <2>2. PICK B \in Nat, i \in 1..Len(seen.bids) : B = BestBid /\ B = seen.bids[i].price
    BY <2>1, BestPrices
  <2>3. PICK A \in Nat, j \in 1..Len(seen.asks) : A = BestAsk /\ A = seen.asks[j].price
    BY <2>1, BestPrices
  <2>4. B * b * N > q * FeeUnit BY <1>1, <1>2, <2>2 DEF BuyAmmSellClob
  <2>5. q * N > A * b * FeeUnit BY <1>1, <1>2, <2>3 DEF BuyClobSellAmm
  <2>6. B > A BY <1>2, <2>4, <2>5, BothPay
  <2>7. Shows(seen.asks, sells) /\ Shows(seen.bids, buys) /\ Uncrossed(sells, buys)
        /\ DOMAIN sells = 1..Len(sells) /\ DOMAIN buys = 1..Len(buys)
    BY DEF MarketInv, MarketTypeOK, LedgerBooks, SeenBooks
  <2>8. PICK k \in DOMAIN buys : B = buys[k].price BY <2>2, <2>7 DEF Shows
  <2>9. PICK l \in DOMAIN sells : A = sells[l].price BY <2>3, <2>7 DEF Shows
  <2>10. A > B BY <2>7, <2>8, <2>9 DEF Uncrossed
  <2> QED BY <2>6, <2>10
<1>6. Strategy = "BUY_AMM_SELL_CLOB" <=> BuyAmmSellClob BY DEF Strategy
<1>7. Strategy = "BUY_CLOB_SELL_AMM" <=> BuyClobSellAmm /\ ~BuyAmmSellClob
  BY DEF Strategy
<1> QED BY <1>3, <1>4, <1>5, <1>6, <1>7

-------------------------------------------------------------------------------
(* The walk through a side of the book: L is what is left before each level  *)
(* and v the volumes of the levels.                                          *)

Walks(L, v, n) ==
  /\ n \in Nat /\ \A i \in 0..n : L[i] \in Nat
  /\ \A i \in 1..n : v[i] \in Nat /\ L[i] = L[i - 1] - Least(L[i - 1], v[i])

\* What is taken is part of the volume, all of it while something is left.
LEMMA TakesPart ==
  ASSUME NEW L, NEW v, NEW n, Walks(L, v, n), NEW i \in 1..n
  PROVE  /\ L[i - 1] \in Nat /\ L[i] \in Nat /\ L[i] <= L[i - 1]
         /\ L[i - 1] - L[i] <= v[i]
         /\ L[i] > 0 => L[i - 1] - L[i] = v[i]
<1>1. n \in Nat /\ i - 1 \in 0..n /\ i \in 0..n BY DEF Walks
<1>2. L[i - 1] \in Nat /\ L[i] \in Nat /\ v[i] \in Nat BY <1>1 DEF Walks
<1>3. L[i] = L[i - 1] - Least(L[i - 1], v[i]) BY DEF Walks
<1> QED BY <1>2, <1>3 DEF Least

\* There is less and less left.
LEMMA LessIsLeft ==
  ASSUME NEW L, NEW v, NEW n, Walks(L, v, n)
  PROVE  \A i, j \in 1..n : i <= j => L[j] <= L[i]
<1> DEFINE p == [i \in 1..n |-> -L[i]]
<1>1. n \in Nat /\ \A i \in 1..n : p[i] \in Int /\ L[i] \in Nat /\ p[i] = -L[i]
  BY TakesPart DEF Walks
<1>2. \A i \in 1..(n - 1) : p[i] <= p[i + 1]
  <2>1. ASSUME NEW i \in 1..(n - 1) PROVE p[i] <= p[i + 1]
    <3>1. i \in 1..n /\ i + 1 \in 1..n /\ (i + 1) - 1 = i BY <1>1
    <3>2. L[i + 1] <= L[i] BY <3>1, TakesPart
    <3> QED BY <1>1, <3>1, <3>2
  <2> QED BY <2>1
<1> HIDE DEF p
<1>3. \A i, j \in 1..n : i <= j => p[i] <= p[j] BY <1>1, <1>2, Ascends
<1>4. ASSUME NEW i \in 1..n, NEW j \in 1..n, i <= j PROVE L[j] <= L[i]
  <2>1. p[i] <= p[j] BY <1>3, <1>4
  <2> QED BY <1>1, <2>1
<1> QED BY <1>4

\* The levels before some level k are taken whole, and none after it is touched.
LEMMA Pivot ==
  ASSUME NEW L, NEW v, NEW n, Walks(L, v, n), n # 0
  PROVE  \E k \in 1..n : /\ \A i \in 1..n : i < k => L[i - 1] - L[i] = v[i]
                         /\ \A i \in 1..n : i > k => L[i - 1] - L[i] = 0
<1>1. n \in 1..n /\ n \in Nat /\ \A i \in 1..n : i <= n BY DEF Walks
<1>2. \A i \in 1..n : L[i] \in Nat /\ L[i - 1] \in Nat BY TakesPart
<1>3. CASE L[n] > 0
  <2>1. ASSUME NEW i \in 1..n PROVE L[i - 1] - L[i] = v[i]
    <3>1. L[n] <= L[i] BY <1>1, LessIsLeft
    <3>2. L[i] > 0 BY <1>1, <1>2, <1>3, <3>1
    <3> QED BY <3>2, TakesPart
  <2> QED BY <1>1, <2>1
<1>4. CASE L[n] = 0
  <2> DEFINE T == {i \in 1..n : L[i] = 0}
  <2>1. T \subseteq Nat /\ T # {} BY <1>1, <1>4
  <2>2. PICK k \in T : \A y \in T : k <= y BY <2>1, NatHasLeast
  <2>3. ASSUME NEW i \in 1..n, i < k PROVE L[i - 1] - L[i] = v[i]
    <3>1. i \notin T BY <2>2, <2>3
    <3>2. L[i] > 0 BY <1>2, <3>1
    <3> QED BY <3>2, TakesPart
  <2>4. ASSUME NEW i \in 1..n, i > k PROVE L[i - 1] - L[i] = 0
    <3>0. k \in 1..n /\ L[k] = 0 OBVIOUS
    <3>1. i - 1 \in 1..n /\ k <= i - 1 BY <1>1, <2>4, <3>0
    <3>2. L[i - 1] <= 0 BY <3>0, <3>1, LessIsLeft
    <3>3. L[i] <= L[i - 1] /\ L[i] \in Nat /\ L[i - 1] \in Nat BY TakesPart
    <3> QED BY <3>2, <3>3
  <2> QED BY <2>3, <2>4
<1> QED BY <1>1, <1>2, <1>3, <1>4

\* A way to take volumes within the levels.
Within(f, v, n) == \A i \in 1..n : f[i] \in Nat /\ f[i] <= v[i]

\* The walk takes the most that can be taken, up to what is wanted.
LEMMA WalkTakesMost ==
  ASSUME NEW L, NEW v, NEW n, Walks(L, v, n),
         NEW g, \A i \in 1..n : g[i] = L[i - 1] - L[i],
         NEW f, Within(f, v, n), SumFunctionOnSet(f, 1..n) <= L[0]
  PROVE  /\ SumFunctionOnSet(g, 1..n) = L[0] - L[n]
         /\ SumFunctionOnSet(f, 1..n) <= L[0] - L[n]
<1>1. n \in Nat /\ L[0] \in Nat /\ L[n] \in Nat /\ \A i \in 0..n : L[i] \in Int
  BY DEF Walks
<1>2. SumFunctionOnSet(g, 1..n) = L[0] - L[n] BY <1>1, SumSteps
<1>3. IsFiniteSet(1..n) BY <1>1, FS_Interval
<1>4. \A i \in 1..n : f[i] \in Int /\ f[i] <= v[i] BY DEF Within
<1>5. CASE L[n] = 0
  <2>1. SumFunctionOnSet(f, 1..n) \in Int BY <1>3, <1>4, SumInt
  <2> QED BY <1>1, <1>2, <1>5, <2>1
<1>6. CASE L[n] > 0
  <2>1. ASSUME NEW i \in 1..n PROVE g[i] \in Int /\ f[i] <= g[i]
    <3>1. n \in 1..n /\ i <= n BY <1>1
    <3>2. L[n] <= L[i] BY <3>1, LessIsLeft
    <3>3. L[i] \in Nat /\ L[i - 1] \in Nat BY TakesPart
    <3>4. L[i] > 0 BY <1>1, <1>6, <3>2, <3>3
    <3>5. g[i] = v[i] BY <3>4, TakesPart
    <3> QED BY <1>4, <3>3, <3>5
  <2>2. SumFunctionOnSet(f, 1..n) <= SumFunctionOnSet(g, 1..n)
    BY <1>3, <1>4, <2>1, SumMonotone
  <2> QED BY <1>2, <2>2
<1> QED BY <1>1, <1>2, <1>5, <1>6

\* What taking h of levels at the prices p comes to.
Total(h, p, n) == SumFunctionOnSet([i \in 1..n |-> h[i] * p[i]], 1..n)

\* The walk through levels that get dearer is the cheapest way to take what it takes,
\* and through levels that pay less and less the best paid.
LEMMA WalkIsBest ==
  ASSUME NEW L, NEW v, NEW n, Walks(L, v, n),
         NEW g, \A i \in 1..n : g[i] = L[i - 1] - L[i],
         NEW f, Within(f, v, n),
         SumFunctionOnSet(f, 1..n) = SumFunctionOnSet(g, 1..n),
         NEW p, \A i \in 1..n : p[i] \in Nat
  PROVE  /\ (\A i, j \in 1..n : i <= j => p[i] <= p[j])
               => Total(g, p, n) <= Total(f, p, n)
         /\ (\A i, j \in 1..n : i <= j => p[i] >= p[j])
               => Total(f, p, n) <= Total(g, p, n)
<1> DEFINE S == 1..n
           cost(h) == SumFunctionOnSet([i \in S |-> h[i] * p[i]], S)
<1>1. n \in Nat /\ IsFiniteSet(S) BY FS_Interval DEF Walks
<1>2. \A i \in S : f[i] \in Nat /\ g[i] \in Nat /\ p[i] \in Nat /\ f[i] <= v[i]
  <2>1. ASSUME NEW i \in S PROVE g[i] \in Nat
    <3>1. L[i - 1] \in Nat /\ L[i] \in Nat /\ L[i] <= L[i - 1] BY TakesPart
    <3> QED BY <3>1
  <2> QED BY <2>1 DEF Within
<1>3. PICK c \in Nat :
        /\ (\A i, j \in S : i <= j => p[i] <= p[j]) =>
             \A x \in S : (f[x] <= g[x] /\ p[x] <= c) \/ (g[x] <= f[x] /\ c <= p[x])
        /\ (\A i, j \in S : i <= j => p[i] >= p[j]) =>
             \A x \in S : (g[x] <= f[x] /\ p[x] <= c) \/ (f[x] <= g[x] /\ c <= p[x])
  <2>1. CASE n = 0
    <3>1. S = {} BY <2>1
    <3> QED BY <3>1
  <2>2. CASE n # 0
    <3>1. PICK k \in S : /\ \A i \in S : i < k => L[i - 1] - L[i] = v[i]
                         /\ \A i \in S : i > k => L[i - 1] - L[i] = 0
      BY <2>2, Pivot
    <3>2. ASSUME NEW x \in S
          PROVE  /\ x < k => f[x] <= g[x]
                 /\ x > k => g[x] <= f[x]
                 /\ f[x] <= g[x] \/ g[x] <= f[x]
      <4>1. f[x] \in Nat /\ g[x] \in Nat /\ f[x] <= v[x] BY <1>2
      <4>2. x < k => g[x] = v[x] BY <3>1
      <4>3. x > k => g[x] = 0 BY <3>1
      <4> QED BY <4>1, <4>2, <4>3
    <3>3. \A x \in S : x \in Int BY <1>1
    <3> DEFINE c == p[k]
    <3>4. c \in Nat BY <1>2
    <3>5. ASSUME \A i, j \in S : i <= j => p[i] <= p[j], NEW x \in S
          PROVE  (f[x] <= g[x] /\ p[x] <= c) \/ (g[x] <= f[x] /\ c <= p[x])
      <4>1. CASE x < k
        <5>1. x <= k BY <3>3, <4>1
        <5> QED BY <3>2, <3>5, <4>1, <5>1
      <4>2. CASE x > k
        <5>1. k <= x BY <3>3, <4>2
        <5> QED BY <3>2, <3>5, <4>2, <5>1
      <4>3. CASE x = k
        <5>1. p[x] <= c /\ c <= p[x] BY <3>4, <4>3
        <5> QED BY <3>2, <5>1
      <4> QED BY <3>3, <4>1, <4>2, <4>3
    <3>6. ASSUME \A i, j \in S : i <= j => p[i] >= p[j], NEW x \in S
          PROVE  (g[x] <= f[x] /\ p[x] <= c) \/ (f[x] <= g[x] /\ c <= p[x])
      <4>1. CASE x < k
        <5>1. x <= k BY <3>3, <4>1
        <5>2. p[x] >= c BY <3>6, <5>1
        <5>3. c <= p[x] BY <1>2, <3>4, <5>2
        <5> QED BY <3>2, <4>1, <5>3
      <4>2. CASE x > k
        <5>1. k <= x BY <3>3, <4>2
        <5>2. c >= p[x] BY <3>6, <5>1
        <5>3. p[x] <= c BY <1>2, <3>4, <5>2
        <5> QED BY <3>2, <4>2, <5>3
      <4>3. CASE x = k
        <5>1. p[x] <= c /\ c <= p[x] BY <3>4, <4>3
        <5> QED BY <3>2, <5>1
      <4> QED BY <3>3, <4>1, <4>2, <4>3
    <3> QED BY <3>4, <3>5, <3>6
  <2> QED BY <1>1, <2>1, <2>2
<1> HIDE DEF S
<1>4. ASSUME \A i, j \in S : i <= j => p[i] <= p[j] PROVE cost(g) <= cost(f)
  <2>1. \A x \in S : (f[x] <= g[x] /\ p[x] <= c) \/ (g[x] <= f[x] /\ c <= p[x])
    BY <1>3, <1>4
  <2>2. SumFunctionOnSet(f, S) = SumFunctionOnSet(g, S) BY DEF S
  <2> QED BY <1>1, <1>2, <2>1, <2>2, Exchange
<1>5. ASSUME \A i, j \in S : i <= j => p[i] >= p[j] PROVE cost(f) <= cost(g)
  <2>1. \A x \in S : (g[x] <= f[x] /\ p[x] <= c) \/ (f[x] <= g[x] /\ c <= p[x])
    BY <1>3, <1>5
  <2>2. SumFunctionOnSet(g, S) = SumFunctionOnSet(f, S) BY DEF S
  <2> QED BY <1>1, <1>2, <2>1, <2>2, Exchange
<1> QED BY <1>4, <1>5 DEF S, Total

-------------------------------------------------------------------------------
(* The quote of the depth walker.                                            *)

\* The side the trade consumes is in the order that is best for it.
LEMMA SideInOrder ==
  MarketInv => /\ Side \in Seq(Offer) /\ Len(Side) \in Nat /\ Len(Side) <= MaxOffers
               /\ want.amount \in Nat /\ want.side \in {"buy", "sell"}
               /\ \A i \in 1..Len(Side) : Side[i].price \in Nat /\ Side[i].volume \in Nat
               /\ want.side = "buy" => Climbs(Side)
               /\ want.side = "sell" => Falls(Side)
<1> SUFFICES ASSUME MarketInv
             PROVE  /\ Side \in Seq(Offer) /\ Len(Side) \in Nat /\ Len(Side) <= MaxOffers
                    /\ want.amount \in Nat /\ want.side \in {"buy", "sell"}
                    /\ \A i \in 1..Len(Side) :
                         Side[i].price \in Nat /\ Side[i].volume \in Nat
                    /\ want.side = "buy" => Climbs(Side)
                    /\ want.side = "sell" => Falls(Side)
  OBVIOUS
<1>1. want.amount \in TradeAmounts /\ want.side \in {"buy", "sell"}
  BY DEF MarketInv, LedgerBooks
<1>2. want.amount \in Nat BY <1>1, MarketAssumption
<1>3. /\ Side \in Seq(Offer) /\ Len(Side) \in Nat /\ Len(Side) <= MaxOffers
      /\ want.side = "buy" => Climbs(Side)
      /\ want.side = "sell" => Falls(Side)
  BY <1>1 DEF MarketInv, SeenBooks, Reading, Side
<1>4. ASSUME NEW i \in 1..Len(Side)
      PROVE  Side[i].price \in Nat /\ Side[i].volume \in Nat
  <2>1. Side[i] \in Offer BY <1>3
  <2>2. Side[i].price \in Prices /\ Side[i].volume \in Volumes BY <2>1 DEF Offer
  <2>3. Prices \subseteq Nat /\ Volumes \subseteq Nat BY MarketAssumption
  <2> QED BY <2>2, <2>3
<1> QED BY <1>1, <1>2, <1>3, <1>4

\* Left is what the walk leaves.
LEMMA LeftWalks ==
  MarketInv => /\ Walks(Left, [i \in 1..Len(Side) |-> Side[i].volume], Len(Side))
               /\ Left[0] = want.amount
<1> SUFFICES ASSUME MarketInv
             PROVE  /\ Walks(Left, [i \in 1..Len(Side) |-> Side[i].volume], Len(Side))
                    /\ Left[0] = want.amount
  OBVIOUS
<1>0. PICK N \in Nat : N = MaxOffers BY MarketAssumption
<1>1. PICK n \in Nat, a \in Nat : n = Len(Side) /\ n <= N /\ a = want.amount
  BY <1>0, SideInOrder
<1> DEFINE v == [i \in 1..n |-> Side[i].volume]
           take(i, s) == s - (IF i <= n THEN Least(s, Side[i].volume) ELSE 0)
           Table(g) == g = [i \in 0..N |-> IF i = 0 THEN a ELSE take(i, g[i - 1])]
<1>2. \A i \in 1..n : v[i] \in Nat /\ v[i] = Side[i].volume BY <1>1, SideInOrder
<1>3. \A i \in 1..N, s \in Nat :
        take(i, s) \in Nat /\ (i <= n => take(i, s) = s - Least(s, v[i]))
  BY <1>1, <1>2 DEF Least
<1>4. Left = CHOOSE g : Table(g) BY <1>0, <1>1 DEF Left
<1> HIDE DEF take, v
<1>5. \E g : Table(g)
  <2> DEFINE step == [i \in 1..N |-> [s \in Nat |-> take(i, s)]]
  <2>1. \A i \in 1..N, s \in Nat : step[i][s] \in Nat /\ step[i][s] = take(i, s) BY <1>3
  <2> HIDE DEF step
  <2> DEFINE S == Nat
             base == a
  <2>2. Stepwise(N, S, base, step) BY <2>1 DEF Stepwise
  <2> HIDE DEF S, base
  <2>3. PICK g \in [0..N -> S] : g[0] = base /\ \A i \in 1..N : g[i] = step[i][g[i - 1]]
    BY <2>2, StepTable
  <2>4. ASSUME NEW i \in 0..N PROVE g[i] = IF i = 0 THEN base ELSE take(i, g[i - 1])
    <3>1. CASE i = 0 BY <2>3, <3>1
    <3>2. CASE i # 0
      <4>1. i \in 1..N /\ i - 1 \in 0..N BY <3>2
      <4>2. g[i - 1] \in Nat BY <2>3, <4>1 DEF S
      <4>3. g[i] = step[i][g[i - 1]] BY <2>3, <4>1
      <4> QED BY <2>1, <3>2, <4>1, <4>2, <4>3
    <3> QED BY <3>1, <3>2
  <2>5. g = [i \in 0..N |-> IF i = 0 THEN base ELSE take(i, g[i - 1])] BY <2>3, <2>4
  <2> QED BY <2>5 DEF base
<1>6. Table(Left) BY <1>4, <1>5
<1>7. Left[0] = a /\ \A i \in 1..N : Left[i] = take(i, Left[i - 1])
  <2>1. Left = [i \in 0..N |-> IF i = 0 THEN a ELSE take(i, Left[i - 1])] BY <1>6
  <2>2. 0 \in 0..N /\ \A i \in 1..N : i \in 0..N /\ i # 0 OBVIOUS
  <2> QED BY <2>1, <2>2
<1> HIDE DEF Table
<1>8. \A i \in 0..N : Left[i] \in Nat
  <2> DEFINE P == {i \in 0..N : Left[i] \in Nat}
  <2>1. 0 \in P BY <1>7
  <2>2. ASSUME NEW i \in 0..(N - 1), i \in P PROVE i + 1 \in P
    <3>1. i + 1 \in 1..N /\ (i + 1) - 1 = i /\ Left[i] \in Nat BY <2>2
    <3>2. Left[i + 1] = take(i + 1, Left[i]) BY <1>7, <3>1
    <3>3. Left[i + 1] \in Nat BY <1>3, <3>1, <3>2
    <3> QED BY <3>1, <3>3
  <2> HIDE DEF P
  <2>3. 0..N \subseteq P BY <2>1, <2>2, Upward
  <2> QED BY <2>3 DEF P
<1>9. ASSUME NEW i \in 1..n PROVE Left[i] = Left[i - 1] - Least(Left[i - 1], v[i])
  <2>1. i \in 1..N /\ i <= n /\ i - 1 \in 0..N BY <1>1
  <2> QED BY <1>3, <1>7, <1>8, <2>1
<1>10. Walks(Left, v, n)
  <2>1. \A i \in 0..n : i \in 0..N BY <1>1
  <2> QED BY <1>2, <1>8, <1>9, <2>1 DEF Walks
<1> QED BY <1>1, <1>7, <1>10 DEF v

\* The quote is best.
LEMMA QuotesBest == MarketInv => QuoteIsBest
<1> SUFFICES ASSUME MarketInv
             PROVE  LET same == {f \in Fills(Side) : Volume(f) = Filled}
                    IN /\ \A f \in Fills(Side) : Volume(f) <= want.amount => Volume(f) <= Filled
                       /\ Fillable <=> Filled = want.amount
                       /\ \E f \in same : Cost(Side, f) = TotalQuote
                       /\ \A f \in same :
                            IF want.side = "buy" THEN Cost(Side, f) >= TotalQuote
                            ELSE Cost(Side, f) <= TotalQuote
  BY DEF QuoteIsBest, Side
<1>1. PICK b \in Seq(Offer), n \in Nat, a \in Nat :
        b = Side /\ n = Len(b) /\ a = want.amount
  BY SideInOrder
<1> DEFINE v == [i \in 1..n |-> b[i].volume]
           p == [i \in 1..n |-> b[i].price]
           g == [i \in 1..n |-> Left[i - 1] - Left[i]]
           cost(h) == Total(h, p, n)
<1>2. /\ \A i \in 1..n : p[i] \in Nat
      /\ want.side = "buy" => \A i, j \in 1..n : i <= j => p[i] <= p[j]
      /\ want.side # "buy" => \A i, j \in 1..n : i <= j => p[i] >= p[j]
  <2>1. \A i \in 1..n : p[i] = b[i].price /\ p[i] \in Nat BY <1>1, SideInOrder
  <2>2. want.side = "buy" => Climbs(b) BY <1>1, SideInOrder
  <2>3. want.side # "buy" => Falls(b) BY <1>1, SideInOrder
  <2> HIDE DEF p
  <2> QED BY <1>1, <2>1, <2>2, <2>3 DEF Climbs, Falls
<1>3. Walks(Left, v, n) /\ Left[0] = a BY <1>1, LeftWalks
<1>4. DOMAIN b = 1..n BY <1>1
<1>5. \A f : f \in Fills(b) <=>
        f \in [1..n -> 0..a] /\ \A i \in 1..n : f[i] <= v[i]
  BY <1>1, <1>4 DEF Fills
<1>6. \A f \in Fills(b) :
        /\ Within(f, v, n) /\ Volume(f) = SumFunctionOnSet(f, 1..n)
        /\ Cost(b, f) = cost(f)
  <2>1. ASSUME NEW f \in Fills(b)
        PROVE  /\ Within(f, v, n) /\ Volume(f) = SumFunctionOnSet(f, 1..n)
               /\ Cost(b, f) = cost(f)
    <3>1. f \in [1..n -> 0..a] /\ \A i \in 1..n : f[i] <= v[i] BY <1>5
    <3>2. Within(f, v, n) BY <3>1 DEF Within
    <3>3. Volume(f) = SumFunctionOnSet(f, 1..n) BY <3>1 DEF Volume, SumFunction
    <3>4. [i \in DOMAIN b |-> f[i] * b[i].price] = [i \in 1..n |-> f[i] * p[i]] BY <1>4
    <3>5. Cost(b, f) = cost(f) BY <3>4 DEF Cost, Total, SumFunction
    <3> QED BY <3>2, <3>3, <3>5
  <2> QED BY <2>1
<1>7. TotalQuote = cost(g)
  <2>1. [i \in DOMAIN Side |-> (Left[i - 1] - Left[i]) * Side[i].price]
          = [i \in 1..n |-> g[i] * p[i]]
    BY <1>1, <1>4
  <2> QED BY <2>1 DEF TotalQuote, Total, SumFunction
<1>8. Filled = a - Left[n] /\ (Fillable <=> Left[n] = 0) BY <1>1 DEF Filled, Fillable
<1> HIDE DEF v, p
<1>9. \A i \in 1..n : g[i] = Left[i - 1] - Left[i] OBVIOUS
<1>10. g \in Fills(b)
  <2>1. ASSUME NEW i \in 1..n PROVE g[i] \in 0..a /\ g[i] <= v[i]
    <3>1. /\ Left[i - 1] \in Nat /\ Left[i] \in Nat /\ Left[i] <= Left[i - 1]
          /\ Left[i - 1] - Left[i] <= v[i]
      BY <1>3, TakesPart
    <3>2. Left[i - 1] <= a
      <4>1. CASE i = 1 BY <1>3, <4>1
      <4>2. CASE i # 1
        <5>1. 1 \in 1..n /\ i - 1 \in 1..n /\ 1 <= i - 1 /\ 1 - 1 = 0 BY <1>1, <4>2
        <5>2. Left[i - 1] <= Left[1] BY <1>3, <5>1, LessIsLeft
        <5>3. Left[1] <= Left[0] /\ Left[1] \in Nat BY <1>3, <5>1, TakesPart
        <5> QED BY <1>3, <3>1, <5>2, <5>3
      <4> QED BY <4>1, <4>2
    <3> QED BY <1>9, <3>1, <3>2
  <2> QED BY <1>5, <2>1
<1> HIDE DEF g, cost
<1>11. Left[n] \in Nat BY <1>3 DEF Walks
<1>12. ASSUME NEW f \in Fills(b), Volume(f) <= a PROVE Volume(f) <= Filled
  <2>1. Within(f, v, n) /\ SumFunctionOnSet(f, 1..n) <= Left[0] BY <1>3, <1>6, <1>12
  <2>2. SumFunctionOnSet(f, 1..n) <= Left[0] - Left[n]
    BY <1>3, <1>9, <2>1, WalkTakesMost
  <2> QED BY <1>3, <1>6, <1>8, <2>2
<1>13. Volume(g) = Filled
  <2>1. n \in Nat /\ \A i \in 0..n : Left[i] \in Int BY <1>3 DEF Walks
  <2>2. SumFunctionOnSet(g, 1..n) = Left[0] - Left[n] BY <1>9, <2>1, SumSteps
  <2> QED BY <1>3, <1>6, <1>8, <1>10, <2>2
<1>14. ASSUME NEW f \in Fills(b), Volume(f) = Filled
       PROVE  IF want.side = "buy" THEN cost(g) <= cost(f) ELSE cost(f) <= cost(g)
  <2>1. Within(f, v, n) /\ SumFunctionOnSet(f, 1..n) = SumFunctionOnSet(g, 1..n)
    BY <1>6, <1>10, <1>13, <1>14
  <2>2. /\ (\A i, j \in 1..n : i <= j => p[i] <= p[j]) => cost(g) <= cost(f)
        /\ (\A i, j \in 1..n : i <= j => p[i] >= p[j]) => cost(f) <= cost(g)
    BY <1>2, <1>3, <1>9, <2>1, WalkIsBest DEF cost
  <2> QED BY <1>2, <2>2
<1>15. Fillable <=> Filled = a BY <1>8, <1>11
<1>16. \A f \in Fills(b) : cost(f) \in Int
  <2>1. ASSUME NEW f \in Fills(b) PROVE cost(f) \in Int
    <3> DEFINE h == [i \in 1..n |-> f[i] * p[i]]
    <3>1. \A i \in 1..n : f[i] \in Int /\ p[i] \in Int BY <1>2, <1>5
    <3>2. \A i \in 1..n : h[i] \in Int BY <3>1
    <3>3. IsFiniteSet(1..n) BY FS_Interval
    <3>4. cost(f) = SumFunctionOnSet(h, 1..n) BY DEF cost, Total
    <3> HIDE DEF h
    <3> QED BY <3>2, <3>3, <3>4, SumInt
  <2> QED BY <2>1
<1>17. ASSUME NEW f \in Fills(b), Volume(f) = Filled
       PROVE  IF want.side = "buy" THEN Cost(b, f) >= TotalQuote
              ELSE Cost(b, f) <= TotalQuote
  <2>1. cost(f) \in Int /\ cost(g) \in Int BY <1>10, <1>16
  <2> QED BY <1>6, <1>7, <1>14, <1>17, <2>1
<1>18. Cost(b, g) = TotalQuote BY <1>6, <1>7, <1>10
<1> QED BY <1>1, <1>10, <1>12, <1>13, <1>15, <1>17, <1>18

\* The depth quote is filled as far as the side that was read can fill it, at the best
\* total, and an arbitrage is reported exactly when one pays, in whatever way the market
\* changes between the calls (get_orderbook_depth, get_amm_arb_quote).
THEOREM MarketQuotesSound == MarketSpec => []MarketSound
<1>1. MarketInv => MarketSound BY QuotesBest, ReportsWhatPays DEF MarketSound
<1> QED BY <1>1, MarketInvariance, PTL
-------------------------------------------------------------------------------
(* The composition. No service shares state with another, and a step of one   *)
(* leaves the others as they are: each sees its own specification.            *)

\* The composition starts every service in one of its initial states.
LEMMA ServicesStart ==
  ServicesInit => /\ LimitInit /\ CreditsInit /\ DagInit /\ GraphInit
                  /\ StoreInit /\ MarketInit /\ PoolInit /\ SweepInit
BY DEF ServicesInit

\* A step of the composition is one of the service in focus and a stutter of the others.
LEMMA ServicesStep ==
  [ServicesNext]_services =>
    /\ [LimitNext]_limitVars /\ [CreditsNext]_creditVars /\ [DagNext]_dagVars
    /\ [GraphNext]_graphVars /\ [StoreNext]_storeVars /\ [MarketNext]_marketVars
    /\ [PoolNext]_poolVars /\ [SweepNext]_sweepVars
<1> SUFFICES ASSUME [ServicesNext]_services
             PROVE  /\ [LimitNext]_limitVars /\ [CreditsNext]_creditVars
                    /\ [DagNext]_dagVars /\ [GraphNext]_graphVars
                    /\ [StoreNext]_storeVars /\ [MarketNext]_marketVars
                    /\ [PoolNext]_poolVars /\ [SweepNext]_sweepVars
  OBVIOUS
<1>1. CASE UNCHANGED services BY <1>1 DEF services
<1>2. CASE Others("limits") /\ LimitNext BY <1>2 DEF Others
<1>3. CASE Others("credits") /\ CreditsNext BY <1>3 DEF Others
<1>4. CASE Others("dag") /\ DagNext BY <1>4 DEF Others
<1>5. CASE Others("graph") /\ GraphNext BY <1>5 DEF Others
<1>6. CASE Others("store") /\ StoreNext BY <1>6 DEF Others
<1>7. CASE Others("market") /\ MarketNext BY <1>7 DEF Others
<1>8. CASE Others("tickets") /\ PoolNext BY <1>8 DEF Others
<1>9. CASE Others("sweep") /\ SweepNext BY <1>9 DEF Others
<1> QED BY <1>1, <1>2, <1>3, <1>4, <1>5, <1>6, <1>7, <1>8, <1>9 DEF ServicesNext

\* In the composition every service behaves as it does alone.
LEMMA ServicesCompose ==
  ServicesSpec => /\ LimitSpec /\ CreditsSpec /\ DagSpec /\ GraphSpec
                  /\ StoreSpec /\ MarketSpec /\ PoolSpec /\ SweepSpec
BY ServicesStart, ServicesStep, PTL
   DEF ServicesSpec, LimitSpec, CreditsSpec, DagSpec, GraphSpec, StoreSpec, MarketSpec,
       PoolSpec, SweepSpec

\* Every service keeps its types: what is in flight at each step of a handler is what
\* the next step reads.
THEOREM ServicesTyped == ServicesSpec => []ServicesTypeOK
<1>1. /\ LimitInv => LimitTypeOK
      /\ CreditsInv => CreditsTypeOK
      /\ DagInv => DagTypeOK
      /\ GraphInv => GraphTypeOK
      /\ StoreInv => StoreTypeOK
      /\ MarketInv => MarketTypeOK
      /\ PoolInv => PoolTypeOK
      /\ SweepInv => SweepTypeOK
  BY DEF LimitInv, CreditsInv, DagInv, GraphInv, StoreInv, MarketInv, PoolInv, SweepInv
<1>2. /\ LimitTypeOK /\ CreditsTypeOK /\ DagTypeOK /\ GraphTypeOK /\ StoreTypeOK
      /\ MarketTypeOK /\ PoolTypeOK /\ SweepTypeOK
      => ServicesTypeOK
  BY DEF ServicesTypeOK
<1> QED BY <1>1, <1>2, ServicesCompose, LimitInvariance, CreditsInvariance, DagInvariance,
           GraphInvariance, StoreInvariance, MarketInvariance, PoolInvariance,
           SweepInvariance, PTL

\* Both audit trails tell of everything that was done: nothing is executed that the
\* session's trail does not show approved and then signed, and no row of the task store
\* differs from its trail, whatever fails in between (the graph of layer 4 and the
\* transactions of the enterprise router).
THEOREM AuditTrailsSound == ServicesSpec => []AuditTrailsTell
<1>1. ExecutedWasApproved /\ TrailTellsStatus => AuditTrailsTell BY DEF AuditTrailsTell
<1> QED BY <1>1, ServicesCompose, ExecutionsApproved, TrailsComplete, PTL
===============================================================================
