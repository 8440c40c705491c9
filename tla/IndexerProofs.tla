----------------------------- MODULE IndexerProofs -----------------------------
(***************************************************************************)
(* The indexer: its tables are the fold of the log they are said to be,    *)
(* for every history, every number of repeated logs, reorganisations and   *)
(* restarts, and every number of flushes under way in the coalescer.       *)
(***************************************************************************)
EXTENDS Indexer, ArithmeticProofs

-----------------------------------------------------------------------------
(* The coalescer *)

Position == Nat \X Nat

(* What is waiting and what is pending, in any state of the coalescer.     *)
MetricsInv ==
    /\ armed \in BOOLEAN /\ pending \in Nat
    /\ \A position \in unserved : position \in Position
    /\ SampleNeverForgotten

LEMMA MetricsInitially == MetricsInit => MetricsInv
  <1> SUFFICES ASSUME MetricsInit PROVE MetricsInv
    OBVIOUS
  <1>1. Waiting = {}
    BY DEF MetricsInit, Waiting
  <1> QED BY <1>1 DEF MetricsInit, MetricsInv, SampleNeverForgotten

(* A new sample raises pending to its own block at least. *)
LEMMA EnqueueKeeps ==
    ASSUME MetricsInv, NEW position \in Position, position[1] > 0, enqueue(position)
    PROVE  MetricsInv'
  <1>1. CASE ~armed
    BY <1>1 DEF enqueue, MetricsInv, SampleNeverForgotten, Waiting
  <1>2. CASE armed
    <2>1. /\ pending' = IF position[1] >= pending THEN position[1] ELSE pending
          /\ unserved' = unserved \cup {position}
          /\ flights' = flights /\ armed' = armed
          /\ position[1] \in Nat /\ pending \in Nat
      BY <1>2 DEF enqueue, MetricsInv, Position
    <2>2. /\ pending' \in Nat /\ pending' # 0
          /\ position[1] <= pending' /\ pending <= pending'
      BY <2>1
    <2>3. \A p \in Waiting' : p \in Waiting \/ p = position
      BY <2>1 DEF Waiting
    <2>4. \A p \in Waiting : p \in Position /\ p[1] <= pending
      BY DEF MetricsInv, SampleNeverForgotten, Waiting
    <2>5. \A p \in Waiting' : p[1] <= pending'
      BY <2>1, <2>2, <2>3, <2>4 DEF Position
    <2> QED BY <2>1, <2>2, <2>5 DEF MetricsInv, SampleNeverForgotten
  <1> QED BY <1>1, <1>2

(* A flush takes all that waits; the end of one brings nothing back.       *)
LEMMA FlushKeeps ==
    ASSUME MetricsInv, flush
    PROVE  MetricsInv'
  <1>1. Waiting' = {}
    <2> DEFINE f == [sample |-> pending, serves |-> Waiting]
    <2>1. f.serves = Waiting /\ f \in flights' /\ flights \subseteq flights' /\ unserved' = unserved
      BY DEF flush
    <2> QED BY <2>1 DEF Waiting
  <1> QED BY <1>1 DEF flush, MetricsInv, SampleNeverForgotten

LEMMA FlushEndKeeps ==
    ASSUME MetricsInv, NEW f \in flights, FlushEnds(f)
    PROVE  MetricsInv'
  <1>1. Waiting' \subseteq Waiting
    BY DEF FlushEnds, Waiting
  <1> QED BY <1>1 DEF FlushEnds, MetricsInv, SampleNeverForgotten

LEMMA CoalescerKeeps ==
    ASSUME MetricsInv, Coalescer \/ MetricsRestart \/ UNCHANGED metricsVars
    PROVE  MetricsInv'
  <1>1. CASE Arm
    BY <1>1 DEF Arm, MetricsInv, SampleNeverForgotten, Waiting
  <1>2. CASE MetricsRestart
    BY <1>2 DEF MetricsRestart, MetricsInv, SampleNeverForgotten, Waiting
  <1>3. CASE UNCHANGED metricsVars
    BY <1>3 DEF metricsVars, MetricsInv, SampleNeverForgotten, Waiting
  <1> QED BY <1>1, <1>2, <1>3, FlushKeeps, FlushEndKeeps DEF Coalescer

-----------------------------------------------------------------------------
(* What a log says *)

Party == Holder \cup {"zero"}

TransferEvent == [kind : {"Transfer"}, from : Party, to : Party, value : Int]
TradeEvent == [kind : {"Trade"}, trader : Trader, isBuy : BOOLEAN, tokens : Nat, eth : Nat,
               fee : Nat, realEth : Int, price : Nat]
SwapEvent == [kind : {"Swap"}, trader : Trader, isBuy : BOOLEAN, tokens : Nat, eth : Nat,
              fee : Nat, price : Nat]
Fill == {e \in TradeEvent \cup SwapEvent : e.fee < e.eth}
Event == TransferEvent \cup Fill \cup [kind : {"TokenCreated", "Graduated"}]

(* What the logs up to some point say of the launch. *)
Books == [created : BOOLEAN, graduated : BOOLEAN, sold : 0 .. CurveSupply,
          balance : [Holder -> Int]]

Book(created, graduated, sold, balance) ==
    [created |-> created, graduated |-> graduated, sold |-> sold, balance |-> balance]

BooksOf(w) == Book(w.phase # "unborn", w.phase = "graduated", w.sold, w.balance)

Credited(b, h, delta) == IF h = "zero" THEN b ELSE [b EXCEPT ![h] = @ + delta]
Moved(b, e) == Credited(Credited(b, e.from, -e.value), e.to, e.value)

(* Log e turns books b into books c.  A curve trades only once it exists   *)
(* and is created only once.                                               *)
Says(b, e, c) ==
    \/ /\ e \in TransferEvent
       /\ c = Book(b.created, b.graduated, b.sold, Moved(b.balance, e))
    \/ /\ e.kind = "TokenCreated" /\ ~b.created /\ b.sold = 0
       /\ c = Book(TRUE, b.graduated, 0, b.balance)
    \/ /\ e \in TradeEvent /\ b.created
       /\ c = Book(TRUE, b.graduated, b.sold + (IF e.isBuy THEN e.tokens ELSE -e.tokens), b.balance)
       /\ e.realEth = c.sold * TokenCost
    \/ /\ e \in SwapEvent
       /\ c = b
    \/ /\ e.kind = "Graduated"
       /\ c = Book(b.created, TRUE, b.sold, b.balance)

(* A sequence of logs turns books b into books c, by way of g.             *)
TraceBy(g, b, logs, c) ==
    /\ g \in [0 .. Len(logs) -> Books]
    /\ g[0] = b /\ g[Len(logs)] = c
    /\ \A k \in 1 .. Len(logs) : Says(g[k - 1], logs[k], g[k])

Trace(b, logs, c) == logs \in Seq(Event) /\ \E g : TraceBy(g, b, logs, c)

LEMMA EmptyTrace ==
    ASSUME NEW b \in Books
    PROVE  Trace(b, << >>, b)
  <1> DEFINE g == [k \in 0 .. 0 |-> b]
  <1>1. TraceBy(g, b, << >>, b)
    BY DEF TraceBy
  <1> QED BY <1>1 DEF Trace

LEMMA OneLog ==
    ASSUME NEW b \in Books, NEW c \in Books, NEW e \in Event, Says(b, e, c)
    PROVE  Trace(b, <<e>>, c)
  <1> DEFINE g == [k \in 0 .. 1 |-> IF k = 0 THEN b ELSE c]
  <1>1. TraceBy(g, b, <<e>>, c)
    <2>1. g[0] = b /\ g[1] = c /\ Len(<<e>>) = 1 /\ g \in [0 .. 1 -> Books] /\ <<e>>[1] = e
      OBVIOUS
    <2> HIDE DEF g
    <2> QED BY <2>1 DEF TraceBy
  <1> QED BY <1>1 DEF Trace

LEMMA LogsThenLogs ==
    ASSUME NEW a, NEW b, NEW c, NEW s, NEW t, Trace(a, s, b), Trace(b, t, c)
    PROVE  Trace(a, s \o t, c)
  <1>1. PICK g : TraceBy(g, a, s, b)
    BY DEF Trace
  <1>2. PICK h : TraceBy(h, b, t, c)
    BY DEF Trace
  <1> DEFINE n == Len(s)
             m == Len(t)
             f == [k \in 0 .. n + m |-> IF k <= n THEN g[k] ELSE h[k - n]]
  <1>3. s \in Seq(Event) /\ t \in Seq(Event) /\ n \in Nat /\ m \in Nat
    BY DEF Trace
  <1>4. /\ s \o t \in Seq(Event) /\ Len(s \o t) = n + m
        /\ \A k \in 1 .. n : (s \o t)[k] = s[k]
        /\ \A k \in n + 1 .. n + m : (s \o t)[k] = t[k - n]
    BY <1>3
  <1> HIDE DEF n, m
  <1>5. /\ \A k \in 0 .. n : g[k] \in Books
        /\ g[0] = a /\ g[n] = b /\ \A k \in 1 .. n : Says(g[k - 1], s[k], g[k])
    BY <1>1 DEF TraceBy, n
  <1>6. /\ \A k \in 0 .. m : h[k] \in Books
        /\ h[0] = b /\ h[m] = c /\ \A k \in 1 .. m : Says(h[k - 1], t[k], h[k])
    BY <1>2 DEF TraceBy, m
  <1>7. /\ \A k \in 0 .. n : f[k] = g[k]
        /\ \A k \in n .. n + m : f[k] = h[k - n]
    <2>1. \A k \in 0 .. n : f[k] = g[k]
      BY <1>3
    <2>2. \A k \in n + 1 .. n + m : f[k] = h[k - n]
      BY <1>3
    <2>3. f[n] = h[n - n]
      BY <1>3, <1>5, <1>6, <2>1
    <2> HIDE DEF f
    <2>4. \A k \in n .. n + m : k = n \/ k \in n + 1 .. n + m
      BY <1>3
    <2> QED BY <2>1, <2>2, <2>3, <2>4
  <1>8. f \in [0 .. n + m -> Books]
    BY <1>3, <1>5, <1>6
  <1> HIDE DEF f
  <1>9. f[0] = a /\ f[n + m] = c
    BY <1>3, <1>5, <1>6, <1>7
  <1>10. \A k \in 1 .. n + m : Says(f[k - 1], (s \o t)[k], f[k])
    <2> SUFFICES ASSUME NEW k \in 1 .. n + m PROVE Says(f[k - 1], (s \o t)[k], f[k])
      OBVIOUS
    <2>1. CASE k <= n
      BY <1>3, <1>4, <1>5, <1>7, <2>1
    <2>2. CASE k > n
      <3>1. k - n \in 1 .. m /\ f[k - 1] = h[k - n - 1] /\ f[k] = h[k - n]
            /\ (s \o t)[k] = t[k - n]
        BY <1>3, <1>4, <1>7, <2>2
      <3> QED BY <1>6, <3>1
    <2>3. k <= n \/ k > n
      BY <1>3
    <2> QED BY <2>1, <2>2, <2>3
  <1>11. TraceBy(f, a, s \o t, c)
    BY <1>4, <1>8, <1>9, <1>10 DEF TraceBy
  <1> QED BY <1>4, <1>11 DEF Trace

-----------------------------------------------------------------------------
(* The contracts: what a transaction logs is what it did *)

Worlds == [phase : {"unborn", "trading", "graduated"}, sold : 0 .. CurveSupply,
          balance : [Holder -> Int]]

Held(balance) == [u \in Trader |-> balance[u]]

(* While the curve trades, what it sold is what the traders hold.          *)
WorldOK(w) ==
    /\ w \in Worlds
    /\ w.phase = "unborn" => w = Unborn
    /\ w.phase = "trading" => /\ \A u \in Trader : w.balance[u] >= 0
                              /\ SumFunction(Held(w.balance)) = w.sold

LEMMA UnbornOK == WorldOK(Unborn)
  BY EventLogAssumption DEF WorldOK, Worlds, Unborn, Holder

LEMMA BooksOfWorlds == \A w \in Worlds : BooksOf(w) \in Books
  BY DEF Worlds, BooksOf, Book, Books

(* World q is world w after a payment. *)
IsPaid(q, w, from, to, n) ==
    /\ q \in Worlds /\ q.phase = w.phase /\ q.sold = w.sold
    /\ q.balance = Credited(Credited(w.balance, from, -n), to, n)
    /\ \A h \in Holder : q.balance[h] =
          w.balance[h] - (IF h = from THEN n ELSE 0) + (IF h = to THEN n ELSE 0)

(* A payment moves one balance down and another up. *)
LEMMA PaidBalances ==
    ASSUME NEW w \in Worlds, NEW from \in Holder, NEW to \in Holder, NEW n \in Int
    PROVE  IsPaid(Paid(w, from, to, n), w, from, to, n)
  <1> DEFINE debited == [w.balance EXCEPT ![from] = @ - n]
             balance == [debited EXCEPT ![to] = @ + n]
  <1>1. /\ debited \in [Holder -> Int] /\ debited = Credited(w.balance, from, -n)
        /\ \A h \in Holder : debited[h] = w.balance[h] - (IF h = from THEN n ELSE 0)
    BY EventLogAssumption DEF Worlds, Credited, Holder, Contract
  <1>2. Paid(w, from, to, n) = [w EXCEPT !.balance = balance]
    BY DEF Paid
  <1> HIDE DEF debited
  <1>3. /\ balance \in [Holder -> Int] /\ balance = Credited(debited, to, n)
        /\ \A h \in Holder : balance[h] = debited[h] + (IF h = to THEN n ELSE 0)
    BY <1>1, EventLogAssumption DEF Credited, Holder, Contract
  <1> HIDE DEF balance
  <1>4. /\ Paid(w, from, to, n) \in Worlds /\ Paid(w, from, to, n).balance = balance
        /\ Paid(w, from, to, n).phase = w.phase /\ Paid(w, from, to, n).sold = w.sold
    BY <1>2, <1>3 DEF Worlds
  <1> QED BY <1>1, <1>3, <1>4 DEF IsPaid

LEMMA TransferLogged ==
    ASSUME NEW w \in Worlds, NEW from \in Holder, NEW to \in Holder, NEW n \in Int
    PROVE  /\ Transfer(from, to, n) \in Event
           /\ Says(BooksOf(w), Transfer(from, to, n), BooksOf(Paid(w, from, to, n)))
  <1> DEFINE e == Transfer(from, to, n)
             p == Paid(w, from, to, n)
  <1>1. e \in TransferEvent /\ e.from = from /\ e.to = to /\ e.value = n
    BY DEF Transfer, TransferEvent, Party
  <1>2. from # "zero" /\ to # "zero"
    BY EventLogAssumption DEF Holder, Contract
  <1>3. p \in Worlds /\ p.phase = w.phase /\ p.sold = w.sold
    BY PaidBalances DEF IsPaid
  <1>4. p.balance = Moved(w.balance, e)
    BY <1>1, PaidBalances DEF Moved, IsPaid
  <1> HIDE DEF p, e
  <1> DEFINE b == BooksOf(w)
  <1>5. BooksOf(p) = Book(b.created, b.graduated, b.sold, Moved(b.balance, e))
    BY <1>3, <1>4 DEF BooksOf, Book
  <1> QED BY <1>1, <1>5 DEF Says, Event, e, p

LEMMA TradeLogged ==
    ASSUME NEW w \in Worlds, w.phase = "trading", NEW u \in Trader, NEW isBuy \in BOOLEAN,
           NEW n \in Nat \ {0}, NEW sold \in 0 .. CurveSupply,
           sold = w.sold + (IF isBuy THEN n ELSE -n)
    PROVE  /\ Trade(u, isBuy, n, sold) \in Event
           /\ Says(BooksOf(w), Trade(u, isBuy, n, sold), BooksOf([w EXCEPT !.sold = sold]))
  <1> DEFINE e == Trade(u, isBuy, n, sold)
  <1>0. CurveSupply \in Nat
    BY EventLogAssumption
  <1>1. e \in TradeEvent /\ e.fee < e.eth
        /\ e.isBuy = isBuy /\ e.tokens = n /\ e.realEth = sold * TokenCost
    BY <1>0 DEF Trade, TradeEvent, TradeFee, TokenCost
  <1> DEFINE b == BooksOf(w)
             c == BooksOf([w EXCEPT !.sold = sold])
  <1>2. c = Book(TRUE, b.graduated, b.sold + (IF e.isBuy THEN e.tokens ELSE -e.tokens), b.balance)
    <2>1. ("trading" # "unborn") = TRUE
      OBVIOUS
    <2> QED BY <1>1, <2>1 DEF BooksOf, Book, Worlds
  <1>3. b.created /\ c.sold = sold
    BY DEF BooksOf, Book, Worlds
  <1> HIDE DEF e
  <1> QED BY <1>1, <1>2, <1>3 DEF Says, Event, Fill, e

LEMMA SwapLogged ==
    ASSUME NEW b \in Books, NEW u \in Trader, NEW isBuy \in BOOLEAN,
           NEW n \in Nat \ {0}, NEW price \in Nat
    PROVE  Swap(u, isBuy, n, price) \in Event /\ Says(b, Swap(u, isBuy, n, price), b)
  <1> DEFINE e == Swap(u, isBuy, n, price)
  <1>1. e \in SwapEvent /\ e.fee < e.eth
    BY DEF Swap, SwapEvent, TokenCost
  <1> HIDE DEF e
  <1> QED BY <1>1 DEF Says, Event, Fill, e

(* Two logs, each of which says what was done. *)
LEMMA TwoLogs ==
    ASSUME NEW a \in Books, NEW b \in Books, NEW c \in Books, NEW d \in Event, NEW e \in Event,
           Says(a, d, b), Says(b, e, c)
    PROVE  Trace(a, <<d, e>>, c)
  <1> DEFINE logs == <<d, e>>
             g == [k \in 0 .. 2 |-> IF k = 0 THEN a ELSE IF k = 1 THEN b ELSE c]
  <1>1. logs \in Seq(Event) /\ Len(logs) = 2 /\ logs[1] = d /\ logs[2] = e
    OBVIOUS
  <1>2. g \in [0 .. 2 -> Books] /\ g[0] = a /\ g[1] = b /\ g[2] = c
    OBVIOUS
  <1> HIDE DEF g, logs
  <1>3. \A k \in 1 .. 2 : Says(g[k - 1], logs[k], g[k])
    <2>1. \A k \in 1 .. 2 : (k = 1 /\ k - 1 = 0) \/ (k = 2 /\ k - 1 = 1)
      OBVIOUS
    <2> QED BY <1>1, <1>2, <2>1
  <1>4. TraceBy(g, a, logs, c)
    BY <1>1, <1>2, <1>3 DEF TraceBy
  <1> QED BY <1>1, <1>4 DEF Trace, logs

(* What the traders hold in all, after a payment. *)
LEMMA HeldChanges ==
    ASSUME NEW balance \in [Holder -> Int], NEW after \in [Holder -> Int],
           NEW u \in Trader, \A v \in Trader \ {u} : after[v] = balance[v]
    PROVE  SumFunction(Held(after)) = SumFunction(Held(balance)) - balance[u] + after[u]
  <1> DEFINE f == Held(balance)
             x == after[u]
  <1>1. f \in [Trader -> Int] /\ x \in Int /\ f[u] = balance[u]
    BY DEF Held, Holder
  <1>2. Held(after) = [f EXCEPT ![u] = x]
    BY DEF Held
  <1> HIDE DEF f, x
  <1>0. IsFiniteSet(Trader)
    BY EventLogAssumption
  <1>3. SumFunction([f EXCEPT ![u] = x]) = SumFunction(f) - f[u] + x
    BY <1>0, <1>1, OneTermChanges
  <1> QED BY <1>1, <1>2, <1>3 DEF f, x

(* Nobody holds more than all the traders do. *)
LEMMA HeldBounds ==
    ASSUME NEW balance \in [Holder -> Int], \A u \in Trader : balance[u] >= 0
    PROVE  \A u \in Trader : balance[u] <= SumFunction(Held(balance))
  <1>1. \A u \in Trader : Held(balance)[u] \in Nat /\ Held(balance)[u] = balance[u]
    BY DEF Held, Holder
  <1>2. DOMAIN Held(balance) = Trader
    BY DEF Held
  <1> QED BY <1>1, <1>2, SumOfNaturals, EventLogAssumption DEF SumFunction

(* A transaction's logs lead from what the contracts were to what they are,*)
(* and the curve never buys back more than it sold.                        *)
Done(w, tx) ==
    Trace(BooksOf(w), tx.logs, BooksOf(tx.world)) /\ Len(tx.logs) > 0 /\ WorldOK(tx.world)

LEMMA LaunchDone == Done(Unborn, Launch)
  <1> DEFINE all == CurveSupply + Tranche
             minted == Transfer("zero", "curve", all)
             born == [kind |-> "TokenCreated"]
             none == [h \in Holder |-> 0]
             dealt == [none EXCEPT !["curve"] = all]
             w == [Unborn EXCEPT !.phase = "trading",
                                 !.balance = [@ EXCEPT !["curve"] = all]]
             a == Book(FALSE, FALSE, 0, none)
             b == Book(FALSE, FALSE, 0, dealt)
             c == Book(TRUE, FALSE, 0, dealt)
  <1>0. /\ all \in Nat
        /\ minted.from = "zero" /\ minted.to = "curve" /\ minted.value = all
        /\ minted \in TransferEvent /\ minted \in Event /\ born \in Event /\ born.kind = "TokenCreated"
    BY EventLogAssumption DEF Holder, Contract, Transfer, TransferEvent, Party, Event
  <1>1. Launch.logs = <<minted, born>> /\ Len(<<minted, born>>) > 0 /\ Launch.world = w
    BY DEF Launch, Tx
  <1> HIDE DEF minted, born, all
  <1>2. /\ Unborn \in Worlds
        /\ Unborn.phase = "unborn" /\ Unborn.sold = 0 /\ Unborn.balance = none
    BY UnbornOK DEF Unborn, WorldOK
  <1>3. "curve" \in Holder
    BY DEF Holder, Contract
  <1>4. /\ none \in [Holder -> Int] /\ dealt \in [Holder -> Int]
        /\ \A u \in Trader : dealt[u] = 0
    BY <1>0, EventLogAssumption DEF Holder, Contract
  <1>5. dealt = Moved(none, minted)
    BY <1>0, <1>3 DEF Moved, Credited
  <1> HIDE DEF none
  <1>6. w \in Worlds /\ w.phase = "trading" /\ w.sold = 0 /\ w.balance = dealt
    <2>1. w.balance = [Unborn.balance EXCEPT !["curve"] = all]
      BY <1>2 DEF Worlds
    <2>2. w.phase = "trading" /\ w.sold = 0
      BY <1>2 DEF Worlds
    <2>3. w \in Worlds
      BY <1>2, <1>4 DEF Worlds, dealt
    <2> QED BY <1>2, <2>1, <2>2, <2>3
  <1> HIDE DEF dealt, w
  <1>7. a \in Books /\ b \in Books /\ c \in Books
    BY <1>4, EventLogAssumption DEF Book, Books
  <1>8. BooksOf(Unborn) = a /\ BooksOf(w) = c
    <2>1. /\ ("unborn" # "unborn") = FALSE /\ ("unborn" = "graduated") = FALSE
          /\ ("trading" # "unborn") = TRUE /\ ("trading" = "graduated") = FALSE
      OBVIOUS
    <2> QED BY <1>2, <1>6, <2>1 DEF BooksOf
  <1>9. Says(a, minted, b) /\ Says(b, born, c)
    <2>1. /\ a.created = FALSE /\ a.graduated = FALSE /\ a.sold = 0 /\ a.balance = none
          /\ b.created = FALSE /\ b.graduated = FALSE /\ b.sold = 0 /\ b.balance = dealt
      BY DEF Book
    <2> HIDE DEF a
    <2>2. b = Book(a.created, a.graduated, a.sold, Moved(a.balance, minted))
      BY <1>5, <2>1
    <2>3. c = Book(TRUE, b.graduated, 0, b.balance)
      BY <2>1
    <2> HIDE DEF b, c
    <2> QED BY <1>0, <2>1, <2>2, <2>3 DEF Says
  <1>10. WorldOK(w)
    <2>1. DOMAIN Held(dealt) = Trader /\ \A u \in Trader : Held(dealt)[u] = 0
      BY <1>4 DEF Held
    <2>2. SumFunction(Held(dealt)) = 0
      BY <2>1, SumOfZeros, EventLogAssumption DEF SumFunction
    <2> QED BY <1>4, <1>6, <2>2 DEF WorldOK
  <1> HIDE DEF a, b, c
  <1>11. Trace(a, <<minted, born>>, c)
    BY <1>0, <1>7, <1>9, TwoLogs
  <1> QED BY <1>1, <1>8, <1>10, <1>11 DEF Done

(* What was sold is counted before the payment or after it. *)
LEMMA PaidAndSold ==
    ASSUME NEW w \in Worlds, NEW from \in Holder, NEW to \in Holder, NEW n \in Int,
           NEW sold \in 0 .. CurveSupply
    PROVE  LET p == Paid(w, from, to, n)
               q == Paid([w EXCEPT !.sold = sold], from, to, n)
           IN /\ IsPaid(p, w, from, to, n)
              /\ q \in Worlds /\ q.phase = w.phase /\ q.sold = sold /\ q.balance = p.balance
              /\ BooksOf([p EXCEPT !.sold = sold]) = BooksOf(q)
  <1> DEFINE v == [w EXCEPT !.sold = sold]
             p == Paid(w, from, to, n)
             q == Paid(v, from, to, n)
             r == [p EXCEPT !.sold = sold]
  <1>1. v \in Worlds /\ v.phase = w.phase /\ v.sold = sold /\ v.balance = w.balance
    BY DEF Worlds
  <1> HIDE DEF v
  <1>2. IsPaid(p, w, from, to, n)
    BY PaidBalances
  <1>3. IsPaid(q, v, from, to, n)
    BY <1>1, PaidBalances
  <1> HIDE DEF p, q
  <1>4. q \in Worlds /\ q.phase = w.phase /\ q.sold = sold /\ q.balance = p.balance
    BY <1>1, <1>2, <1>3 DEF IsPaid
  <1>5. r.phase = q.phase /\ r.sold = q.sold /\ r.balance = q.balance
    BY <1>2, <1>4 DEF Worlds, IsPaid
  <1> HIDE DEF r
  <1>6. BooksOf(r) = BooksOf(q)
    BY <1>5 DEF BooksOf
  <1> QED BY <1>2, <1>4, <1>6 DEF v, p, q, r

(* A trade on the curve, of either side. *)
LEMMA TradeDone ==
    ASSUME NEW w, WorldOK(w), w.phase = "trading", NEW u \in Trader, NEW isBuy \in BOOLEAN,
           NEW n \in Nat \ {0}, NEW sold \in 0 .. CurveSupply, NEW from, NEW to,
           sold = w.sold + (IF isBuy THEN n ELSE -n),
           \/ isBuy /\ from = "curve" /\ to = u
           \/ ~isBuy /\ from = u /\ to = "curve" /\ n <= w.balance[u]
    PROVE  Done(w, Tx(<<Transfer(from, to, n), Trade(u, isBuy, n, sold)>>,
                      Paid([w EXCEPT !.sold = sold], from, to, n)))
  <1> DEFINE v == [w EXCEPT !.sold = sold]
             p == Paid(w, from, to, n)
             q == Paid(v, from, to, n)
             r == [p EXCEPT !.sold = sold]
             d == Transfer(from, to, n)
             e == Trade(u, isBuy, n, sold)
  <1>1. /\ w \in Worlds /\ from \in Holder /\ to \in Holder /\ u \in Holder /\ n \in Int
        /\ \A x \in Trader : x # "curve"
    BY EventLogAssumption DEF WorldOK, Holder, Contract
  <1>2. /\ IsPaid(p, w, from, to, n)
        /\ q \in Worlds /\ q.phase = w.phase /\ q.sold = sold /\ q.balance = p.balance
        /\ BooksOf(r) = BooksOf(q)
    BY <1>1, PaidAndSold
  <1>3. /\ p \in Worlds /\ p.phase = "trading" /\ p.sold = w.sold /\ q.phase = "trading"
        /\ \A h \in Holder : q.balance[h] =
              w.balance[h] - (IF h = from THEN n ELSE 0) + (IF h = to THEN n ELSE 0)
    <2> HIDE DEF p, q
    <2> QED BY <1>2 DEF IsPaid
  <1>7. d \in Event /\ Says(BooksOf(w), d, BooksOf(p))
    BY <1>1, TransferLogged
  <1>8. e \in Event /\ Says(BooksOf(p), e, BooksOf(r))
    <2> HIDE DEF p
    <2>1. sold = p.sold + (IF isBuy THEN n ELSE -n)
      BY <1>3
    <2> QED BY <1>3, <2>1, TradeLogged
  <1> HIDE DEF v, p, q, r, d, e
  <1>10. Trace(BooksOf(w), <<d, e>>, BooksOf(q))
    <2>1. BooksOf(w) \in Books /\ BooksOf(p) \in Books /\ BooksOf(q) \in Books
      BY <1>1, <1>2, <1>3, BooksOfWorlds
    <2> QED BY <1>2, <1>7, <1>8, <2>1, TwoLogs
  <1>11. WorldOK(q)
    <2>1. /\ w.balance \in [Holder -> Int] /\ q.balance \in [Holder -> Int]
          /\ \A x \in Trader : w.balance[x] >= 0
          /\ SumFunction(Held(w.balance)) = w.sold
      BY <1>1, <1>2 DEF WorldOK, Worlds
    <2>2. /\ \A x \in Trader \ {u} : q.balance[x] = w.balance[x]
          /\ q.balance[u] = w.balance[u] + (IF isBuy THEN n ELSE -n)
      BY <1>1, <1>3, <2>1 DEF Holder
    <2>3. SumFunction(Held(q.balance)) = SumFunction(Held(w.balance)) - w.balance[u] + q.balance[u]
      BY <2>1, <2>2, HeldChanges
    <2>4. \A x \in Trader : q.balance[x] >= 0
      BY <1>1, <2>1, <2>2 DEF Holder
    <2>5. w.sold \in Int /\ w.balance[u] \in Int
      BY <1>1, <2>1, EventLogAssumption DEF Worlds
    <2>6. SumFunction(Held(q.balance)) = sold
      BY <2>1, <2>2, <2>3, <2>5
    <2> QED BY <1>2, <1>3, <2>4, <2>6 DEF WorldOK
  <1>12. Tx(<<d, e>>, q).logs = <<d, e>> /\ Len(<<d, e>>) > 0 /\ Tx(<<d, e>>, q).world = q
    BY DEF Tx
  <1>13. Done(w, Tx(<<d, e>>, q))
    BY <1>10, <1>11, <1>12 DEF Done
  <1> QED BY <1>13 DEF v, q, d, e

(* A transfer between traders. *)
LEMMA SendDone ==
    ASSUME NEW w, WorldOK(w), w.phase = "trading", NEW u \in Trader, NEW v \in Trader
    PROVE  Done(w, Send(w, u, v, w.balance[u]))
  <1> DEFINE n == w.balance[u]
             q == Paid(w, u, v, n)
             d == Transfer(u, v, n)
  <1>1. w \in Worlds /\ u \in Holder /\ v \in Holder /\ n \in Nat
    BY DEF WorldOK, Worlds, Holder
  <1> HIDE DEF n
  <1>2. /\ q \in Worlds /\ q.phase = "trading" /\ q.sold = w.sold
        /\ \A h \in Holder : q.balance[h] =
              w.balance[h] - (IF h = u THEN n ELSE 0) + (IF h = v THEN n ELSE 0)
    <2>1. IsPaid(q, w, u, v, n)
      BY <1>1, PaidBalances
    <2> HIDE DEF q
    <2> QED BY <2>1 DEF IsPaid
  <1>3. d \in Event /\ Says(BooksOf(w), d, BooksOf(q))
    BY <1>1, TransferLogged
  <1> HIDE DEF q, d
  <1>4. Trace(BooksOf(w), <<d>>, BooksOf(q))
    BY <1>1, <1>2, <1>3, OneLog, BooksOfWorlds
  <1>5. WorldOK(q)
    <2> DEFINE mid == [w.balance EXCEPT ![u] = w.balance[u] - n]
    <2>1. /\ w.balance \in [Holder -> Int] /\ q.balance \in [Holder -> Int]
          /\ \A x \in Trader : w.balance[x] >= 0 /\ w.balance[x] \in Int
          /\ SumFunction(Held(w.balance)) = w.sold /\ w.sold \in Int
      BY <1>1, <1>2, EventLogAssumption DEF WorldOK, Worlds, Holder
    <2>2. mid \in [Holder -> Int] /\ mid[u] = w.balance[u] - n /\ mid[v] \in Int
          /\ \A x \in Trader \ {u} : mid[x] = w.balance[x]
      BY <1>1, <2>1
    <2>3. \A x \in Trader \ {v} : q.balance[x] = mid[x]
      BY <1>1, <1>2, <2>1, <2>2 DEF Holder
    <2>4. q.balance[v] = mid[v] + n
      BY <1>1, <1>2, <2>1, <2>2 DEF Holder
    <2> HIDE DEF mid
    <2>5. SumFunction(Held(mid)) = SumFunction(Held(w.balance)) - w.balance[u] + mid[u]
      BY <2>1, <2>2, HeldChanges
    <2>6. SumFunction(Held(q.balance)) = SumFunction(Held(mid)) - mid[v] + q.balance[v]
      BY <2>1, <2>2, <2>3, HeldChanges
    <2>7. SumFunction(Held(q.balance)) = w.sold
      <3>1. SumFunction(Held(mid)) = w.sold - n
        BY <1>1, <2>1, <2>2, <2>5
      <3> QED BY <1>1, <2>1, <2>2, <2>4, <2>6, <3>1
    <2>8. \A x \in Trader : q.balance[x] >= 0
      BY <1>1, <1>2, <2>1 DEF n, Holder
    <2> QED BY <1>2, <2>7, <2>8 DEF WorldOK
  <1>6. Send(w, u, v, n).logs = <<d>> /\ Len(<<d>>) > 0 /\ Send(w, u, v, n).world = q
    BY DEF Send, Tx, d, q
  <1>7. Done(w, Send(w, u, v, n))
    BY <1>4, <1>5, <1>6 DEF Done
  <1> QED BY <1>7 DEF n

(* A swap in the pool, of either side. *)
LEMMA SwapDone ==
    ASSUME NEW w \in Worlds, w.phase = "graduated", NEW u \in Trader, NEW isBuy \in BOOLEAN,
           NEW n \in Nat \ {0}, NEW price \in Nat, NEW from \in Holder, NEW to \in Holder
    PROVE  Done(w, Tx(<<Transfer(from, to, n), Swap(u, isBuy, n, price)>>, Paid(w, from, to, n)))
  <1> DEFINE q == Paid(w, from, to, n)
             d == Transfer(from, to, n)
             e == Swap(u, isBuy, n, price)
  <1>1. IsPaid(q, w, from, to, n)
    BY PaidBalances
  <1>2. d \in Event /\ Says(BooksOf(w), d, BooksOf(q))
    BY TransferLogged
  <1> HIDE DEF q, d
  <1>3. q \in Worlds /\ q.phase = "graduated"
    BY <1>1 DEF IsPaid
  <1>4. BooksOf(q) \in Books /\ BooksOf(w) \in Books
    BY <1>3, BooksOfWorlds
  <1>5. e \in Event /\ Says(BooksOf(q), e, BooksOf(q))
    BY <1>4, SwapLogged
  <1> HIDE DEF e
  <1>6. Trace(BooksOf(w), <<d, e>>, BooksOf(q))
    BY <1>2, <1>4, <1>5, TwoLogs
  <1>7. Tx(<<d, e>>, q).logs = <<d, e>> /\ Len(<<d, e>>) > 0 /\ Tx(<<d, e>>, q).world = q
    BY DEF Tx
  <1>8. WorldOK(q)
    BY <1>3 DEF WorldOK
  <1>9. Done(w, Tx(<<d, e>>, q))
    BY <1>6, <1>7, <1>8 DEF Done
  <1> QED BY <1>9 DEF q, d, e

(* Graduation: the pool ends with what the curve had, by way of the        *)
(* migrator and with or without a swap in between.                         *)
LEMMA GraduateDone ==
    ASSUME NEW w \in Worlds, w.phase = "trading", NEW u \in Trader, NEW arb \in {0, 1}
    PROVE  Done(w, Graduate(w, u, arb))
  <1> DEFINE all == w.balance["curve"]
             a == Paid(w, "curve", "migrator", all)
             b == Paid(a, "migrator", "pool", arb)
             c == Paid(b, "migrator", "pool", all - arb)
             o == [w EXCEPT !.phase = "graduated"]
             q == Paid(o, "curve", "pool", all)
             da == Transfer("curve", "migrator", all)
             db == Transfer("migrator", "pool", arb)
             dc == Transfer("migrator", "pool", all - arb)
             swap == Swap(u, FALSE, arb, 1 + w.sold)
             done == [kind |-> "Graduated"]
             logs == <<da>> \o (IF arb = 0 THEN << >> ELSE <<db, swap>>) \o <<dc, done>>
  <1>0. Graduate(w, u, arb).logs = logs /\ Graduate(w, u, arb).world = q
    BY DEF Graduate, Tx
  <1>1. "curve" \in Holder /\ "migrator" \in Holder /\ "pool" \in Holder
        /\ all \in Int /\ arb \in Int /\ all - arb \in Int
        /\ done \in Event /\ done.kind = "Graduated"
    BY DEF Worlds, Holder, Contract, Event
  <1> HIDE DEF all
  <1>2. /\ IsPaid(a, w, "curve", "migrator", all)
        /\ da \in Event /\ Says(BooksOf(w), da, BooksOf(a))
    BY <1>1, PaidBalances, TransferLogged
  <1> HIDE DEF a, da
  <1>3. a \in Worlds /\ a.phase = "trading" /\ a.sold = w.sold
    BY <1>2 DEF IsPaid
  <1>4. /\ IsPaid(b, a, "migrator", "pool", arb)
        /\ db \in Event /\ Says(BooksOf(a), db, BooksOf(b))
    BY <1>1, <1>3, PaidBalances, TransferLogged
  <1> HIDE DEF b, db
  <1>5. b \in Worlds /\ b.phase = "trading" /\ b.sold = w.sold
    BY <1>3, <1>4 DEF IsPaid
  <1>6. /\ IsPaid(c, b, "migrator", "pool", all - arb)
        /\ dc \in Event /\ Says(BooksOf(b), dc, BooksOf(c))
    BY <1>1, <1>5, PaidBalances, TransferLogged
  <1> HIDE DEF c, dc
  <1>7. o \in Worlds /\ o.phase = "graduated" /\ o.sold = w.sold /\ o.balance = w.balance
    BY DEF Worlds
  <1> HIDE DEF o
  <1>8. IsPaid(q, o, "curve", "pool", all)
    BY <1>1, <1>7, PaidBalances
  <1> HIDE DEF q, swap, done
  <1>9. WorldOK(q)
    BY <1>7, <1>8 DEF WorldOK, IsPaid
  <1>10. c \in Worlds /\ c.phase = "trading" /\ c.sold = w.sold
    BY <1>5, <1>6 DEF IsPaid
  <1>11. q \in Worlds /\ q.phase = "graduated" /\ q.sold = w.sold
    BY <1>7, <1>8 DEF IsPaid
  <1>12. q.balance = c.balance
    <2>1. q.balance \in [Holder -> Int] /\ c.balance \in [Holder -> Int]
          /\ \A h \in Holder : w.balance[h] \in Int
      BY <1>10, <1>11 DEF Worlds
    <2>2. \A h \in Holder : q.balance[h] =
            w.balance[h] - (IF h = "curve" THEN all ELSE 0) + (IF h = "pool" THEN all ELSE 0)
      BY <1>7, <1>8 DEF IsPaid
    <2>3. \A h \in Holder : a.balance[h] =
            w.balance[h] - (IF h = "curve" THEN all ELSE 0) + (IF h = "migrator" THEN all ELSE 0)
      BY <1>2 DEF IsPaid
    <2>4. \A h \in Holder : b.balance[h] =
            a.balance[h] - (IF h = "migrator" THEN arb ELSE 0) + (IF h = "pool" THEN arb ELSE 0)
      BY <1>4 DEF IsPaid
    <2>5. \A h \in Holder : c.balance[h] =
            b.balance[h] - (IF h = "migrator" THEN all - arb ELSE 0)
                         + (IF h = "pool" THEN all - arb ELSE 0)
      BY <1>6 DEF IsPaid
    <2>6. \A h \in Holder : q.balance[h] = c.balance[h]
      BY <1>1, <2>1, <2>2, <2>3, <2>4, <2>5
    <2> QED BY <2>1, <2>6
  <1>13. /\ BooksOf(w) \in Books /\ BooksOf(a) \in Books /\ BooksOf(b) \in Books
         /\ BooksOf(c) \in Books /\ BooksOf(q) \in Books
    BY <1>3, <1>5, <1>10, <1>11, BooksOfWorlds
  <1>14. Trace(BooksOf(a), IF arb = 0 THEN << >> ELSE <<db, swap>>, BooksOf(b))
    <2>1. CASE arb = 0
      <3>1. b.balance = a.balance
        <4>1. /\ a.balance \in [Holder -> Int] /\ b.balance \in [Holder -> Int]
              /\ \A h \in Holder : b.balance[h] =
                    a.balance[h] - (IF h = "migrator" THEN arb ELSE 0) + (IF h = "pool" THEN arb ELSE 0)
          BY <1>3, <1>4, <1>5 DEF IsPaid, Worlds
        <4>2. \A h \in Holder : b.balance[h] = a.balance[h]
          BY <2>1, <4>1
        <4> QED BY <4>1, <4>2
      <3>2. BooksOf(b) = BooksOf(a)
        BY <1>3, <1>5, <3>1 DEF BooksOf
      <3>3. Trace(BooksOf(a), << >>, BooksOf(b))
        BY <1>13, <3>2, EmptyTrace
      <3> QED BY <2>1, <3>3
    <2>2. CASE arb # 0
      <3>1. arb \in Nat \ {0} /\ 1 + w.sold \in Nat
        BY <2>2, EventLogAssumption DEF Worlds
      <3>2. swap \in Event /\ Says(BooksOf(b), swap, BooksOf(b))
        BY <1>13, <3>1, SwapLogged DEF swap
      <3>3. Trace(BooksOf(a), <<db, swap>>, BooksOf(b))
        BY <1>4, <1>13, <3>2, TwoLogs
      <3> QED BY <2>2, <3>3
    <2> QED BY <2>1, <2>2
  <1>15. Says(BooksOf(c), done, BooksOf(q))
    <2>1. /\ ("trading" # "unborn") = TRUE /\ ("trading" = "graduated") = FALSE
          /\ ("graduated" # "unborn") = TRUE /\ ("graduated" = "graduated") = TRUE
      OBVIOUS
    <2>2. BooksOf(q) = Book(TRUE, TRUE, w.sold, c.balance)
      BY <1>11, <1>12, <2>1 DEF BooksOf
    <2>3. BooksOf(c) = Book(TRUE, FALSE, w.sold, c.balance)
      BY <1>10, <2>1 DEF BooksOf
    <2>4. BooksOf(q) = Book(BooksOf(c).created, TRUE, BooksOf(c).sold, BooksOf(c).balance)
      BY <2>2, <2>3 DEF Book
    <2> QED BY <1>1, <2>4 DEF Says
  <1>16. Trace(BooksOf(w), <<da>>, BooksOf(a))
    BY <1>2, <1>13, OneLog
  <1>17. Trace(BooksOf(b), <<dc, done>>, BooksOf(q))
    BY <1>1, <1>6, <1>13, <1>15, TwoLogs
  <1> DEFINE mid == IF arb = 0 THEN << >> ELSE <<db, swap>>
  <1> HIDE DEF mid
  <1>18. Trace(BooksOf(w), <<da>> \o mid, BooksOf(b))
    BY <1>14, <1>16, LogsThenLogs DEF mid
  <1>19. Trace(BooksOf(w), (<<da>> \o mid) \o <<dc, done>>, BooksOf(q))
    BY <1>17, <1>18, LogsThenLogs
  <1>20. Trace(BooksOf(w), logs, BooksOf(q))
    BY <1>19 DEF mid
  <1>21. Len(logs) > 0
    <2> DEFINE s == <<da>> \o mid
               t == <<dc, done>>
    <2>1. s \in Seq(Event) /\ t \in Seq(Event) /\ Len(t) = 2
      BY <1>17, <1>18 DEF Trace
    <2> HIDE DEF s, t
    <2>2. Len(s \o t) > 0
      BY <2>1
    <2> QED BY <2>2 DEF s, t, mid
  <1> HIDE DEF logs
  <1> QED BY <1>0, <1>9, <1>20, <1>21 DEF Done

(* Every transaction does what its logs say. *)
LEMMA TxDone ==
    ASSUME NEW w, WorldOK(w), NEW tx \in Txs(w)
    PROVE  Done(w, tx)
  <1>0. /\ w \in Worlds /\ w.sold \in Nat /\ w.sold <= CurveSupply /\ CurveSupply \in Nat
        /\ \A u \in Trader : w.balance[u] \in Int
    BY EventLogAssumption DEF WorldOK, Worlds, Holder
  <1>1. CASE w.phase = "unborn"
    BY <1>1, LaunchDone DEF Txs, WorldOK
  <1>2. CASE w.phase = "trading" /\ w.sold < CurveSupply
    <2>1. PICK u \in Trader :
            \/ \E n \in 1 .. CurveSupply - w.sold : tx = Buy(w, u, n)
            \/ \E n \in 1 .. w.balance[u] : tx = Sell(w, u, n)
            \/ \E v \in Trader : tx = Send(w, u, v, w.balance[u])
      <3> DEFINE Bs == {Buy(w, u, n) : u \in Trader, n \in 1 .. (CurveSupply - w.sold)}
                 Ss == UNION {{Sell(w, u, n) : n \in 1 .. w.balance[u]} : u \in Trader}
                 Ts == UNION {{Send(w, u, v, w.balance[u]) : v \in Trader} :
                                u \in {x \in Trader : w.balance[x] > 0}}
      <3>1. tx \in Bs \/ tx \in Ss \/ tx \in Ts
        <4>1. tx \in CurveTxs(w)
          BY <1>0, <1>2 DEF Txs
        <4> QED BY <4>1 DEF CurveTxs
      <3>2. tx \in Bs => \E u \in Trader, n \in 1 .. CurveSupply - w.sold : tx = Buy(w, u, n)
        OBVIOUS
      <3>3. tx \in Ss => \E u \in Trader : \E n \in 1 .. w.balance[u] : tx = Sell(w, u, n)
        OBVIOUS
      <3>4. tx \in Ts => \E u, v \in Trader : tx = Send(w, u, v, w.balance[u])
        OBVIOUS
      <3> QED BY <3>1, <3>2, <3>3, <3>4
    <2>2. ASSUME NEW n \in 1 .. CurveSupply - w.sold, tx = Buy(w, u, n) PROVE Done(w, tx)
      <3>1. n \in Nat \ {0} /\ w.sold + n \in 0 .. CurveSupply
        BY <1>0
      <3>2. tx = Tx(<<Transfer("curve", u, n), Trade(u, TRUE, n, w.sold + n)>>,
                    Paid([w EXCEPT !.sold = w.sold + n], "curve", u, n))
        BY <2>2 DEF Buy
      <3> QED BY <1>2, <3>1, <3>2, TradeDone
    <2>3. ASSUME NEW n \in 1 .. w.balance[u], tx = Sell(w, u, n) PROVE Done(w, tx)
      <3>0. w.balance[u] <= w.sold
        BY <1>0, <1>2, HeldBounds DEF WorldOK, Worlds
      <3>1. n \in Nat \ {0} /\ w.sold - n \in 0 .. CurveSupply /\ n <= w.balance[u]
            /\ w.sold - n = w.sold + (-n)
        BY <1>0, <3>0
      <3>2. tx = Tx(<<Transfer(u, "curve", n), Trade(u, FALSE, n, w.sold - n)>>,
                    Paid([w EXCEPT !.sold = w.sold - n], u, "curve", n))
        BY <2>3 DEF Sell
      <3> QED BY <1>2, <3>1, <3>2, TradeDone
    <2>4. ASSUME NEW v \in Trader, tx = Send(w, u, v, w.balance[u]) PROVE Done(w, tx)
      BY <1>2, <2>4, SendDone
    <2> QED BY <2>1, <2>2, <2>3, <2>4
  <1>3. CASE w.phase = "trading" /\ w.sold = CurveSupply
    <2>1. PICK u \in Trader, arb \in {0, 1} : tx = Graduate(w, u, arb)
      BY <1>0, <1>3 DEF Txs
    <2> QED BY <1>0, <1>3, <2>1, GraduateDone
  <1>4. CASE w.phase = "graduated"
    <2>1. PICK u \in Trader, price \in PoolPrice :
            \/ \E n \in 1 .. Lesser(1, w.balance["pool"]) : tx = PoolBuy(w, u, n, price)
            \/ w.balance[u] > 0 /\ tx = PoolSell(w, u, w.balance[u], price)
      <3>1. tx \in PoolTxs(w)
        BY <1>4 DEF Txs
      <3> QED BY <3>1 DEF PoolTxs
    <2>2. price \in Nat /\ u \in Holder /\ "pool" \in Holder
      BY EventLogAssumption DEF Holder, Contract
    <2>3. ASSUME NEW n \in 1 .. Lesser(1, w.balance["pool"]), tx = PoolBuy(w, u, n, price)
          PROVE  Done(w, tx)
      <3>1. n \in Nat \ {0}
        BY <1>0, <2>2 DEF Worlds, Lesser
      <3>2. tx = Tx(<<Transfer("pool", u, n), Swap(u, TRUE, n, price)>>, Paid(w, "pool", u, n))
        BY <2>3 DEF PoolBuy
      <3> QED BY <1>0, <1>4, <2>2, <3>1, <3>2, SwapDone
    <2>4. ASSUME w.balance[u] > 0, tx = PoolSell(w, u, w.balance[u], price) PROVE Done(w, tx)
      <3> DEFINE n == w.balance[u]
      <3>1. n \in Nat \ {0}
        BY <1>0, <2>4
      <3>2. tx = Tx(<<Transfer(u, "pool", n), Swap(u, FALSE, n, price)>>, Paid(w, u, "pool", n))
        BY <2>4 DEF PoolSell
      <3> HIDE DEF n
      <3> QED BY <1>0, <1>4, <2>2, <3>1, <3>2, SwapDone
    <2> QED BY <2>1, <2>3, <2>4
  <1>5. w.phase \in {"unborn", "trading", "graduated"}
    BY <1>0 DEF Worlds
  <1> QED BY <1>0, <1>1, <1>2, <1>3, <1>4, <1>5

-----------------------------------------------------------------------------
(* Rows, and what is summed over them *)

Row == [id : Position, event : Fill]
Column == {"eth", "tokens", "fee"}

Before(p, q) == p[1] < q[1] \/ (p[1] = q[1] /\ p[2] < q[2])

LEMMA FillColumns == \A e \in Fill : \A column \in Column : e[column] \in Nat
  BY DEF Fill, TradeEvent, SwapEvent, Column

LEMMA MaxOfTwo ==
    ASSUME NEW a \in Nat, NEW b \in Nat
    PROVE  Max({a, b}) = IF a >= b THEN a ELSE b
  <1> DEFINE m == IF a >= b THEN a ELSE b
  <1>1. m \in {a, b} /\ \A y \in {a, b} : m >= y
    OBVIOUS
  <1>2. \A x \in {a, b} : (\A y \in {a, b} : x >= y) => x = m
    OBVIOUS
  <1> HIDE DEF m
  <1>3. Max({a, b}) \in {a, b} /\ \A y \in {a, b} : Max({a, b}) >= y
    BY <1>1 DEF Max
  <1> QED BY <1>2, <1>3 DEF m

LEMMA MinOfTwo ==
    ASSUME NEW a \in Nat, NEW b \in Nat
    PROVE  Min({a, b}) = IF a <= b THEN a ELSE b
  <1> DEFINE m == IF a <= b THEN a ELSE b
  <1>1. m \in {a, b} /\ \A y \in {a, b} : m <= y
    OBVIOUS
  <1>2. \A x \in {a, b} : (\A y \in {a, b} : x <= y) => x = m
    OBVIOUS
  <1> HIDE DEF m
  <1>3. Min({a, b}) \in {a, b} /\ \A y \in {a, b} : Min({a, b}) <= y
    BY <1>1 DEF Min
  <1> QED BY <1>2, <1>3 DEF m

(* A member that bounds the others is the extreme one. *)
LEMMA Extremes ==
    ASSUME NEW S \in SUBSET Nat, NEW m \in S
    PROVE  /\ (\A y \in S : m >= y) => Max(S) = m
           /\ (\A y \in S : m <= y) => Min(S) = m
  <1>1. ASSUME \A y \in S : m >= y PROVE Max(S) = m
    <2> DEFINE x == Max(S)
    <2>1. x \in S /\ \A y \in S : x >= y
      BY <1>1 DEF Max
    <2> HIDE DEF x
    <2>2. x \in Nat /\ m \in Nat /\ x >= m /\ m >= x
      BY <1>1, <2>1
    <2>3. x = m
      BY <2>2
    <2> QED BY <2>3 DEF x
  <1>2. ASSUME \A y \in S : m <= y PROVE Min(S) = m
    <2> DEFINE x == Min(S)
    <2>1. x \in S /\ \A y \in S : x <= y
      BY <1>2 DEF Min
    <2> HIDE DEF x
    <2>2. x \in Nat /\ m \in Nat /\ x <= m /\ m <= x
      BY <1>2, <2>1
    <2>3. x = m
      BY <2>2
    <2> QED BY <2>3 DEF x
  <1> QED BY <1>1, <1>2

LEMMA SumOfNothing == \A column \in Column : SumOf({}, column) = 0
  <1> SUFFICES ASSUME NEW column \in Column PROVE SumOf({}, column) = 0
    OBVIOUS
  <1> DEFINE f == [row \in {} |-> row.event[column]]
  <1>1. DOMAIN f = {}
    OBVIOUS
  <1>2. SumFunction(f) = 0
    BY <1>1, SumEmpty DEF SumFunction
  <1> QED BY <1>2 DEF SumOf

LEMMA SumOfType ==
    ASSUME NEW rows \in SUBSET Row, IsFiniteSet(rows), NEW column \in Column
    PROVE  SumOf(rows, column) \in Nat
  <1> DEFINE f == [row \in rows |-> row.event[column]]
  <1>1. DOMAIN f = rows /\ \A row \in rows : f[row] \in Nat
    BY FillColumns DEF Row
  <1> HIDE DEF f
  <1>2. SumFunction(f) \in Nat
    BY <1>1, SumOfNaturals DEF SumFunction
  <1> QED BY <1>2 DEF SumOf, f

(* A new row adds its column. *)
LEMMA SumOfMore ==
    ASSUME NEW rows \in SUBSET Row, IsFiniteSet(rows), NEW row \in Row, row \notin rows,
           NEW column \in Column
    PROVE  SumOf(rows \cup {row}, column) = SumOf(rows, column) + row.event[column]
  <1> DEFINE f == [r \in rows |-> r.event[column]]
             g == [r \in rows \cup {row} |-> r.event[column]]
  <1>1. /\ f \in [rows -> Int] /\ g \in [rows \cup {row} -> Int]
        /\ \A r \in rows : g[r] = f[r]
        /\ g[row] = row.event[column]
    BY FillColumns DEF Row
  <1> HIDE DEF f, g
  <1>2. SumFunction(g) = SumFunction(f) + g[row]
    <2>1. f \in [rows -> Int] /\ g \in [rows \cup {row} -> Int]
      BY <1>1
    <2>2. \A r \in rows : g[r] = f[r]
      BY <1>1
    <2> QED BY <2>1, <2>2, OneTermMore
  <1> QED BY <1>1, <1>2 DEF SumOf, f, g

-----------------------------------------------------------------------------
(* Candles *)

(* Candle c is made of these trades, the last of which is its mark. *)
CandleOK(c, rows) ==
    /\ c \in CandleRow
    /\ \E high, low \in rows : c.high = high.event.price /\ c.low = low.event.price
    /\ \A row \in rows : row.event.price <= c.high /\ c.low <= row.event.price
    /\ c.count = Cardinality(rows) /\ c.volume = SumOf(rows, "eth")
    /\ \E first, last \in rows :
         /\ \A row \in rows : PositionLte(first.id, row.id) /\ PositionLte(row.id, last.id)
         /\ c.open = first.event.price /\ c.close = last.event.price /\ c.last = last.id

LEMMA RowFields ==
    \A row \in Row : /\ row.id \in Position /\ row.id[1] \in Nat /\ row.id[2] \in Nat
                     /\ row.event.price \in Nat /\ row.event.eth \in Nat
  BY DEF Row, Position, Fill, TradeEvent, SwapEvent

LEMMA CandleOpens ==
    ASSUME NEW row \in Row
    PROVE  CandleOK(Candle(<< >>, row.id, row.event), {row})
  <1> DEFINE e == row.event
             c == [open |-> e.price, high |-> e.price, low |-> e.price, close |-> e.price,
                   volume |-> e.eth, count |-> 1, last |-> row.id]
  <1>1. Candle(<< >>, row.id, row.event) = c
    BY DEF Candle
  <1>2. c \in CandleRow
    BY RowFields DEF CandleRow, Position
  <1>3. PositionLte(row.id, row.id)
    BY RowFields DEF PositionLte
  <1>4. Cardinality({row}) = 1
    BY FS_Singleton
  <1>5. SumOf({row}, "eth") = e.eth
    <2>1. SumOf({} \cup {row}, "eth") = SumOf({}, "eth") + row.event["eth"]
      BY SumOfMore, FS_EmptySet DEF Column
    <2>2. SumOf({}, "eth") = 0
      BY SumOfNothing DEF Column
    <2>3. {} \cup {row} = {row} /\ row.event["eth"] \in Nat
      BY RowFields
    <2> QED BY <2>1, <2>2, <2>3
  <1>6. e.price <= e.price
    BY RowFields
  <1>7. CandleOK(c, {row})
    <2>1. /\ c.high = row.event.price /\ c.low = row.event.price /\ c.count = 1
          /\ c.volume = e.eth /\ c.open = row.event.price /\ c.close = row.event.price
          /\ c.last = row.id
      OBVIOUS
    <2> HIDE DEF c
    <2> QED BY <1>2, <1>3, <1>4, <1>5, <1>6, <2>1 DEF CandleOK
  <1> QED BY <1>1, <1>7

LEMMA CandleGrows ==
    ASSUME NEW rows \in SUBSET Row, IsFiniteSet(rows), NEW row \in Row, NEW c, CandleOK(c, rows),
           \A r \in rows : Before(r.id, row.id)
    PROVE  CandleOK(Candle(c, row.id, row.event), rows \cup {row})
  <1> DEFINE e == row.event
             d == [c EXCEPT !.high = Max({@, e.price}), !.low = Min({@, e.price}), !.close = e.price,
                            !.volume = @ + e.eth, !.count = @ + 1, !.last = row.id]
             all == rows \cup {row}
  <1>0. e.price \in Nat /\ e.eth \in Nat /\ row.id \in Position
    BY RowFields
  <1>1. PICK high \in rows, low \in rows : c.high = high.event.price /\ c.low = low.event.price
    BY DEF CandleOK
  <1>2. PICK first \in rows, last \in rows :
          /\ \A r \in rows : PositionLte(first.id, r.id) /\ PositionLte(r.id, last.id)
          /\ c.open = first.event.price /\ c.close = last.event.price /\ c.last = last.id
    BY DEF CandleOK
  <1>3. /\ c \in CandleRow
        /\ c.high \in Nat /\ c.low \in Nat /\ c.volume \in Nat /\ c.count \in Nat
    BY DEF CandleOK, CandleRow
  <1>4. c # << >>
    <2>1. "open" \in DOMAIN c
      BY <1>3 DEF CandleRow
    <2>2. DOMAIN << >> = {}
      OBVIOUS
    <2> QED BY <2>1, <2>2
  <1>5. \A r \in all : r.id[1] \in Nat /\ r.id[2] \in Nat
    BY RowFields
  <1>6. ~PositionLte(row.id, c.last)
    <2>1. Before(last.id, row.id)
      BY <1>2
    <2> QED BY <1>2, <1>5, <2>1 DEF Before, PositionLte
  <1>7. Candle(c, row.id, e) = d
    BY <1>4, <1>6 DEF Candle
  <1>8. /\ d \in CandleRow
        /\ d.open = c.open /\ d.close = e.price /\ d.last = row.id
        /\ d.high = (IF c.high >= e.price THEN c.high ELSE e.price)
        /\ d.low = (IF c.low <= e.price THEN c.low ELSE e.price)
        /\ d.count = c.count + 1 /\ d.volume = c.volume + e.eth
    <2> DEFINE h == Max({c.high, e.price})
               l == Min({c.low, e.price})
    <2>1. /\ h = (IF c.high >= e.price THEN c.high ELSE e.price) /\ h \in Nat
          /\ l = (IF c.low <= e.price THEN c.low ELSE e.price) /\ l \in Nat
      BY <1>0, <1>3, MaxOfTwo, MinOfTwo
    <2> HIDE DEF h, l
    <2>2. d = [c EXCEPT !.high = h, !.low = l, !.close = e.price,
                        !.volume = c.volume + e.eth, !.count = c.count + 1, !.last = row.id]
      BY DEF h, l
    <2> HIDE DEF d
    <2>3. /\ d.open = c.open /\ d.close = e.price /\ d.last = row.id
          /\ d.high = h /\ d.low = l
          /\ d.count = c.count + 1 /\ d.volume = c.volume + e.eth
      BY <1>3, <2>2 DEF CandleRow
    <2> DEFINE v == c.volume + e.eth
               k == c.count + 1
               i == row.id
               p == e.price
    <2>4. v \in Nat /\ k \in Nat /\ i \in Nat \X Nat /\ p \in Nat
      BY <1>0, <1>3 DEF Position
    <2>5. d = [c EXCEPT !.high = h, !.low = l, !.close = p, !.volume = v, !.count = k, !.last = i]
      BY <2>2
    <2> HIDE DEF v, k, i, p
    <2>6. d \in CandleRow
      BY <1>3, <2>1, <2>4, <2>5 DEF CandleRow
    <2> QED BY <2>1, <2>3, <2>6
  <1> HIDE DEF d
  <1>9. \E top, bottom \in all : d.high = top.event.price /\ d.low = bottom.event.price
    <2>1. \E top \in all : d.high = top.event.price
      BY <1>1, <1>8
    <2>2. \E bottom \in all : d.low = bottom.event.price
      BY <1>1, <1>8
    <2> QED BY <2>1, <2>2
  <1>10. \A r \in all : r.event.price <= d.high /\ d.low <= r.event.price
    <2>1. \A r \in rows : r.event.price \in Nat /\ r.event.price <= c.high /\ c.low <= r.event.price
      BY RowFields DEF CandleOK
    <2>2. \A r \in rows : r.event.price <= d.high /\ d.low <= r.event.price
      BY <1>0, <1>3, <1>8, <2>1
    <2>3. e.price <= d.high /\ d.low <= e.price
      BY <1>0, <1>3, <1>8
    <2> QED BY <2>2, <2>3
  <1>11. row \notin rows
    BY <1>5 DEF Before
  <1>12. d.count = Cardinality(all)
    BY <1>8, <1>11, FS_AddElement DEF CandleOK
  <1>13. d.volume = SumOf(all, "eth")
    <2>1. SumOf(all, "eth") = SumOf(rows, "eth") + row.event["eth"]
      BY <1>11, SumOfMore DEF Column
    <2> QED BY <1>8, <2>1 DEF CandleOK
  <1>14. \A r \in all : PositionLte(first.id, r.id) /\ PositionLte(r.id, row.id)
    <2>1. \A r \in rows : PositionLte(r.id, row.id)
      BY <1>5 DEF Before, PositionLte
    <2>2. PositionLte(row.id, row.id)
      BY <1>5 DEF PositionLte
    <2>3. PositionLte(first.id, row.id)
      BY <1>2, <2>1
    <2> QED BY <1>2, <2>1, <2>2, <2>3
  <1>15. first \in all /\ row \in all
    BY <1>2
  <1> HIDE DEF all
  <1>16. \E f, l \in all :
            /\ \A r \in all : PositionLte(f.id, r.id) /\ PositionLte(r.id, l.id)
            /\ d.open = f.event.price /\ d.close = l.event.price /\ d.last = l.id
    BY <1>2, <1>8, <1>14, <1>15
  <1>17. CandleOK(d, all)
    BY <1>8, <1>9, <1>10, <1>12, <1>13, <1>16 DEF CandleOK
  <1> QED BY <1>7, <1>17 DEF all

(* What the tables say of the trades recorded in them. *)
RowsIn(trades, key) == {row \in trades : key \in BucketsFor(row.id[1])}
RowsOf(trades, u, isBuy) == {row \in trades : row.event.trader = u /\ row.event.isBuy = isBuy}

CandlesOK(candles, trades) ==
    /\ DOMAIN candles = UNION {BucketsFor(row.id[1]) : row \in trades}
    /\ \A key \in DOMAIN candles : CandleOK(candles[key], RowsIn(trades, key))

LEMMA BucketsAgain ==
    ASSUME NEW candles, NEW trades \in SUBSET Row, IsFiniteSet(trades), CandlesOK(candles, trades),
           NEW row \in Row, \A r \in trades : Before(r.id, row.id)
    PROVE  CandlesOK(Upserted(candles, row.id, row.event), trades \cup {row})
  <1> DEFINE keys == BucketsFor(row.id[1])
             more == trades \cup {row}
             after == Upserted(candles, row.id, row.event)
  <1>1. DOMAIN after = DOMAIN candles \cup keys
    BY DEF Upserted
  <1>2. DOMAIN after = UNION {BucketsFor(r.id[1]) : r \in more}
    BY <1>1 DEF CandlesOK
  <1>3. ASSUME NEW key \in DOMAIN after PROVE CandleOK(after[key], RowsIn(more, key))
    <2>0. /\ RowsIn(trades, key) \in SUBSET Row /\ IsFiniteSet(RowsIn(trades, key))
          /\ \A r \in RowsIn(trades, key) : Before(r.id, row.id)
      BY FS_Subset DEF RowsIn
    <2>1. CASE key \notin keys
      <3>1. key \in DOMAIN candles /\ after[key] = candles[key]
        BY <1>1, <2>1 DEF Upserted
      <3>2. RowsIn(more, key) = RowsIn(trades, key)
        BY <2>1 DEF RowsIn
      <3> QED BY <3>1, <3>2 DEF CandlesOK
    <2>2. CASE key \in keys
      <3>1. RowsIn(more, key) = RowsIn(trades, key) \cup {row}
        BY <2>2 DEF RowsIn
      <3>2. CASE key \notin DOMAIN candles
        <4>1. after[key] = Candle(<< >>, row.id, row.event)
          BY <1>1, <2>2, <3>2 DEF Upserted
        <4>2. RowsIn(trades, key) = {}
          BY <3>2 DEF RowsIn, CandlesOK
        <4>3. RowsIn(more, key) = {row}
          BY <3>1, <4>2
        <4> QED BY <4>1, <4>3, CandleOpens
      <3>3. CASE key \in DOMAIN candles
        <4>1. after[key] = Candle(candles[key], row.id, row.event)
          BY <1>1, <2>2, <3>3 DEF Upserted
        <4>2. CandleOK(candles[key], RowsIn(trades, key))
          BY <3>3 DEF CandlesOK
        <4>3. CandleOK(Candle(candles[key], row.id, row.event), RowsIn(trades, key) \cup {row})
          BY <2>0, <4>2, CandleGrows
        <4> QED BY <3>1, <4>1, <4>3
      <3> QED BY <3>2, <3>3
    <2> QED BY <2>1, <2>2
  <1> HIDE DEF after, more
  <1>4. CandlesOK(after, more)
    BY <1>2, <1>3 DEF CandlesOK
  <1> QED BY <1>4 DEF after, more

BasisRow == [bought : Nat, sold : Nat, ethIn : Nat, ethOut : Nat]

BasisOK(b, buys, sells) ==
    /\ b.bought = SumOf(buys, "tokens") /\ b.ethIn = SumOf(buys, "eth")
    /\ b.sold = SumOf(sells, "tokens") /\ b.ethOut = SumOf(sells, "eth") - SumOf(sells, "fee")

BasesOK(basis, trades) ==
    \A u \in Trader : BasisOK(basis[u], RowsOf(trades, u, TRUE), RowsOf(trades, u, FALSE))

LEMMA BasisGrows ==
    ASSUME NEW b \in BasisRow, NEW e \in Fill
    PROVE  /\ Basis(b, e) \in BasisRow
           /\ e.isBuy => /\ Basis(b, e).bought = b.bought + e.tokens
                         /\ Basis(b, e).ethIn = b.ethIn + e.eth
                         /\ Basis(b, e).sold = b.sold /\ Basis(b, e).ethOut = b.ethOut
           /\ ~e.isBuy => /\ Basis(b, e).sold = b.sold + e.tokens
                          /\ Basis(b, e).ethOut = b.ethOut + (e.eth - e.fee)
                          /\ Basis(b, e).bought = b.bought /\ Basis(b, e).ethIn = b.ethIn
  <1>1. e.tokens \in Nat /\ e.eth \in Nat /\ e.fee \in Nat /\ e.eth > e.fee /\ e.isBuy \in BOOLEAN
    BY DEF Fill, TradeEvent, SwapEvent
  <1>2. e.eth - e.fee \in Nat
    BY <1>1
  <1>3. /\ b.bought \in Nat /\ b.ethIn \in Nat /\ b.sold \in Nat /\ b.ethOut \in Nat
    BY DEF BasisRow
  <1>4. CASE e.isBuy
    <2> DEFINE x == b.bought + e.tokens
               y == b.ethIn + e.eth
               c == [b EXCEPT !.bought = x, !.ethIn = y]
    <2>1. Basis(b, e) = c
      BY <1>4 DEF Basis
    <2>2. x \in Nat /\ y \in Nat
      BY <1>1, <1>3
    <2> HIDE DEF x, y
    <2>3. c \in BasisRow /\ c.bought = x /\ c.ethIn = y /\ c.sold = b.sold /\ c.ethOut = b.ethOut
      BY <2>2 DEF BasisRow
    <2> QED BY <1>4, <2>1, <2>3 DEF x, y
  <1>5. CASE ~e.isBuy
    <2> DEFINE x == b.sold + e.tokens
               y == b.ethOut + (e.eth - e.fee)
               c == [b EXCEPT !.sold = x, !.ethOut = y]
    <2>1. Basis(b, e) = c
      BY <1>1, <1>5 DEF Basis
    <2>2. x \in Nat /\ y \in Nat
      BY <1>1, <1>2, <1>3
    <2> HIDE DEF x, y
    <2>3. c \in BasisRow /\ c.sold = x /\ c.ethOut = y /\ c.bought = b.bought /\ c.ethIn = b.ethIn
      BY <2>2 DEF BasisRow
    <2> QED BY <1>5, <2>1, <2>3 DEF x, y
  <1> QED BY <1>4, <1>5

LEMMA BasesAgain ==
    ASSUME NEW basis \in [Trader -> BasisRow], NEW trades \in SUBSET Row, IsFiniteSet(trades),
           BasesOK(basis, trades), NEW row \in Row, row \notin trades,
           NEW after, after = [basis EXCEPT ![row.event.trader] = Basis(@, row.event)]
    PROVE  after \in [Trader -> BasisRow] /\ BasesOK(after, trades \cup {row})
  <1> DEFINE e == row.event
             more == trades \cup {row}
  <1>1. e \in Fill /\ e.trader \in Trader /\ e.isBuy \in BOOLEAN
        /\ e.tokens \in Nat /\ e.eth \in Nat /\ e.fee \in Nat
    BY DEF Row, Fill, TradeEvent, SwapEvent
  <1>2. basis[e.trader] \in BasisRow /\ Basis(basis[e.trader], e) \in BasisRow
    BY <1>1, BasisGrows
  <1>3. /\ after \in [Trader -> BasisRow]
        /\ after[e.trader] = Basis(basis[e.trader], e)
        /\ \A u \in Trader : u # e.trader => after[u] = basis[u]
    BY <1>1, <1>2
  <1>4. ASSUME NEW u \in Trader
        PROVE  BasisOK(after[u], RowsOf(more, u, TRUE), RowsOf(more, u, FALSE))
    <2> DEFINE b == basis[u]
               buys == RowsOf(trades, u, TRUE)
               sells == RowsOf(trades, u, FALSE)
    <2>1. BasisOK(b, buys, sells)
      BY DEF BasesOK
    <2>2. CASE u # e.trader
      <3>1. RowsOf(more, u, TRUE) = buys /\ RowsOf(more, u, FALSE) = sells
        BY <2>2 DEF RowsOf
      <3> QED BY <1>3, <2>1, <2>2, <3>1
    <2>3. CASE u = e.trader
      <3>1. /\ buys \in SUBSET Row /\ IsFiniteSet(buys) /\ row \notin buys
            /\ sells \in SUBSET Row /\ IsFiniteSet(sells) /\ row \notin sells
        BY FS_Subset DEF RowsOf
      <3>2. /\ b.bought \in Nat /\ b.ethIn \in Nat /\ b.sold \in Nat /\ b.ethOut \in Nat
            /\ SumOf(sells, "eth") \in Nat /\ SumOf(sells, "fee") \in Nat
        <4>1. SumOf(sells, "eth") \in Nat /\ SumOf(sells, "fee") \in Nat
          BY <3>1, SumOfType DEF Column
        <4> QED BY <4>1 DEF BasisRow
      <3>3. CASE e.isBuy
        <4>1. RowsOf(more, u, TRUE) = buys \cup {row} /\ RowsOf(more, u, FALSE) = sells
          BY <1>1, <2>3, <3>3 DEF RowsOf
        <4>2. /\ SumOf(buys \cup {row}, "tokens") = SumOf(buys, "tokens") + e.tokens
              /\ SumOf(buys \cup {row}, "eth") = SumOf(buys, "eth") + e.eth
          BY <3>1, SumOfMore DEF Column
        <4>3. /\ after[u].bought = b.bought + e.tokens /\ after[u].ethIn = b.ethIn + e.eth
              /\ after[u].sold = b.sold /\ after[u].ethOut = b.ethOut
          BY <1>1, <1>2, <1>3, <2>3, <3>3, BasisGrows
        <4> HIDE DEF b, buys, sells
        <4> QED BY <2>1, <4>1, <4>2, <4>3 DEF BasisOK
      <3>4. CASE ~e.isBuy
        <4>1. RowsOf(more, u, TRUE) = buys /\ RowsOf(more, u, FALSE) = sells \cup {row}
          BY <1>1, <2>3, <3>4 DEF RowsOf
        <4>2. /\ SumOf(sells \cup {row}, "tokens") = SumOf(sells, "tokens") + e.tokens
              /\ SumOf(sells \cup {row}, "eth") = SumOf(sells, "eth") + e.eth
              /\ SumOf(sells \cup {row}, "fee") = SumOf(sells, "fee") + e.fee
          BY <3>1, SumOfMore DEF Column
        <4>3. /\ after[u].sold = b.sold + e.tokens /\ after[u].ethOut = b.ethOut + (e.eth - e.fee)
              /\ after[u].bought = b.bought /\ after[u].ethIn = b.ethIn
          BY <1>1, <1>2, <1>3, <2>3, <3>4, BasisGrows
        <4> HIDE DEF b, buys, sells
        <4>4. after[u].ethOut = (SumOf(sells, "eth") + e.eth) - (SumOf(sells, "fee") + e.fee)
          BY <1>1, <2>1, <3>2, <4>3 DEF BasisOK
        <4> QED BY <2>1, <4>1, <4>2, <4>3, <4>4 DEF BasisOK
      <3> QED BY <1>1, <3>3, <3>4
    <2> QED BY <2>2, <2>3
  <1> QED BY <1>3, <1>4 DEF BasesOK

-----------------------------------------------------------------------------
(* The tables and the handlers *)

Key == Interval \X Nat
Candles == UNION {[D -> CandleRow] : D \in SUBSET Key}
TransferRow == [id : Position, event : TransferEvent]

TableRow == [created : BOOLEAN, realToken : Int, realEth : Int, lastPrice : Nat, volume : Nat,
             tradeCount : Nat, holderCount : Int, graduated : BOOLEAN,
             balance : [Holder -> Int], basis : [Trader -> BasisRow],
             trades : SUBSET Row, transfers : SUBSET TransferRow, candles : Candles]

(* The counters, cost bases and candles are those of the recorded trades.  *)
Tally(t) ==
    /\ t \in TableRow /\ IsFiniteSet(t.trades) /\ t.tradeCount = Cardinality(t.trades)
    /\ BasesOK(t.basis, t.trades) /\ CandlesOK(t.candles, t.trades)

(* Nothing recorded is of a later log than id. *)
UpTo(t, id) == \A row \in t.trades \cup t.transfers : row.id = id \/ Before(row.id, id)

(* The handler of log e has run. *)
Applied(t, id, e) ==
    CASE e.kind = "Transfer" -> \E row \in t.transfers : row.id = id
      [] e.kind = "TokenCreated" -> t.created
      [] e.kind = "Trade" -> \E row \in t.trades : row.id = id
      [] e.kind = "Graduated" -> t.graduated
      [] OTHER -> TRUE

(* The tables agree with books b. *)
Follows(t, b) ==
    /\ t.balance = b.balance /\ t.created = b.created /\ t.graduated = b.graduated
    /\ t.realToken = (IF b.created THEN CurveSupply - b.sold ELSE 0)
    /\ t.realEth = (IF b.created THEN b.sold * TokenCost ELSE 0)

LEMMA BucketsAreKeys ==
    ASSUME NEW block \in Nat
    PROVE  BucketsFor(block) \subseteq Key
  <1> SUFFICES ASSUME NEW i \in Interval PROVE <<i, bucketStartFor(block, i)>> \in Key
    BY DEF BucketsFor
  <1>1. i \in Nat /\ i > 0
    BY LedgersAssumption
  <1>2. block \div i \in Nat
    BY <1>1, DivBounds
  <1>3. (block \div i) * i \in Nat
    BY <1>1, <1>2
  <1> QED BY <1>3 DEF bucketStartFor, Key

LEMMA CandlesType ==
    ASSUME NEW candles, NEW trades \in SUBSET Row, CandlesOK(candles, trades),
           candles = [key \in DOMAIN candles |-> candles[key]]
    PROVE  candles \in Candles
  <1> DEFINE D == DOMAIN candles
  <1>1. D \in SUBSET Key
    BY RowFields, BucketsAreKeys DEF CandlesOK
  <1>2. \A key \in D : candles[key] \in CandleRow
    BY DEF CandlesOK, CandleOK
  <1>3. candles \in [D -> CandleRow]
    BY <1>2
  <1> HIDE DEF D
  <1> QED BY <1>1, <1>3 DEF Candles

(* The handlers of trades and swaps. *)
LEMMA Recording ==
    ASSUME NEW t, Tally(t), NEW id \in Position, UpTo(t, id), NEW e \in Fill,
           NEW realToken \in Int, NEW realEth \in Int,
           NEW after, after = Recorded(t, id, e, realToken, realEth)
    PROVE  /\ Tally(after) /\ UpTo(after, id)
           /\ \E row \in after.trades : row.id = id
           /\ after.balance = t.balance /\ after.created = t.created
           /\ after.graduated = t.graduated
           /\ (\E row \in t.trades : row.id = id) => after = t
           /\ ~(\E row \in t.trades : row.id = id) =>
                 after.realToken = realToken /\ after.realEth = realEth
  <1>1. CASE \E row \in t.trades : row.id = id
    BY <1>1 DEF Recorded
  <1>2. CASE ~\E row \in t.trades : row.id = id
    <2> DEFINE row == [id |-> id, event |-> e]
               more == t.trades \cup {row}
               basis == [t.basis EXCEPT ![e.trader] = Basis(@, e)]
               candles == Upserted(t.candles, id, e)
               volume == t.volume + e.eth
               count == t.tradeCount + 1
    <2>1. /\ t \in TableRow /\ t.trades \in SUBSET Row /\ IsFiniteSet(t.trades)
          /\ t.basis \in [Trader -> BasisRow] /\ t.volume \in Nat /\ t.tradeCount \in Nat
          /\ BasesOK(t.basis, t.trades) /\ CandlesOK(t.candles, t.trades)
      BY DEF Tally, TableRow
    <2>2. /\ row \in Row /\ row.id = id /\ row.event = e /\ row \notin t.trades
          /\ e.price \in Nat /\ e.eth \in Nat
      BY <1>2 DEF Row, Fill, TradeEvent, SwapEvent
    <2>3. \A r \in t.trades : Before(r.id, id)
      BY <1>2 DEF UpTo
    <2> HIDE DEF row
    <2>4. basis \in [Trader -> BasisRow] /\ BasesOK(basis, more)
      BY <2>1, <2>2, BasesAgain
    <2>5. CandlesOK(candles, more)
      BY <2>1, <2>2, <2>3, BucketsAgain
    <2>6. more \in SUBSET Row /\ IsFiniteSet(more) /\ Cardinality(more) = count
      BY <2>1, <2>2, FS_AddElement DEF Tally
    <2>7. candles = [key \in DOMAIN candles |-> candles[key]]
      BY DEF Upserted
    <2>8. after = [t EXCEPT !.trades = more, !.realToken = realToken, !.realEth = realEth,
                            !.lastPrice = e.price, !.volume = volume, !.tradeCount = count,
                            !.basis = basis, !.candles = candles]
      BY <1>2, <2>2 DEF Recorded, row
    <2>9. volume \in Nat /\ count \in Nat
      BY <2>1, <2>2
    <2> HIDE DEF more, basis, candles, volume, count
    <2>10. candles \in Candles
      BY <2>5, <2>6, <2>7, CandlesType
    <2> DEFINE price == e.price
    <2>11. price \in Nat
      BY <2>2
    <2>12. after = [t EXCEPT !.trades = more, !.realToken = realToken, !.realEth = realEth,
                            !.lastPrice = price, !.volume = volume, !.tradeCount = count,
                            !.basis = basis, !.candles = candles]
      BY <2>8
    <2> HIDE DEF price
    <2>13. after \in TableRow
      BY <2>1, <2>4, <2>6, <2>9, <2>10, <2>11, <2>12 DEF TableRow
    <2>14. /\ after.trades = more /\ after.realToken = realToken /\ after.realEth = realEth
           /\ after.tradeCount = count /\ after.basis = basis /\ after.candles = candles
           /\ after.balance = t.balance /\ after.created = t.created
           /\ after.graduated = t.graduated /\ after.transfers = t.transfers
      BY <2>1, <2>12 DEF TableRow
    <2>15. Tally(after)
      BY <2>4, <2>5, <2>6, <2>13, <2>14 DEF Tally
    <2>16. UpTo(after, id)
      BY <2>2, <2>14 DEF UpTo, more
    <2>17. row \in after.trades
      BY <2>14 DEF more
    <2> QED BY <1>2, <2>2, <2>14, <2>15, <2>16, <2>17
  <1> QED BY <1>1, <1>2

(* A debit and a credit move the balances as the log says. *)
LEMMA ChangedBooks ==
    ASSUME NEW balance \in [Holder -> Int], NEW holders \in Int, NEW h \in Party, NEW n \in Int,
           NEW b, b = Changed([balance |-> balance, holders |-> holders], h, n)
    PROVE  /\ b.balance = Credited(balance, h, n)
           /\ b.balance \in [Holder -> Int] /\ b.holders \in Int
           /\ b = [balance |-> b.balance, holders |-> b.holders]
  <1> DEFINE a == [balance |-> balance, holders |-> holders]
             moved == [balance EXCEPT ![h] = @ + n]
             count == holders + holderCountDelta(balance[h], balance[h] + n)
  <1>1. a.balance = balance /\ a.holders = holders
    OBVIOUS
  <1>2. CASE h = "zero"
    BY <1>2 DEF Changed, Credited
  <1>3. CASE h # "zero"
    <2>1. h \in Holder
      BY <1>3 DEF Party
    <2>2. b = [balance |-> moved, holders |-> count]
      BY <1>1, <1>3 DEF Changed
    <2>3. moved \in [Holder -> Int] /\ moved = Credited(balance, h, n)
      BY <1>3, <2>1 DEF Credited
    <2>4. count \in Int
      BY <2>1 DEF holderCountDelta
    <2> HIDE DEF moved, count
    <2> QED BY <2>2, <2>3, <2>4
  <1> QED BY <1>2, <1>3

LEMMA TransferredBooks ==
    ASSUME NEW balance \in [Holder -> Int], NEW holders \in Int, NEW e \in TransferEvent,
           NEW b, b = Transferred([balance |-> balance, holders |-> holders], e)
    PROVE  b.balance = Moved(balance, e) /\ b.balance \in [Holder -> Int] /\ b.holders \in Int
  <1> DEFINE a == Changed([balance |-> balance, holders |-> holders], e.from, -e.value)
  <1>1. e.from \in Party /\ e.to \in Party /\ e.value \in Int /\ -e.value \in Int
    BY DEF TransferEvent
  <1>2. /\ a.balance = Credited(balance, e.from, -e.value)
        /\ a.balance \in [Holder -> Int] /\ a.holders \in Int
        /\ a = [balance |-> a.balance, holders |-> a.holders]
    BY <1>1, ChangedBooks
  <1>3. b = Changed(a, e.to, e.value)
    BY DEF Transferred
  <1> HIDE DEF a
  <1> DEFINE m == a.balance
             k == a.holders
  <1>4. b = Changed([balance |-> m, holders |-> k], e.to, e.value)
    BY <1>2, <1>3
  <1>5. m \in [Holder -> Int] /\ k \in Int /\ m = Credited(balance, e.from, -e.value)
    BY <1>2
  <1> HIDE DEF m, k
  <1>6. /\ b.balance = Credited(m, e.to, e.value)
        /\ b.balance \in [Holder -> Int] /\ b.holders \in Int
    <2>1. m \in [Holder -> Int] /\ k \in Int /\ e.to \in Party /\ e.value \in Int
      BY <1>1, <1>5
    <2> DEFINE d == Changed([balance |-> m, holders |-> k], e.to, e.value)
    <2>2. /\ d.balance = Credited(m, e.to, e.value)
          /\ d.balance \in [Holder -> Int] /\ d.holders \in Int
      BY <2>1, ChangedBooks
    <2>3. b = d
      BY <1>4
    <2> HIDE DEF d
    <2> QED BY <2>2, <2>3
  <1> QED BY <1>5, <1>6 DEF Moved

(* The handler of transfers. *)
LEMMA Transferring ==
    ASSUME NEW t, Tally(t), NEW id \in Position, UpTo(t, id), NEW e \in TransferEvent,
           NEW after, after = OnTransfer(t, id, e)
    PROVE  /\ Tally(after) /\ UpTo(after, id)
           /\ \E row \in after.transfers : row.id = id
           /\ after.created = t.created /\ after.graduated = t.graduated
           /\ after.realToken = t.realToken /\ after.realEth = t.realEth
           /\ (\E row \in t.transfers : row.id = id) => after = t
           /\ ~(\E row \in t.transfers : row.id = id) => after.balance = Moved(t.balance, e)
  <1>1. CASE \E row \in t.transfers : row.id = id
    BY <1>1 DEF OnTransfer
  <1>2. CASE ~\E row \in t.transfers : row.id = id
    <2> DEFINE row == [id |-> id, event |-> e]
               more == t.transfers \cup {row}
               b == Transferred([balance |-> t.balance, holders |-> t.holderCount], e)
               balance == b.balance
               holders == IF t.created THEN b.holders ELSE t.holderCount
    <2>1. /\ t \in TableRow /\ t.transfers \in SUBSET TransferRow
          /\ t.balance \in [Holder -> Int] /\ t.holderCount \in Int
      BY DEF Tally, TableRow
    <2>2. b.balance = Moved(t.balance, e) /\ b.balance \in [Holder -> Int] /\ b.holders \in Int
      BY <2>1, TransferredBooks
    <2>3. after = [t EXCEPT !.transfers = more, !.balance = balance, !.holderCount = holders]
      BY <1>2 DEF OnTransfer
    <2>4. row \in TransferRow /\ row.id = id
      BY DEF TransferRow
    <2> HIDE DEF row, b
    <2>5. balance \in [Holder -> Int] /\ holders \in Int /\ balance = Moved(t.balance, e)
      BY <2>1, <2>2
    <2>6. more \in SUBSET TransferRow
      BY <2>1, <2>4
    <2> HIDE DEF more, balance, holders
    <2>7. after \in TableRow
      BY <2>1, <2>3, <2>5, <2>6 DEF TableRow
    <2>8. /\ after.transfers = more /\ after.balance = balance /\ after.trades = t.trades
          /\ after.created = t.created /\ after.graduated = t.graduated
          /\ after.realToken = t.realToken /\ after.realEth = t.realEth
          /\ after.tradeCount = t.tradeCount /\ after.basis = t.basis
          /\ after.candles = t.candles
      BY <2>1, <2>3 DEF TableRow
    <2>9. Tally(after)
      BY <2>7, <2>8 DEF Tally
    <2>10. UpTo(after, id) /\ row \in after.transfers
      BY <2>4, <2>8 DEF UpTo, more
    <2> QED BY <1>2, <2>4, <2>5, <2>8, <2>9, <2>10
  <1> QED BY <1>1, <1>2

(* A log that comes for the first time. *)
LEMMA HandledOnce ==
    ASSUME NEW t, Tally(t), NEW b \in Books, NEW c \in Books, Follows(t, b),
           NEW e \in Event, Says(b, e, c), NEW r, e.kind = "Trade" => r.curve,
           NEW id \in Position, \A row \in t.trades \cup t.transfers : Before(row.id, id),
           NEW after, after = Handled(t, r, id, e)
    PROVE  Tally(after) /\ UpTo(after, id) /\ Follows(after, c) /\ Applied(after, id, e)
  <1>0. /\ UpTo(t, id) /\ t \in TableRow
        /\ ~(\E row \in t.trades : row.id = id) /\ ~(\E row \in t.transfers : row.id = id)
    <2>1. ~Before(id, id)
      BY DEF Before, Position
    <2> QED BY <2>1 DEF UpTo, Tally
  <1>1. ASSUME e \in TransferEvent, c = Book(b.created, b.graduated, b.sold, Moved(b.balance, e))
        PROVE  Tally(after) /\ UpTo(after, id) /\ Follows(after, c) /\ Applied(after, id, e)
    <2>1. e.kind = "Transfer"
      BY <1>1 DEF TransferEvent
    <2>2. after = OnTransfer(t, id, e)
      BY <2>1 DEF Handled
    <2>3. /\ Tally(after) /\ UpTo(after, id)
          /\ \E row \in after.transfers : row.id = id
          /\ after.created = t.created /\ after.graduated = t.graduated
          /\ after.realToken = t.realToken /\ after.realEth = t.realEth
          /\ after.balance = Moved(t.balance, e)
      BY <1>0, <1>1, <2>2, Transferring
    <2>4. Applied(after, id, e)
      BY <2>1, <2>3 DEF Applied
    <2>5. /\ c.created = b.created /\ c.graduated = b.graduated /\ c.sold = b.sold
          /\ c.balance = Moved(b.balance, e)
      BY <1>1 DEF Book
    <2>6. Follows(after, c)
      BY <2>3, <2>5 DEF Follows
    <2> QED BY <2>3, <2>4, <2>6
  <1>2. ASSUME e.kind = "TokenCreated", ~b.created, b.sold = 0,
               c = Book(TRUE, b.graduated, 0, b.balance)
        PROVE  Tally(after) /\ UpTo(after, id) /\ Follows(after, c) /\ Applied(after, id, e)
    <2>1. ~t.created
      BY <1>2 DEF Follows
    <2>2. after = [t EXCEPT !.created = TRUE, !.realToken = CurveSupply]
      BY <1>2, <2>1 DEF Handled, OnTokenCreated
    <2>3. CurveSupply \in Int
      BY EventLogAssumption
    <2>4. /\ after \in TableRow
          /\ after.created = TRUE /\ after.realToken = CurveSupply
          /\ after.trades = t.trades /\ after.transfers = t.transfers
          /\ after.tradeCount = t.tradeCount /\ after.basis = t.basis
          /\ after.candles = t.candles /\ after.balance = t.balance
          /\ after.graduated = t.graduated /\ after.realEth = t.realEth
      BY <1>0, <2>2, <2>3 DEF TableRow
    <2>5. c.created = TRUE /\ c.graduated = b.graduated /\ c.sold = 0 /\ c.balance = b.balance
      BY <1>2 DEF Book
    <2>6. Follows(after, c)
      <3>1. t.realEth = 0
        BY <1>2 DEF Follows
      <3>2. CurveSupply - 0 = CurveSupply /\ 0 * TokenCost = 0
        BY <2>3 DEF TokenCost
      <3> QED BY <2>4, <2>5, <3>1, <3>2 DEF Follows
    <2> QED BY <1>0, <1>2, <2>4, <2>6 DEF Tally, UpTo, Applied
  <1>3. ASSUME e \in TradeEvent, b.created,
               c = Book(TRUE, b.graduated, b.sold + (IF e.isBuy THEN e.tokens ELSE -e.tokens), b.balance),
               e.realEth = c.sold * TokenCost
        PROVE  Tally(after) /\ UpTo(after, id) /\ Follows(after, c) /\ Applied(after, id, e)
    <2> DEFINE realToken == t.realToken + (IF e.isBuy THEN -e.tokens ELSE e.tokens)
               realEth == e.realEth
    <2>1. e.kind = "Trade" /\ e.tokens \in Nat /\ e.isBuy \in BOOLEAN /\ realEth \in Int
      BY <1>3 DEF TradeEvent
    <2>2. e \in Fill
      BY <2>1 DEF Event, TransferEvent
    <2>3. after = Recorded(t, id, e, realToken, realEth)
      BY <2>1 DEF Handled, OnTrade
    <2>4. realToken \in Int /\ t.realToken \in Int
      BY <1>0, <2>1 DEF TableRow
    <2> HIDE DEF realToken, realEth
    <2>5. /\ Tally(after) /\ UpTo(after, id)
          /\ \E row \in after.trades : row.id = id
          /\ after.balance = t.balance /\ after.created = t.created
          /\ after.graduated = t.graduated
          /\ after.realToken = realToken /\ after.realEth = realEth
      BY <1>0, <2>1, <2>2, <2>3, <2>4, Recording
    <2>6. /\ c.created = TRUE /\ c.graduated = b.graduated /\ c.balance = b.balance
          /\ c.sold = b.sold + (IF e.isBuy THEN e.tokens ELSE -e.tokens)
      BY <1>3 DEF Book
    <2>7. realToken = CurveSupply - c.sold
      <3>1. t.realToken = CurveSupply - b.sold
        BY <1>3 DEF Follows
      <3>2. b.sold \in Int /\ CurveSupply \in Int
        BY EventLogAssumption DEF Books
      <3> QED BY <2>1, <2>6, <3>1, <3>2 DEF realToken
    <2>8. Follows(after, c)
      BY <1>3, <2>5, <2>6, <2>7 DEF Follows, realEth
    <2>9. Applied(after, id, e)
      BY <2>1, <2>5 DEF Applied
    <2> QED BY <2>5, <2>8, <2>9
  <1>4. ASSUME e \in SwapEvent, c = b
        PROVE  Tally(after) /\ UpTo(after, id) /\ Follows(after, c) /\ Applied(after, id, e)
    <2>1. e.kind = "Swap"
      BY <1>4 DEF SwapEvent
    <2>2. e \in Fill
      BY <2>1 DEF Event, TransferEvent
    <2>3. Applied(after, id, e)
      BY <2>1 DEF Applied
    <2>4. CASE ~r.pool
      <3>1. after = t
        BY <2>1, <2>4 DEF Handled
      <3> QED BY <1>0, <1>4, <2>3, <3>1
    <2>5. CASE r.pool
      <3> DEFINE realToken == t.realToken
                 realEth == t.realEth
      <3>1. after = Recorded(t, id, e, realToken, realEth)
        BY <2>1, <2>5 DEF Handled, OnSwap
      <3>2. realToken \in Int /\ realEth \in Int
        BY <1>0 DEF TableRow
      <3> HIDE DEF realToken, realEth
      <3>3. /\ Tally(after) /\ UpTo(after, id)
            /\ after.balance = t.balance /\ after.created = t.created
            /\ after.graduated = t.graduated
            /\ after.realToken = realToken /\ after.realEth = realEth
        BY <1>0, <2>2, <3>1, <3>2, Recording
      <3>4. Follows(after, c)
        BY <1>4, <3>3 DEF Follows, realToken, realEth
      <3> QED BY <2>3, <3>3, <3>4
    <2> QED BY <2>4, <2>5
  <1>5. ASSUME e.kind = "Graduated", c = Book(b.created, TRUE, b.sold, b.balance)
        PROVE  Tally(after) /\ UpTo(after, id) /\ Follows(after, c) /\ Applied(after, id, e)
    <2>2. after = [t EXCEPT !.graduated = TRUE]
      BY <1>5 DEF Handled, OnGraduated
    <2>4. /\ after \in TableRow
          /\ after.graduated = TRUE /\ after.realToken = t.realToken
          /\ after.trades = t.trades /\ after.transfers = t.transfers
          /\ after.tradeCount = t.tradeCount /\ after.basis = t.basis
          /\ after.candles = t.candles /\ after.balance = t.balance
          /\ after.created = t.created /\ after.realEth = t.realEth
      BY <1>0, <2>2 DEF TableRow
    <2>5. c.created = b.created /\ c.graduated = TRUE /\ c.sold = b.sold /\ c.balance = b.balance
      BY <1>5 DEF Book
    <2>6. Follows(after, c)
      BY <2>4, <2>5 DEF Follows
    <2> QED BY <1>0, <1>5, <2>4, <2>6 DEF Tally, UpTo, Applied
  <1> QED BY <1>1, <1>2, <1>3, <1>4, <1>5 DEF Says

(* A log that comes again changes nothing that its first time settled. *)
LEMMA HandledAgain ==
    ASSUME NEW t, Tally(t), NEW c \in Books, Follows(t, c), NEW e \in Event, NEW r,
           NEW id \in Position, UpTo(t, id), Applied(t, id, e),
           NEW after, after = Handled(t, r, id, e)
    PROVE  Tally(after) /\ UpTo(after, id) /\ Follows(after, c) /\ Applied(after, id, e)
  <1>1. CASE e.kind = "Transfer"
    BY <1>1 DEF Handled, Applied, OnTransfer
  <1>2. CASE e.kind = "TokenCreated"
    BY <1>2 DEF Handled, Applied, OnTokenCreated
  <1>3. CASE e.kind = "Trade"
    BY <1>3 DEF Handled, Applied, OnTrade, Recorded
  <1>4. CASE e.kind = "Swap"
    <2>1. Applied(after, id, e)
      BY <1>4 DEF Applied
    <2>2. CASE ~r.pool
      BY <1>4, <2>2 DEF Handled
    <2>3. CASE r.pool
      <3> DEFINE realToken == t.realToken
                 realEth == t.realEth
      <3>1. after = Recorded(t, id, e, realToken, realEth)
        BY <1>4, <2>3 DEF Handled, OnSwap
      <3>2. realToken \in Int /\ realEth \in Int
        BY DEF Tally, TableRow
      <3>3. e \in Fill
        BY <1>4 DEF Event, TransferEvent
      <3> HIDE DEF realToken, realEth
      <3>4. /\ Tally(after) /\ UpTo(after, id)
            /\ after.balance = t.balance /\ after.created = t.created
            /\ after.graduated = t.graduated
            /\ (after = t \/ (after.realToken = realToken /\ after.realEth = realEth))
        BY <3>1, <3>2, <3>3, Recording
      <3>5. Follows(after, c)
        BY <3>4 DEF Follows, realToken, realEth
      <3> QED BY <2>1, <3>4, <3>5
    <2> QED BY <2>2, <2>3
  <1>5. CASE e.kind = "Graduated"
    <2>1. t \in TableRow /\ t.graduated = TRUE
      BY <1>5 DEF Applied, Tally, TableRow
    <2>2. after = [t EXCEPT !.graduated = TRUE]
      BY <1>5 DEF Handled, OnGraduated
    <2>3. after = t
      BY <2>1, <2>2 DEF TableRow
    <2> QED BY <2>3
  <1>6. e.kind \in {"Transfer", "TokenCreated", "Trade", "Swap", "Graduated"}
    BY DEF Event, TransferEvent, Fill, TradeEvent, SwapEvent
  <1> QED BY <1>1, <1>2, <1>3, <1>4, <1>5, <1>6

-----------------------------------------------------------------------------
(* The chain, and how far the tables have come along it *)

Block == [logs : Seq(Event), world : Worlds, txs : Nat]

WorldAt(ch, n) == IF n = 0 THEN Unborn ELSE ch[n].world

BlockBy(g, ch, n) ==
    TraceBy(g, BooksOf(WorldAt(ch, n - 1)), ch[n].logs, BooksOf(WorldAt(ch, n)))

ChainOK(ch) ==
    /\ ch \in Seq(Block)
    /\ \A n \in 1 .. Len(ch) :
         /\ WorldOK(ch[n].world) /\ Len(ch[n].logs) > 0
         /\ Trace(BooksOf(WorldAt(ch, n - 1)), ch[n].logs, BooksOf(WorldAt(ch, n)))

(* Tables t hold what is said before block n. *)
At(ch, t, n) ==
    /\ Tally(t) /\ Follows(t, BooksOf(WorldAt(ch, n - 1)))
    /\ \A row \in t.trades \cup t.transfers : row.id[1] < n

(* Tables t, while log d + 1 of block n is to be handled, or was and comes again. *)
Under(ch, t, n, d) ==
    \E g :
        /\ BlockBy(g, ch, n)
        /\ \/ /\ Follows(t, g[d])
              /\ \A row \in t.trades \cup t.transfers : Before(row.id, <<n, d + 1>>)
           \/ /\ Follows(t, g[d + 1])
              /\ UpTo(t, <<n, d + 1>>) /\ Applied(t, <<n, d + 1>>, ch[n].logs[d + 1])

SavedOK(ch, sv) ==
    /\ sv \in Seq(TableRow) /\ Len(sv) \in 1 .. Len(ch) + 1
    /\ \A n \in 1 .. Len(sv) : At(ch, sv[n], n)

TablesOK(ch, sv, t, d) ==
    /\ Tally(t) /\ d \in Nat
    /\ Len(sv) > Len(ch) => d = 0 /\ t = sv[Len(sv)]
    /\ Len(sv) <= Len(ch) => d < Len(ch[Len(sv)].logs) /\ Under(ch, t, Len(sv), d)

RegistryOK ==
    /\ registry \in [curve : BOOLEAN, curveHydrated : BOOLEAN, pool : BOOLEAN, gradHydrated : BOOLEAN]
    /\ registry.curveHydrated => registry.curve

IndexerInv ==
    /\ ChainOK(chain) /\ SavedOK(chain, saved) /\ TablesOK(chain, saved, tables, delivered)
    /\ RegistryOK /\ MetricsInv

(* Two chains with the same first m blocks. *)
Agree(ch, other, m) ==
    m \in 0 .. Len(ch) /\ m \in 0 .. Len(other) /\ \A n \in 1 .. m : other[n] = ch[n]

LEMMA AgreeWorlds ==
    ASSUME NEW ch, NEW other, NEW m, Agree(ch, other, m), NEW n \in 0 .. m
    PROVE  WorldAt(other, n) = WorldAt(ch, n)
  BY DEF Agree, WorldAt

LEMMA AgreeSaved ==
    ASSUME NEW ch \in Seq(Block), NEW other \in Seq(Block), NEW m, Agree(ch, other, m), NEW sv,
           SavedOK(ch, sv), Len(sv) <= m + 1
    PROVE  SavedOK(other, sv)
  <1>1. m \in Nat /\ Len(sv) \in 1 .. Len(other) + 1
    BY DEF Agree, SavedOK
  <1>2. \A n \in 1 .. Len(sv) : At(other, sv[n], n)
    <2> SUFFICES ASSUME NEW n \in 1 .. Len(sv) PROVE At(other, sv[n], n)
      OBVIOUS
    <2>1. n - 1 \in 0 .. m
      BY <1>1 DEF SavedOK
    <2>2. WorldAt(other, n - 1) = WorldAt(ch, n - 1)
      BY <2>1, AgreeWorlds
    <2> QED BY <2>2 DEF SavedOK, At
  <1> QED BY <1>1, <1>2 DEF SavedOK

LEMMA AgreeUnder ==
    ASSUME NEW ch, NEW other, NEW m, Agree(ch, other, m), NEW n \in 1 .. m,
           NEW t, NEW d, Under(ch, t, n, d)
    PROVE  Under(other, t, n, d)
  <1>1. other[n] = ch[n] /\ WorldAt(other, n) = WorldAt(ch, n)
        /\ WorldAt(other, n - 1) = WorldAt(ch, n - 1)
    <2>1. n \in 0 .. m /\ n - 1 \in 0 .. m
      BY DEF Agree
    <2> QED BY <2>1, AgreeWorlds DEF Agree
  <1> QED BY <1>1 DEF Under, BlockBy

LEMMA AgreeTrace ==
    ASSUME NEW ch, NEW other, NEW m, Agree(ch, other, m), ChainOK(ch), NEW n \in 1 .. m
    PROVE  /\ WorldOK(other[n].world) /\ Len(other[n].logs) > 0
           /\ Trace(BooksOf(WorldAt(other, n - 1)), other[n].logs, BooksOf(WorldAt(other, n)))
  <1>1. other[n] = ch[n] /\ WorldAt(other, n) = WorldAt(ch, n)
        /\ WorldAt(other, n - 1) = WorldAt(ch, n - 1) /\ n \in 1 .. Len(ch)
    <2>1. n \in 0 .. m /\ n - 1 \in 0 .. m
      BY DEF Agree
    <2> QED BY <2>1, AgreeWorlds DEF Agree
  <1> QED BY <1>1 DEF ChainOK

(* A block begins. *)
LEMMA BlockBegins ==
    ASSUME NEW ch, ChainOK(ch), NEW n \in 1 .. Len(ch), NEW t, At(ch, t, n)
    PROVE  0 < Len(ch[n].logs) /\ Under(ch, t, n, 0)
  <1>1. PICK g : BlockBy(g, ch, n)
    BY DEF ChainOK, Trace, BlockBy
  <1>2. Follows(t, g[0])
    BY <1>1 DEF At, BlockBy, TraceBy
  <1>3. \A row \in t.trades \cup t.transfers : Before(row.id, <<n, 0 + 1>>)
    BY DEF At, Before
  <1> QED BY <1>1, <1>2, <1>3 DEF Under, ChainOK

(* A block more, and a block that gets longer. *)
LEMMA WorldsAt ==
    ASSUME NEW ch, ChainOK(ch), NEW n \in 0 .. Len(ch)
    PROVE  WorldOK(WorldAt(ch, n))
  BY UnbornOK DEF ChainOK, WorldAt

LEMMA ChainAppends ==
    ASSUME NEW ch, ChainOK(ch), NEW tx, Done(WorldAt(ch, Len(ch)), tx), NEW k \in Nat,
           NEW other, other = Append(ch, [logs |-> tx.logs, world |-> tx.world, txs |-> k])
    PROVE  /\ ChainOK(other) /\ Len(other) = Len(ch) + 1
           /\ Agree(ch, other, Len(ch))
  <1> DEFINE blk == [logs |-> tx.logs, world |-> tx.world, txs |-> k]
             L == Len(ch)
  <1>1. ch \in Seq(Block) /\ L \in Nat
    BY DEF ChainOK
  <1>2. /\ tx.logs \in Seq(Event) /\ WorldOK(tx.world) /\ tx.world \in Worlds
        /\ Len(tx.logs) > 0
    BY DEF Done, Trace, WorldOK
  <1>3. blk \in Block /\ blk.logs = tx.logs /\ blk.world = tx.world
    BY <1>2 DEF Block
  <1> HIDE DEF blk
  <1>4. /\ other \in Seq(Block) /\ Len(other) = L + 1 /\ other[L + 1] = blk
        /\ \A n \in 1 .. L : other[n] = ch[n]
    BY <1>1, <1>3 DEF blk
  <1> HIDE DEF L
  <1>5. Agree(ch, other, L)
    BY <1>1, <1>4 DEF Agree, L
  <1>6. ASSUME NEW n \in 1 .. L + 1
        PROVE  /\ WorldOK(other[n].world) /\ Len(other[n].logs) > 0
               /\ Trace(BooksOf(WorldAt(other, n - 1)), other[n].logs, BooksOf(WorldAt(other, n)))
    <2>1. CASE n \in 1 .. L
      BY <1>5, <2>1, AgreeTrace
    <2>2. CASE n = L + 1
      <3>1. WorldAt(other, n - 1) = WorldAt(ch, L)
        <4>1. n - 1 = L /\ L \in 0 .. L
          BY <1>1, <2>2
        <4> QED BY <1>5, <4>1, AgreeWorlds
      <3>2. WorldAt(other, n) = tx.world
        BY <1>1, <1>3, <1>4, <2>2 DEF WorldAt
      <3> QED BY <1>2, <1>3, <1>4, <2>2, <3>1, <3>2 DEF Done, L
    <2>3. n \in 1 .. L \/ n = L + 1
      BY <1>1
    <2> QED BY <2>1, <2>2, <2>3
  <1>7. ChainOK(other)
    BY <1>4, <1>6 DEF ChainOK
  <1> QED BY <1>4, <1>5, <1>7 DEF L

LEMMA ChainExtends ==
    ASSUME NEW ch, ChainOK(ch), Len(ch) > 0, NEW tx, Done(WorldAt(ch, Len(ch)), tx), NEW k \in Nat,
           NEW other, other = [ch EXCEPT ![Len(ch)] = [logs |-> ch[Len(ch)].logs \o tx.logs,
                                                       world |-> tx.world, txs |-> k]]
    PROVE  /\ ChainOK(other) /\ Len(other) = Len(ch)
           /\ Agree(ch, other, Len(ch) - 1)
  <1> DEFINE L == Len(ch)
             old == ch[L].logs
             logs == old \o tx.logs
             blk == [logs |-> logs, world |-> tx.world, txs |-> k]
  <1>1. ch \in Seq(Block) /\ L \in Nat /\ L > 0 /\ L \in 1 .. L /\ L = Len(ch)
    BY DEF ChainOK
  <1>2. /\ tx.logs \in Seq(Event) /\ WorldOK(tx.world) /\ tx.world \in Worlds
        /\ old \in Seq(Event) /\ Len(old) > 0
    BY <1>1 DEF Done, Trace, WorldOK, ChainOK
  <1>3. Trace(BooksOf(WorldAt(ch, L - 1)), logs, BooksOf(tx.world))
    <2>1. Trace(BooksOf(WorldAt(ch, L - 1)), old, BooksOf(WorldAt(ch, L)))
      BY <1>1 DEF ChainOK
    <2>2. Trace(BooksOf(WorldAt(ch, L)), tx.logs, BooksOf(tx.world))
      BY DEF Done
    <2> HIDE DEF L, old
    <2> QED BY <2>1, <2>2, LogsThenLogs
  <1>4. logs \in Seq(Event) /\ Len(logs) > 0
    <2>1. Len(tx.logs) \in Nat /\ Len(old) \in Nat
      BY <1>2
    <2> HIDE DEF old
    <2> QED BY <1>2, <2>1
  <1> HIDE DEF logs
  <1>5. blk \in Block /\ blk.logs = logs /\ blk.world = tx.world
    BY <1>2, <1>4 DEF Block
  <1> HIDE DEF blk
  <1>6. /\ other \in Seq(Block) /\ Len(other) = L /\ other[L] = blk
        /\ \A n \in 1 .. L - 1 : other[n] = ch[n]
    <2>1. other = [ch EXCEPT ![L] = blk]
      BY DEF blk, logs
    <2> HIDE DEF L, old
    <2>2. ch \in [1 .. L -> Block]
      BY <1>1
    <2>3. other \in [1 .. L -> Block]
      BY <1>5, <2>1, <2>2
    <2>4. other \in Seq(Block) /\ Len(other) = L
      BY <1>1, <2>3
    <2>5. other[L] = blk
      BY <1>1, <2>1, <2>2
    <2>6. \A n \in 1 .. L - 1 : n \in 1 .. L /\ n # L
      BY <1>1
    <2>7. \A n \in 1 .. L - 1 : other[n] = ch[n]
      BY <2>1, <2>2, <2>6
    <2> QED BY <2>4, <2>5, <2>7
  <1> HIDE DEF L, old
  <1>7. Agree(ch, other, L - 1)
    <2>1. L - 1 \in 0 .. Len(ch) /\ L - 1 \in 0 .. Len(other)
      BY <1>1, <1>6
    <2> QED BY <1>6, <2>1 DEF Agree
  <1>8. ASSUME NEW n \in 1 .. L
        PROVE  /\ WorldOK(other[n].world) /\ Len(other[n].logs) > 0
               /\ Trace(BooksOf(WorldAt(other, n - 1)), other[n].logs, BooksOf(WorldAt(other, n)))
    <2>1. CASE n \in 1 .. L - 1
      BY <1>7, <2>1, AgreeTrace
    <2>2. CASE n = L
      <3>1. WorldAt(other, L - 1) = WorldAt(ch, L - 1)
        <4>1. L - 1 \in 0 .. L - 1
          BY <1>1
        <4> QED BY <1>7, <4>1, AgreeWorlds
      <3>2. WorldAt(other, L) = tx.world
        BY <1>1, <1>5, <1>6 DEF WorldAt
      <3> QED BY <1>2, <1>3, <1>4, <1>5, <1>6, <2>2, <3>1, <3>2
    <2>3. n \in 1 .. L - 1 \/ n = L
      BY <1>1
    <2> QED BY <2>1, <2>2, <2>3
  <1>9. ChainOK(other)
    BY <1>6, <1>8 DEF ChainOK
  <1> QED BY <1>6, <1>7, <1>9 DEF L

LEMMA ChainCut ==
    ASSUME NEW ch, ChainOK(ch), NEW m \in 0 .. Len(ch), NEW other, other = SubSeq(ch, 1, m)
    PROVE  /\ ChainOK(other) /\ Len(other) = m
           /\ Agree(ch, other, m)
  <1>1. ch \in Seq(Block) /\ m \in Nat /\ m <= Len(ch)
    BY DEF ChainOK
  <1>2. other \in Seq(Block) /\ Len(other) = m /\ \A n \in 1 .. m : other[n] = ch[n]
    BY <1>1
  <1>3. Agree(ch, other, m)
    BY <1>1, <1>2 DEF Agree
  <1>4. ChainOK(other)
    BY <1>2, <1>3, AgreeTrace DEF ChainOK
  <1> QED BY <1>2, <1>3, <1>4

-----------------------------------------------------------------------------
(* One log of the block *)

(* Tables t hold what is said before and by log d of block n, and not more. *)
Past(ch, t, n, d) ==
    \E g : BlockBy(g, ch, n) /\ Follows(t, g[d])
           /\ UpTo(t, <<n, d>>) /\ Applied(t, <<n, d>>, ch[n].logs[d])

LEMMA LogAt ==
    ASSUME NEW ch, ChainOK(ch), NEW n \in 1 .. Len(ch), NEW d \in Nat, d < Len(ch[n].logs)
    PROVE  /\ d + 1 \in 1 .. Len(ch[n].logs) /\ (d + 1) - 1 = d
           /\ d \in 0 .. Len(ch[n].logs) /\ d + 1 \in 0 .. Len(ch[n].logs)
           /\ ch[n].logs[d + 1] \in Event /\ n \in Nat /\ <<n, d + 1>> \in Position
  <1> DEFINE logs == ch[n].logs
  <1>1. ch \in Seq(Block)
    BY DEF ChainOK
  <1>2. ch[n] \in Block
    BY <1>1
  <1>3. logs \in Seq(Event)
    BY <1>2 DEF Block
  <1>4. n \in Nat
    BY <1>1
  <1>5. d < Len(logs)
    OBVIOUS
  <1> HIDE DEF logs
  <1>6. Len(logs) \in Nat
    BY <1>3
  <1>7. d + 1 \in 1 .. Len(logs) /\ (d + 1) - 1 = d /\ d \in 0 .. Len(logs) /\ d + 1 \in 0 .. Len(logs)
    BY <1>5, <1>6
  <1>8. logs[d + 1] \in Event
    BY <1>3, <1>7
  <1> QED BY <1>4, <1>7, <1>8 DEF logs, Position

(* A curve that trades has been created. *)
LEMMA TradeNeedsCurve ==
    ASSUME NEW ch, ChainOK(ch), NEW n \in 1 .. Len(ch), NEW t, Tally(t),
           NEW d \in Nat, d < Len(ch[n].logs), Under(ch, t, n, d),
           ch[n].logs[d + 1].kind = "Trade", ~(\E row \in t.trades : row.id = <<n, d + 1>>)
    PROVE  t.created
  <1> DEFINE e == ch[n].logs[d + 1]
             id == <<n, d + 1>>
  <1>1. PICK g : /\ BlockBy(g, ch, n)
                 /\ \/ Follows(t, g[d])
                    \/ Follows(t, g[d + 1]) /\ Applied(t, id, e)
    BY DEF Under
  <1>2. ~Applied(t, id, e)
    BY DEF Applied
  <1>3. Follows(t, g[d])
    BY <1>1, <1>2
  <1>4. d + 1 \in 1 .. Len(ch[n].logs) /\ (d + 1) - 1 = d
    BY LogAt
  <1>5. Says(g[d], e, g[d + 1])
    BY <1>1, <1>4 DEF BlockBy, TraceBy
  <1>6. g[d].created
    BY <1>5 DEF Says, TransferEvent, SwapEvent
  <1> QED BY <1>3, <1>6 DEF Follows

LEMMA LogHandled ==
    ASSUME NEW ch, ChainOK(ch), NEW n \in 1 .. Len(ch), NEW t, Tally(t),
           NEW d \in Nat, d < Len(ch[n].logs), Under(ch, t, n, d), NEW r,
           ch[n].logs[d + 1].kind = "Trade" /\ ~(\E row \in t.trades : row.id = <<n, d + 1>>)
             => r.curve,
           NEW after, after = Handled(t, r, <<n, d + 1>>, ch[n].logs[d + 1])
    PROVE  Tally(after) /\ Past(ch, after, n, d + 1)
  <1> DEFINE e == ch[n].logs[d + 1]
             id == <<n, d + 1>>
  <1>1. PICK g : /\ BlockBy(g, ch, n)
                 /\ \/ /\ Follows(t, g[d])
                       /\ \A row \in t.trades \cup t.transfers : Before(row.id, id)
                    \/ Follows(t, g[d + 1]) /\ UpTo(t, id) /\ Applied(t, id, e)
    BY DEF Under
  <1>2. /\ d + 1 \in 1 .. Len(ch[n].logs) /\ (d + 1) - 1 = d
        /\ d \in 0 .. Len(ch[n].logs) /\ d + 1 \in 0 .. Len(ch[n].logs)
        /\ e \in Event /\ id \in Position
    BY LogAt
  <1>3. Says(g[d], e, g[d + 1]) /\ g[d] \in Books /\ g[d + 1] \in Books
    BY <1>1, <1>2 DEF BlockBy, TraceBy
  <1>4. ASSUME Follows(t, g[d]), \A row \in t.trades \cup t.transfers : Before(row.id, id)
        PROVE  Tally(after) /\ UpTo(after, id) /\ Follows(after, g[d + 1]) /\ Applied(after, id, e)
    <2>1. ~(\E row \in t.trades : row.id = id)
      <3>1. ~Before(id, id)
        BY <1>2 DEF Before, Position
      <3> QED BY <1>4, <3>1
    <2>2. e.kind = "Trade" => r.curve
      BY <2>1
    <2>3. after = Handled(t, r, id, e)
      OBVIOUS
    <2> DEFINE b == g[d]
               c == g[d + 1]
    <2>4. /\ b \in Books /\ c \in Books /\ e \in Event /\ id \in Position
          /\ Says(b, e, c) /\ Follows(t, b)
      BY <1>2, <1>3, <1>4
    <2> HIDE DEF b, c, e, id
    <2>5. Tally(after) /\ UpTo(after, id) /\ Follows(after, c) /\ Applied(after, id, e)
      BY <1>4, <2>2, <2>3, <2>4, HandledOnce
    <2> QED BY <2>5 DEF c
  <1>5. ASSUME Follows(t, g[d + 1]), UpTo(t, id), Applied(t, id, e)
        PROVE  Tally(after) /\ UpTo(after, id) /\ Follows(after, g[d + 1]) /\ Applied(after, id, e)
    <2> DEFINE c == g[d + 1]
    <2>1. /\ c \in Books /\ e \in Event /\ id \in Position
          /\ after = Handled(t, r, id, e)
          /\ Follows(t, c)
      BY <1>2, <1>3, <1>5
    <2> HIDE DEF c, e, id
    <2>2. Tally(after) /\ UpTo(after, id) /\ Follows(after, c) /\ Applied(after, id, e)
      BY <1>5, <2>1, HandledAgain
    <2> QED BY <2>2 DEF c
  <1> QED BY <1>1, <1>4, <1>5 DEF Past

(* The log will come again; the next one comes; the block is done. *)
LEMMA LogAgain ==
    ASSUME NEW ch, NEW n, NEW d, NEW t, Past(ch, t, n, d + 1)
    PROVE  Under(ch, t, n, d)
  BY DEF Past, Under

LEMMA LogNext ==
    ASSUME NEW ch, NEW n \in Nat, NEW d \in Nat, NEW t, Tally(t), Past(ch, t, n, d)
    PROVE  Under(ch, t, n, d)
  <1>1. PICK g : BlockBy(g, ch, n) /\ Follows(t, g[d]) /\ UpTo(t, <<n, d>>)
    BY DEF Past
  <1>2. ASSUME NEW row \in t.trades \cup t.transfers PROVE Before(row.id, <<n, d + 1>>)
    <2>1. row.id \in Position
      BY DEF Tally, TableRow, Row, TransferRow
    <2>2. row.id = <<n, d>> \/ Before(row.id, <<n, d>>)
      BY <1>1 DEF UpTo
    <2> QED BY <2>1, <2>2 DEF Before, Position
  <1> QED BY <1>1, <1>2 DEF Under

LEMMA BlockEnds ==
    ASSUME NEW ch, NEW n \in Nat, NEW d \in Nat, NEW t, Tally(t), Past(ch, t, n, d),
           d = Len(ch[n].logs)
    PROVE  At(ch, t, n + 1)
  <1>1. PICK g : BlockBy(g, ch, n) /\ Follows(t, g[d]) /\ UpTo(t, <<n, d>>)
    BY DEF Past
  <1>2. ASSUME NEW row \in t.trades \cup t.transfers PROVE row.id[1] < n + 1
    <2>1. row.id \in Position
      BY DEF Tally, TableRow, Row, TransferRow
    <2>2. row.id = <<n, d>> \/ Before(row.id, <<n, d>>)
      BY <1>1 DEF UpTo
    <2> QED BY <2>1, <2>2 DEF Before, Position
  <1>3. Follows(t, BooksOf(WorldAt(ch, (n + 1) - 1)))
    <2>1. (n + 1) - 1 = n
      OBVIOUS
    <2> QED BY <1>1, <2>1 DEF BlockBy, TraceBy
  <1> QED BY <1>2, <1>3 DEF At

-----------------------------------------------------------------------------
(* The inductive invariant *)

LEMMA NothingTallied == Tally(NoRows)
  <1> DEFINE none == [h \in Holder |-> 0]
             bases == [u \in Trader |-> NoBasis]
  <1>1. /\ NoRows.trades = {} /\ NoRows.transfers = {} /\ NoRows.candles = << >>
        /\ NoRows.tradeCount = 0 /\ NoRows.basis = bases
    BY DEF NoRows
  <1>2. DOMAIN << >> = {} /\ << >> = [key \in {} |-> CandleRow]
    OBVIOUS
  <1>3. << >> \in [{} -> CandleRow]
    BY <1>2
  <1>4. << >> \in Candles
    BY <1>3 DEF Candles
  <1>5. none \in [Holder -> Int] /\ NoBasis \in BasisRow /\ bases \in [Trader -> BasisRow]
    BY DEF NoBasis, BasisRow
  <1>6. NoRows \in TableRow
    BY <1>4, <1>5 DEF NoRows, TableRow
  <1>7. CandlesOK(NoRows.candles, NoRows.trades)
    BY <1>1, <1>2 DEF CandlesOK
  <1>8. BasesOK(NoRows.basis, NoRows.trades)
    <2> SUFFICES ASSUME NEW u \in Trader
                 PROVE  BasisOK(NoBasis, RowsOf({}, u, TRUE), RowsOf({}, u, FALSE))
      BY <1>1 DEF BasesOK
    <2>1. RowsOf({}, u, TRUE) = {} /\ RowsOf({}, u, FALSE) = {}
      BY DEF RowsOf
    <2>2. SumOf({}, "tokens") = 0 /\ SumOf({}, "eth") = 0 /\ SumOf({}, "fee") = 0
      BY SumOfNothing DEF Column
    <2>3. NoBasis.bought = 0 /\ NoBasis.ethIn = 0 /\ NoBasis.sold = 0 /\ NoBasis.ethOut = 0
      BY DEF NoBasis
    <2>4. BasisOK(NoBasis, {}, {})
      BY <2>2, <2>3 DEF BasisOK
    <2> QED BY <2>1, <2>4
  <1>9. IsFiniteSet({}) /\ Cardinality({}) = 0
    BY FS_EmptySet
  <1> QED BY <1>1, <1>6, <1>7, <1>8, <1>9 DEF Tally

LEMMA NothingSaid ==
    ASSUME NEW ch
    PROVE  At(ch, NoRows, 1)
  <1>1. 1 - 1 = 0
    OBVIOUS
  <1>2. Follows(NoRows, BooksOf(Unborn))
    BY DEF Follows, BooksOf, Book, Unborn, NoRows
  <1>3. NoRows.trades \cup NoRows.transfers = {}
    BY DEF NoRows
  <1> QED BY <1>1, <1>2, <1>3, NothingTallied DEF At, WorldAt

LEMMA Initially == Init => IndexerInv
  <1> SUFFICES ASSUME Init PROVE IndexerInv
    OBVIOUS
  <1>1. /\ chain = << >> /\ saved = <<NoRows>> /\ tables = NoRows
        /\ delivered = 0 /\ registry = Unknown
    BY DEF Init, LedgersInit
  <1>2. ChainOK(chain) /\ Len(chain) = 0
    BY <1>1 DEF ChainOK
  <1>3. NoRows \in TableRow
    BY NothingTallied DEF Tally
  <1>4. saved \in Seq(TableRow) /\ Len(saved) = 1 /\ saved[1] = NoRows
    BY <1>1, <1>3
  <1>5. SavedOK(chain, saved)
    BY <1>2, <1>4, NothingSaid DEF SavedOK
  <1>6. TablesOK(chain, saved, tables, delivered)
    BY <1>1, <1>2, <1>4, NothingTallied DEF TablesOK
  <1>7. RegistryOK
    BY <1>1 DEF RegistryOK, Unknown
  <1>8. MetricsInv
    BY MetricsInitially DEF Init
  <1> QED BY <1>2, <1>5, <1>6, <1>7, <1>8 DEF IndexerInv

(* Tables that are between two blocks. *)
LEMMA TablesAtRest ==
    ASSUME NEW ch, ChainOK(ch), NEW sv, SavedOK(ch, sv)
    PROVE  TablesOK(ch, sv, sv[Len(sv)], 0)
  <1> DEFINE L == Len(sv)
             t == sv[L]
  <1>1. L \in 1 .. L /\ L \in Nat /\ Len(ch) \in Nat
    BY DEF SavedOK, ChainOK
  <1>2. At(ch, t, L)
    BY <1>1 DEF SavedOK
  <1>3. Tally(t)
    BY <1>2 DEF At
  <1>4. ASSUME L <= Len(ch) PROVE 0 < Len(ch[L].logs) /\ Under(ch, t, L, 0)
    <2>1. L \in 1 .. Len(ch)
      BY <1>1, <1>4
    <2> HIDE DEF L, t
    <2> QED BY <1>2, <2>1, BlockBegins
  <1> QED BY <1>3, <1>4 DEF TablesOK

(* A block comes, or the last one grows. *)
LEMMA MineKeeps ==
    ASSUME IndexerInv, Mine
    PROVE  ChainOK(chain)' /\ SavedOK(chain, saved)' /\ TablesOK(chain, saved, tables, delivered)'
  <1>1. /\ ChainOK(chain) /\ SavedOK(chain, saved) /\ TablesOK(chain, saved, tables, delivered)
        /\ chain \in Seq(Block) /\ saved \in Seq(TableRow)
        /\ Len(chain) \in Nat /\ Len(saved) \in 1 .. Len(chain) + 1
        /\ saved' = saved /\ tables' = tables /\ delivered' = delivered
    BY DEF IndexerInv, ChainOK, SavedOK, Mine
  <1>2. PICK tx \in Txs(World(Len(chain))) :
          \/ /\ Len(chain) <= Current
             /\ chain' = Append(chain, [logs |-> tx.logs, world |-> tx.world,
                                        txs |-> TxCount + 1])
          \/ /\ Current < Len(chain)
             /\ chain' = [chain EXCEPT ![Len(chain)] =
                             [logs |-> @.logs \o tx.logs, world |-> tx.world, txs |-> @.txs + 1]]
    BY DEF Mine
  <1>3. Done(WorldAt(chain, Len(chain)), tx)
    <2> DEFINE w == WorldAt(chain, Len(chain))
    <2>1. Len(chain) \in 0 .. Len(chain)
      BY <1>1
    <2>2. WorldOK(w)
      BY <1>1, <2>1, WorldsAt
    <2>3. tx \in Txs(w)
      BY <1>2 DEF World, WorldAt
    <2> HIDE DEF w
    <2>4. Done(w, tx)
      BY <2>2, <2>3, TxDone
    <2> QED BY <2>4 DEF w
  <1>4. TxCount + 1 \in Nat
    <2>1. ASSUME chain # << >> PROVE chain[Len(chain)].txs \in Nat
      <3>1. Len(chain) \in 1 .. Len(chain)
        BY <1>1, <2>1
      <3>2. chain[Len(chain)] \in Block
        BY <1>1, <3>1
      <3> QED BY <3>2 DEF Block
    <2>2. TxCount \in Nat
      BY <2>1 DEF TxCount
    <2> QED BY <2>2
  <1>5. CASE /\ Len(chain) <= Current
             /\ chain' = Append(chain, [logs |-> tx.logs, world |-> tx.world, txs |-> TxCount + 1])
    <2>1. /\ ChainOK(chain') /\ Len(chain') = Len(chain) + 1 /\ Agree(chain, chain', Len(chain))
      BY <1>1, <1>3, <1>4, <1>5, ChainAppends
    <2>2. chain' \in Seq(Block)
      BY <2>1 DEF ChainOK
    <2>3. SavedOK(chain', saved)
      <3>1. Len(saved) <= Len(chain) + 1
        BY <1>1
      <3> QED BY <1>1, <2>1, <2>2, <3>1, AgreeSaved
    <2>4. TablesOK(chain', saved, tables, delivered)
      <3>1. CASE Len(saved) <= Len(chain)
        <4>1. Len(saved) = Len(chain) /\ Len(saved) \in 1 .. Len(chain)
          BY <1>1, <1>5, <3>1 DEF Current
        <4>2. Under(chain', tables, Len(saved), delivered)
          BY <1>1, <2>1, <4>1, AgreeUnder DEF TablesOK
        <4>3. chain'[Len(saved)] = chain[Len(saved)]
          BY <2>1, <4>1 DEF Agree
        <4> QED BY <1>1, <2>1, <4>1, <4>2, <4>3 DEF TablesOK
      <3>2. CASE Len(saved) > Len(chain)
        <4>1. delivered = 0 /\ tables = saved[Len(saved)]
          BY <1>1, <3>2 DEF TablesOK
        <4> QED BY <2>1, <2>3, <4>1, TablesAtRest
      <3>3. Len(saved) \in Nat
        BY <1>1
      <3> QED BY <1>1, <3>1, <3>2, <3>3
    <2> QED BY <1>1, <2>1, <2>3, <2>4
  <1>6. CASE /\ Current < Len(chain)
             /\ chain' = [chain EXCEPT ![Len(chain)] =
                             [logs |-> @.logs \o tx.logs, world |-> tx.world, txs |-> @.txs + 1]]
    <2> DEFINE m == Len(chain) - 1
               k == chain[Len(chain)].txs + 1
    <2>0. /\ Len(saved) \in Nat /\ Len(saved) < Len(chain) /\ Len(chain) > 0
          /\ Len(saved) \in 1 .. m /\ Len(saved) <= m + 1
      BY <1>1, <1>6 DEF Current
    <2>1. k \in Nat
      <3>1. chain[Len(chain)] \in Block
        BY <1>1, <2>0
      <3> QED BY <3>1 DEF Block
    <2>2. chain' = [chain EXCEPT ![Len(chain)] = [logs |-> chain[Len(chain)].logs \o tx.logs,
                                                  world |-> tx.world, txs |-> k]]
      BY <1>6
    <2> HIDE DEF k
    <2>3. ChainOK(chain') /\ Len(chain') = Len(chain) /\ Agree(chain, chain', m)
      BY <1>1, <1>3, <2>0, <2>1, <2>2, ChainExtends
    <2> HIDE DEF m
    <2>4. chain' \in Seq(Block)
      BY <2>3 DEF ChainOK
    <2>5. SavedOK(chain', saved)
      BY <1>1, <2>0, <2>3, <2>4, AgreeSaved
    <2>6. TablesOK(chain', saved, tables, delivered)
      <3>1. Under(chain, tables, Len(saved), delivered) /\ delivered < Len(chain[Len(saved)].logs)
        BY <1>1, <2>0 DEF TablesOK
      <3>2. Under(chain', tables, Len(saved), delivered)
        BY <1>1, <2>0, <2>3, <3>1, AgreeUnder
      <3>3. chain'[Len(saved)] = chain[Len(saved)]
        BY <2>0, <2>3 DEF Agree
      <3>4. Tally(tables) /\ delivered \in Nat
        BY <1>1 DEF TablesOK
      <3>5. ~(Len(saved) > Len(chain'))
        BY <1>1, <2>0, <2>3
      <3> QED BY <3>1, <3>2, <3>3, <3>4, <3>5 DEF TablesOK
    <2> QED BY <1>1, <2>3, <2>5, <2>6
  <1> QED BY <1>2, <1>5, <1>6

(* The tables go back to what they were before block n. *)
LEMMA SavedCut ==
    ASSUME NEW ch \in Seq(Block), NEW sv, SavedOK(ch, sv), NEW n \in 1 .. Len(sv)
    PROVE  /\ SavedOK(ch, SubSeq(sv, 1, n)) /\ Len(SubSeq(sv, 1, n)) = n
           /\ SubSeq(sv, 1, n)[n] = sv[n]
  <1> DEFINE other == SubSeq(sv, 1, n)
  <1>1. sv \in Seq(TableRow) /\ Len(sv) \in 1 .. Len(ch) + 1 /\ Len(ch) \in Nat /\ n \in Nat
    BY DEF SavedOK
  <1>2. /\ other \in Seq(TableRow) /\ Len(other) = n
        /\ \A k \in 1 .. n : other[k] = sv[k]
    BY <1>1
  <1>3. n \in 1 .. Len(ch) + 1 /\ \A k \in 1 .. n : k \in 1 .. Len(sv)
    BY <1>1
  <1>4. SavedOK(ch, other)
    BY <1>2, <1>3 DEF SavedOK
  <1> QED BY <1>1, <1>2, <1>4

LEMMA ReorgKeeps ==
    ASSUME IndexerInv, Reorg
    PROVE  ChainOK(chain)' /\ SavedOK(chain, saved)' /\ TablesOK(chain, saved, tables, delivered)'
  <1>1. /\ ChainOK(chain) /\ SavedOK(chain, saved) /\ chain \in Seq(Block)
        /\ Len(chain) \in Nat /\ Len(saved) \in 1 .. Len(chain) + 1
    BY DEF IndexerInv, ChainOK, SavedOK
  <1>2. PICK n \in 1 .. Len(saved) - 1 :
          /\ chain' = SubSeq(chain, 1, n - 1)
          /\ tables' = saved[n] /\ saved' = SubSeq(saved, 1, n) /\ delivered' = 0
    BY DEF Reorg, BackTo, Current
  <1> DEFINE m == n - 1
  <1>3. m \in 0 .. Len(chain) /\ n = m + 1 /\ n \in 1 .. Len(saved) /\ n \in Nat
    BY <1>1
  <1>4. chain' = SubSeq(chain, 1, m)
    BY <1>2
  <1> HIDE DEF m
  <1>5. ChainOK(chain') /\ Len(chain') = m /\ Agree(chain, chain', m)
    BY <1>1, <1>3, <1>4, ChainCut
  <1>6. chain' \in Seq(Block)
    BY <1>5 DEF ChainOK
  <1>7. SavedOK(chain, saved') /\ Len(saved') = n /\ saved'[Len(saved')] = saved[n]
    <2>1. /\ SavedOK(chain, SubSeq(saved, 1, n)) /\ Len(SubSeq(saved, 1, n)) = n
          /\ SubSeq(saved, 1, n)[n] = saved[n]
      BY <1>1, <1>3, SavedCut
    <2> QED BY <1>2, <2>1
  <1>8. SavedOK(chain', saved')
    <2>1. Len(saved') <= m + 1
      BY <1>3, <1>7
    <2> QED BY <1>1, <1>5, <1>6, <1>7, <2>1, AgreeSaved
  <1>9. TablesOK(chain', saved', tables', delivered')
    BY <1>2, <1>5, <1>7, <1>8, TablesAtRest
  <1> QED BY <1>5, <1>8, <1>9

LEMMA RestartKeeps ==
    ASSUME IndexerInv, Restart
    PROVE  /\ ChainOK(chain)' /\ SavedOK(chain, saved)' /\ TablesOK(chain, saved, tables, delivered)'
           /\ RegistryOK'
  <1>1. /\ ChainOK(chain) /\ SavedOK(chain, saved) /\ chain \in Seq(Block)
        /\ chain' = chain /\ registry' = Unknown
    BY DEF IndexerInv, ChainOK, Restart
  <1>2. PICK n \in 1 .. Len(saved) :
          tables' = saved[n] /\ saved' = SubSeq(saved, 1, n) /\ delivered' = 0
    BY DEF Restart, BackTo, Current
  <1>3. SavedOK(chain, saved') /\ saved'[Len(saved')] = saved[n]
    <2>1. /\ SavedOK(chain, SubSeq(saved, 1, n)) /\ Len(SubSeq(saved, 1, n)) = n
          /\ SubSeq(saved, 1, n)[n] = saved[n]
      BY <1>1, <1>2, SavedCut
    <2> QED BY <1>2, <2>1
  <1>4. TablesOK(chain, saved', tables', delivered')
    BY <1>1, <1>2, <1>3, TablesAtRest
  <1>5. RegistryOK'
    BY <1>1 DEF RegistryOK, Unknown
  <1> QED BY <1>1, <1>3, <1>4, <1>5

(* The registries know a created curve once they have looked.             *)
LEMMA LookedUp ==
    ASSUME RegistryOK, Tally(tables), NEW e \in Event, e.kind = "Trade" => tables.created,
           NEW r, r = Looked(registry, e)
    PROVE  /\ r \in [curve : BOOLEAN, curveHydrated : BOOLEAN, pool : BOOLEAN, gradHydrated : BOOLEAN]
           /\ r.curveHydrated => r.curve
           /\ e.kind = "Trade" => r.curve
  <1> DEFINE Registries ==
        [curve : BOOLEAN, curveHydrated : BOOLEAN, pool : BOOLEAN, gradHydrated : BOOLEAN]
  <1>1. /\ registry \in Registries /\ (registry.curveHydrated => registry.curve)
        /\ tables.created \in BOOLEAN /\ tables.graduated \in BOOLEAN
    BY DEF RegistryOK, Tally, TableRow
  <1>2. CASE e.kind = "TokenCreated"
    <2>1. r = [registry EXCEPT !.curve = TRUE]
      BY <1>2 DEF Looked
    <2> QED BY <1>1, <1>2, <2>1
  <1>3. CASE e.kind = "Graduated"
    <2>1. r = registry \/ r = [registry EXCEPT !.pool = TRUE]
      BY <1>3 DEF Looked
    <2> QED BY <1>1, <1>3, <2>1
  <1>4. CASE e.kind = "Trade"
    <2>1. r = [registry EXCEPT !.curve = registry.curve \/ (~registry.curveHydrated /\ tables.created),
                               !.curveHydrated = TRUE]
      BY <1>4 DEF Looked
    <2>2. registry.curve \/ (~registry.curveHydrated /\ tables.created)
      BY <1>1, <1>4
    <2>3. r = [registry EXCEPT !.curve = TRUE, !.curveHydrated = TRUE]
      BY <1>1, <2>1, <2>2
    <2> QED BY <1>1, <2>3
  <1>5. CASE e.kind = "Swap"
    <2> DEFINE found == registry.pool \/ (~registry.gradHydrated /\ tables.graduated)
    <2>1. r = [registry EXCEPT !.pool = found, !.gradHydrated = TRUE]
      BY <1>5 DEF Looked
    <2>2. found \in BOOLEAN
      BY <1>1
    <2> HIDE DEF found
    <2> QED BY <1>1, <1>5, <2>1, <2>2
  <1>6. CASE e.kind = "Transfer"
    BY <1>1, <1>6 DEF Looked
  <1>7. e.kind \in {"Transfer", "TokenCreated", "Trade", "Swap", "Graduated"}
    BY DEF Event, TransferEvent, Fill, TradeEvent, SwapEvent
  <1> QED BY <1>2, <1>3, <1>4, <1>5, <1>6, <1>7

LEMMA DeliverKeeps ==
    ASSUME IndexerInv, NEW again \in BOOLEAN, Deliver(again)
    PROVE  /\ ChainOK(chain)' /\ SavedOK(chain, saved)' /\ TablesOK(chain, saved, tables, delivered)'
           /\ RegistryOK'
           /\ <<Current, delivered + 1>> \in Position /\ Current > 0
  <1> DEFINE n == Len(saved)
             d == delivered
             e == chain[n].logs[d + 1]
             id == <<n, d + 1>>
             r == IF Seen(id) THEN registry ELSE Looked(registry, e)
             t == Handled(tables, r, id, e)
             last == d + 1 = Len(chain[n].logs)
  <1>1. /\ ChainOK(chain) /\ SavedOK(chain, saved) /\ chain \in Seq(Block) /\ saved \in Seq(TableRow)
        /\ n \in 1 .. Len(chain) /\ n \in Nat
        /\ Tally(tables) /\ d \in Nat /\ d < Len(chain[n].logs) /\ Under(chain, tables, n, d)
        /\ RegistryOK /\ chain' = chain
    <2>1. /\ ChainOK(chain) /\ SavedOK(chain, saved) /\ TablesOK(chain, saved, tables, delivered)
          /\ RegistryOK /\ chain' = chain /\ n <= Len(chain)
      BY DEF IndexerInv, Deliver, Current
    <2>2. /\ chain \in Seq(Block) /\ saved \in Seq(TableRow) /\ Len(saved) \in 1 .. Len(chain) + 1
          /\ Len(chain) \in Nat
      BY <2>1 DEF ChainOK, SavedOK
    <2>3. ~(n > Len(chain))
      BY <2>1, <2>2
    <2> QED BY <2>1, <2>2, <2>3 DEF TablesOK
  <1>2. /\ tables' = t /\ registry' = r
        /\ saved' = IF last /\ ~again THEN Append(saved, t) ELSE saved
        /\ delivered' = IF again THEN delivered ELSE IF last THEN 0 ELSE delivered + 1
    BY DEF Deliver, Current, NextLog
  <1>3. e \in Event /\ id \in Position
    BY <1>1, LogAt
  <1>4. (e.kind = "Trade" /\ ~Seen(id)) => tables.created
    BY <1>1, TradeNeedsCurve DEF Seen
  <1>5. /\ r \in [curve : BOOLEAN, curveHydrated : BOOLEAN, pool : BOOLEAN, gradHydrated : BOOLEAN]
        /\ r.curveHydrated => r.curve
        /\ (e.kind = "Trade" /\ ~Seen(id)) => r.curve
    <2>1. CASE Seen(id)
      BY <1>1, <2>1 DEF RegistryOK
    <2>2. CASE ~Seen(id)
      <3>1. e.kind = "Trade" => tables.created
        BY <1>4, <2>2
      <3> DEFINE q == Looked(registry, e)
      <3>2. r = q
        BY <2>2
      <3> HIDE DEF r, e
      <3>3. e \in Event /\ q = Looked(registry, e)
        BY <1>3
      <3> HIDE DEF q
      <3>4. /\ q \in [curve : BOOLEAN, curveHydrated : BOOLEAN, pool : BOOLEAN, gradHydrated : BOOLEAN]
            /\ q.curveHydrated => q.curve
            /\ e.kind = "Trade" => q.curve
        BY <1>1, <3>1, <3>3, LookedUp
      <3> QED BY <3>2, <3>4
    <2> QED BY <2>1, <2>2
  <1>6. RegistryOK'
    BY <1>2, <1>5 DEF RegistryOK
  <1> HIDE DEF r
  <1>7. Tally(t) /\ Past(chain, t, n, d + 1)
    <2>1. e.kind = "Trade" /\ ~(\E row \in tables.trades : row.id = id) => r.curve
      BY <1>5 DEF Seen
    <2>2. t = Handled(tables, r, <<n, d + 1>>, chain[n].logs[d + 1])
      OBVIOUS
    <2> HIDE DEF t, n, d
    <2> QED BY <1>1, <2>1, <2>2, LogHandled
  <1> HIDE DEF t
  <1>8. SavedOK(chain, saved') /\ TablesOK(chain, saved', tables', delivered')
    <2>0. n = Len(saved) /\ d = delivered /\ n > 0
      BY <1>1
    <2>1. CASE again
      <3>1. saved' = saved /\ delivered' = delivered
        BY <1>2, <2>1
      <3>2. Under(chain, t, n, d)
        BY <1>7, LogAgain
      <3>3. ~(Len(saved) > Len(chain))
        BY <1>1
      <3> QED BY <1>1, <1>2, <1>7, <3>1, <3>2, <3>3 DEF TablesOK
    <2>2. CASE ~again /\ ~last
      <3>1. saved' = saved /\ delivered' = d + 1
        BY <1>2, <2>2
      <3>2. d + 1 \in Nat /\ d + 1 < Len(chain[n].logs)
        <4>1. d + 1 \in 1 .. Len(chain[n].logs)
          BY <1>1, LogAt
        <4>2. chain[n] \in Block
          BY <1>1
        <4>3. Len(chain[n].logs) \in Nat
          BY <4>2 DEF Block
        <4> QED BY <1>1, <2>2, <4>1, <4>3
      <3>3. Under(chain, t, n, d + 1)
        BY <1>1, <1>7, <3>2, LogNext
      <3>4. ~(Len(saved) > Len(chain))
        BY <1>1
      <3> QED BY <1>1, <1>2, <1>7, <3>1, <3>2, <3>3, <3>4 DEF TablesOK
    <2>3. CASE ~again /\ last
      <3>1. saved' = Append(saved, t) /\ delivered' = 0
        BY <1>2, <2>3
      <3>2. At(chain, t, n + 1)
        <4>1. d + 1 \in Nat /\ d + 1 = Len(chain[n].logs)
          BY <1>1, <2>3
        <4> HIDE DEF n, d
        <4> QED BY <1>1, <1>7, <4>1, BlockEnds
      <3>3. t \in TableRow
        BY <1>7 DEF Tally
      <3>4. /\ saved' \in Seq(TableRow) /\ Len(saved') = n + 1 /\ saved'[n + 1] = t
            /\ \A k \in 1 .. n : saved'[k] = saved[k]
        BY <1>1, <3>1, <3>3
      <3>5. n + 1 \in 1 .. Len(chain) + 1 /\ \A k \in 1 .. n + 1 : k \in 1 .. n \/ k = n + 1
        BY <1>1
      <3>6. \A k \in 1 .. n : At(chain, saved[k], k)
        BY <1>1 DEF SavedOK
      <3>7. SavedOK(chain, saved')
        BY <3>2, <3>4, <3>5, <3>6 DEF SavedOK
      <3>8. TablesOK(chain, saved', saved'[Len(saved')], 0)
        BY <1>1, <3>7, TablesAtRest
      <3> QED BY <1>2, <3>1, <3>4, <3>7, <3>8
    <2> QED BY <2>1, <2>2, <2>3
  <1>9. <<Current, delivered + 1>> \in Position /\ Current > 0
    BY <1>1, <1>3 DEF Current
  <1> QED BY <1>1, <1>6, <1>8, <1>9

LEMMA IndexLogKeeps ==
    ASSUME IndexerInv, IndexLog
    PROVE  IndexerInv'
  <1>1. PICK again \in BOOLEAN :
          /\ Deliver(again)
          /\ IF tables'.trades # tables.trades \/ tables'.graduated # tables.graduated
             THEN enqueue(<<Current, delivered + 1>>)
             ELSE UNCHANGED metricsVars
    BY DEF IndexLog
  <1>2. /\ ChainOK(chain)' /\ SavedOK(chain, saved)' /\ TablesOK(chain, saved, tables, delivered)'
        /\ RegistryOK'
        /\ <<Current, delivered + 1>> \in Position /\ Current > 0
    BY <1>1, DeliverKeeps
  <1>3. MetricsInv
    BY DEF IndexerInv
  <1>4. MetricsInv'
    <2> DEFINE position == <<Current, delivered + 1>>
    <2>1. CASE UNCHANGED metricsVars
      BY <1>3, <2>1, CoalescerKeeps
    <2>2. ASSUME enqueue(position) PROVE MetricsInv'
      <3>1. position \in Position /\ position[1] > 0
        BY <1>2
      <3> HIDE DEF position
      <3> QED BY <1>3, <2>2, <3>1, EnqueueKeeps
    <2> QED BY <1>1, <2>1, <2>2
  <1> QED BY <1>2, <1>4 DEF IndexerInv

(* Every block of the chain is a trace of logs from the state before it to *)
(* its own; the tables saved before each block are those of the chain so   *)
(* far; and the tables themselves follow the trace of the block under way, *)
(* a log behind or with the log that is to come again.                     *)
THEOREM IndexerInvariant == Spec => []IndexerInv
  <1>1. Init => IndexerInv
    BY Initially
  <1>2. IndexerInv /\ [Next]_vars => IndexerInv'
    <2> SUFFICES ASSUME IndexerInv, [Next]_vars PROVE IndexerInv'
      OBVIOUS
    <2>1. /\ ChainOK(chain) /\ SavedOK(chain, saved) /\ TablesOK(chain, saved, tables, delivered)
          /\ RegistryOK /\ MetricsInv
      BY DEF IndexerInv
    <2>2. CASE Mine /\ UNCHANGED metricsVars
      <3>1. RegistryOK'
        BY <2>1, <2>2 DEF Mine, RegistryOK
      <3>2. MetricsInv'
        BY <2>1, <2>2, CoalescerKeeps
      <3> QED BY <2>2, <3>1, <3>2, MineKeeps DEF IndexerInv
    <2>3. CASE Reorg /\ UNCHANGED metricsVars
      <3>1. RegistryOK'
        BY <2>1, <2>3 DEF Reorg, RegistryOK
      <3>2. MetricsInv'
        BY <2>1, <2>3, CoalescerKeeps
      <3> QED BY <2>3, <3>1, <3>2, ReorgKeeps DEF IndexerInv
    <2>4. CASE IndexLog
      BY <2>4, IndexLogKeeps
    <2>5. CASE Coalescer
      <3>1. MetricsInv'
        BY <2>1, <2>5, CoalescerKeeps
      <3>2. UNCHANGED ledgerVars
        BY <2>5 DEF Coalescer
      <3> QED BY <2>1, <3>1, <3>2 DEF ledgerVars, IndexerInv, RegistryOK
    <2>6. CASE Restart /\ MetricsRestart
      <3>1. MetricsInv'
        BY <2>1, <2>6, CoalescerKeeps
      <3> QED BY <2>6, <3>1, RestartKeeps DEF IndexerInv
    <2>7. CASE UNCHANGED vars
      <3>1. MetricsInv'
        BY <2>1, <2>7, CoalescerKeeps DEF vars
      <3> QED BY <2>1, <2>7, <3>1 DEF vars, ledgerVars, IndexerInv, RegistryOK
    <2> QED BY <2>2, <2>3, <2>4, <2>5, <2>6, <2>7 DEF Next
  <1> QED BY <1>1, <1>2, PTL DEF Spec

-----------------------------------------------------------------------------
(* What follows from it *)

LEMMA BetweenBlocksAt ==
    ASSUME IndexerInv, BetweenBlocks
    PROVE  At(chain, tables, Current)
  <1>1. Current \in 1 .. Current
    BY DEF IndexerInv, SavedOK, Current
  <1> QED BY <1>1 DEF IndexerInv, SavedOK, BetweenBlocks, Current

LEMMA FollowsSome ==
    ASSUME IndexerInv
    PROVE  \E b \in Books : Follows(tables, b)
  <1>1. /\ ChainOK(chain) /\ SavedOK(chain, saved) /\ TablesOK(chain, saved, tables, delivered)
        /\ Len(saved) \in 1 .. Len(chain) + 1 /\ Len(chain) \in Nat /\ delivered \in Nat
    BY DEF IndexerInv, ChainOK, SavedOK, TablesOK
  <1>2. CASE Len(saved) > Len(chain)
    <2> DEFINE w == WorldAt(chain, Current - 1)
    <2>1. BetweenBlocks
      BY <1>1, <1>2 DEF TablesOK, BetweenBlocks, Current
    <2>2. Follows(tables, BooksOf(w))
      BY <2>1, BetweenBlocksAt DEF At
    <2>3. Current - 1 \in 0 .. Len(chain)
      BY <1>1 DEF Current
    <2>4. w \in Worlds
      BY <1>1, <2>3, WorldsAt DEF WorldOK
    <2> HIDE DEF w
    <2> QED BY <2>2, <2>4, BooksOfWorlds
  <1>3. CASE Len(saved) <= Len(chain)
    <2> DEFINE n == Len(saved)
    <2>1. n \in 1 .. Len(chain) /\ delivered < Len(chain[n].logs)
      BY <1>1, <1>3 DEF TablesOK
    <2>2. PICK g : /\ BlockBy(g, chain, n)
                   /\ Follows(tables, g[delivered]) \/ Follows(tables, g[delivered + 1])
      BY <1>1, <1>3 DEF TablesOK, Under
    <2>3. delivered \in 0 .. Len(chain[n].logs) /\ delivered + 1 \in 0 .. Len(chain[n].logs)
      BY <1>1, <2>1, LogAt
    <2>4. g[delivered] \in Books /\ g[delivered + 1] \in Books
      BY <2>2, <2>3 DEF BlockBy, TraceBy
    <2> QED BY <2>2, <2>4
  <1> QED BY <1>1, <1>2, <1>3

(* The tables are well typed, and no reserve in them is ever negative.     *)
THEOREM IndexerTypes == Spec => []TypeOK
  <1>1. IndexerInv => TypeOK
    <2> SUFFICES ASSUME IndexerInv PROVE TypeOK
      OBVIOUS
    <2>1. Tally(tables) /\ MetricsInv /\ SavedOK(chain, saved)
      BY DEF IndexerInv, TablesOK
    <2>2. /\ tables.balance \in [Holder -> Int] /\ tables.holderCount \in Int
          /\ tables.basis \in [Trader -> BasisRow]
      BY <2>1 DEF Tally, TableRow
    <2>3. tables.realToken \in Nat /\ tables.realEth \in Nat
      <3>1. PICK b \in Books : Follows(tables, b)
        BY FollowsSome
      <3>2. b.sold \in Nat /\ CurveSupply - b.sold \in Nat
        BY EventLogAssumption DEF Books
      <3>3. b.sold * TokenCost \in Nat
        BY <3>2 DEF TokenCost
      <3> QED BY <3>1, <3>2, <3>3 DEF Follows
    <2>4. \A u \in Trader : \A column \in DOMAIN NoBasis : tables.basis[u][column] \in Nat
      <3>1. DOMAIN NoBasis = {"bought", "sold", "ethIn", "ethOut"}
        BY DEF NoBasis
      <3>2. \A b \in BasisRow : b.bought \in Nat /\ b.sold \in Nat /\ b.ethIn \in Nat /\ b.ethOut \in Nat
        BY DEF BasisRow
      <3> QED BY <2>2, <3>1, <3>2
    <2>5. \A key \in DOMAIN tables.candles : tables.candles[key] \in CandleRow
      BY <2>1 DEF Tally, CandlesOK, CandleOK
    <2>6. Current \in 1 .. Len(chain) + 1
      BY <2>1 DEF SavedOK, Current
    <2>7. armed \in BOOLEAN /\ pending \in Nat
      BY <2>1 DEF MetricsInv
    <2> QED BY <2>2, <2>3, <2>4, <2>5, <2>6, <2>7 DEF TypeOK
  <1> QED BY <1>1, IndexerInvariant, PTL

(* transfer.ts, trade.ts and tokenCreated.ts: whenever the indexer is      *)
(* between two blocks its ledgers are those of the contracts, however      *)
(* often logs came again, blocks were replaced or the process restarted.   *)
THEOREM LedgersFollow == Spec => []LedgersFollowChain
  <1>1. IndexerInv => LedgersFollowChain
    <2> DEFINE w == World(Current - 1)
    <2> SUFFICES ASSUME IndexerInv, BetweenBlocks
                 PROVE  /\ tables.balance = w.balance
                        /\ tables.created <=> w.phase # "unborn"
                        /\ tables.graduated <=> w.phase = "graduated"
                        /\ tables.created => /\ tables.realToken = CurveSupply - w.sold
                                             /\ tables.realEth = w.sold * TokenCost
                        /\ tables.tradeCount = Cardinality(tables.trades)
                        /\ \A u \in Trader : BasisOK(tables.basis[u], RowsOf(tables.trades, u, TRUE),
                                                     RowsOf(tables.trades, u, FALSE))
      BY DEF LedgersFollowChain, BasisOK, RowsOf
    <2>1. At(chain, tables, Current)
      BY BetweenBlocksAt
    <2>2. w = WorldAt(chain, Current - 1)
      BY DEF World, WorldAt
    <2> HIDE DEF w
    <2>3. Tally(tables) /\ Follows(tables, BooksOf(w))
      BY <2>1, <2>2 DEF At
    <2> QED BY <2>3 DEF Tally, BasesOK, Follows, BooksOf, Book
  <1> QED BY <1>1, IndexerInvariant, PTL

(* candles.ts: every candle is the summary of the trades in its bucket, in *)
(* every state, and no candle lacks one.                                   *)
THEOREM CandlesSummarise == Spec => []CandlesAreTrades
  <1>1. IndexerInv => CandlesAreTrades
    <2> SUFFICES ASSUME IndexerInv PROVE CandlesAreTrades
      OBVIOUS
    <2>1. tables.trades \in SUBSET Row /\ CandlesOK(tables.candles, tables.trades)
      BY DEF IndexerInv, TablesOK, Tally, TableRow
    <2>2. ASSUME NEW key \in DOMAIN tables.candles, NEW rows, rows = RowsIn(tables.trades, key),
                 NEW prices, prices = {row.event.price : row \in rows}
          PROVE  LET c == tables.candles[key]
                 IN /\ c.high = Max(prices) /\ c.low = Min(prices)
                    /\ c.count = Cardinality(rows) /\ c.volume = SumOf(rows, "eth")
                    /\ \E first, last \in rows :
                         /\ \A row \in rows : PositionLte(first.id, row.id)
                                              /\ PositionLte(row.id, last.id)
                         /\ c.open = first.event.price /\ c.close = last.event.price
      <3> DEFINE c == tables.candles[key]
      <3>1. CandleOK(c, rows) /\ rows \subseteq Row
        BY <2>1, <2>2 DEF CandlesOK, RowsIn
      <3> HIDE DEF c
      <3>2. prices \in SUBSET Nat
        BY <2>2, <3>1, RowFields
      <3>3. c.high \in prices /\ c.low \in prices
        BY <2>2, <3>1 DEF CandleOK
      <3>4. \A y \in prices : c.high >= y /\ c.low <= y
        BY <2>2, <3>1, <3>2, <3>3 DEF CandleOK
      <3>5. c.high = Max(prices) /\ c.low = Min(prices)
        BY <3>2, <3>3, <3>4, Extremes
      <3> QED BY <3>1, <3>5 DEF CandleOK, c
    <2> QED BY <2>1, <2>2 DEF CandlesAreTrades, CandlesOK, RowsIn
  <1> QED BY <1>1, IndexerInvariant, PTL

(* tokenMetrics.ts: no number of overlapping flushes loses a sample.       *)
THEOREM SamplesKept == Spec => []SampleNeverForgotten
  <1>1. IndexerInv => SampleNeverForgotten
    BY DEF IndexerInv, MetricsInv
  <1> QED BY <1>1, IndexerInvariant, PTL

=============================================================================
