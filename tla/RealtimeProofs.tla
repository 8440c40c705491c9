--------------------------- MODULE RealtimeProofs ---------------------------
(***************************************************************************)
(* Realtime, for any channels, any number of events, faults, drops,        *)
(* remounts and sockets.                                                   *)
(*                                                                         *)
(* No gap in a channel's numbers passes unnoticed, two sockets delivering  *)
(* at once included.  The argument rests on one fact about the publisher - *)
(* no message carries a number its channel's counter has not reached, so a *)
(* heal asked for now covers every number on its way - and on what lastSeq *)
(* is: 0 exactly when nothing was received since the last heal, and a      *)
(* received number otherwise.                                              *)
(*                                                                         *)
(* The watermark only rises until two sockets have been open at once.  The *)
(* argument is about order: the two queues a message passes hold rising    *)
(* events, the second none newer than the first, and a connection that     *)
(* ends takes its frames with it.                                          *)
(***************************************************************************)
EXTENDS Realtime, FiniteSetTheorems, TLAPS

(* Every message of q has a number its channel has reached. *)
Numbered(q) ==
    /\ q \in Seq(Message)
    /\ \A i \in 1 .. Len(q) : q[i].seq <= seq[q[i].channel]

SocketShape(k) ==
    k = [state |-> k.state, up |-> k.up, down |-> k.down, subs |-> k.subs]

SocketInv(s) == SocketShape(sock[s]) /\ Numbered(sock[s].down)

(* Every number below top that R skips is covered by h. *)
Covered(R, h) == \A first, last \in R : \A n \in first .. last : n \in R \/ n <= h

ChannelInv(ch) ==
    /\ seq[ch] \in Nat /\ lastSeq[ch] \in Nat /\ healed[ch] \in Nat
    /\ received[ch] \subseteq 1 .. seq[ch]
    /\ lastSeq[ch] = 0 => received[ch] = {}
    /\ lastSeq[ch] # 0 => lastSeq[ch] \in received[ch]
    /\ Covered(received[ch], healed[ch])

Domains ==
    /\ DOMAIN seq = Channel /\ DOMAIN lastSeq = Channel
    /\ DOMAIN received = Channel
    /\ sock = [s \in Sockets |-> sock[s]]

GapInv ==
    /\ Domains
    /\ indexed \in [Channel -> Nat]
    /\ \A ch \in Channel : ChannelInv(ch)
    /\ Numbered(publishing)
    /\ \A s \in Sockets : SocketInv(s)

(* One number more: either it follows the last one, or it heals everything *)
(* the counter has reached.                                                *)
LEMMA OneMoreNumber ==
    ASSUME NEW top \in Nat, NEW R \in SUBSET (1 .. top), NEW p \in Nat, NEW h \in Nat,
           NEW k \in Nat \ {0}, k <= top, p = 0 => R = {}, p # 0 => p \in R,
           Covered(R, h), p = 0 \/ k = p + 1
    PROVE  Covered(R \cup {k}, h)
  <1> SUFFICES ASSUME NEW first \in R \cup {k}, NEW last \in R \cup {k}, NEW n \in first .. last,
                      n \notin R, n # k
               PROVE  n <= h
    BY DEF Covered
  <1>1. p # 0 /\ k = p + 1 /\ p \in R
    OBVIOUS
  <1>2. CASE n < k
    <2>1. first \in R /\ n \in first .. p
      BY <1>1, <1>2
    <2> QED BY <1>1, <2>1 DEF Covered
  <1>3. CASE n > k
    <2>1. last \in R /\ n \in p .. last
      BY <1>1, <1>3
    <2> QED BY <1>1, <2>1 DEF Covered
  <1> QED BY <1>2, <1>3

LEMMA EmptyIsCovered == \A h : Covered({}, h)
  BY DEF Covered

LEMMA TailNumbered ==
    ASSUME NEW q, Numbered(q), q # <<>>
    PROVE  /\ Numbered(Tail(q))
           /\ Head(q) \in Message /\ Head(q).seq <= seq[Head(q).channel]
  BY DEF Numbered

LEMMA AppendNumbered ==
    ASSUME NEW q, Numbered(q), NEW m \in Message, m.seq <= seq[m.channel]
    PROVE  Numbered(Append(q, m))
  BY DEF Numbered

LEMMA EmptyNumbered == Numbered(<<>>)
  BY DEF Numbered

LEMMA GapInit == Init => GapInv
  <1> SUFFICES ASSUME Init PROVE GapInv
    OBVIOUS
  <1>1. Domains /\ indexed \in [Channel -> Nat]
    BY DEF Init, Domains, Zero
  <1>2. \A ch \in Channel : ChannelInv(ch)
    BY EmptyIsCovered DEF Init, ChannelInv, Zero
  <1>3. Numbered(publishing)
    BY EmptyNumbered DEF Init
  <1>4. \A s \in Sockets : SocketInv(s)
    BY EmptyNumbered DEF Init, SocketInv, Unused, SocketShape
  <1> QED BY <1>1, <1>2, <1>3, <1>4 DEF GapInv

-----------------------------------------------------------------------------
(* The sockets after a step: still a function on Sockets, each of the      *)
(* right shape, its messages numbered.                                     *)
SocketsGood(socks) ==
    /\ socks = [s \in Sockets |-> socks[s]]
    /\ \A s \in Sockets : SocketShape(socks[s]) /\ Numbered(socks[s].down)

(* One socket becomes k; writing outside Sockets changes nothing. *)
LEMMA OneSocketChanges ==
    ASSUME NEW socks, SocketsGood(socks), NEW c, NEW k,
           c \in Sockets => SocketShape(k) /\ Numbered(k.down)
    PROVE  SocketsGood([socks EXCEPT ![c] = k])
  <1> DEFINE g == [socks EXCEPT ![c] = k]
  <1>1. DOMAIN socks = Sockets
    BY DEF SocketsGood
  <1>2. /\ g = [s \in Sockets |-> g[s]]
        /\ \A s \in Sockets : g[s] = IF s = c THEN k ELSE socks[s]
    BY <1>1
  <1> HIDE DEF g
  <1>3. \A s \in Sockets : SocketShape(g[s]) /\ Numbered(g[s].down)
    <2> SUFFICES ASSUME NEW s \in Sockets PROVE SocketShape(g[s]) /\ Numbered(g[s].down)
      OBVIOUS
    <2>1. CASE s = c
      <3>1. g[s] = k
        BY <1>2, <2>1
      <3> QED BY <2>1, <3>1
    <2>2. CASE s # c
      <3>1. g[s] = socks[s]
        BY <1>2, <2>2
      <3> QED BY <3>1 DEF SocketsGood
    <2> QED BY <2>1, <2>2
  <1>4. SocketsGood(g)
    BY <1>2, <1>3 DEF SocketsGood
  <1> QED BY <1>4 DEF g

LEMMA UpDownShape ==
    ASSUME NEW k, SocketShape(k), NEW u
    PROVE  /\ SocketShape([k EXCEPT !.up = u]) /\ [k EXCEPT !.up = u].down = k.down
           /\ SocketShape([k EXCEPT !.down = u]) /\ [k EXCEPT !.down = u].down = u
           /\ SocketShape([k EXCEPT !.state = u]) /\ [k EXCEPT !.state = u].down = k.down
           /\ SocketShape([k EXCEPT !.subs = u]) /\ [k EXCEPT !.subs = u].down = k.down
  <1>1. PICK a, b, c, d : k = [state |-> a, up |-> b, down |-> c, subs |-> d]
    BY DEF SocketShape
  <1>2. /\ [k EXCEPT !.up = u] = [state |-> a, up |-> u, down |-> c, subs |-> d]
        /\ [k EXCEPT !.down = u] = [state |-> a, up |-> b, down |-> u, subs |-> d]
        /\ [k EXCEPT !.state = u] = [state |-> u, up |-> b, down |-> c, subs |-> d]
        /\ [k EXCEPT !.subs = u] = [state |-> a, up |-> b, down |-> c, subs |-> u]
    BY <1>1
  <1> QED BY <1>1, <1>2 DEF SocketShape

LEMMA SentIsGood ==
    ASSUME NEW socks, SocketsGood(socks), NEW c, NEW frames
    PROVE  SocketsGood(Sent(socks, c, frames))
  <1> DEFINE k == [socks[c] EXCEPT !.up = @ \o frames]
  <1>1. Sent(socks, c, frames) \in {socks, [socks EXCEPT ![c] = k]}
    BY DEF Sent
  <1>2. ASSUME c \in Sockets PROVE SocketShape(k) /\ Numbered(k.down)
    <2>1. SocketShape(socks[c]) /\ Numbered(socks[c].down)
      BY <1>2 DEF SocketsGood
    <2>2. SocketShape(k) /\ k.down = socks[c].down
      BY <2>1, UpDownShape
    <2> HIDE DEF k
    <2> QED BY <2>1, <2>2
  <1> HIDE DEF k
  <1>3. SocketsGood([socks EXCEPT ![c] = k])
    BY <1>2, OneSocketChanges
  <1> QED BY <1>1, <1>3

(* A socket enters another state of its life. *)
LEMMA StateChangeIsGood ==
    ASSUME NEW socks, SocketsGood(socks), NEW c, NEW st
    PROVE  SocketsGood([socks EXCEPT ![c].state = st])
  <1> DEFINE k == [socks[c] EXCEPT !.state = st]
  <1>1. [socks EXCEPT ![c].state = st] = [socks EXCEPT ![c] = k]
    OBVIOUS
  <1>2. ASSUME c \in Sockets PROVE SocketShape(k) /\ Numbered(k.down)
    <2>1. SocketShape(socks[c]) /\ Numbered(socks[c].down)
      BY <1>2 DEF SocketsGood
    <2>2. SocketShape(k) /\ k.down = socks[c].down
      BY <2>1, UpDownShape
    <2> HIDE DEF k
    <2> QED BY <2>1, <2>2
  <1> HIDE DEF k
  <1>3. SocketsGood([socks EXCEPT ![c] = k])
    BY <1>2, OneSocketChanges
  <1> QED BY <1>1, <1>3

LEMMA BrokenIsGood ==
    ASSUME NEW k, SocketShape(k), Numbered(k.down)
    PROVE  SocketShape(Broken(k)) /\ Numbered(Broken(k).down)
  BY EmptyNumbered DEF Broken, Unused, SocketShape

LEMMA GoodSockets == GapInv => SocketsGood(sock)
  BY DEF GapInv, Domains, SocketInv, SocketsGood

(* A step that leaves the counters and what was received alone. *)
LEMMA QuietStep ==
    ASSUME GapInv, indexed' \in [Channel -> Nat], UNCHANGED <<seq, lastSeq, received, healed>>,
           Numbered(publishing'), SocketsGood(sock')
    PROVE  GapInv'
  <1>1. Domains' /\ indexed' \in [Channel -> Nat]
    BY DEF GapInv, Domains, SocketsGood
  <1>2. ASSUME NEW ch \in Channel PROVE ChannelInv(ch)'
    BY DEF GapInv, ChannelInv, Covered
  <1>3. Numbered(publishing)'
    BY DEF Numbered
  <1>4. ASSUME NEW s \in Sockets PROVE SocketInv(s)'
    <2>1. SocketShape(sock'[s]) /\ Numbered(sock'[s].down)
      BY DEF SocketsGood
    <2> QED BY <2>1 DEF SocketInv, SocketShape, Numbered
  <1> QED BY <1>1, <1>2, <1>3, <1>4 DEF GapInv

LEMMA GapPublisher ==
    ASSUME GapInv, NEW ch \in Channel, NEW type \in Types(ch), RealtimeAssumption,
           Incr(ch, type)
    PROVE  GapInv'
  <1> DEFINE m == [channel |-> ch, seq |-> seq[ch] + 1, event |-> indexed[ch] + 1, type |-> type]
  <1>1. /\ seq' = [seq EXCEPT ![ch] = @ + 1] /\ indexed' = [indexed EXCEPT ![ch] = @ + 1]
        /\ publishing' = Append(publishing, m)
        /\ UNCHANGED <<sock, lastSeq, received, healed>>
    BY DEF Incr, socketVars, seqVars, viewVars
  <1>2. /\ \A c \in Channel : seq[c] \in Nat /\ seq'[c] \in Nat /\ seq[c] <= seq'[c]
        /\ DOMAIN seq = Channel /\ DOMAIN seq' = Channel
    BY <1>1 DEF GapInv, Domains, ChannelInv
  <1>3. \A q : Numbered(q) => /\ q \in Seq(Message)
                              /\ \A i \in 1 .. Len(q) : q[i].seq <= seq'[q[i].channel]
    <2> SUFFICES ASSUME NEW q, Numbered(q), NEW i \in 1 .. Len(q)
                 PROVE  q[i].seq <= seq'[q[i].channel]
      BY DEF Numbered
    <2>1. q[i] \in Message /\ q[i].seq <= seq[q[i].channel]
      BY DEF Numbered
    <2>2. q[i].seq \in Nat /\ q[i].channel \in Channel
      BY <2>1 DEF Message
    <2> QED BY <1>2, <2>1, <2>2
  <1>4. m \in Message /\ m.seq <= seq'[m.channel]
    <2>1. type \in {"confirmations", "reorg", "trade"}
      BY DEF Types
    <2>2. seq[ch] \in Nat /\ indexed[ch] \in Nat
      BY DEF GapInv, ChannelInv
    <2> QED BY <1>1, <1>2, <2>1, <2>2 DEF Message
  <1>5. Numbered(publishing)'
    <2>1. /\ publishing \in Seq(Message)
          /\ \A i \in 1 .. Len(publishing) : publishing[i].seq <= seq'[publishing[i].channel]
      BY <1>3 DEF GapInv
    <2> HIDE DEF m
    <2> QED BY <1>1, <1>4, <2>1 DEF Numbered
  <1>6. ASSUME NEW s \in Sockets PROVE SocketInv(s)'
    BY <1>1, <1>3 DEF GapInv, SocketInv, Numbered, SocketShape
  <1>7. ASSUME NEW c \in Channel PROVE ChannelInv(c)'
    <2>1. ChannelInv(c)
      BY DEF GapInv
    <2>2. received'[c] \subseteq 1 .. seq'[c]
      BY <1>1, <1>2, <2>1 DEF ChannelInv
    <2> QED BY <1>1, <1>2, <2>1, <2>2 DEF ChannelInv, Covered
  <1>8. Domains' /\ indexed' \in [Channel -> Nat]
    BY <1>1, <1>2 DEF GapInv, Domains
  <1> QED BY <1>5, <1>6, <1>7, <1>8 DEF GapInv

LEMMA GapIncrFails ==
    ASSUME GapInv, NEW ch \in Channel, IncrFails(ch)
    PROVE  GapInv'
  <1>1. UNCHANGED <<seq, publishing, sock, lastSeq, received, healed>>
    BY DEF IncrFails, socketVars, seqVars, viewVars
  <1>2. indexed' \in [Channel -> Nat]
    BY DEF IncrFails, GapInv
  <1>3. Numbered(publishing') /\ SocketsGood(sock')
    BY <1>1, GoodSockets DEF GapInv
  <1> QED BY <1>1, <1>2, <1>3, QuietStep

LEMMA GapPublish ==
    ASSUME GapInv, Publish \/ PublishFails
    PROVE  GapInv'
  <1>1. /\ publishing # <<>> /\ publishing' = Tail(publishing)
        /\ sock' = sock \/ sock' = Relay(Head(publishing))
        /\ UNCHANGED <<indexed, seq, lastSeq, received, healed>>
    BY DEF Publish, PublishFails, socketVars, seqVars, viewVars
  <1> DEFINE m == Head(publishing)
  <1>2. Numbered(Tail(publishing)) /\ m \in Message /\ m.seq <= seq[m.channel]
    BY <1>1, TailNumbered DEF GapInv
  <1> HIDE DEF m
  <1>3. SocketsGood(sock)
    BY GoodSockets
  <1>4. ASSUME NEW s \in Sockets
        PROVE  SocketShape(Relay(m)[s]) /\ Numbered(Relay(m)[s].down)
    <2> DEFINE q == Append(sock[s].down, m)
               k == [sock[s] EXCEPT !.down = q]
    <2>1. SocketShape(sock[s]) /\ Numbered(sock[s].down)
      BY <1>3 DEF SocketsGood
    <2>2. Numbered(q)
      BY <1>2, <2>1, AppendNumbered
    <2>3. Relay(m)[s] \in {k, sock[s]}
      BY DEF Relay
    <2> HIDE DEF q
    <2>4. SocketShape(k) /\ k.down = q
      BY <2>1, UpDownShape
    <2> HIDE DEF k
    <2>5. CASE Relay(m)[s] = k
      <3>1. SocketShape(k) /\ Numbered(k.down)
        BY <2>2, <2>4
      <3> QED BY <2>5, <3>1
    <2> QED BY <2>1, <2>3, <2>5
  <1>5. Relay(m) = [s \in Sockets |-> Relay(m)[s]]
    BY DEF Relay
  <1>6. SocketsGood(Relay(m))
    BY <1>4, <1>5 DEF SocketsGood
  <1>7. SocketsGood(sock')
    BY <1>1, <1>3, <1>6 DEF m
  <1>8. indexed' \in [Channel -> Nat] /\ Numbered(publishing')
    BY <1>1, <1>2 DEF GapInv
  <1> QED BY <1>1, <1>7, <1>8, QuietStep

(* A step of the hub, the network or the client that only moves sockets. *)
LEMMA SocketStep ==
    ASSUME GapInv, UNCHANGED <<indexed, seq, publishing, lastSeq, received, healed>>,
           SocketsGood(sock')
    PROVE  GapInv'
  <1>1. indexed' \in [Channel -> Nat] /\ Numbered(publishing')
    BY DEF GapInv
  <1> QED BY <1>1, QuietStep

LEMMA GapHub ==
    ASSUME GapInv, NEW s \in Sockets, HubReceives(s)
    PROVE  GapInv'
  <1> DEFINE taken == [sock[s] EXCEPT !.up = Tail(@)]
             f == Head(sock[s].up)
             joined == [taken EXCEPT !.subs = @ \cup {f.channel}]
             left == [taken EXCEPT !.subs = @ \ {f.channel}]
  <1>1. SocketsGood(sock) /\ SocketShape(sock[s]) /\ Numbered(sock[s].down)
    BY GoodSockets DEF SocketsGood
  <1>2. SocketShape(taken) /\ taken.down = sock[s].down
    BY <1>1, UpDownShape
  <1>3. \/ sock' = [sock EXCEPT ![s] = taken]
        \/ sock' = [sock EXCEPT ![s] = joined]
        \/ sock' = [sock EXCEPT ![s] = left]
    BY DEF HubReceives
  <1> HIDE DEF taken
  <1>4. /\ SocketShape(joined) /\ joined.down = taken.down
        /\ SocketShape(left) /\ left.down = taken.down
    BY <1>2, UpDownShape
  <1> HIDE DEF joined, left
  <1>5. Numbered(taken.down) /\ Numbered(joined.down) /\ Numbered(left.down)
    BY <1>1, <1>2, <1>4
  <1>6. /\ SocketsGood([sock EXCEPT ![s] = taken])
        /\ SocketsGood([sock EXCEPT ![s] = joined])
        /\ SocketsGood([sock EXCEPT ![s] = left])
    BY <1>1, <1>2, <1>4, <1>5, OneSocketChanges
  <1>7. SocketsGood(sock')
    BY <1>3, <1>6
  <1>8. UNCHANGED <<indexed, seq, publishing, lastSeq, received, healed>>
    BY DEF HubReceives, pubVars, seqVars, viewVars
  <1> QED BY <1>7, <1>8, SocketStep

LEMMA GapBreaks ==
    ASSUME GapInv, HubRestart \/ \E s \in Sockets : Drop(s)
    PROVE  GapInv'
  <1>1. SocketsGood(sock)
    BY GoodSockets
  <1>2. \A s \in Sockets : SocketShape(Broken(sock[s])) /\ Numbered(Broken(sock[s]).down)
    BY <1>1, BrokenIsGood DEF SocketsGood
  <1>3. SocketsGood([s \in Sockets |-> Broken(sock[s])])
    BY <1>2 DEF SocketsGood
  <1>4. \A s \in Sockets : SocketsGood([sock EXCEPT ![s] = Broken(sock[s])])
    BY <1>1, <1>2, OneSocketChanges
  <1>5. \/ sock' = [s \in Sockets |-> Broken(sock[s])]
        \/ \E s \in Sockets : sock' = [sock EXCEPT ![s] = Broken(sock[s])]
    BY DEF HubRestart, Drop
  <1>6. SocketsGood(sock')
    BY <1>3, <1>4, <1>5
  <1>7. UNCHANGED <<indexed, seq, publishing, lastSeq, received, healed>>
    BY DEF HubRestart, Drop, pubVars, seqVars, viewVars
  <1> QED BY <1>6, <1>7, SocketStep

LEMMA GapConnections ==
    ASSUME GapInv,
           \/ Connect \/ Close \/ ReconnectTimer
           \/ \E s \in Sockets : HandleClose(s)
           \/ \E ch \in Pages : Subscribe(ch)
    PROVE  GapInv'
  <1>1. SocketsGood(sock)
    BY GoodSockets
  <1>2. UNCHANGED <<indexed, seq, publishing, lastSeq, received, healed>>
    BY DEF Connect, Close, ReconnectTimer, HandleClose, Subscribe, pubVars, seqVars, viewVars
  <1>3. CASE Connect \/ ReconnectTimer
    <2>1. sock' = [sock EXCEPT ![NextSocket].state = "connecting"]
      BY <1>3 DEF Connect, ReconnectTimer, OpenSocket
    <2> QED BY <1>1, <1>2, <2>1, StateChangeIsGood, SocketStep
  <1>4. CASE Close
    <2> DEFINE k == Broken(sock[cur])
    <2>1. sock' \in {sock, [sock EXCEPT ![cur] = k]}
      BY <1>4 DEF Close
    <2>2. cur \in Sockets => SocketShape(k) /\ Numbered(k.down)
      BY <1>1, BrokenIsGood DEF SocketsGood
    <2> HIDE DEF k
    <2>3. SocketsGood([sock EXCEPT ![cur] = k])
      BY <1>1, <2>2, OneSocketChanges
    <2> QED BY <1>1, <1>2, <2>1, <2>3, SocketStep
  <1>5. CASE \E s \in Sockets : HandleClose(s)
    <2>1. PICK s \in Sockets : sock' = [sock EXCEPT ![s].state = "gone"]
      BY <1>5 DEF HandleClose
    <2> QED BY <1>1, <1>2, <2>1, StateChangeIsGood, SocketStep
  <1>6. CASE \E ch \in Pages : Subscribe(ch)
    <2>1. PICK ch \in Pages : sock' = Sent(sock, cur, <<OpOn("sub", ch)>>)
      BY <1>6 DEF Subscribe
    <2>2. SocketsGood(sock')
      BY <1>1, <2>1, SentIsGood
    <2> QED BY <1>2, <2>2, SocketStep
  <1> QED BY <1>3, <1>4, <1>5, <1>6

(* A step that leaves the publisher alone and keeps each channel's part. *)
LEMMA ClientStep ==
    ASSUME GapInv, UNCHANGED <<indexed, seq, publishing>>, SocketsGood(sock'),
           DOMAIN lastSeq' = Channel, DOMAIN received' = Channel,
           \A ch \in Channel : ChannelInv(ch)'
    PROVE  GapInv'
  <1>1. Domains' /\ indexed' \in [Channel -> Nat]
    BY DEF GapInv, Domains, SocketsGood
  <1>2. Numbered(publishing)'
    BY DEF GapInv, Numbered
  <1>3. ASSUME NEW s \in Sockets PROVE SocketInv(s)'
    <2>1. SocketShape(sock'[s]) /\ Numbered(sock'[s].down)
      BY DEF SocketsGood
    <2> QED BY <2>1 DEF SocketInv, SocketShape, Numbered
  <1> QED BY <1>1, <1>2, <1>3 DEF GapInv

LEMMA GapOpen ==
    ASSUME GapInv, NEW s \in Sockets, HandleOpen(s)
    PROVE  GapInv'
  <1>1. UNCHANGED <<indexed, seq, publishing>>
    BY DEF HandleOpen, pubVars
  <1>2. SocketsGood(sock')
    <2> DEFINE opened == [sock EXCEPT ![s].state = "open"]
    <2>1. SocketsGood(opened)
      BY GoodSockets, StateChangeIsGood
    <2>2. sock' = Sent(opened, cur, Subs(Wanted))
      BY DEF HandleOpen
    <2> HIDE DEF opened
    <2> QED BY <2>1, <2>2, SentIsGood
  <1>3. CASE connectedOnce
    <2>1. /\ healed' = seq /\ lastSeq' = [ch \in Channel |-> 0]
          /\ received' = [ch \in Channel |-> {}]
      BY <1>3 DEF HandleOpen, InvalidateAllLive, Zero
    <2>2. \A ch \in Channel : ChannelInv(ch)'
      BY <1>1, <2>1, EmptyIsCovered DEF GapInv, ChannelInv
    <2> QED BY <1>1, <1>2, <2>1, <2>2, ClientStep
  <1>4. CASE ~connectedOnce
    <2>1. UNCHANGED <<healed, lastSeq, received>>
      BY <1>4 DEF HandleOpen
    <2>2. \A ch \in Channel : ChannelInv(ch)'
      BY <1>1, <2>1 DEF GapInv, ChannelInv, Covered
    <2> QED BY <1>1, <1>2, <2>1, <2>2, ClientStep DEF GapInv, Domains
  <1> QED BY <1>3, <1>4

LEMMA GapUnsubscribe ==
    ASSUME GapInv, NEW ch \in Channel, Unsubscribe(ch)
    PROVE  GapInv'
  <1>1. UNCHANGED <<indexed, seq, publishing, healed>>
    BY DEF Unsubscribe, pubVars, viewVars
  <1>2. sock' = Sent(sock, cur, <<OpOn("unsub", ch)>>)
    BY DEF Unsubscribe
  <1>3. SocketsGood(sock')
    BY <1>2, GoodSockets, SentIsGood
  <1>4. /\ lastSeq' = [lastSeq EXCEPT ![ch] = 0]
        /\ received' = [received EXCEPT ![ch] = {}]
    BY DEF Unsubscribe
  <1>5. ASSUME NEW c \in Channel PROVE ChannelInv(c)'
    <2>1. ChannelInv(c) /\ ChannelInv(ch)
      BY DEF GapInv
    <2>2. CASE c = ch
      BY <1>1, <1>4, <2>1, <2>2, EmptyIsCovered DEF ChannelInv, GapInv, Domains
    <2>3. CASE c # ch
      <3>1. lastSeq'[c] = lastSeq[c] /\ received'[c] = received[c]
        BY <1>4, <2>3
      <3> QED BY <1>1, <2>1, <3>1 DEF ChannelInv, Covered
    <2> QED BY <2>2, <2>3
  <1> QED BY <1>1, <1>3, <1>4, <1>5, ClientStep DEF GapInv, Domains

LEMMA GapMessage ==
    ASSUME GapInv, NEW s \in Sockets, HandleMessage(s)
    PROVE  GapInv'
  <1> DEFINE q == sock[s].down
             m == Head(q)
             ch == m.channel
             k == [sock[s] EXCEPT !.down = Tail(@)]
  <1>1. UNCHANGED <<indexed, seq, publishing>>
    BY DEF HandleMessage, pubVars
  <1>2. SocketsGood(sock) /\ SocketShape(sock[s]) /\ Numbered(q)
    BY GoodSockets DEF SocketsGood
  <1>3. /\ q # <<>> /\ sock' = [sock EXCEPT ![s] = k]
        /\ lastSeq' = [lastSeq EXCEPT ![ch] = m.seq]
        /\ received' = [received EXCEPT ![ch] = @ \cup {m.seq}]
        /\ IF NeedsHeal(m) THEN healed' = seq ELSE UNCHANGED healed
    BY DEF HandleMessage, InvalidateAllLive
  <1> HIDE DEF q
  <1>4. Numbered(Tail(q)) /\ m \in Message /\ m.seq <= seq[ch]
    BY <1>2, <1>3, TailNumbered
  <1>5. SocketShape(k) /\ k.down = Tail(q)
    BY <1>2, UpDownShape DEF q
  <1> HIDE DEF k, m
  <1>6. Numbered(k.down)
    BY <1>4, <1>5
  <1>7. SocketsGood(sock')
    BY <1>2, <1>3, <1>5, <1>6, OneSocketChanges
  <1>8. m.seq \in Nat \ {0} /\ ch \in Channel
    BY <1>4 DEF Message
  <1>9. DOMAIN lastSeq = Channel /\ DOMAIN received = Channel /\ \A c \in Channel : ChannelInv(c)
    BY DEF GapInv, Domains
  <1>10. ASSUME NEW c \in Channel PROVE ChannelInv(c)'
    <2>1. ChannelInv(c) /\ seq[c] \in Nat
      BY <1>9 DEF ChannelInv
    <2>2. /\ lastSeq'[c] = IF c = ch THEN m.seq ELSE lastSeq[c]
          /\ received'[c] = IF c = ch THEN received[c] \cup {m.seq} ELSE received[c]
      BY <1>3, <1>9
    <2>3. received'[c] \in SUBSET (1 .. seq[c])
      BY <1>4, <1>8, <2>1, <2>2 DEF ChannelInv
    <2>4. Covered(received'[c], healed'[c]) /\ healed'[c] \in Nat
      <3>1. CASE healed' = seq
        BY <2>1, <2>3, <3>1 DEF Covered
      <3>2. CASE healed' = healed /\ c # ch
        BY <2>1, <2>2, <3>2 DEF ChannelInv, Covered
      <3>3. CASE healed' = healed /\ c = ch /\ ~NeedsHeal(m)
        <4>1. lastSeq[c] = 0 \/ m.seq = lastSeq[c] + 1
          BY <3>3 DEF NeedsHeal
        <4>2. Covered(received[c] \cup {m.seq}, healed[c])
          BY <1>4, <1>8, <2>1, <3>3, <4>1, OneMoreNumber DEF ChannelInv
        <4> QED BY <2>1, <2>2, <3>3, <4>2 DEF ChannelInv
      <3> QED BY <1>3, <3>1, <3>2, <3>3
    <2> QED BY <1>1, <1>8, <2>1, <2>2, <2>3, <2>4 DEF ChannelInv
  <1> QED BY <1>1, <1>3, <1>7, <1>9, <1>10, ClientStep

LEMMA GapStep ==
    ASSUME RealtimeAssumption, GapInv, [Next]_vars
    PROVE  GapInv'
  <1>1. ASSUME NEW ch \in Channel, NEW type \in Types(ch), Incr(ch, type) PROVE GapInv'
    BY <1>1, GapPublisher
  <1>2. ASSUME NEW ch \in Channel, IncrFails(ch) PROVE GapInv'
    BY <1>2, GapIncrFails
  <1>3. CASE Publish \/ PublishFails
    BY <1>3, GapPublish
  <1>4. CASE HubRestart \/ \E s \in Sockets : Drop(s)
    BY <1>4, GapBreaks
  <1>5. ASSUME NEW s \in Sockets, HubReceives(s) PROVE GapInv'
    BY <1>5, GapHub
  <1>6. ASSUME NEW s \in Sockets, HandleOpen(s) PROVE GapInv'
    BY <1>6, GapOpen
  <1>7. ASSUME NEW s \in Sockets, HandleMessage(s) PROVE GapInv'
    BY <1>7, GapMessage
  <1>8. CASE \/ Connect \/ Close \/ ReconnectTimer
             \/ \E s \in Sockets : HandleClose(s)
             \/ \E ch \in Pages : Subscribe(ch)
    BY <1>8, GapConnections
  <1>9. ASSUME NEW ch \in Pages, Unsubscribe(ch) PROVE GapInv'
    BY <1>9, GapUnsubscribe DEF RealtimeAssumption
  <1>10. CASE \/ \E ch \in Channel : SubscribeSucceeds(ch) \/ SubscribeFails(ch)
              \/ RestReads \/ RestAnswers \/ UNCHANGED vars
    <2>1. UNCHANGED <<indexed, seq, publishing, sock, lastSeq, received, healed>>
      BY <1>10 DEF SubscribeSucceeds, SubscribeFails, RestReads, RestAnswers, vars, pubVars,
                   socketVars, seqVars, viewVars
    <2>2. SocketsGood(sock')
      BY <2>1, GoodSockets
    <2> QED BY <2>1, <2>2, SocketStep
  <1> QED BY <1>1, <1>2, <1>3, <1>4, <1>5, <1>6, <1>7, <1>8, <1>9, <1>10 DEF Next

(* Every number the client skipped is covered by a refetch asked for when  *)
(* the number existed, whatever is lost and however many sockets deliver   *)
(* (firePublish and WsClient.handleMessage).                               *)
THEOREM GapsNeverPass == Spec => []GapsAreHealed
  <1>1. GapInv => GapsAreHealed
    BY DEF GapInv, ChannelInv, Covered, GapsAreHealed
  <1>2. GapInv /\ [Next]_vars => GapInv'
    BY RealtimeAssumption, GapStep
  <1> QED BY <1>1, <1>2, GapInit, PTL DEF Spec

-----------------------------------------------------------------------------
(* The sockets.  One that is not open holds no frames and no membership,   *)
(* so nothing of a lost connection ever reaches the next one.              *)

States == {"unused", "connecting", "open", "closing", "gone"}

Records == [state : States, up : Seq(Frame), down : Seq(Message), subs : SUBSET Channel]

Bare(k) == k.up = <<>> /\ k.down = <<>> /\ k.subs = {}

Wires == {k \in Records : k.state # "open" => Bare(k)}

(* a becomes b: it delivers what it did or nothing more. *)
Calm(a, b) ==
    /\ b.down \in {a.down, <<>>}
    /\ b.state = "open" => a.state = "open"

LEMMA LeastNumber ==
    ASSUME NEW T \in SUBSET Nat, T # {}
    PROVE  \E n \in T : \A m \in T : n <= m
  <1> DEFINE R == OpToRel(<, Nat)
  <1>1. PICK n \in T : \A m \in T : <<m, n>> \notin R
    <2>1. IsWellFoundedOn(R, Nat)
      BY NatLessThanWellFounded
    <2> HIDE DEF R
    <2> QED BY <2>1, WFMin
  <1>2. \A m \in T : ~(m < n)
    BY <1>1 DEF OpToRel
  <1> QED BY <1>2

LEMMA NextSocketIsUnused ==
    ASSUME RealtimeAssumption, \E s \in Sockets : sock[s].state = "unused"
    PROVE  NextSocket \in Sockets /\ sock[NextSocket].state = "unused"
  <1> DEFINE T == {s \in Sockets : sock[s].state = "unused"}
             First(s) == sock[s].state = "unused"
                         /\ \A t \in Sockets : t < s => sock[t].state # "unused"
  <1>1. T \in SUBSET Nat /\ T # {}
    BY DEF Sockets, RealtimeAssumption
  <1>2. PICK n \in T : \A m \in T : n <= m
    <2> HIDE DEF T
    <2> QED BY <1>1, LeastNumber
  <1>3. n \in Sockets /\ First(n)
    <2>1. ASSUME NEW t \in Sockets, t < n PROVE sock[t].state # "unused"
      <3>1. t \in Nat /\ n \in Nat
        BY <1>1, RealtimeAssumption DEF Sockets, RealtimeAssumption
      <3> QED BY <1>2, <2>1, <3>1
    <2> QED BY <2>1
  <1>4. NextSocket = CHOOSE s \in Sockets : First(s)
    BY DEF NextSocket
  <1> HIDE DEF First
  <1>5. NextSocket \in Sockets /\ First(NextSocket)
    BY <1>3, <1>4
  <1> QED BY <1>5 DEF First

(* A finite set of channels can be asked for, one frame each. *)
LEMMA SubsAreFrames ==
    ASSUME NEW C \in SUBSET Channel, IsFiniteSet(C)
    PROVE  Subs(C) \in Seq(Frame)
  <1> DEFINE n == Cardinality(C)
             F == {OpOn("sub", ch) : ch \in C}
             OntoF(q) == {q[i] : i \in DOMAIN q} = F
  <1>1. n \in Nat /\ ExistsBijection(1 .. n, C)
    BY FS_CardinalityType
  <1>2. PICK f \in [1 .. n -> C] : \A ch \in C : \E i \in 1 .. n : f[i] = ch
    BY <1>1 DEF ExistsBijection, Bijection, Injection, Surjection
  <1> DEFINE g == [i \in 1 .. n |-> OpOn("sub", f[i])]
  <1>3. g \in [1 .. n -> F]
    BY <1>2
  <1>4. OntoF(g)
    <2>1. \A i \in 1 .. n : g[i] \in F
      BY <1>3
    <2>2. ASSUME NEW x \in F PROVE \E i \in 1 .. n : g[i] = x
      <3>1. PICK ch \in C : x = OpOn("sub", ch)
        OBVIOUS
      <3>2. PICK i \in 1 .. n : f[i] = ch
        BY <1>2
      <3> QED BY <3>1, <3>2
    <2>3. DOMAIN g = 1 .. n
      OBVIOUS
    <2> HIDE DEF g, F
    <2> QED BY <2>1, <2>2, <2>3
  <1>5. Subs(C) = CHOOSE q \in [1 .. n -> F] : OntoF(q)
    BY DEF Subs
  <1>6. F \subseteq Frame
    BY DEF OpOn, Frame
  <1> HIDE DEF g, F, OntoF
  <1>7. Subs(C) \in [1 .. n -> F]
    BY <1>3, <1>4, <1>5
  <1> HIDE DEF n
  <1> QED BY <1>1, <1>6, <1>7

(* Frames change neither what a socket is nor what it delivers. *)
LEMMA SentWires ==
    ASSUME NEW socks \in [Sockets -> Wires], NEW c, NEW frames \in Seq(Frame)
    PROVE  /\ Sent(socks, c, frames) \in [Sockets -> Wires]
           /\ \A s \in Sockets : /\ Sent(socks, c, frames)[s].down = socks[s].down
                                 /\ Sent(socks, c, frames)[s].state = socks[s].state
  <1> DEFINE k == [socks[c] EXCEPT !.up = @ \o frames]
             new == [socks EXCEPT ![c] = k]
  <1>1. CASE c \in Sockets /\ socks[c].state = "open"
    <2>1. socks[c] \in Records /\ socks[c] \in Wires
      BY <1>1 DEF Wires
    <2>2. socks[c].up \o frames \in Seq(Frame)
      BY <2>1 DEF Records
    <2>3. /\ k \in Records /\ k.state = "open" /\ k.down = socks[c].down
          /\ k.state = socks[c].state
      BY <1>1, <2>1, <2>2 DEF Records
    <2> HIDE DEF k
    <2>4. k \in Wires
      BY <2>3 DEF Wires
    <2>5. /\ new \in [Sockets -> Wires]
          /\ \A s \in Sockets : new[s] = IF s = c THEN k ELSE socks[s]
      BY <2>4
    <2>6. Sent(socks, c, frames) \in {new, socks}
      BY DEF Sent, k
    <2> HIDE DEF new
    <2> QED BY <2>3, <2>5, <2>6
  <1>2. CASE c \in Sockets /\ socks[c].state # "open"
    BY <1>2 DEF Sent
  <1>3. CASE c \notin Sockets
    <2>1. new = socks
      BY <1>3
    <2>2. Sent(socks, c, frames) \in {new, socks}
      BY DEF Sent
    <2> QED BY <2>1, <2>2
  <1> QED BY <1>1, <1>2, <1>3

(* One socket becomes k. *)
LEMMA WireChanges ==
    ASSUME NEW socks \in [Sockets -> Wires], NEW c \in Sockets, NEW k \in Wires
    PROVE  /\ [socks EXCEPT ![c] = k] \in [Sockets -> Wires]
           /\ \A s \in Sockets : [socks EXCEPT ![c] = k][s] = IF s = c THEN k ELSE socks[s]
  OBVIOUS

LEMMA BrokenWires ==
    ASSUME NEW k \in Wires
    PROVE  Broken(k) \in Wires /\ Calm(k, Broken(k)) /\ Broken(k).state # "open"
  <1>1. k \in Records
    BY DEF Wires
  <1>2. CASE k.state \in {"connecting", "open"}
    <2>1. Broken(k) = [state |-> "closing", up |-> <<>>, down |-> <<>>, subs |-> {}]
      BY <1>2 DEF Broken, Unused
    <2> QED BY <2>1 DEF Wires, Records, States, Bare, Calm
  <1>3. CASE k.state \notin {"connecting", "open"}
    BY <1>1, <1>3 DEF Broken, Calm
  <1> QED BY <1>2, <1>3

(* A socket without frames enters another state of its life. *)
LEMMA StateWires ==
    ASSUME NEW k \in Wires, k.state # "open", NEW st \in States
    PROVE  /\ [k EXCEPT !.state = st] \in Wires /\ Bare([k EXCEPT !.state = st])
           /\ [k EXCEPT !.state = st].state = st
  <1>1. k \in Records /\ Bare(k)
    BY DEF Wires
  <1>2. PICK a : k = [state |-> a, up |-> <<>>, down |-> <<>>, subs |-> {}]
    BY <1>1 DEF Records, Bare
  <1>3. [k EXCEPT !.state = st] = [state |-> st, up |-> <<>>, down |-> <<>>, subs |-> {}]
    BY <1>2
  <1> QED BY <1>3 DEF Wires, Records, Bare

SocketsInv ==
    /\ sock \in [Sockets -> Wires]
    /\ handlers \subseteq Channel /\ IsFiniteSet(handlers)

ControlInv ==
    /\ upstream \in [Channel -> {"none", "pending", "subscribed", "failed"}]
    /\ cur \in {0} \cup Sockets
    /\ mounted \in BOOLEAN /\ handleArmed \in BOOLEAN
    /\ connectedOnce \in BOOLEAN /\ twoOpen \in BOOLEAN
    /\ timers \in Nat /\ (handleArmed => timers > 0)

LEMMA WireInit == Init => SocketsInv /\ ControlInv
  <1> SUFFICES ASSUME Init PROVE SocketsInv /\ ControlInv
    OBVIOUS
  <1>1. Unused \in Wires
    BY DEF Unused, Wires, Records, States, Bare
  <1>2. SocketsInv
    BY <1>1, FS_EmptySet DEF Init, SocketsInv
  <1>3. ControlInv
    BY DEF Init, ControlInv
  <1> QED BY <1>2, <1>3

LEMMA HandlersStep ==
    ASSUME RealtimeAssumption, SocketsInv, [Next]_vars
    PROVE  handlers' \subseteq Channel /\ IsFiniteSet(handlers')
  <1>1. CASE \E ch \in Pages : Subscribe(ch)
    <2>1. PICK ch \in Pages : handlers' = handlers \cup {ch}
      BY <1>1 DEF Subscribe
    <2> QED BY <2>1, FS_AddElement DEF SocketsInv, RealtimeAssumption
  <1>2. CASE \E ch \in Pages : Unsubscribe(ch)
    <2>1. PICK ch \in Pages : handlers' = handlers \ {ch}
      BY <1>2 DEF Unsubscribe
    <2> QED BY <2>1, FS_RemoveElement DEF SocketsInv
  <1>3. CASE UNCHANGED handlers
    BY <1>3 DEF SocketsInv
  <1>4. \/ UNCHANGED handlers
        \/ \E ch \in Pages : Subscribe(ch) \/ Unsubscribe(ch)
    BY DEF Next, vars, Incr, IncrFails, SubscribeSucceeds, SubscribeFails, Publish, PublishFails,
           HubRestart, Connect, Close, ReconnectTimer, HubReceives, Drop, HandleOpen, HandleClose,
           HandleMessage, RestReads, RestAnswers
  <1> QED BY <1>1, <1>2, <1>3, <1>4

LEMMA UpstreamStep ==
    ASSUME RealtimeAssumption, SocketsInv, ControlInv, [Next]_vars
    PROVE  upstream' \in [Channel -> {"none", "pending", "subscribed", "failed"}]
  <1>1. ASSUME NEW s \in Sockets, HubReceives(s)
        PROVE  upstream' \in [Channel -> {"none", "pending", "subscribed", "failed"}]
    BY <1>1 DEF HubReceives, EnsureSubscribed, ControlInv
  <1>2. CASE HubRestart
    BY <1>2 DEF HubRestart
  <1>3. CASE \E ch \in Channel : SubscribeSucceeds(ch) \/ SubscribeFails(ch)
    BY <1>3 DEF SubscribeSucceeds, SubscribeFails, ControlInv
  <1>4. CASE UNCHANGED upstream
    BY <1>4 DEF ControlInv
  <1>5. \/ UNCHANGED upstream \/ HubRestart
        \/ \E s \in Sockets : HubReceives(s)
        \/ \E ch \in Channel : SubscribeSucceeds(ch) \/ SubscribeFails(ch)
    BY DEF Next, vars, Incr, IncrFails, Publish, PublishFails, Connect, Close, ReconnectTimer,
           Drop, HandleOpen, HandleClose, HandleMessage, RestReads, RestAnswers, Subscribe,
           Unsubscribe
  <1> QED BY <1>1, <1>2, <1>3, <1>4, <1>5

(* What connect, close and the timers keep track of. *)
LEMMA ControlStep ==
    ASSUME RealtimeAssumption, SocketsInv, ControlInv, [Next]_vars
    PROVE  ControlInv'
  <1>1. upstream' \in [Channel -> {"none", "pending", "subscribed", "failed"}]
    BY UpstreamStep
  <1>2. CASE UNCHANGED <<cur, mounted, timers, handleArmed, openVars>>
    BY <1>1, <1>2 DEF ControlInv, openVars
  <1>3. CASE Connect
    <2>1. cur' \in Sockets
      BY <1>3, NextSocketIsUnused DEF Connect, OpenSocket
    <2> QED BY <1>1, <1>3, <2>1 DEF Connect, ControlInv, openVars
  <1>4. CASE Close
    <2>1. /\ timers' = IF handleArmed THEN timers - 1 ELSE timers
          /\ handleArmed' = FALSE /\ mounted' = FALSE /\ cur' = 0
          /\ UNCHANGED <<connectedOnce, twoOpen>>
      BY <1>4 DEF Close, openVars
    <2>2. timers' \in Nat
      BY <2>1 DEF ControlInv
    <2> QED BY <1>1, <2>1, <2>2 DEF ControlInv
  <1>5. CASE ReconnectTimer
    <2>1. cur' \in Sockets
      BY <1>5, NextSocketIsUnused DEF ReconnectTimer, OpenSocket
    <2>2. handleArmed' \in BOOLEAN /\ timers' \in Nat /\ (handleArmed' => timers' > 0)
      <3>1. /\ timers > 0 /\ timers' = timers - 1
            /\ \/ handleArmed' = FALSE
               \/ (handleArmed => timers > 1) /\ handleArmed' = handleArmed
        BY <1>5 DEF ReconnectTimer
      <3>2. timers \in Nat /\ timers' \in Nat
        BY <3>1 DEF ControlInv
      <3>3. CASE handleArmed' = FALSE
        BY <3>2, <3>3
      <3>4. CASE (handleArmed => timers > 1) /\ handleArmed' = handleArmed
        <4>1. handleArmed' \in BOOLEAN
          BY <3>4 DEF ControlInv
        <4>2. handleArmed' => timers > 1
          BY <3>4, Zenon
        <4>3. timers > 1 => timers' > 0
          BY <3>1, <3>2
        <4> QED BY <3>2, <4>1, <4>2, <4>3, Zenon
      <3> QED BY <3>1, <3>3, <3>4
    <2> QED BY <1>1, <1>5, <2>1, <2>2 DEF ReconnectTimer, ControlInv, openVars
  <1>6. ASSUME NEW s \in Sockets, HandleOpen(s) PROVE ControlInv'
    <2>1. twoOpen' \in BOOLEAN
      BY <1>6 DEF HandleOpen, SecondOpens, ControlInv
    <2> QED BY <1>1, <1>6, <2>1 DEF HandleOpen, ControlInv
  <1>7. ASSUME NEW s \in Sockets, HandleClose(s) PROVE ControlInv'
    BY <1>1, <1>7 DEF HandleClose, ControlInv, openVars
  <1>8. \/ UNCHANGED <<cur, mounted, timers, handleArmed, openVars>>
        \/ Connect \/ Close \/ ReconnectTimer
        \/ \E s \in Sockets : HandleOpen(s) \/ HandleClose(s)
    BY DEF Next, vars, socketVars, Incr, IncrFails, SubscribeSucceeds, SubscribeFails, Publish,
           PublishFails, HubRestart, HubReceives, Drop, HandleMessage, RestReads, RestAnswers,
           Subscribe, Unsubscribe
  <1> QED BY <1>2, <1>3, <1>4, <1>5, <1>6, <1>7, <1>8

-----------------------------------------------------------------------------
(* What each step does to the sockets: all but Publish, HandleMessage and  *)
(* HandleOpen leave every socket delivering what it did, or nothing more.  *)

CalmSockets ==
    /\ sock' \in [Sockets -> Wires]
    /\ \A s \in Sockets : Calm(sock[s], sock'[s])

LEMMA CalmHub ==
    ASSUME SocketsInv, NEW s \in Sockets, HubReceives(s)
    PROVE  CalmSockets
  <1> DEFINE f == Head(sock[s].up)
             taken == [sock[s] EXCEPT !.up = Tail(@)]
             joined == [taken EXCEPT !.subs = @ \cup {f.channel}]
             left == [taken EXCEPT !.subs = @ \ {f.channel}]
  <1>1. sock[s] \in Records /\ sock[s].state = "open" /\ sock[s].up # <<>>
    BY DEF HubReceives, SocketsInv, Wires
  <1>2. f \in Frame /\ Tail(sock[s].up) \in Seq(Frame)
    BY <1>1 DEF Records
  <1>3. f.channel \in Channel
    BY <1>2 DEF Frame
  <1>4. taken \in Records /\ taken.state = "open" /\ taken.down = sock[s].down
    BY <1>1, <1>2 DEF Records
  <1>5. \/ sock' = [sock EXCEPT ![s] = taken]
        \/ sock' = [sock EXCEPT ![s] = joined]
        \/ sock' = [sock EXCEPT ![s] = left]
    BY DEF HubReceives
  <1> HIDE DEF taken, f
  <1>6. /\ joined \in Records /\ joined.state = "open" /\ joined.down = sock[s].down
        /\ left \in Records /\ left.state = "open" /\ left.down = sock[s].down
    BY <1>3, <1>4 DEF Records
  <1> HIDE DEF joined, left
  <1>7. PICK k \in Wires : /\ sock' = [sock EXCEPT ![s] = k]
                           /\ k.state = "open" /\ k.down = sock[s].down
    BY <1>4, <1>5, <1>6 DEF Wires
  <1> QED BY <1>1, <1>7, WireChanges DEF CalmSockets, Calm, SocketsInv

LEMMA CalmBreaks ==
    ASSUME SocketsInv, HubRestart \/ \E s \in Sockets : Drop(s)
    PROVE  CalmSockets
  <1>1. \A s \in Sockets : Broken(sock[s]) \in Wires /\ Calm(sock[s], Broken(sock[s]))
    BY BrokenWires DEF SocketsInv
  <1>2. CASE HubRestart
    <2>1. sock' = [s \in Sockets |-> Broken(sock[s])]
      BY <1>2 DEF HubRestart
    <2> QED BY <1>1, <2>1 DEF CalmSockets
  <1>3. ASSUME NEW s \in Sockets, Drop(s) PROVE CalmSockets
    <2>1. sock' = [sock EXCEPT ![s] = Broken(sock[s])]
      BY <1>3 DEF Drop
    <2>2. \A t \in Sockets : sock'[t] \in {Broken(sock[t]), sock[t]}
      BY <2>1 DEF SocketsInv
    <2> QED BY <1>1, <2>1, <2>2 DEF CalmSockets, Calm, SocketsInv
  <1> QED BY <1>2, <1>3

(* A socket that is not open enters another state in which it is not. *)
LEMMA CalmState ==
    ASSUME SocketsInv, NEW s \in Sockets, sock[s].state # "open",
           NEW st \in States, st # "open", sock' = [sock EXCEPT ![s].state = st]
    PROVE  CalmSockets
  <1> DEFINE k == [sock[s] EXCEPT !.state = st]
  <1>1. sock' = [sock EXCEPT ![s] = k]
    OBVIOUS
  <1>2. k \in Wires /\ Bare(k) /\ k.state = st
    BY StateWires DEF SocketsInv
  <1> HIDE DEF k
  <1> QED BY <1>1, <1>2, WireChanges DEF CalmSockets, Calm, Bare, SocketsInv

LEMMA CalmConnections ==
    ASSUME RealtimeAssumption, SocketsInv, ControlInv,
           Connect \/ ReconnectTimer \/ Close \/ \E s \in Sockets : HandleClose(s)
    PROVE  CalmSockets
  <1>1. CASE Connect \/ ReconnectTimer
    <2>1. /\ sock' = [sock EXCEPT ![NextSocket].state = "connecting"]
          /\ NextSocket \in Sockets /\ sock[NextSocket].state = "unused"
      BY <1>1, NextSocketIsUnused DEF Connect, ReconnectTimer, OpenSocket
    <2> QED BY <2>1, CalmState DEF States
  <1>2. CASE Close
    <2>1. \/ sock' = sock
          \/ cur \in Sockets /\ sock' = [sock EXCEPT ![cur] = Broken(sock[cur])]
      BY <1>2 DEF Close, ControlInv
    <2>2. \A s \in Sockets : Broken(sock[s]) \in Wires /\ Calm(sock[s], Broken(sock[s]))
      BY BrokenWires DEF SocketsInv
    <2>3. \A t \in Sockets : sock'[t] \in {Broken(sock[t]), sock[t]}
      BY <2>1 DEF SocketsInv
    <2> QED BY <2>1, <2>2, <2>3 DEF CalmSockets, Calm, SocketsInv
  <1>3. ASSUME NEW s \in Sockets, HandleClose(s) PROVE CalmSockets
    BY <1>3, CalmState DEF HandleClose, States
  <1> QED BY <1>1, <1>2, <1>3

LEMMA CalmToggles ==
    ASSUME RealtimeAssumption, SocketsInv, NEW ch \in Pages, Subscribe(ch) \/ Unsubscribe(ch)
    PROVE  CalmSockets
  <1>1. PICK op \in {"sub", "unsub"} : sock' = Sent(sock, cur, <<OpOn(op, ch)>>)
    BY DEF Subscribe, Unsubscribe
  <1>2. <<OpOn(op, ch)>> \in Seq(Frame)
    BY DEF OpOn, Frame, RealtimeAssumption
  <1>3. /\ sock' \in [Sockets -> Wires]
        /\ \A s \in Sockets : sock'[s].down = sock[s].down /\ sock'[s].state = sock[s].state
    BY <1>1, <1>2, SentWires DEF SocketsInv
  <1> QED BY <1>3 DEF CalmSockets, Calm

-----------------------------------------------------------------------------
(* The order of the watermarks.  The confirmations channel carries rising  *)
(* events through two queues, the publisher's and a socket's, and whatever *)
(* the socket still holds is older than whatever the publisher does.       *)

Tiers(m) == m.channel = GLOBAL_CONFIRMATIONS

(* The messages of q stand for events REST serves. *)
Known(q, ix) ==
    \A i \in 1 .. Len(q) : /\ q[i].event <= ix[q[i].channel]
                           /\ q[i].type = "confirmations" => Tiers(q[i])

Rising(q) == \A i, j \in 1 .. Len(q) : i < j /\ Tiers(q[i]) /\ Tiers(q[j]) => q[i].event <= q[j].event

Before(q, p) ==
    \A i \in 1 .. Len(q) : \A j \in 1 .. Len(p) :
        Tiers(q[i]) /\ Tiers(p[j]) => q[i].event <= p[j].event

From(w, q) == \A i \in 1 .. Len(q) : Tiers(q[i]) => w <= q[i].event

Flow(q, p, ix) == Known(q, ix) /\ Rising(q) /\ Before(q, p)

OneOpen == \A s, t \in Sockets : sock[s].state = "open" /\ sock[t].state = "open" => s = t

OrderInv ==
    /\ Known(publishing, indexed) /\ Rising(publishing)
    /\ watermark \in 0 .. indexed[GLOBAL_CONFIRMATIONS] /\ From(watermark, publishing)
    /\ \A s \in Sockets : Flow(sock[s].down, publishing, indexed)
    /\ ~twoOpen => OneOpen /\ \A s \in Sockets : From(watermark, sock[s].down)

LEMMA EmptyFlows == \A p, ix, w : Flow(<<>>, p, ix) /\ From(w, <<>>)
  BY DEF Flow, Known, Rising, Before, From

LEMMA TailElements ==
    ASSUME NEW q \in Seq(Message), q # <<>>
    PROVE  /\ Tail(q) \in Seq(Message) /\ Len(Tail(q)) = Len(q) - 1 /\ Len(q) \in Nat
           /\ \A i \in 1 .. Len(Tail(q)) : Tail(q)[i] = q[i + 1] /\ i + 1 \in 1 .. Len(q)
           /\ Head(q) = q[1] /\ 1 \in 1 .. Len(q) /\ Head(q) \in Message
  OBVIOUS

LEMMA AppendElements ==
    ASSUME NEW q \in Seq(Message), NEW m \in Message
    PROVE  /\ Append(q, m) \in Seq(Message) /\ Len(q) \in Nat
           /\ Len(Append(q, m)) = Len(q) + 1
           /\ \A i \in 1 .. Len(q) + 1 : Append(q, m)[i] = IF i = Len(q) + 1 THEN m ELSE q[i]
           /\ \A i \in 1 .. Len(q) + 1 : i = Len(q) + 1 \/ i \in 1 .. Len(q)
  OBVIOUS

(* A message leaves a queue. *)
LEMMA TailFlows ==
    ASSUME NEW q \in Seq(Message), q # <<>>
    PROVE  /\ \A ix : Known(q, ix) => Known(Tail(q), ix)
           /\ Rising(q) => Rising(Tail(q))
           /\ \A p : Before(q, p) => Before(Tail(q), p)
           /\ \A p : Before(p, q) => Before(p, Tail(q))
           /\ \A w : From(w, q) => From(w, Tail(q))
  <1> DEFINE r == Tail(q)
  <1>1. /\ Len(r) = Len(q) - 1 /\ Len(q) \in Nat
        /\ \A i \in 1 .. Len(r) : r[i] = q[i + 1] /\ i + 1 \in 1 .. Len(q)
    BY TailElements
  <1> HIDE DEF r
  <1>2. \A ix : Known(q, ix) => Known(r, ix)
    BY <1>1 DEF Known
  <1>3. Rising(q) => Rising(r)
    BY <1>1 DEF Rising
  <1>4. \A p : Before(q, p) => Before(r, p)
    BY <1>1 DEF Before
  <1>5. \A p : Before(p, q) => Before(p, r)
    BY <1>1 DEF Before
  <1>6. \A w : From(w, q) => From(w, r)
    BY <1>1 DEF From
  <1> QED BY <1>2, <1>3, <1>4, <1>5, <1>6 DEF r

(* The message at the head of a queue. *)
LEMMA HeadFlows ==
    ASSUME NEW q \in Seq(Message), q # <<>>, NEW p, NEW ix, Flow(q, p, ix)
    PROVE  /\ Head(q) \in Message /\ Head(q).event <= ix[Head(q).channel]
           /\ Head(q).type = "confirmations" => Tiers(Head(q))
           /\ Tiers(Head(q)) => From(Head(q).event, Tail(q)) /\ From(Head(q).event, p)
           /\ \A w : From(w, q) /\ Tiers(Head(q)) => w <= Head(q).event
  <1> DEFINE r == Tail(q)
             m == Head(q)
  <1>1. /\ \A i \in 1 .. Len(r) : r[i] = q[i + 1] /\ i + 1 \in 1 .. Len(q) /\ 1 < i + 1
        /\ m = q[1] /\ 1 \in 1 .. Len(q) /\ m \in Message
    <2>1. \A i \in 1 .. Len(r) : 1 < i + 1
      OBVIOUS
    <2> HIDE DEF r
    <2> QED BY <2>1, TailElements DEF r
  <1> HIDE DEF r, m
  <1>2. m.event <= ix[m.channel] /\ (m.type = "confirmations" => Tiers(m))
    BY <1>1 DEF Flow, Known
  <1>3. Tiers(m) => From(m.event, r)
    BY <1>1 DEF Flow, Rising, From
  <1>4. Tiers(m) => From(m.event, p)
    BY <1>1 DEF Flow, Before, From
  <1>5. \A w : From(w, q) /\ Tiers(m) => w <= m.event
    BY <1>1 DEF From
  <1> QED BY <1>1, <1>2, <1>3, <1>4, <1>5 DEF r, m

(* The publisher's oldest message goes to a socket's queue. *)
LEMMA RelayFlows ==
    ASSUME NEW p \in Seq(Message), p # <<>>, NEW q \in Seq(Message), NEW ix,
           Known(p, ix), Rising(p), Flow(q, p, ix)
    PROVE  /\ Flow(q, Tail(p), ix) /\ Flow(Append(q, Head(p)), Tail(p), ix)
           /\ \A w : From(w, q) /\ From(w, p) => From(w, Append(q, Head(p)))
  <1> DEFINE m == Head(p)
             r == Tail(p)
             a == Append(q, m)
  <1>1. /\ \A i \in 1 .. Len(r) : r[i] = p[i + 1] /\ i + 1 \in 1 .. Len(p) /\ 1 < i + 1
        /\ m = p[1] /\ 1 \in 1 .. Len(p) /\ m \in Message
    <2>1. \A i \in 1 .. Len(r) : 1 < i + 1
      OBVIOUS
    <2> HIDE DEF r, m
    <2> QED BY <2>1, TailElements DEF r, m
  <1>2. Flow(q, r, ix)
    BY TailFlows DEF Flow
  <1> HIDE DEF m, r
  <1>3. /\ Len(q) \in Nat /\ Len(a) = Len(q) + 1
        /\ \A i \in 1 .. Len(q) + 1 : a[i] = IF i = Len(q) + 1 THEN m ELSE q[i]
        /\ \A i \in 1 .. Len(q) + 1 : i = Len(q) + 1 \/ i \in 1 .. Len(q)
    BY <1>1, AppendElements
  <1> HIDE DEF a
  <1>4. Known(a, ix)
    <2>1. m.event <= ix[m.channel] /\ (m.type = "confirmations" => Tiers(m))
      BY <1>1 DEF Known
    <2> QED BY <1>3, <2>1 DEF Flow, Known
  <1>5. Rising(a)
    <2> SUFFICES ASSUME NEW i \in 1 .. Len(a), NEW j \in 1 .. Len(a), i < j,
                        Tiers(a[i]), Tiers(a[j])
                 PROVE  a[i].event <= a[j].event
      BY DEF Rising
    <2>1. i \in 1 .. Len(q) /\ a[i] = q[i]
      BY <1>3
    <2>2. CASE j \in 1 .. Len(q)
      <3>1. a[j] = q[j]
        BY <1>3, <2>2
      <3> QED BY <2>1, <2>2, <3>1 DEF Flow, Rising
    <2>3. CASE j = Len(q) + 1
      <3>1. a[j] = p[1]
        BY <1>1, <1>3, <2>3
      <3> QED BY <1>1, <2>1, <3>1 DEF Flow, Before
    <2> QED BY <1>3, <2>2, <2>3
  <1>6. Before(a, r)
    <2> SUFFICES ASSUME NEW i \in 1 .. Len(a), NEW j \in 1 .. Len(r),
                        Tiers(a[i]), Tiers(r[j])
                 PROVE  a[i].event <= r[j].event
      BY DEF Before
    <2>1. CASE i \in 1 .. Len(q)
      <3>1. a[i] = q[i]
        BY <1>3, <2>1
      <3> QED BY <1>2, <2>1, <3>1 DEF Flow, Before
    <2>2. CASE i = Len(q) + 1
      <3>1. a[i] = p[1]
        BY <1>1, <1>3, <2>2
      <3> QED BY <1>1, <3>1 DEF Rising
    <2> QED BY <1>3, <2>1, <2>2
  <1>7. \A w : From(w, q) /\ From(w, p) => From(w, a)
    BY <1>1, <1>3 DEF From
  <1> QED BY <1>2, <1>4, <1>5, <1>6, <1>7 DEF Flow, a, m, r

(* REST serves one event more. *)
LEMMA MoreIsKnown ==
    ASSUME NEW q, NEW ix, NEW ix2, q \in Seq(Message), ix \in [Channel -> Nat], ix2 \in [Channel -> Nat],
           \A ch \in Channel : ix[ch] <= ix2[ch], Known(q, ix)
    PROVE  Known(q, ix2)
  <1> SUFFICES ASSUME NEW i \in 1 .. Len(q) PROVE q[i].event <= ix2[q[i].channel]
    BY DEF Known
  <1>1. q[i] \in Message
    OBVIOUS
  <1>2. q[i].channel \in Channel /\ q[i].event \in Nat
    BY <1>1 DEF Message
  <1>3. q[i].event <= ix[q[i].channel]
    BY DEF Known
  <1> QED BY <1>2, <1>3

(* The newest event is numbered. *)
LEMMA IncrFlows ==
    ASSUME NEW ix \in [Channel -> Nat], NEW p \in Seq(Message), NEW m \in Message,
           m.event = ix[m.channel] + 1, m.type = "confirmations" => Tiers(m),
           NEW q \in Seq(Message), Known(q, ix)
    PROVE  /\ Before(q, p) => Before(q, Append(p, m))
           /\ Rising(q) => Rising(Append(q, m))
           /\ Known(Append(q, m), [ix EXCEPT ![m.channel] = @ + 1])
           /\ \A w \in Nat : From(w, p) /\ w <= ix[GLOBAL_CONFIRMATIONS] => From(w, Append(p, m))
  <1> DEFINE a == Append(p, m)
             b == Append(q, m)
             ix2 == [ix EXCEPT ![m.channel] = @ + 1]
  <1>1. /\ Len(p) \in Nat /\ Len(a) = Len(p) + 1
        /\ \A i \in 1 .. Len(p) + 1 : a[i] = IF i = Len(p) + 1 THEN m ELSE p[i]
        /\ \A i \in 1 .. Len(p) + 1 : i = Len(p) + 1 \/ i \in 1 .. Len(p)
    BY AppendElements
  <1>2. /\ Len(q) \in Nat /\ Len(b) = Len(q) + 1
        /\ \A i \in 1 .. Len(q) + 1 : b[i] = IF i = Len(q) + 1 THEN m ELSE q[i]
        /\ \A i \in 1 .. Len(q) + 1 : i = Len(q) + 1 \/ i \in 1 .. Len(q)
    BY AppendElements
  <1>3. /\ m.channel \in Channel /\ m.event \in Nat
        /\ \A i \in 1 .. Len(q) : /\ q[i].channel \in Channel /\ q[i].event \in Nat
                                  /\ q[i].event <= ix[q[i].channel]
    <2>1. \A i \in 1 .. Len(q) : q[i] \in Message
      OBVIOUS
    <2> QED BY <2>1 DEF Known, Message
  <1>4. /\ ix2 \in [Channel -> Nat] /\ ix2[m.channel] = m.event
        /\ \A ch \in Channel : ix[ch] \in Nat /\ ix[ch] <= ix2[ch]
    BY <1>3
  <1> HIDE DEF a, b, ix2
  <1>5. \A i \in 1 .. Len(q) : Tiers(q[i]) /\ Tiers(m) => q[i].event <= m.event
    BY <1>3 DEF Tiers
  <1>6. Before(q, p) => Before(q, a)
    BY <1>1, <1>5 DEF Before
  <1>7. Rising(q) => Rising(b)
    <2> SUFFICES ASSUME Rising(q), NEW i \in 1 .. Len(b), NEW j \in 1 .. Len(b), i < j,
                        Tiers(b[i]), Tiers(b[j])
                 PROVE  b[i].event <= b[j].event
      BY DEF Rising
    <2>1. i \in 1 .. Len(q) /\ b[i] = q[i]
      BY <1>2
    <2>2. CASE j \in 1 .. Len(q)
      <3>1. b[j] = q[j]
        BY <1>2, <2>2
      <3> QED BY <2>1, <2>2, <3>1 DEF Rising
    <2>3. CASE j = Len(q) + 1
      <3>1. b[j] = m
        BY <1>2, <2>3
      <3> QED BY <1>5, <2>1, <3>1
    <2> QED BY <1>2, <2>2, <2>3
  <1>8. Known(b, ix2)
    <2>1. Known(q, ix2)
      BY <1>4, MoreIsKnown
    <2>2. m.event <= ix2[m.channel]
      BY <1>3, <1>4
    <2> QED BY <1>2, <2>1, <2>2 DEF Known
  <1>9. \A w \in Nat : From(w, p) /\ w <= ix[GLOBAL_CONFIRMATIONS] => From(w, a)
    <2>1. Tiers(m) => m.event = ix[GLOBAL_CONFIRMATIONS] + 1 /\ ix[GLOBAL_CONFIRMATIONS] \in Nat
      BY <1>3, <1>4 DEF Tiers
    <2> QED BY <1>1, <2>1 DEF From
  <1> QED BY <1>6, <1>7, <1>8, <1>9 DEF a, b, ix2

-----------------------------------------------------------------------------
LiveInv == GapInv /\ SocketsInv /\ ControlInv /\ OrderInv

(* A step that moves sockets and delivers nothing. *)
LEMMA OrderCalm ==
    ASSUME OrderInv, CalmSockets, UNCHANGED <<publishing, indexed, watermark, twoOpen>>
    PROVE  OrderInv'
  <1>1. \A s \in Sockets : sock'[s].down \in {sock[s].down, <<>>}
    BY DEF CalmSockets, Calm
  <1>2. \A s \in Sockets : Flow(sock'[s].down, publishing, indexed)
    BY <1>1, EmptyFlows DEF OrderInv
  <1>3. ASSUME ~twoOpen PROVE OneOpen' /\ \A s \in Sockets : From(watermark, sock'[s].down)
    <2>1. OneOpen'
      BY <1>3 DEF OrderInv, OneOpen, CalmSockets, Calm
    <2>2. \A s \in Sockets : From(watermark, sock'[s].down)
      BY <1>1, <1>3, EmptyFlows DEF OrderInv
    <2> QED BY <2>1, <2>2
  <1> QED BY <1>2, <1>3 DEF OrderInv, Flow, Known, Rising, Before, From

LEMMA OrderIncr ==
    ASSUME RealtimeAssumption, LiveInv, NEW ch \in Channel, NEW type \in Types(ch), Incr(ch, type)
    PROVE  OrderInv'
  <1> DEFINE m == [channel |-> ch, seq |-> seq[ch] + 1, event |-> indexed[ch] + 1, type |-> type]
             more == [indexed EXCEPT ![m.channel] = @ + 1]
  <1>1. /\ indexed' = more /\ publishing' = Append(publishing, m)
        /\ UNCHANGED <<sock, watermark, twoOpen>>
    BY DEF Incr, socketVars, openVars, seqVars
  <1>2. /\ indexed \in [Channel -> Nat] /\ publishing \in Seq(Message) /\ seq[ch] \in Nat
        /\ \A s \in Sockets : sock[s].down \in Seq(Message)
    BY DEF LiveInv, GapInv, Numbered, ChannelInv, SocketInv
  <1>3. m \in Message /\ m.event = indexed[m.channel] + 1
    <2>1. type \in {"confirmations", "reorg", "trade"}
      BY DEF Types
    <2> QED BY <1>2, <2>1 DEF Message
  <1>4. m.type = "confirmations" => Tiers(m)
    BY DEF Types, Tiers
  <1>5. more \in [Channel -> Nat] /\ \A c \in Channel : indexed[c] <= more[c]
    BY <1>2, <1>3 DEF Message
  <1> HIDE DEF m
  <1>6. ASSUME NEW q \in Seq(Message), Known(q, indexed)
        PROVE  /\ Before(q, publishing) => Before(q, Append(publishing, m))
               /\ Rising(q) => Rising(Append(q, m))
               /\ Known(Append(q, m), more)
               /\ \A w \in Nat : From(w, publishing) /\ w <= indexed[GLOBAL_CONFIRMATIONS]
                                     => From(w, Append(publishing, m))
    BY <1>2, <1>3, <1>4, <1>6, IncrFlows
  <1> HIDE DEF more
  <1>7. Known(publishing', indexed') /\ Rising(publishing')
    BY <1>1, <1>2, <1>6 DEF LiveInv, OrderInv
  <1>8. /\ watermark \in 0 .. indexed'[GLOBAL_CONFIRMATIONS]
        /\ From(watermark, publishing')
    <2>1. /\ GLOBAL_CONFIRMATIONS \in Channel /\ watermark \in Nat
          /\ watermark <= indexed[GLOBAL_CONFIRMATIONS]
      BY <1>2 DEF LiveInv, OrderInv, RealtimeAssumption, Channel
    <2> QED BY <1>1, <1>2, <1>5, <1>6, <2>1 DEF LiveInv, OrderInv
  <1>9. \A s \in Sockets : Flow(sock[s].down, publishing', indexed')
    <2> SUFFICES ASSUME NEW s \in Sockets PROVE Flow(sock[s].down, publishing', indexed')
      OBVIOUS
    <2>1. Flow(sock[s].down, publishing, indexed) /\ sock[s].down \in Seq(Message)
      BY <1>2 DEF LiveInv, OrderInv
    <2>2. Known(sock[s].down, more)
      BY <1>2, <1>5, <2>1, MoreIsKnown DEF Flow
    <2> QED BY <1>1, <1>6, <2>1, <2>2 DEF Flow
  <1> QED BY <1>1, <1>7, <1>8, <1>9 DEF LiveInv, OrderInv, OneOpen, From, Flow, Known, Rising, Before

LEMMA OrderIncrFails ==
    ASSUME RealtimeAssumption, LiveInv, NEW ch \in Channel, IncrFails(ch)
    PROVE  OrderInv'
  <1>1. /\ indexed' = [indexed EXCEPT ![ch] = @ + 1]
        /\ UNCHANGED <<publishing, sock, watermark, twoOpen>>
    BY DEF IncrFails, socketVars, openVars, seqVars
  <1>2. /\ indexed \in [Channel -> Nat] /\ publishing \in Seq(Message)
        /\ \A s \in Sockets : sock[s].down \in Seq(Message)
    BY DEF LiveInv, GapInv, Numbered, SocketInv
  <1>3. indexed' \in [Channel -> Nat] /\ \A c \in Channel : indexed[c] <= indexed'[c]
    BY <1>1, <1>2
  <1>4. \A q \in Seq(Message) : Known(q, indexed) => Known(q, indexed')
    BY <1>2, <1>3, MoreIsKnown
  <1>5. watermark \in 0 .. indexed'[GLOBAL_CONFIRMATIONS]
    BY <1>2, <1>3 DEF LiveInv, OrderInv, RealtimeAssumption, Channel
  <1>6. \A s \in Sockets : Flow(sock[s].down, publishing, indexed')
    BY <1>2, <1>4 DEF LiveInv, OrderInv, Flow
  <1> QED BY <1>1, <1>2, <1>4, <1>5, <1>6
          DEF LiveInv, OrderInv, OneOpen, From, Flow, Known, Rising, Before

(* A closed socket is on no topic: nothing is relayed to it. *)
LEMMA OrderPublish ==
    ASSUME LiveInv, Publish \/ PublishFails
    PROVE  OrderInv' /\ sock' \in [Sockets -> Wires]
  <1> DEFINE m == Head(publishing)
             r == Tail(publishing)
  <1>1. /\ publishing # <<>> /\ publishing' = r
        /\ sock' = sock \/ sock' = Relay(m)
        /\ UNCHANGED <<indexed, watermark, twoOpen>>
    BY DEF Publish, PublishFails, socketVars, openVars, seqVars
  <1>2. /\ publishing \in Seq(Message) /\ Known(publishing, indexed) /\ Rising(publishing)
        /\ From(watermark, publishing) /\ m \in Message
    BY <1>1, TailElements DEF LiveInv, GapInv, Numbered, OrderInv
  <1>3. Known(r, indexed) /\ Rising(r) /\ From(watermark, r)
    BY <1>1, <1>2, TailFlows
  <1> HIDE DEF r, m
  <1>4. ASSUME NEW s \in Sockets
        PROVE  /\ sock'[s] \in Wires /\ sock'[s].state = sock[s].state
               /\ Flow(sock'[s].down, r, indexed)
               /\ From(watermark, sock[s].down) => From(watermark, sock'[s].down)
    <2> DEFINE q == sock[s].down
               a == Append(q, m)
               k == [sock[s] EXCEPT !.down = Append(@, m)]
    <2>1. sock[s] \in Wires /\ sock[s] \in Records /\ q \in Seq(Message)
      BY DEF LiveInv, SocketsInv, Wires, Records
    <2>2. Flow(q, publishing, indexed)
      BY DEF LiveInv, OrderInv
    <2>3. /\ Flow(q, r, indexed) /\ Flow(a, r, indexed)
          /\ From(watermark, q) => From(watermark, a)
      BY <1>1, <1>2, <2>1, <2>2, RelayFlows DEF r, m
    <2>4. CASE sock'[s] = sock[s]
      BY <2>1, <2>3, <2>4
    <2>5. CASE sock[s].subs # {} /\ sock'[s] = k
      <3>1. sock[s].state = "open"
        BY <2>1, <2>5 DEF Wires, Bare
      <3>2. a \in Seq(Message)
        BY <1>2, <2>1
      <3>3. k \in Records /\ k.state = sock[s].state /\ k.down = a
        BY <2>1, <3>2 DEF Records
      <3> HIDE DEF k, a, q
      <3> QED BY <2>3, <2>5, <3>1, <3>3 DEF Wires, q
    <2>6. sock'[s] = sock[s] \/ (sock[s].subs # {} /\ sock'[s] = k)
      <3>1. Relay(m)[s] = sock[s] \/ (sock[s].subs # {} /\ Relay(m)[s] = k)
        BY DEF Relay
      <3> HIDE DEF k
      <3> QED BY <1>1, <3>1
    <2> HIDE DEF k, a
    <2> QED BY <2>4, <2>5, <2>6
  <1>5. sock' \in [Sockets -> Wires]
    <2>1. sock' = [s \in Sockets |-> sock'[s]]
      BY <1>1 DEF Relay, LiveInv, SocketsInv
    <2> QED BY <1>4, <2>1
  <1>6. ~twoOpen => OneOpen' /\ \A s \in Sockets : From(watermark, sock'[s].down)
    BY <1>4 DEF LiveInv, OrderInv, OneOpen
  <1>7. \A s \in Sockets : Flow(sock'[s].down, publishing', indexed')
    BY <1>1, <1>4
  <1> QED BY <1>1, <1>3, <1>5, <1>6, <1>7
          DEF LiveInv, OrderInv, From, Flow, Known, Rising, Before

(* The socket that opens brings nothing of the one before it. *)
LEMMA OrderOpen ==
    ASSUME RealtimeAssumption, LiveInv, NEW s \in Sockets, HandleOpen(s)
    PROVE  OrderInv' /\ sock' \in [Sockets -> Wires]
  <1> DEFINE k == [sock[s] EXCEPT !.state = "open"]
             opened == [sock EXCEPT ![s] = k]
             frames == Subs(Wanted)
  <1>1. /\ sock[s].state = "connecting" /\ sock' = Sent(opened, cur, frames)
        /\ twoOpen' = SecondOpens(s)
        /\ UNCHANGED <<publishing, indexed, watermark>>
    BY DEF HandleOpen, pubVars
  <1>2. sock \in [Sockets -> Wires] /\ frames \in Seq(Frame)
    <2>1. Wanted \in SUBSET Channel /\ IsFiniteSet(Wanted)
      BY FS_AddElement DEF Wanted, LiveInv, SocketsInv, RealtimeAssumption, Channel
    <2> QED BY <2>1, SubsAreFrames DEF LiveInv, SocketsInv
  <1>3. k \in Wires /\ Bare(k) /\ k.state = "open"
    BY <1>1, <1>2, StateWires DEF States
  <1> HIDE DEF k, frames
  <1>4. /\ opened \in [Sockets -> Wires]
        /\ \A t \in Sockets : opened[t] = IF t = s THEN k ELSE sock[t]
    BY <1>2, <1>3, WireChanges
  <1> HIDE DEF opened
  <1>5. /\ sock' \in [Sockets -> Wires]
        /\ \A t \in Sockets : sock'[t].down = opened[t].down /\ sock'[t].state = opened[t].state
    BY <1>1, <1>2, <1>4, SentWires
  <1>6. \A t \in Sockets : sock'[t].down \in {sock[t].down, <<>>}
    BY <1>3, <1>4, <1>5 DEF Bare
  <1>7. \A t \in Sockets : Flow(sock'[t].down, publishing, indexed)
    BY <1>6, EmptyFlows DEF LiveInv, OrderInv
  <1>8. ASSUME ~twoOpen' PROVE OneOpen' /\ \A t \in Sockets : From(watermark, sock'[t].down)
    <2>1. ~twoOpen /\ \A t \in Sockets \ {s} : sock[t].state # "open"
      BY <1>1, <1>8 DEF SecondOpens
    <2>2. OneOpen'
      <3>1. \A t \in Sockets : sock'[t].state = "open" => t = s
        BY <1>4, <1>5, <2>1
      <3> QED BY <3>1 DEF OneOpen
    <2> QED BY <1>6, <2>1, <2>2, EmptyFlows DEF LiveInv, OrderInv
  <1> QED BY <1>1, <1>5, <1>7, <1>8
          DEF LiveInv, OrderInv, From, Flow, Known, Rising, Before

(* The watermark a message carries is at least the one before it, and at   *)
(* most any that is still on its way.                                      *)
LEMMA OrderMessage ==
    ASSUME LiveInv, NEW s \in Sockets, HandleMessage(s)
    PROVE  /\ OrderInv' /\ sock' \in [Sockets -> Wires]
           /\ ~twoOpen => watermark' >= watermark
  <1> DEFINE q == sock[s].down
             m == Head(q)
             r == Tail(q)
             k == [sock[s] EXCEPT !.down = r]
  <1>1. /\ sock[s].state = "open" /\ q # <<>> /\ sock' = [sock EXCEPT ![s] = k]
        /\ watermark' = IF m.type = "confirmations" THEN m.event ELSE watermark
        /\ UNCHANGED <<publishing, indexed, twoOpen>>
    BY DEF HandleMessage, pubVars, openVars
  <1>2. /\ sock \in [Sockets -> Wires] /\ sock[s] \in Records /\ q \in Seq(Message)
        /\ Flow(q, publishing, indexed)
    BY DEF LiveInv, SocketsInv, OrderInv, Wires, Records
  <1> HIDE DEF q
  <1>3. /\ m \in Message /\ m.event <= indexed[m.channel]
        /\ m.type = "confirmations" => Tiers(m)
        /\ Tiers(m) => From(m.event, r) /\ From(m.event, publishing)
        /\ \A w : From(w, q) /\ Tiers(m) => w <= m.event
    BY <1>1, <1>2, HeadFlows
  <1>4. /\ r \in Seq(Message) /\ Flow(r, publishing, indexed)
        /\ \A w : From(w, q) => From(w, r)
    BY <1>1, <1>2, TailElements, TailFlows DEF Flow
  <1> HIDE DEF m, r
  <1>5. k \in Records /\ k.state = "open" /\ k.down = r
    BY <1>1, <1>2, <1>4 DEF Records
  <1> HIDE DEF k
  <1>6. /\ sock' \in [Sockets -> Wires]
        /\ \A t \in Sockets : sock'[t] = IF t = s THEN k ELSE sock[t]
    <2>1. k \in Wires
      BY <1>5 DEF Wires
    <2> QED BY <1>1, <1>2, <2>1, WireChanges
  <1>7. /\ watermark' \in 0 .. indexed[GLOBAL_CONFIRMATIONS]
        /\ From(watermark', publishing)
    <2>1. CASE m.type = "confirmations"
      <3>1. m.event \in Nat /\ m.channel = GLOBAL_CONFIRMATIONS /\ watermark' = m.event
        BY <1>1, <1>3, <2>1 DEF Message, Tiers
      <3>2. indexed[GLOBAL_CONFIRMATIONS] \in Nat
        BY <1>3, <3>1 DEF LiveInv, GapInv, Message
      <3> QED BY <1>3, <2>1, <3>1, <3>2
    <2>2. CASE m.type # "confirmations"
      BY <1>1, <2>2 DEF LiveInv, OrderInv
    <2> QED BY <2>1, <2>2
  <1>8. ASSUME ~twoOpen
        PROVE  /\ OneOpen' /\ watermark' >= watermark
               /\ \A t \in Sockets : From(watermark', sock'[t].down)
    <2>1. OneOpen /\ \A t \in Sockets : From(watermark, sock[t].down)
      BY <1>8 DEF LiveInv, OrderInv
    <2>2. From(watermark, q)
      BY <2>1 DEF q
    <2>3. watermark \in Nat /\ watermark' \in Nat
      BY <1>7 DEF LiveInv, OrderInv
    <2>4. watermark' >= watermark
      BY <1>1, <1>3, <2>2, <2>3
    <2>5. From(watermark', r)
      <3>1. CASE m.type = "confirmations"
        BY <1>1, <1>3, <3>1
      <3>2. CASE m.type # "confirmations"
        BY <1>1, <1>4, <2>2, <3>2
      <3> QED BY <3>1, <3>2
    <2>6. \A t \in Sockets : t # s => sock'[t].down = <<>>
      <3>1. \A t \in Sockets : t # s => sock[t].state # "open"
        BY <1>1, <2>1 DEF OneOpen
      <3> QED BY <1>2, <1>6, <3>1 DEF Wires, Bare
    <2>7. OneOpen'
      <3>1. \A t \in Sockets : sock'[t].state = sock[t].state
        BY <1>1, <1>5, <1>6
      <3> QED BY <2>1, <3>1 DEF OneOpen
    <2>8. \A t \in Sockets : From(watermark', sock'[t].down)
      <3>1. From(watermark', <<>>)
        BY EmptyFlows
      <3> QED BY <1>5, <1>6, <2>5, <2>6, <3>1
    <2> QED BY <2>4, <2>7, <2>8
  <1>9. \A t \in Sockets : Flow(sock'[t].down, publishing, indexed)
    <2>1. \A t \in Sockets : Flow(sock[t].down, publishing, indexed)
      BY DEF LiveInv, OrderInv
    <2> QED BY <1>4, <1>5, <1>6, <2>1
  <1> QED BY <1>1, <1>6, <1>7, <1>8, <1>9
          DEF LiveInv, OrderInv, From, Flow, Known, Rising, Before

LEMMA OrderInit == Init => OrderInv
  <1> SUFFICES ASSUME Init PROVE OrderInv
    OBVIOUS
  <1>1. \A s \in Sockets : sock[s].down = <<>> /\ sock[s].state = "unused"
    BY DEF Init, Unused
  <1>2. publishing = <<>> /\ watermark \in 0 .. indexed[GLOBAL_CONFIRMATIONS]
    BY RealtimeAssumption DEF Init, Zero, RealtimeAssumption, Channel
  <1>3. Known(publishing, indexed) /\ Rising(publishing) /\ From(watermark, publishing)
    BY <1>2, EmptyFlows DEF Flow
  <1>4. \A s \in Sockets : Flow(sock[s].down, publishing, indexed) /\ From(watermark, sock[s].down)
    BY <1>1, EmptyFlows
  <1>5. OneOpen
    BY <1>1 DEF OneOpen
  <1> QED BY <1>2, <1>3, <1>4, <1>5 DEF OrderInv

LEMMA LiveStep ==
    ASSUME RealtimeAssumption, LiveInv, [Next]_vars
    PROVE  LiveInv' /\ (~twoOpen' => watermark' >= watermark)
  <1> DEFINE Goal == /\ OrderInv' /\ sock' \in [Sockets -> Wires]
                     /\ ~twoOpen' => watermark' >= watermark
  <1>1. GapInv'
    BY GapStep DEF LiveInv
  <1>2. ControlInv'
    BY ControlStep DEF LiveInv
  <1>3. handlers' \subseteq Channel /\ IsFiniteSet(handlers')
    BY HandlersStep DEF LiveInv
  <1>4. UNCHANGED watermark => watermark' >= watermark
    BY DEF LiveInv, OrderInv
  <1>5. ASSUME CalmSockets, UNCHANGED <<publishing, indexed, watermark, twoOpen>> PROVE Goal
    BY <1>4, <1>5, OrderCalm DEF LiveInv, CalmSockets
  <1>6. ASSUME NEW ch \in Channel, NEW type \in Types(ch), Incr(ch, type) PROVE Goal
    <2>1. UNCHANGED <<sock, watermark>>
      BY <1>6 DEF Incr, socketVars, seqVars
    <2> QED BY <1>4, <1>6, <2>1, OrderIncr DEF LiveInv, SocketsInv
  <1>7. ASSUME NEW ch \in Channel, IncrFails(ch) PROVE Goal
    <2>1. UNCHANGED <<sock, watermark>>
      BY <1>7 DEF IncrFails, socketVars, seqVars
    <2> QED BY <1>4, <1>7, <2>1, OrderIncrFails DEF LiveInv, SocketsInv
  <1>8. ASSUME Publish \/ PublishFails PROVE Goal
    <2>1. UNCHANGED watermark
      BY <1>8 DEF Publish, PublishFails, seqVars
    <2> QED BY <1>4, <1>8, <2>1, OrderPublish
  <1>9. ASSUME HubRestart \/ \E s \in Sockets : Drop(s) PROVE Goal
    <2>1. UNCHANGED <<publishing, indexed, watermark, twoOpen>>
      BY <1>9 DEF HubRestart, Drop, pubVars, openVars, seqVars
    <2> QED BY <1>5, <1>9, <2>1, CalmBreaks DEF LiveInv
  <1>10. ASSUME Connect \/ ReconnectTimer \/ Close \/ \E s \in Sockets : HandleClose(s) PROVE Goal
    <2>1. UNCHANGED <<publishing, indexed, watermark, twoOpen>>
      BY <1>10 DEF Connect, ReconnectTimer, Close, HandleClose, pubVars, openVars, seqVars
    <2> QED BY <1>5, <1>10, <2>1, CalmConnections DEF LiveInv
  <1>11. ASSUME NEW s \in Sockets, HubReceives(s) PROVE Goal
    <2>1. UNCHANGED <<publishing, indexed, watermark, twoOpen>>
      BY <1>11 DEF HubReceives, pubVars, openVars, seqVars
    <2> QED BY <1>5, <1>11, <2>1, CalmHub DEF LiveInv
  <1>12. ASSUME NEW s \in Sockets, HandleOpen(s) PROVE Goal
    <2>1. UNCHANGED watermark
      BY <1>12 DEF HandleOpen
    <2> QED BY <1>4, <1>12, <2>1, OrderOpen
  <1>13. ASSUME NEW s \in Sockets, HandleMessage(s) PROVE Goal
    <2>1. UNCHANGED twoOpen
      BY <1>13 DEF HandleMessage, openVars
    <2> QED BY <1>13, <2>1, OrderMessage
  <1>14. ASSUME NEW ch \in Pages, Subscribe(ch) \/ Unsubscribe(ch) PROVE Goal
    <2>1. UNCHANGED <<publishing, indexed, watermark, twoOpen>>
      BY <1>14 DEF Subscribe, Unsubscribe, pubVars, openVars, seqVars
    <2> QED BY <1>5, <1>14, <2>1, CalmToggles DEF LiveInv
  <1>15. ASSUME \/ \E ch \in Channel : SubscribeSucceeds(ch) \/ SubscribeFails(ch)
                \/ RestReads \/ RestAnswers \/ UNCHANGED vars
         PROVE  Goal
    <2>1. UNCHANGED <<publishing, indexed, watermark, twoOpen, sock>>
      BY <1>15 DEF SubscribeSucceeds, SubscribeFails, RestReads, RestAnswers, vars, pubVars,
                   socketVars, openVars, seqVars
    <2>2. CalmSockets
      BY <2>1 DEF CalmSockets, Calm, LiveInv, SocketsInv
    <2> QED BY <1>5, <2>1, <2>2
  <1> HIDE DEF Goal
  <1>16. Goal
    BY <1>6, <1>7, <1>8, <1>9, <1>10, <1>11, <1>12, <1>13, <1>14, <1>15 DEF Next
  <1> QED BY <1>1, <1>2, <1>3, <1>16 DEF LiveInv, SocketsInv, Goal

LEMMA LiveInit == Init => LiveInv
  BY GapInit, WireInit, OrderInit DEF LiveInv

LEMMA LiveInvariant == Spec => []LiveInv
  <1>1. LiveInv /\ [Next]_vars => LiveInv'
    BY RealtimeAssumption, LiveStep
  <1> QED BY <1>1, LiveInit, PTL DEF Spec

(* While the client has not had two sockets open at once, the confirmation *)
(* tiers a browser shows only rise, whatever connections, messages and     *)
(* restarts do meanwhile: a connection takes its frames with it, and what  *)
(* the publisher still holds is newer than whatever a socket does          *)
(* (ws-client.ts handleMessage, realtime.ts firePublish).                  *)
THEOREM WatermarkRises == Spec => WatermarkNeverGoesBack
  <1>1. LiveInv /\ [Next]_vars => [~twoOpen' => watermark' >= watermark]_vars
    BY RealtimeAssumption, LiveStep
  <1> QED BY <1>1, LiveInvariant, PTL DEF Spec, WatermarkNeverGoesBack

-----------------------------------------------------------------------------
(* What a page shows was served, and what healed it had been numbered. *)

ViewInv ==
    /\ seq \in [Channel -> Nat]
    /\ \A ch \in Channel : seq[ch] <= indexed[ch] /\ healed[ch] <= seq[ch]
    /\ shown \in [Channel -> SUBSET Nat]
    /\ \A ch \in Channel : shown[ch] \subseteq 1 .. indexed[ch]
    /\ refetch \in [stage : {"idle", "requested", "answered"}, channels : SUBSET Channel,
                    snapshot : [Channel -> Nat]]
    /\ \A ch \in Channel : refetch.snapshot[ch] <= indexed[ch]

Counters ==
    /\ indexed \in [Channel -> Nat] /\ DOMAIN seq = Channel
    /\ \A ch \in Channel : seq[ch] \in Nat /\ healed[ch] \in Nat

LEMMA CountersHold == GapInv => Counters
  BY DEF GapInv, Domains, ChannelInv, Counters

LEMMA ViewInit == Init => ViewInv
  BY DEF Init, ViewInv, Zero

(* REST serves one event more, numbered or not. *)
LEMMA ViewIncr ==
    ASSUME LiveInv, ViewInv, NEW ch \in Channel,
           IncrFails(ch) \/ \E type \in Types(ch) : Incr(ch, type)
    PROVE  ViewInv'
  <1>1. /\ indexed' = [indexed EXCEPT ![ch] = @ + 1]
        /\ seq' = seq \/ seq' = [seq EXCEPT ![ch] = @ + 1]
        /\ UNCHANGED <<shown, refetch, healed>>
    BY DEF IncrFails, Incr, viewVars
  <1>2. Counters
    BY CountersHold DEF LiveInv
  <1>3. ASSUME NEW c \in Channel
        PROVE  seq'[c] <= indexed'[c] /\ healed'[c] <= seq'[c] /\ indexed[c] <= indexed'[c]
               /\ indexed[c] \in Nat /\ indexed'[c] \in Nat
    <2>1. /\ seq[c] \in Nat /\ indexed[c] \in Nat /\ healed[c] \in Nat
          /\ seq[c] <= indexed[c] /\ healed[c] <= seq[c] /\ healed'[c] = healed[c]
      BY <1>1, <1>2 DEF Counters, ViewInv
    <2>2. /\ indexed'[c] = IF c = ch THEN indexed[c] + 1 ELSE indexed[c]
          /\ seq'[c] = seq[c] \/ seq'[c] = IF c = ch THEN seq[c] + 1 ELSE seq[c]
      BY <1>1, <1>2 DEF Counters
    <2> QED BY <2>1, <2>2
  <1>4. \A c \in Channel : shown'[c] \subseteq 1 .. indexed'[c]
    BY <1>1, <1>3 DEF ViewInv
  <1>5. \A c \in Channel : refetch'.snapshot[c] <= indexed'[c]
    BY <1>1, <1>3 DEF ViewInv
  <1>6. seq' \in [Channel -> Nat]
    BY <1>1 DEF ViewInv
  <1> QED BY <1>1, <1>3, <1>4, <1>5, <1>6 DEF ViewInv

(* Everything is invalidated, or nothing is. *)
LEMMA ViewHeal ==
    ASSUME LiveInv, ViewInv, UNCHANGED <<indexed, seq>>,
           \/ InvalidateAllLive
           \/ UNCHANGED <<refetch, healed>>,
           shown' \in [Channel -> SUBSET Nat],
           \A ch \in Channel : shown'[ch] \subseteq 1 .. indexed[ch]
    PROVE  ViewInv'
  <1>1. Counters
    BY CountersHold DEF LiveInv
  <1>2. CASE InvalidateAllLive
    <2>1. /\ refetch' = [stage |-> "requested", channels |-> handlers, snapshot |-> Zero]
          /\ healed' = seq
      BY <1>2 DEF InvalidateAllLive
    <2>2. Zero \in [Channel -> Nat] /\ handlers \in SUBSET Channel
      BY DEF Zero, LiveInv, SocketsInv
    <2>3. \A ch \in Channel : refetch'.snapshot[ch] <= indexed[ch]
      BY <1>1, <2>1 DEF Counters, Zero
    <2>4. refetch' \in [stage : {"idle", "requested", "answered"}, channels : SUBSET Channel,
                        snapshot : [Channel -> Nat]]
      BY <2>1, <2>2
    <2> QED BY <1>1, <2>1, <2>3, <2>4 DEF ViewInv, Counters
  <1>3. CASE UNCHANGED <<refetch, healed>>
    BY <1>3 DEF ViewInv
  <1> QED BY <1>2, <1>3

LEMMA ViewMessage ==
    ASSUME LiveInv, ViewInv, NEW s \in Sockets, HandleMessage(s)
    PROVE  ViewInv'
  <1> DEFINE q == sock[s].down
             m == Head(q)
             grown == [shown EXCEPT ![m.channel] = @ \cup {m.event}]
  <1>1. /\ q # <<>> /\ UNCHANGED <<indexed, seq>>
        /\ InvalidateAllLive \/ UNCHANGED <<refetch, healed>>
        /\ shown' \in {grown, shown}
    BY DEF HandleMessage, pubVars
  <1>2. q \in Seq(Message) /\ Flow(q, publishing, indexed)
    BY DEF LiveInv, SocketsInv, OrderInv, Wires, Records
  <1> HIDE DEF q
  <1>3. m \in Message /\ m.event <= indexed[m.channel]
    BY <1>1, <1>2, HeadFlows
  <1> HIDE DEF m
  <1>4. m.channel \in Channel /\ m.event \in Nat \ {0} /\ indexed[m.channel] \in Nat
    BY <1>3, CountersHold DEF Message, LiveInv, Counters
  <1>5. /\ shown' \in [Channel -> SUBSET Nat]
        /\ \A ch \in Channel : shown'[ch] \subseteq 1 .. indexed[ch]
    <2>1. /\ shown \in [Channel -> SUBSET Nat]
          /\ \A ch \in Channel : shown[ch] \subseteq 1 .. indexed[ch]
      BY DEF ViewInv
    <2>2. /\ grown \in [Channel -> SUBSET Nat]
          /\ \A ch \in Channel :
                grown[ch] = IF ch = m.channel THEN shown[ch] \cup {m.event} ELSE shown[ch]
      BY <1>4, <2>1
    <2>3. m.event \in 1 .. indexed[m.channel]
      BY <1>3, <1>4
    <2> HIDE DEF grown
    <2>4. \A ch \in Channel : grown[ch] \subseteq 1 .. indexed[ch]
      BY <2>1, <2>2, <2>3
    <2> QED BY <1>1, <2>1, <2>2, <2>4
  <1> QED BY <1>1, <1>5, ViewHeal

(* A page that mounts has just loaded all there is. *)
LEMMA ViewSubscribe ==
    ASSUME LiveInv, ViewInv, NEW ch \in Channel, Subscribe(ch)
    PROVE  ViewInv'
  <1>1. /\ shown' = [shown EXCEPT ![ch] = 1 .. indexed[ch]]
        /\ refetch' = [refetch EXCEPT !.channels = @ \ {ch}]
        /\ UNCHANGED <<indexed, seq, healed>>
    BY DEF Subscribe, pubVars
  <1>2. indexed[ch] \in Nat
    BY CountersHold DEF LiveInv, Counters
  <1>3. /\ shown' \in [Channel -> SUBSET Nat]
        /\ \A c \in Channel : shown'[c] \subseteq 1 .. indexed[c]
    BY <1>1, <1>2 DEF ViewInv
  <1>4. /\ refetch' \in [stage : {"idle", "requested", "answered"}, channels : SUBSET Channel,
                         snapshot : [Channel -> Nat]]
        /\ refetch'.snapshot = refetch.snapshot
    BY <1>1 DEF ViewInv
  <1> QED BY <1>1, <1>3, <1>4 DEF ViewInv

LEMMA ViewRefetch ==
    ASSUME LiveInv, ViewInv, RestReads \/ RestAnswers
    PROVE  ViewInv'
  <1>1. Counters
    BY CountersHold DEF LiveInv
  <1>2. CASE RestReads
    <2>1. /\ refetch' = [refetch EXCEPT !.stage = "answered", !.snapshot = indexed]
          /\ UNCHANGED <<indexed, seq, shown, healed>>
      BY <1>2 DEF RestReads, pubVars
    <2>2. /\ refetch' \in [stage : {"idle", "requested", "answered"}, channels : SUBSET Channel,
                           snapshot : [Channel -> Nat]]
          /\ refetch'.snapshot = indexed
      BY <1>1, <2>1 DEF ViewInv, Counters
    <2> QED BY <1>1, <2>1, <2>2 DEF ViewInv, Counters
  <1>3. CASE RestAnswers
    <2>1. /\ refetch' = [stage |-> "idle", channels |-> {}, snapshot |-> Zero]
          /\ shown' = [ch \in Channel |->
                          IF ch \in refetch.channels THEN 1 .. refetch.snapshot[ch] ELSE shown[ch]]
          /\ UNCHANGED <<indexed, seq, healed>>
      BY <1>3 DEF RestAnswers, pubVars
    <2>2. ASSUME NEW ch \in Channel PROVE shown'[ch] \subseteq 1 .. indexed[ch]
      <3>1. /\ refetch.snapshot[ch] \in Nat /\ refetch.snapshot[ch] <= indexed[ch]
            /\ indexed[ch] \in Nat
        BY <1>1 DEF ViewInv, Counters
      <3>2. shown'[ch] = 1 .. refetch.snapshot[ch] \/ shown'[ch] = shown[ch]
        BY <2>1
      <3> QED BY <3>1, <3>2 DEF ViewInv
    <2>3. \A ch \in Channel : shown'[ch] \in SUBSET Nat
      BY <2>2
    <2>4. shown' \in [Channel -> SUBSET Nat]
      BY <2>1, <2>3
    <2>5. /\ refetch' \in [stage : {"idle", "requested", "answered"}, channels : SUBSET Channel,
                           snapshot : [Channel -> Nat]]
          /\ \A ch \in Channel : refetch'.snapshot[ch] <= indexed[ch]
      BY <1>1, <2>1 DEF Zero, Counters
    <2> QED BY <2>1, <2>2, <2>4, <2>5 DEF ViewInv
  <1> QED BY <1>2, <1>3

LEMMA ViewStep ==
    ASSUME RealtimeAssumption, LiveInv, ViewInv, [Next]_vars
    PROVE  ViewInv'
  <1>1. CASE UNCHANGED <<indexed, seq, shown, refetch, healed>>
    BY <1>1 DEF ViewInv
  <1>2. ASSUME NEW ch \in Channel, IncrFails(ch) \/ \E type \in Types(ch) : Incr(ch, type)
        PROVE  ViewInv'
    BY <1>2, ViewIncr
  <1>3. ASSUME NEW s \in Sockets, HandleOpen(s) PROVE ViewInv'
    <2>1. /\ InvalidateAllLive \/ UNCHANGED <<refetch, healed>>
          /\ UNCHANGED <<indexed, seq, shown>>
      BY <1>3 DEF HandleOpen, pubVars
    <2> QED BY <2>1, ViewHeal DEF ViewInv
  <1>4. ASSUME NEW s \in Sockets, HandleMessage(s) PROVE ViewInv'
    BY <1>4, ViewMessage
  <1>5. ASSUME NEW ch \in Pages, Subscribe(ch) PROVE ViewInv'
    BY <1>5, ViewSubscribe DEF RealtimeAssumption
  <1>6. CASE RestReads \/ RestAnswers
    BY <1>6, ViewRefetch
  <1>7. \/ UNCHANGED <<indexed, seq, shown, refetch, healed>>
        \/ \E ch \in Channel : IncrFails(ch) \/ \E type \in Types(ch) : Incr(ch, type)
        \/ \E s \in Sockets : HandleOpen(s) \/ HandleMessage(s)
        \/ \E ch \in Pages : Subscribe(ch)
        \/ RestReads \/ RestAnswers
    BY DEF Next, vars, pubVars, viewVars, SubscribeSucceeds, SubscribeFails, Publish, PublishFails,
           HubRestart, Connect, Close, ReconnectTimer, HubReceives, Drop, HandleClose, Unsubscribe
  <1> QED BY <1>2, <1>1, <1>3, <1>4, <1>5, <1>6, <1>7

LEMMA TypesFollow == LiveInv /\ ViewInv => TypeOK
  <1> SUFFICES ASSUME LiveInv, ViewInv PROVE TypeOK
    OBVIOUS
  <1>1. seq \in [Channel -> Nat] /\ indexed \in [Channel -> Nat]
    BY DEF ViewInv, LiveInv, GapInv
  <1>2. ASSUME NEW ch \in Channel
        PROVE  /\ seq[ch] <= indexed[ch] /\ lastSeq[ch] <= seq[ch] /\ healed[ch] <= seq[ch]
               /\ received[ch] \subseteq 1 .. seq[ch] /\ shown[ch] \subseteq 1 .. indexed[ch]
    <2>1. ChannelInv(ch)
      BY DEF LiveInv, GapInv
    <2>2. lastSeq[ch] <= seq[ch]
      BY <2>1 DEF ChannelInv
    <2> QED BY <2>1, <2>2 DEF ViewInv, ChannelInv
  <1>3. ASSUME NEW s \in Sockets
        PROVE  /\ sock[s].state \in States /\ sock[s].up \in Seq(Frame)
               /\ sock[s].down \in Seq(Message) /\ sock[s].subs \subseteq Channel
               /\ sock[s].state # "open" => sock[s] = [Unused EXCEPT !.state = sock[s].state]
    <2>1. sock[s] \in Wires /\ sock[s] \in Records
      BY DEF LiveInv, SocketsInv, Wires
    <2>2. ASSUME sock[s].state # "open"
          PROVE  sock[s] = [Unused EXCEPT !.state = sock[s].state]
      <3> DEFINE st == sock[s].state
      <3> HIDE DEF st
      <3>1. [Unused EXCEPT !.state = st] = [state |-> st, up |-> <<>>, down |-> <<>>, subs |-> {}]
        BY DEF Unused
      <3>2. sock[s] = [state |-> st, up |-> <<>>, down |-> <<>>, subs |-> {}]
        BY <2>1, <2>2 DEF Wires, Records, Bare, st
      <3> QED BY <3>1, <3>2 DEF st
    <2> QED BY <2>1, <2>2 DEF Records
  <1>4. /\ publishing \in Seq(Message) /\ handlers \subseteq Channel
        /\ watermark \in 0 .. indexed[GLOBAL_CONFIRMATIONS]
    BY DEF LiveInv, GapInv, Numbered, SocketsInv, OrderInv
  <1>5. /\ refetch.stage \in {"idle", "requested", "answered"}
        /\ refetch.channels \subseteq Channel
    BY DEF ViewInv
  <1>6. {mounted, handleArmed, connectedOnce, twoOpen} \subseteq BOOLEAN
    BY DEF LiveInv, ControlInv
  <1> QED BY <1>1, <1>2, <1>3, <1>4, <1>5, <1>6 DEF TypeOK, LiveInv, ControlInv, States

(* Every variable of the publisher, the hub and the client holds a value   *)
(* the code could hold, and no count runs ahead of what it counts.         *)
THEOREM RealtimeTypes == Spec => []TypeOK
  <1>1. LiveInv /\ ViewInv /\ [Next]_vars => ViewInv'
    BY RealtimeAssumption, ViewStep
  <1> QED BY <1>1, ViewInit, LiveInvariant, TypesFollow, PTL DEF Spec
=============================================================================
