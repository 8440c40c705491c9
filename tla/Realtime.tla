------------------------------ MODULE Realtime ------------------------------
(* Live updates, from the indexer to one browser: firePublish numbers each *)
(* event with a per-channel Redis INCR and then PUBLISHes it, the Bun hub  *)
(* relays a channel to the sockets that asked for it, and WsClient heals   *)
(* over REST when it reconnects or sees a gap in the numbers.              *)
(*                                                                         *)
(* Redis, the hub and a socket each deliver in order.  A PUBLISH and its   *)
(* relay into the sockets are one step: nothing can tell a slow relay from *)
(* a slow PUBLISH.  REST serves every event that was indexed.  Payloads    *)
(* are the event's number on its channel, which on the confirmations       *)
(* channel is the watermark: the tracker only broadcasts rising ones.      *)
EXTENDS Naturals, Sequences, FiniteSets

CONSTANTS
    Global,                        \* GLOBAL_CHANNELS, subscribed when the hub starts
    PerToken,                      \* token:* channels, subscribed on first interest
    GLOBAL_CONFIRMATIONS,
    MAX_SUBSCRIPTIONS_PER_SOCKET,
    Pages,                         \* channels the mounted components ask for
    MaxSockets,                    \* sockets the client may create
    MaxEvents, MaxBreaks, MaxFaults, MaxToggles,   \* bounds on each kind of occurrence
    MaxSpent                       \* and on all of them together

Channel == Global \cup PerToken
Sockets == 1 .. MaxSockets

ASSUME RealtimeAssumption ==
    /\ GLOBAL_CONFIRMATIONS \in Global
    /\ Pages \subseteq Channel
    /\ MAX_SUBSCRIPTIONS_PER_SOCKET \in Nat
    /\ {MaxSockets, MaxEvents, MaxBreaks, MaxFaults, MaxToggles, MaxSpent} \subseteq Nat

VARIABLES
    indexed,       \* events of a channel that REST serves
    seq,           \* the channel's INCR counter
    publishing,    \* numbered messages whose PUBLISH is still queued
    upstream,      \* the hub's Redis SUBSCRIBE of a channel
    sock,          \* the sockets, with their frames in flight and the hub's ws.data.subs
    cur,           \* this.socket, 0 for null
    mounted,       \* ~manuallyClosed, from connect() on
    timers,        \* reconnect timers armed
    handleArmed,   \* this.reconnectHandle is one of them
    connectedOnce, \* hasConnectedOnce
    handlers,      \* channels with at least one handler
    lastSeq,       \* 0 for undefined: INCR starts at 1
    watermark,     \* the client's confirmation watermark
    shown,         \* events a channel's queries display
    refetch,       \* the refetch that invalidateQueries started
    received,      \* history: numbers taken since lastSeq was last forgotten
    twoOpen,       \* history: two sockets have been open at once
    healed,        \* history: the counter when everything was last invalidated
    spent          \* how much of each bound is used

pubVars    == <<indexed, seq, publishing>>
openVars   == <<connectedOnce, twoOpen>>
socketVars == <<sock, cur, mounted, timers, handleArmed, openVars>>
seqVars    == <<lastSeq, watermark, received>>
viewVars   == <<shown, refetch, healed>>
vars == <<pubVars, upstream, socketVars, handlers, seqVars, viewVars, spent>>

Message == [channel : Channel, seq : Nat \ {0}, event : Nat \ {0},
            type : {"confirmations", "reorg", "trade"}]
Frame   == [op : {"sub", "unsub"}, channel : Channel]

Zero == [ch \in Channel |-> 0]
Unused == [state |-> "unused", up |-> <<>>, down |-> <<>>, subs |-> {}]

(* A break is followed by more steps than any other occurrence: it counts double. *)
Spend(bound) ==
    /\ spent' = [spent EXCEPT ![bound] = @ + 1]
    /\ spent'.events + 2 * spent'.breaks + spent'.faults + spent'.toggles <= MaxSpent

Init ==
    /\ indexed = Zero
    /\ seq = Zero
    /\ publishing = <<>>
    /\ upstream = [ch \in Channel |-> IF ch \in Global THEN "pending" ELSE "none"]
    /\ sock = [s \in Sockets |-> Unused]
    /\ cur = 0 /\ timers = 0
    /\ mounted = FALSE /\ handleArmed = FALSE /\ connectedOnce = FALSE /\ twoOpen = FALSE
    /\ handlers = {}
    /\ lastSeq = Zero
    /\ watermark = 0
    /\ received = [ch \in Channel |-> {}]
    /\ shown = [ch \in Channel |-> {}]
    /\ refetch = [stage |-> "idle", channels |-> {}, snapshot |-> Zero]
    /\ healed = seq
    /\ spent = [events |-> 0, breaks |-> 0, faults |-> 0, toggles |-> 0]

-----------------------------------------------------------------------------
(* The publisher *)

Types(ch) == IF ch = GLOBAL_CONFIRMATIONS THEN {"confirmations", "reorg"} ELSE {"trade"}

(* An event is stored, then firePublish's INCR answers. *)
Incr(ch, type) ==
    /\ spent.events < MaxEvents
    /\ Spend("events")
    /\ indexed' = [indexed EXCEPT ![ch] = @ + 1]
    /\ seq' = [seq EXCEPT ![ch] = @ + 1]
    /\ publishing' = Append(publishing,
           [channel |-> ch, seq |-> seq[ch] + 1, event |-> indexed[ch] + 1, type |-> type])
    /\ UNCHANGED <<upstream, socketVars, handlers, seqVars, viewVars>>

(* INCR throws: the event is indexed and never numbered. *)
IncrFails(ch) ==
    /\ spent.faults < MaxFaults
    /\ Spend("faults")
    /\ indexed' = [indexed EXCEPT ![ch] = @ + 1]
    /\ UNCHANGED <<seq, publishing, upstream, socketVars, handlers, seqVars, viewVars>>

(* A message reaches every socket the hub has on its topic, provided Redis *)
(* sends the channel to the hub.                                           *)
Relay(m) ==
    [s \in Sockets |->
        IF upstream[m.channel] = "subscribed" /\ m.channel \in sock[s].subs
        THEN [sock[s] EXCEPT !.down = Append(@, m)]
        ELSE sock[s]]

(* Mutation: the PUBLISHes of one connection overtake each other. *)
PublishNewest ==
    /\ publishing # <<>>
    /\ publishing' = SubSeq(publishing, 1, Len(publishing) - 1)
    /\ sock' = Relay(publishing[Len(publishing)])
    /\ UNCHANGED <<indexed, seq, upstream, cur, mounted, timers, handleArmed, openVars,
                   handlers, seqVars, viewVars, spent>>

Publish ==
    /\ publishing # <<>>
    /\ publishing' = Tail(publishing)
    /\ sock' = Relay(Head(publishing))
    /\ UNCHANGED <<indexed, seq, upstream, cur, mounted, timers, handleArmed, openVars,
                   handlers, seqVars, viewVars, spent>>

(* PUBLISH throws: the number is burnt. *)
PublishFails ==
    /\ publishing # <<>> /\ spent.faults < MaxFaults
    /\ Spend("faults")
    /\ publishing' = Tail(publishing)
    /\ UNCHANGED <<indexed, seq, upstream, socketVars, handlers, seqVars, viewVars>>

-----------------------------------------------------------------------------
(* The hub *)

EnsureSubscribed(ch) ==
    upstream' = IF upstream[ch] = "none" THEN [upstream EXCEPT ![ch] = "pending"] ELSE upstream

SubscribeSucceeds(ch) ==
    /\ upstream[ch] = "pending"
    /\ upstream' = [upstream EXCEPT ![ch] = "subscribed"]
    /\ UNCHANGED <<pubVars, socketVars, handlers, seqVars, viewVars, spent>>

(* The rejection is logged; `subscribed` keeps the channel. *)
SubscribeFails(ch) ==
    /\ upstream[ch] = "pending" /\ spent.faults < MaxFaults
    /\ Spend("faults")
    /\ upstream' = [upstream EXCEPT ![ch] = "failed"]
    /\ UNCHANGED <<pubVars, socketVars, handlers, seqVars, viewVars>>

(* onMessage: a control frame of a socket.  One sub too many is dropped. *)
HubReceives(s) ==
    /\ sock[s].state = "open" /\ sock[s].up # <<>>
    /\ LET f == Head(sock[s].up)
           taken == [sock[s] EXCEPT !.up = Tail(@)]
           subs == sock[s].subs
       IN  \/ /\ f.op = "sub"
              /\ f.channel \notin subs
              /\ Cardinality(subs) < MAX_SUBSCRIPTIONS_PER_SOCKET
              /\ sock' = [sock EXCEPT ![s] = [taken EXCEPT !.subs = @ \cup {f.channel}]]
              /\ EnsureSubscribed(f.channel)
           \/ /\ f.op = "sub"
              /\ f.channel \in subs \/ Cardinality(subs) >= MAX_SUBSCRIPTIONS_PER_SOCKET
              /\ sock' = [sock EXCEPT ![s] = taken]
              /\ UNCHANGED upstream
           \/ /\ f.op = "unsub"
              /\ sock' = [sock EXCEPT ![s] = [taken EXCEPT !.subs = @ \ {f.channel}]]
              /\ UNCHANGED upstream
    /\ UNCHANGED <<pubVars, cur, mounted, timers, handleArmed, openVars, handlers, seqVars,
                   viewVars, spent>>

(* Mutation: the hub keeps the membership. *)
BrokenKeepsSubs(k) ==
    IF k.state \in {"connecting", "open"} THEN [Unused EXCEPT !.state = "closing", !.subs = k.subs] ELSE k

(* What is left of a socket once its connection is gone: the hub forgets   *)
(* the membership, frames in flight are lost, onclose is still to come.    *)
Broken(k) ==
    IF k.state \in {"connecting", "open"} THEN [Unused EXCEPT !.state = "closing"] ELSE k

Drop(s) ==
    /\ sock[s].state \in {"connecting", "open"} /\ spent.breaks < MaxBreaks
    /\ Spend("breaks")
    /\ sock' = [sock EXCEPT ![s] = Broken(@)]
    /\ UNCHANGED <<pubVars, upstream, cur, mounted, timers, handleArmed, openVars, handlers,
                   seqVars, viewVars>>

(* The fanout process restarts: every connection breaks, and only the      *)
(* global channels are subscribed again.                                   *)
HubRestart ==
    /\ spent.breaks < MaxBreaks
    /\ Spend("breaks")
    /\ sock' = [s \in Sockets |-> Broken(sock[s])]
    /\ upstream' = [ch \in Channel |-> IF ch \in Global THEN "pending" ELSE "none"]
    /\ UNCHANGED <<pubVars, cur, mounted, timers, handleArmed, openVars, handlers, seqVars,
                   viewVars>>

-----------------------------------------------------------------------------
(* The client *)

(* invalidateAllLive: the queries of mounted pages refetch; a refetch      *)
(* under way is cancelled.                                                 *)
InvalidateAllLive ==
    /\ refetch' = [stage |-> "requested", channels |-> handlers, snapshot |-> Zero]
    /\ healed' = seq

(* sendOp on socket c: a frame for a socket that is not open is dropped. *)
Sent(socks, c, frames) ==
    IF c # 0 /\ socks[c].state = "open"
    THEN [socks EXCEPT ![c].up = @ \o frames]
    ELSE socks

OpOn(op, ch) == [op |-> op, channel |-> ch]

(* One sub frame per channel, in some order. *)
Subs(channels) ==
    LET Frames == {OpOn("sub", ch) : ch \in channels}
    IN  CHOOSE q \in [1 .. Cardinality(channels) -> Frames] : {q[i] : i \in DOMAIN q} = Frames

NextSocket == CHOOSE s \in Sockets :
                  sock[s].state = "unused" /\ \A t \in Sockets : t < s => sock[t].state # "unused"

OpenSocket ==
    /\ \E s \in Sockets : sock[s].state = "unused"
    /\ sock' = [sock EXCEPT ![NextSocket].state = "connecting"]
    /\ cur' = NextSocket

Connect ==
    /\ ~mounted
    /\ mounted' = TRUE
    /\ OpenSocket
    /\ UNCHANGED <<pubVars, upstream, timers, handleArmed, openVars, handlers, seqVars, viewVars,
                   spent>>

(* close(): its timer is cancelled and the socket is told to close.        *)
Close ==
    /\ mounted /\ spent.breaks < MaxBreaks
    /\ Spend("breaks")
    /\ mounted' = FALSE
    /\ timers' = IF handleArmed THEN timers - 1 ELSE timers
    /\ handleArmed' = FALSE
    /\ sock' = IF cur = 0 THEN sock ELSE [sock EXCEPT ![cur] = Broken(@)]
    /\ cur' = 0
    /\ UNCHANGED <<pubVars, upstream, openVars, handlers, seqVars, viewVars>>

(* The scheduled reconnect: the newest timer is the one close() can cancel. *)
ReconnectTimer ==
    /\ timers > 0
    /\ timers' = timers - 1
    /\ \/ handleArmed /\ handleArmed' = FALSE
       \/ (handleArmed => timers > 1) /\ UNCHANGED handleArmed
    /\ OpenSocket
    /\ UNCHANGED <<pubVars, upstream, mounted, openVars, handlers, seqVars, viewVars, spent>>

Wanted == handlers \cup {GLOBAL_CONFIRMATIONS}

SecondOpens(s) == twoOpen \/ \E t \in Sockets \ {s} : sock[t].state = "open"

(* Mutation: only the first connection subscribes. *)
HandleOpenOnce(s) ==
    /\ sock[s].state = "connecting"
    /\ LET opened == [sock EXCEPT ![s].state = "open"]
       IN  sock' = IF connectedOnce THEN opened ELSE Sent(opened, cur, Subs(Wanted))
    /\ connectedOnce' = TRUE /\ twoOpen' = SecondOpens(s)
    /\ IF connectedOnce
       THEN /\ InvalidateAllLive
            /\ lastSeq' = Zero
            /\ received' = [ch \in Channel |-> {}]
       ELSE UNCHANGED <<refetch, healed, lastSeq, received>>
    /\ UNCHANGED <<pubVars, upstream, cur, mounted, timers, handleArmed, handlers, watermark, shown, spent>>

(* handleOpen subscribes on this.socket, whichever socket opened. *)
HandleOpen(s) ==
    /\ sock[s].state = "connecting"
    /\ LET opened == [sock EXCEPT ![s].state = "open"]
       IN  sock' = Sent(opened, cur, Subs(Wanted))
    /\ connectedOnce' = TRUE /\ twoOpen' = SecondOpens(s)
    /\ IF connectedOnce
       THEN /\ InvalidateAllLive
            /\ lastSeq' = Zero
            /\ received' = [ch \in Channel |-> {}]
       ELSE UNCHANGED <<refetch, healed, lastSeq, received>>
    /\ UNCHANGED <<pubVars, upstream, cur, mounted, timers, handleArmed, handlers, watermark, shown, spent>>

(* handleClose nulls this.socket, whichever socket closed. *)
HandleClose(s) ==
    /\ sock[s].state = "closing"
    /\ sock' = [sock EXCEPT ![s].state = "gone"]
    /\ cur' = 0
    /\ timers' = IF mounted THEN timers + 1 ELSE timers
    /\ handleArmed' = (mounted \/ handleArmed)
    /\ UNCHANGED <<pubVars, upstream, mounted, openVars, handlers, seqVars, viewVars, spent>>

(* Mutation: a gap seen while a refetch is under way starts no new one. *)
NeedsHealUnlessFetching(m) ==
    \/ lastSeq[m.channel] # 0 /\ m.seq # lastSeq[m.channel] + 1 /\ refetch.stage = "idle"
    \/ m.type = "reorg"

NeedsHeal(m) ==
    \/ lastSeq[m.channel] # 0 /\ m.seq # lastSeq[m.channel] + 1
    \/ m.type = "reorg"

HandleMessage(s) ==
    /\ sock[s].state = "open" /\ sock[s].down # <<>>
    /\ LET m == Head(sock[s].down) ch == m.channel IN
       /\ lastSeq' = [lastSeq EXCEPT ![ch] = m.seq]
       /\ received' = [received EXCEPT ![ch] = @ \cup {m.seq}]
       /\ IF NeedsHeal(m) THEN InvalidateAllLive ELSE UNCHANGED <<refetch, healed>>
       /\ watermark' = IF m.type = "confirmations" THEN m.event ELSE watermark
       /\ shown' = IF ch \in handlers THEN [shown EXCEPT ![ch] = @ \cup {m.event}] ELSE shown
    /\ sock' = [sock EXCEPT ![s].down = Tail(@)]
    /\ UNCHANGED <<pubVars, upstream, cur, mounted, timers, handleArmed, openVars, handlers,
                   spent>>

(* A page's first handler on a channel: it has just loaded the data. *)
Subscribe(ch) ==
    /\ ch \notin handlers /\ spent.toggles < MaxToggles
    /\ Spend("toggles")
    /\ handlers' = handlers \cup {ch}
    /\ shown' = [shown EXCEPT ![ch] = 1 .. indexed[ch]]
    /\ refetch' = [refetch EXCEPT !.channels = @ \ {ch}]
    /\ sock' = Sent(sock, cur, <<OpOn("sub", ch)>>)
    /\ UNCHANGED <<pubVars, upstream, cur, mounted, timers, handleArmed, openVars, seqVars,
                   healed>>

(* The last handler of a channel goes. *)
Unsubscribe(ch) ==
    /\ ch \in handlers /\ spent.toggles < MaxToggles
    /\ Spend("toggles")
    /\ handlers' = handlers \ {ch}
    /\ sock' = Sent(sock, cur, <<OpOn("unsub", ch)>>)
    /\ lastSeq' = [lastSeq EXCEPT ![ch] = 0]
    /\ received' = [received EXCEPT ![ch] = {}]
    /\ UNCHANGED <<pubVars, upstream, cur, mounted, timers, handleArmed, openVars, watermark,
                   shown, refetch, healed>>

(* The refetch reads, and its answer replaces what the queries hold. *)
RestReads ==
    /\ refetch.stage = "requested"
    /\ refetch' = [refetch EXCEPT !.stage = "answered", !.snapshot = indexed]
    /\ UNCHANGED <<pubVars, upstream, socketVars, handlers, seqVars, shown, healed, spent>>

RestAnswers ==
    /\ refetch.stage = "answered"
    /\ refetch' = [stage |-> "idle", channels |-> {}, snapshot |-> Zero]
    /\ shown' = [ch \in Channel |->
                    IF ch \in refetch.channels THEN 1 .. refetch.snapshot[ch] ELSE shown[ch]]
    /\ UNCHANGED <<pubVars, upstream, socketVars, handlers, seqVars, healed, spent>>

-----------------------------------------------------------------------------
Next ==
    \/ \E ch \in Channel : \E type \in Types(ch) : Incr(ch, type)
    \/ \E ch \in Channel : IncrFails(ch) \/ SubscribeSucceeds(ch) \/ SubscribeFails(ch)
    \/ Publish \/ PublishFails
    \/ HubRestart
    \/ Connect \/ Close \/ ReconnectTimer
    \/ \E s \in Sockets :
          HubReceives(s) \/ Drop(s) \/ HandleOpen(s) \/ HandleClose(s) \/ HandleMessage(s)
    \/ \E ch \in Pages : Subscribe(ch) \/ Unsubscribe(ch)
    \/ RestReads \/ RestAnswers

(* Queued callbacks, timers and frames are handled, and a Redis command    *)
(* settles.  Nothing makes the network break, a page mount or an event     *)
(* arrive.                                                                 *)
Fairness ==
    /\ WF_vars(ReconnectTimer)
    /\ \A s \in Sockets : WF_vars(HubReceives(s)) /\ WF_vars(HandleOpen(s))
                          /\ WF_vars(HandleClose(s)) /\ WF_vars(HandleMessage(s))
    /\ \A ch \in Channel : WF_vars(SubscribeSucceeds(ch) \/ SubscribeFails(ch))
    /\ WF_vars(Publish) /\ WF_vars(RestReads) /\ WF_vars(RestAnswers)

Spec == Init /\ [][Next]_vars /\ Fairness

-----------------------------------------------------------------------------
(* Every variable holds a value the code could hold, and no message carries *)
(* a number the channel has not reached.                                    *)
TypeOK ==
    /\ indexed \in [Channel -> Nat] /\ seq \in [Channel -> Nat]
    /\ \A ch \in Channel : seq[ch] <= indexed[ch] /\ lastSeq[ch] <= seq[ch] /\ healed[ch] <= seq[ch]
    /\ publishing \in Seq(Message)
    /\ upstream \in [Channel -> {"none", "pending", "subscribed", "failed"}]
    /\ \A s \in Sockets :
          /\ sock[s].state \in {"unused", "connecting", "open", "closing", "gone"}
          /\ sock[s].up \in Seq(Frame) /\ sock[s].down \in Seq(Message)
          /\ sock[s].subs \subseteq Channel
          /\ sock[s].state # "open" => sock[s] = [Unused EXCEPT !.state = sock[s].state]
    /\ cur \in {0} \cup Sockets
    /\ {mounted, handleArmed, connectedOnce, twoOpen} \subseteq BOOLEAN
    /\ timers \in Nat /\ (handleArmed => timers > 0)
    /\ handlers \subseteq Channel
    /\ watermark \in 0 .. indexed[GLOBAL_CONFIRMATIONS]
    /\ \A ch \in Channel : received[ch] \subseteq 1 .. seq[ch] /\ shown[ch] \subseteq 1 .. indexed[ch]
    /\ refetch.stage \in {"idle", "requested", "answered"} /\ refetch.channels \subseteq Channel

(* A number the client never got, although it got one before it and one    *)
(* after it, is covered by a refetch asked for when that number existed:   *)
(* burnt numbers, dropped memberships and lost frames in the middle of a   *)
(* stream never pass unnoticed (ws-client.ts handleMessage).               *)
GapsAreHealed ==
    \A ch \in Channel : \A first, last \in received[ch] :
        \A n \in first .. last : n \in received[ch] \/ n <= healed[ch]

(* The confirmation tiers a browser shows only rise: no interleaving of    *)
(* drops, reconnects and late frames delivers an older watermark after a   *)
(* newer one (ws-client.ts handleMessage, indexer.md monotonic watermarks),*)
(* as long as the client never has the second socket that a close followed *)
(* by a connect can leave it with.                                         *)
WatermarkNeverGoesBack == [][~twoOpen' => watermark' >= watermark]_vars

(* However often connections break and pages come and go meanwhile, the    *)
(* hub ends up with exactly the channels the mounted pages want and the    *)
(* confirmations, on the socket the client holds.                          *)
MembershipConverges ==
    <>[]mounted => <>[](cur # 0 /\ sock[cur].state = "open" /\ sock[cur].subs = Wanted)
=============================================================================
