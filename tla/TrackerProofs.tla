--------------------------- MODULE TrackerProofs ----------------------------
(***************************************************************************)
(* ConfirmationTracker, for any number of blocks, faults, restarts and     *)
(* reorganisations.  However many ticks overlap, every value is well typed *)
(* and no reader sees a tier the chain does not support.  If ticks do not  *)
(* overlap, tiers never go backwards.                                      *)
(***************************************************************************)
EXTENDS ConfirmationTracker, TLAPS

(* a promises no more than b. *)
Below(a, b) == a.safe <= b.safe /\ a.finalized <= b.finalized

LEMMA BelowMeansTiersBelow ==
    ASSUME NEW a \in WatermarkState, NEW b \in WatermarkState, Below(a, b),
           NEW block \in 0 .. MaxBlock
    PROVE  stateForBlock(block, a) <= stateForBlock(block, b)
  <1>1. /\ a.safe \in Int /\ a.finalized \in Int /\ b.safe \in Int /\ b.finalized \in Int
        /\ block \in Int
    BY TrackerAssumption DEF WatermarkState
  <1> QED BY <1>1 DEF stateForBlock, Below

LEMMA BelowTransitive ==
    ASSUME NEW a \in WatermarkState, NEW b \in WatermarkState, NEW c \in WatermarkState,
           Below(a, b), Below(b, c)
    PROVE  Below(a, c)
  BY TrackerAssumption DEF WatermarkState, Below

(* nextWatermark lies above both of its arguments and below whatever they  *)
(* lie below.                                                              *)
LEMMA NextWatermarkIsJoin ==
    ASSUME NEW a \in WatermarkState, NEW b \in WatermarkState
    PROVE  /\ nextWatermark(a, b) \in WatermarkState
           /\ Below(a, nextWatermark(a, b))
           /\ \A c \in WatermarkState :
                 Below(a, c) /\ Below(b, c) => Below(nextWatermark(a, b), c)
  <1>1. nextWatermark(a, b) \in WatermarkState
    BY TrackerAssumption DEF WatermarkState, nextWatermark, Max2
  <1>2. Below(a, nextWatermark(a, b))
    BY TrackerAssumption DEF WatermarkState, nextWatermark, Max2, Below
  <1>3. ASSUME NEW c \in WatermarkState, Below(a, c), Below(b, c)
        PROVE  Below(nextWatermark(a, b), c)
    BY <1>3, TrackerAssumption DEF WatermarkState, nextWatermark, Max2, Below
  <1> QED BY <1>1, <1>2, <1>3

-----------------------------------------------------------------------------
(* Every watermark there is - in memory, in a tick, in the row, broadcast  *)
(* - is typed and below the chain's tags.                                  *)
Good(wm) == wm \in WatermarkState /\ Below(wm, chain)

GoodTick(k) ==
    \/ k = Off
    \/ k.at = "fetch" /\ Good(k.state)
    \/ k.at = "save" /\ Good(k.next)

TrueInv ==
    /\ chain \in WatermarkState
    /\ Good(state) /\ Good(persisted) /\ Good(broadcast)
    /\ \A t \in Slot : GoodTick(ticks[t])
    /\ DOMAIN ticks = Slot /\ ticks = [t \in Slot |-> ticks[t]]

(* The chain's safe and finalized tags only grow. *)
LEMMA ChainKeepsGood ==
    ASSUME chain \in WatermarkState, chain' \in WatermarkState, Below(chain, chain'),
           NEW wm, Good(wm)
    PROVE  wm \in WatermarkState /\ Below(wm, chain')
  BY BelowTransitive DEF Good

LEMMA TrueInit == Init => TrueInv
  BY TrackerAssumption DEF Init, TrueInv, Good, GoodTick, Below, Zero, WatermarkState, Off

LEMMA TrueChainStep ==
    ASSUME TrueInv, ChainAdvances \/ HeadReorgs
    PROVE  TrueInv'
  <1>1. chain' \in WatermarkState /\ Below(chain, chain')
    BY TrackerAssumption DEF TrueInv, ChainAdvances, HeadReorgs, WatermarkState, Below
  <1>2. UNCHANGED <<state, ticks, persisted, broadcast>>
    BY DEF ChainAdvances, HeadReorgs
  <1>3. \A wm : Good(wm) => Good(wm)'
    BY <1>1, ChainKeepsGood DEF TrueInv, Good
  <1>4. Good(state)' /\ Good(persisted)' /\ Good(broadcast)'
    BY <1>1, <1>2, ChainKeepsGood DEF TrueInv, Good
  <1>5. ASSUME NEW t \in Slot PROVE GoodTick(ticks[t])'
    BY <1>1, <1>2, ChainKeepsGood DEF TrueInv, GoodTick, Good
  <1> QED BY <1>1, <1>2, <1>4, <1>5 DEF TrueInv

(* One slot changes, to a good tick, while the chain stands still. *)
LEMMA TrueSlotStep ==
    ASSUME TrueInv, UNCHANGED chain, NEW t \in Slot, NEW k, GoodTick(k),
           ticks' = [ticks EXCEPT ![t] = k],
           Good(state'), Good(persisted'), Good(broadcast')
    PROVE  TrueInv'
  <1>1. \A u \in Slot : GoodTick(ticks'[u])
    BY DEF TrueInv
  <1>2. DOMAIN ticks' = Slot /\ ticks' = [u \in Slot |-> ticks'[u]]
    BY DEF TrueInv
  <1>3. \A u \in Slot : GoodTick(ticks[u])'
    BY <1>1 DEF GoodTick, Good
  <1>4. Good(state)' /\ Good(persisted)' /\ Good(broadcast)'
    BY DEF Good
  <1> QED BY <1>2, <1>3, <1>4 DEF TrueInv

LEMMA TrueTickStep ==
    ASSUME TrueInv, NEW t \in Slot,
           StartTick(t) \/ Fetched(t) \/ FetchFails(t) \/ Saved(t) \/ SaveFails(t)
    PROVE  TrueInv'
  <1>0. /\ chain \in WatermarkState /\ GoodTick(ticks[t])
        /\ Good(state) /\ Good(persisted) /\ Good(broadcast)
    BY DEF TrueInv
  <1>1. CASE StartTick(t)
    <2>1. GoodTick([at |-> "fetch", state |-> state])
      BY <1>0 DEF GoodTick
    <2> QED BY <1>0, <1>1, <2>1, TrueSlotStep DEF StartTick
  <1>2. CASE Fetched(t)
    <2>1. PICK observed \in Observable :
            LET current   == ticks[t].state
                regressed == HeadRegressed(current, observed)
                base      == IF regressed THEN [current EXCEPT !.latest = observed.latest]
                             ELSE current
                next      == nextWatermark(base, observed)
            IN  IF Advanced(base, next) \/ regressed
                THEN /\ ticks' = [ticks EXCEPT ![t] = [at |-> "save", next |-> next,
                                                       advanced |-> Advanced(base, next)]]
                     /\ UNCHANGED state
                ELSE /\ ticks' = [ticks EXCEPT ![t] = Off]
                     /\ state' = next
      BY <1>2 DEF Fetched
    <2> DEFINE current   == ticks[t].state
               regressed == HeadRegressed(current, observed)
               base      == IF regressed THEN [current EXCEPT !.latest = observed.latest]
                            ELSE current
               next      == nextWatermark(base, observed)
    <2>2. Good(current)
      BY <1>0, <1>2 DEF GoodTick, Fetched, Off
    <2>3. observed \in WatermarkState /\ Below(observed, chain)
      BY <1>0, TrackerAssumption DEF Observable, WatermarkState, Below
    <2>4. base \in WatermarkState /\ Below(base, chain)
      BY <2>2, <2>3 DEF Good, WatermarkState, Below
    <2> HIDE DEF base
    <2>5. Good(next)
      BY <1>0, <2>3, <2>4, NextWatermarkIsJoin DEF Good
    <2> HIDE DEF next
    <2>6. UNCHANGED <<chain, persisted, broadcast>>
      BY <1>2 DEF Fetched
    <2>7. CASE Advanced(base, next) \/ regressed
      <3>1. GoodTick([at |-> "save", next |-> next, advanced |-> Advanced(base, next)])
        BY <2>5 DEF GoodTick
      <3> QED BY <1>0, <2>1, <2>6, <2>7, <3>1, TrueSlotStep DEF base, next
    <2>8. CASE ~(Advanced(base, next) \/ regressed)
      <3>1. GoodTick(Off)
        BY DEF GoodTick
      <3> QED BY <1>0, <2>1, <2>5, <2>6, <2>8, <3>1, TrueSlotStep DEF base, next
    <2> QED BY <2>7, <2>8
  <1>3. CASE FetchFails(t)
    <2>1. Good(ticks[t].state) /\ GoodTick(Off)
      BY <1>0, <1>3 DEF GoodTick, FetchFails, Off
    <2> QED BY <1>0, <1>3, <2>1, TrueSlotStep DEF FetchFails
  <1>4. CASE Saved(t) \/ SaveFails(t)
    <2>1. Good(ticks[t].next) /\ GoodTick(Off)
      BY <1>0, <1>4 DEF GoodTick, Saved, SaveFails, Off
    <2>2. /\ UNCHANGED chain /\ ticks' = [ticks EXCEPT ![t] = Off]
          /\ Good(state') /\ Good(persisted') /\ Good(broadcast')
      BY <1>0, <1>4, <2>1 DEF Saved, SaveFails
    <2> QED BY <2>1, <2>2, TrueSlotStep
  <1> QED BY <1>1, <1>2, <1>3, <1>4

(* A new process starts, from the row as it was or as it has become.       *)
LEMMA TrueRestart ==
    ASSUME TrueInv, Restart \/ \E t \in Slot : SavedUntold(t)
    PROVE  TrueInv'
  <1>1. Good(state') /\ Good(persisted') /\ Good(broadcast') /\ UNCHANGED chain
    <2>1. CASE Restart
      BY <2>1 DEF TrueInv, Restart
    <2>2. CASE \E t \in Slot : SavedUntold(t)
      <3>1. PICK t \in Slot : SavedUntold(t)
        BY <2>2
      <3>2. Good(ticks[t].next)
        BY <3>1 DEF TrueInv, GoodTick, SavedUntold, Off
      <3> QED BY <3>1, <3>2 DEF TrueInv, SavedUntold
    <2> QED BY <2>1, <2>2
  <1>2. ticks' = [t \in Slot |-> Off]
    BY DEF Restart, SavedUntold
  <1>3. \A t \in Slot : ticks'[t] = Off
    BY <1>2
  <1>4. (\A t \in Slot : GoodTick(ticks[t]))'
    BY <1>3 DEF GoodTick
  <1> QED BY <1>1, <1>2, <1>4 DEF TrueInv, Good

LEMMA TrueInvariant == Spec => []TrueInv
  <1>1. Init => TrueInv
    BY TrueInit
  <1>2. TrueInv /\ [Next]_vars => TrueInv'
    <2> SUFFICES ASSUME TrueInv, [Next]_vars PROVE TrueInv'
      OBVIOUS
    <2>1. CASE ChainAdvances \/ HeadReorgs
      BY <2>1, TrueChainStep
    <2>2. CASE Restart \/ \E t \in Slot : SavedUntold(t)
      BY <2>2, TrueRestart
    <2>3. CASE \E t \in Slot :
                  StartTick(t) \/ Fetched(t) \/ FetchFails(t) \/ Saved(t) \/ SaveFails(t)
      BY <2>3, TrueTickStep
    <2>4. CASE UNCHANGED vars
      BY <2>4 DEF vars, TrueInv, Good, GoodTick
    <2> QED BY <2>1, <2>2, <2>3, <2>4 DEF Next
  <1> QED BY <1>1, <1>2, PTL DEF Spec

(* However many ticks overlap, whatever they lose, and whatever nodes lag: *)
(* a row is never shown in a tier the chain has not reached.               *)
THEOREM TiersAlwaysTrue == Spec => []TiersAreTrue
  <1>1. TrueInv => TiersAreTrue
    BY BelowMeansTiersBelow DEF TrueInv, Good, TiersAreTrue
  <1> QED BY <1>1, TrueInvariant, PTL

-----------------------------------------------------------------------------
(* The types.  What a tick carries is typed by TrueInv; its shape is not.  *)
Shaped(k) ==
    \/ k = Off
    \/ k = [at |-> "fetch", state |-> k.state]
    \/ k = [at |-> "save", next |-> k.next, advanced |-> k.advanced] /\ k.advanced \in BOOLEAN

LEMMA ShapedTicks ==
    ASSUME NEW k, Shaped(k), GoodTick(k)
    PROVE  k \in Tick
  <1>1. CASE k = Off
    BY <1>1 DEF Tick
  <1>2. CASE k = [at |-> "fetch", state |-> k.state]
    <2>1. k.at = "fetch"
      BY <1>2
    <2>2. k.state \in WatermarkState
      BY <2>1 DEF GoodTick, Good, Off
    <2>3. k \in [at : {"fetch"}, state : WatermarkState]
      BY <1>2, <2>2
    <2> QED BY <2>3 DEF Tick
  <1>3. CASE k = [at |-> "save", next |-> k.next, advanced |-> k.advanced] /\ k.advanced \in BOOLEAN
    <2>1. k.at = "save"
      BY <1>3
    <2>2. k.next \in WatermarkState
      BY <2>1 DEF GoodTick, Good, Off
    <2>3. k \in [at : {"save"}, next : WatermarkState, advanced : BOOLEAN]
      BY <1>3, <2>2
    <2> QED BY <2>3 DEF Tick
  <1> QED BY <1>1, <1>2, <1>3 DEF Shaped

ShapeInv ==
    /\ \A t \in Slot : Shaped(ticks[t])
    /\ saveFaults \in 0 .. MaxSaveFaults /\ restarts \in 0 .. MaxRestarts
    /\ reorgs \in 0 .. MaxReorgs

LEMMA ShapeStep ==
    ASSUME TrueInv, ShapeInv, [Next]_vars
    PROVE  ShapeInv'
  <1>0. ticks = [t \in Slot |-> ticks[t]]
    BY DEF TrueInv
  <1>1. /\ saveFaults' \in 0 .. MaxSaveFaults /\ restarts' \in 0 .. MaxRestarts
        /\ reorgs' \in 0 .. MaxReorgs
    BY TrackerAssumption DEF ShapeInv, Next, vars, boundVars, ChainAdvances, HeadReorgs, Restart,
                             StartTick, Fetched, FetchFails, Saved, SavedUntold, SaveFails
  <1>2. \/ ticks' = ticks
        \/ ticks' = [t \in Slot |-> Off]
        \/ \E t \in Slot : \E k : Shaped(k) /\ ticks' = [ticks EXCEPT ![t] = k]
    <2>1. ASSUME NEW t \in Slot, StartTick(t)
          PROVE  \E k : Shaped(k) /\ ticks' = [ticks EXCEPT ![t] = k]
      BY <2>1 DEF StartTick, Shaped
    <2>2. ASSUME NEW t \in Slot, Fetched(t)
          PROVE  \E k : Shaped(k) /\ ticks' = [ticks EXCEPT ![t] = k]
      <3>1. \/ ticks' = [ticks EXCEPT ![t] = Off]
            \/ \E base, next :
                 ticks' = [ticks EXCEPT ![t] = [at |-> "save", next |-> next,
                                                advanced |-> Advanced(base, next)]]
        BY <2>2 DEF Fetched
      <3>2. \A base, next :
              Shaped([at |-> "save", next |-> next, advanced |-> Advanced(base, next)])
        BY DEF Shaped, Advanced
      <3>3. Shaped(Off)
        BY DEF Shaped
      <3> QED BY <3>1, <3>2, <3>3
    <2>3. ASSUME NEW t \in Slot, FetchFails(t) \/ Saved(t) \/ SaveFails(t)
          PROVE  \E k : Shaped(k) /\ ticks' = [ticks EXCEPT ![t] = k]
      BY <2>3 DEF FetchFails, Saved, SaveFails, Shaped
    <2>4. CASE ChainAdvances \/ HeadReorgs \/ UNCHANGED vars
      BY <2>4 DEF ChainAdvances, HeadReorgs, vars
    <2>5. CASE Restart \/ \E t \in Slot : SavedUntold(t)
      BY <2>5 DEF Restart, SavedUntold
    <2> QED BY <2>1, <2>2, <2>3, <2>4, <2>5 DEF Next
  <1>3. \A t \in Slot : Shaped(ticks'[t])
    <2>1. CASE ticks' = ticks
      BY <2>1 DEF ShapeInv
    <2>2. CASE ticks' = [t \in Slot |-> Off]
      BY <2>2 DEF Shaped
    <2>3. CASE \E t \in Slot : \E k : Shaped(k) /\ ticks' = [ticks EXCEPT ![t] = k]
      <3>0. PICK t \in Slot : \E k : Shaped(k) /\ ticks' = [ticks EXCEPT ![t] = k]
        BY <2>3
      <3>1. PICK k : Shaped(k) /\ ticks' = [ticks EXCEPT ![t] = k]
        BY <3>0
      <3>2. ASSUME NEW u \in Slot PROVE ticks'[u] = k \/ ticks'[u] = ticks[u]
        BY <1>0, <3>1
      <3> QED BY <3>1, <3>2 DEF ShapeInv
    <2> QED BY <1>2, <2>1, <2>2, <2>3
  <1>4. (\A t \in Slot : Shaped(ticks[t]))'
    BY <1>3 DEF Shaped
  <1> QED BY <1>1, <1>4 DEF ShapeInv

(* Every watermark and every tick is typed, however many ticks overlap.    *)
THEOREM TrackerTypes == Spec => []TypeOK
  <1>1. Init => ShapeInv
    BY TrackerAssumption DEF Init, ShapeInv, Shaped
  <1>2. TrueInv /\ ShapeInv /\ [Next]_vars => ShapeInv'
    BY ShapeStep
  <1>3. TrueInv /\ ShapeInv => TypeOK
    <2> SUFFICES ASSUME TrueInv, ShapeInv PROVE TypeOK
      OBVIOUS
    <2>1. \A t \in Slot : ticks[t] \in Tick
      BY ShapedTicks DEF TrueInv, ShapeInv
    <2>2. ticks \in [Slot -> Tick]
      BY <2>1 DEF TrueInv
    <2> QED BY <2>2 DEF TrueInv, ShapeInv, Good, TypeOK
  <1> QED BY <1>1, <1>2, <1>3, TrueInvariant, PTL DEF Spec

-----------------------------------------------------------------------------
(* With one tick at a time, whatever is going to be written - the state in *)
(* memory, the state a tick started from or its result - lies above the    *)
(* row, and the row above the last broadcast.                              *)
AboveRow(k) ==
    /\ k.at = "fetch" => Below(persisted, k.state)
    /\ k.at = "save"  => Below(persisted, k.next)

RowInv ==
    /\ Below(persisted, state) /\ Below(broadcast, persisted)
    /\ \A t \in Slot : AboveRow(ticks[t])

LEMMA RowInit == Init => RowInv
  BY DEF Init, RowInv, Below, Zero, AboveRow, Off

(* One slot is all there is.                                               *)
LEMMA RowStep ==
    ASSUME MaxTicks = 1, TrueInv, RowInv, [Next]_vars
    PROVE  RowInv' /\ Below(persisted, persisted') /\ Below(broadcast, broadcast')
  <1>0. /\ Slot = {1} /\ ticks = [t \in Slot |-> ticks[t]] /\ GoodTick(ticks[1])
        /\ AboveRow(ticks[1]) /\ Below(persisted, state) /\ Below(broadcast, persisted)
        /\ state \in WatermarkState /\ persisted \in WatermarkState
        /\ broadcast \in WatermarkState /\ chain \in WatermarkState
    BY DEF TrueInv, RowInv, Slot, Good
  <1>00. \A wm \in WatermarkState : Below(wm, wm)
    BY TrackerAssumption DEF WatermarkState, Below
  <1>1. CASE ChainAdvances \/ HeadReorgs \/ UNCHANGED vars
    BY <1>0, <1>00, <1>1 DEF ChainAdvances, HeadReorgs, vars, RowInv, AboveRow
  <1>2. CASE Restart
    BY <1>0, <1>00, <1>2 DEF Restart, RowInv, AboveRow, Off
  <1>3. CASE StartTick(1)
    <2>1. ticks'[1] = [at |-> "fetch", state |-> state]
      BY <1>0, <1>3 DEF StartTick
    <2>2. UNCHANGED <<state, persisted, broadcast>>
      BY <1>3 DEF StartTick
    <2> QED BY <1>0, <1>00, <2>1, <2>2 DEF RowInv, AboveRow
  <1>4. CASE Fetched(1)
    <2>1. PICK observed \in Observable :
            LET current   == ticks[1].state
                regressed == HeadRegressed(current, observed)
                base      == IF regressed THEN [current EXCEPT !.latest = observed.latest]
                             ELSE current
                next      == nextWatermark(base, observed)
            IN  IF Advanced(base, next) \/ regressed
                THEN /\ ticks' = [ticks EXCEPT ![1] = [at |-> "save", next |-> next,
                                                       advanced |-> Advanced(base, next)]]
                     /\ UNCHANGED state
                ELSE /\ ticks' = [ticks EXCEPT ![1] = Off]
                     /\ state' = next
      BY <1>4 DEF Fetched
    <2> DEFINE current   == ticks[1].state
               regressed == HeadRegressed(current, observed)
               base      == IF regressed THEN [current EXCEPT !.latest = observed.latest]
                            ELSE current
               next      == nextWatermark(base, observed)
    <2>2. current \in WatermarkState /\ Below(persisted, current)
      BY <1>0, <1>4 DEF GoodTick, Good, AboveRow, Fetched, Off
    <2>3. observed \in WatermarkState
      BY <1>0, TrackerAssumption DEF Observable, WatermarkState
    <2>4. base \in WatermarkState /\ Below(persisted, base)
      BY <2>2, <2>3 DEF WatermarkState, Below
    <2> HIDE DEF base
    <2>5. next \in WatermarkState /\ Below(persisted, next)
      BY <1>0, <2>3, <2>4, NextWatermarkIsJoin, BelowTransitive
    <2> HIDE DEF next
    <2>6. UNCHANGED <<persisted, broadcast>>
      BY <1>4 DEF Fetched
    <2>7. CASE Advanced(base, next) \/ regressed
      <3>1. ticks'[1] = [at |-> "save", next |-> next, advanced |-> Advanced(base, next)]
            /\ UNCHANGED state
        BY <1>0, <2>1, <2>7 DEF base, next
      <3> QED BY <1>0, <1>00, <2>5, <2>6, <3>1 DEF RowInv, AboveRow
    <2>8. CASE ~(Advanced(base, next) \/ regressed)
      <3>1. ticks'[1] = Off /\ state' = next
        BY <1>0, <2>1, <2>8 DEF base, next
      <3> QED BY <1>0, <1>00, <2>5, <2>6, <3>1 DEF RowInv, AboveRow, Off
    <2> QED BY <2>7, <2>8
  <1>5. CASE FetchFails(1)
    <2>1. ticks'[1] = Off /\ state' = ticks[1].state /\ UNCHANGED <<persisted, broadcast>>
      BY <1>0, <1>5 DEF FetchFails
    <2>2. Below(persisted, ticks[1].state)
      BY <1>0, <1>5 DEF FetchFails, AboveRow
    <2> QED BY <1>0, <1>00, <2>1, <2>2 DEF RowInv, AboveRow, Off
  <1>6. CASE Saved(1)
    <2>1. /\ ticks'[1] = Off /\ state' = ticks[1].next /\ persisted' = ticks[1].next
          /\ broadcast' = ticks[1].next \/ broadcast' = broadcast
      BY <1>0, <1>6 DEF Saved
    <2>2. ticks[1].next \in WatermarkState /\ Below(persisted, ticks[1].next)
      BY <1>0, <1>6 DEF Saved, AboveRow, GoodTick, Good, Off
    <2>3. Below(broadcast, ticks[1].next)
      BY <1>0, <2>2, BelowTransitive
    <2> QED BY <1>0, <1>00, <2>1, <2>2, <2>3 DEF RowInv, AboveRow, Off
  <1>7. CASE SaveFails(1)
    <2>1. ticks'[1] = Off /\ state' = ticks[1].next /\ UNCHANGED <<persisted, broadcast>>
      BY <1>0, <1>7 DEF SaveFails
    <2>2. Below(persisted, ticks[1].next)
      BY <1>0, <1>7 DEF SaveFails, AboveRow
    <2> QED BY <1>0, <1>00, <2>1, <2>2 DEF RowInv, AboveRow, Off
  <1>8. CASE SavedUntold(1)
    <2>1. /\ ticks'[1] = Off /\ state' = ticks[1].next /\ persisted' = ticks[1].next
          /\ broadcast' = broadcast
      BY <1>0, <1>8 DEF SavedUntold
    <2>2. ticks[1].next \in WatermarkState /\ Below(persisted, ticks[1].next)
      BY <1>0, <1>8 DEF SavedUntold, AboveRow, GoodTick, Good, Off
    <2>3. Below(broadcast, ticks[1].next)
      BY <1>0, <2>2, BelowTransitive
    <2> QED BY <1>0, <1>00, <2>1, <2>2, <2>3 DEF RowInv, AboveRow, Off
  <1> QED BY <1>0, <1>1, <1>2, <1>3, <1>4, <1>5, <1>6, <1>7, <1>8 DEF Next

(* If every tick ends before the next one starts, no reader ever sees a    *)
(* tier go backwards, failed writes, restarts, lagging nodes and           *)
(* reorganisations included.                                               *)
THEOREM TiersMonotone == MaxTicks = 1 => (Spec => TiersNeverGoBackwards)
  <1> SUFFICES ASSUME MaxTicks = 1 PROVE Spec => TiersNeverGoBackwards
    OBVIOUS
  <1>1. Init => RowInv
    BY RowInit
  <1>2. TrueInv /\ RowInv /\ [Next]_vars => RowInv'
    BY RowStep
  <1>3. TrueInv /\ TrueInv' /\ RowInv /\ [Next]_vars =>
          [\A b \in 0 .. MaxBlock :
              /\ stateForBlock(b, persisted') >= stateForBlock(b, persisted)
              /\ stateForBlock(b, broadcast') >= stateForBlock(b, broadcast)]_vars
    <2> SUFFICES ASSUME TrueInv, TrueInv', RowInv, [Next]_vars, NEW b \in 0 .. MaxBlock
                 PROVE  /\ stateForBlock(b, persisted') >= stateForBlock(b, persisted)
                        /\ stateForBlock(b, broadcast') >= stateForBlock(b, broadcast)
      OBVIOUS
    <2>1. Below(persisted, persisted') /\ Below(broadcast, broadcast')
      BY RowStep
    <2>2. /\ persisted \in WatermarkState /\ persisted' \in WatermarkState
          /\ broadcast \in WatermarkState /\ broadcast' \in WatermarkState
      BY DEF TrueInv, Good
    <2>3. /\ stateForBlock(b, persisted) <= stateForBlock(b, persisted')
          /\ stateForBlock(b, broadcast) <= stateForBlock(b, broadcast')
      BY <2>1, <2>2, BelowMeansTiersBelow
    <2> QED BY <2>3 DEF stateForBlock
  <1>4. Spec => []TrueInv
    BY TrueInvariant
  <1> QED BY <1>1, <1>2, <1>3, <1>4, PTL DEF Spec, TiersNeverGoBackwards

(* ... and clients that upgraded on a broadcast find it in the row.        *)
THEOREM BroadcastsPersisted == MaxTicks = 1 => (Spec => []BroadcastIsPersisted)
  <1> SUFFICES ASSUME MaxTicks = 1 PROVE Spec => []BroadcastIsPersisted
    OBVIOUS
  <1>1. Init => RowInv
    BY RowInit
  <1>2. TrueInv /\ RowInv /\ [Next]_vars => RowInv'
    BY RowStep
  <1>3. TrueInv /\ RowInv => BroadcastIsPersisted
    BY BelowMeansTiersBelow DEF TrueInv, RowInv, Good, BroadcastIsPersisted
  <1> QED BY <1>1, <1>2, <1>3, TrueInvariant, PTL DEF Spec
=============================================================================
