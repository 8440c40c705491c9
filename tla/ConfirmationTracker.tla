------------------------- MODULE ConfirmationTracker -------------------------
(***************************************************************************)
(* apps/indexer/src/confirmation.ts: a timer polls the chain's block tags, *)
(* advances the watermark row that every reader derives confirmation tiers *)
(* from, and broadcasts the advance.  A tick awaits the poll and the       *)
(* database write; it works on the in-memory state as it was when it       *)
(* started and hands its own back when it ends.  MaxTicks is how many      *)
(* ticks can be under way at once: setInterval does not wait for the last  *)
(* one, so it is 1 only if every tick ends within the polling interval.    *)
(*                                                                         *)
(* Blocks end at MaxBlock.  A write fails at most MaxSaveFaults times, the *)
(* process is restarted at most MaxRestarts times and the chain reorganises *)
(* its unposted head at most MaxReorgs times.                              *)
(***************************************************************************)
EXTENDS Integers

CONSTANTS MaxBlock, MaxTicks, MaxSaveFaults, MaxRestarts, MaxReorgs

ASSUME TrackerAssumption ==
    /\ MaxBlock \in Nat /\ MaxTicks \in Nat \ {0}
    /\ MaxSaveFaults \in Nat /\ MaxRestarts \in Nat /\ MaxReorgs \in Nat

VARIABLES
    chain,        \* the true tags
    state,        \* startConfirmationTracker's in-memory watermark
    ticks,        \* per slot, the tick under way
    persisted,    \* the confirmation_watermarks row
    broadcast,    \* the last global:confirmations message
    saveFaults, restarts, reorgs    \* what is left of the bounds

boundVars == <<saveFaults, restarts, reorgs>>
vars == <<chain, state, ticks, persisted, broadcast, boundVars>>

Slot == 1 .. MaxTicks

WatermarkState == [latest : 0 .. MaxBlock, safe : 0 .. MaxBlock, finalized : 0 .. MaxBlock]
Zero           == [latest |-> 0, safe |-> 0, finalized |-> 0]

(* A tick is off, fetching the tags, or saving `next`.  Only what it uses  *)
(* later is kept: `state` until the tags are there, then `next`.           *)
Off == [at |-> "off"]
Tick == {Off} \cup [at : {"fetch"}, state : WatermarkState]
              \cup [at : {"save"}, next : WatermarkState, advanced : BOOLEAN]

TypeOK ==
    /\ chain \in WatermarkState /\ state \in WatermarkState
    /\ persisted \in WatermarkState /\ broadcast \in WatermarkState
    /\ ticks \in [Slot -> Tick]
    /\ saveFaults \in 0 .. MaxSaveFaults /\ restarts \in 0 .. MaxRestarts
    /\ reorgs \in 0 .. MaxReorgs

Init ==
    /\ chain = Zero /\ state = Zero /\ persisted = Zero /\ broadcast = Zero
    /\ ticks = [t \in Slot |-> Off]
    /\ saveFaults = MaxSaveFaults /\ restarts = MaxRestarts /\ reorgs = MaxReorgs

-----------------------------------------------------------------------------
(* The chain: blocks are produced, posted (safe) and finalized.  Only      *)
(* blocks that are not posted yet can be reorganised away.                 *)
ChainAdvances ==
    /\ \/ chain.latest < MaxBlock /\ chain' = [chain EXCEPT !.latest = @ + 1]
       \/ chain.safe < chain.latest /\ chain' = [chain EXCEPT !.safe = @ + 1]
       \/ chain.finalized < chain.safe /\ chain' = [chain EXCEPT !.finalized = @ + 1]
    /\ UNCHANGED <<state, ticks, persisted, broadcast, boundVars>>

HeadReorgs ==
    /\ reorgs > 0 /\ chain.safe < chain.latest
    /\ reorgs' = reorgs - 1
    /\ chain' = [chain EXCEPT !.latest = @ - 1]
    /\ UNCHANGED <<state, ticks, persisted, broadcast, saveFaults, restarts>>

-----------------------------------------------------------------------------
Max2(a, b) == IF a >= b THEN a ELSE b

(* Mutation: the reading is taken as it is. *)
NextWatermarkAsObserved(current, observed) == observed

(* Mutation: the first orphaned block is kept in place of the head. *)
NextWatermarkFloor(current, observed) ==
    [ latest    |-> Max2(current.latest, observed.latest) + 1,
      safe      |-> Max2(current.safe, observed.safe),
      finalized |-> Max2(current.finalized, observed.finalized) ]

(* Mutation: the safe watermark follows the head. *)
NextWatermarkFromHead(current, observed) ==
    [ latest    |-> Max2(current.latest, observed.latest),
      safe      |-> Max2(current.safe, observed.latest),
      finalized |-> Max2(current.finalized, observed.finalized) ]

nextWatermark(current, observed) ==
    [ latest    |-> Max2(current.latest, observed.latest),
      safe      |-> Max2(current.safe, observed.safe),
      finalized |-> Max2(current.finalized, observed.finalized) ]

Advanced(current, next) == next.safe > current.safe \/ next.finalized > current.finalized

HeadRegressed(current, observed) == observed.latest < current.latest

StartTick(t) ==
    /\ ticks[t] = Off
    /\ ticks' = [ticks EXCEPT ![t] = [at |-> "fetch", state |-> state]]
    /\ UNCHANGED <<chain, state, persisted, broadcast, boundVars>>

(* The tags are three separate requests, each answered by a node that may  *)
(* be behind; an error or a missing tag ends the tick.                     *)
Observable ==
    [latest : 0 .. chain.latest, safe : 0 .. chain.safe, finalized : 0 .. chain.finalized]

Fetched(t) ==
    /\ ticks[t].at = "fetch"
    /\ \E observed \in Observable :
         LET current   == ticks[t].state
             regressed == HeadRegressed(current, observed)
             base      == IF regressed THEN [current EXCEPT !.latest = observed.latest]
                          ELSE current
             next      == nextWatermark(base, observed)
         IN  IF Advanced(base, next) \/ regressed
             THEN /\ ticks' = [ticks EXCEPT ![t] = [at |-> "save", next |-> next,
                                                    advanced |-> Advanced(base, next)]]
                  /\ UNCHANGED state
             ELSE /\ ticks' = [ticks EXCEPT ![t] = Off]
                  /\ state' = next
    /\ UNCHANGED <<chain, persisted, broadcast, boundVars>>

FetchFails(t) ==
    /\ ticks[t].at = "fetch"
    /\ ticks' = [ticks EXCEPT ![t] = Off]
    /\ state' = ticks[t].state
    /\ UNCHANGED <<chain, persisted, broadcast, boundVars>>

(* The row is overwritten, the advance is broadcast, the tick hands back   *)
(* its state.                                                              *)
Saved(t) ==
    /\ ticks[t].at = "save"
    /\ persisted' = ticks[t].next
    /\ broadcast' = IF ticks[t].advanced THEN ticks[t].next ELSE broadcast
    /\ state' = ticks[t].next
    /\ ticks' = [ticks EXCEPT ![t] = Off]
    /\ UNCHANGED <<chain, boundVars>>

(* The process ends after the row is written and before anyone is told; it *)
(* starts again with that row.                                             *)
SavedUntold(t) ==
    /\ ticks[t].at = "save" /\ restarts > 0
    /\ restarts' = restarts - 1
    /\ persisted' = ticks[t].next
    /\ state' = persisted'
    /\ ticks' = [u \in Slot |-> Off]
    /\ UNCHANGED <<chain, broadcast, saveFaults, reorgs>>

(* Mutation: clients are told although the row was not written. *)
SaveFailsBroadcast(t) ==
    /\ ticks[t].at = "save" /\ saveFaults > 0
    /\ saveFaults' = saveFaults - 1
    /\ broadcast' = IF ticks[t].advanced THEN ticks[t].next ELSE broadcast
    /\ state' = ticks[t].next
    /\ ticks' = [ticks EXCEPT ![t] = Off]
    /\ UNCHANGED <<chain, persisted, restarts, reorgs>>

(* A failed write is logged; the tick hands back the advanced state all    *)
(* the same.                                                               *)
SaveFails(t) ==
    /\ ticks[t].at = "save" /\ saveFaults > 0
    /\ saveFaults' = saveFaults - 1
    /\ state' = ticks[t].next
    /\ ticks' = [ticks EXCEPT ![t] = Off]
    /\ UNCHANGED <<chain, persisted, broadcast, restarts, reorgs>>

(* startConfirmationTracker in a new process: a write under way is lost.   *)
Restart ==
    /\ restarts > 0
    /\ restarts' = restarts - 1
    /\ state' = persisted
    /\ ticks' = [t \in Slot |-> Off]
    /\ UNCHANGED <<chain, persisted, broadcast, saveFaults, reorgs>>

Next ==
    \/ ChainAdvances \/ HeadReorgs \/ Restart
    \/ \E t \in Slot : \/ StartTick(t) \/ Fetched(t) \/ FetchFails(t)
                      \/ Saved(t) \/ SavedUntold(t) \/ SaveFails(t)

Spec == Init /\ [][Next]_vars

-----------------------------------------------------------------------------
(* Properties *)

(* stateForBlock: what a reader shows for a row of block b, as a rank:     *)
(* soft_confirmed, posted_to_l1, finalized.                                *)
stateForBlock(b, wm) == IF b <= wm.finalized THEN 2 ELSE IF b <= wm.safe THEN 1 ELSE 0

(* confirmation.ts 36-38: "a derived tier can never go backwards", neither *)
(* the one REST readers derive from the row nor the one clients derive     *)
(* from the last broadcast.                                                *)
TiersNeverGoBackwards ==
    [][\A b \in 0 .. MaxBlock :
          /\ stateForBlock(b, persisted') >= stateForBlock(b, persisted)
          /\ stateForBlock(b, broadcast') >= stateForBlock(b, broadcast)]_vars

(* No row is shown as posted or finalized before the chain says so,        *)
(* whatever the ticks interleave, lag or lose.                             *)
TiersAreTrue ==
    \A b \in 0 .. MaxBlock :
        /\ stateForBlock(b, persisted) <= stateForBlock(b, chain)
        /\ stateForBlock(b, broadcast) <= stateForBlock(b, chain)

(* A client that upgraded its rows on a broadcast never sees them in a     *)
(* lower tier when it fetches them again.                                  *)
BroadcastIsPersisted ==
    \A b \in 0 .. MaxBlock : stateForBlock(b, broadcast) <= stateForBlock(b, persisted)

=============================================================================
