----------------------------- MODULE TokenMetrics -----------------------------
(***************************************************************************)
(* apps/indexer/src/tokenMetrics.ts: the coalescer that turns the trades   *)
(* of a token into at most one card update per interval.  The timer does   *)
(* not wait for a flush to end, so several can be reading at once.         *)
(*                                                                         *)
(* A sample is known by the position of its log; the coalescer sees the    *)
(* block only.                                                             *)
(***************************************************************************)
EXTENDS Integers, FiniteSets

CONSTANT MaxFlights      \* bound: flushes that read at the same time

VARIABLES
    armed,               \* the store is set and the publish gate is open
    pending,             \* the block of the pending sample, 0 if there is none
    flights,             \* flushes that wait for their read
    unserved             \* history: samples taken that no flush has ended with

metricsVars == <<armed, pending, flights, unserved>>

MetricsInit == armed = FALSE /\ pending = 0 /\ flights = {} /\ unserved = {}

(* The sidecar starts the coalescer and realtime indexing opens the gate. *)
Arm == ~armed /\ armed' = TRUE /\ UNCHANGED <<pending, flights, unserved>>

enqueue(position) ==
    /\ IF ~armed THEN UNCHANGED <<pending, unserved>>
       ELSE /\ pending' = IF position[1] >= pending THEN position[1] ELSE pending
            /\ unserved' = unserved \cup {position}
    /\ UNCHANGED <<armed, flights>>

Waiting == unserved \ UNION {f.serves : f \in flights}

(* The batch is taken before the read is sent. *)
flush ==
    /\ pending # 0 /\ Cardinality(flights) < MaxFlights
    /\ flights' = flights \cup {[sample |-> pending, serves |-> Waiting]}
    /\ pending' = 0
    /\ UNCHANGED <<armed, unserved>>

(* Mutation: the pending samples are cleared when a flush has ended. *)
FlushEndsAndClears(f) ==
    /\ flights' = flights \ {f} /\ unserved' = unserved \ f.serves
    /\ pending' = 0
    /\ UNCHANGED armed

(* The read answers and the sample is published, finds no row of the token *)
(* or fails: either way the batch is done with.                            *)
FlushEnds(f) ==
    /\ flights' = flights \ {f} /\ unserved' = unserved \ f.serves
    /\ UNCHANGED <<armed, pending>>

MetricsRestart == armed' = FALSE /\ pending' = 0 /\ flights' = {} /\ unserved' = {}

=============================================================================
