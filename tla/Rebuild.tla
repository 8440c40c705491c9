-------------------------------- MODULE Rebuild --------------------------------
(***************************************************************************)
(* apps/indexer/scripts/rebuild.ts: the derived tables and counters, made  *)
(* again from the recorded trades and transfers.                           *)
(***************************************************************************)
EXTENDS Indexer

Replayed(t, row) ==
    IF row.event.kind = "Transfer"
    THEN LET b == Transferred([balance |-> t.balance, holders |-> t.holderCount], row.event)
         IN [t EXCEPT !.balance = b.balance, !.holderCount = b.holders]
    ELSE [t EXCEPT !.lastPrice = row.event.price, !.volume = @ + row.event.eth,
                   !.tradeCount = @ + 1,
                   !.basis[row.event.trader] = Basis(@, row.event),
                   !.candles = Upserted(@, row.id, row.event)]

(* The recorded events one after the other, in order of block and log. *)
RECURSIVE Replay(_, _)
Replay(t, rows) ==
    IF rows = {} THEN t
    ELSE LET row == CHOOSE x \in rows : \A y \in rows : PositionLte(x.id, y.id)
         IN Replay(Replayed(t, row), rows \ {row})

(* replay starts from nothing and writeBack replaces what it derived; the  *)
(* whole history lies in the 24 hours of the volume.                       *)
Rebuilt ==
    LET derived == Replay(NoRows, tables.trades \cup tables.transfers)
        counters == IF tables.created THEN derived ELSE tables
    IN [tables EXCEPT !.balance = derived.balance, !.basis = derived.basis,
                      !.candles = derived.candles,
                      !.lastPrice = counters.lastPrice, !.volume = counters.volume,
                      !.tradeCount = counters.tradeCount, !.holderCount = counters.holderCount]

(* rebuild.ts 10-12, indexer.md 488: between two blocks the rebuild writes *)
(* what the handlers have written already.                                 *)
RebuildIsIncremental == BetweenBlocks => Rebuilt = tables

=============================================================================
