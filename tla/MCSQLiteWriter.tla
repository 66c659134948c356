--------------------------- MODULE MCSQLiteWriter ---------------------------
(* A live candle, a batch of a backfill with the checkpoint that awaits it, *)
(* another batch as urgent as the first, and an aggregate rebuild.          *)
EXTENDS SQLiteWriter

CONSTANTS live, batch, checkpoint, batch2, rebuild

MCItems == {live, batch, checkpoint, batch2, rebuild}

MCPriority ==
    [i \in MCItems |-> CASE i = live -> 1
                         [] i = checkpoint -> 4
                         [] i \in {batch, batch2} -> 5
                         [] i = rebuild -> 6]

MCAwaits == [i \in MCItems |-> IF i = checkpoint THEN {batch} ELSE {}]

=============================================================================
