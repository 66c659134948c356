---------------------------- MODULE MCGapRepair -----------------------------
(* Instances of GapRepair: what the exchange has candles of. *)
EXTENDS GapRepair

AllListed == {Minutes}

\* A scan of the first minutes and one of all.
TwoSpans == {<<1, LastMinute - 1>>, <<1, LastMinute>>}

=============================================================================
