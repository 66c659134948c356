---------------------------- MODULE MCLiveCandles ----------------------------
(* An instance of LiveCandles: two buckets of two minutes and one of four.   *)
EXTENDS LiveCandles

TwoAndFour == {2, 4}
AllListed == Minutes

\* Requests for the minutes of the second bucket, open, closed or neither.
SecondHalf == {<<3, LastMinute>>}

=============================================================================
