----------------------------- MODULE MCHwParams -----------------------------
(* Cards with every combination of some small limits, and four requests:    *)
(* one of less than a period, one that is no whole number of frames, one    *)
(* larger than any buffer, one that no list of period sizes has.            *)
EXTENDS HwParams
SmallCards ==
  [period_bytes_min : {1, 4}, period_bytes_max : {6, 16}, periods_min : {1, 2, 3},
   periods_max : {4, 7}, buffer_bytes_max : {17, 32}, dma_max : {24, 9999},
   buffer_size_max : {10, 9999}, period_sizes : {{}, {3, 5}}, whole : BOOLEAN]
SmallRequests == {[frame |-> 1, bytes |-> 4], [frame |-> 2, bytes |-> 9],
                  [frame |-> 3, bytes |-> 0], [frame |-> 2, bytes |-> 40]}
=============================================================================
