------------------------------ MODULE MCMpool ------------------------------
(* Two executors, chunks of twelve descriptors, blocks of small buffers of   *)
(* four.  Each scenario drives one layer of the pool: small buffers that     *)
(* move between the executors, normal buffers that are split and merged,     *)
(* buffers mapped one by one and huge page windows, and pinning.             *)
EXTENDS Mpool

S(by, kinds, sizes, windows, sdma, pinned, pins, n) ==
    [by |-> by, kinds |-> kinds, sizes |-> sizes, windows |-> windows,
     sdma |-> sdma, pinned |-> pinned, pins |-> pins, allocs |-> n]

MCScenarios ==
    {S({0}, {"ddr"}, {1}, {}, FALSE, TRUE, {}, 5),
     S({0, 1}, {"ddr"}, {1}, {}, FALSE, TRUE, {}, 3),
     S({0}, {"ddr"}, {3, 5}, {}, FALSE, TRUE, {}, 4),
     S({0}, {"hbw", "ddr"}, {0, 2, 12}, {}, FALSE, TRUE, {}, 2),
     S({0, 1}, {"ddr"}, {3}, {2}, TRUE, TRUE, {1, 2}, 1),
     S({0}, {"ddr"}, {11}, {2}, TRUE, FALSE, {}, 3)}
MCMemBins == <<0, 3, 6, 12>>
MCFastBins == <<1, 1, 2>>
=============================================================================
