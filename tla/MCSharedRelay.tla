---------------------------- MODULE MCSharedRelay ----------------------------
(* Instances of SharedRelay for TLC.                                       *)
EXTENDS SharedRelay, TLC

CONSTANTS h1, h2, h3, r1, r2, r3, r4

\* One mutation of each Hub, and one more request of the first.
MCHubs == {h1, h2, h3}
MCRequests == {r1, r2, r3, r4}
MCHubOf == (r1 :> h1) @@ (r2 :> h2) @@ (r3 :> h3) @@ (r4 :> h1)

\* Faults of one kind may meet those of another of the same set.
MCScenarios ==
  {[kinds |-> {"hubCloses", "chromeCloses"}, faults |-> 2],
   [kinds |-> {"otherCloses", "silent"}, faults |-> 2],
   [kinds |-> {"overlap"}, faults |-> 1],
   [kinds |-> {"twoChromes", "silent"}, faults |-> 2],
   [kinds |-> {"impatient", "chromeCloses"}, faults |-> 1]}

\* A Hub that waits for nothing goes while another one holds the lease.
MCOtherCloses == {[kinds |-> {"otherCloses"}, faults |-> 1]}
=============================================================================
