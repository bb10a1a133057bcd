---------------------------- MODULE MCLicensing ----------------------------
(* A small instance of Licensing: one license, more machines than it and   *)
(* the requests in flight together allow.                                  *)
EXTENDS Licensing, TLC

CONSTANTS order, m1, m2, m3, m4, r1, r2, d1, d2

MCOrders     == {order}
MCMachines   == {m1, m2, m3, m4}
MCRequests   == {r1, r2}
MCDeliveries == {d1, d2}

Alike == Permutations(MCMachines) \cup Permutations(MCRequests)
           \cup Permutations(MCDeliveries)
=============================================================================
