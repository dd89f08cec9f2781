---------------------------- MODULE MCCallManager ----------------------------
(* Model checking of CallManager: the peer's devices are interchangeable.  *)
EXTENDS CallManager, TLC

DeviceSymmetry == Permutations(Devices)
=============================================================================
