----------------------------- MODULE MCPinLock -----------------------------
(***************************************************************************)
(* PinLock on a small instance: two PINs and as many salts as two entries  *)
(* and the store can hold; one wrong PIN locks for a second, two for two.  *)
(***************************************************************************)
EXTENDS PinLock

CONSTANTS p, q

MCPins == {p, q}
MCOldPins == {p}
=============================================================================
