--------------------------- MODULE MCNativeOrders ---------------------------
(* Small instances of NativeOrders for TLC: the orders are model values and   *)
(* interchangeable, so safety runs may permute them.                          *)
EXTENDS NativeOrders, TLC

CONSTANTS o1, o2

SymmetricOrders == Permutations(Orders)
=============================================================================
