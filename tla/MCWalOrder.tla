----------------------------- MODULE MCWalOrder -----------------------------
(* The instance of MCWal, with the history of module WalOrder.             *)
EXTENDS MCWal, WalOrder
=============================================================================
