----------------------------- MODULE MCPurchase -----------------------------
EXTENDS PurchaseProperties, TLC
Symmetric == Permutations(Requests)
=============================================================================
