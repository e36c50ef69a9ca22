------------------------------ MODULE ItStock ------------------------------
(***************************************************************************)
(* The IT park: assets held in some quantity, attributed to beneficiaries  *)
(* and returned.  quantiteAttribuee is a counter beside the attributions;  *)
(* the stock is checked before the transaction that changes them.          *)
(***************************************************************************)
EXTENDS PurchaseNumbers, BudgetTable, Integers

CONSTANTS
    Assets,           \* ids
    Quantities,       \* what an asset can total and an attribution ask for
    MaxAttributions   \* bound: no attribution beyond this number

ASSUME ItStockAssumption == Assets \subseteq Origins /\ Quantities \subseteq Nat \ {0}

VARIABLES
    assets,           \* None until created
    attributions      \* in the order in which they were made

AssetRow == [quantiteTotal : Quantities, quantiteAttribuee : Int, archived : BOOLEAN]
ASSUME NoAssetAssumption == None \notin AssetRow

Attribution == [asset : Assets, quantity : Quantities, active : BOOLEAN]

StockType ==
    /\ assets \in [Assets -> AssetRow \cup {None}]
    /\ attributions \in Seq(Attribution)

ActiveOf(a) ==
    {i \in DOMAIN attributions : attributions[i].asset = a /\ attributions[i].active}

InStock(a) == assets[a] # None /\ ~assets[a].archived

StockCalled(r, endpoint) ==
    Free(r, endpoint) /\ UNCHANGED << assets, attributions, purchases, link >>

CreateAsset(r, a) ==
    /\ Free(r, "createAsset")
    /\ assets[a] = None
    /\ \E n \in Quantities :
        assets' = [assets EXCEPT ![a] =
            [quantiteTotal |-> n, quantiteAttribuee |-> 0, archived |-> FALSE]]
    /\ UNCHANGED << req, attributions, purchases, link >>

\* The new total is not compared with what is attributed.
UpdateAsset(r, a) ==
    /\ StockCalled(r, "updateAsset")
    /\ InStock(a)
    /\ \E n \in Quantities : Await(r, [do |-> "updateAsset", asset |-> a, total |-> n])

ArchiveAsset(r, a) ==
    /\ StockCalled(r, "archiveAsset")
    /\ InStock(a) /\ ActiveOf(a) = {}
    /\ Await(r, [do |-> "archiveAsset", asset |-> a])

Attribute(r, a) ==
    /\ StockCalled(r, "attribute")
    /\ Len(attributions) < MaxAttributions
    /\ InStock(a)
    /\ \E q \in Quantities :
        /\ q <= assets[a].quantiteTotal - assets[a].quantiteAttribuee
        /\ Await(r, [do |-> "attribute", asset |-> a, quantity |-> q])

\* Mutant of Return: an attribution can be returned twice.
ReturnAgain(r, a) ==
    /\ StockCalled(r, "return")
    /\ \E i \in {k \in DOMAIN attributions : attributions[k].asset = a} :
        Await(r, [do |-> "return", asset |-> a, attribution |-> i])

Return(r, a) ==
    /\ StockCalled(r, "return")
    /\ \E i \in ActiveOf(a) : Await(r, [do |-> "return", asset |-> a, attribution |-> i])

\* The writes, each of them a transaction.
WriteStock(r) ==
    LET w == req[r]
    IN  /\ \/ /\ w.do = "updateAsset"
              /\ assets' = [assets EXCEPT ![w.asset].quantiteTotal = w.total]
              /\ UNCHANGED attributions
           \/ /\ w.do = "archiveAsset"
              /\ assets' = [assets EXCEPT ![w.asset].archived = TRUE]
              /\ UNCHANGED attributions
           \/ /\ w.do = "attribute"
              /\ attributions' = Append(attributions,
                    [asset |-> w.asset, quantity |-> w.quantity, active |-> TRUE])
              /\ assets' = [assets EXCEPT ![w.asset].quantiteAttribuee = @ + w.quantity]
           \/ /\ w.do = "return"
              /\ attributions' = [attributions EXCEPT ![w.attribution].active = FALSE]
              /\ assets' = [assets EXCEPT ![w.asset].quantiteAttribuee =
                                @ - attributions[w.attribution].quantity]
        /\ Done(r)
        /\ UNCHANGED << purchases, link >>

TriggerForAsset(r, a) ==
    /\ Free(r, "triggerDA")
    /\ InStock(a)
    /\ \E code \in Codes : HasProject(code)
    /\ CheckLink(r, a)
    /\ UNCHANGED << assets, attributions >>

-----------------------------------------------------------------------------
StockInit == assets = [a \in Assets |-> None] /\ attributions = << >>

StockNext(r) ==
    \/ \E a \in Assets \cap scene.rows :
        \/ CreateAsset(r, a) \/ UpdateAsset(r, a) \/ ArchiveAsset(r, a)
        \/ Attribute(r, a) \/ Return(r, a) \/ TriggerForAsset(r, a)
    \/ WriteStock(r)

=============================================================================
