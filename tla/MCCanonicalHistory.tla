------------------------- MODULE MCCanonicalHistory -------------------------
(***************************************************************************)
(* Files for CanonicalHistory: a product that changes and changes back, an *)
(* identifier that moves to another product, a sale that is corrected at   *)
(* the same and at another instant, stock and prices in and out of order,  *)
(* and products named in opposite orders.                                  *)
(***************************************************************************)
EXTENDS CanonicalHistory, TLC

Product(code, brand, ean, value) ==
    [entity |-> "product", external |-> code, brand |-> brand, ean |-> ean, value |-> <<value>>]
Sale(code, at, lines) == [entity |-> "sale", external |-> code, at |-> at, lines |-> lines]
Stock(code, at) ==
    [entity |-> "stock", external |-> code, product |-> "A", at |-> at, value |-> at]
Price(code, at) ==
    [entity |-> "price", external |-> code, product |-> "A", at |-> at, value |-> at]
Purchase == [entity |-> "purchase", external |-> "O", supplier |-> "S",
             lines |-> (1 :> "A"), value |-> 1]
Supplier == [entity |-> "supplier", external |-> "S"]

MCSourceOf == [b \in Batches |-> "s1"]

\* The batches are interchangeable: each may hold any of the files.
MCSymmetry == Permutations(Batches)

\* Catalogues.
MCProducts == {
    <<Product("A", "x", "e", 1), Product("B", "y", "f", 1)>>,
    <<Product("B", "y", "g", 1), Product("A", "x", "f", 2)>> }

\* Movements, with the product they need.
MCMovements == {
    <<Product("A", "x", "e", 1), Supplier, Sale("S", 1, 1 :> "A"), Purchase>>,
    <<Product("A", "x", "e", 2), Sale("S", 2, 1 :> "A")>>,
    <<Sale("S", 2, 2 :> "A"), Purchase>>,
    <<Product("A", "x", "e", 1), Stock("M", 1), Price("X", 1)>>,
    <<Product("A", "x", "e", 1), Stock("M", 2), Price("X", 3)>>,
    <<Price("X", 1), Price("Y", 2)>> }

MCFiles == MCProducts \cup MCMovements
============================================================================
