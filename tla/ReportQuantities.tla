--------------------------- MODULE ReportQuantities ---------------------------
(***************************************************************************)
(* What the reports say of the units of a delivery: which rows of a colour *)
(* they list, and the quantity in each.  The code splits the units by the  *)
(* size curve in four places, and chooses the rows in two.                 *)
(***************************************************************************)
EXTENDS Integers, Functions

\* The stores whose rows are chosen, by name, and the one sold as others are.
Stores == {"PARIS", "PARIS E-COMMERCE", "TIENDAS PROPIAS"}

\* The UT of a size curve.
UtOf(ratio) == SumFunction(ratio)

\* The rows a creation stores for a colour: one of each size, and the
\* assortment of all of them unless the style is sold by size.
SkuSizes(ratio, atc, single) ==
  {[at |-> i, size |-> IF single THEN "TU" ELSE "size", ratio |-> ratio[i]] :
     i \in DOMAIN ratio}
  \cup IF atc THEN {} ELSE {[at |-> 0, size |-> "SURT", ratio |-> UtOf(ratio)]}

\* (units / unitsPerInner) * ratio, in parts of the UT: the SKU report and the
\* sheet of the approval by SKU.
RowQuantity(units, row) == units * row.ratio

\* The sheet of the approval by style has the units of each delivery.
StyleQuantity(units, ratio) == units * UtOf(ratio)

\* The rows the SKU report keeps; solid: the packing method is one of the two
\* on hangers in solid colours.
SkuReportKeeps(store, atc, solid, row) ==
  /\ ~(store # "PARIS" /\ row.size = "SURT")
  /\ ~(store = "PARIS" /\ atc /\ row.size = "SURT")
  /\ ~(store = "PARIS" /\ ~atc /\ row.size \notin {"SURT", "TU"} /\ ~solid)
  /\ ~(store = "PARIS" /\ ~atc /\ row.size = "SURT" /\ solid)

\* The ATC of a row as the sheet has it: blank for the stores that have none,
\* and what JDA gave otherwise, null for a style it does not sell by size.
AtcId(store, fromJda) == IF store = "PARIS" THEN fromJda ELSE ""

\* Mutant: null is taken for blank.
BuyingKeepsNull(store, fromJda, solid, row) ==
  LET blank == AtcId(store, fromJda) \in {"", "null"} IN
  /\ ~(store # "PARIS" /\ row.size = "SURT")
  /\ ~(store = "PARIS" /\ ~blank /\ row.size = "SURT")
  /\ ~(store = "PARIS" /\ blank /\ row.size \notin {"SURT", "TU"} /\ ~solid)
  /\ ~(store = "PARIS" /\ blank /\ row.size = "SURT" /\ solid)

\* The rows the sheet of the approval by SKU keeps.
BuyingKeeps(store, fromJda, solid, row) ==
  LET blank == AtcId(store, fromJda) = "" IN
  /\ ~(store # "PARIS" /\ row.size = "SURT")
  /\ ~(store = "PARIS" /\ ~blank /\ row.size = "SURT")
  /\ ~(store = "PARIS" /\ blank /\ row.size \notin {"SURT", "TU"} /\ ~solid)
  /\ ~(store = "PARIS" /\ blank /\ row.size = "SURT" /\ solid)

\* The purchase order has every row of the colour, in parts of the UT.
PurchaseOrderQuantity(units, row) == units * row.ratio

\* Math.round(units * r / qtyXInner)
Rounded(a, b) == (2 * a + b) \div (2 * b)

\* Mutant: the sizes are rounded down.
ProformaSizeDown(units, ratio, i) == (units * ratio[i]) \div UtOf(ratio)

\* The proforma rounds the units of each size.
ProformaSize(units, ratio, i) == Rounded(units * ratio[i], UtOf(ratio))

\* And its order is the sum of them.
ProformaOrder(units, ratio) ==
  SumFunction([i \in DOMAIN ratio |-> ProformaSize(units, ratio, i)])

Total(units, rows) == SumFunction([row \in rows |-> RowQuantity(units, row)])
=============================================================================
