--------------------------- MODULE MCUnitRounding ---------------------------
(***************************************************************************)
(* The algorithms over bounded inputs, one state per number of units (or   *)
(* of rows) and size curve.                                                *)
(***************************************************************************)
EXTENDS UnitRounding, SaveInPacks, ReportQuantities, Sequences

CONSTANTS
  MaxRatio,   \* bound on the share of a size in a curve
  MaxSizes,   \* bound on the sizes of a curve
  MaxUnits    \* bound on the units, and on the rows to save

ASSUME CurvesAssumption == MaxUnits \in Nat

VARIABLES quantity, curve

CurvesInit ==
  /\ quantity = 0
  /\ curve \in UNION {[1 .. n -> 1 .. MaxRatio] : n \in 1 .. MaxSizes}
CurvesNext == quantity < MaxUnits /\ quantity' = quantity + 1 /\ UNCHANGED curve
CurvesSpec == CurvesInit /\ [][CurvesNext]_<<quantity, curve>>

CurveUt == UtOf(curve)

Distance(a, b) == IF a < b THEN b - a ELSE a - b
Multiples == {k * CurveUt : k \in 1 .. MaxUnits + 1}
RoundedQuantity == RoundUnits(quantity, CurveUt)
AdjustedQuantity == AdjustUnits(quantity, CurveUt)

\* No multiple of the UT, from one UT up, is nearer than the one the approval
\* rounds to, nor as near and greater: "se aproximan las unidades al multiplo
\* mas cercano de la UT ... por exceso" (purchase-style.service 243).  The other
\* copy of the rounding agrees on the deliveries adjustUTUnits reads, and the
\* approval leaves alone what was adjusted before it (355-359).
RoundedToNearest ==
  quantity # 0 =>
    /\ RoundedQuantity \in Multiples
    /\ \A m \in Multiples :
         \/ Distance(m, quantity) > Distance(RoundedQuantity, quantity)
         \/ Distance(m, quantity) = Distance(RoundedQuantity, quantity) /\ m <= RoundedQuantity
    /\ AdjustedQuantity = RoundedQuantity
    /\ RoundUnits(AdjustedQuantity, CurveUt) = AdjustedQuantity

\* Of those rows every one is saved, except that when they fill two packs or
\* more the last pack is not (purchase.service 806-819, 956-967, 1031-1043,
\* purchase-style.service 2754-2766).
PacksSaved == Saved(quantity, CurveUt) = (1 .. quantity) \ LastPack(quantity, CurveUt)

\* A style of one size is of a single size or not.
Single == IF Len(curve) = 1 THEN BOOLEAN ELSE {FALSE}

SkuReportRows(store, atc, solid, single) ==
  {row \in SkuSizes(curve, atc, single) : SkuReportKeeps(store, atc, solid, row)}
BuyingRows(store, fromJda, atc, solid, single) ==
  {row \in SkuSizes(curve, atc, single) : BuyingKeeps(store, fromJda, solid, row)}

\* The rows kept of a colour add up to the units of its delivery, once: the
\* assortment is never listed beside the sizes it is made of.  The sheet says
\* of the colour what the sheet by style says; the SKU report too, but for a
\* single size of Paris not sold by size (report.service 166-169,
\* purchaseBuyingReportSku.dto 229-232).
UnitsListedOnce ==
  \A store \in Stores, atc, solid \in BOOLEAN, single \in Single :
    LET listed == StyleQuantity(quantity, curve) IN
    /\ \/ single /\ store = "PARIS" /\ ~atc
       \/ Total(quantity, SkuReportRows(store, atc, solid, single)) = listed
    /\ \A fromJda \in {"ATC", "null"} :
         Total(quantity, BuyingRows(store, fromJda, atc, solid, single)) = listed

\* Of a style sold by size the three files list the same rows with the same
\* quantities; of another the purchase order has besides the assortment, and
\* so the units twice (report.service 1580-1582).
OrderAgrees ==
  \A store \in Stores, solid \in BOOLEAN, single \in Single, atc \in BOOLEAN :
    LET ordered == SkuSizes(curve, atc, single)
        total == SumFunction([row \in ordered |-> PurchaseOrderQuantity(quantity, row)])
    IN IF atc
       THEN /\ SkuReportRows(store, atc, solid, single) = ordered
            /\ BuyingRows(store, "ATC", atc, solid, single) = ordered
            /\ total = StyleQuantity(quantity, curve)
       ELSE total = 2 * StyleQuantity(quantity, curve)

\* The proforma orders the units of the delivery when they were rounded to
\* the UT, and otherwise misses them by less than half a unit for each size
\* (report.service 909-912).
ProformaOrders ==
  /\ ProformaOrder(RoundedQuantity, curve) = RoundedQuantity
  /\ 2 * Distance(ProformaOrder(quantity, curve), quantity) <= Len(curve)

\* The three files and the proforma agree on what is ordered of a colour.
OrdersAgree == OrderAgrees /\ ProformaOrders
=============================================================================
