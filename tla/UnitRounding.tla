---------------------------- MODULE UnitRounding ----------------------------
(***************************************************************************)
(* The rounding of delivery units to the purchase unit (UT): the sum of    *)
(* the size curve of the style, at least 1.  The code has it twice, in the *)
(* approval and in adjustUTUnits.                                          *)
(***************************************************************************)
EXTENDS Integers

\* Mutant: the half of an odd UT is rounded down.
FactorUtFloor(ut) == IF ut = 1 THEN 1 ELSE ut \div 2

\* Math.ceil(ut / 2): the remainder from which units are rounded up.
FactorUt(ut) == (ut + 1) \div 2

NearestMultiple(u, ut) ==
  IF u % ut >= FactorUt(ut) THEN (u \div ut + 1) * ut ELSE (u \div ut) * ut

\* The approval: zero stays zero, less than one UT becomes one UT.
RoundUnits(u, ut) ==
  IF u # 0 /\ u < ut THEN ut
  ELSE IF u # 0 THEN NearestMultiple(u, ut)
  ELSE u

\* adjustUTUnits: its query leaves out the deliveries of zero units.
AdjustUnits(u, ut) == IF u < ut THEN ut ELSE NearestMultiple(u, ut)

IsMultiple(u, ut) == u % ut = 0
=============================================================================
