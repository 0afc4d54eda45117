----------------------------- MODULE SaveInPacks -----------------------------
(***************************************************************************)
(* The loop that saves many rows in packs, which the code has four times:  *)
(* a pack, then the rest when less than a pack of it is left.              *)
(***************************************************************************)
EXTENDS Integers

\* The pack of each copy.
ColorsPack == 100
UnitsPack == 100
ArrivalPack == 500
StyleArrivalPack == 500

AtMost(a, b) == IF a < b THEN a ELSE b

\* slice(from, pack + from) of n rows, numbered from 1.
Slice(from, pack, n) == from + 1 .. AtMost(from + pack, n)

\* Mutant: the rest is saved without looking at what is left of it.
SavedRest(n, pack) ==
  LET From[i \in 0 .. n + pack] ==
        Slice(i, pack, n) \cup Slice(i + pack, pack, n)
          \cup IF n > 2 * pack + i THEN From[i + pack] ELSE {}
  IN From[0]

\* The rows saved of n.
Saved(n, pack) ==
  LET From[i \in 0 .. n + pack] ==
        LET next == i + pack IN
          Slice(i, pack, n)
            \cup (IF pack + next > n THEN Slice(next, pack, n) ELSE {})
            \cup (IF n > pack + next THEN From[next] ELSE {})
  IN From[0]

\* The rows of the last pack, when they fill it and it is not the only one.
LastPack(n, pack) == IF n % pack = 0 /\ n > pack THEN n - pack + 1 .. n ELSE {}
=============================================================================
