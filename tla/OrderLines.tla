----------------------------- MODULE OrderLines -----------------------------
(* The units of a product in the lines of an order, which may list it more  *)
(* than once.                                                               *)
EXTENDS Integers, Sequences, Functions

UnitsPerLine(lines, p) ==
    [i \in 1 .. Len(lines) |-> IF lines[i].product = p THEN lines[i].quantity ELSE 0]

UnitsOfFirst(n, lines, p) == SumFunctionOnSet(UnitsPerLine(lines, p), 1 .. n)

Units(lines, p) == UnitsOfFirst(Len(lines), lines, p)
=============================================================================
