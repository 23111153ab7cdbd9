------------------------------ MODULE Regions ------------------------------
(***************************************************************************)
(* The nine regions a hint can name: three bands of rows by three bands of *)
(* columns (strategy/regions.py, shared/inference.py).  Every caller uses  *)
(* the default origin.                                                     *)
(***************************************************************************)
EXTENDS Integers

CONSTANT BoardSize

Square == (0 .. BoardSize - 1) \X (0 .. BoardSize - 1)

\* In the alphabetical order in which ties are broken.
RegionNames == <<"center", "east", "north", "northeast", "northwest", "south",
                 "southeast", "southwest", "west">>
Region == { RegionNames[i] : i \in 1 .. 9 }
Precedes(r, s) ==
  \E i, j \in 1 .. 9 : i < j /\ RegionNames[i] = r /\ RegionNames[j] = s

\* index * 3 // size, at most 2.
Band(index) ==
  IF 3 * index < BoardSize THEN 0 ELSE IF 3 * index < 2 * BoardSize THEN 1 ELSE 2

Sector == [northwest |-> <<0, 0>>, north  |-> <<0, 1>>, northeast |-> <<0, 2>>,
           west      |-> <<1, 0>>, center |-> <<1, 1>>, east      |-> <<1, 2>>,
           southwest |-> <<2, 0>>, south  |-> <<2, 1>>, southeast |-> <<2, 2>>]

RegionOf(cell) ==
  CHOOSE r \in Region : Sector[r] = <<Band(cell[1]), Band(cell[2])>>

RegionCells(region) ==
  { c \in Square : Band(c[1]) = Sector[region][1] /\ Band(c[2]) = Sector[region][2] }

\* The cells of a region are a rectangle: the one nearest their mean, the first
\* of two, lies halfway along both sides.
Halfway(band) ==
  LET side == { i \in 0 .. BoardSize - 1 : Band(i) = band }
      low  == CHOOSE i \in side : \A k \in side : i <= k
      high == CHOOSE i \in side : \A k \in side : k <= i
  IN  (low + high) \div 2
RegionCenter(region) == << Halfway(Sector[region][1]), Halfway(Sector[region][2]) >>

Apart(i, j) == IF i < j THEN j - i ELSE i - j
RegionDistance(r, s) ==
  Apart(RegionCenter(r)[1], RegionCenter(s)[1]) + Apart(RegionCenter(r)[2], RegionCenter(s)[2])
=============================================================================
