------------------------------ MODULE MCCalibration ------------------------------
(* Calibration and Commutation for TLC: a quarter of 1515 units, of which a *)
(* count is no multiple.  As in the code pi and 2 pi lie where every second *)
(* and every fourth number is a float, and three quarters of a turn is none.*)
EXTENDS Commutation

\* Bhaskara's sine, with a quarter of Quarter.
MCSine ==
  [x \in 0 .. Quarter |->
     LET y == 4 * x * (Pi - x) IN (4 * y) \div ((5 * Pi * Pi - y) \div 1000)]

MCTable == [n \in 0 .. Intervals |-> MCSine[(n * Quarter) \div Intervals]]
===============================================================================
