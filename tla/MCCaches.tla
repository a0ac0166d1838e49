------------------------------ MODULE MCCaches ------------------------------
(* A data cache (write back) and a constant cache (write through).  In the *)
(* first program reads of a block meet in both caches; in the second they  *)
(* meet a write of it; in the others lines are evicted.                    *)
EXTENDS Caches
CONSTANTS data, constant, b1, b2
MCCaches == {data, constant}
MCBlocks == {b1, b2}
MCWriteBack == {data}

R(c, b) == [cache |-> c, type |-> "Cache_Read", block |-> b]
W(c, b) == [cache |-> c, type |-> "Cache_Write", block |-> b]
MCPrograms == {
  <<R(data, b1), R(data, b1), R(constant, b1)>>,
  <<R(data, b1), W(data, b1), R(constant, b1)>>,
  <<W(data, b1), R(data, b2), R(constant, b1)>>,
  <<R(constant, b1), W(constant, b1), R(constant, b2)>>,
  <<W(constant, b1), R(data, b1), W(data, b1)>>,
  <<R(data, b1), W(constant, b1), R(data, b2)>>,
  <<W(data, b1), W(data, b2), R(constant, b1)>>,
  <<R(constant, b1), R(constant, b2), W(data, b1)>>}
=============================================================================
