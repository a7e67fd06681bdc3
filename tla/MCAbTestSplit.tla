---------------------------- MODULE MCAbTestSplit ----------------------------
(* TLC instance of AbTestSplit: pages of two over up to five contacts, and two *)
(* variants whose weights may exceed 100.  40% of 5 comes out as 1, as 58% of  *)
(* 50 does as 28 in the code.                                                  *)
EXTENDS AbTestSplit

FiveContacts == 1 .. 5
SomeWeights == {20, 40, 70}
OneShort == {<<40, 5>>}
=============================================================================
