-------------------------- MODULE MCDirectOrderBook --------------------------
(***************************************************************************)
(* Small instances of DirectOrderBook for TLC.                               *)
(***************************************************************************)
EXTENDS DirectOrderBook

Symmetry == Permutations(Users) \cup Permutations(OrderIds)

STP == {"None", "CancelTaker", "CancelMaker", "CancelBoth", "Skip"}

AllSymbols == {[stp |-> stp, spot |-> TRUE] : stp \in STP}
SelfTradeSymbols == {[stp |-> stp, spot |-> TRUE] : stp \in STP \ {"None"}}
PlainSymbol == {[stp |-> "None", spot |-> TRUE]}

\* Bound: behaviours are not continued once more than 3 lots rest in the book.
ThinBook == VolumeOf(DOMAIN direct.orders) <= 3

\* Bound: behaviours are not continued once more than 2 lots rest in the book.
FewLots == VolumeOf(DOMAIN direct.orders) <= 2

\* Two sound books with the same orders in the same sequence differ only in the keys
\* their slabs gave out, and the answers given so far say nothing about what follows.
\* (The comparison at the end makes TLC evaluate the whole state.)
Seen ==
  <<spec, Side("Ask"), Side("Bid"),
    IF AssertInvariants /\ LinksMatch /\ DepthIsBook THEN Empty ELSE direct,
    direct = direct>>
=============================================================================
