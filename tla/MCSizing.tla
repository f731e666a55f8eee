------------------------------- MODULE MCSizing -------------------------------
(***************************************************************************)
(* The sizing loop on a grid of arguments.  Money is in tenths of a dollar *)
(* so that the minimum fee of one dollar, and prices below a dollar, are   *)
(* on the grid; a fee rate of 1/20 makes the fee exceed its minimum.  At   *)
(* 60 the first quantity tried already fits, fee included, from 137.       *)
(***************************************************************************)
EXTENDS Sizing

MCCash == {0, 9, 10, 40, 137, 400}
MCPrices == {-3, 0, 1, 7, 10, 33, 60}
MCPcts == {-1, 0, 1, 10, 50, 99, 100, 101}
=============================================================================
