------------------------- MODULE MCDustRegistration -------------------------
(***************************************************************************)
(* A small instance of DustRegistration: a purse that can never pay the    *)
(* highest fee, one that can when it is full, and one that can earlier.    *)
(***************************************************************************)
EXTENDS DustRegistration

MCPurses == 1 .. 3
MCValue == [n \in MCPurses |-> n]
=============================================================================
