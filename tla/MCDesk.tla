------------------------------- MODULE MCDesk -------------------------------
(***************************************************************************)
(* An instance of Desk for TLC: a code to pay with and one to refund with, *)
(* links with the same external id, and a log of two entries filtered by   *)
(* bank.                                                                   *)
(***************************************************************************)
EXTENDS Desk

SomeFilters == {Requests} \cup {{req} : req \in Requests}
=============================================================================
