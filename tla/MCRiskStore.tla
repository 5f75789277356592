---------------------------- MODULE MCRiskStore ----------------------------
(* The ladder TLC runs with: half size at a 10% drawdown, quarter size at  *)
(* 16%, flatten and halt at 20%.                                           *)
EXTENDS RiskStore

MCRungAt == <<10, 16, 20>>
MCRungScale == <<50, 25>>
=============================================================================
