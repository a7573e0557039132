------------------------------ MODULE RiskTiers ------------------------------
(* kyvon_core::RiskTier, by rank: the derived order is the declared one.      *)
EXTENDS Naturals

RiskTier == 0..4
Safe == 0
Low == 1
Medium == 2
High == 3
Critical == 4
=============================================================================
