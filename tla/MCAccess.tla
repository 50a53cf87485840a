------------------------------ MODULE MCAccess ------------------------------
(* Model values for checking Access; browsers are interchangeable.          *)
EXTENDS Access, TLC

CONSTANTS boss, pupil, b1, b2, i1, g1

BrowserSymmetry == Permutations(Browsers)
=============================================================================
