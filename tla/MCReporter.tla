----------------------------- MODULE MCReporter -----------------------------
(* Three reports: the first and the last name both hosts, in the order of  *)
(* their list; the second names one.                                       *)
EXTENDS Reporter

CONSTANTS h1, h2

MCResultsOf(r) == IF r = 2 THEN <<h2>> ELSE <<h1, h2>>
=============================================================================
