------------------------------ MODULE MCMail ------------------------------
EXTENDS Mail, TLC

CONSTANTS n1, n2, pot, f1, a, b

MCAdmins == <<a, b>>
MCReach == pot :> MCAdmins
=============================================================================
