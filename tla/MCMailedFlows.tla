----------------------------- MODULE MCMailedFlows -----------------------------
EXTENDS MailedFlows, TLC

\* requests and submissions differ in their name only
Symmetry == Permutations(Handlers)
===============================================================================
