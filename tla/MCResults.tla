------------------------------- MODULE MCResults -------------------------------
EXTENDS Results, TLC
CONSTANTS a, b, s
MCInit == ResultInit /\ resultFaults = Cardinality(record.watching)
FairSpec == MCInit /\ [][ResultNext]_resultVars /\ ResultFairness
==============================================================================
