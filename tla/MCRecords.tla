------------------------------ MODULE MCRecords ------------------------------
\* The engine with the history of what it lets go of, in the households of MCAutomation.
EXTENDS MCAutomation, Records
=============================================================================
