------------------------------ MODULE MCFixLoop ------------------------------
\* Model-checking instance of FixLoop: a fixing main rule, a fixing post rule and
\* a main rule that only reports.
EXTENDS FixLoop, TLC

CONSTANTS layout, caps, report

MCRulePack == <<layout, caps, report>>
=============================================================================
