---------------------------- MODULE MCAutomation ----------------------------
\* Instance of Automation for TLC.
EXTENDS Automation
=============================================================================
