------------------------------ MODULE MCCombat ------------------------------
EXTENDS CombatLog
=============================================================================
