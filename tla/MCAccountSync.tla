---------------------------- MODULE MCAccountSync ----------------------------
EXTENDS AccountSync
=============================================================================
