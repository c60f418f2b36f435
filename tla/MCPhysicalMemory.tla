-------------------------- MODULE MCPhysicalMemory --------------------------
EXTENDS PhysicalMemory
=============================================================================
