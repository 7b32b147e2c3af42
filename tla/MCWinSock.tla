----------------------------- MODULE MCWinSock ------------------------------
EXTENDS WinSock

MCSlots == 0..3
=============================================================================
