------------------------------ MODULE MCSvcReg ------------------------------
EXTENDS SvcReg

MCTypes == {<<"tcp", "udp">>}
=============================================================================
