------------------------------ MODULE MCFdLock ------------------------------
(* Handles that have one descriptor behind them. *)
EXTENDS FdLock

SharedFd == [h \in Handles |-> "fd1"]
=============================================================================
