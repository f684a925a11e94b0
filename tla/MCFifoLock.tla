----------------------------- MODULE MCFifoLock -----------------------------
EXTENDS FifoLock
=============================================================================
