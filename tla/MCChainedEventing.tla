--------------------------- MODULE MCChainedEventing ---------------------------
EXTENDS ChainedEventing
===============================================================================
