---------------------------- MODULE MCConnectable ----------------------------
\* A buffer of two places whose owner takes values before it connects it.
EXTENDS ConnectableCircularBuffer
=============================================================================
