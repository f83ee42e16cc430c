------------------------------ MODULE MCSession ------------------------------
\* Session with values for its constants; a configuration picks the events.
EXTENDS Session
=============================================================================
