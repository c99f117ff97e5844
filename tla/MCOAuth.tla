------------------------------ MODULE MCOAuth ------------------------------
EXTENDS OAuth

\* Every client runs in the same web application, behind one redirect URI.
MCUriOf(a) == "callback"
=============================================================================
