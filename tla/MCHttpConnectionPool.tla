------------------------ MODULE MCHttpConnectionPool ------------------------
EXTENDS HttpConnectionPool
=============================================================================
