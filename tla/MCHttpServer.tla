---------------------------- MODULE MCHttpServer ----------------------------
EXTENDS HttpServer
MCNoFd == -1
=============================================================================
