-------------------------- MODULE MCHttpConnection --------------------------
EXTENDS HttpConnection

=============================================================================
