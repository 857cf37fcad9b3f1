----------------------------- MODULE MCTcpBlockServer -----------------------------
EXTENDS TcpBlockServer

=============================================================================
