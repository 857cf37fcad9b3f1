----------------------------- MODULE MCKTZeromq -----------------------------
EXTENDS KTZeromq

=============================================================================
