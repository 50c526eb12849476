------------------------- MODULE MCProxyTransaction -------------------------
EXTENDS ProxyTransaction

\* Every kind of request and every setting the handlers distinguish.
AllProfiles == Profile

=============================================================================
