---------------------------- MODULE MCRevocation ----------------------------
\* Revocation on a small instance.
EXTENDS Revocation
=============================================================================
