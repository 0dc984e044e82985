-------------------------- MODULE MCCredentialRefresh --------------------------
EXTENDS CredentialRefresh

CONSTANTS host, inplace, guest
=============================================================================
