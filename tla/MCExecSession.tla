----------------------------- MODULE MCExecSession -----------------------------
EXTENDS ExecSession
=============================================================================
