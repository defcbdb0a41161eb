----------------------------- MODULE MCOutputs -----------------------------
EXTENDS Outputs
=============================================================================
