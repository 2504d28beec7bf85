----------------------------- MODULE MCFrontEnd -----------------------------
EXTENDS FrontEnd
=============================================================================
