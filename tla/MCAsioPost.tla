----------------------------- MODULE MCAsioPost -----------------------------
EXTENDS AsioPost
=============================================================================
