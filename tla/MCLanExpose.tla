---------------------------- MODULE MCLanExpose ----------------------------
EXTENDS LanExpose
=============================================================================
