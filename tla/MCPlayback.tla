----------------------------- MODULE MCPlayback -----------------------------
EXTENDS OssPlayback
=============================================================================
