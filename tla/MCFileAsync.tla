---------------------------- MODULE MCFileAsync ----------------------------
EXTENDS FileAsync
=============================================================================
