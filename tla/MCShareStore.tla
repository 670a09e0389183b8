---------------------------- MODULE MCShareStore ----------------------------
EXTENDS ShareStore
=============================================================================
