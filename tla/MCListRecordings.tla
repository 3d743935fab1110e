-------------------------- MODULE MCListRecordings --------------------------
EXTENDS ListRecordings
=============================================================================
