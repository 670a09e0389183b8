------------------------------ MODULE MCRequests ------------------------------
EXTENDS Requests

CONSTANTS p, q
=============================================================================
