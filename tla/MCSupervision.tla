---------------------------- MODULE MCSupervision ----------------------------
EXTENDS Supervision

\* A server breaks, breaks again, and a command fails; a request beside the loop.
MCMaxMishaps == 3
=============================================================================
