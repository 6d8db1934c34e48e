----------------------------- MODULE MCCloudUpload -----------------------------
EXTENDS CloudUpload

\* Two full parts and what is left over.
MCSize       == 5
MCPartSize   == 2

\* Exhausting the retries of a call leaves three faults for what follows it.
MCMaxRetries == 2
MCMaxFaults  == 6
=============================================================================
