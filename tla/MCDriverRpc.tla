----------------------------- MODULE MCDriverRpc -----------------------------
EXTENDS DriverRpc

\* No large request, a large hello or probe, large answers, a large live call.
MCLargeSets == {{}, {1}, {2}, {4}}
===============================================================================
