---------------------------- MODULE MCLiveBridge ----------------------------
EXTENDS LiveBridge

MCUnit == {"build", "serve"}

\* A command beside a service, or two services.
MCServiceSets == {{"serve"}, {"build", "serve"}}
=============================================================================
