------------------------- MODULE MCDirectRb10Backend -------------------------
EXTENDS DirectRb10Backend

\* Streaming: position mode, shut down bare.  Four commands, one more than
\* can be on their way at once.
StreamConfigs ==
    {[velocity |-> FALSE, stopOnShutdown |-> FALSE, startupMove |-> FALSE,
      commands |-> 4]}

\* What the launch files start: velocity commands, a startup move and a halt.
LaunchConfigs ==
    {[velocity |-> TRUE, stopOnShutdown |-> TRUE, startupMove |-> TRUE,
      commands |-> 1]}

BackendConfigs == LaunchConfigs \cup StreamConfigs
==============================================================================
