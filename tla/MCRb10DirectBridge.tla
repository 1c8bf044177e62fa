------------------------- MODULE MCRb10DirectBridge -------------------------
EXTENDS Rb10DirectBridge

\* What the launch files start: velocity commands, a startup move and a halt.
LaunchConfigs ==
    {[velocity |-> TRUE, stopOnShutdown |-> TRUE, startupMove |-> TRUE]}

\* Both command modes, with and without a shutdown sequence.
BridgeConfigs ==
    LaunchConfigs \cup
    {[velocity |-> FALSE, stopOnShutdown |-> stop, startupMove |-> FALSE]
        : stop \in BOOLEAN}
==============================================================================
