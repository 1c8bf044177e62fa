------------------------ MODULE MCRmpflowController ------------------------
EXTENDS RmpflowController

\* Both gates and both command modes, with the min-Z safety on.
LoopConfigs ==
    [flagGate: BOOLEAN, velocity: BOOLEAN, startupGoal: {TRUE}, minZ: {TRUE}]

\* The test launch: no flag gate, the goal initialised from the first state.
UngatedConfigs ==
    {[flagGate |-> FALSE, velocity |-> TRUE, startupGoal |-> TRUE, minZ |-> TRUE]}

\* Position mode, where the remembered pose itself is commanded.
HoldConfigs ==
    {[flagGate |-> FALSE, velocity |-> FALSE, startupGoal |-> TRUE, minZ |-> TRUE]}
==============================================================================
