--------------------------- MODULE MCTangentEscape ---------------------------
EXTENDS TangentEscape

\* Both acceleration models; the default profile starts the risk-damped one.
BothModels == {"canonical_velocity", "risk_damped"}
==============================================================================
