----------------------------- MODULE MCApiSession -----------------------------
(***************************************************************************)
(* Instance of the API session for TLC: three bridges, the script, positions  *)
(* far enough apart for the clamp to matter.                                *)
(***************************************************************************)
EXTENDS ApiSession

Started(velocity, action, stops) ==
    [velocity |-> velocity, stopOnShutdown |-> stops, action |-> action,
     source |-> IF velocity THEN "measured" ELSE "reference"]

MCBridges ==
    {Started(FALSE, "halt", TRUE), Started(TRUE, "pause", TRUE),
     Started(TRUE, "pause", FALSE), Started(FALSE, "off", FALSE)}

Frame(state, paused, measuredAt, referenceAt) ==
    [state |-> state, paused |-> paused, measured |-> measuredAt, reference |-> referenceAt]

MCBridgeFrames ==
    {Frame("idle", FALSE, 0, 0), Frame("idle", FALSE, 0, 2), Frame("idle", TRUE, 0, 0)}

MCMoverFrames ==
    [state: {"idle", "running"}, paused: BOOLEAN, measured: {0, 2}, reference: {0, 2}]
================================================================================
