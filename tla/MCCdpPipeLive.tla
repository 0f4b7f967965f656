---------------------------- MODULE MCCdpPipeLive ----------------------------
(***************************************************************************)
(* A connection in use, or the launches of several: the two do not         *)
(* interact, and what is checked is that every step that waits returns.    *)
(***************************************************************************)
EXTENDS CdpPipe, Launch

VARIABLE part

allVars == <<cdpVars, launchVars, part>>

LiveInit ==
  /\ part \in {"pipe", "launch"}
  /\ Init /\ LaunchInit /\ (part = "pipe" => platform = "unix")

LiveNext ==
  \/ part = "pipe" /\ Next /\ UNCHANGED <<launchVars, part>>
  \/ part = "launch" /\ LaunchNext /\ UNCHANGED <<cdpVars, part>>

\* Before a part begins no step of it that is taken fairly is enabled.
LiveSpec == LiveInit /\ [][LiveNext]_allVars /\ Fairness /\ LaunchFair
=============================================================================
