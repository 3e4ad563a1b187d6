--------------------------- MODULE ServicesProofs ---------------------------
(***************************************************************************)
(* The services beside the rooms together: a behaviour of the composition  *)
(* is a behaviour of every part, so what is proved of a part holds of it.  *)
(***************************************************************************)
EXTENDS MCServices, AdmissionProofs, ServicePartsProofs

\* The parts share no variables: a step of the services is a step of one part and leaves
\* the others alone.
LEMMA PartsMove ==
  ASSUME [Next]_vars
  PROVE  [TelNext]_telVars /\ [LinkNext]_linkVars /\ [AdmNext]_admVars /\ [DelayNext]_delayVars
BY Zenon DEF Next, vars

\* A behaviour of the services is a behaviour of each part.
LEMMA Parts == Live => TelSpec /\ LinkSpec /\ AdmSpec /\ DelaySpec
<1>1. Init => TelInit /\ LinkInit /\ AdmInit /\ DelayInit
  BY DEF Init
<1>2. [Next]_vars => [TelNext]_telVars /\ [LinkNext]_linkVars /\ [AdmNext]_admVars
                       /\ [DelayNext]_delayVars
  BY PartsMove
<1> QED
  BY <1>1, <1>2, PTL DEF Live, TelSpec, LinkSpec, AdmSpec, DelaySpec

\* The state of each part keeps its type and its bounds, whatever the sizes and policies:
\* the queue and the batch of telemetry, the buckets of the limiter, the range of the delay.
THEOREM ServicesBounded == Live => []ServicesTypeOK
<1>1. TelTypeOK /\ LinkTypeOK /\ AdmTypeOK /\ DelayTypeOK => ServicesTypeOK
  BY DEF ServicesTypeOK
<1> QED
  BY <1>1, Parts, TelemetryBounded, LinkBounded, AdmissionBounded, DelayInRange, PTL
==============================================================================
