------------------------------- MODULE MCOpening -------------------------------
(***************************************************************************)
(* Small instances, for TLC, of what opens a chat, reopens its view and    *)
(* watches its turns: HomeDraft, Provisioning, ChatView and StuckTurn.     *)
(* They share no state.  A behaviour is one of one of them, and what the   *)
(* others speak of stays as it is at the start.                            *)
(***************************************************************************)
EXTENDS HomeDraft, Provisioning, ChatView, StuckTurn
VARIABLE part

OpeningVars == <<draftVars, provisionVars, viewVars, turnVars, part>>

OpeningInit ==
  /\ DraftInit /\ ProvisionInit /\ ViewInit /\ TurnInit
  /\ part \in {"draft", "provision", "view", "turn"}

DraftPart ==
  part = "draft" /\ DraftNext /\ UNCHANGED <<provisionVars, viewVars, turnVars, part>>
ProvisionPart ==
  part = "provision" /\ ProvisionNext /\ UNCHANGED <<draftVars, viewVars, turnVars, part>>
ViewPart ==
  part = "view" /\ ViewNext /\ UNCHANGED <<draftVars, provisionVars, turnVars, part>>
TurnPart ==
  part = "turn" /\ TurnNext /\ UNCHANGED <<draftVars, provisionVars, viewVars, part>>

OpeningNext == DraftPart \/ ProvisionPart \/ ViewPart \/ TurnPart
OpeningSpec == OpeningInit /\ [][OpeningNext]_OpeningVars

\* Type correctness of all four.
TypeOK == DraftTypeOK /\ ProvisionTypeOK /\ ViewTypeOK /\ TurnTypeOK
===============================================================================
