-------------------------------- MODULE Apps --------------------------------
(***************************************************************************)
(* Two parts of the apps that share no state: the signed-in state, and a   *)
(* form with its data.  A behaviour follows one of them, so that a run     *)
(* checks their sum and not their product.                                 *)
(***************************************************************************)
EXTENDS ApiClient, Panel

VARIABLE part   \* the part that is followed

apps == <<part, apiClient, panelPage>>

Init ==
  /\ part \in {"client", "panel"}
  /\ ApiClientInit /\ PanelInit
  \* what a part that is not followed starts with makes no difference
  /\ part # "client" => ~mobile /\ owner = <<>>
  /\ part # "panel" => form = AssinaturaScreen

Client(A)  == part = "client" /\ A /\ UNCHANGED <<part, panelPage>>
OfPanel(A) == part = "panel" /\ A /\ UNCHANGED <<part, apiClient>>

Next == Client(ApiClientNext) \/ OfPanel(PanelNext)

Spec == Init /\ [][Next]_apps

\* What an app awaits is answered, or fails, in the end: a step of a call of the
\* client; a step of the form's request, and of the fetch of its data.
FairSpec ==
  /\ Spec
  /\ \A c \in Call : WF_apps(Client(Step(c)))
  /\ WF_apps(OfPanel(RequestStep)) /\ WF_apps(OfPanel(FetchStep))

-----------------------------------------------------------------------------
\* The variables of both parts have their types.
AppsTypeOK == ApiClientTypeOK /\ PanelTypeOK

\* Nothing an app waits for is waited for in vain: its calls, the buttons of a
\* form, the loading screen.
AppsEnd == CallsEnd /\ BusyEnds /\ []LoadingEnds
=============================================================================
