--------------------------- MODULE DaemonService ---------------------------
(***************************************************************************)
(* What the agent socket promises to those who only see the socket: a      *)
(* listener behind it first enforces the base policy and only then         *)
(* answers; it may go away, or be replaced by a new listener, at any time. *)
(* DaemonRuntime implements this; AgentShim relies on nothing else.        *)
(***************************************************************************)

VARIABLE life  \* what is behind the agent socket

Lives == {"down", "bound", "policed", "serving"}

ServiceInit == life = "down"

(* A listener is bound, in the place of an earlier one perhaps             *)
Bind == life' = "bound"

ApplyPolicy == life = "bound" /\ life' = "policed"

Serve == life = "policed" /\ life' = "serving"

Fall == life' = "down"

ServiceNext == Bind \/ ApplyPolicy \/ Serve \/ Fall

ServiceSpec == ServiceInit /\ [][ServiceNext]_life

=============================================================================
