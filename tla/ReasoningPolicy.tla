-------------------------- MODULE ReasoningPolicy --------------------------
(***************************************************************************)
(* harness/reasoning_policy.py: which reasoning policy a deployment runs   *)
(* under, what a request's own controls ask for, how the gateway rewrites  *)
(* a request (normalize_model_request) and which row it logs about it; and *)
(* the half of the log's reader (read_model_transport_observations) that   *)
(* decides whether such rows can be believed.                              *)
(*                                                                         *)
(* "effort:low" is written "low", Python's True and False are "True" and   *)
(* "False", and one word stands for the strings the code treats alike:     *)
(* "none" for none/off/false/0 and "on" for on/native/true/1.  A JSON      *)
(* object is the set of its reasoning controls, the containers that hold   *)
(* other keys as well, and the containers that are no object themselves;   *)
(* a body that is not JSON, or no object, is not an "object".              *)
(***************************************************************************)
EXTENDS Naturals, FiniteSets

Efforts  == {"low", "medium", "high"}
Policies == {"off", "native"} \cup Efforts
Runtimes == {"ollama", "ds4", "vllm"}
Modes    == {"openai", "native-chat"}

ControlFields == {"enable_thinking", "reasoning", "reasoning_effort", "think"}
SignalFields  == ControlFields \ {"reasoning"}
Containers    == {"chat_template_kwargs", "options"}
Values        == {"True", "False", "none", "on", "other"} \cup Efforts
Control(at, name, value) == [at |-> at, name |-> name, value |-> value]
Requested ==
  [object : BOOLEAN, controls : SUBSET [at : {"top"} \cup Containers, name : ControlFields, value : Values],
   other : SUBSET Containers, opaque : SUBSET Containers, stream : BOOLEAN]

Refused == "refused"

----------------------------------------------------------------------------
(* The policy of a deployment.                                             *)

\* resolve_reasoning_policy; a model entry says which policy is configured and
\* which are supported, or "absent".  Effort needs a declared list.
Resolve(requested, model) ==
  LET policy == IF requested = "configured" THEN model.configured ELSE requested
      legal  == IF model.declared
                THEN model.supported # {} /\ model.supported \subseteq Policies
                     /\ policy \in model.supported
                ELSE policy \in {"off", "native"}
  IN IF policy \in Policies /\ legal THEN policy ELSE Refused

\* reasoning_policy_selection
Selection(requested) == IF requested = "configured" THEN "configured" ELSE "explicit"

----------------------------------------------------------------------------
(* runtime_reasoning_control: the one control a runtime understands.       *)

Controllable(runtime, mode, policy, profile) ==
  CASE runtime = "ollama" -> mode \in Modes /\ policy \in Policies
    [] runtime = "ds4"    -> mode = "openai" /\ policy \in Policies
    [] runtime = "vllm"   -> mode = "openai" /\ profile = "qwen" /\ policy \in {"off", "native"}
    [] OTHER -> FALSE

ControlOf(runtime, mode, policy) ==
  IF policy = "native" THEN {}
  ELSE IF runtime = "vllm" THEN {Control("chat_template_kwargs", "enable_thinking", "False")}
  ELSE IF mode = "native-chat"
       THEN {Control("top", "think", IF policy = "off" THEN "False" ELSE policy)}
       ELSE {Control("top", "reasoning_effort", IF policy = "off" THEN "none" ELSE policy)}

----------------------------------------------------------------------------
(* What a request asks for.                                                *)

\* _request_reasoning_signals
Signals(payload) == {c \in payload.controls : c.name \in SignalFields}

\* _qwen_request_signal_policy
Meaning(signal) ==
  IF signal.name = "reasoning_effort"
  THEN IF signal.value \in {"False", "none"} THEN "off"
       ELSE IF signal.value \in {"True", "on"} THEN "native" ELSE Refused
  ELSE IF signal.value = "False" THEN "off"
       ELSE IF signal.value = "True" THEN "native" ELSE Refused

\* A deployment d that lets requests choose: Qwen under vLLM, and a policy that is
\* not "off" or was configured for the model rather than asked for on the command line.
Listens(d) ==
  /\ d.runtime = "vllm" /\ d.profile = "qwen"
  /\ d.policy \in {"off", "native"}
  /\ d.policy = "native" \/ d.honor

\* _effective_request_policy
Effective(d, payload) ==
  LET signals == Signals(payload)
      asked   == {Meaning(s) : s \in signals}
  IN IF ~Listens(d) \/ signals = {}
     THEN [policy |-> d.policy, source |-> "deployment-policy", signals |-> {}]
     ELSE [policy  |-> IF \E p \in Policies : asked = {p}
                       THEN CHOOSE p \in Policies : asked = {p} ELSE Refused,
           source  |-> "request-control",
           signals |-> {<<s.at, s.name>> : s \in signals}]

----------------------------------------------------------------------------
(* normalize_model_request.                                                *)

Normalizable(d, mode, payload) ==
  /\ payload.object
  /\ Effective(d, payload).policy # Refused
  /\ Controllable(d.runtime, mode, Effective(d, payload).policy, d.profile)

\* Variant: only the top level is cleaned.
BodyKeepsNested(d, mode, payload) ==
  LET control == ControlOf(d.runtime, mode, Effective(d, payload).policy)
  IN [payload EXCEPT !.controls = {c \in @ : c.at # "top"} \cup control,
                     !.opaque = @ \ {c.at : c \in control}]

\* The body that is forwarded: no control but the one of the effective policy.  A
\* container that is no object is left alone unless the control goes there.
Body(d, mode, payload) ==
  LET control == ControlOf(d.runtime, mode, Effective(d, payload).policy)
  IN [payload EXCEPT !.controls = control, !.opaque = @ \ {c.at : c \in control}]

\* The row that is logged.
Row(d, mode, payload) ==
  LET e == Effective(d, payload)
  IN [runtime |-> d.runtime, profile |-> d.profile, mode |-> mode,
      deployment |-> d.policy, honor |-> d.honor,
      requested |-> e.policy, source |-> e.source, signals |-> e.signals,
      control |-> ControlOf(d.runtime, mode, e.policy)]

----------------------------------------------------------------------------
(* The reader.                                                             *)

\* What is asked of a row of a vLLM gateway beyond its control.
SourceValid(r) ==
  /\ r.deployment \in {"off", "native"}
  /\ r.source \in {"deployment-policy", "request-control"}
  /\ r.source = "deployment-policy" => r.requested = r.deployment
  /\ r.source = "request-control" =>
       /\ r.deployment = "native" \/ r.honor
       /\ r.requested \in {"off", "native"} /\ r.signals # {}

RowValid(r) ==
  /\ Controllable(r.runtime, r.mode, r.requested, r.profile)
  /\ r.control = ControlOf(r.runtime, r.mode, r.requested)
  /\ r.runtime = "vllm" => SourceValid(r)

\* mixed_request_policies_allowed
MixAllowed(rows) ==
  \A r \in rows :
    /\ r.runtime = "vllm" /\ r.profile = "qwen" /\ r.deployment \in {"off", "native"}
    /\ r.deployment = "native" \/ r.honor
    /\ r.requested \in {"off", "native"}
    /\ r.source \in {"deployment-policy", "request-control"}

\* Variant: requests may choose only where the policy was configured.
PolicyConsistentStrict(rows) ==
  /\ \A r, s \in rows : r.deployment = s.deployment
  /\ (MixAllowed(rows) /\ \A r \in rows : r.honor) \/ \A r, s \in rows : r.requested = s.requested

\* not policy_inconsistent
PolicyConsistent(rows) ==
  /\ \A r, s \in rows : r.deployment = s.deployment
  /\ MixAllowed(rows) \/ \A r, s \in rows : r.requested = s.requested

\* The check a gateway makes of its deployment before it starts (ModelGateway.__init__).
Deployable(d) ==
  d.runtime \in Runtimes /\ Controllable(d.runtime, "openai", d.policy, d.profile)
=============================================================================
