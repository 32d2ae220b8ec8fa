------------------------- MODULE GenerationSettings -------------------------
(***************************************************************************)
(* The model and thinking parameters of a session                          *)
(* (internal/provider/settings.go) and what the DeepSeek client makes of    *)
(* them before it sends a request (internal/provider/deepseek).             *)
(*                                                                         *)
(* The strings of the wire are members of small sets, in which "" is Go's   *)
(* empty string (field absent); the *bool of a request is "nil", "true" or  *)
(* "false".                                                                *)
(***************************************************************************)

ModelV4Flash == "deepseek-v4-flash"
ModelV4Pro   == "deepseek-v4-pro"

ProductModels    == {ModelV4Flash, ModelV4Pro}
ReasoningEfforts == {"low", "high", "max"}
ThinkingInputs   == {"nil", "true", "false"}

\* Strings as they come: "other" stands for all that are not supported.
ModelStrings  == ProductModels \cup {"", "other"}
EffortStrings == ReasoningEfforts \cup {"", "other"}

GenerationSettingsType ==
  [model: ModelStrings, thinking: BOOLEAN, effort: EffortStrings]

\* GenerationSettings{}: what destroy leaves in a session and what
\* SessionSettings returns for an unknown one.
NoSettings == [model |-> "", thinking |-> FALSE, effort |-> ""]

DefaultGenerationSettings ==
  [model |-> ModelV4Flash, thinking |-> TRUE, effort |-> "high"]

\* Normalized internal form: an effort exactly when thinking is enabled.
Valid(s) ==
  /\ s.model \in ProductModels
  /\ IF s.thinking THEN s.effort \in ReasoningEfforts ELSE s.effort = ""

-----------------------------------------------------------------------------

\* The gateway's configured model, when it is a product model.
DefaultModel(configured) ==
  IF configured \in ProductModels THEN configured ELSE ModelV4Flash

\* An explicit field is refused when it is neither empty nor supported; the
\* effort is looked at only when thinking ends up enabled.
ThinkingOn(thinking) == thinking # "false"

ParseRejects(modelRaw, thinking, effortRaw) ==
  \/ modelRaw \notin ProductModels \cup {""}
  \/ ThinkingOn(thinking) /\ effortRaw \notin ReasoningEfforts \cup {""}

\* The settings ParseSettings returns when it does not refuse the request.
ParseSettings(configured, modelRaw, thinking, effortRaw) ==
  [model    |-> IF modelRaw = "" THEN DefaultModel(configured) ELSE modelRaw,
   thinking |-> ThinkingOn(thinking),
   effort   |-> IF ~ThinkingOn(thinking) THEN ""
                ELSE IF effortRaw = "" THEN "high" ELSE effortRaw]

\* What StreamCompletion sends upstream: settings of a session that no longer
\* exists are the zero value and fall back to the client's own model, and an
\* invalid combination is replaced by the product defaults.
SentUpstream(clientModel, s) ==
  LET chosen == IF s.model # "" THEN s
                ELSE IF clientModel = "" THEN DefaultGenerationSettings
                ELSE [DefaultGenerationSettings EXCEPT !.model = clientModel]
  IN  IF Valid(chosen) THEN chosen ELSE DefaultGenerationSettings

=============================================================================
