------------------------------- MODULE Config -------------------------------
(***************************************************************************)
(* What the environment makes of the gateway: internal/config/config.go,     *)
(* the calls of it in cmd/dsgateway/main.go and the defaults session.New     *)
(* and gateway.New put behind them.                                         *)
(*                                                                         *)
(* An environment is a function from variable names.  A text is the empty    *)
(* string when it is not set; a number is what time.ParseDuration or         *)
(* fmt.Sscanf get from the text, times in seconds.  Addresses are left out.  *)
(***************************************************************************)
EXTENDS Integers, GenerationSettings

Numbers == {"DS_PAIR_TIMEOUT", "DS_IDLE_TIMEOUT", "DS_GEN_TIMEOUT",
            "DS_MAX_SESSIONS"}
Texts   == {"DEEPSEEK_API_KEY", "DS_MODEL"}

NotANumber == [parses |-> FALSE, value |-> 0]
Number(n)  == [parses |-> TRUE, value |-> n]

NumberType == [parses: BOOLEAN, value: Int]

\* Duration and Int: a number that is missing, malformed, zero or negative is
\* the default.
NumberOr(raw, def) == IF raw.parses /\ raw.value > 0 THEN raw.value ELSE def

Duration(number, key, def) == NumberOr(number[key], def)
IntOf(number, key, def)    == NumberOr(number[key], def)

TextOr(raw, def) == IF raw # "" THEN raw ELSE def

HasAPIKey(text)   == text["DEEPSEEK_API_KEY"] # ""
Model(text)       == TextOr(text["DS_MODEL"], ModelV4Flash)

\* main serves with a key or with the mock provider.
CanServe(text, mock) == mock \/ HasAPIKey(text)

\* session.New: defaults for what is not positive.
Positive(n, def) == IF n <= 0 THEN def ELSE n

NewManagerConfig(cfg) ==
  [pair |-> Positive(cfg.pair, 120), idle |-> Positive(cfg.idle, 300),
   gen |-> Positive(cfg.gen, 60), max |-> Positive(cfg.max, 8)]

\* The manager main makes.
ManagerConfig(number) ==
  NewManagerConfig(
    [pair |-> Duration(number, "DS_PAIR_TIMEOUT", 120),
     idle |-> Duration(number, "DS_IDLE_TIMEOUT", 300),
     gen  |-> Duration(number, "DS_GEN_TIMEOUT", 60),
     max  |-> IntOf(number, "DS_MAX_SESSIONS", 8)])

\* gateway.New: the generation timeout of the handlers, which main reads once
\* for them and for the manager, and the model an approval may fall back to.
GatewayConfig(number, text) ==
  [gen |-> Positive(Duration(number, "DS_GEN_TIMEOUT", 60), 60),
   model |-> TextOr(Model(text), ModelV4Flash)]

=============================================================================
