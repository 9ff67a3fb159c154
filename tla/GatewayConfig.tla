---- MODULE GatewayConfig ----
(* The operator's configuration of the gateway, gateway/src/config.js: what config.json says, and
   what the rest of the gateway reads from it.

   A part of the file that may be absent is a function whose domain holds what is given:
     static   defaults for every chat, by setting name
     policy   execution policy, by key of the file
     chats    the configured chats, each with static, policy and workspace *)
EXTENDS Naturals, TLC

CONSTANTS Chat, Null,
          Config      \* contents config.json may have when the gateway starts

SettingName == {"runtime", "model", "agent_timeout_sec", "codex_transport"}

ASSUME ConfigAssumption ==
  \A cfg \in Config :
    /\ DOMAIN cfg.chats \subseteq Chat
    /\ DOMAIN cfg.static \subseteq SettingName
    /\ \A c \in DOMAIN cfg.chats : DOMAIN cfg.chats[c].static \subseteq SettingName

Nothing == [key \in {} |-> Null]
Lookup(given, key, default) == IF key \in DOMAIN given THEN given[key] ELSE default

\* A file that cannot be read or parsed leaves a gateway without chats.  (One that names a key
\* twice stops the gateway at its start: nothing is served from it.)
UnreadableConfig ==
  [static |-> Nothing, policy |-> Nothing, chats |-> Nothing,
   allowed_runtimes |-> {"opencode"}, allowed_models |-> {}]

Configured(cfg) == DOMAIN cfg.chats

\* Runtime names are compared without regard to case and surrounding blanks.
Spelling == [opencode |-> "opencode", OpenCode |-> "opencode", codex |-> "codex", Codex |-> "codex"]
NormalizeRuntime(value) == Lookup(Spelling, value, "unknown")

IsRuntimeAllowed(cfg, runtime) == runtime \in {NormalizeRuntime(r) : r \in cfg.allowed_runtimes} \ {"unknown"}
IsModelAllowed(cfg, model) == model \in cfg.allowed_models

\* Names of models of a provider other than Codex carry the name of the provider.
Qualified == {"openai/gpt", "ollama/qwen"}
ValidModelOf(runtime, model) == ~(runtime = "codex" /\ model \in Qualified)

ValidTimeout == 1 .. 86400

\* AGENT_TIMEOUT_SEC is part of the environment, not of the file, and only a default.
StaticValues(cfg) ==
  IF "agent_timeout_sec" \in DOMAIN cfg.static /\ cfg.static.agent_timeout_sec \notin ValidTimeout
  THEN [cfg.static EXCEPT !.agent_timeout_sec = 3600]
  ELSE cfg.static

DefaultValues == [runtime |-> "opencode", model |-> Null, agent_timeout_sec |-> 3600, codex_transport |-> "exec"]

DefaultModelForRuntime(cfg, runtime) ==
  IF NormalizeRuntime(runtime) = "opencode" THEN Lookup(cfg.static, "model", Null) ELSE Null
====
