---- MODULE MCChatAdmission ----
(* A small instance of ChatAdmission for TLC: two chats, an implicit and an explicit policy,
   and a config.json that cannot be read. *)
EXTENDS ChatAdmission

\* Clients and requests are interchangeable.
Interchangeable == Permutations(Client) \cup Permutations(Request)

CONSTANTS chat1, chat2

\* The first chat has no values of its own, the second is a chat for Codex.
Plain(workspace, policy) == [static |-> Nothing, policy |-> policy, workspace |-> workspace]
CodexChat(policy) == [static |-> [runtime |-> "Codex", model |-> "gpt"], policy |-> policy, workspace |-> "w2"]

Implicit ==
  [static |-> [model |-> "openai/gpt"], policy |-> Nothing,
   chats |-> (chat1 :> Plain("w1", Nothing)) @@ (chat2 :> CodexChat(Nothing)),
   allowed_runtimes |-> {"opencode", "codex"}, allowed_models |-> {"openai/gpt", "gpt"}]

Open == [execution_profiles |-> [agent |-> {"host"}, privileged |-> {"host", "container"}],
         execution_surface |-> [execution_profile |-> "privileged", boundary |-> "host"]]
Both == [allowed_execution_profiles |-> {"agent", "privileged"}]

Explicit ==
  [static |-> [model |-> "openai/gpt"], policy |-> Open,
   chats |-> (chat2 :> CodexChat(Both)),
   allowed_runtimes |-> {"opencode", "Codex"}, allowed_models |-> {"openai/gpt", "gpt"}]

Configs == {Implicit, Explicit, UnreadableConfig}
Payloads == {[runtime |-> "Codex"], [model |-> "openai/gpt"]}
Resets == {{}}
Overrides == {Nothing, [runtime |-> "codex"]}
Authorities == {Nothing, [execution_profile |-> "privileged"], [boundary_provider |-> "host"]}
====
