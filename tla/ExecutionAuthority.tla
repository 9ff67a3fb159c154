---- MODULE ExecutionAuthority ----
(***************************************************************************)
(* Which authority a request runs under, gateway/src/execution-profile.js  *)
(* and execution/providers.js, and the file that ties a session to it once *)
(* and for all, gateway/src/execution-session.js.                          *)
(***************************************************************************)
EXTENDS GatewayConfig, FiniteSets

CONSTANTS Session, NoSession, NoBinding,
          Torn          \* a binding file that was created and never filled

VARIABLES binding,      \* what the binding file of each session holds
          lost          \* sessions whose binding a loss of power has taken

authorityVars == <<binding, lost>>

Profile == {"isolated", "agent", "privileged", "full-control"}
Boundary == {"host", "container", "vm"}

----
(* execution-profile.js.  A request may name a profile and a boundary; `policy` and `chat` are the
   declarations of the operator for the gateway and for the chat. *)

Policies(policy) == Lookup(policy, "execution_profiles", [agent |-> {"host"}])
DefaultProfile(policy) == Lookup(policy, "default_execution_profile", "agent")
DefaultBoundary(policy) == Lookup(policy, "default_boundary", "host")
ChatProfile(policy, chat) == Lookup(chat, "execution_profile", DefaultProfile(policy))
ChatBoundary(policy, chat) == Lookup(chat, "boundary", DefaultBoundary(policy))
AllowedProfiles(chat) == Lookup(chat, "allowed_execution_profiles", {"agent"})
AllowedBoundaries(chat) == Lookup(chat, "allowed_boundaries", {"host"})

Permitted(policy, profile, boundary, profiles, boundaries) ==
  /\ profile \in DOMAIN Policies(policy) \cap profiles
  /\ boundary \in Policies(policy)[profile] \cap boundaries

Declares(given, keys) == DOMAIN given \cap keys # {}

\* What is wrong with a policy is found whatever the request asks for.
ValidPolicy(policy, chat) ==
  /\ DOMAIN Policies(policy) \subseteq Profile
  /\ \A p \in DOMAIN Policies(policy) : Policies(policy)[p] # {} /\ Policies(policy)[p] \subseteq Boundary
  /\ AllowedProfiles(chat) # {} /\ AllowedProfiles(chat) \subseteq DOMAIN Policies(policy)
  /\ AllowedBoundaries(chat) # {} /\ AllowedBoundaries(chat) \subseteq Boundary
  /\ Declares(policy, {"default_execution_profile", "default_boundary"}) =>
       Permitted(policy, DefaultProfile(policy), DefaultBoundary(policy), DOMAIN Policies(policy), Boundary)
  /\ \/ Declares(policy, {"default_execution_profile", "default_boundary"})
     \/ Declares(chat, {"execution_profile", "boundary"})
     => Permitted(policy, ChatProfile(policy, chat), ChatBoundary(policy, chat),
                  AllowedProfiles(chat), AllowedBoundaries(chat))

Surface(policy) == Lookup(policy, "execution_surface", [execution_profile |-> "agent", boundary |-> "host"])
Provider(policy, boundary) == Lookup(Surface(policy), "boundary_provider", boundary)

\* providers.js: of the three providers only that of the host exists.
ProviderServes(policy, boundary) ==
  /\ "boundary_providers" \in DOMAIN policy =>
       Lookup(policy.boundary_providers, Provider(policy, boundary), FALSE)
  /\ Provider(policy, boundary) = boundary
  /\ boundary = "host"

\* The profile and the boundary of the request, of the chat, of the gateway, or the default, are
\* allowed, and are those of the surface this process runs on: they are never replaced by others.
\* The provider of the boundary is not for a request to name.
Authorized(policy, chat, asked, runtime) ==
  LET profile == Lookup(asked, "execution_profile", ChatProfile(policy, chat))
      boundary == Lookup(asked, "boundary", ChatBoundary(policy, chat))
  IN /\ "boundary_provider" \notin DOMAIN asked
     /\ ValidPolicy(policy, chat)
     /\ Permitted(policy, profile, boundary, AllowedProfiles(chat), AllowedBoundaries(chat))
     /\ profile = "full-control" /\ boundary = "host" => Lookup(policy, "allow_full_control_host", FALSE)
     /\ profile = Surface(policy).execution_profile
     /\ boundary = Surface(policy).boundary
     /\ Lookup(policy, "agent_host_only", FALSE) => profile = "agent" /\ boundary = "host" /\ runtime = "opencode"
     /\ ProviderServes(policy, boundary)

\* What the binding of a session holds: its chat and workspace with the context of the run.
Tuple(cfg, chat, runtime) ==
  [chat |-> chat, workspace |-> cfg.chats[chat].workspace, runtime |-> runtime,
   execution_profile |-> Surface(cfg.policy).execution_profile, boundary |-> Surface(cfg.policy).boundary]

\* A configuration that never speaks of authority: sessions of earlier releases go on under it.
Legacy(cfg, chat) ==
  /\ ~Declares(cfg.policy, {"execution_profiles", "execution_surface", "boundary_providers",
                            "default_execution_profile", "default_boundary"})
  /\ ~Declares(cfg.chats[chat].policy, {"execution_profile", "boundary",
                                        "allowed_execution_profiles", "allowed_boundaries"})

----
(* execution-session.js *)

\* The file is created only if there is none, and then compared, by whoever created it.
BoundOver(s, tuple, bind) == IF bind THEN [binding EXCEPT ![s] = tuple] ELSE binding
Bound(s, tuple, bind) ==
  IF bind /\ binding[s] = NoBinding THEN [binding EXCEPT ![s] = tuple] ELSE binding

AcceptsAnyBinding(s, tuple, bind) == bind \/ binding[s] # NoBinding

\* An empty file, and no file, are like the file of somebody else.
Accepts(s, tuple, bind) == Bound(s, tuple, bind)[s] = tuple

\* The process is killed between the creation of the file and the write.
Tear(s) ==
  /\ binding[s] = NoBinding
  /\ binding' = [binding EXCEPT ![s] = Torn]
  /\ UNCHANGED lost

\* The files are not flushed: a loss of power can empty them or take them away.
LoseBindings ==
  \E gone \in SUBSET {s \in Session : binding[s] # NoBinding} :
    /\ binding' \in [Session -> {NoBinding, Torn} \cup {binding[s] : s \in Session}]
    /\ \A s \in Session : IF s \in gone THEN binding'[s] \in {NoBinding, Torn} \ {binding[s]}
                     ELSE binding'[s] = binding[s]
    /\ lost' = lost \cup gone

AuthorityInit ==
  /\ binding = [s \in Session |-> NoBinding]
  /\ lost = {}
====
