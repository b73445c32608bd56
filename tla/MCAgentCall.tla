----------------------------- MODULE MCAgentCall -----------------------------
(* AgentCall with three providers in the order of the default settings. *)
EXTENDS AgentCall

MCProviders  == {"anthropic", "openai", "azure_openai"}
MCCandidates == <<"anthropic", "openai", "azure_openai">>

=============================================================================
