-------------------------- MODULE MCProviderRestart --------------------------
(* Model-checking instance of ProviderRestart: the first provider is given  *)
(* any configuration, with or without a REMI provider.                      *)
EXTENDS ProviderRestart, MCProviderConfig

RestartConfigs == ConfigsWith({"none", "fail", "ok"})
=============================================================================
