--------------------------- MODULE MCProviderConfig ---------------------------
(* Model-checking instance of ProviderConfig: every configuration with at    *)
(* most MaxTargets targets, declaring any of the transfer-manager names.     *)
EXTENDS ProviderConfig

MaxTargets == 2

TargetCfg == [tm: TMNames \cup {NoTm}, st: Status]

\* Configurations given to a provider with the REMI providers in Remi.
ConfigsWith(Remi) ==
    [parse: BOOLEAN, schema: BOOLEAN, remi: Remi,
     tms: [TMNames -> {"absent"} \cup Status],
     tgs: UNION {[1..n -> TargetCfg] : n \in 0..MaxTargets}]

\* Without a REMI provider (or when its registration fails).
NoRemiConfigs == ConfigsWith({"none", "fail"})

\* With a REMI provider that registers the migration class.
RemiConfigs == ConfigsWith({"ok"})
=============================================================================
