----------------------- MODULE MCDeploymentCatalog -----------------------
EXTENDS DeploymentCatalog

CONSTANTS compose, container, unit, network, target_c

Kinds == (compose :> "compose") @@ (container :> "docker") @@ (unit :> "systemd")
Users == (network :> compose)
Providers == (network :> "docker")
Bindings == (target_c :> compose)
==========================================================================
