-------------------------------- MODULE Backend --------------------------------
(***************************************************************************)
(* Two parts of the Go backend that have no table in common: the passkeys  *)
(* of the extension, under /chrome, and the registry of users, trusts and  *)
(* what is handed on, under /api.  A step of one changes nothing the other *)
(* reads, so a run is at one of them, which is chosen at the start.        *)
(***************************************************************************)
EXTENDS PasskeyStore, Registry

VARIABLE place

backendVars == <<place, vars, registryVars>>

BackendInit ==
    /\ place \in {"chrome", "api"}
    /\ Init /\ RegistryInit
    /\ place = "chrome" => users = SeedUsers

AtChrome == place = "chrome" /\ Next /\ UNCHANGED <<place, registryVars>>
AtApi    == place = "api" /\ RegistryNext /\ UNCHANGED <<place, vars>>

BackendNext == AtChrome \/ AtApi

BackendSpec == BackendInit /\ [][BackendNext]_backendVars
=============================================================================
