------------------------------- MODULE Extension -------------------------------
(***************************************************************************)
(* The Chrome extension, chrome-ext/, at the two places it is worked with: *)
(* in the browser, where it answers the WebAuthn calls of pages, and in a  *)
(* checkout, where a developer takes features out of it.  The browser runs *)
(* the bundle, which no change of the checkout reaches: the two have no    *)
(* state in common, and the place is chosen at the start.                  *)
(***************************************************************************)
EXTENDS PasskeyProxy, ModuleManager

VARIABLE place

extensionVars == <<place, vars, modulesVars>>

\* What pages will ask is open in the browser only.
ExtensionInit ==
    /\ place \in {"browser", "checkout"}
    /\ Init /\ ModulesInit
    /\ place = "checkout" => /\ \A q \in Request : kind[q] = "passkeyGetRequest"
                             /\ page = [q \in Request |-> CHOOSE t \in Tab : TRUE]

InBrowser  == place = "browser" /\ Next /\ UNCHANGED <<place, modulesVars>>
InCheckout == place = "checkout" /\ ModulesNext /\ UNCHANGED <<place, vars>>

ExtensionNext == InBrowser \/ InCheckout

\* The fairness of the browser's event loops; no tool has to be used.
ExtensionSpec == ExtensionInit /\ [][ExtensionNext]_extensionVars /\ Fairness
=============================================================================
