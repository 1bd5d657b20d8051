-------------------------------- MODULE Client --------------------------------
(***************************************************************************)
(* The programs in front of the backend: the pages of the web frontend and *)
(* the storage the pages of the extension share.  They have no state in    *)
(* common but the client the web pages call the backend with, and a user   *)
(* is at one place at a time, which is chosen at the start.                *)
(***************************************************************************)
EXTENDS AccountsPage, DisclosePage, VerifyPage, ExtStorage

VARIABLE place

Place == {"api", "accounts", "disclose", "verify", "storage"}

vars == <<place, apiVars, accountsVars, discloseVars, verifyVars, storageVars>>

\* Where the start is open at one place, it is fixed for the others.
Init ==
    /\ place \in Place
    /\ ApiInit
    /\ AccountsInit /\ (place # "accounts" => render.ops = HomePage)
    /\ DiscloseInit /\ (place # "disclose" => ~others)
    /\ VerifyInit
    /\ StorageInit /\ (place # "storage" => stored = Null)

\* Bound: calls of different resources have nothing to do with each other.
OneResource(c, op) == \A e \in 1..(c - 1) : calls[e].op.path = op.path

AtApi ==
    /\ place = "api"
    /\ \E c \in Call :
         CallStep(c) \/ TakeAny(c) \/ \E op \in Operation : OneResource(c, op) /\ CallAny(c, op)
    /\ UNCHANGED <<place, accountsVars, discloseVars, verifyVars, storageVars>>

AtAccounts ==
    /\ place = "accounts"
    /\ AccountsNext \/ (\E c \in Call : CallStep(c) /\ UNCHANGED accountsVars)
    /\ UNCHANGED <<place, discloseVars, verifyVars, storageVars>>

AtDisclose ==
    /\ place = "disclose"
    /\ DiscloseNext \/ (\E c \in Call : CallStep(c) /\ UNCHANGED discloseVars)
    /\ UNCHANGED <<place, accountsVars, verifyVars, storageVars>>

AtVerify ==
    /\ place = "verify"
    /\ VerifyNext
    /\ UNCHANGED <<place, apiVars, accountsVars, discloseVars, storageVars>>

AtStorage ==
    /\ place = "storage"
    /\ StorageNext
    /\ UNCHANGED <<place, apiVars, accountsVars, discloseVars, verifyVars>>

Next == AtApi \/ AtAccounts \/ AtDisclose \/ AtVerify \/ AtStorage

Spec == Init /\ [][Next]_vars

-----------------------------------------------------------------------------
(* Fairness: the client settles every call, half an hour at the latest; what *)
(* awaits it goes on; a page that loads makes its calls; and fetch returns or *)
(* rejects.  None is asked of the backend or the user.                       *)

Settle(c) ==
    /\ Send(c) \/ Arrive(c) \/ Break(c) \/ GiveUp(c)
    /\ UNCHANGED <<place, accountsVars, discloseVars, verifyVars, storageVars>>

GoOn(c) ==
    /\ \/ place = "api" /\ TakeAny(c) /\ UNCHANGED <<accountsVars, discloseVars>>
       \/ place = "accounts" /\ (TakeRender(c) \/ TakeAccount(c)) /\ UNCHANGED discloseVars
       \/ place = "disclose" /\ (FetchDisclosures(c) \/ TakeDisclosures(c) \/ TakeCreation(c))
          /\ UNCHANGED accountsVars
    /\ UNCHANGED <<place, verifyVars, storageVars>>

Reply(t) ==
    /\ place = "verify"
    /\ Return(t) \/ Lose(t)
    /\ UNCHANGED <<place, apiVars, accountsVars, discloseVars, storageVars>>

FairSpec ==
    /\ Spec
    /\ \A c \in Call : WF_vars(Settle(c) \/ GoOn(c))
    /\ \A t \in Tab : WF_vars(Reply(t))

-----------------------------------------------------------------------------
(* What must hold                                                          *)

\* The inductive invariant, types included: that of each part, where the user is,
\* and nothing happens elsewhere.
IInv ==
    /\ place \in Place
    /\ ApiIInv
    /\ AccountsTypeOK
    /\ IF place = "accounts" THEN AccountsIInv
                             ELSE render.stage = "rendering" /\ NothingPicked
    /\ DiscloseTypeOK
    /\ IF place = "disclose" THEN DiscloseIInv
                             ELSE Told = {} /\ due = {}
    /\ VerifyIInv
    /\ StorageIInv

\* Nothing waits for ever: every call is settled and its page goes on, with a
\* toast or a table; the spinner of /disclose stops, and so does that of a link,
\* although answers get lost and the backend may never answer.
NothingWaitsForEver ==
    /\ \A c \in Call : calls[c].stage # "unused" ~> calls[c].stage = "done"
    /\ (place = "disclose" /\ Spinning) ~> ~Spinning
    /\ \A t \in Tab : view[t] = "asking" ~> view[t] # "asking"
=============================================================================
