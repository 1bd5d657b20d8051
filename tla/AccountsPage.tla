----------------------------- MODULE AccountsPage -----------------------------
(***************************************************************************)
(* The pages the server renders, home and /accounts, and the creation      *)
(* dialog of the latter (frontend/app/(dashboard)/page.tsx, accounts/).    *)
(*                                                                         *)
(* The dialog asks for a template, or none, and then for the details.  A   *)
(* template leaves its id in the dialog and its icon, name and description *)
(* in the form; each way out of the dialog forgets some of these only.     *)
(***************************************************************************)
EXTENDS ApiClient, Sequences

CONSTANTS
    Template,       \* the templates of accounts
    NoTemplate      \* undefined

ASSUME AccountsAssumption == NoTemplate \notin Template

VARIABLES
    render,     \* the page on the server
    signedIn,   \* the component has the user's token
    isTemplatesLoading,
    dialog,     \* the creation dialog and its form
    picks,      \* history: the template picked last, and those picked for this form
    body        \* what each creation under way has sent of templates

accountsVars == <<render, signedIn, isTemplatesLoading, dialog, picks, body>>

-----------------------------------------------------------------------------
(* Rendering on the server                                                 *)

\* What HomePage and AccountsPage fetch, one after the other.
HomePage == <<GetAccounts, GetSubscriptions, GetDevices>>
TablePage == <<GetAccounts>>

\* got is how many answers the page has.
Rendering(ops, got) == [ops |-> ops, got |-> got, stage |-> "rendering"]

BeginRender(c) ==
    /\ render.stage = "rendering"
    /\ c = render.got + 1
    /\ Turn(c)
    /\ calls' = Begun(calls, c, render.ops[c], "render")
    /\ UNCHANGED <<acked, cached, accountsVars>>

\* Fault: the pages go on without what they could not fetch.
TakeRenderAnyway(c) ==
    /\ Settled(c, "render", "resolved") \/ Settled(c, "render", "rejected")
    /\ calls' = Ended(calls, c)
    /\ render' = [render EXCEPT !.got = @ + 1,
                                !.stage = IF c = Len(render.ops) THEN "shown" ELSE @]
    /\ acked' = IF calls[c].stage = "resolved" THEN acked \cup {c} ELSE acked
    /\ UNCHANGED <<cached, signedIn, isTemplatesLoading, dialog, picks, body>>

\* One rejected call makes the whole page an error.
TakeRender(c) ==
    /\ \/ /\ Settled(c, "render", "resolved")
          /\ render' = [render EXCEPT !.got = @ + 1,
                                      !.stage = IF c = Len(render.ops) THEN "shown" ELSE @]
          /\ acked' = acked \cup {c}
       \/ /\ Settled(c, "render", "rejected")
          /\ render' = [render EXCEPT !.stage = "error"]
          /\ UNCHANGED acked
    /\ calls' = Ended(calls, c)
    /\ UNCHANGED <<cached, signedIn, isTemplatesLoading, dialog, picks, body>>

-----------------------------------------------------------------------------
(* The creation dialog                                                     *)

MaybeTemplate == Template \cup {NoTemplate}

\* template is selectedTemplateId, and app the template whose icon, name and
\* description the form has: the icon for sure, which has no field, the others
\* unless the user has written over them.
ResetForm(d) == [d EXCEPT !.app = NoTemplate, !.valid = FALSE]

FreshForm == [open |-> FALSE, step |-> "template", template |-> NoTemplate,
              app |-> NoTemplate, valid |-> FALSE]
NoPicks == [last |-> NoTemplate, since |-> {}]

\* The table, and in it the dialog, is on the page.
Table == render.stage = "shown" /\ render.ops = TablePage

Unless(x) == UNCHANGED <<calls, acked, render, body, x>>

\* With a token the hooks are enabled, and their queries begin.
ReceiveToken ==
    /\ Table /\ ~signedIn
    /\ signedIn' = TRUE
    /\ isTemplatesLoading' = TRUE
    /\ Unless(<<cached, dialog, picks>>)

\* The hooks of the user and of those who are trusted.
LoadHooks ==
    /\ signedIn
    /\ \E op \in {GetUsers, GetReceivers} : LoadQuery(op)
    /\ UNCHANGED accountsVars

\* The hook of the templates loads them, or fails, and begins again when the page
\* gets the focus.
LoadTemplates ==
    /\ isTemplatesLoading
    /\ isTemplatesLoading' = FALSE
    /\ cached' \in {cached, cached \cup {GetAccountsTemplates.path}}
    /\ Unless(<<signedIn, dialog, picks>>)

ReloadTemplates ==
    /\ signedIn /\ ~isTemplatesLoading
    /\ GetAccountsTemplates.path \notin cached
    /\ isTemplatesLoading' = TRUE
    /\ Unless(<<cached, signedIn, dialog, picks>>)

\* What the dialog offers to start from: nothing while the templates load, then
\* those there are, and the custom account.
AccountTemplateSelector ==
    IF isTemplatesLoading THEN {}
    ELSE IF GetAccountsTemplates.path \in cached THEN MaybeTemplate ELSE {NoTemplate}

DialogStep == UNCHANGED <<calls, acked, cached, render, signedIn, isTemplatesLoading>>

OpenDialog ==
    /\ Table /\ ~dialog.open
    /\ dialog' = [dialog EXCEPT !.open = TRUE]
    /\ DialogStep /\ UNCHANGED <<picks, body>>

\* Fault: the form is not reset.
CloseDialogKept ==
    /\ dialog.open
    /\ dialog' = [dialog EXCEPT !.open = FALSE, !.step = "template"]
    /\ picks' = NoPicks
    /\ DialogStep /\ UNCHANGED body

\* onOpenChange(false): the form is reset, the template id is not.
CloseDialog ==
    /\ dialog.open
    /\ dialog' = [ResetForm(dialog) EXCEPT !.open = FALSE, !.step = "template"]
    /\ picks' = NoPicks
    /\ DialogStep /\ UNCHANGED body

\* The dialog goes on to the form, for the template t.
Pick(t) ==
    /\ dialog.open /\ dialog.step = "template"
    /\ t \in AccountTemplateSelector
    /\ picks' = [last |-> t, since |-> picks.since \cup ({t} \cap Template)]
    /\ DialogStep /\ UNCHANGED body

\* Fault: the custom account keeps the template of an earlier pick.
HandleSelectTemplateKept(t) ==
    /\ Pick(t)
    /\ dialog' = IF t = NoTemplate
                 THEN [dialog EXCEPT !.step = "edit"]
                 ELSE [dialog EXCEPT !.step = "edit", !.template = t, !.app = t]

\* A template also fills in icon, name and description; the custom account leaves
\* them as they are.
HandleSelectTemplate(t) ==
    /\ Pick(t)
    /\ dialog' = IF t = NoTemplate
                 THEN [dialog EXCEPT !.step = "edit", !.template = t]
                 ELSE [dialog EXCEPT !.step = "edit", !.template = t, !.app = t]

\* Back forgets the template id, not what the template has filled in.
BackToTemplates ==
    /\ dialog.open /\ dialog.step = "edit"
    /\ dialog' = [dialog EXCEPT !.step = "template", !.template = NoTemplate]
    /\ picks' = [picks EXCEPT !.last = NoTemplate]
    /\ DialogStep /\ UNCHANGED body

\* The user fills in what accountSchema asks for, one of the trusted users among
\* it, over what a template has filled in or not.
FillIn ==
    /\ dialog.open /\ dialog.step = "edit"
    /\ GetReceivers.path \in cached
    /\ dialog' = [dialog EXCEPT !.valid = TRUE]
    /\ DialogStep /\ UNCHANGED <<picks, body>>

NoData == [template |-> NoTemplate, app |-> NoTemplate]

\* handleSubmit: without a user an error toast is all that happens.  The button
\* stays enabled meanwhile, so that the form can be submitted again.
HandleSubmit(c) ==
    /\ dialog.open /\ dialog.step = "edit" /\ dialog.valid
    /\ GetUsers.path \in cached
    /\ Turn(c)
    /\ Submits < MaxSubmits
    /\ calls' = Begun(calls, c, PostAccounts, "post")
    /\ body' = [body EXCEPT ![c] = [template |-> dialog.template, app |-> dialog.app]]
    /\ UNCHANGED <<acked, cached, render, signedIn, isTemplatesLoading, dialog, picks>>

\* A submission that has succeeded closes the dialog, whatever it shows by now,
\* and resets the form, but neither the step nor the template id.
Created == [ResetForm(dialog) EXCEPT !.open = FALSE]

\* Fault: the toast of success does not wait for the answer to be a success.
TakeAccountGladly(c) ==
    /\ Settled(c, "post", "resolved") \/ Settled(c, "post", "rejected")
    /\ acked' = acked \cup {c}
    /\ dialog' = Created
    /\ picks' = [picks EXCEPT !.since = {}]
    /\ calls' = Ended(calls, c)
    /\ body' = [body EXCEPT ![c] = NoData]
    /\ UNCHANGED <<cached, render, signedIn, isTemplatesLoading>>

\* A failure is a toast, and leaves the dialog as it is.
TakeAccount(c) ==
    /\ \/ /\ Settled(c, "post", "resolved")
          /\ acked' = acked \cup {c}
          /\ dialog' = Created
          /\ picks' = [picks EXCEPT !.since = {}]
       \/ /\ Settled(c, "post", "rejected")
          /\ UNCHANGED <<acked, dialog, picks>>
    /\ calls' = Ended(calls, c)
    /\ body' = [body EXCEPT ![c] = NoData]
    /\ UNCHANGED <<cached, render, signedIn, isTemplatesLoading>>

NothingPicked == picks = NoPicks /\ body = [c \in Call |-> NoData]

AccountsInit ==
    /\ render \in {Rendering(HomePage, 0), Rendering(TablePage, 0)}
    /\ signedIn = FALSE
    /\ isTemplatesLoading = FALSE
    /\ dialog = FreshForm
    /\ NothingPicked

AccountsNext ==
    \/ ReceiveToken \/ LoadHooks \/ LoadTemplates \/ ReloadTemplates
    \/ OpenDialog \/ CloseDialog \/ BackToTemplates \/ FillIn
    \/ \E t \in MaybeTemplate : HandleSelectTemplate(t)
    \/ \E c \in Call : BeginRender(c) \/ TakeRender(c) \/ HandleSubmit(c) \/ TakeAccount(c)

-----------------------------------------------------------------------------
(* What must hold                                                          *)

\* Type invariant.
AccountsTypeOK ==
    /\ render \in [ops : {HomePage, TablePage}, got : 0..3,
                   stage : {"rendering", "shown", "error"}]
    /\ signedIn \in BOOLEAN
    /\ isTemplatesLoading \in BOOLEAN
    /\ dialog \in [open : BOOLEAN, step : {"template", "edit"}, template : MaybeTemplate,
                   app : MaybeTemplate, valid : BOOLEAN]
    /\ picks \in [last : MaybeTemplate, since : SUBSET Template]
    /\ body \in [Call -> [template : MaybeTemplate, app : MaybeTemplate]]

\* A server-rendered page shows rows only if every one of its calls succeeded:
\* what could not be fetched is never shown as an empty list.
ShownIsWhole ==
    render.stage = "shown" => 1..Len(render.ops) \subseteq acked

\* The step begins the call c for this reason.
Begins(c, why) ==
    calls[c].stage = "unused" /\ calls'[c].stage # "unused" /\ calls'[c].why = why

\* Of d, which is a dialog or what is sent for it: it names the template picked last,
\* and what there is of a template is of this one, or if it names none of one that
\* was picked for this form.
AsPicked(d) ==
    /\ d.template = picks.last
    /\ d.app \in (IF d.template = NoTemplate THEN picks.since ELSE {d.template}) \cup {NoTemplate}

\* An account is created from the template the user picked last, and from none
\* if that was the custom account; it has no icon, name or description of another
\* template than the one it names, nor of one that was picked before the dialog
\* was closed, whatever openings, closings and completions of other submissions
\* came in between.  A custom account may have those of a template the user went
\* back from.
SentAsPicked ==
    [][\A c \in Call : Begins(c, "post") => AsPicked(body'[c])]_<<calls, body, picks>>

\* The details the dialog shows are for the template picked last, and a dialog that
\* is closed holds nothing of one but its id.
DialogOK ==
    /\ dialog.app \in picks.since \cup {NoTemplate}
    /\ dialog.step = "edit" => AsPicked(dialog)

\* The inductive invariant of the page: a page that is rendering has what it asked
\* for so far and waits for the next call only.
AccountsIInv ==
    /\ AccountsTypeOK
    /\ render.stage = "rendering" => render.got < Len(render.ops)
    /\ render.stage = "shown" => render.got = Len(render.ops)
    /\ render.stage # "error" => 1..render.got \subseteq acked
    /\ \A c \in Call : calls[c].why = "render" /\ calls[c].stage # "done" =>
                         render.stage = "rendering" /\ c = render.got + 1
    /\ \A c \in Call : calls[c].why = "post" => calls[c].op = PostAccounts
    /\ DialogOK
=============================================================================
