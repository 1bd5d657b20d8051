----------------------------- MODULE DisclosePage -----------------------------
(***************************************************************************)
(* The page /disclose: a table of the disclosures a user has asked for and *)
(* a dialog that asks for another                                          *)
(* (frontend/app/(dashboard)/disclose/disclosures-table.tsx and            *)
(* disclosure-creation-dialog.tsx).                                        *)
(*                                                                         *)
(* The table is fetched when the page loads and again after each creation; *)
(* nothing keeps two of these fetches apart.  An error, or a fetch that    *)
(* finds the table empty, replaces the page and takes the dialog with it,  *)
(* while a submission of that dialog goes on.                              *)
(***************************************************************************)
EXTENDS ApiClient

VARIABLES
    others,     \* the user has asked for disclosures before
    listed,     \* the disclosures of this page that data holds
    loaded,     \* data has come with a fetch
    isLoading,
    error,
    creation,   \* the creation dialog
    owed,       \* history: the disclosures the user was told of when each fetch began
    due         \* history: those of the fetch that has ended last

discloseVars == <<others, listed, loaded, isLoading, error, creation, owed, due>>

\* busy is the submission the dialog is loading for, or 0.
FreshDialog == [open |-> FALSE, choices |-> FALSE, filled |-> FALSE, busy |-> 0]

DiscloseInit ==
    /\ others \in BOOLEAN
    /\ listed = {}
    /\ loaded = FALSE
    /\ isLoading = TRUE
    /\ error = FALSE
    /\ creation = FreshDialog
    /\ owed = [c \in Call |-> {}]
    /\ due = {}

\* There is nothing in the table.
Empty(some, rows) == ~some \/ (~others /\ rows = {})

Spinning == isLoading /\ Empty(loaded, listed)

\* The page renders, with the dialog d unless something is shown instead of it.
Present(loading, err, some, rows, d) ==
    /\ isLoading' = loading
    /\ error' = err
    /\ loaded' = some
    /\ listed' = rows
    /\ creation' = IF err \/ (loading /\ Empty(some, rows)) THEN FreshDialog ELSE d
    /\ UNCHANGED others

Dialog(d) == Present(isLoading, error, loaded, listed, d) /\ UNCHANGED <<owed, due>>

\* The disclosures whose creation the user was told of.
Told == {c \in acked : calls[c].why = "post" /\ calls[c].op = PostDisclosures}

-----------------------------------------------------------------------------
(* The table                                                               *)

\* The effect that runs when the page has loaded.
FetchDisclosures(c) ==
    /\ c = 1
    /\ Turn(c)
    /\ calls' = Begun(calls, c, GetDisclosures, "list")
    /\ UNCHANGED <<acked, cached, discloseVars>>

\* The fetch c has ended, and the page goes on.
FetchEnds(c) ==
    /\ calls' = Ended(calls, c)
    /\ due' = owed[c]
    /\ UNCHANGED <<acked, cached, owed>>

\* Fault: a fetch that failed sets no error.
TakeDisclosuresQuietly(c) ==
    /\ \/ /\ Settled(c, "list", "resolved")
          /\ Present(FALSE, FALSE, TRUE, calls[c].seen, creation)
       \/ /\ Settled(c, "list", "rejected")
          /\ Present(FALSE, error, loaded, listed, creation)
    /\ FetchEnds(c)

\* Fault: isLoading is reset where data is set, and nowhere else.
TakeDisclosuresHanging(c) ==
    /\ \/ /\ Settled(c, "list", "resolved")
          /\ Present(FALSE, FALSE, TRUE, calls[c].seen, creation)
       \/ /\ Settled(c, "list", "rejected")
          /\ Present(isLoading, TRUE, loaded, listed, creation)
    /\ FetchEnds(c)

\* fetchDisclosures goes on: whichever fetch ends last decides what is shown.
TakeDisclosures(c) ==
    /\ \/ /\ Settled(c, "list", "resolved")
          /\ Present(FALSE, FALSE, TRUE, calls[c].seen, creation)
       \/ /\ Settled(c, "list", "rejected")
          /\ Present(FALSE, TRUE, loaded, listed, creation)
    /\ FetchEnds(c)

-----------------------------------------------------------------------------
(* The dialog                                                              *)

\* The table is on the page, and the dialog with it.
Visible == ~error /\ ~Spinning

OpenCreation ==
    /\ Visible /\ ~creation.open
    /\ Dialog([creation EXCEPT !.open = TRUE])
    /\ UNCHANGED apiVars

\* The receivers, fetched at each opening, have come; a failure is only a toast.
LoadChoices ==
    /\ creation.open
    /\ Dialog([creation EXCEPT !.choices = TRUE])
    /\ UNCHANGED apiVars

\* The user chooses a passer and a number of days between 1 and 365.
FillInCreation ==
    /\ creation.open /\ creation.choices
    /\ Dialog([creation EXCEPT !.filled = TRUE])
    /\ UNCHANGED apiVars

\* Cancel, or a click outside: the form and the submission stay.
CancelCreation ==
    /\ creation.open
    /\ Dialog([creation EXCEPT !.open = FALSE])
    /\ UNCHANGED apiVars

\* onSubmit; the button is disabled while the dialog is loading.
OnSubmit(c) ==
    /\ creation.open /\ creation.filled /\ creation.busy = 0
    /\ Turn(c)
    /\ Submits < MaxSubmits
    /\ Dialog([creation EXCEPT !.busy = c])
    /\ calls' = Begun(calls, c, PostDisclosures, "post")
    /\ UNCHANGED <<acked, cached>>

\* The dialog after its submission c has ended; that of an earlier dialog
\* changes nothing in this one.
Released(c)  == IF creation.busy = c THEN [creation EXCEPT !.busy = 0] ELSE creation
Submitted(c) == IF creation.busy = c
                THEN [creation EXCEPT !.busy = 0, !.open = FALSE, !.filled = FALSE]
                ELSE creation

\* Success is told, the dialog closes, and onSuccessfulCreation fetches the table
\* again, as the call d.
TakeCreation(c) ==
    /\ \/ /\ Settled(c, "post", "resolved")
          /\ acked' = acked \cup {c}
          /\ \E d \in Call :
               /\ Turn(d)
               /\ calls' = Begun(Ended(calls, c), d, GetDisclosures, "list")
               /\ owed' = [owed EXCEPT ![d] = Told \cup {c}]
          /\ Present(TRUE, error, loaded, listed, Submitted(c))
          /\ UNCHANGED due
       \/ /\ Settled(c, "post", "rejected")
          /\ Dialog(Released(c))
          /\ calls' = Ended(calls, c)
          /\ UNCHANGED acked
    /\ UNCHANGED cached

DiscloseNext ==
    \/ OpenCreation \/ LoadChoices \/ FillInCreation \/ CancelCreation
    \/ \E c \in Call : FetchDisclosures(c) \/ TakeDisclosures(c) \/ OnSubmit(c) \/ TakeCreation(c)

-----------------------------------------------------------------------------
(* What must hold                                                          *)

\* Type invariant.
DiscloseTypeOK ==
    /\ others \in BOOLEAN
    /\ listed \subseteq Call
    /\ loaded \in BOOLEAN
    /\ isLoading \in BOOLEAN
    /\ error \in BOOLEAN
    /\ creation \in [open : BOOLEAN, choices : BOOLEAN, filled : BOOLEAN, busy : Call \cup {0}]
    /\ owed \in [Call -> SUBSET Call]
    /\ due \subseteq Call

Fetches == {c \in Call : calls[c].why = "list"}

\* A table that is shown without an error holds every disclosure the user had been
\* told of when the fetch that ended last was begun: when others overtook it, when
\* it or others were repeated or failed, and when the submission was one of a
\* dialog that an error or a spinner had taken away.  Of the disclosures that are
\* told of later it says nothing: an older fetch that ends last leaves them out.
ListShowsCreated == ~error => due \subseteq listed

\* The inductive invariant of the page: what a fetch has to show is in its answer.
DiscloseIInv ==
    /\ DiscloseTypeOK
    /\ \A c \in Fetches : calls[c].op = GetDisclosures /\ calls[c].stage # "unused"
    /\ \A c \in Call : calls[c].why = "post" => calls[c].op = PostDisclosures
    /\ \A c \in Call : owed[c] \subseteq Told
    /\ \A c \in Fetches : calls[c].stage \in {"back", "resolved"} => owed[c] \subseteq calls[c].seen
    /\ ListShowsCreated
=============================================================================
