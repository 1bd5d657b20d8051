------------------------------- MODULE MCClient -------------------------------
(* Instances of Client for TLC.                                            *)
EXTENDS Client, TLC

\* exampleThemeStorage.toggle, the one updater in use.
Toggle == "toggle" :> ("light" :> "dark" @@ "dark" :> "light")

\* No two operations are the same request, nor two queries one entry of the
\* query client.
ASSUME Cardinality(Operation) = 28
=============================================================================
