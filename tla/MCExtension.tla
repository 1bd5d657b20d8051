----------------------------- MODULE MCExtension -----------------------------
(* Instances of Extension for TLC.                                         *)
EXTENDS Extension, TLC

\* One feature without a folder, one with a folder, one with two.
SomeFeatures == {"background", "content", "devtools"}
=============================================================================
