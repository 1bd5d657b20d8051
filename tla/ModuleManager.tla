---------------------------- MODULE ModuleManager ----------------------------
(***************************************************************************)
(* The tool that takes features out of the extension and puts them back    *)
(* (chrome-ext/packages/module-manager): it packs the folders of a feature *)
(* into archives and removes them, or unpacks them again.                  *)
(*                                                                         *)
(* A run of it is one process.  It reads at its start what folders and     *)
(* archives there are, and handles the features chosen in a fixed order.   *)
(* An archive is a stream that may be written long after the tool has gone *)
(* on, and nobody waits for a removal.  The process may die at any of its  *)
(* steps, by an error or a signal, and all of this with it.                *)
(***************************************************************************)
EXTENDS Naturals, Sequences, SequencesExt

CONSTANT Feature    \* the features there are

\* The choices, in the order they are handled, and the folders of each.
Ordered == <<"background", "content", "content-ui", "content-runtime", "new-tab",
             "popup", "devtools", "side-panel", "options">>

FoldersOf(f) == CASE f = "background" -> <<>>
                  [] f = "devtools"   -> <<"devtools", "devtools-panel">>
                  [] OTHER            -> <<f>>

ASSUME ModulesAssumption == Feature \subseteq ToSet(Ordered)

Folder == UNION {ToSet(FoldersOf(f)) : f \in Feature}

VARIABLES
    folder,     \* pages/: a folder has all of its files, some, or is not there
    archive,    \* archive/: with all files, with some, cut short, or not there
    hasArchive, \* there is the directory archive/
    manifest,   \* the features manifest.ts names
    tool,       \* the process: what it is at, and what it has read
    stream,     \* what is still to be written to each archive
    removing,   \* the folders rimraf is at
    harmed      \* history: folders that were packed or left when files were missing

modulesVars == <<folder, archive, hasArchive, manifest, tool, stream, removing, harmed>>

\* The repository as it is.
Missing == {"new-tab"} \cap Folder
NamedFeatures   == Feature \ {"content-runtime", "new-tab"}

\* at is how many folders of the first feature of todo are done, half that the next
\* one is begun; memory is the manifest object.
NoTool == [stage |-> "off", name |-> "delete", found |-> {}, todo |-> <<>>, at |-> 0,
        half |-> FALSE, memory |-> {}]

NoFiles == [d \in Folder |-> "none"]

ModulesInit ==
    /\ folder = [d \in Folder |-> IF d \in Missing THEN "none" ELSE "all"]
    /\ archive = NoFiles
    /\ hasArchive = FALSE
    /\ manifest = NamedFeatures
    /\ tool = NoTool
    /\ stream = NoFiles
    /\ removing = {}
    /\ harmed = Missing

-----------------------------------------------------------------------------
(* The choice                                                              *)

Still(x) == UNCHANGED <<hasArchive, manifest, harmed, x>>

\* A developer makes the directory, which is not in the repository.
MakeArchiveFolder ==
    /\ ~hasArchive
    /\ hasArchive' = TRUE
    /\ UNCHANGED <<folder, archive, manifest, tool, stream, removing, harmed>>

\* Both directories are read when the tools are imported, before one is chosen:
\* without that of the archives the process ends here.
StartTool(name) ==
    /\ hasArchive /\ tool.stage = "off"
    /\ tool' = [NoTool EXCEPT !.stage = "asking", !.name = name, !.memory = manifest,
                           !.found = {d \in Folder : IF name = "delete"
                                                     THEN folder[d] # "none"
                                                     ELSE archive[d] # "none"}]
    /\ Still(<<folder, archive, stream, removing>>)

\* The background has no folder: the manifest tells whether it is there.
Selectable ==
    {f \in Feature : IF f = "background" THEN (f \in tool.memory) = (tool.name = "delete")
                                         ELSE f \in tool.found}

ChooseFeatures(answers) ==
    /\ tool.stage = "asking"
    /\ answers # {} /\ answers \subseteq Selectable
    /\ tool' = [tool EXCEPT !.stage = tool.name,
                            !.todo = SelectSeq(Ordered, LAMBDA f : f \in answers)]
    /\ Still(<<folder, archive, stream, removing>>)

\* There is nothing to choose, or nothing is chosen: process.exit(0).
ChooseNothing ==
    /\ tool.stage = "asking"
    /\ tool' = NoTool
    /\ Still(<<folder, archive, stream, removing>>)

-----------------------------------------------------------------------------
(* Delete                                                                  *)

Handling(stage) == tool.stage = stage /\ tool.todo # <<>>

\* The feature at hand, and which of its folders is next, if one is.
InHand == Head(tool.todo)
More   == tool.at < Len(FoldersOf(InHand))
Which  == FoldersOf(InHand)[tool.at + 1]

Handled(memory) == [tool EXCEPT !.todo = Tail(@), !.at = 0, !.memory = memory]

\* zipFolder lists the files there are and opens the archive, which truncates one
\* that was there.
BeginZip ==
    /\ Handling("delete") /\ More /\ ~tool.half
    /\ tool' = [tool EXCEPT !.half = TRUE]
    /\ stream' = [stream EXCEPT ![Which] = IF folder[Which] = "all" THEN "all" ELSE "some"]
    /\ archive' = [archive EXCEPT ![Which] = "cut"]
    /\ harmed' = IF folder[Which] = "all" THEN harmed ELSE harmed \cup {Which}
    /\ UNCHANGED <<folder, hasArchive, manifest, removing>>

\* The last of it was given to the stream, and the promise is resolved.
EndZip ==
    /\ Handling("delete") /\ tool.half
    /\ tool' = [tool EXCEPT !.half = FALSE, !.at = @ + 1]
    /\ Still(<<folder, archive, stream, removing>>)


\* All folders are packed: they are removed from now on, and the entry is taken out.
RemoveFeature ==
    /\ Handling("delete") /\ ~More
    /\ removing' = removing \cup ToSet(FoldersOf(InHand))
    /\ tool' = Handled(tool.memory \ {InHand})
    /\ Still(<<folder, archive, stream>>)

\* The stream of an archive has been written, at any time after its end.
Flush(d) ==
    /\ stream[d] # "none"
    /\ ~(Handling("delete") /\ tool.half /\ d = Which)
    /\ archive' = [archive EXCEPT ![d] = stream[d]]
    /\ stream' = [stream EXCEPT ![d] = "none"]
    /\ Still(<<folder, tool, removing>>)

\* rimraf removes a file, or the last and the folder.
RemoveFile(d) ==
    /\ d \in removing
    /\ \/ folder[d] = "all" /\ folder' = [folder EXCEPT ![d] = "some"] /\ UNCHANGED removing
       \/ folder' = [folder EXCEPT ![d] = "none"] /\ removing' = removing \ {d}
    /\ Still(<<archive, tool, stream>>)

-----------------------------------------------------------------------------
(* Recover                                                                 *)

\* The archive is unpacked in memory, and then written file by file; one that is
\* cut short or is not there is an error.
BeginUnzip ==
    /\ Handling("recover") /\ More /\ ~tool.half
    /\ archive[Which] \in {"all", "some"}
    /\ tool' = [tool EXCEPT !.half = TRUE]
    /\ folder' = [folder EXCEPT ![Which] = IF @ = "none" THEN "some" ELSE @]
    /\ Still(<<archive, stream, removing>>)

\* All files are written, and the archive is deleted.
EndUnzip ==
    /\ Handling("recover") /\ tool.half
    /\ tool' = [tool EXCEPT !.half = FALSE, !.at = @ + 1]
    /\ folder' = [folder EXCEPT ![Which] = IF archive[Which] = "all" THEN "all" ELSE @]
    /\ archive' = [archive EXCEPT ![Which] = "none"]
    /\ Still(<<stream, removing>>)

\* The entry is there, and the folders are.
RecoverFeature ==
    /\ Handling("recover") /\ ~More
    /\ tool' = Handled(tool.memory \cup {InHand})
    /\ Still(<<folder, archive, stream, removing>>)

-----------------------------------------------------------------------------
(* The end of the process                                                  *)

\* What manifest.ts is replaced by.  The expression that is looked for ends in
\* "} satisfies", of which manifest.ts has a comment only: nothing is replaced.
Rewritten(file, memory) == file

WriteManifest ==
    /\ tool.stage \in {"delete", "recover"} /\ tool.todo = <<>>
    /\ manifest' = Rewritten(manifest, tool.memory)
    /\ tool' = [tool EXCEPT !.stage = "leaving"]
    /\ UNCHANGED <<folder, archive, hasArchive, stream, removing, harmed>>

\* eslint and pnpm install have run, and nothing is left to do for the event loop.
Exit ==
    /\ tool.stage = "leaving"
    /\ stream = NoFiles /\ removing = {}
    /\ tool' = NoTool
    /\ Still(<<folder, archive, stream, removing>>)

\* The process dies: an archive that is not written, or one of the commands at its
\* end fails, or the developer interrupts it.
Die ==
    /\ tool.stage # "off"
    /\ tool' = NoTool
    /\ harmed' = harmed \cup {d \in Folder : stream[d] # "none" /\ folder[d] # "all"}
    /\ stream' = NoFiles
    /\ removing' = {}
    /\ UNCHANGED <<folder, archive, hasArchive, manifest>>

ModulesNext ==
    \/ MakeArchiveFolder \/ ChooseNothing
    \/ \E name \in {"delete", "recover"} : StartTool(name)
    \/ \E answers \in SUBSET Feature : ChooseFeatures(answers)
    \/ BeginZip \/ EndZip \/ RemoveFeature \/ BeginUnzip \/ EndUnzip \/ RecoverFeature
    \/ \E d \in Folder : Flush(d) \/ RemoveFile(d)
    \/ WriteManifest \/ Exit \/ Die

ModulesSpec == ModulesInit /\ [][ModulesNext]_modulesVars

-----------------------------------------------------------------------------
(* What must hold                                                          *)

\* Type invariant.
ModulesTypeOK ==
    /\ folder \in [Folder -> {"all", "some", "none"}]
    /\ archive \in [Folder -> {"all", "some", "cut", "none"}]
    /\ hasArchive \in BOOLEAN
    /\ manifest \subseteq Feature
    /\ tool \in [stage : {"off", "asking", "delete", "recover", "leaving"},
                 name : {"delete", "recover"}, found : SUBSET Folder, todo : Seq(Feature),
                 at : 0..2, half : BOOLEAN, memory : SUBSET Feature]
    /\ stream \in [Folder -> {"all", "some", "none"}]
    /\ removing \subseteq Folder
    /\ harmed \subseteq Folder

=============================================================================
