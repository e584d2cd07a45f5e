---------------------------- MODULE PackageIntake ----------------------------
(***************************************************************************)
(* What is inside a package file, who reads it and what each reader takes. *)
(* A file is the sequence of the entries of its archive; the empty one     *)
(* stands for a file that is no archive or has nothing to read.  An entry  *)
(* has an extension and what a library is looked at for:                   *)
(*   size     "empty", "tiny", "fit", "big" or "over" the limit            *)
(*   format   starts like a dynamic library                                *)
(*   loads    the dynamic loader accepts it                                *)
(*   exports  the symbols of it that cloacina asks for                     *)
(*   readable what its metadata functions return can be converted          *)
(*                                                                         *)
(* Four places read the library of an archive: the registry takes the      *)
(* first with the extension of any platform, the loader and the reconciler *)
(* the first with that of theirs, and the debug tool the one the manifest  *)
(* names.                                                                  *)
(***************************************************************************)
EXTENDS Naturals, Sequences, FiniteSets

CONSTANTS
    Platform,     \* the library extension of this platform
    Strict        \* do warnings refuse a package?

Extensions == {"so", "dylib", "dll"}

ASSUME PlatformAssumption == Platform \in Extensions /\ Strict \in BOOLEAN

\* The symbols the packaged_workflow macro exports, and one that only the loader
\* asks for: the metadata function with the name of the file it has extracted to.
Made == {"cloacina_execute_task", "cloacina_get_task_metadata", "get_task_metadata"}
Fallback == "cloacina_get_task_metadata_workflow_package"
Symbols == Made \cup {Fallback}

Entry ==
    [ext : Extensions \cup {"json"}, size : {"empty", "tiny", "fit", "big", "over"},
     format : BOOLEAN, loads : BOOLEAN, exports : SUBSET Symbols, readable : BOOLEAN]

\* The library the packaged_workflow macro makes of a module.
Sound(ext) ==
    [ext |-> ext, size |-> "fit", format |-> TRUE, loads |-> TRUE,
     exports |-> Made, readable |-> TRUE]

Manifest == [Sound("json") EXCEPT !.format = FALSE, !.loads = FALSE, !.exports = {}]

\* create_package_archive: the manifest, then the library under the name it
\* has in the directory of the build.
Packed == <<Manifest, Sound(Platform)>>

-----------------------------------------------------------------------------
(***************************************************************************)
(* Readers: the first entry with one of the extensions, none if <<>>.      *)
(***************************************************************************)

FirstOf(archive, exts) ==
    LET fits == {i \in DOMAIN archive : archive[i].ext \in exts}
    IN  IF fits = {} THEN <<>>
        ELSE <<archive[CHOOSE i \in fits : \A j \in fits : i <= j]>>

\* WorkflowRegistryImpl::extract_so_from_cloacina.
ExtractSo(archive) == FirstOf(archive, Extensions)

\* PackageLoader::extract_library_from_archive.
ExtractLibrary(archive) == FirstOf(archive, {Platform})

\* RegistryReconciler::extract_library_from_cloacina.
ExtractForReconciler(archive) == FirstOf(archive, {Platform})

-----------------------------------------------------------------------------
(***************************************************************************)
(* PackageValidator, without metadata, as the registry calls it.           *)
(***************************************************************************)

SizeErrs(lib) == lib.size \in {"empty", "over"}
FormatErrs(lib) == ~lib.format \/ ~lib.loads

\* The validator knows two symbols, not the one the registrar needs.
SymbolsErr(lib) ==
    ~lib.loads \/ ~({"cloacina_execute_task", "cloacina_get_task_metadata"} \subseteq lib.exports)

SizeWarns(lib) == lib.size \in {"tiny", "big"}

\* The check looks at the copy the validator has just written, which nobody
\* has made executable: a warning for every library there is.
PermissionsWarn(lib) == TRUE

Validates(lib) ==
    /\ ~SizeErrs(lib) /\ ~FormatErrs(lib) /\ ~SymbolsErr(lib)
    /\ Strict => ~SizeWarns(lib) /\ ~PermissionsWarn(lib)

-----------------------------------------------------------------------------
\* PackageLoader::extract_metadata.
HasMetadata(lib) ==
    /\ lib.loads /\ lib.readable
    /\ lib.exports \cap {"cloacina_get_task_metadata", Fallback} # {}

\* TaskRegistrar::extract_task_metadata_from_library.
HasTasks(lib) == lib.loads /\ "get_task_metadata" \in lib.exports /\ lib.readable

\* register_workflow up to where it stores the package.
IsStored(archive) ==
    /\ ExtractSo(archive) # <<>> /\ Validates(Head(ExtractSo(archive)))
    /\ ExtractLibrary(archive) # <<>> /\ HasMetadata(Head(ExtractLibrary(archive)))

\* ... and where it registers the tasks, with the package stored.
IsAccepted(archive) == IsStored(archive) /\ HasTasks(Head(ExtractSo(archive)))

\* load_package up to the first task it puts into the registry.
Loads(archive) ==
    LET library == ExtractForReconciler(archive)
    IN  library # <<>> /\ HasMetadata(Head(library)) /\ HasTasks(Head(library))

\* Every archive create_package_archive makes has one library.
OneLibrary(archive) ==
    Cardinality({i \in DOMAIN archive : archive[i].ext \in Extensions}) = 1
=============================================================================
