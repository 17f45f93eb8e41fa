---------------------------- MODULE ModuleLoader ----------------------------
(***************************************************************************)
(* Where a macro's code comes from: the TypescriptModuleLoader::load of    *)
(* core/src/macro_executor.rs and of the legacy src/src/macro_executor.rs, *)
(* and resolve_macro_invocation, which finds the entry file of a macro by  *)
(* name.  These are functions of the file system: the state is a file     *)
(* tree the environment grows one entry at a time, and the loaders are    *)
(* operators over it, compared with the resolution rules of spec 4.1.     *)
(*                                                                         *)
(* A path is a sequence of segments [name, ext]; ext = "" is a segment    *)
(* without extension.  The specifier's referrer directory and the macro   *)
(* directory are the empty path.                                          *)
(***************************************************************************)
EXTENDS Naturals, Sequences, FiniteSets

CONSTANTS
  FilePaths,   \* the files the environment may create
  DirPaths,    \* the directories the environment may create
  LoadPaths,   \* the file: specifiers handed to load
  MacroName    \* the name given to resolve_macro_invocation

VARIABLES files, dirs
vars == <<files, dirs>>

Seg(n, e) == [name |-> n, ext |-> e]
InGame == Seg("in_game", "")

(* Path::join, Path::extension and Path::with_extension. *)
Join(p, s) == Append(p, s)
Ext(p) == p[Len(p)].ext
WithExt(p, e) == [p EXCEPT ![Len(p)].ext = e]

(* Every path is a non-empty sequence of segments, and the environment
   creates directories without an extension only: a directory named m.ts
   is outside the file trees considered (it would make the legacy loader
   look for m.ts/index.ts where spec 4.1 reads m.js). *)
Segment == [name : STRING, ext : STRING]
ASSUME LoaderAssumption ==
  /\ \A p \in FilePaths \cup DirPaths \cup LoadPaths : p \in Seq(Segment) /\ p # << >>
  /\ \A d \in DirPaths : Ext(d) = ""

(* Path::is_file, Path::is_dir and Path::exists. *)
IsFile(p) == p \in files
IsDir(p) == p \in dirs
Exists(p) == IsFile(p) \/ IsDir(p)

-----------------------------------------------------------------------------
(* The environment: a file or a directory is created inside an existing
   directory (the empty path is the base directory). *)
Parent(p) == SubSeq(p, 1, Len(p) - 1)

CreateFile(f) ==
  /\ ~Exists(f)
  /\ Parent(f) = << >> \/ IsDir(Parent(f))
  /\ files' = files \cup {f}
  /\ UNCHANGED dirs

CreateDir(d) ==
  /\ ~Exists(d)
  /\ Parent(d) = << >> \/ IsDir(Parent(d))
  /\ dirs' = dirs \cup {d}
  /\ UNCHANGED files

Init == files = {} /\ dirs = {}

Next == \E f \in FilePaths : CreateFile(f) \/ \E d \in DirPaths : CreateDir(d)

Spec == Init /\ [][Next]_vars

-----------------------------------------------------------------------------
(* MediaType::from_path, on the extensions a segment can carry here. *)
MediaOfExt == [ts |-> "TypeScript", tsx |-> "Tsx", mts |-> "Mts", cts |-> "Cts",
               js |-> "JavaScript", mjs |-> "Mjs", cjs |-> "Cjs",
               jsx |-> "Jsx", json |-> "Json"]
MediaOf(p) == IF Ext(p) \in DOMAIN MediaOfExt THEN MediaOfExt[Ext(p)] ELSE "Unknown"

(* The content types a response may carry, by the media type
   MediaType::from_content_type gives them, or none at all. *)
ContentTypes == {"TypeScript", "JavaScript", "Jsx", "Json", "Unknown", "NoHeader"}

(* A specifier: a file: URL, an http(s) URL with the response the fetch
   gets, or a URL of another scheme. *)
FileSpec(p) == [scheme |-> "file", path |-> p, ok |-> TRUE, ctype |-> "NoHeader"]
HttpSpecs == [scheme : {"https"}, path : {<< >>}, ok : BOOLEAN, ctype : ContentTypes]
OtherSpec == [scheme |-> "data", path |-> << >>, ok |-> TRUE, ctype |-> "NoHeader"]
Specifiers == {FileSpec(p) : p \in LoadPaths} \cup HttpSpecs \cup {OtherSpec}

Fail == [ok |-> FALSE, file |-> << >>, type |-> "None", transpile |-> FALSE]
Loaded(p, k) == [ok |-> TRUE, file |-> p, type |-> k.type, transpile |-> k.transpile]

Unsupported == [type |-> "None", transpile |-> FALSE]

(* Mutant: Jsx passed through untranspiled. *)
ModuleKindJsxUntranspiled(mt) ==
  CASE mt \in {"JavaScript", "Mjs", "Cjs", "Jsx"} -> [type |-> "JavaScript", transpile |-> FALSE]
    [] mt \in {"TypeScript", "Mts", "Cts", "Dts", "Dmts", "Dcts", "Tsx"} ->
         [type |-> "JavaScript", transpile |-> TRUE]
    [] mt = "Json" -> [type |-> "Json", transpile |-> FALSE]
    [] OTHER -> Unsupported

(* The (module_type, should_transpile) match of load; bail! is Unsupported. *)
ModuleKind(mt) ==
  CASE mt \in {"JavaScript", "Mjs", "Cjs"} -> [type |-> "JavaScript", transpile |-> FALSE]
    [] mt \in {"Jsx", "TypeScript", "Mts", "Cts", "Dts", "Dmts", "Dcts", "Tsx"} ->
         [type |-> "JavaScript", transpile |-> TRUE]
    [] mt = "Json" -> [type |-> "Json", transpile |-> FALSE]
    [] OTHER -> Unsupported

(* The media type is checked before the file is read; reading a directory
   or a missing path fails. *)
LoadFile(p) ==
  IF ModuleKind(MediaOf(p)) = Unsupported \/ ~IsFile(p) THEN Fail
  ELSE Loaded(p, ModuleKind(MediaOf(p)))

(* core load: a file: URL is read as it is; an http(s) URL is fetched, and
   fails on a bad status, a missing content-type or an unsupported type. *)
CoreLoad(s) ==
  CASE s.scheme = "file" -> LoadFile(s.path)
    [] s.scheme \in {"http", "https"} ->
         IF ~s.ok \/ s.ctype = "NoHeader" \/ ModuleKind(s.ctype) = Unsupported THEN Fail
         ELSE Loaded(<< >>, ModuleKind(s.ctype))
    [] OTHER -> Fail

(* Mutant: the directory's index.js tried before its index.ts. *)
LegacyPathIndexJsFirst(p) ==
  LET p1 == IF Ext(p) = "" /\ Exists(WithExt(p, "ts")) THEN WithExt(p, "ts")
            ELSE IF Exists(WithExt(p, "js")) THEN WithExt(p, "js")
            ELSE p
  IN  IF IsDir(p1)
        THEN IF Exists(Join(p1, Seg("index", "js"))) THEN Join(p1, Seg("index", "js"))
             ELSE Join(p1, Seg("index", "ts"))
        ELSE p1

(* The legacy loader's choice of file: .ts for an extensionless path, else
   .js for any path whose sibling .js exists, then index.ts, or else
   index.js, inside a directory. *)
LegacyPath(p) ==
  LET p1 == IF Ext(p) = "" /\ Exists(WithExt(p, "ts")) THEN WithExt(p, "ts")
            ELSE IF Exists(WithExt(p, "js")) THEN WithExt(p, "js")
            ELSE p
  IN  IF IsDir(p1)
        THEN IF Exists(Join(p1, Seg("index", "ts"))) THEN Join(p1, Seg("index", "ts"))
             ELSE Join(p1, Seg("index", "js"))
        ELSE p1

(* legacy load: only file: URLs. *)
LegacyLoad(s) == IF s.scheme = "file" THEN LoadFile(LegacyPath(s.path)) ELSE Fail

-----------------------------------------------------------------------------
(* resolve_macro_invocation, one call: the .ts file, the .js file, the
   folder's index.ts or index.js (None if it has neither), and otherwise
   what Fallback gives. *)
NoPath == << >>
Attempt(dir, name, Fallback) ==
  LET ts == WithExt(Join(dir, Seg(name, "")), "ts")
      js == WithExt(Join(dir, Seg(name, "")), "js")
      folder == Join(dir, Seg(name, ""))
  IN  CASE IsFile(ts) -> ts
        [] IsFile(js) -> js
        [] IsDir(folder) ->
             IF Exists(Join(folder, Seg("index", "ts"))) THEN Join(folder, Seg("index", "ts"))
             ELSE IF Exists(Join(folder, Seg("index", "js"))) THEN Join(folder, Seg("index", "js"))
             ELSE NoPath
        [] OTHER -> Fallback

(* The recursion has depth one: the call made with is_in_game = FALSE
   falls back to a call with path_to_macro.join("in_game") and TRUE, which
   joins "in_game" once more. *)
ResolveMacroInvocation(path, name, isInGame) ==
  IF isInGame THEN Attempt(Join(path, InGame), name, NoPath)
  ELSE Attempt(path, name, Attempt(Join(Join(path, InGame), InGame), name, NoPath))


-----------------------------------------------------------------------------
(* The rules of spec 4.1, as a reference.  A file: path is read from the
   first of its candidates that is a file: for a path without extension,
   its .ts and then its .js sibling; then, for a directory, its index.ts
   and then its index.js, and otherwise the path itself.  The media type
   is that of the chosen file, mapped by the table of spec 4.1. *)
SpecKind(mt) ==
  IF mt \in {"JavaScript", "Mjs", "Cjs"} THEN [type |-> "JavaScript", transpile |-> FALSE]
  ELSE IF mt \in {"Jsx", "TypeScript", "Mts", "Cts", "Tsx", "Dts", "Dmts", "Dcts"}
    THEN [type |-> "JavaScript", transpile |-> TRUE]
  ELSE IF mt = "Json" THEN [type |-> "Json", transpile |-> FALSE]
  ELSE Unsupported

SpecCandidates(p) ==
  (IF Ext(p) = "" THEN << WithExt(p, "ts"), WithExt(p, "js") >> ELSE << >>)
  \o (IF IsDir(p) THEN << Join(p, Seg("index", "ts")), Join(p, Seg("index", "js")) >>
      ELSE << p >>)

SpecLoadFile(p) ==
  LET C == SpecCandidates(p)
      found == {i \in 1 .. Len(C) : IsFile(C[i])}
      first == CHOOSE i \in found : \A j \in found : i <= j
  IN  IF found = {} \/ SpecKind(MediaOf(C[first])) = Unsupported THEN Fail
      ELSE Loaded(C[first], SpecKind(MediaOf(C[first])))

SpecLoad(s) ==
  CASE s.scheme = "file" -> SpecLoadFile(s.path)
    [] s.scheme \in {"http", "https"} ->
         IF ~s.ok \/ s.ctype = "NoHeader" \/ SpecKind(s.ctype) = Unsupported THEN Fail
         ELSE Loaded(<< >>, SpecKind(s.ctype))
    [] OTHER -> Fail

-----------------------------------------------------------------------------
(* Where it needs no inference, the core loader loads what spec 4.1 says:
   for an http(s) or other URL, and for a file: path with an extension
   that is not a directory, the same file with the same module type and
   transpile flag, or fails when the spec fails. *)
CoreAgreesWithoutInference ==
  \A s \in Specifiers :
    (s.scheme # "file" \/ (Ext(s.path) # "" /\ ~IsDir(s.path))) => CoreLoad(s) = SpecLoad(s)

(* The core loader follows spec 4.1 on every specifier, the extensionless
   and directory imports of spec 6 included. *)
CoreFollowsSpec == \A s \in Specifiers : CoreLoad(s) = SpecLoad(s)

(* On an extensionless file: path, the legacy loader's choice (sibling
   .ts, sibling .js, then index.ts or index.js) loads what spec 4.1 says. *)
LegacyAgreesWhenExtensionless ==
  \A p \in LoadPaths : Ext(p) = "" => LegacyLoad(FileSpec(p)) = SpecLoad(FileSpec(p))

(* The legacy loader follows spec 4.1 on every file: path: an import that
   names its extension loads that file. *)
LegacyFollowsSpec == \A p \in LoadPaths : LegacyLoad(FileSpec(p)) = SpecLoad(FileSpec(p))

(* When the macro directory has neither name.ts, name.js nor a folder
   name, resolve_macro_invocation(path, name, false) falls back to the
   in_game directory: it returns what the call with is_in_game = true
   returns. *)
InGameFallback ==
  LET folder == Join(<< >>, Seg(MacroName, "")) IN
  (~IsFile(WithExt(folder, "ts")) /\ ~IsFile(WithExt(folder, "js")) /\ ~IsDir(folder))
    => ResolveMacroInvocation(<< >>, MacroName, FALSE)
         = ResolveMacroInvocation(<< >>, MacroName, TRUE)

=============================================================================
