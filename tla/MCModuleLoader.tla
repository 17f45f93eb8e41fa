--------------------------- MODULE MCModuleLoader ---------------------------
(* Two file trees for ModuleLoader: the entries an import of "m" can meet
   (m with each extension, or m as a folder with index files), and the
   entries resolve_macro_invocation looks for, a macro "n" in the base
   directory, in in_game/ and in in_game/in_game/. *)
EXTENDS ModuleLoader

LoaderExts == {"", "ts", "js", "jsx", "json", "txt"}
LoaderFiles == {<< Seg("m", e) >> : e \in LoaderExts}
                 \cup {<< Seg("m", ""), Seg("index", e) >> : e \in {"ts", "js"}}
LoaderDirs == {<< Seg("m", "") >>}
LoaderSpecs == {<< Seg("m", e) >> : e \in LoaderExts}

MacroFiles == {<< Seg("n", "ts") >>, << Seg("n", "js") >>, << Seg("n", ""), Seg("index", "js") >>,
               << InGame, Seg("n", "ts") >>, << InGame, Seg("n", "js") >>,
               << InGame, InGame, Seg("n", "ts") >>}
MacroDirs == {<< Seg("n", "") >>, << InGame >>, << InGame, InGame >>}
=============================================================================
