------------------------------- MODULE GlobalFs -------------------------------
(***************************************************************************)
(* The global file-system handlers of core/src/handlers/global_fs.rs,     *)
(* acting concurrently on one directory: upload_file, a request that runs *)
(* through several awaits, and the handlers that each make one file-system *)
(* call (write_file, new_file, remove_file, make_directory, remove_dir,   *)
(* move_file, download_file).  A file name is a stem, a sequence whose     *)
(* first element is the client's name and whose later elements are the    *)
(* postfixes upload_file appended, and an extension or NoExt.             *)
(* Authorization, the FS events and the read-only handlers (list_files,   *)
(* read_file, download) change no state the model keeps.                  *)
(***************************************************************************)
EXTENDS Naturals, Sequences

CONSTANTS
  Uploads,      \* upload_file requests
  ClientNames,  \* the file names a multipart field can carry
  MaxPostfix,   \* the postfixes the collision loop may reach
  MaxFields,    \* the fields an upload may carry
  Faults        \* whether file-system calls and the multipart stream may fail

NoExt == "NoExt"
NoName == [stem |-> << >>, ext |-> NoExt]   \* a field without a file name

(* path.with_file_name(format!("{}_{}.{}", file_stem, postfix, extension)) *)
Postfixed(n, k) == [n EXCEPT !.stem = Append(@, k)]

AllNames == ClientNames \cup {Postfixed(n, k) : n \in ClientNames, k \in 1 .. MaxPostfix}

VARIABLES
  dirExists,  \* the upload directory exists
  files,      \* the names of the files in it
  keys,       \* the names download_urls holds a key for
  pc,         \* each upload's control point
  target,     \* the path an upload writes to
  nfields,    \* the fields an upload has read
  prog        \* the upload's progression event: "None", "Started", "Ended", "Failed"

vars == <<dirExists, files, keys, pc, target, nfields, prog>>

Init ==
  /\ dirExists \in BOOLEAN
  /\ files = {}
  /\ keys = {}
  /\ pc = [r \in Uploads |-> "Idle"]
  /\ target = [r \in Uploads |-> NoName]
  /\ nfields = [r \in Uploads |-> 0]
  /\ prog = [r \in Uploads |-> "None"]

-----------------------------------------------------------------------------
(* create_dir_all, then the progression start event. *)
UploadBegin(r) ==
  /\ pc[r] = "Idle"
  /\ \/ dirExists' = TRUE /\ prog' = [prog EXCEPT ![r] = "Started"] /\ pc' = [pc EXCEPT ![r] = "Field"]
     \/ Faults /\ pc' = [pc EXCEPT ![r] = "Err"] /\ UNCHANGED <<dirExists, prog>>
  /\ UNCHANGED <<files, keys, target, nfields>>

(* The postfixes the collision loop tries, in order, that are still free. *)
FreePostfixes(n) == {k \in 1 .. MaxPostfix : Postfixed(n, k) \notin files}

(* multipart.next_field(): the end of the stream, or an error of it, ends
   the loop with "Upload complete"; a field without a file name returns
   BadRequest; otherwise the path is checked with exists() and, if taken,
   the first free postfix is looked for; extension().unwrap() panics on a
   taken name that has no extension. *)
UploadField(r) ==
  /\ pc[r] = "Field"
  /\ \/ /\ pc' = [pc EXCEPT ![r] = "Done"] /\ prog' = [prog EXCEPT ![r] = "Ended"]
        /\ UNCHANGED <<target, nfields>>
     \/ /\ nfields[r] < MaxFields
        /\ nfields' = [nfields EXCEPT ![r] = @ + 1]
        /\ UNCHANGED prog
        /\ \E n \in ClientNames \cup {NoName} :
             CASE n = NoName -> pc' = [pc EXCEPT ![r] = "Err"] /\ UNCHANGED target
               [] n \notin files ->
                    pc' = [pc EXCEPT ![r] = "Create"] /\ target' = [target EXCEPT ![r] = n]
               [] n.ext = NoExt -> pc' = [pc EXCEPT ![r] = "Panicked"] /\ UNCHANGED target
               [] OTHER ->
                    /\ FreePostfixes(n) # {}
                    /\ LET k == CHOOSE k \in FreePostfixes(n) : \A j \in FreePostfixes(n) : k <= j
                       IN target' = [target EXCEPT ![r] = Postfixed(n, k)]
                    /\ pc' = [pc EXCEPT ![r] = "Create"]
  /\ UNCHANGED <<dirExists, files, keys>>

(* File::create on the chosen path: it creates the file, or truncates the
   file that is there now. *)
UploadCreate(r) ==
  /\ pc[r] = "Create"
  /\ \/ dirExists /\ files' = files \cup {target[r]} /\ pc' = [pc EXCEPT ![r] = "Chunks"]
     \/ (~dirExists \/ Faults) /\ pc' = [pc EXCEPT ![r] = "Err"] /\ UNCHANGED files
  /\ UNCHANGED <<dirExists, keys, target, nfields, prog>>

(* The chunks are written, then the loop takes the next field.  A chunk
   error removes the path and ends the progression as failed; a failed
   write_all removes the path and returns with no end event. *)
UploadChunks(r) ==
  /\ pc[r] = "Chunks"
  /\ \/ pc' = [pc EXCEPT ![r] = "Field"] /\ UNCHANGED <<files, prog>>
     \/ /\ Faults /\ files' = files \ {target[r]} /\ pc' = [pc EXCEPT ![r] = "Err"]
        /\ prog' \in {prog, [prog EXCEPT ![r] = "Failed"]}
  /\ UNCHANGED <<dirExists, keys, target, nfields>>

-----------------------------------------------------------------------------
(* tokio::fs::write and File::create: create the file or truncate it. *)
WriteFile(n) == dirExists /\ files' = files \cup {n} /\ UNCHANGED <<dirExists, keys, pc, target, nfields, prog>>
NewFile(n) == dirExists /\ files' = files \cup {n} /\ UNCHANGED <<dirExists, keys, pc, target, nfields, prog>>

RemoveFile(n) == n \in files /\ files' = files \ {n} /\ UNCHANGED <<dirExists, keys, pc, target, nfields, prog>>

(* create_dir fails on an existing directory. *)
MakeDirectory == ~dirExists /\ dirExists' = TRUE /\ UNCHANGED <<files, keys, pc, target, nfields, prog>>

RemoveDir == dirExists /\ dirExists' = FALSE /\ files' = {} /\ UNCHANGED <<keys, pc, target, nfields, prog>>

(* crate::util::fs::rename (not under src/) is taken to behave as std::fs::rename:
   it replaces the destination. *)
MoveFile(a, b) ==
  /\ a \in files
  /\ files' = (files \ {a}) \cup {b}
  /\ UNCHANGED <<dirExists, keys, pc, target, nfields, prog>>

(* metadata(path).unwrap() panics on a missing path; a file gets a key. *)
DownloadFile(n) == n \in files /\ keys' = keys \cup {n} /\ UNCHANGED <<dirExists, files, pc, target, nfields, prog>>

Next ==
  \/ \E r \in Uploads : UploadBegin(r) \/ UploadField(r) \/ UploadCreate(r) \/ UploadChunks(r)
  \/ \E n \in AllNames : WriteFile(n) \/ NewFile(n) \/ RemoveFile(n) \/ DownloadFile(n)
  \/ \E a, b \in AllNames : MoveFile(a, b)
  \/ MakeDirectory \/ RemoveDir

Spec == Init /\ [][Next]_vars

-----------------------------------------------------------------------------
(* upload_file never overwrites a file: its File::create is applied to a
   path that does not exist (the collision loop's comment: "add a postfix
   to the file name" when the path exists). *)
UploadCreatesOnlyNewFiles ==
  [][\A r \in Uploads : (pc[r] = "Create" /\ pc'[r] = "Chunks") => target[r] \notin files]_vars

(* Every upload that sent its progression start event ends it, whatever
   the outcome. *)
ProgressionEnds ==
  \A r \in Uploads : pc[r] \in {"Done", "Err", "Panicked"} => prog[r] # "Started"

(* No upload panics the handler. *)
UploadNeverPanics == \A r \in Uploads : pc[r] # "Panicked"

=============================================================================
