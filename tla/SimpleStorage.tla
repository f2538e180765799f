---------------------------- MODULE SimpleStorage ----------------------------
(***************************************************************************)
(* The distribution service simple-storage.  Files are written under       *)
(* uploads/ by the name the uploader sent; a fresh key (a uuid) maps to    *)
(* that path in memory.  Keys are numbered in the order they are issued.   *)
(* The runtime is single-threaded and no handler waits between its file    *)
(* access and its map access, so each handler is one action.               *)
(***************************************************************************)
EXTENDS Naturals, Sequences

CONSTANTS
  Names,      \* file names
  Contents,   \* file contents
  NoFile      \* "nothing there"

VARIABLES
  uploads,    \* the directory uploads/: the content stored under each name
  db          \* the in-memory map: the name behind each key issued

storageVars == <<uploads, db>>

Init ==
  /\ uploads = [n \in Names |-> NoFile]
  /\ db = <<>>

\* The key the next upload returns.
NextKey == Len(db) + 1

\* A file of the same name is overwritten, whoever uploaded it.
upload(name, content) ==
  /\ uploads' = [uploads EXCEPT ![name] = content]
  /\ db' = Append(db, name)

\* GET /download answers 404 unless the key is known and the file is there.
Found(key) == key \in DOMAIN db /\ db[key] # NoFile

FileName(key) == db[key]
FileBody(key) == uploads[db[key]]

\* The map is lost with the process, the directory is not.
Restart ==
  /\ db' = [k \in DOMAIN db |-> NoFile]
  /\ UNCHANGED uploads

\* Outside the program: the stored bytes are altered.
Tamper(name, content) ==
  /\ uploads[name] # NoFile
  /\ uploads' = [uploads EXCEPT ![name] = content]
  /\ UNCHANGED db
=============================================================================
