------------------------------ MODULE Keyfile -------------------------------
(***************************************************************************)
(* The key files of a gateway (src/keypair.rs): a process loads a key, and *)
(* generates and saves one where the file is missing.  Every command reads *)
(* the settings, and with them the gateway's key file, so processes may be *)
(* loading at the same time; fs::write first empties the file and then     *)
(* fills it, and a process may die at any point.  Keys in a secure element *)
(* or a TPM are not generated and are not modelled.                        *)
(***************************************************************************)
CONSTANTS Processes, Files, Keys, None

ASSUME KeyfileAssumption ==
  /\ None \notin Keys
  /\ "absent" \notin Keys
  /\ "torn" \notin Keys

VARIABLES
  files,     \* the content of each file: a key, absent, or torn (not a key)
  loader,    \* what each process is loading, and how far it has come
  held,      \* the key each process has from each file
  used,      \* the keys generated so far
  overlap    \* two processes have been generating a key for one file

keyfile_vars == <<files, loader, held, used, overlap>>

Idle == [at |-> "idle", file |-> None, key |-> None]

Generating(p, f) == loader[p].file = f /\ loader[p].at \in {"generated", "writing"}

At(p, step) == loader' = [loader EXCEPT ![p].at = step]

\* Keypair::from_str of a file URI.
Load(p, f) ==
  /\ loader[p] = Idle
  /\ loader' = [loader EXCEPT ![p] = [at |-> "read", file |-> f, key |-> None]]
  /\ UNCHANGED <<files, held, used, overlap>>

\* load_from_file finds a key.
Found(p) ==
  LET f == loader[p].file
  IN /\ loader[p].at = "read"
     /\ files[f] \in Keys
     /\ held' = [held EXCEPT ![p][f] = files[f]]
     /\ loader' = [loader EXCEPT ![p] = Idle]
     /\ UNCHANGED <<files, used, overlap>>

\* Defect: a file that cannot be decoded is taken for a missing one.
Generate_undecodable(p) ==
  LET f == loader[p].file
  IN /\ loader[p].at = "read"
     /\ files[f] \in {"absent", "torn"}
     /\ \E k \in Keys \ used :
          /\ loader' = [loader EXCEPT ![p] = [at |-> "generated", file |-> f, key |-> k]]
          /\ used' = used \cup {k}
     /\ overlap' = (overlap \/ \E q \in Processes \ {p} : Generating(q, f))
     /\ UNCHANGED <<files, held>>

\* load_from_file fails with NotFound.
Generate(p) ==
  LET f == loader[p].file
  IN /\ loader[p].at = "read"
     /\ files[f] = "absent"
     /\ \E k \in Keys \ used :
          /\ loader' = [loader EXCEPT ![p] = [at |-> "generated", file |-> f, key |-> k]]
          /\ used' = used \cup {k}
     /\ overlap' = (overlap \/ \E q \in Processes \ {p} : Generating(q, f))
     /\ UNCHANGED <<files, held>>

\* Any other error of the read, a file that is not a key, a bad argument.
LoadError(p) ==
  /\ loader[p].at = "read"
  /\ At(p, "failed")
  /\ UNCHANGED <<files, held, used, overlap>>

\* save_to_file: the directories, and the file opened and emptied.
Create(p) ==
  /\ loader[p].at = "generated"
  /\ files' = [files EXCEPT ![loader[p].file] = "torn"]
  /\ At(p, "writing")
  /\ UNCHANGED <<held, used, overlap>>

\* The key written; from_str returns it.
Write(p) ==
  LET f == loader[p].file
  IN /\ loader[p].at = "writing"
     /\ files' = [files EXCEPT ![f] = loader[p].key]
     /\ held' = [held EXCEPT ![p][f] = loader[p].key]
     /\ loader' = [loader EXCEPT ![p] = Idle]
     /\ UNCHANGED <<used, overlap>>

\* Defect: a key that could not be saved is used all the same.
SaveError_ignored(p) ==
  LET f == loader[p].file
  IN /\ loader[p].at \in {"generated", "writing"}
     /\ held' = [held EXCEPT ![p][f] = loader[p].key]
     /\ loader' = [loader EXCEPT ![p] = Idle]
     /\ UNCHANGED <<files, used, overlap>>

\* save_to_file fails before the file is touched, or while it is written.
SaveError(p) ==
  /\ loader[p].at \in {"generated", "writing"}
  /\ \/ UNCHANGED files
     \/ loader[p].at = "writing" /\ files' = [files EXCEPT ![loader[p].file] = "torn"]
  /\ At(p, "failed")
  /\ UNCHANGED <<held, used, overlap>>

LoadStep(p) ==
  \/ Found(p) \/ Generate(p) \/ LoadError(p) \/ Create(p) \/ Write(p) \/ SaveError(p)

\* The caller of from_str has the error and goes on.
Recover(p) ==
  /\ loader[p].at = "failed"
  /\ loader' = [loader EXCEPT ![p] = Idle]
  /\ UNCHANGED <<files, held, used, overlap>>

\* The process exits or is killed.
Exit(p) ==
  /\ loader' = [loader EXCEPT ![p] = Idle]
  /\ held' = [held EXCEPT ![p] = [f \in Files |-> None]]
  /\ UNCHANGED <<files, used, overlap>>

KeyfileInit ==
  /\ files = [f \in Files |-> "absent"]
  /\ loader = [p \in Processes |-> Idle]
  /\ held = [p \in Processes |-> [f \in Files |-> None]]
  /\ used = {}
  /\ overlap = FALSE

KeyfileNext ==
  \E p \in Processes :
    \/ \E f \in Files : Load(p, f)
    \/ LoadStep(p) \/ Recover(p) \/ Exit(p)

KeyfileSpec == KeyfileInit /\ [][KeyfileNext]_keyfile_vars
-----------------------------------------------------------------------------
(***************************************************************************)
(* Properties                                                              *)
(***************************************************************************)
\* A gateway has one identity: the key a process works with is the one in the
\* file, whatever other processes load, fail, die and start again, unless two of
\* them generated a key for the same file at the same time.  (Then the one that
\* wrote last has its key in the file, and the other works on with a key that is
\* lost when it exits.)
HeldIsSaved ==
  ~overlap => \A p \in Processes, f \in Files : held[p][f] \in {None, files[f]}

\* A file that is not a key, and that no process is writing.
Abandoned(f) == files[f] = "torn" /\ \A p \in Processes : ~Generating(p, f)

\* A key file that a process left behind half written stays so: it is found, so
\* the gateway gets no second identity, and no process gets a key from it.
TornStays ==
  \A f \in Files : Abandoned(f) =>
    /\ Abandoned(f)'
    /\ \A p \in Processes : held'[p][f] \in {None, held[p][f]}

TornFileStays == [][TornStays]_keyfile_vars
=============================================================================
