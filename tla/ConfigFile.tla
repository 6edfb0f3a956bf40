----------------------------- MODULE ConfigFile -----------------------------
(***************************************************************************)
(* save_config and load (src/system/remount.rs, src/config.rs) over the    *)
(* two names they use: config.json and the one temporary file every saver  *)
(* shares, config.json.tmp.                                                *)
(*                                                                         *)
(* std::fs::write is an open with O_CREAT|O_TRUNC followed by a write;     *)
(* rename moves a name, not the file a descriptor points to.  So names and *)
(* files are kept apart: a saver that opened the temporary file before     *)
(* another one renamed it goes on writing into what is now config.json.    *)
(*                                                                         *)
(* A file is the set of configurations whose bytes it holds: {} after the  *)
(* truncation, {c} for a complete document, more than one when a document  *)
(* was written over the start of a longer one.  serde_json refuses every   *)
(* file but {c} (empty input, trailing characters).  The backup copy       *)
(* config.json.bak, which nothing reads, is left out.  What is modelled is *)
(* the file system a restarted process sees, not the loss of unsynced      *)
(* pages.                                                                  *)
(***************************************************************************)
EXTENDS Settings

CONSTANTS
    Savers,   \* everything that may call save_config, once each
    NoFile    \* a name nothing is stored under

VARIABLES
    file,     \* file[i]: content of the file saver i created
    tmpName,  \* what config.json.tmp names
    confName, \* what config.json names
    fd        \* fd[s]: the file saver s has open

fileVars == <<file, tmpName, confName, fd>>

FileTypeOK ==
    /\ file \in [Savers -> SUBSET Config]
    /\ tmpName \in Savers \cup {NoFile}
    /\ confName \in Savers \cup {NoFile}
    /\ fd \in [Savers -> Savers \cup {NoFile}]

FileInit ==
    /\ file = [s \in Savers |-> {}]
    /\ tmpName = NoFile
    /\ confName = NoFile
    /\ fd = [s \in Savers |-> NoFile]

-----------------------------------------------------------------------------
\* Faulty variant: config.json is written in place.
OpenInPlace(s) ==
    LET i == IF confName = NoFile THEN s ELSE confName
    IN  /\ file' = [file EXCEPT ![i] = {}]
        /\ tmpName' = i
        /\ confName' = i
        /\ fd' = [fd EXCEPT ![s] = i]

\* fs::write, the open: an existing temporary file is emptied and shared.
OpenTmp(s) ==
    LET i == IF tmpName = NoFile THEN s ELSE tmpName
    IN  /\ file' = [file EXCEPT ![i] = {}]
        /\ tmpName' = i
        /\ fd' = [fd EXCEPT ![s] = i]
        /\ UNCHANGED confName

\* fs::write, the write and the close: from offset 0, over whatever another
\* saver left there, whose tail survives when it was longer.
WriteTmp(s, c) ==
    /\ \E tail \in {{}, file[fd[s]]} : file' = [file EXCEPT ![fd[s]] = {c} \cup tail]
    /\ fd' = [fd EXCEPT ![s] = NoFile]
    /\ UNCHANGED <<tmpName, confName>>

\* fs::rename: moves the name, whoever wrote the file last.
RenameTmp ==
    /\ tmpName # NoFile
    /\ confName' = tmpName
    /\ tmpName' = NoFile
    /\ UNCHANGED <<file, fd>>

\* Every descriptor closes when the process dies; the files stay.
CloseAll ==
    /\ fd' = [s \in Savers |-> NoFile]
    /\ UNCHANGED <<file, tmpName, confName>>

-----------------------------------------------------------------------------
\* What config::load finds.
Stored(c) == confName # NoFile /\ file[confName] = {c}

Missing == confName = NoFile

Readable == Missing \/ \E c \in file[confName] : Stored(c)

\* The configuration the next boot would start from.
OnDisk == IF Missing THEN Default ELSE CHOOSE c \in file[confName] : TRUE
=============================================================================
