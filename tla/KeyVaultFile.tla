---------------------------- MODULE KeyVaultFile ----------------------------
(***************************************************************************)
(* The file of the encrypted wallet key and the command that writes it,    *)
(* encrypt-key: through a temporary file named after the process, which is *)
(* written, synced and linked to its place.  The command may run in        *)
(* several processes at once and may die between any two system calls; a   *)
(* later process may have the process id of a dead one.                    *)
(*                                                                         *)
(* Cryptography is not modelled: a file is the key it was made from.       *)
(***************************************************************************)
EXTENDS Naturals

CONSTANTS
  Pids,       \* process ids; a process encrypts a key of its own
  NoFile

VARIABLES
  target,     \* the key file: NoFile, or whose key it is and what the disk
              \* has of it
  temps,      \* the temporary file of each process id
  command,    \* where the encrypt-key of each process id is
  settled,    \* the directory with the name of the key file is on the disk
  reported    \* processes that reported success since the last power loss

fileVars == << target, temps, command, settled, reported >>

File(p, content) == [key |-> p, content |-> content]
Contents == { "partial", "written", "synced" }
Files == [key : Pids, content : Contents] \cup {NoFile}

ASSUME NoFileAssumption == NoFile \notin [key : Pids, content : Contents]

Steps == { "idle", "prompting", "opening", "writing", "syncing", "linking",
           "removing" }

FileTypeOK ==
  /\ target \in Files
  /\ temps \in [Pids -> Files]
  /\ command \in [Pids -> Steps]
  /\ settled \in BOOLEAN
  /\ reported \subseteq Pids

FileInit ==
  /\ target = NoFile
  /\ temps = [p \in Pids |-> NoFile]
  /\ command = [p \in Pids |-> "idle"]
  /\ settled = FALSE
  /\ reported = {}

Goes(p, step) == command' = [command EXCEPT ![p] = step]

-----------------------------------------------------------------------------
\* encrypt_key_interactive: an existing file is refused before the prompts.
Begin(p) ==
  /\ command[p] = "idle" /\ target = NoFile
  /\ Goes(p, "prompting")
  /\ UNCHANGED << target, temps, settled, reported >>

\* write_encrypted_key: and after them.
Prompted(p) ==
  /\ command[p] = "prompting"
  /\ Goes(p, IF target = NoFile THEN "opening" ELSE "idle")
  /\ UNCHANGED << target, temps, settled, reported >>

\* atomic_write_private.  Whatever fails, the temporary file is removed, its
\* own or the one of a dead process with the same id.
Abandon(p) ==
  /\ Goes(p, "idle")
  /\ temps' = [temps EXCEPT ![p] = NoFile]
  /\ UNCHANGED << target, settled, reported >>

\* Seeded fault: the file that is in the way stays there.
OpenTemporaryOrLeave(p) ==
  /\ command[p] = "opening"
  /\ \/ /\ temps[p] # NoFile
        /\ Goes(p, "idle")
        /\ UNCHANGED << target, temps, settled, reported >>
     \/ /\ temps[p] = NoFile
        /\ Goes(p, "writing")
        /\ temps' = [temps EXCEPT ![p] = File(p, "partial")]
        /\ UNCHANGED << target, settled, reported >>

\* create_new.
OpenTemporary(p) ==
  /\ command[p] = "opening"
  /\ \/ temps[p] # NoFile /\ Abandon(p)
     \/ /\ temps[p] = NoFile
        /\ Goes(p, "writing")
        /\ temps' = [temps EXCEPT ![p] = File(p, "partial")]
        /\ UNCHANGED << target, settled, reported >>

WriteData(p) ==
  /\ command[p] = "writing"
  /\ Goes(p, "syncing")
  /\ temps' = [temps EXCEPT ![p] = File(p, "written")]
  /\ UNCHANGED << target, settled, reported >>

\* Seeded fault: closing the file is taken to be enough.
SyncUnsynced(p) ==
  /\ command[p] = "syncing"
  /\ Goes(p, "linking")
  /\ UNCHANGED << target, temps, settled, reported >>

Sync(p) ==
  /\ command[p] = "syncing"
  /\ Goes(p, "linking")
  /\ temps' = [temps EXCEPT ![p] = File(p, "synced")]
  /\ UNCHANGED << target, settled, reported >>

\* Seeded fault: rename, which replaces what is there.
LinkOver(p) ==
  /\ command[p] = "linking"
  /\ target' = temps[p]
  /\ Goes(p, "removing")
  /\ UNCHANGED << temps, settled, reported >>

\* hard_link fails if the target exists.
Link(p) ==
  /\ command[p] = "linking"
  /\ \/ target # NoFile /\ Abandon(p)
     \/ /\ target = NoFile
        /\ target' = temps[p]
        /\ Goes(p, "removing")
        /\ UNCHANGED << temps, settled, reported >>

RemoveTemporary(p) ==
  /\ command[p] = "removing"
  /\ Goes(p, "idle")
  /\ temps' = [temps EXCEPT ![p] = NoFile]
  /\ reported' = reported \cup {p}
  /\ UNCHANGED << target, settled >>

\* A system call fails, a full disk for one, or removing does: the command
\* reports an error.
CallFails(p) ==
  /\ command[p] \in { "opening", "writing", "syncing", "linking", "removing" }
  /\ Abandon(p)

\* The process is killed; its id may be used again.
Killed(p) ==
  /\ command[p] # "idle"
  /\ Goes(p, "idle")
  /\ UNCHANGED << target, temps, settled, reported >>

\* The directory is not synced: the system writes it when it likes.
WriteBack ==
  /\ target # NoFile /\ ~settled
  /\ settled' = TRUE
  /\ UNCHANGED << target, temps, command, reported >>

\* What was not synced may be cut short, and a name in the directory be lost.
\* (A removal that is lost is a kill before the removal.)
AfterPowerLoss(f, named) ==
  { g \in Files : \/ g = f
                  \/ g = NoFile /\ ~named
                  \/ /\ f # NoFile /\ f.content = "written"
                     /\ g = [f EXCEPT !.content = "partial"] }

FilePowerLoss ==
  /\ target' \in AfterPowerLoss(target, settled)
  /\ temps' \in { t \in [Pids -> Files] :
                    \A p \in Pids : t[p] \in AfterPowerLoss(temps[p], FALSE) }
  /\ settled' = (target' # NoFile)
  /\ command' = [p \in Pids |-> "idle"]
  /\ reported' = {}

CommandStep(p) ==
  \/ Begin(p) \/ Prompted(p) \/ OpenTemporary(p) \/ WriteData(p) \/ Sync(p)
  \/ Link(p) \/ RemoveTemporary(p)

-----------------------------------------------------------------------------
\* Whenever the command or the machine dies, the key file is not there or is
\* a whole key on the disk.
KeyIsWhole == target # NoFile => target.content = "synced"

\* Of commands that run at once, with or without the debris of dead ones, only
\* the one whose key is in place reports success, and no key replaces it.  (A
\* power loss can take it away before the directory is written, success
\* reported or not.)
WinnerIsTold == \A p \in reported : target # NoFile /\ target.key = p

=============================================================================
