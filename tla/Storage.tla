------------------------------ MODULE Storage ------------------------------
(***************************************************************************)
(* How a node keeps its state in the files "node" and "node~" of its work  *)
(* directory: Core::load(), Core::save() and the flag need_save             *)
(* (src/core.cpp).  Saving renames the file to the backup, creates it anew *)
(* and writes it; the program may crash between any two of these steps,    *)
(* and the write may fail.                                                 *)
(*                                                                         *)
(* Of the state, "data" stands for all that is flagged when it changes     *)
(* (matrix, commands, executed commands), "status" for the node's status.  *)
(***************************************************************************)
EXTENDS Naturals

CONSTANTS
  MaxData,       \* bound: changes of the data
  MaxStops,      \* bound: crashes
  MaxErrors      \* bound: writes that fail

ASSUME BoundsAssumption == MaxData \in Nat /\ MaxStops \in Nat /\ MaxErrors \in Nat

NodeState == [data : 0 .. MaxData, status : {"work", "inviter", "uninitialized"}]

(* What a file, or the memory of a program that does not run, may hold instead. *)
Missing == [data |-> 0, status |-> "missing"]
Damaged == [data |-> 0, status |-> "damaged"]
Nothing == [data |-> 0, status |-> "nothing"]

File == NodeState \cup {Missing, Damaged}

VARIABLES
  phase,            \* the program does not run, runs, or is in the middle of save()
  memory,           \* its state
  need_save,        \* memory differs from what was saved
  load_from_bkup,   \* the state was loaded from the backup
  node, bkup,       \* the files "node" and "node~"
  last_saved,       \* the state that was saved or loaded last
  left,             \* the state of the program when it ended, if it ended orderly
  stops, errors

storagevars == <<phase, memory, need_save, load_from_bkup, node, bkup, last_saved, left, stops, errors>>

StorageTypeOK ==
  /\ phase \in {"stopped", "running", "renamed", "created"}
  /\ memory \in NodeState \cup {Nothing}
  /\ need_save \in BOOLEAN
  /\ load_from_bkup \in BOOLEAN
  /\ node \in File
  /\ bkup \in File
  /\ last_saved \in NodeState
  /\ left \in NodeState \cup {Nothing}
  /\ stops \in 0 .. MaxStops
  /\ errors \in 0 .. MaxErrors

(* The group was created: that saves the first state. *)
StorageInit ==
  /\ phase = "stopped"
  /\ memory = Nothing
  /\ need_save = FALSE
  /\ load_from_bkup = FALSE
  /\ node = [data |-> 0, status |-> "work"]
  /\ bkup = Missing
  /\ last_saved = node
  /\ left = Nothing
  /\ stops = 0
  /\ errors = 0

-----------------------------------------------------------------------------
(* Without the file the user is asked whether to begin anew; a daemon, that *)
(* cannot ask, takes it for "no".                                           *)
Fresh == [data |-> 0, status |-> "uninitialized"]

Loads(file) == CASE file = Missing -> {Fresh, Nothing}
                 [] file = Damaged -> {Nothing}
                 [] OTHER -> {file}

Load ==
  /\ phase = "stopped"
  /\ \E first \in Loads(node), second \in Loads(bkup) :
       LET found == IF first # Nothing THEN first ELSE second
       IN  /\ found # Nothing
           /\ memory' = found
           /\ last_saved' = IF found = Fresh THEN last_saved ELSE found
           /\ load_from_bkup' = (first = Nothing)
  /\ phase' = "running"
  /\ need_save' = FALSE
  /\ left' = Nothing
  /\ UNCHANGED <<node, bkup, stops, errors>>

(* create_command(), add_cmd(), update_matrix(), execute_pending_commands(), ... *)
Change ==
  /\ phase = "running"
  /\ memory.data < MaxData /\ memory # Fresh
  /\ memory' = [memory EXCEPT !.data = @ + 1]
  /\ need_save' = TRUE
  /\ UNCHANGED <<phase, load_from_bkup, node, bkup, last_saved, left, stops, errors>>

(* write-offline-invite, and finalize-invite without new nodes or cancel-invite. *)
ChangeStatus(from, to) ==
  /\ phase = "running"
  /\ memory.status = from
  /\ memory' = [memory EXCEPT !.status = to]
  /\ UNCHANGED <<phase, need_save, load_from_bkup, node, bkup, last_saved, left, stops, errors>>

(* Slip: the backup is always replaced. *)
SaveReplacing ==
  /\ phase = "running"
  /\ need_save' = FALSE
  /\ phase' = "renamed"
  /\ bkup' = node /\ node' = Missing
  /\ UNCHANGED <<memory, load_from_bkup, last_saved, left, stops, errors>>

(* Slip: the new state is written over the old one. *)
SaveInPlace ==
  /\ phase = "running"
  /\ need_save' = FALSE
  /\ phase' = "renamed"
  /\ UNCHANGED <<memory, load_from_bkup, node, bkup, last_saved, left, stops, errors>>

(* save(force) when it does not return at once; it is forced with every     *)
(* broadcast, thus at any time.  The old file becomes the backup, unless    *)
(* the state was loaded from the backup or there is no file to rename.      *)
Save ==
  /\ phase = "running"
  /\ need_save' = FALSE
  /\ phase' = "renamed"
  /\ IF load_from_bkup \/ node = Missing THEN UNCHANGED <<node, bkup>>
     ELSE bkup' = node /\ node' = Missing
  /\ UNCHANGED <<memory, load_from_bkup, last_saved, left, stops, errors>>

CreateFile ==
  /\ phase = "renamed"
  /\ node' = Damaged
  /\ phase' = "created"
  /\ UNCHANGED <<memory, need_save, load_from_bkup, bkup, last_saved, left, stops, errors>>

WriteFile ==
  /\ phase = "created"
  /\ node' = memory
  /\ last_saved' = memory
  /\ phase' = "running"
  /\ UNCHANGED <<memory, need_save, load_from_bkup, bkup, left, stops, errors>>

(* The disk is full: an exception, or, when only the last block is lost as  *)
(* the stream is closed, not even that.  The program goes on.               *)
WriteError ==
  /\ phase \in {"renamed", "created"}
  /\ errors < MaxErrors
  /\ errors' = errors + 1
  /\ phase' = "running"
  /\ UNCHANGED <<memory, need_save, load_from_bkup, node, bkup, last_saved, left, stops>>

(* The program ends; before that save() was called and had nothing to do.   *)
Exit ==
  /\ phase = "running"
  /\ ~need_save
  /\ phase' = "stopped"
  /\ left' = memory
  /\ memory' = Nothing
  /\ UNCHANGED <<need_save, load_from_bkup, node, bkup, last_saved, stops, errors>>

CrashAnywhere ==
  /\ phase # "stopped"
  /\ stops < MaxStops
  /\ stops' = stops + 1
  /\ phase' = "stopped"
  /\ memory' = Nothing
  /\ left' = Nothing
  /\ UNCHANGED <<need_save, load_from_bkup, node, bkup, last_saved, errors>>

StorageNext ==
  \/ Load
  \/ Change
  \/ ChangeStatus("work", "inviter") \/ ChangeStatus("inviter", "work")
  \/ Save \/ CreateFile \/ WriteFile \/ WriteError
  \/ Exit
  \/ CrashAnywhere

StorageSpec == StorageInit /\ [][StorageNext]_storagevars

-----------------------------------------------------------------------------
(* What load() finds when the user does not want to begin anew. *)
Found == IF node \in NodeState THEN node ELSE bkup

(* However often the program crashes, in whatever step of save(): one of    *)
(* the files can be loaded.                                                 *)
StateSurvives == errors = 0 => Found \in NodeState

(* A crash takes back at most what was not saved yet, as long as the state  *)
(* was not loaded from the backup: from then on the backup grows old.       *)
CrashKeepsSaved ==
  errors = 0 /\ ~load_from_bkup => Found = last_saved

(* What is not saved is flagged, so that the next save() does not skip it.  *)
UnsavedIsFlagged ==
  phase = "running" /\ memory # Fresh /\ ~need_save /\ errors = 0 => memory.data = last_saved.data

(* The inductive invariant: the three above, and what the files hold in     *)
(* each phase.                                                              *)
StorageInv ==
  /\ StorageTypeOK
  /\ StateSurvives
  /\ CrashKeepsSaved
  /\ UnsavedIsFlagged
  /\ phase # "stopped" => memory \in NodeState
  /\ errors = 0 /\ node \in NodeState => node = last_saved
  /\ errors = 0 /\ node = Missing => bkup = last_saved
  /\ errors = 0 /\ phase \in {"renamed", "created"} => bkup \in NodeState
  /\ errors = 0 /\ phase # "stopped" /\ load_from_bkup => bkup \in NodeState
  /\ errors = 0 /\ phase = "running" /\ ~load_from_bkup => node # Damaged
  /\ errors = 0 /\ phase = "renamed" /\ ~load_from_bkup => node = Missing

(* The manual says of the status that it changes when an invite is written  *)
(* and changes back when it is finalized or cancelled: the node still has   *)
(* the status it had when the program ended.                                *)
StatusIsKept == left # Nothing => Found.status = left.status
=============================================================================
