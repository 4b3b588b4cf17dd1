----------------------------- MODULE Node_proofs -----------------------------
(***************************************************************************)
(* What one node promises: Storage, one program that saves and loads the   *)
(* state, for every number of changes, crashes and errors; Programs, those *)
(* that share the work directory, for any number of consoles, daemons,     *)
(* crashes and reloads; Handshake, the poll loop of the daemon, for any    *)
(* number of sockets and connections.                                      *)
(***************************************************************************)
EXTENDS Programs, Storage, Handshake, FiniteSetTheorems, SequenceTheorems, WellFoundedInduction, TLAPS

(* A file that was never written is none that can be loaded. *)
LEMMA FilesDiffer ==
  /\ Missing \notin NodeState /\ Damaged \notin NodeState /\ Nothing \notin NodeState
  /\ Missing # Damaged /\ Missing # Nothing /\ Damaged # Nothing
  /\ Fresh \in NodeState /\ Fresh.data = 0 /\ Fresh.status = "uninitialized"
BY BoundsAssumption DEF Missing, Damaged, Nothing, NodeState, Fresh

(* load() takes the file, a fresh state when there is none, or nothing. *)
LEMMA LoadsWhat ==
  ASSUME NEW file \in File, NEW found \in Loads(file)
  PROVE  /\ found = file \/ found = Fresh \/ found = Nothing
         /\ found = file => file \in NodeState
         /\ found = Fresh => file = Missing \/ file = Fresh
         /\ found = Nothing => file = Missing \/ file = Damaged
         /\ found # Nothing => found \in NodeState
BY FilesDiffer DEF File, Loads

LEMMA StorageInitInv == StorageInit => StorageInv
<1> SUFFICES ASSUME StorageInit PROVE StorageInv
  OBVIOUS
<1>1. node \in NodeState
  BY BoundsAssumption DEF StorageInit, NodeState
<1>2. /\ phase = "stopped" /\ memory = Nothing /\ left = Nothing /\ bkup = Missing
      /\ last_saved = node /\ need_save = FALSE /\ load_from_bkup = FALSE
      /\ stops = 0 /\ errors = 0
  BY DEF StorageInit
<1>3. StorageTypeOK
  <2>1. /\ phase \in {"stopped", "running", "renamed", "created"}
        /\ need_save \in BOOLEAN /\ load_from_bkup \in BOOLEAN
    BY <1>2
  <2>2. memory \in NodeState \cup {Nothing} /\ left \in NodeState \cup {Nothing}
    BY <1>2
  <2>3. node \in File /\ bkup \in File /\ last_saved \in NodeState
    BY <1>1, <1>2 DEF File
  <2>4. stops \in 0 .. MaxStops /\ errors \in 0 .. MaxErrors
    BY <1>2, BoundsAssumption
  <2> QED BY <2>1, <2>2, <2>3, <2>4 DEF StorageTypeOK
<1>4. Found = last_saved /\ Found \in NodeState
  BY <1>1, <1>2 DEF Found
<1>5. StateSurvives /\ CrashKeepsSaved /\ UnsavedIsFlagged
  BY <1>2, <1>4 DEF StateSurvives, CrashKeepsSaved, UnsavedIsFlagged
<1> QED BY <1>1, <1>2, <1>3, <1>5, FilesDiffer DEF StorageInv

LEMMA StorageStepInv == StorageInv /\ [StorageNext]_storagevars => StorageInv'
<1> SUFFICES ASSUME StorageInv, [StorageNext]_storagevars PROVE StorageInv'
  OBVIOUS
<1> USE BoundsAssumption, FilesDiffer
        DEF StorageInv, StorageTypeOK, StateSurvives, CrashKeepsSaved, UnsavedIsFlagged, Found, File
<1>1. CASE Load
  <2>1. PICK first \in Loads(node), second \in Loads(bkup) :
          LET found == IF first # Nothing THEN first ELSE second
          IN  /\ found # Nothing
              /\ memory' = found
              /\ last_saved' = IF found = Fresh THEN last_saved ELSE found
              /\ load_from_bkup' = (first = Nothing)
    BY <1>1 DEF Load
  <2>2. memory' \in NodeState /\ last_saved' \in NodeState
    BY <2>1, LoadsWhat
  <2>3. memory'.data = last_saved'.data \/ memory' = Fresh
    BY <2>1
  <2>4. errors = 0 /\ first = Nothing => bkup \in NodeState /\ node \notin NodeState
    BY <2>1, LoadsWhat
  <2>5. errors = 0 /\ first # Nothing => node # Damaged
    BY <2>1, LoadsWhat
  <2>6. errors = 0 /\ first # Nothing => Found' = last_saved'
    <3>1. CASE first # Nothing /\ first # Fresh
      BY <1>1, <2>1, <3>1, LoadsWhat DEF Load
    <3>2. CASE first = Fresh /\ node = Fresh
      <4>1. node \in NodeState /\ first # Nothing
        BY <3>2
      <4>2. errors = 0 => node = last_saved
        BY <4>1
      <4>3. node' = node /\ bkup' = bkup /\ last_saved' = last_saved
        BY <1>1, <2>1, <3>2, <4>1 DEF Load
      <4> QED BY <4>1, <4>2, <4>3
    <3>3. CASE first = Fresh /\ node = Missing
      BY <1>1, <2>1, <3>3, LoadsWhat DEF Load
    <3> QED BY <3>1, <3>2, <3>3, <2>1, LoadsWhat
  <2>7. errors = 0 /\ node = Missing => bkup = last_saved'
    BY <2>1, <2>4, <2>6, LoadsWhat
  <2>8. /\ node' = node /\ bkup' = bkup /\ errors' = errors /\ stops' = stops
        /\ phase' = "running" /\ need_save' = FALSE /\ left' = Nothing
        /\ load_from_bkup' = (first = Nothing)
    BY <1>1, <2>1 DEF Load
  <2>9. StorageTypeOK'
    BY <2>2, <2>8
  <2>10. Found' = Found
    BY <2>8
  <2> QED BY <2>2, <2>3, <2>4, <2>5, <2>6, <2>7, <2>8, <2>9, <2>10
<1>2. CASE Change
  BY <1>2 DEF Change, NodeState
<1>3. CASE ChangeStatus("work", "inviter") \/ ChangeStatus("inviter", "work")
  <2>1. memory' \in NodeState /\ memory'.data = memory.data /\ memory # Fresh /\ memory' # Fresh
    BY <1>3 DEF ChangeStatus, NodeState
  <2> QED BY <1>3, <2>1 DEF ChangeStatus
<1>4. CASE Save
  BY <1>4 DEF Save
<1>5. CASE CreateFile
  BY <1>5 DEF CreateFile
<1>6. CASE WriteFile
  BY <1>6 DEF WriteFile
<1>7. CASE WriteError
  BY <1>7 DEF WriteError
<1>8. CASE Exit
  BY <1>8 DEF Exit
<1>9. CASE CrashAnywhere
  BY <1>9 DEF CrashAnywhere
<1>10. CASE UNCHANGED storagevars
  BY <1>10 DEF storagevars
<1> QED BY <1>1, <1>2, <1>3, <1>4, <1>5, <1>6, <1>7, <1>8, <1>9, <1>10 DEF StorageNext

(* Whatever happens, the files and the state in memory fit together. *)
THEOREM StorageInvariance == StorageSpec => []StorageInv
BY StorageInitInv, StorageStepInv, PTL DEF StorageSpec

(* One of the files can always be loaded, as long as no write failed. *)
THEOREM TheStateSurvives == StorageSpec => []StateSurvives
<1>1. StorageInv => StateSurvives
  BY DEF StorageInv
<1> QED BY <1>1, StorageInvariance, PTL

(* A crash never takes back what was saved. *)
THEOREM CrashesKeepWhatWasSaved == StorageSpec => []CrashKeepsSaved
<1>1. StorageInv => CrashKeepsSaved
  BY DEF StorageInv
<1> QED BY <1>1, StorageInvariance, PTL

(* The flag need_save is reliable for all but the status. *)
THEOREM WhatIsUnsavedIsFlagged == StorageSpec => []UnsavedIsFlagged
<1>1. StorageInv => UnsavedIsFlagged
  BY DEF StorageInv
<1> QED BY <1>1, StorageInvariance, PTL

-----------------------------------------------------------------------------
(* Programs: what was saved stays, the daemon is found, and the group is       *)
(* whole.  One lemma per action shows that it keeps ProgramsInv.               *)

(* A command that is added to a list is the only new one in it. *)
LEMMA RangeOfAppend ==
  ASSUME NEW S, NEW s \in Seq(S), NEW x \in S
  PROVE  /\ Append(s, x) \in Seq(S)
         /\ Range(s) \subseteq Range(Append(s, x))
         /\ Range(Append(s, x)) \subseteq Range(s) \cup {x}
BY DEF Range

(* The members of a list of commands. *)
LEMMA RangeOfQueue ==
  ASSUME NEW S, NEW s \in Seq(S) PROVE Range(s) \subseteq S
BY DEF Range

(* What is in the files, and what a program has in memory. *)
LEMMA StateFields ==
  ASSUME NEW s \in State
  PROVE  s.key \in Nat /\ s.group \in Nat /\ s.commands \in Seq(Consoles)
BY DEF State

(* A new key, new commands, or what a program saves, is a state again. *)
LEMMA StateUpdates ==
  ASSUME NEW s \in State, NEW n \in Nat, NEW q \in Seq(Consoles)
  PROVE  /\ [s EXCEPT !.key = n] \in State
         /\ [s EXCEPT !.commands = q] \in State
         /\ [s EXCEPT !.group = n, !.commands = q] \in State
BY DEF State

(* A new group has no commands. *)
LEMMA NoCommands == <<>> \in Seq(Consoles)
OBVIOUS

(* The state of a new group. *)
LEMMA NewGroup ==
  ASSUME NEW n \in Nat PROVE [key |-> n, group |-> n, commands |-> <<>>] \in State
BY DEF State

(* The state at the start. *)
LEMMA EmptyState == Empty \in State
BY DEF Empty, State

(* At the start no program runs, so nobody holds the state. *)
LEMMA ProgramsInitInv == Init => ProgramsInv
<1> SUFFICES ASSUME Init PROVE ProgramsInv
  OBVIOUS
<1>1. TypeOK
  BY EmptyState DEF Init, TypeOK
<1>2. \A p \in Programs : ~Holds(p)
  BY DEF Init, Holds
<1>3. DaemonIsFound /\ ApartInv
  BY <1>2 DEF Init, DaemonIsFound, ApartInv, Alone, UnseenHaveAll, Programs
<1>4. WholeInv
  BY <1>2 DEF Init, Empty, WholeInv, HoldersHaveAll
<1> QED BY <1>1, <1>3, <1>4 DEF ProgramsInv

(* A console that has loaded has what is in the file, unless somebody works on it. *)
LEMMA StepConsoleLoads ==
  ASSUME Disjoint, ProgramsInv, NEW c \in Consoles, ConsoleLoads(c)
  PROVE  ProgramsInv'
<1> USE DEF Disjoint, Programs, ConsoleLoads, bounds, history
<1>1. TypeOK /\ DaemonIsFound /\ ApartInv /\ WholeInv
  BY DEF ProgramsInv
<1>2. TypeOK'
  BY <1>1 DEF TypeOK
<1>3. DaemonIsFound'
  BY <1>1 DEF DaemonIsFound
<1>4. ApartInv'
  BY <1>1 DEF ApartInv, Alone, UnseenHaveAll, Holds, Holders, TypeOK
<1>5. WholeInv'
  BY <1>1 DEF WholeInv, HoldersHaveAll, HasAll, Holds
<1> QED BY <1>2, <1>3, <1>4, <1>5 DEF ProgramsInv

(* A connected console does not hold the state. *)
LEMMA StepOnline ==
  ASSUME Disjoint, ProgramsInv, NEW c \in Consoles, Online(c)
  PROVE  ProgramsInv'
<1> USE DEF Disjoint, Programs, Online, bounds, history
<1>1. TypeOK /\ DaemonIsFound /\ ApartInv /\ WholeInv
  BY DEF ProgramsInv
<1>2. TypeOK'
  BY <1>1 DEF TypeOK
<1>3. DaemonIsFound'
  BY <1>1 DEF DaemonIsFound
<1>4. ApartInv'
  BY <1>1 DEF ApartInv, Alone, UnseenHaveAll, Holds, TypeOK
<1>5. WholeInv'
  BY <1>1 DEF WholeInv, HoldersHaveAll, HasAll, Holds
<1> QED BY <1>2, <1>3, <1>4, <1>5 DEF ProgramsInv

(* Nobody holds the state and nobody did since the console loaded it: it has it all. *)
LEMMA StepOffline ==
  ASSUME Disjoint, ProgramsInv, NEW c \in Consoles, Offline(c)
  PROVE  ProgramsInv'
<1> USE DEF Disjoint, Programs, Offline, Begins, bounds, history
<1>1. TypeOK /\ DaemonIsFound /\ ApartInv /\ WholeInv
  BY DEF ProgramsInv
<1>2. TypeOK'
  BY <1>1 DEF TypeOK
<1>3. DaemonIsFound'
  BY <1>1 DEF DaemonIsFound, TypeOK
<1>4. ApartInv'
  BY <1>1 DEF ApartInv, Alone, UnseenHaveAll, Holds, TypeOK
<1>5. WholeInv'
  BY <1>1 DEF WholeInv, ApartInv, UnseenHaveAll, HoldersHaveAll, HasAll, Holds, TypeOK
<1> QED BY <1>2, <1>3, <1>4, <1>5 DEF ProgramsInv

(* What the console saves is all that was saved, and one command more. *)
LEMMA StepOfflineCommand ==
  ASSUME Disjoint, ProgramsInv, NEW c \in Consoles, OfflineCommand(c)
  PROVE  ProgramsInv'
<1> USE DEF Disjoint, Programs, OfflineCommand, create_command, bounds, history
<1>1. TypeOK /\ DaemonIsFound /\ ApartInv /\ WholeInv
  BY DEF ProgramsInv
<1>2. TypeOK'
  <2>1. mem[c] \in State /\ disk \in State /\ saved \subseteq Consoles
    BY <1>1 DEF TypeOK
  <2>2. Append(mem[c].commands, c) \in Seq(Consoles)
    BY <2>1, StateFields
  <2>3. mem' \in [Programs -> State] /\ mem'[c].commands = Append(mem[c].commands, c)
    BY <1>1, <2>2 DEF TypeOK, State
  <2>4. disk' \in State /\ saved' \subseteq Consoles
    BY <2>1, <2>3, RangeOfQueue DEF State
  <2> QED BY <1>1, <2>3, <2>4 DEF TypeOK
<1>3. DaemonIsFound'
  BY <1>1 DEF DaemonIsFound
<1>4. ApartInv'
  BY <1>1 DEF ApartInv, Alone, UnseenHaveAll, Holds
<1>5. WholeInv'
  BY <1>1, RangeOfAppend, RangeOfQueue DEF WholeInv, ApartInv, Alone, UnseenHaveAll, HoldersHaveAll, HasAll, Holds, Holders, TypeOK, State
<1> QED BY <1>2, <1>3, <1>4, <1>5 DEF ProgramsInv

(* Either the key and the group change together, or the group is torn. *)
LEMMA StepJoinCommand ==
  ASSUME Disjoint, ProgramsInv, NEW c \in Consoles, JoinCommand(c)
  PROVE  ProgramsInv'
<1> USE DEF Disjoint, Programs, JoinCommand, bounds, history
<1>1. TypeOK /\ DaemonIsFound /\ ApartInv /\ WholeInv
  BY DEF ProgramsInv
<1>2. TypeOK'
  <2> DEFINE new == [key |-> disk.key + 1, group |-> disk.key + 1, commands |-> <<>>]
  <2>1. disk.key + 1 \in Nat
    BY <1>1, StateFields DEF TypeOK
  <2>2. new \in State
    BY <2>1, NewGroup
  <2>3. mem' = [mem EXCEPT ![c] = new]
    OBVIOUS
  <2>4. \/ disk' = new /\ saved' = {} /\ torn' = torn
        \/ disk' = [disk EXCEPT !.key = new.key] /\ torn' = TRUE /\ saved' = saved
    OBVIOUS
  <2>5. disk' \in State
    <3>1. CASE disk' = new
      BY <3>1, <2>2
    <3>2. CASE disk' = [disk EXCEPT !.key = new.key]
      BY <3>2, <1>1, <2>1, StateUpdates, StateFields DEF TypeOK
    <3> QED BY <3>1, <3>2, <2>4
  <2> QED BY <1>1, <2>2, <2>3, <2>4, <2>5 DEF TypeOK
<1>3. DaemonIsFound'
  BY <1>1 DEF DaemonIsFound, ApartInv, Alone, Holds, Holders, TypeOK
<1>4. ApartInv'
  BY <1>1 DEF ApartInv, Alone, UnseenHaveAll, Holds, Holders, TypeOK
<1>5. WholeInv'
  BY <1>1, RangeOfAppend, RangeOfQueue DEF WholeInv, ApartInv, Alone, UnseenHaveAll, HoldersHaveAll, HasAll, Holds, Holders, TypeOK, State
<1> QED BY <1>2, <1>3, <1>4, <1>5 DEF ProgramsInv

(* The daemon of the console has one command more in memory. *)
LEMMA StepOnlineCommand ==
  ASSUME Disjoint, ProgramsInv, NEW c \in Consoles, OnlineCommand(c)
  PROVE  ProgramsInv'
<1> USE DEF Disjoint, Programs, OnlineCommand, create_command, bounds, history
<1>1. TypeOK /\ DaemonIsFound /\ ApartInv /\ WholeInv
  BY DEF ProgramsInv
<1>2. TypeOK'
  <2>1. serving[c] \in Daemons
    BY <1>1 DEF TypeOK
  <2>2. mem[serving[c]] \in State
    BY <1>1, <2>1 DEF TypeOK
  <2>3. [mem[serving[c]] EXCEPT !.commands = Append(mem[serving[c]].commands, c)] \in State
    <3>1. Append(mem[serving[c]].commands, c) \in Seq(Consoles)
      BY <2>2, StateFields
    <3> QED BY <3>1, <2>2 DEF State
  <2>4. mem' \in [Programs -> State]
    BY <1>1, <2>1, <2>3 DEF TypeOK
  <2> QED BY <1>1, <2>4 DEF TypeOK
<1>3. DaemonIsFound'
  BY <1>1 DEF DaemonIsFound, ApartInv, Alone, Holds, Holders, TypeOK
<1>4. ApartInv'
  BY <1>1 DEF ApartInv, Alone, UnseenHaveAll, Holds, Holders, TypeOK
<1>5. WholeInv'
  BY <1>1, RangeOfAppend, RangeOfQueue DEF WholeInv, ApartInv, Alone, UnseenHaveAll, HoldersHaveAll, HasAll, Holds, Holders, TypeOK, State
<1> QED BY <1>2, <1>3, <1>4, <1>5 DEF ProgramsInv

(* A console that ends writes nothing. *)
LEMMA StepConsoleEnds ==
  ASSUME Disjoint, ProgramsInv, NEW c \in Consoles, ConsoleEnds(c)
  PROVE  ProgramsInv'
<1> USE DEF Disjoint, Programs, ConsoleEnds, Ended, bounds, history
<1>1. TypeOK /\ DaemonIsFound /\ ApartInv /\ WholeInv
  BY DEF ProgramsInv
<1>2. TypeOK'
  BY <1>1, RangeOfAppend, RangeOfQueue DEF TypeOK, State, Empty
<1>3. DaemonIsFound'
  BY <1>1 DEF DaemonIsFound, ApartInv, Alone, Holds, Holders, TypeOK
<1>4. ApartInv'
  BY <1>1 DEF ApartInv, Alone, UnseenHaveAll, Holds, Holders, TypeOK
<1>5. WholeInv'
  BY <1>1, RangeOfAppend, RangeOfQueue DEF WholeInv, ApartInv, Alone, UnseenHaveAll, HoldersHaveAll, HasAll, Holds, Holders, TypeOK, State
<1> QED BY <1>2, <1>3, <1>4, <1>5 DEF ProgramsInv

(* If nobody holds the state, the daemon is alone and has it all. *)
LEMMA StepDaemonLoads ==
  ASSUME Disjoint, ProgramsInv, NEW d \in Daemons, DaemonLoads(d)
  PROVE  ProgramsInv'
<1> USE DEF Disjoint, Programs, DaemonLoads, Begins, bounds, history
<1>1. TypeOK /\ DaemonIsFound /\ ApartInv /\ WholeInv
  BY DEF ProgramsInv
<1>2. TypeOK'
  BY <1>1, RangeOfAppend, RangeOfQueue DEF TypeOK, State, Empty
<1>3. DaemonIsFound'
  BY <1>1 DEF DaemonIsFound, ApartInv, Alone, Holds, Holders, TypeOK
<1>4. ApartInv'
  BY <1>1 DEF ApartInv, Alone, UnseenHaveAll, Holds, Holders, TypeOK
<1>5. WholeInv'
  BY <1>1, RangeOfAppend, RangeOfQueue DEF WholeInv, ApartInv, Alone, UnseenHaveAll, HoldersHaveAll, HasAll, Holds, Holders, TypeOK, State
<1> QED BY <1>2, <1>3, <1>4, <1>5 DEF ProgramsInv

(* No other daemon is there to lose the socket to. *)
LEMMA StepListen ==
  ASSUME Disjoint, ProgramsInv, NEW d \in Daemons, Listen(d)
  PROVE  ProgramsInv'
<1> USE DEF Disjoint, Programs, Listen, bounds, history
<1>1. TypeOK /\ DaemonIsFound /\ ApartInv /\ WholeInv
  BY DEF ProgramsInv
<1>2. TypeOK'
  BY <1>1, RangeOfAppend, RangeOfQueue DEF TypeOK, State, Empty
<1>3. DaemonIsFound'
  BY <1>1 DEF DaemonIsFound, ApartInv, Alone, Holds, Holders, TypeOK
<1>4. ApartInv'
  BY <1>1 DEF ApartInv, Alone, UnseenHaveAll, Holds, Holders, TypeOK
<1>5. WholeInv'
  BY <1>1, RangeOfAppend, RangeOfQueue DEF WholeInv, ApartInv, Alone, UnseenHaveAll, HoldersHaveAll, HasAll, Holds, Holders, TypeOK, State
<1> QED BY <1>2, <1>3, <1>4, <1>5 DEF ProgramsInv

(* The daemon saves all that was saved. *)
LEMMA StepHelo ==
  ASSUME Disjoint, ProgramsInv, NEW d \in Daemons, Helo(d)
  PROVE  ProgramsInv'
<1> USE DEF Disjoint, Programs, Helo, save, bounds, history
<1>1. TypeOK /\ DaemonIsFound /\ ApartInv /\ WholeInv
  BY DEF ProgramsInv
<1>2. TypeOK'
  <2>1. mem[d] \in State /\ disk \in State /\ saved \subseteq Consoles
    BY <1>1 DEF TypeOK
  <2>2. disk' \in State /\ saved' \subseteq Consoles
    BY <2>1, StateFields, StateUpdates, RangeOfQueue
  <2> QED BY <1>1, <2>2 DEF TypeOK
<1>3. DaemonIsFound'
  BY <1>1 DEF DaemonIsFound, ApartInv, Alone, Holds, Holders, TypeOK
<1>4. ApartInv'
  BY <1>1 DEF ApartInv, Alone, UnseenHaveAll, Holds, Holders, TypeOK
<1>5. WholeInv'
  BY <1>1, RangeOfAppend, RangeOfQueue DEF WholeInv, ApartInv, Alone, UnseenHaveAll, HoldersHaveAll, HasAll, Holds, Holders, TypeOK, State
<1> QED BY <1>2, <1>3, <1>4, <1>5 DEF ProgramsInv

(* The daemon saves all that was saved, and what it was told since. *)
LEMMA StepDaemonSaves ==
  ASSUME Disjoint, ProgramsInv, NEW d \in Daemons, DaemonSaves(d)
  PROVE  ProgramsInv'
<1> USE DEF Disjoint, Programs, DaemonSaves, save, bounds, history
<1>1. TypeOK /\ DaemonIsFound /\ ApartInv /\ WholeInv
  BY DEF ProgramsInv
<1>2. TypeOK'
  <2>1. mem[d] \in State /\ disk \in State /\ saved \subseteq Consoles
    BY <1>1 DEF TypeOK
  <2>2. disk' \in State /\ saved' \subseteq Consoles
    BY <2>1, StateFields, StateUpdates, RangeOfQueue
  <2> QED BY <1>1, <2>2 DEF TypeOK
<1>3. DaemonIsFound'
  BY <1>1 DEF DaemonIsFound, ApartInv, Alone, Holds, Holders, TypeOK
<1>4. ApartInv'
  BY <1>1 DEF ApartInv, Alone, UnseenHaveAll, Holds, Holders, TypeOK
<1>5. WholeInv'
  BY <1>1, RangeOfAppend, RangeOfQueue DEF WholeInv, ApartInv, Alone, UnseenHaveAll, HoldersHaveAll, HasAll, Holds, Holders, TypeOK, State
<1> QED BY <1>2, <1>3, <1>4, <1>5 DEF ProgramsInv

(* The socket goes and the daemon is no longer at its poll(). *)
LEMMA StepReload ==
  ASSUME Disjoint, ProgramsInv, NEW d \in Daemons, Reload(d)
  PROVE  ProgramsInv'
<1> USE DEF Disjoint, Programs, Reload, SocketClosed, bounds, history
<1>1. TypeOK /\ DaemonIsFound /\ ApartInv /\ WholeInv
  BY DEF ProgramsInv
<1>2. TypeOK'
  BY <1>1, RangeOfAppend, RangeOfQueue DEF TypeOK, State, Empty
<1>3. DaemonIsFound'
  BY <1>1 DEF DaemonIsFound, ApartInv, Alone, Holds, Holders, TypeOK
<1>4. ApartInv'
  BY <1>1 DEF ApartInv, Alone, UnseenHaveAll, Holds, Holders, TypeOK
<1>5. WholeInv'
  BY <1>1, RangeOfAppend, RangeOfQueue DEF WholeInv, ApartInv, Alone, UnseenHaveAll, HoldersHaveAll, HasAll, Holds, Holders, TypeOK, State
<1> QED BY <1>2, <1>3, <1>4, <1>5 DEF ProgramsInv

(* The socket goes, and the daemon waits to say goodbye. *)
LEMMA StepLeave ==
  ASSUME Disjoint, ProgramsInv, NEW d \in Daemons, Leave(d)
  PROVE  ProgramsInv'
<1> USE DEF Disjoint, Programs, Leave, SocketClosed, bounds, history
<1>1. TypeOK /\ DaemonIsFound /\ ApartInv /\ WholeInv
  BY DEF ProgramsInv
<1>2. TypeOK'
  BY <1>1, RangeOfAppend, RangeOfQueue DEF TypeOK, State, Empty
<1>3. DaemonIsFound'
  BY <1>1 DEF DaemonIsFound, ApartInv, Alone, Holds, Holders, TypeOK
<1>4. ApartInv'
  BY <1>1 DEF ApartInv, Alone, UnseenHaveAll, Holds, Holders, TypeOK
<1>5. WholeInv'
  BY <1>1, RangeOfAppend, RangeOfQueue DEF WholeInv, ApartInv, Alone, UnseenHaveAll, HoldersHaveAll, HasAll, Holds, Holders, TypeOK, State
<1> QED BY <1>2, <1>3, <1>4, <1>5 DEF ProgramsInv

(* The last save of a daemon. *)
LEMMA StepBye ==
  ASSUME Disjoint, ProgramsInv, NEW d \in Daemons, Bye(d)
  PROVE  ProgramsInv'
<1> USE DEF Disjoint, Programs, Bye, save, Ended, bounds, history
<1>1. TypeOK /\ DaemonIsFound /\ ApartInv /\ WholeInv
  BY DEF ProgramsInv
<1>2. TypeOK'
  <2>1. mem[d] \in State /\ disk \in State /\ saved \subseteq Consoles
    BY <1>1 DEF TypeOK
  <2>2. disk' \in State /\ saved' \subseteq Consoles
    BY <2>1, StateFields, StateUpdates, RangeOfQueue
  <2> QED BY <1>1, <2>2, EmptyState DEF TypeOK
<1>3. DaemonIsFound'
  BY <1>1 DEF DaemonIsFound, ApartInv, Alone, Holds, Holders, TypeOK
<1>4. ApartInv'
  BY <1>1 DEF ApartInv, Alone, UnseenHaveAll, Holds, Holders, TypeOK
<1>5. WholeInv'
  BY <1>1, RangeOfAppend, RangeOfQueue DEF WholeInv, ApartInv, Alone, UnseenHaveAll, HoldersHaveAll, HasAll, Holds, Holders, TypeOK, State
<1> QED BY <1>2, <1>3, <1>4, <1>5 DEF ProgramsInv

(* Nobody holds the state, and until the node file is written the group is not whole. *)
LEMMA StepNewKey ==
  ASSUME Disjoint, ProgramsInv, NewKey
  PROVE  ProgramsInv'
<1> USE DEF Disjoint, Programs, NewKey, Begins, bounds, history
<1>1. TypeOK /\ DaemonIsFound /\ ApartInv /\ WholeInv
  BY DEF ProgramsInv
<1>2. TypeOK'
  <2>1. disk.key + 1 \in Nat
    BY <1>1, StateFields DEF TypeOK
  <2>2. disk' \in State
    BY <1>1, <2>1, StateUpdates, StateFields DEF TypeOK
  <2> QED BY <1>1, <2>2 DEF TypeOK
<1>3. DaemonIsFound'
  BY <1>1 DEF DaemonIsFound, ApartInv, Alone, Holds, Holders, TypeOK
<1>4. ApartInv'
  BY <1>1 DEF ApartInv, Alone, UnseenHaveAll, Holds, Holders, TypeOK
<1>5. WholeInv'
  BY <1>1, RangeOfAppend, RangeOfQueue DEF WholeInv, ApartInv, Alone, UnseenHaveAll, HoldersHaveAll, HasAll, Holds, Holders, TypeOK, State
<1> QED BY <1>2, <1>3, <1>4, <1>5 DEF ProgramsInv

(* The group is whole, and nothing of the old one is left. *)
LEMMA StepNewNode ==
  ASSUME Disjoint, ProgramsInv, NewNode
  PROVE  ProgramsInv'
<1> USE DEF Disjoint, Programs, NewNode, bounds, history
<1>1. TypeOK /\ DaemonIsFound /\ ApartInv /\ WholeInv
  BY DEF ProgramsInv
<1>2. TypeOK'
  <2>1. disk.key \in Nat
    BY <1>1, StateFields DEF TypeOK
  <2>2. disk' \in State
    BY <1>1, <2>1, StateUpdates, NoCommands DEF TypeOK
  <2> QED BY <1>1, <2>2 DEF TypeOK
<1>3. DaemonIsFound'
  BY <1>1 DEF DaemonIsFound, ApartInv, Alone, Holds, Holders, TypeOK
<1>4. ApartInv'
  BY <1>1 DEF ApartInv, Alone, UnseenHaveAll, Holds, Holders, TypeOK
<1>5. WholeInv'
  BY <1>1, RangeOfAppend, RangeOfQueue DEF WholeInv, ApartInv, Alone, UnseenHaveAll, HoldersHaveAll, HasAll, Holds, Holders, TypeOK, State
<1> QED BY <1>2, <1>3, <1>4, <1>5 DEF ProgramsInv

(* The program that changes the group no longer holds the state. *)
LEMMA StepRestarted ==
  ASSUME Disjoint, ProgramsInv, Restarted
  PROVE  ProgramsInv'
<1> USE DEF Disjoint, Programs, Restarted, bounds, history
<1>1. TypeOK /\ DaemonIsFound /\ ApartInv /\ WholeInv
  BY DEF ProgramsInv
<1>2. TypeOK'
  BY <1>1, RangeOfAppend, RangeOfQueue DEF TypeOK, State, Empty
<1>3. DaemonIsFound'
  BY <1>1 DEF DaemonIsFound, ApartInv, Alone, Holds, Holders, TypeOK
<1>4. ApartInv'
  BY <1>1 DEF ApartInv, Alone, UnseenHaveAll, Holds, Holders, TypeOK
<1>5. WholeInv'
  BY <1>1, RangeOfAppend, RangeOfQueue DEF WholeInv, ApartInv, Alone, UnseenHaveAll, HoldersHaveAll, HasAll, Holds, Holders, TypeOK, State
<1> QED BY <1>2, <1>3, <1>4, <1>5 DEF ProgramsInv

(* Whoever crashes takes only its memory with it, and leaves its socket behind. *)
LEMMA StepCrash ==
  ASSUME Disjoint, ProgramsInv, NEW p \in Programs, Crash(p)
  PROVE  ProgramsInv'
<1> USE DEF Disjoint, Programs, Crash, Ended, bounds, history
<1>1. TypeOK /\ DaemonIsFound /\ ApartInv /\ WholeInv
  BY DEF ProgramsInv
<1>2. TypeOK'
  BY <1>1, RangeOfAppend, RangeOfQueue DEF TypeOK, State, Empty
<1>3. DaemonIsFound'
  BY <1>1 DEF DaemonIsFound, ApartInv, Alone, Holds, Holders, TypeOK
<1>4. ApartInv'
  BY <1>1 DEF ApartInv, Alone, UnseenHaveAll, Holds, Holders, TypeOK
<1>5. WholeInv'
  BY <1>1, RangeOfAppend, RangeOfQueue DEF WholeInv, ApartInv, Alone, UnseenHaveAll, HoldersHaveAll, HasAll, Holds, Holders, TypeOK, State
<1> QED BY <1>2, <1>3, <1>4, <1>5 DEF ProgramsInv

(* The group is torn. *)
LEMMA StepJoinCrashes ==
  ASSUME Disjoint, ProgramsInv, JoinCrashes
  PROVE  ProgramsInv'
<1> USE DEF Disjoint, Programs, JoinCrashes, bounds, history
<1>1. TypeOK /\ DaemonIsFound /\ ApartInv /\ WholeInv
  BY DEF ProgramsInv
<1>2. TypeOK'
  BY <1>1, RangeOfAppend, RangeOfQueue DEF TypeOK, State, Empty
<1>3. DaemonIsFound'
  BY <1>1 DEF DaemonIsFound, ApartInv, Alone, Holds, Holders, TypeOK
<1>4. ApartInv'
  BY <1>1 DEF ApartInv, Alone, UnseenHaveAll, Holds, Holders, TypeOK
<1>5. WholeInv'
  BY <1>1, RangeOfAppend, RangeOfQueue DEF WholeInv, ApartInv, Alone, UnseenHaveAll, HoldersHaveAll, HasAll, Holds, Holders, TypeOK, State
<1> QED BY <1>2, <1>3, <1>4, <1>5 DEF ProgramsInv

(* Every step keeps the invariant. *)
LEMMA ProgramsStepInv == Disjoint /\ ProgramsInv /\ [Next]_vars => ProgramsInv'
<1> SUFFICES ASSUME Disjoint, ProgramsInv, [Next]_vars PROVE ProgramsInv'
  OBVIOUS
<1>1. ASSUME NEW c \in Consoles, Console(c) PROVE ProgramsInv'
  BY <1>1, StepConsoleLoads, StepOnline, StepOffline, StepOfflineCommand, StepJoinCommand,
     StepOnlineCommand, StepConsoleEnds DEF Console
<1>2. ASSUME NEW d \in Daemons, Daemon(d) PROVE ProgramsInv'
  BY <1>2, StepDaemonLoads, StepListen, StepHelo, StepDaemonSaves, StepReload, StepLeave,
     StepBye DEF Daemon
<1>3. CASE NewKey \/ NewNode \/ Restarted
  BY <1>3, StepNewKey, StepNewNode, StepRestarted
<1>4. ASSUME NEW p \in Programs, Crash(p) PROVE ProgramsInv'
  BY <1>4, StepCrash
<1>5. CASE JoinCrashes
  BY <1>5, StepJoinCrashes
<1>6. CASE UNCHANGED vars
  BY <1>6 DEF vars, ProgramsInv, TypeOK, DaemonIsFound, ApartInv, Alone, UnseenHaveAll, Holds,
              WholeInv, HoldersHaveAll, HasAll
<1> QED BY <1>1, <1>2, <1>3, <1>4, <1>5, <1>6 DEF Next

(* The invariant holds, for every number of programs and every bound. *)
THEOREM ProgramsInvariance == ASSUME Disjoint PROVE Spec => []ProgramsInv
<1>1. Init => ProgramsInv
  BY ProgramsInitInv
<1>2. ProgramsInv /\ [Next]_vars => ProgramsInv'
  BY ProgramsStepInv
<1> QED BY <1>1, <1>2, PTL DEF Spec

(* Two programs that do not overlap keep each other's commands (Core::save()).  *)
THEOREM SavedStays == ASSUME Disjoint PROVE Spec => []SavedStaysSaved
<1>1. ProgramsInv => SavedStaysSaved
  BY DEF ProgramsInv, WholeInv, HoldersHaveAll, SavedStaysSaved
<1> QED BY <1>1, ProgramsInvariance, PTL

(* A daemon that polls listens at the path, whoever else has crashed or ended   *)
(* (UnixServerSocket).                                                          *)
THEOREM FindsDaemon == ASSUME Disjoint PROVE Spec => []DaemonIsFound
<1>1. ProgramsInv => DaemonIsFound
  BY DEF ProgramsInv
<1> QED BY <1>1, ProgramsInvariance, PTL

(* The key of the group and the state of the node belong together (new_group(), *)
(* join_group()).                                                               *)
THEOREM WholeGroup == ASSUME Disjoint PROVE Spec => []GroupIsWhole
<1>1. ProgramsInv => GroupIsWhole
  BY DEF ProgramsInv, WholeInv, HoldersHaveAll, GroupIsWhole
<1> QED BY <1>1, ProgramsInvariance, PTL

-----------------------------------------------------------------------------
(* What RemoveAt() leaves: the elements before, and those behind, one place  *)
(* further to the front.                                                    *)
LEMMA RemoveAtLemma ==
  ASSUME NEW S, NEW s \in Seq(S), NEW j \in 1 .. Len(s)
  PROVE  /\ RemoveAt(s, j) \in Seq(S)
         /\ Len(RemoveAt(s, j)) = Len(s) - 1
         /\ \A k \in 1 .. j - 1 : RemoveAt(s, j)[k] = s[k]
         /\ \A k \in j .. Len(s) - 1 : RemoveAt(s, j)[k] = s[k + 1]
<1>. DEFINE a == SubSeq(s, 1, j - 1)
            b == SubSeq(s, j + 1, Len(s))
            new == RemoveAt(s, j)
<1>1. /\ a \in Seq(S) /\ Len(a) = j - 1
      /\ \A k \in 1 .. j - 1 : a[k] = s[k]
  OBVIOUS
<1>2. /\ b \in Seq(S) /\ Len(b) = Len(s) - j
      /\ \A k \in 1 .. Len(s) - j : b[k] = s[j + k]
  OBVIOUS
<1>3. new = a \o b
  BY DEF RemoveAt
<1>. HIDE DEF a, b, new
<1>4. /\ new \in Seq(S) /\ Len(new) = Len(a) + Len(b)
      /\ \A k \in 1 .. Len(a) + Len(b) : new[k] = IF k <= Len(a) THEN a[k] ELSE b[k - Len(a)]
  BY <1>1, <1>2, <1>3, ConcatProperties
<1>5. ASSUME NEW k \in j .. Len(s) - 1 PROVE new[k] = s[k + 1]
  <2>1. Len(a) = j - 1 /\ Len(b) = Len(s) - j
    BY <1>1, <1>2
  <2>2. k \in 1 .. Len(a) + Len(b) /\ ~(k <= Len(a))
    BY <2>1
  <2>3. new[k] = b[k - (j - 1)] /\ k - (j - 1) \in 1 .. Len(s) - j
    BY <1>4, <2>1, <2>2
  <2>4. j + (k - (j - 1)) = k + 1
    OBVIOUS
  <2>. QED BY <1>2, <2>3, <2>4
<1>6. Len(new) = Len(s) - 1
  BY <1>1, <1>2, <1>4
<1>7. ASSUME NEW k \in 1 .. j - 1 PROVE new[k] = s[k]
  <2>1. k \in 1 .. Len(a) + Len(b) /\ k <= Len(a)
    BY <1>1, <1>2
  <2>. QED BY <1>1, <1>4, <2>1
<1>. QED BY <1>4, <1>5, <1>6, <1>7 DEF new

LEMMA ConcatLemma ==
  ASSUME NEW S, NEW s \in Seq(S), NEW t \in Seq(S), NEW st, st = s \o t
  PROVE  /\ st \in Seq(S) /\ Len(st) = Len(s) + Len(t)
         /\ \A k \in 1 .. Len(s) : st[k] = s[k]
         /\ \A k \in 1 .. Len(t) : st[Len(s) + k] = t[k]
<1>1. /\ st \in Seq(S) /\ Len(st) = Len(s) + Len(t)
      /\ \A j \in 1 .. Len(s) + Len(t) : st[j] = IF j <= Len(s) THEN s[j] ELSE t[j - Len(s)]
  BY ConcatProperties
<1>2. Len(s) \in Nat /\ Len(t) \in Nat
  OBVIOUS
<1>3. ASSUME NEW k \in 1 .. Len(s) PROVE st[k] = s[k]
  BY <1>1, <1>2
<1>4. ASSUME NEW k \in 1 .. Len(t) PROVE st[Len(s) + k] = t[k]
  <2>1. Len(s) + k \in 1 .. Len(s) + Len(t) /\ ~(Len(s) + k <= Len(s)) /\ (Len(s) + k) - Len(s) = k
    BY <1>2
  <2>. QED BY <1>1, <2>1
<1>. QED BY <1>1, <1>3, <1>4

(* The list of a finite set. *)
LEMMA ListLemma ==
  ASSUME NEW S, IsFiniteSet(S)
  PROVE  SetToSeq(S) \in Seq(S)
<1>. DEFINE n == Cardinality(S)
<1>1. n \in Nat /\ \E f : f \in Bijection(1 .. n, S)
  BY FS_CardinalityType DEF ExistsBijection
<1>2. PICK f \in [1 .. n -> S] : IsInjective(f)
  BY <1>1 DEF Bijection, Injection, IsInjective
<1>3. SetToSeq(S) \in [1 .. n -> S]
  BY <1>2 DEF SetToSeq
<1>. QED BY <1>1, <1>3

LEMMA MinimumLemma ==
  ASSUME NEW S \in SUBSET Nat, S # {}
  PROVE  Min(S) \in S
<1>1. OpToRel(<, Nat) = {ss \in Nat \X Nat : ss[1] < ss[2]}
  BY Zenon DEF OpToRel
<1>2. PICK x \in S : \A y \in S : ~(<<y, x>> \in {ss \in Nat \X Nat : ss[1] < ss[2]})
  BY <1>1, NatLessThanWellFounded, WFMin
<1>3. ASSUME NEW y \in S PROVE x <= y
  <2>1. <<y, x>> \in Nat \X Nat => ~(<<y, x>>[1] < <<y, x>>[2])
    BY <1>2
  <2>. QED BY <2>1
<1>. QED BY <1>3 DEF Min

(* The loop goes on at an index. *)
LEMMA NextEntryLemma ==
  ASSUME NEW fds, Len(fds) \in Nat, NEW k \in Nat
  PROVE  NextEntry(fds, k) \in Nat
<1>1. Max({k, Len(fds)}) \in Nat
  BY DEF Max
<1>2. {j \in k + 1 .. Len(fds) : fds[j].revents # {}} \cup {Max({k, Len(fds)}) + 1} \in SUBSET Nat
  BY <1>1
<1>. QED BY <1>2, MinimumLemma DEF NextEntry

(* What was done for a connection stays done. *)
RemoteGoesOn ==
  \A c \in Clients : remote[c].state # "none" =>
    remote'[c].state # "none" /\ remote'[c].trash = remote[c].trash

LEMMA DoneStaysDone ==
  ASSUME RemoteGoesOn, short \subseteq short',
         NEW nb, nb.ad \in Clients, NEW events, DoneMeansWhole(nb, events)
  PROVE  DoneMeansWhole(nb, events)'
BY DEF RemoteGoesOn, DoneMeansWhole

(* What a step leaves alone when it only deals with the other side.         *)
LEMMA OnlyRemote ==
  ASSUME HandshakeInv, remote' \in [Clients -> Remote], RemoteGoesOn,
         UNCHANGED <<pollfds, udp_ifn, tcpnb, udp_idx, tcp_idx, i, short, failures>>
  PROVE  HandshakeInv'
<1>1. HandshakeTypeOK'
  BY DEF HandshakeInv, HandshakeTypeOK
<1>2. Aligned' /\ EventsAskedFor'
  BY DEF HandshakeInv, Aligned, EventsAskedFor
<1>3. ASSUME NEW k \in 1 .. Len(tcpnb')
      PROVE  DoneMeansWhole(tcpnb[k], pollfds[tcp_idx + k].events)'
  <2>1. tcpnb[k].ad \in Clients /\ DoneMeansWhole(tcpnb[k], pollfds[tcp_idx + k].events)
    <3>1. tcpnb \in Seq(HeloNB) /\ k \in 1 .. Len(tcpnb)
      BY DEF HandshakeInv, HandshakeTypeOK
    <3>2. tcpnb[k] \in HeloNB
      BY <3>1
    <3>. QED BY <3>1, <3>2 DEF HandshakeInv, HeloNB
  <2>2. /\ tcpnb'[k] = tcpnb[k] /\ pollfds'[tcp_idx' + k] = pollfds[tcp_idx + k]
    OBVIOUS
  <2>. QED BY <2>1, <2>2 DEF RemoteGoesOn, DoneMeansWhole
<1>. QED BY <1>1, <1>2, <1>3 DEF HandshakeInv

LEMMA ConnectToInv == ASSUME HandshakeInv, NEW c \in Clients, ConnectTo(c) PROVE HandshakeInv'
<1>1. PICK l \in Listeners, trash \in TheirTrash :
        remote' = [remote EXCEPT ![c] =
          [state |-> IF \E k \in 1 .. Len(pollfds) : pollfds[k].fd = l THEN "connecting" ELSE "gone",
           to |-> l, trash |-> trash, sent |-> 0]]
  BY DEF ConnectTo
<1>2. remote \in [Clients -> Remote] /\ remote[c].state = "none"
  BY DEF HandshakeInv, HandshakeTypeOK, ConnectTo
<1>3. trash \in Nat
  BY SizesAssumption
<1>4. remote' \in [Clients -> Remote]
  BY <1>1, <1>2, <1>3 DEF Remote
<1>5. RemoteGoesOn
  BY <1>1, <1>2 DEF RemoteGoesOn
<1>. QED BY <1>4, <1>5, OnlyRemote DEF ConnectTo

LEMMA ArriveInv == ASSUME HandshakeInv, NEW c \in Clients, Arrive(c) PROVE HandshakeInv'
<1>1. remote \in [Clients -> Remote] /\ remote' = [remote EXCEPT ![c].sent = @ + 1]
  BY DEF HandshakeInv, HandshakeTypeOK, Arrive
<1>2. remote[c] \in Remote /\ remote[c].sent + 1 \in Nat
  <2>1. remote[c] \in Remote
    BY <1>1
  <2>2. remote[c].sent \in Nat
    BY <2>1 DEF Remote
  <2>. QED BY <2>1, <2>2
<1>3. ASSUME NEW n \in Nat, NEW r \in Remote
      PROVE  LET new == [r EXCEPT !.sent = n] IN new \in Remote /\ new.state = r.state /\ new.trash = r.trash
  BY DEF Remote
<1>4. remote'[c] = [remote[c] EXCEPT !.sent = remote[c].sent + 1]
  BY <1>1
<1>5. remote'[c] \in Remote /\ remote'[c].state = remote[c].state /\ remote'[c].trash = remote[c].trash
  BY <1>2, <1>3, <1>4
<1>6. remote' \in [Clients -> Remote] /\ RemoteGoesOn
  BY <1>1, <1>5 DEF RemoteGoesOn
<1>. QED BY <1>6, OnlyRemote DEF Arrive

LEMMA HangUpInv == ASSUME HandshakeInv, NEW c \in Clients, HangUp(c) PROVE HandshakeInv'
<1>1. remote \in [Clients -> Remote] /\ remote' = [remote EXCEPT ![c].state = "hung up"]
  BY DEF HandshakeInv, HandshakeTypeOK, HangUp
<1>2. remote' \in [Clients -> Remote] /\ RemoteGoesOn
  BY <1>1 DEF Remote, RemoteGoesOn
<1>. QED BY <1>2, OnlyRemote DEF HangUp

LEMMA HandshakeInitInv == HandshakeInit => HandshakeInv
<1>. SUFFICES ASSUME HandshakeInit PROVE HandshakeInv
  OBVIOUS
<1>. DEFINE u == SetToSeq(Interfaces)
            l == SetToSeq(Listeners)
            a == <<Pollfd("unix", {"POLLIN"}), Pollfd("unix_lp", {"POLLIN"})>>
            b == [k \in 1 .. Len(u) |-> Pollfd(u[k], {"POLLIN"})]
            d == [k \in 1 .. Len(l) |-> Pollfd(l[k], {"POLLIN"})]
<1>1. u \in Seq(Interfaces) /\ l \in Seq(Listeners)
  BY ListLemma, SocketsAssumption
<1>2. /\ pollfds = a \o b \o d /\ udp_ifn = u /\ tcpnb = <<>> /\ short = {} /\ failures = 0 /\ i = 0
      /\ udp_idx = 2 + Len(u) /\ tcp_idx = 2 + Len(u) + Len(l)
      /\ remote = [c \in Clients |-> [state |-> "none", to |-> "none", trash |-> 0, sent |-> 0]]
  BY DEF HandshakeInit, sys_idx
<1>. HIDE DEF u, l
<1>3. Len(u) \in Nat /\ Len(l) \in Nat
  BY <1>1
<1>. DEFINE New == {p \in Entry : p.revents = {}}
<1>4. ASSUME NEW fd \in Descriptors PROVE Pollfd(fd, {"POLLIN"}) \in New /\ Pollfd(fd, {"POLLIN"}).fd = fd
  BY DEF Pollfd, Entry, Events
<1>5. a \in Seq(New) /\ Len(a) = 2
  <2>1. Pollfd("unix", {"POLLIN"}) \in New /\ Pollfd("unix_lp", {"POLLIN"}) \in New
    BY <1>4 DEF Descriptors
  <2>. HIDE DEF New
  <2>. QED BY <2>1
<1>6. b \in Seq(New) /\ Len(b) = Len(u) /\ \A k \in 1 .. Len(u) : b[k].fd = u[k]
  <2>1. ASSUME NEW k \in 1 .. Len(u) PROVE b[k] \in New /\ b[k].fd = u[k]
    <3>1. u[k] \in Descriptors
      BY <1>1 DEF Descriptors
    <3>. QED BY <1>4, <3>1
  <2>. HIDE DEF New
  <2>2. b \in [1 .. Len(u) -> New]
    BY <2>1
  <2>. QED BY <1>3, <2>1, <2>2
<1>7. d \in Seq(New) /\ Len(d) = Len(l)
  <2>1. ASSUME NEW k \in 1 .. Len(l) PROVE d[k] \in New
    <3>1. l[k] \in Descriptors
      BY <1>1 DEF Descriptors
    <3>. QED BY <1>4, <3>1
  <2>. HIDE DEF New
  <2>2. d \in [1 .. Len(l) -> New]
    BY <2>1
  <2>. QED BY <1>3, <2>1, <2>2
<1>. HIDE DEF a, b, d, New
<1>. DEFINE ab == a \o b
            abd == ab \o d
<1>cat. ab = a \o b /\ abd = ab \o d
  OBVIOUS
<1>. HIDE DEF ab, abd
<1>8. /\ ab \in Seq(New) /\ Len(ab) = Len(a) + Len(b)
      /\ \A k \in 1 .. Len(b) : ab[Len(a) + k] = b[k]
  <2>1. a \in Seq(New) /\ b \in Seq(New)
    BY <1>5, <1>6
  <2>. QED BY <1>cat, <2>1, ConcatLemma
<1>9. /\ abd \in Seq(New) /\ Len(abd) = Len(ab) + Len(d)
      /\ \A k \in 1 .. Len(ab) : abd[k] = ab[k]
  <2>1. ab \in Seq(New) /\ d \in Seq(New)
    BY <1>7, <1>8
  <2>. QED BY <1>cat, <2>1, ConcatLemma
<1>10. pollfds = abd
  BY <1>2, <1>cat
<1>11. /\ pollfds \in Seq(New) /\ Len(pollfds) = tcp_idx
       /\ \A k \in 1 .. Len(u) : pollfds[2 + k].fd = u[k]
  <2>1. ASSUME NEW k \in 1 .. Len(u) PROVE abd[2 + k].fd = u[k]
    <3>1. 2 + k \in 1 .. Len(ab) /\ k \in 1 .. Len(b)
      BY <1>3, <1>5, <1>6, <1>8
    <3>2. abd[2 + k] = ab[2 + k] /\ ab[2 + k] = b[k]
      BY <1>5, <1>8, <1>9, <3>1
    <3>. QED BY <1>6, <3>2
  <2>. QED BY <1>2, <1>3, <1>5, <1>6, <1>7, <1>8, <1>9, <1>10, <2>1
<1>12. ASSUME NEW k \in 1 .. Len(pollfds) PROVE pollfds[k] \in New
  BY <1>11
<1>13. EventsAskedFor
  BY <1>12 DEF EventsAskedFor, New
<1>14. Aligned
  <2>1. Len(tcpnb) = 0 /\ Len(pollfds) = tcp_idx + Len(tcpnb) /\ udp_ifn = u
    BY <1>2, <1>3, <1>11
  <2>. QED BY <1>2, <1>11, <2>1 DEF Aligned, sys_idx
<1>15. HandshakeTypeOK
  <2>1. pollfds \in Seq(Entry)
    BY <1>11 DEF New
  <2>2. remote \in [Clients -> Remote]
    BY <1>2 DEF Remote
  <2>3. tcpnb \in Seq(HeloNB) /\ failures \in 0 .. MaxFailures /\ short \subseteq Clients
    BY <1>2, SizesAssumption
  <2>. QED BY <1>1, <1>2, <1>3, <2>1, <2>2, <2>3 DEF HandshakeTypeOK, sys_idx
<1>16. \A k \in 1 .. Len(tcpnb) : DoneMeansWhole(tcpnb[k], pollfds[tcp_idx + k].events)
  BY <1>2
<1>. QED BY <1>13, <1>14, <1>15, <1>16 DEF HandshakeInv

(* poll() tells of an entry what it asked for. *)
LEMMA PollInv == ASSUME HandshakeInv, Poll PROVE HandshakeInv'
<1>1. /\ pollfds \in Seq(Entry) /\ tcpnb \in Seq(HeloNB) /\ udp_ifn \in Seq(Interfaces)
      /\ udp_idx \in Nat /\ tcp_idx \in Nat /\ sys_idx <= udp_idx /\ udp_idx <= tcp_idx
      /\ remote \in [Clients -> Remote] /\ short \subseteq Clients /\ failures \in 0 .. MaxFailures
  BY DEF HandshakeInv, HandshakeTypeOK
<1>2. UNCHANGED <<udp_ifn, udp_idx, tcp_idx, tcpnb, remote, short>>
  BY DEF Poll
<1>3. PICK failing \in SUBSET Interfaces :
        /\ failing # {} => failures < MaxFailures
        /\ failures' = IF failing = {} THEN failures ELSE failures + 1
        /\ pollfds' = [k \in 1 .. Len(pollfds) |-> [pollfds[k] EXCEPT !.revents =
             IF pollfds[k].fd \in failing THEN {"POLLERR"} ELSE Ready(pollfds[k])]]
  BY DEF Poll
<1>4. ASSUME NEW k \in 1 .. Len(pollfds)
      PROVE  /\ pollfds'[k] \in Entry
             /\ pollfds'[k].fd = pollfds[k].fd /\ pollfds'[k].events = pollfds[k].events
             /\ pollfds'[k].revents \subseteq pollfds'[k].events \cup {"POLLERR"}
  <2>1. pollfds[k] \in Entry
    BY <1>1
  <2>2. Ready(pollfds[k]) \subseteq pollfds[k].events
    BY DEF Ready
  <2>3. pollfds'[k] = [pollfds[k] EXCEPT !.revents =
                         IF pollfds[k].fd \in failing THEN {"POLLERR"} ELSE Ready(pollfds[k])]
    BY <1>3
  <2>. QED BY <2>1, <2>2, <2>3 DEF Entry
<1>5. pollfds' \in Seq(Entry) /\ Len(pollfds') = Len(pollfds)
  <2>1. Len(pollfds) \in Nat
    BY <1>1
  <2>2. pollfds' \in [1 .. Len(pollfds) -> Entry]
    BY <1>3, <1>4
  <2>. QED BY <2>1, <2>2
<1>6. i' \in Nat
  <2>1. i' = NextEntry(pollfds', 0) /\ Len(pollfds') \in Nat
    BY <1>5 DEF Poll
  <2>. QED BY <2>1, NextEntryLemma
<1>7. failures' \in 0 .. MaxFailures
  BY <1>1, <1>3, SizesAssumption
<1>8. Len(udp_ifn) \in Nat /\ Len(tcpnb) \in Nat
  BY <1>1
<1>9. HandshakeTypeOK'
  BY <1>1, <1>2, <1>5, <1>6, <1>7 DEF HandshakeTypeOK
<1>10. Aligned'
  <2>1. ASSUME NEW k \in 1 .. Len(udp_ifn) PROVE sys_idx + k \in 1 .. Len(pollfds)
    BY <1>1, <1>8 DEF HandshakeInv, Aligned, sys_idx
  <2>2. ASSUME NEW k \in 1 .. Len(tcpnb) PROVE tcp_idx + k \in 1 .. Len(pollfds)
    BY <1>1, <1>8 DEF HandshakeInv, Aligned, sys_idx
  <2>. QED BY <1>2, <1>4, <1>5, <2>1, <2>2 DEF HandshakeInv, Aligned
<1>11. EventsAskedFor'
  BY <1>4, <1>5 DEF EventsAskedFor
<1>12. ASSUME NEW k \in 1 .. Len(tcpnb)
       PROVE  DoneMeansWhole(tcpnb[k], pollfds[tcp_idx + k].events)'
  <2>1. tcp_idx + k \in 1 .. Len(pollfds)
    BY <1>1, <1>8 DEF HandshakeInv, Aligned
  <2>2. pollfds'[tcp_idx + k].events = pollfds[tcp_idx + k].events
    BY <1>4, <2>1
  <2>3. DoneMeansWhole(tcpnb[k], pollfds[tcp_idx + k].events)
    BY DEF HandshakeInv
  <2>. QED BY <1>2, <2>2, <2>3 DEF DoneMeansWhole
<1>. QED BY <1>2, <1>9, <1>10, <1>11, <1>12 DEF HandshakeInv

LEMMA EventsAfterErase ==
  ASSUME pollfds \in Seq(Entry), EventsAskedFor, NEW j \in 1 .. Len(pollfds),
         pollfds' = RemoveAt(pollfds, j)
  PROVE  EventsAskedFor'
<1>1. /\ Len(pollfds') = Len(pollfds) - 1 /\ Len(pollfds) \in Nat
      /\ \A k \in 1 .. j - 1 : pollfds'[k] = pollfds[k]
      /\ \A k \in j .. Len(pollfds) - 1 : pollfds'[k] = pollfds[k + 1]
  BY RemoveAtLemma
<1>. SUFFICES ASSUME NEW k \in 1 .. Len(pollfds')
              PROVE  pollfds'[k].revents \subseteq pollfds'[k].events \cup {"POLLERR"}
  BY DEF EventsAskedFor
<1>2. CASE k < j
  <2>1. k \in 1 .. Len(pollfds) /\ k \in 1 .. j - 1
    BY <1>1, <1>2
  <2>. QED BY <1>1, <2>1 DEF EventsAskedFor
<1>3. CASE j <= k
  <2>1. k + 1 \in 1 .. Len(pollfds) /\ k \in j .. Len(pollfds) - 1
    BY <1>1, <1>3
  <2>. QED BY <1>1, <2>1 DEF EventsAskedFor
<1>. QED BY <1>1, <1>2, <1>3

(* A connection leaves both vectors at the place that belongs to it. *)
Closes(j) ==
  /\ tcpnb' = RemoveAt(tcpnb, j) /\ pollfds' = RemoveAt(pollfds, tcp_idx + j)
  /\ \E state \in {"served", "gone"} : remote' = [remote EXCEPT ![tcpnb[j].ad].state = state]
  /\ UNCHANGED <<udp_ifn, udp_idx, tcp_idx, short, failures>>
  /\ i' \in Nat

LEMMA CloseConnection ==
  ASSUME HandshakeInv, NEW j \in 1 .. Len(tcpnb), Closes(j)
  PROVE  HandshakeInv'
<1>0. /\ tcpnb' = RemoveAt(tcpnb, j) /\ pollfds' = RemoveAt(pollfds, tcp_idx + j)
      /\ \E state \in {"served", "gone"} : remote' = [remote EXCEPT ![tcpnb[j].ad].state = state]
      /\ UNCHANGED <<udp_ifn, udp_idx, tcp_idx, short, failures>>
      /\ i' \in Nat
  BY DEF Closes
<1>1. /\ pollfds \in Seq(Entry) /\ tcpnb \in Seq(HeloNB) /\ udp_ifn \in Seq(Interfaces)
      /\ udp_idx \in Nat /\ tcp_idx \in Nat /\ sys_idx <= udp_idx /\ udp_idx <= tcp_idx
      /\ remote \in [Clients -> Remote] /\ short \subseteq Clients /\ failures \in 0 .. MaxFailures
  BY DEF HandshakeInv, HandshakeTypeOK
<1>2. /\ udp_idx = sys_idx + Len(udp_ifn) /\ Len(pollfds) = tcp_idx + Len(tcpnb)
      /\ \A k \in 1 .. Len(udp_ifn) : pollfds[sys_idx + k].fd = udp_ifn[k]
      /\ \A k \in 1 .. Len(tcpnb) : pollfds[tcp_idx + k].fd = tcpnb[k].ad
  BY DEF HandshakeInv, Aligned
<1>3. Len(udp_ifn) \in Nat /\ Len(tcpnb) \in Nat /\ sys_idx = 2
  BY <1>1 DEF sys_idx
<1>4. tcp_idx + j \in 1 .. Len(pollfds)
  BY <1>1, <1>2, <1>3
<1>5. /\ pollfds' \in Seq(Entry) /\ Len(pollfds') = Len(pollfds) - 1
      /\ \A k \in 1 .. tcp_idx + j - 1 : pollfds'[k] = pollfds[k]
      /\ \A k \in tcp_idx + j .. Len(pollfds) - 1 : pollfds'[k] = pollfds[k + 1]
  <2>. DEFINE q == tcp_idx + j
              new == RemoveAt(pollfds, q)
  <2>1. pollfds' = new /\ q \in 1 .. Len(pollfds)
    BY <1>0, <1>4
  <2>. HIDE DEF q
  <2>2. /\ new \in Seq(Entry) /\ Len(new) = Len(pollfds) - 1
        /\ \A k \in 1 .. q - 1 : new[k] = pollfds[k]
        /\ \A k \in q .. Len(pollfds) - 1 : new[k] = pollfds[k + 1]
    BY <1>1, <2>1, RemoveAtLemma
  <2>. QED BY <1>1, <2>1, <2>2 DEF q
<1>6. /\ tcpnb' \in Seq(HeloNB) /\ Len(tcpnb') = Len(tcpnb) - 1
      /\ \A k \in 1 .. j - 1 : tcpnb'[k] = tcpnb[k]
      /\ \A k \in j .. Len(tcpnb) - 1 : tcpnb'[k] = tcpnb[k + 1]
  <2>1. tcpnb' = RemoveAt(tcpnb, j) /\ tcpnb \in Seq(HeloNB)
    BY <1>0, <1>1
  <2>. QED BY <2>1, RemoveAtLemma
<1>len. /\ tcp_idx \in Nat /\ Len(udp_ifn) \in Nat /\ Len(tcpnb) \in Nat /\ 2 + Len(udp_ifn) <= tcp_idx
       /\ Len(pollfds) = tcp_idx + Len(tcpnb) /\ Len(pollfds') = tcp_idx + Len(tcpnb) - 1
       /\ Len(tcpnb') = Len(tcpnb) - 1
  <2>1. Len(pollfds') = Len(pollfds) - 1
    BY <1>5, Zenon
  <2>2. Len(tcpnb') = Len(tcpnb) - 1
    BY <1>6, Zenon
  <2>3. udp_idx = sys_idx + Len(udp_ifn) /\ Len(pollfds) = tcp_idx + Len(tcpnb)
    BY <1>2, Zenon
  <2>. QED BY <1>1, <1>3, <2>1, <2>2, <2>3
<1>7. ASSUME NEW k \in 1 .. Len(tcpnb')
      PROVE  \E m \in 1 .. Len(tcpnb) : tcpnb'[k] = tcpnb[m] /\ pollfds'[tcp_idx + k] = pollfds[tcp_idx + m]
  <2>1. CASE k < j
    <3>1. k \in 1 .. Len(tcpnb) /\ k \in 1 .. j - 1 /\ tcp_idx + k \in 1 .. tcp_idx + j - 1
      BY <1>len, <2>1
    <3>2. tcpnb'[k] = tcpnb[k] /\ pollfds'[tcp_idx + k] = pollfds[tcp_idx + k]
      BY <1>5, <1>6, <3>1
    <3>. QED BY <3>1, <3>2
  <2>2. CASE j <= k
    <3>1. /\ k + 1 \in 1 .. Len(tcpnb) /\ k \in j .. Len(tcpnb) - 1
          /\ tcp_idx + k \in tcp_idx + j .. Len(pollfds) - 1 /\ (tcp_idx + k) + 1 = tcp_idx + (k + 1)
      BY <1>len, <2>2
    <3>2. tcpnb'[k] = tcpnb[k + 1]
      BY <1>6, <3>1
    <3>3. pollfds'[tcp_idx + k] = pollfds[tcp_idx + (k + 1)]
      BY <1>5, <3>1
    <3>. QED BY <3>1, <3>2, <3>3
  <2>. QED BY <1>len, <2>1, <2>2
<1>8. tcpnb[j].ad \in Clients
  <2>1. tcpnb[j] \in HeloNB
    BY <1>1
  <2>. QED BY <2>1 DEF HeloNB
<1>9. remote' \in [Clients -> Remote] /\ RemoteGoesOn
  <2>1. PICK state \in {"served", "gone"} : remote' = [remote EXCEPT ![tcpnb[j].ad].state = state]
    BY <1>0
  <2>2. remote \in [Clients -> Remote]
    BY <1>1
  <2>. QED BY <1>8, <2>1, <2>2 DEF Remote, RemoteGoesOn
<1>10. HandshakeTypeOK'
  BY <1>0, <1>1, <1>5, <1>6, <1>9 DEF HandshakeTypeOK
<1>11. Aligned'
  <2>1. Len(pollfds') = tcp_idx + Len(tcpnb')
    BY <1>0, <1>len
  <2>2. ASSUME NEW k \in 1 .. Len(udp_ifn) PROVE pollfds'[sys_idx + k].fd = udp_ifn[k]
    <3>1. sys_idx + k \in 1 .. tcp_idx + j - 1
      BY <1>3, <1>len
    <3>. QED BY <1>2, <1>5, <3>1
  <2>3. ASSUME NEW k \in 1 .. Len(tcpnb') PROVE pollfds'[tcp_idx + k].fd = tcpnb'[k].ad
    BY <1>2, <1>7
  <2>. QED BY <1>0, <1>2, <2>1, <2>2, <2>3 DEF Aligned
<1>12. EventsAskedFor'
  BY <1>0, <1>1, <1>4, EventsAfterErase DEF HandshakeInv
<1>13. ASSUME NEW k \in 1 .. Len(tcpnb')
       PROVE  DoneMeansWhole(tcpnb[k], pollfds[tcp_idx + k].events)'
  <2>1. PICK m \in 1 .. Len(tcpnb) : tcpnb'[k] = tcpnb[m] /\ pollfds'[tcp_idx + k] = pollfds[tcp_idx + m]
    BY <1>7
  <2>2. tcpnb[m] \in HeloNB
    BY <1>1
  <2>3. tcpnb[m].ad \in Clients /\ DoneMeansWhole(tcpnb[m], pollfds[tcp_idx + m].events)
    BY <2>2 DEF HandshakeInv, HeloNB
  <2>. QED BY <1>0, <1>9, <2>1, <2>3 DEF DoneMeansWhole, RemoteGoesOn
<1>. QED BY <1>10, <1>11, <1>12, <1>13 DEF HandshakeInv

LEMMA ServeInv == ASSUME HandshakeInv, Serve PROVE HandshakeInv'
<1>1. PICK k \in Whole, state \in {"served", "gone"} :
        /\ remote' = [remote EXCEPT ![pollfds[tcp_idx + k].fd].state = state]
        /\ tcpnb' = RemoveAt(tcpnb, k)
        /\ pollfds' = RemoveAt(pollfds, tcp_idx + k)
  BY DEF Serve
<1>2. k \in 1 .. Len(tcpnb) /\ pollfds[tcp_idx + k].fd = tcpnb[k].ad
  BY DEF Whole, HandshakeInv, Aligned
<1>3. i' \in Nat
  BY DEF Serve, HandshakeInv, HandshakeTypeOK
<1>4. Closes(k)
  BY <1>1, <1>2, <1>3 DEF Serve, Closes
<1>. QED BY <1>2, <1>4, CloseConnection

LEMMA RoundEndsInv == ASSUME HandshakeInv, RoundEnds PROVE HandshakeInv'
<1>1. UNCHANGED <<pollfds, udp_ifn, tcpnb, udp_idx, tcp_idx, remote, short, failures>> /\ i' = 0
  BY DEF RoundEnds
<1>2. HandshakeTypeOK'
  BY <1>1 DEF HandshakeInv, HandshakeTypeOK
<1>3. Aligned' /\ EventsAskedFor'
  BY <1>1 DEF HandshakeInv, Aligned, EventsAskedFor
<1>4. (\A k \in 1 .. Len(tcpnb) : DoneMeansWhole(tcpnb[k], pollfds[tcp_idx + k].events))'
  BY <1>1 DEF HandshakeInv, DoneMeansWhole
<1>. QED BY <1>2, <1>3, <1>4 DEF HandshakeInv

(* An entry before those of the connections is erased: these stay aligned if *)
(* where they begin is corrected.                                            *)
LEMMA EraseBefore ==
  ASSUME HandshakeInv, NEW j \in 1 .. tcp_idx, pollfds' = RemoveAt(pollfds, j),
         tcp_idx' = tcp_idx - 1, UNCHANGED <<tcpnb, short>>, RemoteGoesOn
  PROVE  /\ pollfds' \in Seq(Entry) /\ EventsAskedFor'
         /\ Len(pollfds') = tcp_idx' + Len(tcpnb')
         /\ \A k \in 1 .. j - 1 : pollfds'[k] = pollfds[k]
         /\ \A k \in j .. tcp_idx - 1 : pollfds'[k] = pollfds[k + 1]
         /\ \A k \in 1 .. Len(tcpnb') : pollfds'[tcp_idx' + k].fd = tcpnb'[k].ad
         /\ (\A k \in 1 .. Len(tcpnb) : DoneMeansWhole(tcpnb[k], pollfds[tcp_idx + k].events))'
<1>1. /\ pollfds \in Seq(Entry) /\ tcpnb \in Seq(HeloNB) /\ tcp_idx \in Nat
      /\ Len(pollfds) = tcp_idx + Len(tcpnb) /\ Len(tcpnb) \in Nat
  BY DEF HandshakeInv, HandshakeTypeOK, Aligned
<1>2. j \in 1 .. Len(pollfds)
  BY <1>1
<1>3. /\ pollfds' \in Seq(Entry) /\ Len(pollfds') = Len(pollfds) - 1
      /\ \A k \in 1 .. j - 1 : pollfds'[k] = pollfds[k]
      /\ \A k \in j .. Len(pollfds) - 1 : pollfds'[k] = pollfds[k + 1]
  BY <1>1, <1>2, RemoveAtLemma
<1>4. ASSUME NEW k \in 1 .. Len(tcpnb) PROVE pollfds'[tcp_idx' + k] = pollfds[tcp_idx + k]
  <2>1. tcp_idx' + k \in j .. Len(pollfds) - 1 /\ (tcp_idx' + k) + 1 = tcp_idx + k
    BY <1>1
  <2>. QED BY <1>3, <2>1
<1>5. EventsAskedFor'
  BY <1>1, <1>2, EventsAfterErase DEF HandshakeInv
<1>6. Len(pollfds') = tcp_idx' + Len(tcpnb')
  BY <1>1, <1>3
<1>7. \A k \in j .. tcp_idx - 1 : pollfds'[k] = pollfds[k + 1]
  BY <1>1, <1>3
<1>8. \A k \in 1 .. Len(tcpnb') : pollfds'[tcp_idx' + k].fd = tcpnb'[k].ad
  BY <1>4 DEF HandshakeInv, Aligned
<1>9. ASSUME NEW k \in 1 .. Len(tcpnb)
      PROVE  DoneMeansWhole(tcpnb[k], pollfds[tcp_idx + k].events)'
  <2>1. tcpnb[k] \in HeloNB
    BY <1>1
  <2>2. tcpnb[k].ad \in Clients /\ DoneMeansWhole(tcpnb[k], pollfds[tcp_idx + k].events)
    BY <2>1 DEF HandshakeInv, HeloNB
  <2>. QED BY <1>4, <2>2 DEF DoneMeansWhole, RemoteGoesOn
<1>. QED BY <1>3, <1>5, <1>6, <1>7, <1>8, <1>9

LEMMA VisitUdpInv == ASSUME HandshakeInv, VisitUdp PROVE HandshakeInv'
<1>1. /\ pollfds \in Seq(Entry) /\ tcpnb \in Seq(HeloNB) /\ udp_ifn \in Seq(Interfaces)
      /\ udp_idx \in Nat /\ tcp_idx \in Nat /\ i \in Nat /\ udp_idx <= tcp_idx
      /\ remote \in [Clients -> Remote] /\ short \subseteq Clients /\ failures \in 0 .. MaxFailures
      /\ udp_idx = 2 + Len(udp_ifn) /\ Len(udp_ifn) \in Nat
      /\ \A k \in 1 .. Len(udp_ifn) : pollfds[2 + k].fd = udp_ifn[k]
  BY DEF HandshakeInv, HandshakeTypeOK, Aligned, sys_idx
<1>2. /\ 2 < i /\ i <= udp_idx
      /\ udp_ifn' = RemoveAt(udp_ifn, i - 2) /\ pollfds' = RemoveAt(pollfds, i)
      /\ udp_idx' = udp_idx - 1 /\ tcp_idx' = tcp_idx - 1
      /\ UNCHANGED <<tcpnb, remote, short, failures>>
  BY DEF VisitUdp, Visit, sys_idx
<1>3. i \in 1 .. tcp_idx /\ RemoteGoesOn
  BY <1>1, <1>2 DEF RemoteGoesOn
<1>4. /\ pollfds' \in Seq(Entry) /\ EventsAskedFor'
      /\ Len(pollfds') = tcp_idx' + Len(tcpnb')
      /\ \A k \in 1 .. i - 1 : pollfds'[k] = pollfds[k]
      /\ \A k \in i .. tcp_idx - 1 : pollfds'[k] = pollfds[k + 1]
      /\ \A k \in 1 .. Len(tcpnb') : pollfds'[tcp_idx' + k].fd = tcpnb'[k].ad
      /\ (\A k \in 1 .. Len(tcpnb) : DoneMeansWhole(tcpnb[k], pollfds[tcp_idx + k].events))'
  BY <1>2, <1>3, EraseBefore
<1>5. /\ udp_ifn' \in Seq(Interfaces) /\ Len(udp_ifn') = Len(udp_ifn) - 1
      /\ \A k \in 1 .. (i - 2) - 1 : udp_ifn'[k] = udp_ifn[k]
      /\ \A k \in i - 2 .. Len(udp_ifn) - 1 : udp_ifn'[k] = udp_ifn[k + 1]
  <2>. DEFINE m == i - 2
  <2>1. m \in 1 .. Len(udp_ifn) /\ udp_ifn' = RemoveAt(udp_ifn, m)
    BY <1>1, <1>2
  <2>. HIDE DEF m
  <2>2. /\ udp_ifn' \in Seq(Interfaces) /\ Len(udp_ifn') = Len(udp_ifn) - 1
        /\ \A k \in 1 .. m - 1 : udp_ifn'[k] = udp_ifn[k]
        /\ \A k \in m .. Len(udp_ifn) - 1 : udp_ifn'[k] = udp_ifn[k + 1]
    BY <1>1, <2>1, RemoveAtLemma
  <2>. QED BY <1>1, <2>2 DEF m
<1>6. ASSUME NEW k \in 1 .. Len(udp_ifn') PROVE pollfds'[2 + k].fd = udp_ifn'[k]
  <2>0. /\ i \in Nat /\ tcp_idx \in Nat /\ Len(udp_ifn) \in Nat /\ k \in 1 .. Len(udp_ifn) - 1
        /\ 2 < i /\ i <= 2 + Len(udp_ifn) /\ 2 + Len(udp_ifn) <= tcp_idx
    BY <1>1, <1>2, <1>5
  <2>1. CASE 2 + k < i
    <3>1. 2 + k \in 1 .. i - 1 /\ k \in 1 .. (i - 2) - 1 /\ k \in 1 .. Len(udp_ifn)
      BY <2>0, <2>1
    <3>2. pollfds'[2 + k] = pollfds[2 + k] /\ udp_ifn'[k] = udp_ifn[k]
      BY <1>4, <1>5, <3>1
    <3>. QED BY <1>1, <3>1, <3>2
  <2>2. CASE i <= 2 + k
    <3>1. /\ 2 + k \in i .. tcp_idx - 1 /\ k \in i - 2 .. Len(udp_ifn) - 1
          /\ k + 1 \in 1 .. Len(udp_ifn) /\ (2 + k) + 1 = 2 + (k + 1)
      BY <2>0, <2>2
    <3>2. pollfds'[2 + k] = pollfds[2 + (k + 1)]
      BY <1>4, <3>1
    <3>3. udp_ifn'[k] = udp_ifn[k + 1]
      BY <1>5, <3>1
    <3>. QED BY <1>1, <3>1, <3>2, <3>3
  <2>. QED BY <2>0, <2>1, <2>2
<1>7. i' \in Nat
  <2>1. i' = NextEntry(pollfds', i) /\ Len(pollfds') \in Nat
    BY <1>4 DEF VisitUdp, Advance
  <2>. QED BY <1>1, <2>1, NextEntryLemma
<1>8. udp_idx' \in Nat /\ tcp_idx' \in Nat /\ udp_idx' <= tcp_idx' /\ 2 <= udp_idx' /\ udp_idx' = 2 + Len(udp_ifn')
  BY <1>1, <1>2, <1>5
<1>9. HandshakeTypeOK'
  BY <1>1, <1>2, <1>4, <1>5, <1>7, <1>8 DEF HandshakeTypeOK, sys_idx
<1>10. Aligned'
  BY <1>4, <1>6, <1>8 DEF Aligned, sys_idx
<1>. QED BY <1>4, <1>9, <1>10 DEF HandshakeInv

(* accept4() succeeds: both vectors get the connection as their last element. *)
LEMMA AcceptInv ==
  ASSUME HandshakeInv, NEW c \in Clients, NEW trash \in OwnTrash,
         remote[c].state = "connecting", remote' = [remote EXCEPT ![c].state = "accepted"],
         pollfds' = Append(pollfds, Pollfd(c, {"POLLIN", "POLLOUT"})),
         tcpnb' = Append(tcpnb, TCPheloNB(c, trash)),
         UNCHANGED <<udp_ifn, udp_idx, tcp_idx, short, failures>>, i' \in Nat
  PROVE  HandshakeInv'
<1>. DEFINE p == Pollfd(c, {"POLLIN", "POLLOUT"})
            nb == TCPheloNB(c, trash)
<1>1. /\ pollfds \in Seq(Entry) /\ tcpnb \in Seq(HeloNB) /\ udp_ifn \in Seq(Interfaces)
      /\ udp_idx \in Nat /\ tcp_idx \in Nat /\ sys_idx <= udp_idx /\ udp_idx <= tcp_idx
      /\ remote \in [Clients -> Remote] /\ short \subseteq Clients /\ failures \in 0 .. MaxFailures
  BY DEF HandshakeInv, HandshakeTypeOK
<1>2. /\ udp_idx = 2 + Len(udp_ifn) /\ Len(pollfds) = tcp_idx + Len(tcpnb)
      /\ \A k \in 1 .. Len(udp_ifn) : pollfds[2 + k].fd = udp_ifn[k]
      /\ \A k \in 1 .. Len(tcpnb) : pollfds[tcp_idx + k].fd = tcpnb[k].ad
      /\ Len(udp_ifn) \in Nat /\ Len(tcpnb) \in Nat
  BY DEF HandshakeInv, HandshakeTypeOK, Aligned, sys_idx
<1>3. p \in Entry /\ p.fd = c /\ p.events = {"POLLIN", "POLLOUT"} /\ p.revents = {}
  BY DEF Pollfd, Entry, Descriptors, Events
<1>4. /\ nb \in HeloNB /\ nb.ad = c /\ nb.decrypted_read = FALSE
  BY SizesAssumption DEF TCPheloNB, HeloNB
<1>5. pollfds' = Append(pollfds, p) /\ tcpnb' = Append(tcpnb, nb)
  OBVIOUS
<1>6. remote' \in [Clients -> Remote] /\ RemoteGoesOn /\ remote'[c].state # "none"
  BY <1>1 DEF Remote, RemoteGoesOn
<1>. HIDE DEF p, nb
<1>7. /\ pollfds' \in Seq(Entry) /\ Len(pollfds') = Len(pollfds) + 1
      /\ \A k \in 1 .. Len(pollfds) : pollfds'[k] = pollfds[k]
      /\ pollfds'[Len(pollfds) + 1] = p
  BY <1>1, <1>3, <1>5, AppendProperties
<1>8. /\ tcpnb' \in Seq(HeloNB) /\ Len(tcpnb') = Len(tcpnb) + 1
      /\ \A k \in 1 .. Len(tcpnb) : tcpnb'[k] = tcpnb[k]
      /\ tcpnb'[Len(tcpnb) + 1] = nb
  BY <1>1, <1>4, <1>5, AppendProperties
<1>9. HandshakeTypeOK'
  BY <1>1, <1>6, <1>7, <1>8 DEF HandshakeTypeOK
<1>10. ASSUME NEW k \in 1 .. Len(tcpnb)
       PROVE  tcpnb'[k] = tcpnb[k] /\ pollfds'[tcp_idx + k] = pollfds[tcp_idx + k]
  <2>1. tcp_idx + k \in 1 .. Len(pollfds)
    BY <1>1, <1>2
  <2>. QED BY <1>7, <1>8, <2>1
<1>11. pollfds'[tcp_idx + (Len(tcpnb) + 1)] = p
  <2>1. tcp_idx + (Len(tcpnb) + 1) = Len(pollfds) + 1
    BY <1>1, <1>2
  <2>. QED BY <1>7, <2>1
<1>12. ASSUME NEW k \in 1 .. Len(tcpnb') PROVE k \in 1 .. Len(tcpnb) \/ k = Len(tcpnb) + 1
  BY <1>2, <1>8
<1>13. Aligned'
  <2>1. Len(pollfds') = tcp_idx + Len(tcpnb')
    BY <1>1, <1>2, <1>7, <1>8
  <2>2. ASSUME NEW k \in 1 .. Len(udp_ifn) PROVE pollfds'[2 + k].fd = udp_ifn[k]
    <3>1. 2 + k \in 1 .. Len(pollfds)
      BY <1>1, <1>2
    <3>. QED BY <1>2, <1>7, <3>1
  <2>3. ASSUME NEW k \in 1 .. Len(tcpnb') PROVE pollfds'[tcp_idx + k].fd = tcpnb'[k].ad
    BY <1>2, <1>3, <1>4, <1>8, <1>10, <1>11, <1>12
  <2>. QED BY <1>2, <2>1, <2>2, <2>3 DEF Aligned, sys_idx
<1>14. EventsAskedFor'
  <2>. SUFFICES ASSUME NEW k \in 1 .. Len(pollfds')
                PROVE  pollfds'[k].revents \subseteq pollfds'[k].events \cup {"POLLERR"}
    BY DEF EventsAskedFor
  <2>1. k \in 1 .. Len(pollfds) \/ k = Len(pollfds) + 1
    BY <1>1, <1>7
  <2>. QED BY <1>3, <1>7, <2>1 DEF HandshakeInv, EventsAskedFor
<1>15. ASSUME NEW k \in 1 .. Len(tcpnb')
       PROVE  DoneMeansWhole(tcpnb[k], pollfds[tcp_idx + k].events)'
  <2>1. CASE k \in 1 .. Len(tcpnb)
    <3>1. tcpnb[k] \in HeloNB
      BY <1>1, <2>1
    <3>2. tcpnb[k].ad \in Clients /\ DoneMeansWhole(tcpnb[k], pollfds[tcp_idx + k].events)
      BY <2>1, <3>1 DEF HandshakeInv, HeloNB
    <3>. QED BY <1>6, <1>10, <2>1, <3>2 DEF DoneMeansWhole, RemoteGoesOn
  <2>2. CASE k = Len(tcpnb) + 1
    <3>1. tcpnb'[k] = nb /\ pollfds'[tcp_idx' + k] = p
      BY <1>8, <1>11, <2>2
    <3>. QED BY <1>3, <1>4, <1>6, <3>1 DEF DoneMeansWhole
  <2>. QED BY <1>12, <2>1, <2>2
<1>. QED BY <1>9, <1>13, <1>14, <1>15 DEF HandshakeInv

LEMMA VisitListenerInv == ASSUME HandshakeInv, VisitListener PROVE HandshakeInv'
<1>1. /\ pollfds \in Seq(Entry) /\ tcpnb \in Seq(HeloNB) /\ udp_ifn \in Seq(Interfaces)
      /\ udp_idx \in Nat /\ tcp_idx \in Nat /\ i \in Nat /\ udp_idx <= tcp_idx
      /\ remote \in [Clients -> Remote] /\ short \subseteq Clients /\ failures \in 0 .. MaxFailures
      /\ udp_idx = 2 + Len(udp_ifn) /\ Len(udp_ifn) \in Nat
      /\ \A k \in 1 .. Len(udp_ifn) : pollfds[2 + k].fd = udp_ifn[k]
  BY DEF HandshakeInv, HandshakeTypeOK, Aligned, sys_idx
<1>2. udp_idx < i /\ i <= tcp_idx /\ UNCHANGED <<udp_ifn, udp_idx, short>> /\ i' = NextEntry(pollfds', i)
  BY DEF VisitListener, Visit, Advance
<1>3. i' \in Nat
  <2>1. pollfds' = RemoveAt(pollfds, i) \/ \E c \in Clients : pollfds' = Append(pollfds, Pollfd(c, {"POLLIN", "POLLOUT"}))
    BY DEF VisitListener
  <2>2. i \in 1 .. Len(pollfds)
    BY <1>1, <1>2 DEF VisitListener, Visit
  <2>3. Len(pollfds') \in Nat
    <3>1. CASE pollfds' = RemoveAt(pollfds, i)
      BY <1>1, <2>2, <3>1, RemoveAtLemma
    <3>2. CASE \E c \in Clients : pollfds' = Append(pollfds, Pollfd(c, {"POLLIN", "POLLOUT"}))
      <4>1. PICK c \in Clients : pollfds' = Append(pollfds, Pollfd(c, {"POLLIN", "POLLOUT"}))
        BY <3>2
      <4>2. Pollfd(c, {"POLLIN", "POLLOUT"}) \in Entry
        BY DEF Pollfd, Entry, Descriptors, Events
      <4>. QED BY <1>1, <4>1, <4>2
    <3>. QED BY <2>1, <3>1, <3>2
  <2>. QED BY <1>1, <1>2, <2>3, NextEntryLemma
<1>4. ASSUME NEW c \in Clients, NEW trash \in OwnTrash,
             remote[c].state = "connecting", remote' = [remote EXCEPT ![c].state = "accepted"],
             pollfds' = Append(pollfds, Pollfd(c, {"POLLIN", "POLLOUT"})),
             tcpnb' = Append(tcpnb, TCPheloNB(c, trash)),
             UNCHANGED <<tcp_idx, failures>>
      PROVE  HandshakeInv'
  BY <1>2, <1>3, <1>4, AcceptInv
<1>5. ASSUME failures < MaxFailures, failures' = failures + 1,
             pollfds' = RemoveAt(pollfds, i), tcp_idx' = tcp_idx - 1,
             remote' = [c \in Clients |->
               IF remote[c].state = "connecting" /\ remote[c].to = pollfds[i].fd
               THEN [remote[c] EXCEPT !.state = "gone"] ELSE remote[c]],
             UNCHANGED tcpnb
      PROVE  HandshakeInv'
  <2>1. ASSUME NEW c \in Clients
        PROVE  /\ remote'[c] \in Remote
               /\ remote[c].state # "none" => remote'[c].state # "none" /\ remote'[c].trash = remote[c].trash
    <3>1. remote[c] \in Remote
      BY <1>1
    <3>. QED BY <1>5, <3>1 DEF Remote
  <2>2. remote' \in [Clients -> Remote] /\ RemoteGoesOn
    BY <1>5, <2>1 DEF RemoteGoesOn
  <2>3. i \in 1 .. tcp_idx
    BY <1>1, <1>2
  <2>4. /\ pollfds' \in Seq(Entry) /\ EventsAskedFor'
        /\ Len(pollfds') = tcp_idx' + Len(tcpnb')
        /\ \A k \in 1 .. i - 1 : pollfds'[k] = pollfds[k]
        /\ \A k \in 1 .. Len(tcpnb') : pollfds'[tcp_idx' + k].fd = tcpnb'[k].ad
        /\ (\A k \in 1 .. Len(tcpnb) : DoneMeansWhole(tcpnb[k], pollfds[tcp_idx + k].events))'
    BY <1>2, <1>5, <2>2, <2>3, EraseBefore
  <2>5. tcp_idx' \in Nat /\ udp_idx' <= tcp_idx' /\ failures' \in 0 .. MaxFailures /\ 2 <= udp_idx'
    BY <1>1, <1>2, <1>5, SizesAssumption
  <2>6. HandshakeTypeOK'
    BY <1>1, <1>2, <1>3, <1>5, <2>2, <2>4, <2>5 DEF HandshakeTypeOK, sys_idx
  <2>7. ASSUME NEW k \in 1 .. Len(udp_ifn) PROVE pollfds'[2 + k].fd = udp_ifn[k]
    <3>1. 2 + k \in 1 .. i - 1
      BY <1>1, <1>2
    <3>. QED BY <1>1, <2>4, <3>1
  <2>8. Aligned'
    BY <1>1, <1>2, <2>4, <2>7 DEF Aligned, sys_idx
  <2>. QED BY <2>4, <2>6, <2>8 DEF HandshakeInv
<1>. QED BY <1>4, <1>5 DEF VisitListener

(* One visit of a connection: x units are read and w written. *)
Moved(nb, events, asked, trash, x, w, late, wanted, new) ==
  /\ x > 0 => "POLLIN" \in asked /\ x <= ToRead(nb, trash)
  /\ w > 0 => "POLLOUT" \in asked /\ w <= ToWrite(nb)
  /\ nb.ad \notin late => w = ToWrite(nb) \/ "POLLOUT" \notin asked
  /\ nb.decrypted_read => Header <= nb.read_size
  /\ "POLLIN" \notin events => nb.read_size = Header + trash
  /\ "POLLOUT" \notin events /\ nb.ad \notin late => nb.written_size = nb.size_to_write
  /\ wanted = events \ (   (IF x > 0 /\ ReadComplete(nb, x, trash) THEN {"POLLIN"} ELSE {})
                     \cup (IF WriteComplete(nb, w) THEN {"POLLOUT"} ELSE {}))
  /\ new = OnWrite(OnRead(nb, x), w)

(* What on_read() and on_write() do to one helo.  That the own helo is      *)
(* complete is only true of one that was written at once.                   *)
LEMMA ProgressLemma ==
  ASSUME NEW nb \in HeloNB, NEW events \in SUBSET Events, NEW asked \in SUBSET events, NEW trash \in Nat,
         NEW x \in Nat, NEW w \in Nat,
         NEW late, NEW wanted, NEW new, Moved(nb, events, asked, trash, x, w, late, wanted, new)
  PROVE  /\ new \in HeloNB /\ new.ad = nb.ad /\ wanted \in SUBSET Events
         /\ new.decrypted_read => Header <= new.read_size
         /\ "POLLIN" \notin wanted => new.read_size = Header + trash
         /\ "POLLOUT" \notin wanted /\ new.ad \notin late => new.written_size = new.size_to_write
<1>1. /\ nb.ad \in Clients /\ nb.size_to_write \in Nat /\ nb.written_size \in Nat
      /\ nb.read_size \in Nat /\ nb.decrypted_read \in BOOLEAN /\ Header \in Nat
  BY SizesAssumption DEF HeloNB
<1>0. /\ wanted = events \ (   (IF x > 0 /\ ReadComplete(nb, x, trash) THEN {"POLLIN"} ELSE {})
                         \cup (IF WriteComplete(nb, w) THEN {"POLLOUT"} ELSE {}))
      /\ new = OnWrite(OnRead(nb, x), w)
  BY DEF Moved
<1>2. new = [ad |-> nb.ad, size_to_write |-> nb.size_to_write, written_size |-> nb.written_size + w,
             read_size |-> nb.read_size + x,
             decrypted_read |-> (nb.decrypted_read \/ nb.read_size + x >= Header)]
  BY <1>0 DEF OnWrite, OnRead, HeloNB
<1>3. /\ new.ad = nb.ad /\ new.size_to_write = nb.size_to_write
      /\ new.written_size = nb.written_size + w /\ new.read_size = nb.read_size + x
      /\ new.decrypted_read = (nb.decrypted_read \/ nb.read_size + x >= Header)
  BY <1>2
<1>4. new \in HeloNB
  BY <1>1, <1>2 DEF HeloNB
<1>5. new.decrypted_read => Header <= new.read_size
  BY <1>1, <1>3 DEF Moved
<1>6. ASSUME "POLLIN" \notin wanted PROVE new.read_size = Header + trash
  <2>1. CASE "POLLIN" \notin events
    <3>1. nb.read_size = Header + trash /\ x = 0
      BY <2>1 DEF Moved
    <3>. QED BY <1>1, <1>3, <3>1
  <2>2. CASE "POLLIN" \in events
    <3>1. x > 0 /\ ReadComplete(nb, x, trash)
      BY <1>0, <1>6, <2>2
    <3>2. x = (IF nb.read_size >= Header THEN Header + trash ELSE Header) - nb.read_size
      BY <3>1 DEF ReadComplete, ToRead
    <3>3. nb.read_size < Header => trash = 0
      BY <1>1, <3>1 DEF ReadComplete, Moved
    <3>. QED BY <1>1, <1>3, <3>2, <3>3
  <2>. QED BY <2>1, <2>2
<1>7. ASSUME "POLLOUT" \notin wanted, nb.ad \notin late PROVE new.written_size = new.size_to_write
  <2>1. CASE "POLLOUT" \notin events
    <3>1. nb.written_size = nb.size_to_write /\ w = 0
      BY <1>7, <2>1 DEF Moved
    <3>. QED BY <1>1, <1>3, <3>1
  <2>2. CASE "POLLOUT" \in events
    <3>1. WriteComplete(nb, w)
      BY <1>0, <1>7, <2>2
    <3>2. w > 0 /\ nb.written_size + w = nb.size_to_write - nb.written_size
      BY <3>1 DEF WriteComplete, ToWrite
    <3>3. w = nb.size_to_write - nb.written_size
      BY <1>7, <3>2 DEF ToWrite, Moved
    <3>. QED BY <1>1, <1>3, <3>2, <3>3
  <2>. QED BY <2>1, <2>2
<1>8. wanted \in SUBSET Events
  BY <1>0
<1>. QED BY <1>3, <1>4, <1>5, <1>6, <1>7, <1>8

LEMMA VisitConnectionInv == ASSUME HandshakeInv, VisitConnection PROVE HandshakeInv'
<1>. DEFINE k == i - tcp_idx
            nb == tcpnb[k]
            p == pollfds[i]
            c == p.fd
            trash == remote[c].trash
            reads == IF "POLLIN" \notin p.revents THEN {0}
                     ELSE {x \in 1 .. ToRead(nb, trash) : nb.read_size + x <= remote[c].sent}
            writes == IF "POLLOUT" \in p.revents /\ ToWrite(nb) > 0 THEN 1 .. ToWrite(nb) ELSE {0}
<1>1. /\ pollfds \in Seq(Entry) /\ tcpnb \in Seq(HeloNB) /\ udp_ifn \in Seq(Interfaces)
      /\ udp_idx \in Nat /\ tcp_idx \in Nat /\ i \in Nat /\ sys_idx <= udp_idx /\ udp_idx <= tcp_idx
      /\ remote \in [Clients -> Remote] /\ short \subseteq Clients /\ failures \in 0 .. MaxFailures
  BY DEF HandshakeInv, HandshakeTypeOK
<1>2. /\ udp_idx = 2 + Len(udp_ifn) /\ Len(pollfds) = tcp_idx + Len(tcpnb)
      /\ \A m \in 1 .. Len(udp_ifn) : pollfds[2 + m].fd = udp_ifn[m]
      /\ \A m \in 1 .. Len(tcpnb) : pollfds[tcp_idx + m].fd = tcpnb[m].ad
      /\ Len(udp_ifn) \in Nat /\ Len(tcpnb) \in Nat
  BY DEF HandshakeInv, HandshakeTypeOK, Aligned, sys_idx
<1>3. /\ tcp_idx < i /\ i <= Len(pollfds) /\ i' = NextEntry(pollfds', i)
      /\ UNCHANGED <<udp_ifn, udp_idx, tcp_idx, failures>>
  BY DEF VisitConnection, Visit, Advance
<1>4. k \in 1 .. Len(tcpnb) /\ tcp_idx + k = i /\ i \in 1 .. Len(pollfds)
  <2>1. /\ i \in Nat /\ tcp_idx \in Nat /\ Len(tcpnb) \in Nat
        /\ tcp_idx < i /\ i <= Len(pollfds) /\ Len(pollfds) = tcp_idx + Len(tcpnb)
    BY <1>1, <1>2, <1>3
  <2>. QED BY <2>1
<1>5. nb \in HeloNB /\ p \in Entry /\ c = nb.ad
  BY <1>1, <1>2, <1>4
<1>6. c \in Clients /\ trash \in Nat
  <2>1. c \in Clients
    BY <1>5 DEF HeloNB
  <2>2. remote[c] \in Remote
    BY <1>1, <2>1
  <2>. QED BY <2>1, <2>2 DEF Remote
<1>7. \/ /\ tcpnb' = RemoveAt(tcpnb, k) /\ pollfds' = RemoveAt(pollfds, i)
         /\ remote' = [remote EXCEPT ![c].state = "gone"] /\ UNCHANGED short
      \/ \E x \in reads, w \in writes :
           /\ "POLLOUT" \in p.revents => w > 0
           /\ tcpnb' = [tcpnb EXCEPT ![k] = OnWrite(OnRead(nb, x), w)]
           /\ pollfds' = [pollfds EXCEPT
                ![i] = [fd |-> c, revents |-> {},
                        events |-> p.events
                                   \ (   (IF x > 0 /\ ReadComplete(nb, x, trash) THEN {"POLLIN"} ELSE {})
                                    \cup (IF WriteComplete(nb, w) THEN {"POLLOUT"} ELSE {}))]]
           /\ short' = IF w < ToWrite(nb) /\ "POLLOUT" \in p.revents THEN short \cup {c} ELSE short
           /\ UNCHANGED remote
  BY DEF VisitConnection
<1>8. ASSUME tcpnb' = RemoveAt(tcpnb, k), pollfds' = RemoveAt(pollfds, i),
             remote' = [remote EXCEPT ![c].state = "gone"], UNCHANGED short
      PROVE  HandshakeInv'
  <2>1. Len(pollfds') \in Nat
    BY <1>1, <1>4, <1>8, RemoveAtLemma
  <2>2. i' \in Nat
    BY <1>1, <1>3, <2>1, NextEntryLemma
  <2>3. Closes(k)
    BY <1>3, <1>4, <1>5, <1>8, <2>2 DEF Closes
  <2>. HIDE DEF k
  <2>. QED BY <1>4, <2>3, CloseConnection
<1>9. ASSUME NEW x \in reads, NEW w \in writes,
             "POLLOUT" \in p.revents => w > 0,
             tcpnb' = [tcpnb EXCEPT ![k] = OnWrite(OnRead(nb, x), w)],
             pollfds' = [pollfds EXCEPT
                ![i] = [fd |-> c, revents |-> {},
                        events |-> p.events
                                   \ (   (IF x > 0 /\ ReadComplete(nb, x, trash) THEN {"POLLIN"} ELSE {})
                                    \cup (IF WriteComplete(nb, w) THEN {"POLLOUT"} ELSE {}))]],
             short' = IF w < ToWrite(nb) /\ "POLLOUT" \in p.revents THEN short \cup {c} ELSE short,
             UNCHANGED remote
      PROVE  HandshakeInv'
  <2>. DEFINE wanted == p.events \ (  (IF x > 0 /\ ReadComplete(nb, x, trash) THEN {"POLLIN"} ELSE {})
                                \cup (IF WriteComplete(nb, w) THEN {"POLLOUT"} ELSE {}))
              new == OnWrite(OnRead(nb, x), w)
              asked == p.revents \cap p.events
  <2>1. /\ x \in Nat /\ (x > 0 => "POLLIN" \in p.revents /\ x <= ToRead(nb, trash))
        /\ w \in Nat /\ (w > 0 => "POLLOUT" \in p.revents /\ w <= ToWrite(nb))
    <3>1. ToRead(nb, trash) \in Int /\ ToWrite(nb) \in Int
      BY <1>5, <1>6, SizesAssumption DEF ToRead, ToWrite, HeloNB
    <3>. QED BY <3>1
  <2>2. p.revents \subseteq p.events \cup {"POLLERR"} /\ p.events \subseteq Events
    BY <1>4, <1>5 DEF HandshakeInv, EventsAskedFor, Entry
  <2>3. /\ "POLLIN" \in p.revents => "POLLIN" \in asked
        /\ "POLLOUT" \in p.revents <=> "POLLOUT" \in asked
    BY <2>2
  <2>4. nb.ad \notin short' => w = ToWrite(nb) \/ "POLLOUT" \notin asked
    <3>1. ToWrite(nb) \in Int
      BY <1>5 DEF ToWrite, HeloNB
    <3>. QED BY <1>5, <1>9, <2>1, <2>3, <3>1
  <2>5. short \subseteq short' /\ short' \subseteq Clients
    BY <1>1, <1>6, <1>9
  <2>6. DoneMeansWhole(nb, p.events)
    BY <1>4 DEF HandshakeInv
  <2>7. /\ remote[c].state # "none" /\ (nb.decrypted_read => Header <= nb.read_size)
        /\ "POLLIN" \notin p.events => nb.read_size = Header + trash
        /\ "POLLOUT" \notin p.events /\ nb.ad \notin short' => nb.written_size = nb.size_to_write
    BY <1>5, <2>5, <2>6 DEF DoneMeansWhole
  <2>8. /\ new \in HeloNB /\ new.ad = nb.ad /\ wanted \in SUBSET Events
        /\ new.decrypted_read => Header <= new.read_size
        /\ "POLLIN" \notin wanted => new.read_size = Header + trash
        /\ "POLLOUT" \notin wanted /\ new.ad \notin short' => new.written_size = new.size_to_write
    <3>1. /\ wanted = p.events \ ((IF x > 0 /\ ReadComplete(nb, x, trash) THEN {"POLLIN"} ELSE {})
                                 \cup (IF WriteComplete(nb, w) THEN {"POLLOUT"} ELSE {}))
          /\ new = OnWrite(OnRead(nb, x), w)
          /\ asked \in SUBSET p.events /\ p.events \in SUBSET Events
      BY <2>2
    <3>2. /\ x > 0 => "POLLIN" \in asked /\ x <= ToRead(nb, trash)
          /\ w > 0 => "POLLOUT" \in asked /\ w <= ToWrite(nb)
      BY <2>1, <2>3
    <3>. HIDE DEF wanted, new, asked, nb, trash, p, reads, writes, k
    <3>3. Moved(nb, p.events, asked, trash, x, w, short', wanted, new)
      BY <2>4, <2>7, <3>1, <3>2 DEF Moved
    <3>. QED BY <1>5, <1>6, <2>1, <3>1, <3>3, ProgressLemma
  <2>. DEFINE entry == [fd |-> c, revents |-> {}, events |-> wanted]
  <2>9. entry \in Entry /\ entry.fd = p.fd /\ entry.events = wanted /\ entry.revents = {}
    <3>1. wanted \in SUBSET Events
      BY <2>8
    <3>. HIDE DEF wanted
    <3>. QED BY <1>5, <3>1 DEF Entry
  <2>10. pollfds' = [pollfds EXCEPT ![i] = entry] /\ tcpnb' = [tcpnb EXCEPT ![k] = new]
    <3>1. tcpnb' = [tcpnb EXCEPT ![k] = new]
      BY <1>9, Zenon
    <3>2. pollfds' = [pollfds EXCEPT ![i] = entry]
      BY <1>9, Zenon
    <3>. QED BY <3>1, <3>2
  <2>. HIDE DEF entry, new, wanted
  <2>11. /\ pollfds' \in Seq(Entry) /\ Len(pollfds') = Len(pollfds) /\ pollfds'[i] = entry
         /\ \A m \in 1 .. Len(pollfds) : m # i => pollfds'[m] = pollfds[m]
    BY <1>1, <1>4, <2>9, <2>10
  <2>12. /\ tcpnb' \in Seq(HeloNB) /\ Len(tcpnb') = Len(tcpnb) /\ tcpnb'[k] = new
         /\ \A m \in 1 .. Len(tcpnb) : m # k => tcpnb'[m] = tcpnb[m]
    BY <1>1, <1>4, <2>8, <2>10
  <2>13. i' \in Nat
    <3>1. Len(pollfds') \in Nat
      BY <1>1, <2>11
    <3>. QED BY <1>1, <1>3, <3>1, NextEntryLemma
  <2>14. HandshakeTypeOK'
    BY <1>1, <1>3, <1>9, <2>5, <2>11, <2>12, <2>13 DEF HandshakeTypeOK
  <2>15. ASSUME NEW m \in 1 .. Len(tcpnb), m # k
         PROVE  tcpnb'[m] = tcpnb[m] /\ pollfds'[tcp_idx + m] = pollfds[tcp_idx + m]
    <3>1. tcp_idx + m \in 1 .. Len(pollfds) /\ tcp_idx + m # i
      BY <1>1, <1>2, <1>4, <2>15
    <3>. QED BY <2>11, <2>12, <2>15, <3>1
  <2>16. Aligned'
    <3>1. ASSUME NEW m \in 1 .. Len(udp_ifn) PROVE pollfds'[2 + m].fd = udp_ifn[m]
      <4>1. 2 + m \in 1 .. Len(pollfds) /\ 2 + m # i
        BY <1>1, <1>2, <1>3
      <4>. QED BY <1>2, <2>11, <4>1
    <3>2. ASSUME NEW m \in 1 .. Len(tcpnb) PROVE pollfds'[tcp_idx + m].fd = tcpnb'[m].ad
      <4>1. CASE m = k
        BY <1>4, <1>5, <2>8, <2>9, <2>11, <2>12, <4>1
      <4>2. CASE m # k
        BY <1>2, <2>15, <4>2
      <4>. QED BY <4>1, <4>2
    <3>. QED BY <1>2, <1>3, <2>11, <2>12, <3>1, <3>2 DEF Aligned, sys_idx
  <2>17. EventsAskedFor'
    <3>. SUFFICES ASSUME NEW m \in 1 .. Len(pollfds)
                  PROVE  pollfds'[m].revents \subseteq pollfds'[m].events \cup {"POLLERR"}
      BY <2>11 DEF EventsAskedFor
    <3>. QED BY <2>9, <2>11 DEF HandshakeInv, EventsAskedFor
  <2>18. ASSUME NEW m \in 1 .. Len(tcpnb)
         PROVE  DoneMeansWhole(tcpnb[m], pollfds[tcp_idx + m].events)'
    <3>1. CASE m = k
      <4>1. tcpnb'[m] = new /\ pollfds'[tcp_idx' + m].events = wanted
        BY <1>3, <1>4, <2>9, <2>11, <2>12, <3>1
      <4>. QED BY <1>5, <1>9, <2>7, <2>8, <4>1 DEF DoneMeansWhole
    <3>2. CASE m # k
      <4>1. DoneMeansWhole(tcpnb[m], pollfds[tcp_idx + m].events)
        BY DEF HandshakeInv
      <4>. QED BY <1>3, <1>9, <2>5, <2>15, <3>2, <4>1 DEF DoneMeansWhole
    <3>. QED BY <3>1, <3>2
  <2>. QED BY <2>12, <2>14, <2>16, <2>17, <2>18 DEF HandshakeInv
<1>. QED BY <1>7, <1>8, <1>9

LEMMA HandshakeStepInv == HandshakeInv /\ [HandshakeNext]_handshakevars => HandshakeInv'
<1>. SUFFICES ASSUME HandshakeInv, [HandshakeNext]_handshakevars PROVE HandshakeInv'
  OBVIOUS
<1>1. CASE Poll BY <1>1, PollInv
<1>2. CASE VisitUdp BY <1>2, VisitUdpInv
<1>3. CASE VisitListener BY <1>3, VisitListenerInv
<1>4. CASE VisitConnection BY <1>4, VisitConnectionInv
<1>5. CASE Serve BY <1>5, ServeInv
<1>6. CASE RoundEnds BY <1>6, RoundEndsInv
<1>7. ASSUME NEW c \in Clients, ConnectTo(c) \/ Arrive(c) \/ HangUp(c) PROVE HandshakeInv'
  BY <1>7, ConnectToInv, ArriveInv, HangUpInv
<1>8. CASE UNCHANGED handshakevars
  <2>1. UNCHANGED <<pollfds, udp_ifn, tcpnb, udp_idx, tcp_idx, i, remote, short, failures>>
    BY <1>8 DEF handshakevars
  <2>2. remote' \in [Clients -> Remote] /\ RemoteGoesOn
    BY <2>1 DEF RemoteGoesOn, HandshakeInv, HandshakeTypeOK
  <2>. QED BY <2>1, <2>2, OnlyRemote
<1>. QED BY <1>1, <1>2, <1>3, <1>4, <1>5, <1>6, <1>7, <1>8 DEF HandshakeNext, DaemonStep

(* The inductive invariant holds for any number of sockets and connections,  *)
(* any sizes of headers and trash, and any cuts of what the network delivers. *)
THEOREM HandshakeInvariance == HandshakeSpec => []HandshakeInv
BY HandshakeInitInv, HandshakeStepInv, PTL DEF HandshakeSpec

(* In all three vectors an index means the same socket, whatever the loop    *)
(* erases or appends while it runs.                                          *)
THEOREM VectorsStayAligned == HandshakeSpec => []Aligned
<1>1. HandshakeInv => Aligned
  BY DEF HandshakeInv
<1>. QED BY <1>1, HandshakeInvariance, PTL

(* Who goes to serve() has read exactly the helo of the other side, and, if  *)
(* it was written at once, written its own.                                  *)
THEOREM ServedIsWhole == HandshakeSpec => []CompleteMeansWhole
<1>1. HandshakeInv => CompleteMeansWhole
  BY DEF HandshakeInv, DoneMeansWhole, CompleteMeansWhole
<1>. QED BY <1>1, HandshakeInvariance, PTL
==============================================================================
