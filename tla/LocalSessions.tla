---------------------------- MODULE LocalSessions ----------------------------
(***************************************************************************)
(* The sessions of local users with the daemon over the unix socket: one   *)
(* thread each (UnixSession), the client program on the other side, the    *)
(* main thread that accepts them, is notified of their commands and joins  *)
(* them, and the signals that must wake all of them (Alarmer).  The other  *)
(* threads of the daemon are in DaemonThreads.                             *)
(***************************************************************************)
EXTENDS Alarmer

CONSTANT MaxSignals     \* bound: SIGTERM and SIGHUP

ASSUME SignalsAssumption == MaxSignals \in Nat

Sessions == Threads \ {Main}

VARIABLES
  prog_status,   \* the global of the same name
  usl,           \* the sessions in the list of that name
  cur,           \* the session whose destructor runs
  back,          \* the loop that destroys it
  stop,          \* UnixSession::stop
  thr_id,        \* UnixSession::thr_id; NoThread before the thread has set it
  errno,         \* errno of the thread is EINTR
  request,       \* what the client has written and nobody has read
  client,        \* what the client is doing
  owed,          \* notify() was called and the main thread has not reacted yet
  interrupted,   \* history: a read() of the session has failed with EINTR
  signals

vars == <<pc, alarmvars, prog_status, usl, cur, back, stop, thr_id, errno,
          request, client, owed, interrupted, signals>>

sessionvars == <<stop, thr_id, errno, request, client, interrupted>>
mainvars == <<usl, cur, back, owed>>

MainPlaces == {"loop", "polling", "poll", "alarm_stop self", "clear_usl", "pending_commands", "teardown",
               "alarm_thread", "join", "joined", "alarm_stop", "ended"}
SessionPlaces == {"none", "started", "getline", "reading", "read", "got", "interactive_exec",
                  "notify", "reply", "end", "ended"}

TypeOK ==
  /\ AlarmTypeOK
  /\ pc \in [Threads -> MainPlaces \cup SessionPlaces]
  /\ prog_status \in {"work", "reload", "exit"}
  /\ usl \subseteq Sessions
  /\ cur \in Sessions \cup {NoThread}
  /\ back \in {"clear_usl", "teardown"}
  /\ stop \in [Sessions -> BOOLEAN]
  /\ thr_id \in [Sessions -> Threads \cup {NoThread}]
  /\ errno \in [Sessions -> BOOLEAN]
  /\ request \in [Sessions -> {"none", "line", "exit", "eof"}]
  /\ client \in [Sessions -> {"none", "idle", "waiting", "closed"}]
  /\ owed \in BOOLEAN
  /\ interrupted \in [Sessions -> BOOLEAN]
  /\ signals \in 0 .. MaxSignals

Init ==
  /\ AlarmInit
  /\ pc = [t \in Threads |-> IF t = Main THEN "loop" ELSE "none"]
  /\ prog_status = "work"
  /\ usl = {}
  /\ cur = NoThread
  /\ back = "clear_usl"
  /\ stop = [s \in Sessions |-> FALSE]
  /\ thr_id = [s \in Sessions |-> NoThread]
  /\ errno = [s \in Sessions |-> FALSE]
  /\ request = [s \in Sessions |-> "none"]
  /\ client = [s \in Sessions |-> "none"]
  /\ owed = FALSE
  /\ interrupted = [s \in Sessions |-> FALSE]
  /\ signals = 0

(* The code of t goes on, unless a handler runs in its thread. *)
At(t, here) == pc[t] = here /\ handler[t] = "none"

GoTo(t, place) == pc' = [pc EXCEPT ![t] = place]

-----------------------------------------------------------------------------
(* The main thread *)

(* daemon_run(): while (prog_status == work); after a reload it runs again. *)
Loop ==
  /\ At(Main, "loop")
  /\ GoTo(Main, CASE prog_status = "work" -> "polling"
                  [] prog_status = "exit" -> "teardown"
                  [] OTHER -> "loop")
  /\ prog_status' = IF prog_status = "reload" THEN "work" ELSE prog_status
  /\ UNCHANGED <<alarmvars, mainvars, sessionvars, signals>>

(* A signal that comes before the call does not interrupt it. *)
Call(t, before, call) ==
  /\ At(t, before)
  /\ GoTo(t, call)
  /\ UNCHANGED <<alarmvars, prog_status, mainvars, sessionvars, signals>>

PollInterrupted ==
  /\ At(Main, "poll")
  /\ Main \in eintr
  /\ IF prog_status # "work"
     THEN /\ GoTo(Main, "loop")
          /\ eintr' = eintr \ {Main}
          /\ UNCHANGED <<mtx, thrs, alarm>>
     ELSE /\ GoTo(Main, "alarm_stop self")
          /\ Lock(Main)
          /\ thrs' = thrs \ {Main}
          /\ eintr' = eintr \ {Main}
          /\ UNCHANGED alarm
  /\ UNCHANGED <<handler, prog_status, mainvars, sessionvars, signals>>

AlarmStopSelf ==
  /\ At(Main, "alarm_stop self")
  /\ AlarmStopEnd(Main)
  /\ GoTo(Main, "clear_usl")
  /\ UNCHANGED <<handler, prog_status, mainvars, sessionvars, signals>>

(* poll() finds a client at the unix socket: recv_unix(). *)
RecvUnix(s) ==
  /\ At(Main, "poll")
  /\ Main \notin eintr
  /\ pc[s] = "none"
  /\ IF prog_status # "work"
     THEN /\ GoTo(Main, "loop")
          /\ UNCHANGED <<usl, client>>
     ELSE /\ pc' = [pc EXCEPT ![Main] = "pending_commands", ![s] = "started"]
          /\ usl' = usl \cup {s}
          /\ client' = [client EXCEPT ![s] = "idle"]
  /\ UNCHANGED <<alarmvars, prog_status, cur, back, owed, stop, thr_id, errno, request, interrupted, signals>>

(* clear_usl() destroys the sessions that have ended, and the end of the    *)
(* daemon all of them: ~UnixSession().                                      *)
Destroy(s) ==
  /\ \/ At(Main, "clear_usl") /\ stop[s]
     \/ At(Main, "teardown")
  /\ s \in usl
  /\ cur' = s
  /\ back' = pc[Main]
  /\ stop' = [stop EXCEPT ![s] = TRUE]
  /\ AlarmThread(Main, thr_id[s])
  /\ GoTo(Main, "alarm_thread")
  /\ UNCHANGED <<handler, prog_status, usl, owed, thr_id, errno, request, client, interrupted, signals>>

AlarmSession ==
  /\ At(Main, "alarm_thread")
  /\ AlarmThreadEnd(Main)
  /\ GoTo(Main, "join")
  /\ UNCHANGED <<handler, prog_status, mainvars, sessionvars, signals>>

Join ==
  /\ At(Main, "join")
  /\ pc[cur] = "ended"
  /\ GoTo(Main, "joined")
  /\ UNCHANGED <<alarmvars, prog_status, mainvars, sessionvars, signals>>

StopAlarm ==
  /\ At(Main, "joined")
  /\ AlarmStop(Main, thr_id[cur])
  /\ GoTo(Main, "alarm_stop")
  /\ UNCHANGED <<handler, prog_status, mainvars, sessionvars, signals>>

Destroyed ==
  /\ At(Main, "alarm_stop")
  /\ AlarmStopEnd(Main)
  /\ GoTo(Main, back)
  /\ usl' = usl \ {cur}
  /\ cur' = NoThread
  /\ UNCHANGED <<handler, prog_status, back, owed, sessionvars, signals>>

(* The loops over the list end. *)
AllDestroyed ==
  /\ \/ At(Main, "clear_usl") /\ (\A s \in usl : ~stop[s]) /\ GoTo(Main, "pending_commands")
     \/ At(Main, "teardown") /\ usl = {} /\ GoTo(Main, "ended")
  /\ UNCHANGED <<alarmvars, prog_status, mainvars, sessionvars, signals>>

(* update_info() and pending_commands() *)
MainPendingCommands ==
  /\ At(Main, "pending_commands")
  /\ owed' = FALSE
  /\ GoTo(Main, "loop")
  /\ UNCHANGED <<alarmvars, prog_status, usl, cur, back, sessionvars, signals>>

MainStep ==
  \/ Loop \/ Call(Main, "polling", "poll") \/ PollInterrupted \/ AlarmStopSelf \/ AlarmSession \/ Join \/ StopAlarm
  \/ Destroyed \/ AllDestroyed \/ MainPendingCommands
  \/ \E s \in Sessions : Destroy(s)

-----------------------------------------------------------------------------
(* The thread of a session: UnixSession::run() and getline() *)

Start(s) ==
  /\ At(s, "started")
  /\ thr_id' = [thr_id EXCEPT ![s] = s]
  /\ GoTo(s, IF stop[s] THEN "end" ELSE "getline")
  /\ UNCHANGED <<alarmvars, prog_status, mainvars, stop, errno, request, client, interrupted, signals>>

(* while (!stop) read(); a stopped getline() returns an empty line. *)
Getline(s) ==
  /\ At(s, "getline")
  /\ GoTo(s, IF stop[s] THEN "got" ELSE "reading")
  /\ UNCHANGED <<alarmvars, prog_status, mainvars, sessionvars, signals>>

ReadInterrupted(s) ==
  /\ At(s, "read")
  /\ s \in eintr
  /\ eintr' = eintr \ {s}
  /\ errno' = [errno EXCEPT ![s] = TRUE]
  /\ interrupted' = [interrupted EXCEPT ![s] = TRUE]
  /\ GoTo(s, "getline")
  /\ UNCHANGED <<handler, mtx, thrs, alarm, prog_status, mainvars, stop, thr_id, request, client, signals>>

(* errno is looked at before the result: what a successful read() returns   *)
(* is dropped as long as an earlier EINTR is in it, and so is the end of    *)
(* the input, which comes again.                                            *)
Read(s) ==
  /\ At(s, "read")
  /\ s \notin eintr
  /\ request[s] # "none"
  /\ GoTo(s, IF errno[s] THEN "getline"
             ELSE IF request[s] = "eof" THEN "end" ELSE "got")
  /\ request' = [request EXCEPT ![s] = IF @ = "line" \/ (@ = "exit" /\ errno[s]) THEN "none" ELSE @]
  /\ UNCHANGED <<alarmvars, prog_status, mainvars, stop, thr_id, errno, client, interrupted, signals>>

(* Slip: a daemon that reloads forgets the command. *)
GotGoingOn(s) ==
  /\ At(s, "got")
  /\ GoTo(s, IF prog_status = "work" THEN "interactive_exec" ELSE "getline")
  /\ UNCHANGED <<alarmvars, prog_status, mainvars, sessionvars, signals>>

(* && prog_status == work *)
Got(s) ==
  /\ At(s, "got")
  /\ GoTo(s, IF prog_status = "work" THEN "interactive_exec" ELSE "end")
  /\ UNCHANGED <<alarmvars, prog_status, mainvars, sessionvars, signals>>

(* interactive_exec() and pending_commands(), that may leave another errno; *)
(* then notify().                                                           *)
InteractiveExec(s) ==
  /\ At(s, "interactive_exec")
  /\ errno' \in {errno, [errno EXCEPT ![s] = FALSE]}
  /\ AlarmThread(s, Main)
  /\ owed' = TRUE
  /\ GoTo(s, "notify")
  /\ UNCHANGED <<handler, prog_status, usl, cur, back, stop, thr_id, request, client, interrupted, signals>>

Notify(s) ==
  /\ At(s, "notify")
  /\ AlarmThreadEnd(s)
  /\ GoTo(s, "reply")
  /\ UNCHANGED <<handler, prog_status, mainvars, sessionvars, signals>>

(* EOT ends the output of a command; after "exit" the loop ends instead.    *)
Reply(s) ==
  /\ At(s, "reply")
  /\ client' = [client EXCEPT ![s] = IF @ = "waiting" /\ request[s] # "exit" THEN "idle" ELSE @]
  /\ GoTo(s, IF stop[s] \/ request[s] = "exit" THEN "end" ELSE "getline")
  /\ UNCHANGED <<alarmvars, prog_status, mainvars, stop, thr_id, errno, request, interrupted, signals>>

(* save(); stop = true; the socket is closed. *)
End(s) ==
  /\ At(s, "end")
  /\ stop' = [stop EXCEPT ![s] = TRUE]
  /\ client' = [client EXCEPT ![s] = "closed"]
  /\ GoTo(s, "ended")
  /\ UNCHANGED <<alarmvars, prog_status, mainvars, thr_id, errno, request, interrupted, signals>>

SessionStep(s) ==
  \/ Start(s) \/ Getline(s) \/ Call(s, "reading", "read") \/ ReadInterrupted(s) \/ Read(s) \/ Got(s)
  \/ InteractiveExec(s) \/ Notify(s) \/ Reply(s) \/ End(s)

(* The client: interactive_online_exec() writes a line and reads up to EOT; *)
(* "exit" gets no answer but the end of the connection.                     *)
Send(s) ==
  /\ client[s] = "idle"
  /\ \/ /\ request' = [request EXCEPT ![s] = "line"]
        /\ client' = [client EXCEPT ![s] = "waiting"]
     \/ /\ request' = [request EXCEPT ![s] = "exit"]
        /\ client' = [client EXCEPT ![s] = "waiting"]
     \/ /\ request' = [request EXCEPT ![s] = "eof"]
        /\ client' = [client EXCEPT ![s] = "closed"]
  /\ UNCHANGED <<pc, alarmvars, prog_status, mainvars, stop, thr_id, errno, interrupted, signals>>

-----------------------------------------------------------------------------
(* The kernel delivers SIGTERM or SIGHUP in some thread. *)
Signal(t) ==
  /\ signals < MaxSignals
  /\ pc[t] \notin {"none", "ended"}
  /\ signals' = signals + 1
  /\ prog_status' \in {"exit", "reload"}
  /\ SigNotify(t)
  /\ UNCHANGED <<pc, mainvars, sessionvars>>

Alarm(t) ==
  /\ pc[t] \notin {"none", "ended"}
  /\ SigAlrm(t)
  /\ UNCHANGED <<pc, prog_status, mainvars, sessionvars, signals>>

Handle(t) ==
  /\ HandlerStep(t)
  /\ UNCHANGED <<pc, prog_status, mainvars, sessionvars, signals>>

Next ==
  \/ MainStep
  \/ \E s \in Sessions : RecvUnix(s) \/ SessionStep(s) \/ Send(s)
  \/ \E t \in Threads : Signal(t) \/ Alarm(t) \/ Handle(t)

Spec == Init /\ [][Next]_vars

(* Every thread runs, also between the alarms, which are a second apart;    *)
(* and SIGALRM comes.  Clients and signals need not.                        *)
Fairness ==
  /\ SF_vars(MainStep)
  /\ \A s \in Sessions : SF_vars(SessionStep(s))
  /\ WF_vars(\E t \in Threads : Alarm(t))
  /\ \A t \in Threads : SF_vars(Handle(t))

FairSpec == Spec /\ Fairness

-----------------------------------------------------------------------------
(* A thread that has been joined is on the list only until its destructor   *)
(* is through: afterwards SIGALRM would be passed to a thread that does not *)
(* exist.  (A thr_id that was read too early stays on it for ever.)         *)
OnlyLiveThreadsAlarmed ==
  \A s \in Sessions : s \in thrs => s \in usl

(* What it rests on: a session on the list is the one that is being         *)
(* destroyed, and it has told its id.                                       *)
Destroying == {"alarm_thread", "join", "joined", "alarm_stop"}
ThreadIds == \A s \in Sessions : thr_id[s] \in {s, NoThread}
AlarmedIsDestroyed ==
  /\ pc[Main] \in Destroying => cur \in usl
  /\ \A s \in Sessions : s \in thrs =>
       cur = s /\ thr_id[s] = s /\ pc[Main] \in Destroying \ {"alarm_stop"}

(* The inductive invariant *)
SessionsInv == TypeOK /\ AlarmGoesOn /\ ThreadIds /\ AlarmedIsDestroyed

(* The destructor of a session ends, wherever its thread was when it was    *)
(* told to stop; unless a handler waits for the mutex it has interrupted.   *)
DestructorEnds == pc[Main] = "join" ~> pc[Main] # "join" \/ SelfLocked

(* A command of a user reaches the main thread, which may be about to wait  *)
(* in poll(), or be interrupted elsewhere; unless the program ends.         *)
NotifiedUnlessSelfLocked == owed ~> ~owed \/ SelfLocked \/ pc[Main] = "ended"

(* A client gets an answer, or the end of the connection, unless its        *)
(* session has ever been interrupted while it was reading.                  *)
AnsweredUnlessInterrupted ==
  \A s \in Sessions : client[s] = "waiting" ~>
    client[s] # "waiting" \/ interrupted[s] \/ SelfLocked
=============================================================================
