------------------------------- MODULE Alarmer -------------------------------
(***************************************************************************)
(* The list of threads that get SIGINT every second (src/alarmer.cpp).  A  *)
(* signal interrupts only the blocking call a thread is in, so that one    *)
(* that comes just before the call has no effect; therefore SIGALRM sends  *)
(* it again until alarm_stop().  Handlers run inside any thread, also one  *)
(* that holds the mutex of the list.  Between alarm(1) and the unlocking   *)
(* that follows it less than a second passes: they are one step here.      *)
(***************************************************************************)
EXTENDS Naturals

CONSTANTS
  Threads,        \* the threads of the program
  Main,           \* the one that notify() wakes, Daemon::thr_id
  NoThread,       \* owner of a free mutex; a thr_id that was not written yet
  BlockingCalls   \* the places in the code that a signal interrupts

ASSUME ThreadsAssumption == Main \in Threads /\ NoThread \notin Threads

VARIABLES
  pc,        \* where each thread is
  handler,   \* where the signal handler is that interrupts it
  mtx,       \* who holds the mutex of the list
  thrs,      \* the list
  alarm,     \* SIGALRM will come
  eintr      \* the threads whose blocking call fails with EINTR

alarmvars == <<handler, mtx, thrs, alarm, eintr>>

AlarmTypeOK ==
  /\ handler \in [Threads -> {"none", "lock", "unlock", "on_alarm"}]
  /\ mtx \in Threads \cup {NoThread}
  /\ thrs \subseteq Threads \cup {NoThread}
  /\ alarm \in BOOLEAN
  /\ eintr \subseteq Threads

AlarmInit ==
  /\ handler = [t \in Threads |-> "none"]
  /\ mtx = NoThread
  /\ thrs = {}
  /\ alarm = FALSE
  /\ eintr = {}

Blocked == {t \in Threads : pc[t] \in BlockingCalls}

(* Calls of the threads in S fail with EINTR.  Killing a thread that does   *)
(* not exist is undefined; here it does nothing.                            *)
Interrupt(S) == eintr' = eintr \cup (S \cap Blocked)

Lock(t) == mtx = NoThread /\ mtx' = t

Unlock(t) == mtx = t /\ mtx' = NoThread

-----------------------------------------------------------------------------
(* Slip: the thread is not put on the list. *)
AlarmThreadOnce(t, thr) ==
  /\ Lock(t)
  /\ Interrupt({thr})
  /\ UNCHANGED <<thrs, alarm>>

(* alarm_thread(thr), called by t *)
AlarmThread(t, thr) ==
  /\ Lock(t)
  /\ Interrupt({thr})
  /\ thrs' = thrs \cup {thr}
  /\ UNCHANGED alarm

AlarmThreadEnd(t) ==
  /\ Unlock(t)
  /\ alarm' = TRUE
  /\ UNCHANGED <<thrs, eintr>>

(* alarm_stop(thr) *)
AlarmStop(t, thr) ==
  /\ Lock(t)
  /\ thrs' = thrs \ {thr}
  /\ UNCHANGED <<alarm, eintr>>

(* Slip: the alarm that was lost while the mutex was held is not made up for. *)
AlarmStopEndQuietly(t) ==
  /\ Unlock(t)
  /\ UNCHANGED <<thrs, eintr, alarm>>

AlarmStopEnd(t) ==
  /\ Unlock(t)
  /\ alarm' = (alarm \/ thrs # {})
  /\ UNCHANGED <<thrs, eintr>>

(* SIGALRM comes in thread t; on_alarm() gives up when the mutex is held.   *)
SigAlrm(t) ==
  /\ alarm
  /\ handler[t] = "none"
  /\ alarm' = FALSE
  /\ \/ /\ Lock(t)
        /\ handler' = [handler EXCEPT ![t] = "on_alarm"]
        /\ Interrupt(thrs \cup {t})
     \/ /\ mtx # NoThread
        /\ Interrupt({t})
        /\ UNCHANGED <<mtx, handler>>
  /\ UNCHANGED thrs

(* Slip: SIGALRM is taken for a periodic one. *)
OnAlarmEndQuietly(t) ==
  /\ handler[t] = "on_alarm"
  /\ Unlock(t)
  /\ handler' = [handler EXCEPT ![t] = "none"]
  /\ UNCHANGED <<thrs, eintr, alarm>>

OnAlarmEnd(t) ==
  /\ handler[t] = "on_alarm"
  /\ Unlock(t)
  /\ handler' = [handler EXCEPT ![t] = "none"]
  /\ alarm' = (thrs # {})
  /\ UNCHANGED <<thrs, eintr>>

(* SIGTERM or SIGHUP comes in thread t; its handler calls notify().  When   *)
(* it interrupts code that holds the mutex, what is left of that code never *)
(* runs again.                                                              *)
SigNotify(t) ==
  /\ handler[t] # "lock"
  /\ handler' = [handler EXCEPT ![t] = "lock"]
  /\ Interrupt({t})
  /\ UNCHANGED <<mtx, thrs, alarm>>

NotifyLock(t) ==
  /\ handler[t] = "lock"
  /\ AlarmThread(t, Main)
  /\ handler' = [handler EXCEPT ![t] = "unlock"]

NotifyEnd(t) ==
  /\ handler[t] = "unlock"
  /\ AlarmThreadEnd(t)
  /\ handler' = [handler EXCEPT ![t] = "none"]

HandlerStep(t) == OnAlarmEnd(t) \/ NotifyLock(t) \/ NotifyEnd(t)

-----------------------------------------------------------------------------
(* A thread waits for a mutex that it holds itself. *)
SelfLocked == \E t \in Threads : mtx = t /\ handler[t] = "lock"

(* alarmer.h: SIGINT every second until alarm_stop().  Although on_alarm()  *)
(* drops an alarm that comes while somebody changes the list, the next one  *)
(* is always under way as long as a thread is on it.                        *)
AlarmGoesOn == mtx = NoThread /\ thrs # {} => alarm
=============================================================================
