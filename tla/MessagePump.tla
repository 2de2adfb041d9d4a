---------------------------- MODULE MessagePump ----------------------------
(* The message pump of CEF in ts2 (cef_integration.rs).  CEF asks, from any *)
(* thread, for its work to be done on the main thread; the app keeps one    *)
(* timer of the main run loop for it, under a lock it takes for each access *)
(* and not for a whole call: two calls, or a call and the callback of a     *)
(* timer that fires, may come between the steps of one another.             *)
(*                                                                          *)
(* Delays are abstracted: a timer that is pending may fire at any time.     *)
EXTENDS Naturals, FiniteSets

CONSTANTS
  Threads,    \* the threads CEF calls from
  Main,       \* the main thread, one of them
  Timers,     \* bound: the timers that exist at a time
  NoTimer     \* CEF_TIMER is None

ASSUME PumpAssumption == Main \in Threads /\ NoTimer \notin Timers

VARIABLES
  pending,    \* timers the run loop will fire
  ref,        \* CEF_TIMER
  call,       \* what each thread is doing in schedule_cef_work
  pump,       \* what the main thread is doing in timer_callback
  due         \* CEF has asked for work that was not done since

pumpVars == <<pending, ref, call, pump, due>>

NotCalling == [pc |-> "idle", timer |-> NoTimer]

PumpInit ==
  /\ pending = {} /\ ref = NoTimer
  /\ call = [t \in Threads |-> NotCalling]
  /\ pump = "idle" /\ due = FALSE

(* The main thread runs one thing at a time: CEF calls from it while it     *)
(* does CEF's work or something else that uses CEF, not in between.         *)
MainIsFree == pump = "idle" /\ call[Main].pc = "idle"

(* on_schedule_message_pump_work: CEF calls schedule_cef_work on thread t.  *)
Ask(t) ==
  /\ call[t].pc = "idle"
  /\ t = Main => pump \in {"idle", "working"}
  /\ call' = [call EXCEPT ![t].pc = "cancel"]
  /\ due' = TRUE
  /\ UNCHANGED <<pending, ref, pump>>

\* A mutant of Cancel: a timer that is already there is as good as a new one.
CancelUnlessThere(t) ==
  /\ call[t].pc = "cancel"
  /\ call' = [call EXCEPT ![t].pc = IF ref = NoTimer THEN "add" ELSE "idle"]
  /\ UNCHANGED <<pending, ref, pump, due>>

(* cancel_timer: take the reference and invalidate what it refers to.       *)
Cancel(t) ==
  /\ call[t].pc = "cancel"
  /\ pending' = pending \ {ref}
  /\ ref' = NoTimer
  /\ call' = [call EXCEPT ![t].pc = "add"]
  /\ UNCHANGED <<pump, due>>

Unused == Timers \ (pending \cup {ref} \cup {call[t].timer : t \in Threads})

(* A new timer, whichever, is given to the main run loop, and then stored.  *)
Add(t) ==
  /\ call[t].pc = "add"
  /\ Unused # {}
  /\ LET k == CHOOSE k \in Unused : TRUE
     IN /\ pending' = pending \cup {k}
        /\ call' = [call EXCEPT ![t] = [pc |-> "store", timer |-> k]]
  /\ UNCHANGED <<ref, pump, due>>

Store(t) ==
  /\ call[t].pc = "store"
  /\ ref' = call[t].timer
  /\ call' = [call EXCEPT ![t] = NotCalling]
  /\ UNCHANGED <<pending, pump, due>>

(* The run loop fires a timer: timer_callback clears the reference, without *)
(* a look at which timer it holds, and does CEF's work.                     *)
Fire ==
  /\ MainIsFree
  /\ \E k \in pending : pending' = pending \ {k}
  /\ pump' = "fired"
  /\ UNCHANGED <<ref, call, due>>

Clear ==
  /\ pump = "fired"
  /\ ref' = NoTimer /\ pump' = "work"
  /\ UNCHANGED <<pending, call, due>>

DoWork ==
  /\ pump = "work"
  /\ pump' = "working" /\ due' = FALSE
  /\ UNCHANGED <<pending, ref, call>>

\* A mutant of WorkDone: the work is done, so the timer is not needed.
WorkDoneCancels ==
  /\ pump = "working" /\ call[Main].pc = "idle"
  /\ pump' = "idle" /\ pending' = pending \ {ref} /\ ref' = NoTimer
  /\ UNCHANGED <<call, due>>

WorkDone ==
  /\ pump = "working" /\ call[Main].pc = "idle"
  /\ pump' = "idle"
  /\ UNCHANGED <<pending, ref, call, due>>

Call(t) == Cancel(t) \/ Add(t) \/ Store(t)
PumpStep == (\E t \in Threads : Call(t)) \/ Fire \/ Clear \/ WorkDone

----------------------------------------------------------------------------
(* The types; a thread has a timer in hand exactly before it stores it.     *)
PumpTypeOK ==
  /\ pending \subseteq Timers /\ ref \in Timers \cup {NoTimer}
  /\ call \in [Threads -> [pc : {"idle", "cancel", "add", "store"},
                           timer : Timers \cup {NoTimer}]]
  /\ pump \in {"idle", "fired", "work", "working"} /\ due \in BOOLEAN
  /\ \A t \in Threads : call[t].pc = "store" <=> call[t].timer # NoTimer

(* Work CEF has asked for is never forgotten: a timer is pending, or one    *)
(* has fired and the work comes next, or a call that will add one is under  *)
(* way.                                                                     *)
WorkIsCovered ==
  due => \/ pending # {} \/ pump \in {"fired", "work"}
         \/ \E t \in Threads : call[t].pc \in {"cancel", "add"}

(* "Cancel existing timer if any": with no call under way, at most one      *)
(* timer is pending.                                                        *)
OneTimer ==
  (\A t \in Threads : call[t].pc = "idle") => \A j, k \in pending : j = k

=============================================================================
