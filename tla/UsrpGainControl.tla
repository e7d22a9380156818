---------------------------- MODULE UsrpGainControl ----------------------------
(* lib/usrp_gain_control_impl.cc: a trigger raises the gain of the radio at    *)
(* once, and a worker thread lowers it again after a delay.                    *)
(*                                                                             *)
(* A command is the gain it asks for.  A command reaches the radio only while  *)
(* the flowgraph runs: the worker starts in the constructor, before the        *)
(* output port is connected, and a command sent while the flowgraph stops may  *)
(* find the radio's thread gone.  The length of the delay is not modelled.     *)
EXTENDS Naturals

CONSTANTS OnGains,  \* values of m_gain_on
          OffGains, \* values of m_gain_off
          NoGain    \* the radio has had no command

ASSUME GainAssumption ==
  /\ OnGains \cap OffGains = {}
  /\ OnGains # {} /\ OffGains # {}
  /\ NoGain \notin OnGains \cup OffGains

VARIABLES m_gain_on, m_gain_off,
          m_new_timer,      \* a trigger the worker has not taken up
          m_exit_requested, \* set by stop(), read by the worker
          graph,            \* "built", "running", "stopping" inside stop(), "stopped"
          handler,          \* "idle", or "sent" between the command and the flag
          worker,           \* where usrp_gain_control_wait is
          sent,             \* the latest command published
          radio             \* the latest command the radio received

vars == << m_gain_on, m_gain_off, m_new_timer, m_exit_requested, graph, handler,
           worker, sent, radio >>

Init ==
  /\ m_gain_on \in OnGains
  /\ m_gain_off \in OffGains
  /\ m_new_timer = FALSE
  /\ m_exit_requested = FALSE
  /\ graph = "built"
  /\ handler = "idle"
  /\ worker = "start"
  /\ sent = NoGain
  /\ radio = NoGain

send_uhd_usrp_cmd(gain) ==
  /\ sent' = gain
  /\ \/ graph \in {"running", "stopping"} /\ radio' = gain
     \/ graph # "running" /\ UNCHANGED radio

--------------------------------------------------------------------------------
\* The scheduler thread: the handler, stop() and start(); the setters are called
\* from the user interface.

\* The first half of packet_handler: the command, sent without the lock.
Trigger ==
  /\ graph = "running"
  /\ handler = "idle"
  /\ handler' = "sent"
  /\ send_uhd_usrp_cmd(m_gain_on)
  /\ UNCHANGED << m_gain_on, m_gain_off, m_new_timer, m_exit_requested, graph, worker >>

\* The second half: the flag, set under the lock.
RequestDelay ==
  /\ handler = "sent"
  /\ handler' = "idle"
  /\ m_new_timer' = TRUE
  /\ UNCHANGED << m_gain_on, m_gain_off, m_exit_requested, graph, worker, sent, radio >>

set_gain_on(gain) ==
  /\ m_gain_on' = gain
  /\ UNCHANGED << m_gain_off, m_new_timer, m_exit_requested, graph, handler, worker,
                  sent, radio >>

\* A slip: the other gain is set.
set_gain_offCopied(gain) ==
  /\ m_gain_on' = gain
  /\ UNCHANGED << m_gain_off, m_new_timer, m_exit_requested, graph, handler, worker,
                  sent, radio >>

set_gain_off(gain) ==
  /\ m_gain_off' = gain
  /\ UNCHANGED << m_gain_on, m_new_timer, m_exit_requested, graph, handler, worker,
                  sent, radio >>

\* start(), which the block does not override, also after a stop().
StartGraph ==
  /\ graph \in {"built", "stopped"}
  /\ graph' = "running"
  /\ UNCHANGED << m_gain_on, m_gain_off, m_new_timer, m_exit_requested, handler,
                  worker, sent, radio >>

\* A slip: stop() forgets the pending triggers.
threadDeInitForgets ==
  /\ graph = "running"
  /\ handler = "idle"
  /\ graph' = "stopping"
  /\ m_exit_requested' = TRUE
  /\ m_new_timer' = FALSE
  /\ UNCHANGED << m_gain_on, m_gain_off, handler, worker, sent, radio >>

\* stop(): up to the join, and the join.
threadDeInit ==
  /\ graph = "running"
  /\ handler = "idle"
  /\ graph' = "stopping"
  /\ m_exit_requested' = TRUE
  /\ UNCHANGED << m_gain_on, m_gain_off, m_new_timer, handler, worker, sent, radio >>

Join ==
  /\ graph = "stopping"
  /\ worker = "done"
  /\ graph' = "stopped"
  /\ UNCHANGED << m_gain_on, m_gain_off, m_new_timer, m_exit_requested, handler,
                  worker, sent, radio >>

--------------------------------------------------------------------------------
\* The worker, usrp_gain_control_wait.

SendOffAtStart ==
  /\ worker = "start"
  /\ worker' = "loop"
  /\ send_uhd_usrp_cmd(m_gain_off)
  /\ UNCHANGED << m_gain_on, m_gain_off, m_new_timer, m_exit_requested, graph, handler >>

\* A slip: the exit flag is tested only when there was a trigger.
TestFlagsOnTrigger ==
  /\ worker = "loop"
  /\ m_new_timer
  /\ worker' = IF m_exit_requested THEN "done" ELSE "clear"
  /\ UNCHANGED << m_gain_on, m_gain_off, m_new_timer, m_exit_requested, graph, handler,
                  sent, radio >>

\* Both flags are read without the lock.
TestFlags ==
  /\ worker = "loop"
  /\ m_exit_requested \/ m_new_timer
  /\ worker' = IF m_exit_requested THEN "done" ELSE "clear"
  /\ UNCHANGED << m_gain_on, m_gain_off, m_new_timer, m_exit_requested, graph, handler,
                  sent, radio >>

ClearFlag ==
  /\ worker = "clear"
  /\ worker' = "wait"
  /\ m_new_timer' = FALSE
  /\ UNCHANGED << m_gain_on, m_gain_off, m_exit_requested, graph, handler, sent, radio >>

\* A slip: the worker ends with the first delay.
SendOffOnce ==
  /\ worker = "wait"
  /\ worker' = "done"
  /\ send_uhd_usrp_cmd(m_gain_off)
  /\ UNCHANGED << m_gain_on, m_gain_off, m_new_timer, m_exit_requested, graph, handler >>

\* The end of the delay.
SendOff ==
  /\ worker = "wait"
  /\ worker' = "loop"
  /\ send_uhd_usrp_cmd(m_gain_off)
  /\ UNCHANGED << m_gain_on, m_gain_off, m_new_timer, m_exit_requested, graph, handler >>

Worker == SendOffAtStart \/ TestFlags \/ ClearFlag \/ SendOff

Next ==
  \/ Trigger \/ RequestDelay
  \/ \E gain \in OnGains : set_gain_on(gain)
  \/ \E gain \in OffGains : set_gain_off(gain)
  \/ StartGraph \/ threadDeInit \/ Join
  \/ Worker

Spec == Init /\ [][Next]_vars

\* Every thread is scheduled, and a delay ends.
FairSpec == Spec /\ WF_vars(Worker) /\ WF_vars(RequestDelay) /\ WF_vars(Join)

--------------------------------------------------------------------------------
\* Properties.

TypeOK ==
  /\ m_gain_on \in OnGains
  /\ m_gain_off \in OffGains
  /\ m_new_timer \in BOOLEAN
  /\ m_exit_requested \in BOOLEAN
  /\ graph \in {"built", "running", "stopping", "stopped"}
  /\ handler \in {"idle", "sent"}
  /\ worker \in {"start", "loop", "clear", "wait", "done"}
  /\ sent \in OnGains \cup OffGains \cup {NoGain}
  /\ radio \in OnGains \cup OffGains \cup {NoGain}

\* Once its handler is over, a trigger that raised the gain is known to the
\* worker: no interleaving of handler and worker loses the request to lower it.
OnIsTimed ==
  sent \in OnGains /\ handler = "idle" => m_new_timer \/ worker \in {"clear", "wait"}

\* A raised gain of the radio is lowered again, however often it is triggered,
\* unless the flowgraph stops.
GainDrops == radio \in OnGains ~> radio \in OffGains \/ m_exit_requested

\* stop() returns, also during a delay and however many triggers are pending.
StopReturns == graph = "stopping" ~> graph = "stopped"

\* The radio is told the low gain at the start (usrp_gain_control_impl.cc:155):
\* once the worker has done so and the flowgraph runs, the radio had a command.
RadioStartsOff == worker # "start" /\ graph = "running" => radio # NoGain
================================================================================
