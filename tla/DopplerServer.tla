----------------------------- MODULE DopplerServer -----------------------------
(* lib/gs_doppler_correction_impl.cc: a TCP server in a worker thread takes    *)
(* frequencies from tracking programs and publishes the Doppler corrections.   *)
(*                                                                             *)
(* The worker runs the handlers of server and server_session one at a time in  *)
(* io_service::run.  Only these handlers look at the exit flag of stop(), so   *)
(* what matters is which handlers are still to come: the acceptor, the timer   *)
(* of the server, and for every session its read or write and its timer.       *)
(*                                                                             *)
(* A client sends a command and waits for the answer before it sends the next, *)
(* as GPREDICT does.  A frequency is a number; a session starts with 0.        *)
EXTENDS Integers, FiniteSets

CONSTANTS Clients, \* names for connections, free ones are used again
          Freqs,   \* the frequencies clients send
          NoFreq   \* a frequency that is missing or does not parse

ASSUME DopplerAssumption ==
  /\ IsFiniteSet(Clients)
  /\ Freqs \subseteq Int
  /\ NoFreq \notin Int

VARIABLES m_sourceType,     \* "GPREDICT" or "GSJD"
          m_exit_requested, \* set by stop(), read by the handlers
          graph,            \* "running", "stopping" inside stop(), "stopped"
          worker,           \* "start", "running" inside io_service.run(), "done"
          accepting,        \* an async_accept is pending
          server_timer,     \* the timer of the server is armed
          count             \* active connections, as the server counts them

\* Functions on Clients.
VARIABLES session,    \* "free", "reading", "writing", or "deaf": no read is pending
          timer,      \* the timer of the session is armed
          aborted,    \* a cancelled wait of that timer is still to be handled
          m_freq_rx, m_freq_tx,
          newFreq,    \* the command being answered changed a frequency
          shown,      \* history: the pair the session published last
          asked_tx    \* history: the TX frequency the session acknowledged last

svars == << m_sourceType, m_exit_requested, graph >>
fvars == << m_freq_rx, m_freq_tx, newFreq, shown, asked_tx >>
vars  == << m_sourceType, m_exit_requested, graph, worker, accepting, server_timer, count,
            session, timer, aborted, m_freq_rx, m_freq_tx, newFreq, shown, asked_tx >>

Init ==
  /\ m_sourceType \in {"GPREDICT", "GSJD"}
  /\ m_exit_requested = FALSE
  /\ graph = "running"
  /\ worker = "start"
  /\ accepting = FALSE
  /\ server_timer = FALSE
  /\ count = 0
  /\ session = [c \in Clients |-> "free"]
  /\ timer = [c \in Clients |-> FALSE]
  /\ aborted = [c \in Clients |-> FALSE]
  /\ m_freq_rx = [c \in Clients |-> 0]
  /\ m_freq_tx = [c \in Clients |-> 0]
  /\ newFreq = [c \in Clients |-> FALSE]
  /\ shown = [c \in Clients |-> << 0, 0 >>]
  /\ asked_tx = [c \in Clients |-> 0]

--------------------------------------------------------------------------------
\* The scheduler thread: stop(), up to the join, the join, and start().

threadTransferDeInit ==
  /\ graph = "running"
  /\ graph' = "stopping"
  /\ m_exit_requested' = TRUE
  /\ UNCHANGED << m_sourceType, worker, accepting, server_timer, count, session, timer,
                  aborted, fvars >>

Join ==
  /\ graph = "stopping"
  /\ worker = "done"
  /\ graph' = "stopped"
  /\ UNCHANGED << m_sourceType, m_exit_requested, worker, accepting, server_timer, count,
                  session, timer, aborted, fvars >>

Restart ==
  /\ graph = "stopped"
  /\ graph' = "running"
  /\ UNCHANGED << m_sourceType, m_exit_requested, worker, accepting, server_timer, count,
                  session, timer, aborted, fvars >>

--------------------------------------------------------------------------------
\* gs_doppler_correction_wait: the constructor of the server, and run().

StartServer ==
  /\ worker = "start"
  /\ IF m_exit_requested
       THEN worker' = "done" /\ UNCHANGED << accepting, server_timer >>
       ELSE worker' = "running" /\ accepting' = TRUE /\ server_timer' = TRUE
  /\ UNCHANGED << svars, count, session, timer, aborted, fvars >>

\* run() returns when no handler is left to come.
OutOfWork ==
  /\ worker = "running"
  /\ ~accepting /\ ~server_timer
  /\ \A c \in Clients : session[c] \in {"free", "deaf"} /\ ~timer[c] /\ ~aborted[c]
  /\ worker' = "done"
  /\ UNCHANGED << svars, accepting, server_timer, count, session, timer, aborted, fvars >>

\* A handler that finds the exit flag set calls io_service.stop() and returns.
StopIo ==
  /\ worker' = "done"
  /\ UNCHANGED << svars, accepting, server_timer, count, session, timer, aborted, fvars >>

Handling     == worker = "running"
HandlingOpen == worker = "running" /\ ~m_exit_requested

--------------------------------------------------------------------------------
\* The handlers of server.

\* With a connection open the timer is not armed again, and the flag not tested.
server_handle_timeout ==
  /\ Handling
  /\ server_timer
  /\ IF count > 0
       THEN /\ server_timer' = FALSE
            /\ UNCHANGED << svars, worker, accepting, count, session, timer, aborted, fvars >>
       ELSE \/ m_exit_requested /\ StopIo
            \/ ~m_exit_requested /\ UNCHANGED vars

\* start() of a session: arming the timer cancels the wait that is pending.
start(c) ==
  /\ session' = [session EXCEPT ![c] = "reading"]
  /\ timer' = [timer EXCEPT ![c] = TRUE]
  /\ aborted' = [aborted EXCEPT ![c] = @ \/ timer[c]]

handle_accept(c) ==
  /\ Handling
  /\ accepting
  /\ session[c] = "free" /\ ~aborted[c]
  /\ count' = count + 1
  /\ start(c)
  /\ m_freq_rx' = [m_freq_rx EXCEPT ![c] = 0]
  /\ m_freq_tx' = [m_freq_tx EXCEPT ![c] = 0]
  /\ newFreq' = [newFreq EXCEPT ![c] = FALSE]
  /\ shown' = [shown EXCEPT ![c] = << 0, 0 >>]
  /\ asked_tx' = [asked_tx EXCEPT ![c] = 0]
  /\ UNCHANGED << svars, worker, accepting, server_timer >>

\* An accept that fails is not tried again.
handle_accept_error ==
  /\ Handling
  /\ accepting
  /\ accepting' = FALSE
  /\ UNCHANGED << svars, worker, server_timer, count, session, timer, aborted, fvars >>

--------------------------------------------------------------------------------
\* The handlers of server_session.

\* A slip: the timer of a session does not look at the flag.
handle_timeoutBlind(c) ==
  /\ Handling
  /\ timer[c]
  /\ timer' = [timer EXCEPT ![c] = FALSE]
  /\ UNCHANGED << svars, worker, accepting, server_timer, count, session, aborted, fvars >>

\* The timer runs out.  It only tests the flag, and is not armed again.
handle_timeout(c) ==
  /\ Handling
  /\ timer[c]
  /\ IF m_exit_requested
       THEN StopIo
       ELSE /\ timer' = [timer EXCEPT ![c] = FALSE]
            /\ UNCHANGED << svars, worker, accepting, server_timer, count, session,
                            aborted, fvars >>

\* The handler of a cancelled wait.  If the session is gone, the io_service it
\* would stop is read from freed memory: it may be stopped or not.
handle_timeout_aborted(c) ==
  /\ Handling
  /\ aborted[c]
  /\ \/ m_exit_requested /\ StopIo
     \/ /\ ~m_exit_requested \/ session[c] = "free"
        /\ aborted' = [aborted EXCEPT ![c] = FALSE]
        /\ UNCHANGED << svars, worker, accepting, server_timer, count, session, timer,
                        fvars >>

\* The commands, by what the two protocols make of them: "set" is F of GPREDICT
\* and f, with or without F, of GSJD; "tx" is F alone of GSJD; "query" is f of
\* GPREDICT and M of GSJD.
Commands ==
  LET some == Freqs \cup {NoFreq}
      set(rxs, txs) == [kind : {"set"}, rx : rxs, tx : txs]
      rest == { [kind |-> k, rx |-> NoFreq, tx |-> NoFreq] : k \in {"query", "other"} }
  IN  rest \cup IF m_sourceType = "GPREDICT"
                  THEN set(some, {NoFreq})
                  ELSE set(some, some) \cup [kind : {"tx"}, rx : {NoFreq}, tx : some]

\* A slip: a frequency that does not parse is taken over all the same.
UpdatedAlways(old, freq) == freq

\* What a command makes of the frequency the session knows.
Updated(old, freq) == IF freq = NoFreq THEN old ELSE freq

\* A slip: only the RX frequency marks the pair as new.
newPairRx(rx, tx, c) == rx # m_freq_rx[c]

newPair(rx, tx, c) == << rx, tx >> # << m_freq_rx[c], m_freq_tx[c] >>

\* A command "tx" parses the empty prefix_tx in place of what it received: it is
\* acknowledged and changes nothing.  After an unknown command nothing more is
\* read or written.
handle_read(c, cmd) ==
  /\ HandlingOpen
  /\ session[c] = "reading"
  /\ LET rx == IF cmd.kind = "set" THEN Updated(m_freq_rx[c], cmd.rx) ELSE m_freq_rx[c]
         tx == IF cmd.kind = "set" THEN Updated(m_freq_tx[c], cmd.tx) ELSE m_freq_tx[c]
     IN  /\ m_freq_rx' = [m_freq_rx EXCEPT ![c] = rx]
         /\ m_freq_tx' = [m_freq_tx EXCEPT ![c] = tx]
         /\ newFreq' = [newFreq EXCEPT ![c] = newPair(rx, tx, c)]
  /\ session' = [session EXCEPT ![c] = IF cmd.kind = "other" THEN "deaf" ELSE "writing"]
  /\ asked_tx' = [asked_tx EXCEPT ![c] = Updated(@, cmd.tx)]
  /\ UNCHANGED << svars, worker, accepting, server_timer, count, timer, aborted, shown >>

\* delete this: the destructor of the timer cancels the wait that is pending.
Delete(c) ==
  /\ session' = [session EXCEPT ![c] = "free"]
  /\ timer' = [timer EXCEPT ![c] = FALSE]
  /\ aborted' = [aborted EXCEPT ![c] = @ \/ timer[c]]

\* A slip: the connection is not counted down.
DropUncounted(c) ==
  /\ Delete(c)
  /\ UNCHANGED count

\* decrement_active_connection, and delete this.
Drop(c) ==
  /\ Delete(c)
  /\ count' = IF count > 0 THEN count - 1 ELSE count

handle_read_error(c) ==
  /\ HandlingOpen
  /\ session[c] = "reading"
  /\ Drop(c)
  /\ newFreq' = [newFreq EXCEPT ![c] = FALSE]
  /\ UNCHANGED << svars, worker, accepting, server_timer, m_freq_rx, m_freq_tx, shown,
                  asked_tx >>

\* message_callback is called whether the answer could be written or not.
message_callback(c) ==
  shown' = [shown EXCEPT ![c] = IF newFreq[c] THEN << m_freq_rx[c], m_freq_tx[c] >> ELSE @]

handle_write(c) ==
  /\ HandlingOpen
  /\ session[c] = "writing"
  /\ message_callback(c)
  /\ start(c)
  /\ UNCHANGED << svars, worker, accepting, server_timer, count, m_freq_rx, m_freq_tx,
                  newFreq, asked_tx >>

handle_write_error(c) ==
  /\ HandlingOpen
  /\ session[c] = "writing"
  /\ message_callback(c)
  /\ Drop(c)
  /\ UNCHANGED << svars, worker, accepting, server_timer, m_freq_rx, m_freq_tx, newFreq,
                  asked_tx >>

\* handle_read and handle_write once the flag is set, whatever their outcome.
handle_stopping(c) ==
  /\ Handling
  /\ m_exit_requested
  /\ session[c] \in {"reading", "writing"}
  /\ StopIo

--------------------------------------------------------------------------------
Next ==
  \/ threadTransferDeInit \/ Join \/ Restart
  \/ StartServer \/ OutOfWork
  \/ server_handle_timeout \/ handle_accept_error
  \/ \E c \in Clients :
       \/ handle_accept(c)
       \/ handle_timeout(c) \/ handle_timeout_aborted(c)
       \/ \E cmd \in Commands : handle_read(c, cmd)
       \/ handle_read_error(c)
       \/ handle_write(c) \/ handle_write_error(c)
       \/ handle_stopping(c)

Spec == Init /\ [][Next]_vars

\* The threads are scheduled and the timers run out.  Clients may come, send and
\* go, or do nothing for ever.
FairSpec ==
  /\ Spec
  /\ WF_vars(StartServer) /\ WF_vars(OutOfWork) /\ WF_vars(Join)
  /\ WF_vars(server_handle_timeout)
  /\ \A c \in Clients : WF_vars(handle_timeout(c)) /\ WF_vars(handle_timeout_aborted(c))

--------------------------------------------------------------------------------
\* Properties.

Pairs == (Freqs \cup {0}) \X (Freqs \cup {0})

TypeOK ==
  /\ m_sourceType \in {"GPREDICT", "GSJD"}
  /\ m_exit_requested \in BOOLEAN
  /\ graph \in {"running", "stopping", "stopped"}
  /\ worker \in {"start", "running", "done"}
  /\ accepting \in BOOLEAN
  /\ server_timer \in BOOLEAN
  /\ count \in Nat
  /\ session \in [Clients -> {"free", "reading", "writing", "deaf"}]
  /\ timer \in [Clients -> BOOLEAN]
  /\ aborted \in [Clients -> BOOLEAN]
  /\ m_freq_rx \in [Clients -> Freqs \cup {0}]
  /\ m_freq_tx \in [Clients -> Freqs \cup {0}]
  /\ newFreq \in [Clients -> BOOLEAN]
  /\ shown \in [Clients -> Pairs]
  /\ asked_tx \in [Clients -> Freqs \cup {0}]

\* The server's count is the number of sessions that were not deleted, over all
\* accepts, errors and deletions: the session that an unknown command has made
\* deaf counts for ever.
CountExact == count = Cardinality({ c \in Clients : session[c] # "free" })

\* Every change of a session's frequencies is published before the session
\* reads its next command.
ChangesAreShown ==
  \A c \in Clients :
    session[c] \in {"reading", "deaf"} => shown[c] = << m_freq_rx[c], m_freq_tx[c] >>

\* Some timer that is still to run out will test the exit flag.
Watched ==
  \/ worker # "running"
  \/ server_timer /\ count = 0
  \/ \E c \in Clients : timer[c]

\* stop() returns if, when it is called, a timer is left that tests the flag.
StopReturnsIfWatched == graph = "stopping" /\ Watched ~> graph = "stopped"

\* The flag is tested for ever (gs_doppler_correction_impl.cc:304): stop() returns.
StopReturns == graph = "stopping" ~> graph = "stopped"

\* GSJD sets both directions (README.md:58): a session that waits for its next
\* command has applied the TX frequency it acknowledged last.
TxIsApplied == \A c \in Clients : session[c] = "reading" => m_freq_tx[c] = asked_tx[c]
================================================================================
