-------------------------- MODULE DopplerServerProofs --------------------------
(* DopplerServer counts its sessions exactly and publishes every change of a   *)
(* frequency, for any number of clients and any frequencies.                   *)
EXTENDS DopplerServer, FiniteSetTheorems, TLAPS

\* The sessions the server has not deleted.
Active == { c \in Clients : session[c] # "free" }

\* A session that answers a command which changed nothing has shown its pair.
AnswersAreShown ==
  \A c \in Clients :
    session[c] = "writing" /\ ~newFreq[c] => shown[c] = << m_freq_rx[c], m_freq_tx[c] >>

IInv == TypeOK /\ CountExact /\ ChangesAreShown /\ AnswersAreShown

--------------------------------------------------------------------------------
\* The count.

LEMMA ActiveFinite ==
  /\ IsFiniteSet(Active)
  /\ Cardinality(Active) \in Nat
<1>1. Active \subseteq Clients
  BY DEF Active
<1>2. IsFiniteSet(Active)
  BY <1>1, DopplerAssumption, FS_Subset
<1>3. QED
  BY <1>2, FS_CardinalityType

\* A session that changes its state without being deleted leaves the count exact.
LEMMA CountKept ==
  ASSUME TypeOK, CountExact, NEW c \in Clients, session[c] # "free", NEW s, s # "free",
         session' = [session EXCEPT ![c] = s], UNCHANGED count
  PROVE  CountExact'
<1>1. { d \in Clients : session'[d] # "free" } = { d \in Clients : session[d] # "free" }
  BY DEF TypeOK
<1>2. QED
  BY <1>1 DEF CountExact

LEMMA CountUp ==
  ASSUME TypeOK, CountExact, NEW c \in Clients, session[c] = "free",
         session' = [session EXCEPT ![c] = "reading"], count' = count + 1
  PROVE  CountExact'
<1>1. Active' = Active \cup {c}
  BY DEF Active, TypeOK
<1>2. c \notin Active
  BY DEF Active
<1>3. Cardinality(Active \cup {c}) = Cardinality(Active) + 1
  BY <1>2, ActiveFinite, FS_AddElement
<1>4. count = Cardinality(Active)
  BY DEF CountExact, Active
<1>5. count' = Cardinality(Active')
  BY <1>1, <1>3, <1>4
<1>6. QED
  BY <1>5 DEF CountExact, Active

\* The test for zero in decrement_active_connection never fails: the session
\* that is deleted is counted.
LEMMA CountDown ==
  ASSUME TypeOK, CountExact, NEW c \in Clients, session[c] # "free", Drop(c)
  PROVE  CountExact' /\ count' = count - 1
<1>1. Active' = Active \ {c}
  BY DEF Active, TypeOK, Drop, Delete
<1>2. c \in Active
  BY DEF Active
<1>3. Cardinality(Active \ {c}) = Cardinality(Active) - 1
  BY <1>2, ActiveFinite, FS_RemoveElement
<1>4. count = Cardinality(Active)
  BY DEF CountExact, Active
<1>5. Active \ {c} \subseteq Clients
  BY DEF Active
<1>6. Cardinality(Active \ {c}) \in Nat
  BY <1>5, DopplerAssumption, FS_Subset, FS_CardinalityType
<1>7. count > 0
  BY <1>3, <1>4, <1>6, ActiveFinite
<1>8. count' = count - 1
  BY <1>7 DEF Drop
<1>9. count' = Cardinality(Active')
  BY <1>1, <1>3, <1>4, <1>8
<1>10. QED
  BY <1>8, <1>9 DEF CountExact, Active

--------------------------------------------------------------------------------
\* The invariant.

LEMMA InitInv == Init => IInv
<1> SUFFICES ASSUME Init PROVE IInv
  OBVIOUS
<1>1. TypeOK
  BY DEF Init, TypeOK, Pairs
<1>2. { c \in Clients : session[c] # "free" } = {}
  BY DEF Init
<1>3. CountExact
  BY <1>2, FS_EmptySet DEF CountExact, Init
<1>4. ChangesAreShown /\ AnswersAreShown
  BY DEF Init, ChangesAreShown, AnswersAreShown
<1>5. QED
  BY <1>1, <1>3, <1>4 DEF IInv

\* The steps of the scheduler thread, of the server and of the timers.
LEMMA QuietStep ==
  ASSUME IInv, UNCHANGED << count, session, fvars >>, TypeOK'
  PROVE  IInv'
<1>1. CountExact'
  BY DEF IInv, CountExact
<1>2. ChangesAreShown' /\ AnswersAreShown'
  BY DEF IInv, ChangesAreShown, AnswersAreShown, fvars
<1>3. QED
  BY <1>1, <1>2 DEF IInv

LEMMA ThreadStep ==
  ASSUME IInv,
         \/ threadTransferDeInit \/ Join \/ Restart \/ StartServer \/ OutOfWork
         \/ server_handle_timeout \/ handle_accept_error
  PROVE  IInv'
<1>1. UNCHANGED << count, session, fvars >>
  BY DEF threadTransferDeInit, Join, Restart, StartServer, OutOfWork,
         server_handle_timeout, handle_accept_error, StopIo, vars, svars, fvars
<1>2. TypeOK'
  BY DEF IInv, TypeOK, threadTransferDeInit, Join, Restart, StartServer, OutOfWork,
         server_handle_timeout, handle_accept_error, StopIo, vars, svars, fvars
<1>3. QED
  BY <1>1, <1>2, QuietStep

LEMMA TimerStep ==
  ASSUME IInv, NEW c \in Clients,
         handle_timeout(c) \/ handle_timeout_aborted(c) \/ handle_stopping(c)
  PROVE  IInv'
<1>1. UNCHANGED << count, session, fvars >>
  BY DEF handle_timeout, handle_timeout_aborted, handle_stopping, StopIo, fvars
<1>2. TypeOK'
  BY DEF IInv, TypeOK, handle_timeout, handle_timeout_aborted, handle_stopping, StopIo,
         svars, fvars
<1>3. QED
  BY <1>1, <1>2, QuietStep

LEMMA AcceptStep ==
  ASSUME IInv, NEW c \in Clients, handle_accept(c)
  PROVE  IInv'
<1>1. TypeOK'
  BY DEF IInv, TypeOK, handle_accept, start, svars, Pairs
<1>2. CountExact'
  BY CountUp DEF IInv, handle_accept, start
<1>3. ChangesAreShown' /\ AnswersAreShown'
  BY DEF IInv, TypeOK, handle_accept, start, ChangesAreShown, AnswersAreShown
<1>4. QED
  BY <1>1, <1>2, <1>3 DEF IInv

LEMMA CommandTyped ==
  ASSUME NEW cmd \in Commands
  PROVE  cmd.rx \in Freqs \cup {NoFreq} /\ cmd.tx \in Freqs \cup {NoFreq}
  BY DEF Commands

LEMMA UpdatedTyped ==
  ASSUME NEW old \in Freqs \cup {0}, NEW freq \in Freqs \cup {NoFreq}
  PROVE  Updated(old, freq) \in Freqs \cup {0}
  BY DEF Updated

\* A command that changes a frequency marks the pair as new.
LEMMA ReadStep ==
  ASSUME IInv, NEW c \in Clients, NEW cmd \in Commands, handle_read(c, cmd)
  PROVE  IInv'
<1> DEFINE rx == IF cmd.kind = "set" THEN Updated(m_freq_rx[c], cmd.rx) ELSE m_freq_rx[c]
           tx == IF cmd.kind = "set" THEN Updated(m_freq_tx[c], cmd.tx) ELSE m_freq_tx[c]
           to == IF cmd.kind = "other" THEN "deaf" ELSE "writing"
<1>1. /\ session[c] = "reading"
      /\ m_freq_rx' = [m_freq_rx EXCEPT ![c] = rx]
      /\ m_freq_tx' = [m_freq_tx EXCEPT ![c] = tx]
      /\ newFreq' = [newFreq EXCEPT ![c] = newPair(rx, tx, c)]
      /\ session' = [session EXCEPT ![c] = to]
      /\ asked_tx' = [asked_tx EXCEPT ![c] = Updated(@, cmd.tx)]
      /\ UNCHANGED << svars, worker, accepting, server_timer, count, timer, aborted, shown >>
  BY DEF handle_read
<1>2. rx \in Freqs \cup {0} /\ tx \in Freqs \cup {0}
  BY CommandTyped, UpdatedTyped DEF IInv, TypeOK
<1>3. Updated(asked_tx[c], cmd.tx) \in Freqs \cup {0}
  BY CommandTyped, UpdatedTyped DEF IInv, TypeOK
<1>4. to \in {"deaf", "writing"} /\ (to = "deaf" => rx = m_freq_rx[c] /\ tx = m_freq_tx[c])
  OBVIOUS
<1>5. newPair(rx, tx, c) \in BOOLEAN
  BY DEF newPair
<1>6. ~newPair(rx, tx, c) => rx = m_freq_rx[c] /\ tx = m_freq_tx[c]
  BY DEF newPair
<1>7. shown[c] = << m_freq_rx[c], m_freq_tx[c] >>
  BY <1>1 DEF IInv, ChangesAreShown
<1> HIDE DEF rx, tx, to
<1>8. TypeOK'
  BY <1>1, <1>2, <1>3, <1>4, <1>5 DEF IInv, TypeOK, svars
<1>9. CountExact'
  BY <1>1, <1>4, CountKept DEF IInv
<1>10. ChangesAreShown'
  BY <1>1, <1>4, <1>7 DEF IInv, TypeOK, ChangesAreShown
<1>11. AnswersAreShown'
  BY <1>1, <1>6, <1>7 DEF IInv, TypeOK, AnswersAreShown
<1>12. QED
  BY <1>8, <1>9, <1>10, <1>11 DEF IInv

LEMMA ReadErrorStep ==
  ASSUME IInv, NEW c \in Clients, handle_read_error(c)
  PROVE  IInv'
<1>1. session[c] = "reading"
  BY DEF handle_read_error
<1>2. CountExact' /\ count' = count - 1
  BY <1>1, CountDown DEF IInv, handle_read_error
<1>3. count' \in Nat
  BY DEF handle_read_error, Drop, IInv, TypeOK
<1>4. TypeOK'
  BY <1>3 DEF IInv, TypeOK, handle_read_error, Drop, Delete, svars
<1>5. ChangesAreShown' /\ AnswersAreShown'
  BY DEF IInv, TypeOK, handle_read_error, Drop, Delete, ChangesAreShown, AnswersAreShown
<1>6. QED
  BY <1>2, <1>4, <1>5 DEF IInv

\* The callback shows the pair, or the pair is shown already.
LEMMA Shown ==
  ASSUME IInv, NEW c \in Clients, session[c] = "writing", message_callback(c)
  PROVE  /\ shown' \in [Clients -> Pairs]
         /\ shown'[c] = << m_freq_rx[c], m_freq_tx[c] >>
         /\ \A d \in Clients \ {c} : shown'[d] = shown[d]
<1>1. << m_freq_rx[c], m_freq_tx[c] >> \in Pairs
  BY DEF IInv, TypeOK, Pairs
<1>2. ~newFreq[c] => shown[c] = << m_freq_rx[c], m_freq_tx[c] >>
  BY DEF IInv, AnswersAreShown
<1>3. QED
  BY <1>1, <1>2 DEF IInv, TypeOK, message_callback

LEMMA WriteStep ==
  ASSUME IInv, NEW c \in Clients, handle_write(c)
  PROVE  IInv'
<1>1. session[c] = "writing" /\ message_callback(c)
  BY DEF handle_write
<1>2. TypeOK'
  BY <1>1, Shown DEF IInv, TypeOK, handle_write, start, svars
<1>3. CountExact'
  BY <1>1, CountKept DEF IInv, handle_write, start
<1>4. ChangesAreShown' /\ AnswersAreShown'
  BY <1>1, Shown DEF IInv, TypeOK, handle_write, start, ChangesAreShown, AnswersAreShown
<1>5. QED
  BY <1>2, <1>3, <1>4 DEF IInv

LEMMA WriteErrorStep ==
  ASSUME IInv, NEW c \in Clients, handle_write_error(c)
  PROVE  IInv'
<1>1. session[c] = "writing" /\ message_callback(c)
  BY DEF handle_write_error
<1>2. CountExact' /\ count' = count - 1
  BY <1>1, CountDown DEF IInv, handle_write_error
<1>3. count' \in Nat
  BY DEF handle_write_error, Drop, IInv, TypeOK
<1>4. TypeOK'
  BY <1>1, <1>3, Shown DEF IInv, TypeOK, handle_write_error, Drop, Delete, svars
<1>5. ChangesAreShown' /\ AnswersAreShown'
  BY <1>1, Shown DEF IInv, TypeOK, handle_write_error, Drop, Delete, ChangesAreShown,
     AnswersAreShown
<1>6. QED
  BY <1>2, <1>4, <1>5 DEF IInv

LEMMA NextInv == IInv /\ [Next]_vars => IInv'
<1> SUFFICES ASSUME IInv, [Next]_vars PROVE IInv'
  OBVIOUS
<1>1. CASE UNCHANGED vars
  <2>1. TypeOK'
    BY <1>1 DEF IInv, TypeOK, vars
  <2>2. QED
    BY <1>1, <2>1, QuietStep DEF vars, fvars
<1>2. CASE \/ threadTransferDeInit \/ Join \/ Restart \/ StartServer \/ OutOfWork
           \/ server_handle_timeout \/ handle_accept_error
  BY <1>2, ThreadStep
<1>3. ASSUME NEW c \in Clients, handle_accept(c) PROVE IInv'
  BY <1>3, AcceptStep
<1>4. ASSUME NEW c \in Clients,
             handle_timeout(c) \/ handle_timeout_aborted(c) \/ handle_stopping(c)
      PROVE  IInv'
  BY <1>4, TimerStep
<1>5. ASSUME NEW c \in Clients, NEW cmd \in Commands, handle_read(c, cmd) PROVE IInv'
  BY <1>5, ReadStep
<1>6. ASSUME NEW c \in Clients, handle_read_error(c) PROVE IInv'
  BY <1>6, ReadErrorStep
<1>7. ASSUME NEW c \in Clients, handle_write(c) PROVE IInv'
  BY <1>7, WriteStep
<1>8. ASSUME NEW c \in Clients, handle_write_error(c) PROVE IInv'
  BY <1>8, WriteErrorStep
<1>9. QED
  BY <1>1, <1>2, <1>3, <1>4, <1>5, <1>6, <1>7, <1>8 DEF Next

--------------------------------------------------------------------------------
\* The invariant of the server, for any clients and any frequencies.
THEOREM Invariance == Spec => []IInv
  BY InitInv, NextInv, PTL DEF Spec

\* The variables keep their types: only frequencies that parsed are kept.
THEOREM TypeCorrect == Spec => []TypeOK
<1>1. IInv => TypeOK
  BY DEF IInv
<1>2. QED
  BY <1>1, Invariance, PTL

\* Over all accepts, errors and deletions the count of active connections, on
\* which the timer of the server depends, is the number of sessions there are.
THEOREM CountIsExact == Spec => []CountExact
<1>1. IInv => CountExact
  BY DEF IInv
<1>2. QED
  BY <1>1, Invariance, PTL

\* No change of a frequency is left unpublished when the session reads its next
\* command, also after commands that did not parse or changed nothing.
THEOREM EveryChangeIsShown == Spec => []ChangesAreShown
<1>1. IInv => ChangesAreShown
  BY DEF IInv
<1>2. QED
  BY <1>1, Invariance, PTL
================================================================================
