------------------------- MODULE UsrpGainControlProofs -------------------------
(* UsrpGainControl never loses the request to lower a raised gain.             *)
EXTENDS UsrpGainControl, TLAPS

IInv == TypeOK /\ OnIsTimed

LEMMA InitInv == Init => IInv
  BY GainAssumption DEF Init, IInv, TypeOK, OnIsTimed

\* A command leaves what was sent and what was received in their types.
LEMMA CommandTyped ==
  ASSUME TypeOK, NEW gain \in OnGains \cup OffGains, send_uhd_usrp_cmd(gain)
  PROVE  /\ sent' = gain
         /\ sent' \in OnGains \cup OffGains \cup {NoGain}
         /\ radio' \in OnGains \cup OffGains \cup {NoGain}
  BY DEF TypeOK, send_uhd_usrp_cmd

LEMMA NextInv == IInv /\ [Next]_vars => IInv'
<1> SUFFICES ASSUME IInv, [Next]_vars PROVE IInv'
  OBVIOUS
<1>1. CASE Trigger
  <2>1. m_gain_on \in OnGains \cup OffGains /\ send_uhd_usrp_cmd(m_gain_on)
    BY <1>1 DEF Trigger, IInv, TypeOK
  <2>2. TypeOK'
    BY <1>1, <2>1, CommandTyped DEF Trigger, IInv, TypeOK
  <2>3. OnIsTimed'
    BY <1>1 DEF Trigger, OnIsTimed
  <2>4. QED
    BY <2>2, <2>3 DEF IInv
<1>2. CASE RequestDelay
  BY <1>2 DEF RequestDelay, IInv, TypeOK, OnIsTimed
<1>3. ASSUME NEW gain \in OnGains, set_gain_on(gain) PROVE IInv'
  BY <1>3 DEF set_gain_on, IInv, TypeOK, OnIsTimed
<1>4. ASSUME NEW gain \in OffGains, set_gain_off(gain) PROVE IInv'
  BY <1>4 DEF set_gain_off, IInv, TypeOK, OnIsTimed
<1>5. CASE StartGraph
  BY <1>5 DEF StartGraph, IInv, TypeOK, OnIsTimed
<1>6. CASE threadDeInit
  BY <1>6 DEF threadDeInit, IInv, TypeOK, OnIsTimed
<1>7. CASE Join
  BY <1>7 DEF Join, IInv, TypeOK, OnIsTimed
<1>8. CASE SendOffAtStart \/ SendOff
  <2>1. m_gain_off \in OffGains /\ send_uhd_usrp_cmd(m_gain_off)
    BY <1>8 DEF SendOffAtStart, SendOff, IInv, TypeOK
  <2>2. TypeOK'
    BY <1>8, <2>1, CommandTyped DEF SendOffAtStart, SendOff, IInv, TypeOK
  <2>3. sent' \notin OnGains
    BY <2>1, GainAssumption DEF send_uhd_usrp_cmd
  <2>4. QED
    BY <2>2, <2>3 DEF IInv, OnIsTimed
<1>9. CASE TestFlags
  BY <1>9 DEF TestFlags, IInv, TypeOK, OnIsTimed
<1>10. CASE ClearFlag
  BY <1>10 DEF ClearFlag, IInv, TypeOK, OnIsTimed
<1>11. CASE UNCHANGED vars
  BY <1>11 DEF vars, IInv, TypeOK, OnIsTimed
<1>12. QED
  BY <1>1, <1>2, <1>3, <1>4, <1>5, <1>6, <1>7, <1>8, <1>9, <1>10, <1>11 DEF Next, Worker

\* The invariant of the block, for any gains.
THEOREM Invariance == Spec => []IInv
  BY InitInv, NextInv, PTL DEF Spec

\* The variables keep their types: only gains that were set are ever sent.
THEOREM TypeCorrect == Spec => []TypeOK
<1>1. IInv => TypeOK
  BY DEF IInv
<1>2. QED
  BY <1>1, Invariance, PTL

\* Between the handler, which sends the command and sets the flag in two steps,
\* and the worker, which reads the flag without the lock, no request to lower
\* the gain is lost.
THEOREM OnIsAlwaysTimed == Spec => []OnIsTimed
<1>1. IInv => OnIsTimed
  BY DEF IInv
<1>2. QED
  BY <1>1, Invariance, PTL
================================================================================
