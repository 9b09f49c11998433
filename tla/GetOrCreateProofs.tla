-------------------------- MODULE GetOrCreateProofs --------------------------
(* What follows from GetOrCreate alone, hence holds of both its refinements. *)
EXTENDS GetOrCreate, TLAPS

\* Two keys never share a value, when values are exclusive.
Distinct ==
    Exclusive => \A j, k \in Keys : j # k /\ store[j] # None => store[j] # store[k]

\* At most one answer per key claims to have created it.
SoleCreator ==
    \A c, d \in Clients :
        /\ c # d
        /\ call[c].phase = "answered" /\ call[c].new
        /\ call[d].phase = "answered" /\ call[d].new
        => call[c].key # call[d].key

\* An answer names a key, and that key's value.
AnswersOK ==
    \A c \in Clients : call[c].phase = "answered" =>
        /\ call[c].key \in Keys
        /\ store[call[c].key] = call[c].value
        /\ call[c].value # None

Inv == TypeOK /\ Distinct /\ AnswersOK /\ SoleCreator

\* The fields of a call that the actions look at have their types.
LEMMA CallTypes ==
    ASSUME TypeOK, NEW c \in Clients
    PROVE  /\ call[c].phase \in {"idle", "pending", "answered", "failed"}
           /\ call[c].phase = "pending" => call[c].key \in Keys
  BY DEF TypeOK, Calls, Idle, Failed, Pending, Answered

\* An answer is a call.
LEMMA AnsweredTypes ==
    ASSUME NEW k \in Keys, NEW v \in Values
    PROVE  Answered(k, v, TRUE) \in Calls /\ Answered(k, v, FALSE) \in Calls
  BY DEF Calls, Answered

\* Only an answered call has an answer to agree with.
LEMMA OtherFields ==
    /\ Idle.phase = "idle" /\ Failed.phase = "failed"
    /\ \A k \in Keys : Pending(k).phase = "pending"
  BY DEF Idle, Failed, Pending

\* No call is answered before one has begun.
LEMMA InvInit == Init => Inv
  BY OtherFields DEF Init, Inv, TypeOK, Calls, Distinct, AnswersOK, SoleCreator

\* Every step keeps the answers in agreement with the store.
LEMMA InvNext ==
    ASSUME None \notin Values, Inv, [Next]_vars
    PROVE  Inv'
  <1> USE DEF Inv
  <1>1. ASSUME NEW c \in Clients,
               store' = store,
               \/ call' = [call EXCEPT ![c] = Idle]
               \/ call' = [call EXCEPT ![c] = Failed]
               \/ \E k \in Keys : call' = [call EXCEPT ![c] = Pending(k)]
        PROVE  Inv'
    <2>1. /\ \A d \in Clients \ {c} : call'[d] = call[d]
          /\ call'[c].phase # "answered"
      BY <1>1, OtherFields DEF TypeOK
    <2>2. TypeOK'
      BY <1>1 DEF TypeOK, Calls
    <2>3. Distinct' /\ AnswersOK' /\ SoleCreator'
      BY <1>1, <2>1 DEF Distinct, AnswersOK, SoleCreator
    <2> QED BY <2>2, <2>3
  <1>2. ASSUME NEW c \in Clients, Fetch(c)
        PROVE  Inv'
    <2> DEFINE k == call[c].key
               v == store[k]
    <2>1. k \in Keys /\ v \in Values /\ store' = store
      BY <1>2, CallTypes DEF Fetch, TypeOK
    <2>2. call' = [call EXCEPT ![c] = Answered(k, v, FALSE)]
      BY <1>2, CallTypes DEF Fetch
    <2>3. /\ \A d \in Clients \ {c} : call'[d] = call[d]
          /\ call'[c] = Answered(k, v, FALSE)
      BY <2>2 DEF TypeOK
    <2>4. Answered(k, v, FALSE) \in Calls
      BY <2>1, AnsweredTypes
    <2>5. TypeOK'
      BY <2>1, <2>2, <2>4 DEF TypeOK
    <2>6. /\ call'[c].phase = "answered" /\ call'[c].key = k /\ call'[c].value = v
          /\ ~call'[c].new
      BY <2>3 DEF Answered
    <2>7. Distinct' /\ AnswersOK' /\ SoleCreator'
      <3>1. v # None
        BY <1>2 DEF Fetch
      <3>2. Distinct' /\ AnswersOK'
        BY <2>1, <2>3, <2>6, <3>1 DEF Distinct, AnswersOK
      <3>3. SoleCreator'
        BY <2>3, <2>6 DEF SoleCreator
      <3> QED BY <3>2, <3>3
    <2> QED BY <2>5, <2>7
  <1>3. ASSUME NEW c \in Clients, NEW v \in Values, Create(c, v) \/ CreateUntold(c, v)
        PROVE  Inv'
    <2> DEFINE k == call[c].key
    <2>1. /\ k \in Keys /\ store[k] = None /\ v # None
          /\ store' = [store EXCEPT ![k] = v]
          /\ Exclusive => \A j \in Keys : store[j] # v
      BY <1>3, CallTypes DEF Create, CreateUntold, Available
    <2>2. store'[k] = v /\ \A j \in Keys \ {k} : store'[j] = store[j]
      BY <2>1 DEF TypeOK
    <2>3. \A d \in Clients : call[d].phase = "answered" => call[d].key # k
      BY <2>1 DEF AnswersOK
    <2>4. Distinct'
      BY <2>1, <2>2 DEF Distinct
    <2>5. CASE Create(c, v)
      <3>1. call' = [call EXCEPT ![c] = Answered(k, v, TRUE)]
        BY <2>5 DEF Create
      <3>2. Answered(k, v, TRUE) \in Calls
        BY <2>1, AnsweredTypes
      <3>3. TypeOK'
        BY <2>1, <3>1, <3>2 DEF TypeOK
      <3>4. /\ \A d \in Clients \ {c} : call'[d] = call[d]
            /\ call'[c].phase = "answered" /\ call'[c].key = k /\ call'[c].value = v
        <4>1. call'[c] = Answered(k, v, TRUE) /\ \A d \in Clients \ {c} : call'[d] = call[d]
          BY <3>1 DEF TypeOK
        <4> QED BY <4>1 DEF Answered
      <3>5. AnswersOK' /\ SoleCreator'
        BY <2>1, <2>2, <2>3, <3>4 DEF AnswersOK, SoleCreator
      <3> QED BY <2>4, <3>3, <3>5
    <2>6. CASE CreateUntold(c, v)
      <3>1. call' = [call EXCEPT ![c] = Failed]
        BY <2>6 DEF CreateUntold
      <3>2. TypeOK'
        BY <2>1, <3>1 DEF TypeOK, Calls
      <3>3. /\ \A d \in Clients \ {c} : call'[d] = call[d]
            /\ call'[c].phase # "answered"
        BY <3>1, OtherFields DEF TypeOK
      <3>4. AnswersOK' /\ SoleCreator'
        BY <2>2, <2>3, <3>3 DEF AnswersOK, SoleCreator
      <3> QED BY <2>4, <3>2, <3>4
    <2> QED BY <1>3, <2>5, <2>6
  <1>4. CASE Crash
    <2>1. store' = store /\ \A c \in Clients : call'[c] = Idle
      BY <1>4 DEF Crash
    <2>2. TypeOK'
      BY <1>4 DEF Crash, TypeOK, Calls
    <2>3. Distinct' /\ AnswersOK' /\ SoleCreator'
      BY <2>1, OtherFields DEF Distinct, AnswersOK, SoleCreator
    <2> QED BY <2>2, <2>3
  <1>5. CASE UNCHANGED vars
    BY <1>5 DEF vars, TypeOK, Distinct, AnswersOK, SoleCreator
  <1> QED
    BY <1>1, <1>2, <1>3, <1>4, <1>5 DEF Next, Begin, Refuse, Fail, Return

\* An answer is the stored value of its key, answers for one key agree, and
\* at most one of them is new.
THEOREM Agreement ==
    ASSUME None \notin Values
    PROVE  Spec => [](AnswersAgree /\ AnsweredIsStored)
  <1>1. Init => Inv
    BY InvInit
  <1>2. Inv /\ [Next]_vars => Inv'
    BY InvNext
  <1>3. Inv => AnswersAgree /\ AnsweredIsStored
    BY DEF Inv, Distinct, AnswersOK, SoleCreator, AnswersAgree, AnsweredIsStored
  <1> QED
    BY <1>1, <1>2, <1>3, PTL DEF Spec

\* A key keeps its value for good.
THEOREM Permanence ==
    ASSUME None \notin Values
    PROVE  Spec => WriteOnce
  <1>1. Init => TypeOK
    BY DEF Init, TypeOK, Calls
  <1>2. TypeOK /\ [Next]_vars => (\A k \in Keys : store[k] # None => store'[k] = store[k])
    <2> SUFFICES ASSUME TypeOK, [Next]_vars, NEW k \in Keys, store[k] # None
                 PROVE  store'[k] = store[k]
      OBVIOUS
    <2> QED
      BY DEF TypeOK, Next, vars, Begin, Refuse, Fetch, Create, Fail, CreateUntold, Return, Crash
  <1>3. Spec => []TypeOK
    <2>1. Init => Inv
      BY InvInit
    <2>2. Inv /\ [Next]_vars => Inv'
      BY InvNext
    <2>3. Inv => TypeOK
      BY DEF Inv
    <2> QED BY <2>1, <2>2, <2>3, PTL DEF Spec
  <1> QED
    BY <1>2, <1>3, PTL DEF Spec, WriteOnce
=============================================================================
