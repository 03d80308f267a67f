----------------------- MODULE ValidationEvents_proof -----------------------
(***************************************************************************)
(* The validation events, for any number of threads, events and            *)
(* subscribers, in three parts: the list of subscribers by itself          *)
(* (MainSignals: reference counts are exact and nobody is passed over);    *)
(* the list inside the whole, by refinement; and the queue (SignalQueue:   *)
(* callbacks run one by one and in order, and                              *)
(* SyncWithValidationInterfaceQueue waits for every callback queued before *)
(* it).                                                                    *)
(***************************************************************************)
EXTENDS ValidationEvents, FiniteSetTheorems, SequenceTheorems, TLAPS

\* The list of subscribers.

\* What stays registered is in the map.
DueIsMapped == \A i \in Iterator : due[i] \subseteq Mapped

\* The inductive invariant.
IInv == ListTypeOK /\ CountIsExact /\ ListIsExact /\ DueIsMapped /\ NobodySkipped
-----------------------------------------------------------------------------
\* Users of an entry are finitely many.
LEMMA UsersFinite ==
    ASSUME NEW e
    PROVE  IsFiniteSet(Users(e)) /\ Cardinality(Users(e)) \in Nat
PROOF
<1>1. Users(e) \subseteq Iterator BY DEF Users
<1>2. IsFiniteSet(Users(e)) BY <1>1, MainSignalsAssumption, FS_Subset
<1> QED BY <1>2, FS_CardinalityType

\* An entry without users has count 0 from them, and one with users more.
LEMMA UsersZero ==
    ASSUME NEW e
    PROVE  Cardinality(Users(e)) = 0 <=> Users(e) = {}
PROOF
BY UsersFinite, FS_EmptySet

\* The empty list of subscribers satisfies the invariant.
LEMMA InitIInv ==
    ASSUME ListInit PROVE IInv
PROOF
<1> USE MainSignalsAssumption
<1>1. ListTypeOK BY DEF ListInit, ListTypeOK, Entry, None
<1>2. Mapped = {} BY DEF ListInit, Mapped, Entry, None
<1>3. \A e \in Entry : Users(e) = {} BY DEF ListInit, Users, Entry, None
<1>4. CountIsExact
  <2>1. Cardinality({}) = 0 BY FS_EmptySet
  <2>2. \A e \in Entry : count[e] = 0 /\ e \notin Mapped /\ Cardinality(Users(e)) = 0
    BY <1>2, <1>3, <2>1 DEF ListInit
  <2> QED BY <2>2 DEF CountIsExact
<1>5. ListIsExact BY <1>2, <1>3 DEF ListInit, ListIsExact
<1>6. DueIsMapped /\ NobodySkipped BY DEF ListInit, DueIsMapped, NobodySkipped
<1> QED BY <1>1, <1>4, <1>5, <1>6 DEF IInv
-----------------------------------------------------------------------------
\* Register preserves the invariant.
LEMMA RegisterIInv ==
    ASSUME IInv, NEW c \in Interface, Register(c) PROVE IInv'
PROOF
<1> USE MainSignalsAssumption
<1> DEFINE n == made + 1
<1>0. ListTypeOK /\ CountIsExact /\ ListIsExact /\ DueIsMapped /\ NobodySkipped BY DEF IInv
<1>1. n \in Entry /\ n \notin m_list BY <1>0 DEF ListTypeOK, Register, Entry
<1>2. n \notin Mapped /\ Users(n) = {} BY <1>0, <1>1 DEF ListIsExact
<1>3. Mapped' = Mapped \cup {n}
  BY <1>0, <1>1 DEF Mapped, Register, ListTypeOK, Entry, None
<1>4. \A e : Users(e)' = Users(e) BY DEF Users, Register
<1>5. ListTypeOK'
  <2>1. \A d \in Interface : m_map[d] # n BY <1>1, <1>2 DEF Mapped
  <2>2. \A d, f \in Interface : m_map'[d] = m_map'[f] /\ d # f => m_map'[d] = None
    BY <2>1, <1>0 DEF ListTypeOK, Register
  <2>3. \A e \in m_list' : e <= made' BY <1>0, <1>1 DEF ListTypeOK, Register, Entry
  <2>4. /\ m_list' \subseteq Entry /\ m_map' \in [Interface -> Entry \cup {None}]
        /\ count' \in [Entry -> Nat] /\ made' \in 0..MaxEntries
    BY <1>0, <1>1 DEF ListTypeOK, Register
  <2> QED BY <1>0, <2>2, <2>3, <2>4 DEF ListTypeOK, Register
<1>6. CountIsExact'
  <2> SUFFICES ASSUME NEW e \in Entry
               PROVE  count'[e] = (IF e \in Mapped' THEN 1 ELSE 0) + Cardinality(Users(e)')
    BY DEF CountIsExact
  <2>1. CASE e = n
    <3>1. Cardinality(Users(e)') = 0 BY <2>1, <1>2, <1>4, FS_EmptySet
    <3>2. count'[e] = 1 BY <2>1, <1>0, <1>1 DEF Register, ListTypeOK
    <3> QED BY <3>1, <3>2, <2>1, <1>3
  <2>2. CASE e # n
    <3>1. count'[e] = count[e] BY <2>2, <1>0 DEF Register, ListTypeOK
    <3>2. e \in Mapped' <=> e \in Mapped BY <2>2, <1>3
    <3> QED BY <3>1, <3>2, <1>0, <1>4 DEF CountIsExact
  <2> QED BY <2>1, <2>2
<1>7. ListIsExact'
  BY <1>0, <1>2, <1>3, <1>4 DEF ListIsExact, Register
<1>8. DueIsMapped' BY <1>0, <1>3 DEF DueIsMapped, Register
<1>9. NobodySkipped' BY <1>0 DEF NobodySkipped, Register
<1> QED BY <1>5, <1>6, <1>7, <1>8, <1>9 DEF IInv

\* Unregister preserves the invariant.
LEMMA UnregisterIInv ==
    ASSUME IInv, NEW c \in Interface, Unregister(c) PROVE IInv'
PROOF
<1> USE MainSignalsAssumption
<1> DEFINE m == m_map[c]
<1>0. ListTypeOK /\ CountIsExact /\ ListIsExact /\ DueIsMapped /\ NobodySkipped BY DEF IInv
<1>1. m \in Entry /\ m \in Mapped BY <1>0 DEF ListTypeOK, Unregister, Mapped
<1>2. Mapped' = Mapped \ {m}
  BY <1>0, <1>1 DEF Mapped, Unregister, ListTypeOK, Entry, None
<1>3. \A e : Users(e)' = Users(e) BY DEF Users, Unregister
<1>4. count[m] = 1 + Cardinality(Users(m)) BY <1>0, <1>1 DEF CountIsExact
<1>5. count'[m] = Cardinality(Users(m)) /\ Cardinality(Users(m)) \in Nat
  BY <1>4, <1>1, <1>0, UsersFinite DEF Unregister, ListTypeOK
<1>6. m_list' = IF Users(m) = {} THEN m_list \ {m} ELSE m_list
  BY <1>5, UsersZero DEF Unregister
<1>7. ListTypeOK'
  <2>1. \A d, f \in Interface : m_map'[d] = m_map'[f] /\ d # f => m_map'[d] = None
    BY <1>0 DEF ListTypeOK, Unregister
  <2>2. count' \in [Entry -> Nat] BY <1>0, <1>1, <1>5 DEF ListTypeOK, Unregister
  <2>3. m_list' \subseteq m_list BY <1>6
  <2>4. due' \in [Iterator -> SUBSET Entry] BY <1>0 DEF ListTypeOK, Unregister
  <2> QED BY <1>0, <2>1, <2>2, <2>3, <2>4 DEF ListTypeOK, Unregister
<1>8. CountIsExact'
  <2> SUFFICES ASSUME NEW e \in Entry
               PROVE  count'[e] = (IF e \in Mapped' THEN 1 ELSE 0) + Cardinality(Users(e)')
    BY DEF CountIsExact
  <2>1. CASE e = m BY <2>1, <1>2, <1>3, <1>5
  <2>2. CASE e # m
    <3>1. count'[e] = count[e] BY <2>2, <1>0 DEF Unregister, ListTypeOK
    <3>2. e \in Mapped' <=> e \in Mapped BY <2>2, <1>2
    <3> QED BY <3>1, <3>2, <1>0, <1>3 DEF CountIsExact
  <2> QED BY <2>1, <2>2
<1>9. ListIsExact'
  <2>1. {e \in Entry : Users(e)' # {}} = {e \in Entry : Users(e) # {}} BY <1>3
  <2> QED BY <2>1, <1>0, <1>1, <1>2, <1>6 DEF ListIsExact
<1>10. DueIsMapped' BY <1>0, <1>2 DEF DueIsMapped, Unregister
<1>11. NobodySkipped'
  BY <1>0, <1>6 DEF NobodySkipped, Unregister, ListTypeOK
<1> QED BY <1>7, <1>8, <1>9, <1>10, <1>11 DEF IInv

\* Clear preserves the invariant.
LEMMA ClearIInv ==
    ASSUME IInv, Clear PROVE IInv'
PROOF
<1> USE MainSignalsAssumption
<1>0. ListTypeOK /\ CountIsExact /\ ListIsExact /\ DueIsMapped /\ NobodySkipped BY DEF IInv
<1>2. Mapped' = {} BY DEF Mapped, Clear, Entry, None
<1>3. \A e : Users(e)' = Users(e) BY DEF Users, Clear
<1>4. \A e \in Entry : count'[e] = Cardinality(Users(e)) /\ count'[e] \in Nat
  <2> SUFFICES ASSUME NEW e \in Entry
               PROVE  count'[e] = Cardinality(Users(e)) /\ count'[e] \in Nat
    OBVIOUS
  <2>1. Cardinality(Users(e)) \in Nat BY UsersFinite
  <2>2. count'[e] = IF e \in Mapped THEN count[e] - 1 ELSE count[e] BY DEF Clear
  <2>3. count[e] = (IF e \in Mapped THEN 1 ELSE 0) + Cardinality(Users(e))
    BY <1>0 DEF CountIsExact
  <2> QED BY <2>1, <2>2, <2>3
<1>5. m_list' = m_list \ {e \in Mapped : Users(e) = {}}
  <2>1. \A e \in Mapped : count'[e] = 0 <=> Users(e) = {}
    BY <1>4, UsersZero DEF Mapped
  <2> QED BY <2>1 DEF Clear
<1>7. ListTypeOK'
  <2>1. count' \in [Entry -> Nat] BY <1>4 DEF Clear
  <2>3. m_list' \subseteq m_list BY <1>5
  <2> QED BY <1>0, <2>1, <2>3 DEF ListTypeOK, Clear
<1>8. CountIsExact'
  <2>1. \A e \in Entry : Cardinality(Users(e)) \in Nat BY UsersFinite
  <2> QED BY <2>1, <1>2, <1>3, <1>4 DEF CountIsExact
<1>9. ListIsExact'
  <2>1. {e \in Entry : Users(e)' # {}} = {e \in Entry : Users(e) # {}} BY <1>3
  <2>2. m_list' = {e \in Entry : Users(e) # {}} BY <1>0, <1>5 DEF ListIsExact, Mapped
  <2> QED BY <2>1, <2>2, <1>2 DEF ListIsExact
<1>10. DueIsMapped' /\ NobodySkipped' BY DEF DueIsMapped, NobodySkipped, Clear
<1> QED BY <1>7, <1>8, <1>9, <1>10 DEF IInv

\* The start of Iterate preserves the invariant.
LEMMA BeginIInv ==
    ASSUME IInv, NEW i \in Iterator, Begin(i) PROVE IInv'
PROOF
<1> USE MainSignalsAssumption
<1>0. ListTypeOK /\ CountIsExact /\ ListIsExact /\ DueIsMapped /\ NobodySkipped BY DEF IInv
<1> PICK n \in m_list :
      /\ at[i] = None
      /\ IsNext(n, None, m_list)
      /\ count' = [count EXCEPT ![n] = @ + 1]
      /\ due' = [due EXCEPT ![i] = Mapped \ {n}]
      /\ at' = [at EXCEPT ![i] = n]
      /\ UNCHANGED <<m_list, m_map, made>>
  BY DEF Begin, Visit
<1>1. n \in Entry /\ n # None BY <1>0 DEF ListTypeOK, Entry, None
<1>2. Mapped' = Mapped /\ Mapped \subseteq m_list /\ Mapped \subseteq Entry
  BY <1>0 DEF Mapped, ListIsExact
<1>3. \A e \in Entry : Users(e)' = IF e = n THEN Users(e) \cup {i} ELSE Users(e)
  BY <1>0, <1>1 DEF Users, ListTypeOK, Entry, None
<1>4. i \notin Users(n) BY <1>1 DEF Users
<1>5. \A e \in Entry : count'[e] = IF e = n THEN count[e] + 1 ELSE count[e]
  BY <1>0 DEF ListTypeOK
<1>6. ListTypeOK'
  <2>1. count' \in [Entry -> Nat] BY <1>0, <1>1 DEF ListTypeOK
  <2>2. at' \in [Iterator -> Entry \cup {None}] BY <1>0, <1>1 DEF ListTypeOK
  <2>4. due' \in [Iterator -> SUBSET Entry] BY <1>0, <1>2 DEF ListTypeOK
  <2> QED BY <1>0, <2>1, <2>2, <2>4 DEF ListTypeOK
<1>7. CountIsExact'
  <2> SUFFICES ASSUME NEW e \in Entry
               PROVE  count'[e] = (IF e \in Mapped' THEN 1 ELSE 0) + Cardinality(Users(e)')
    BY DEF CountIsExact
  <2>1. count[e] = (IF e \in Mapped THEN 1 ELSE 0) + Cardinality(Users(e))
    BY <1>0 DEF CountIsExact
  <2>2. IsFiniteSet(Users(e)) /\ Cardinality(Users(e)) \in Nat BY UsersFinite
  <2>3. CASE e = n
    <3>1. Cardinality(Users(e) \cup {i}) = Cardinality(Users(e)) + 1
      BY <2>2, <2>3, <1>4, FS_AddElement
    <3>2. Users(e)' = Users(e) \cup {i} BY <2>3, <1>3
    <3>3. Cardinality(Users(e)') = Cardinality(Users(e)) + 1 BY <3>1, <3>2
    <3>4. count'[e] = count[e] + 1 BY <2>3, <1>5
    <3> QED BY <3>3, <3>4, <2>1, <2>2, <1>2
  <2>4. CASE e # n BY <2>1, <2>4, <1>2, <1>3, <1>5
  <2> QED BY <2>3, <2>4
<1>8. ListIsExact'
  <2>1. {e \in Entry : Users(e)' # {}} = {e \in Entry : Users(e) # {}} \cup {n}
    BY <1>1, <1>3
  <2> QED BY <2>1, <1>0, <1>2 DEF ListIsExact
<1>9. DueIsMapped' BY <1>0, <1>2 DEF DueIsMapped, ListTypeOK
<1>10. NobodySkipped'
  <2> SUFFICES ASSUME NEW j \in Iterator
               PROVE  due'[j] \subseteq
                        IF at'[j] = None THEN {} ELSE {f \in m_list' : f > at'[j]}
    BY DEF NobodySkipped
  <2>1. CASE j = i
    <3>1. \A f \in m_list : f = n \/ f > n
      BY <1>0, <1>1 DEF IsNext, ListTypeOK, Entry, None
    <3>2. due'[j] = Mapped \ {n} /\ at'[j] = n /\ m_list' = m_list
      BY <1>0, <2>1 DEF ListTypeOK
    <3> QED BY <3>1, <3>2, <1>1, <1>2
  <2>2. CASE j # i
    <3>1. due'[j] = due[j] /\ at'[j] = at[j] /\ m_list' = m_list
      BY <1>0, <2>2 DEF ListTypeOK
    <3> QED BY <3>1, <1>0 DEF NobodySkipped
  <2> QED BY <2>1, <2>2
<1> QED BY <1>6, <1>7, <1>8, <1>9, <1>10 DEF IInv

\* A step of Iterate to the next entry preserves the invariant.
LEMMA AdvanceIInv ==
    ASSUME IInv, NEW i \in Iterator, Advance(i) PROVE IInv'
PROOF
<1> USE MainSignalsAssumption
<1>0. ListTypeOK /\ CountIsExact /\ ListIsExact /\ DueIsMapped /\ NobodySkipped BY DEF IInv
<1>a. PICK a \in Entry :
      /\ a = at[i] /\ a # None
      /\ m_list' = IF count[a] = 1 THEN m_list \ {a} ELSE m_list
  BY <1>0 DEF Advance, ListTypeOK
<1>b. PICK n \in m_list' \cup {None} :
      /\ IsNext(n, a, m_list')
      /\ count' = [e \in Entry |-> IF e = a THEN count[e] - 1
                                   ELSE IF e = n THEN count[e] + 1 ELSE count[e]]
      /\ due' = [due EXCEPT ![i] = @ \ {n}]
      /\ at' = [at EXCEPT ![i] = n]
      /\ UNCHANGED <<m_map, made>>
  BY <1>a DEF Advance, Visit
<1>1. a \in Entry /\ a \in Nat /\ n \in Entry \cup {None}
  BY <1>0, <1>a, <1>b DEF ListTypeOK, Entry, None
<1>2. n # a BY <1>1, <1>b, <1>a, <1>0 DEF IsNext, ListTypeOK, Entry, None
<1>3. Mapped' = Mapped BY <1>b DEF Mapped
<1>4. \A e \in Entry : Users(e)' = IF e = a THEN Users(e) \ {i}
                                  ELSE IF e = n THEN Users(e) \cup {i} ELSE Users(e)
  BY <1>0, <1>1, <1>2, <1>a, <1>b DEF Users, ListTypeOK, Entry, None
<1>5. i \in Users(a) /\ (\A e \in Entry : e # a => i \notin Users(e)) BY <1>a DEF Users
<1>6. \A e \in Entry : count'[e] = (IF e \in Mapped THEN 1 ELSE 0) + Cardinality(Users(e)')
  <2> SUFFICES ASSUME NEW e \in Entry
               PROVE  count'[e] = (IF e \in Mapped THEN 1 ELSE 0) + Cardinality(Users(e)')
    OBVIOUS
  <2>1. count[e] = (IF e \in Mapped THEN 1 ELSE 0) + Cardinality(Users(e))
    BY <1>0 DEF CountIsExact
  <2>2. IsFiniteSet(Users(e)) /\ Cardinality(Users(e)) \in Nat BY UsersFinite
  <2>3. CASE e = a
    <3>1. Cardinality(Users(e) \ {i}) = Cardinality(Users(e)) - 1
      BY <2>2, <2>3, <1>5, FS_RemoveElement
    <3>2. count'[e] = count[e] - 1 BY <2>3, <1>b
    <3>3. Users(e)' = Users(e) \ {i} BY <2>3, <1>4
    <3>4. Cardinality(Users(e)') = Cardinality(Users(e)) - 1 BY <3>1, <3>3
    <3> QED BY <3>2, <3>4, <2>1, <2>2
  <2>4. CASE e = n
    <3>1. Cardinality(Users(e) \cup {i}) = Cardinality(Users(e)) + 1
      BY <2>2, <2>4, <1>2, <1>5, FS_AddElement
    <3>2. count'[e] = count[e] + 1 BY <2>4, <1>2, <1>b
    <3>3. Users(e)' = Users(e) \cup {i} BY <2>4, <1>2, <1>4
    <3>4. Cardinality(Users(e)') = Cardinality(Users(e)) + 1 BY <3>1, <3>3
    <3> QED BY <3>2, <3>4, <2>1, <2>2
  <2>5. CASE e # a /\ e # n BY <2>1, <2>5, <1>4, <1>b
  <2> QED BY <2>3, <2>4, <2>5
<1>7. \A e \in Entry : Cardinality(Users(e)') \in Nat
  <2>1. \A e \in Entry : Users(e)' \subseteq Iterator BY DEF Users
  <2> QED BY <2>1, FS_Subset, FS_CardinalityType
<1>8. CountIsExact' BY <1>3, <1>6 DEF CountIsExact
<1>9. count[a] = 1 <=> a \notin Mapped /\ Users(a)' = {}
  <2>1. count[a] \in Nat /\ count'[a] = count[a] - 1 BY <1>0, <1>1, <1>b DEF ListTypeOK
  <2>2. Users(a)' \subseteq Iterator BY DEF Users
  <2>3. Cardinality(Users(a)') = 0 <=> Users(a)' = {}
    BY <2>2, FS_Subset, FS_EmptySet
  <2>4. count'[a] = (IF a \in Mapped THEN 1 ELSE 0) + Cardinality(Users(a)') BY <1>1, <1>6
  <2>5. Cardinality(Users(a)') \in Nat BY <1>1, <1>7
  <2> QED BY <2>1, <2>3, <2>4, <2>5
<1>10. ListTypeOK'
  <2>1. count' \in [Entry -> Nat] BY <1>6, <1>7, <1>b
  <2>2. at' \in [Iterator -> Entry \cup {None}] BY <1>0, <1>1, <1>b DEF ListTypeOK
  <2>3. due' \in [Iterator -> SUBSET Entry] BY <1>0, <1>b DEF ListTypeOK
  <2>4. m_list' \subseteq m_list BY <1>a
  <2> QED BY <1>0, <1>b, <2>1, <2>2, <2>3, <2>4 DEF ListTypeOK
<1>11. ListIsExact'
  <2>1. n # None => n \in m_list BY <1>a, <1>b
  <2>2. \A e \in Entry : e \in m_list <=> e \in Mapped \/ Users(e) # {}
    BY <1>0 DEF ListIsExact, Mapped
  <2>3. \A e \in Entry : e \in m_list' <=> e \in Mapped \/ Users(e)' # {}
    <3> SUFFICES ASSUME NEW e \in Entry
                 PROVE  e \in m_list' <=> e \in Mapped \/ Users(e)' # {}
      OBVIOUS
    <3>1. CASE e = a
      <4>1. a \in m_list BY <2>2, <1>1, <1>5
      <4> QED BY <4>1, <3>1, <1>9, <1>a
    <3>2. CASE e # a
      <4>1. e \in m_list' <=> e \in m_list BY <3>2, <1>a
      <4>2. CASE e = n
        <5>1. e \in m_list BY <4>2, <2>1 DEF Entry, None
        <5>2. Users(e)' = Users(e) \cup {i} BY <4>2, <1>2, <1>4
        <5> QED BY <4>1, <5>1, <5>2
      <4>3. CASE e # n
        <5>1. Users(e)' = Users(e) BY <3>2, <4>3, <1>4
        <5> QED BY <4>1, <5>1, <2>2
      <4> QED BY <4>2, <4>3
    <3> QED BY <3>1, <3>2
  <2>4. m_list' \subseteq Entry BY <1>10 DEF ListTypeOK
  <2> QED BY <2>3, <2>4, <1>3 DEF ListIsExact, Mapped
<1>12. DueIsMapped' BY <1>0, <1>3, <1>b DEF DueIsMapped, ListTypeOK
<1>13. NobodySkipped'
  <2> SUFFICES ASSUME NEW j \in Iterator, NEW d \in due'[j]
               PROVE  d \in IF at'[j] = None THEN {} ELSE {f \in m_list' : f > at'[j]}
    BY DEF NobodySkipped
  <2>1. d \in due[j] /\ d \in Mapped /\ d \in Entry /\ d \in m_list'
    <3>1. d \in due[j] BY <1>0, <1>b DEF ListTypeOK
    <3>2. d \in Mapped BY <3>1, <1>0 DEF DueIsMapped
    <3> QED BY <3>1, <3>2, <1>3, <1>11 DEF ListIsExact, Mapped
  <2>2. at[j] # None /\ d > at[j] BY <1>0, <2>1 DEF NobodySkipped
  <2>3. CASE j = i
    <3>1. due'[j] = due[j] \ {n} /\ at'[j] = n /\ at[j] = a
      BY <1>0, <1>a, <1>b, <2>3 DEF ListTypeOK
    <3>2. n \in m_list' /\ n <= d /\ n # None
      BY <3>1, <2>1, <2>2, <1>b, <1>10 DEF IsNext, ListTypeOK, Entry, None
    <3>3. d > n BY <3>1, <3>2, <1>1, <2>1 DEF Entry
    <3> QED BY <3>1, <3>2, <3>3, <2>1
  <2>4. CASE j # i
    <3>1. at'[j] = at[j] BY <1>0, <1>b, <2>4 DEF ListTypeOK
    <3> QED BY <3>1, <2>1, <2>2
  <2> QED BY <2>3, <2>4
<1> QED BY <1>8, <1>10, <1>11, <1>12, <1>13 DEF IInv
-----------------------------------------------------------------------------
\* Every operation on the list preserves the invariant.
LEMMA NextIInv ==
    ASSUME IInv, [ListNext]_listVars PROVE IInv'
PROOF
<1>1. CASE UNCHANGED listVars
  <2>1. UNCHANGED <<Mapped>> BY <1>1 DEF listVars, Mapped
  <2>2. \A e : Users(e)' = Users(e) BY <1>1 DEF listVars, Users
  <2>3. ListTypeOK' BY <1>1 DEF listVars, IInv, ListTypeOK
  <2>4. CountIsExact' BY <1>1, <2>1, <2>2 DEF listVars, IInv, CountIsExact
  <2>5. ListIsExact' BY <1>1, <2>1, <2>2 DEF listVars, IInv, ListIsExact
  <2>6. DueIsMapped' /\ NobodySkipped'
    BY <1>1, <2>1 DEF listVars, IInv, DueIsMapped, NobodySkipped
  <2> QED BY <2>3, <2>4, <2>5, <2>6 DEF IInv
<1>2. CASE ListNext
  BY <1>2, RegisterIInv, UnregisterIInv, ClearIInv, BeginIInv, AdvanceIInv DEF ListNext
<1> QED BY <1>1, <1>2

\* The invariant of the list holds of every behaviour.
LEMMA SpecIInv == ListSpec => []IInv
PROOF
<1>1. ListInit => IInv BY InitIInv
<1>2. IInv /\ [ListNext]_listVars => IInv' BY NextIInv
<1> QED BY <1>1, <1>2, PTL DEF ListSpec

\* For any number of subscribers and of threads in Iterate: ListEntry::count is
\* the number of users of the entry, no entry is erased while it is registered or
\* in a callback, none is left behind after that, and Iterate calls every
\* subscriber that was registered when it began and still is.
THEOREM SubscribersAreSafeHolds == ListSpec => []SubscribersAreSafe
PROOF
<1>1. IInv => SubscribersAreSafe BY DEF IInv, SubscribersAreSafe
<1> QED BY <1>1, SpecIInv, PTL
-----------------------------------------------------------------------------
\* The list inside the whole.

\* Whatever the queue and the scheduler do, every step of the validation events
\* is a step of the list of subscribers or leaves it alone.
LEMMA EventsNextIsListNext ==
    ASSUME [EventsNext]_eventVars PROVE [ListNext]_listVars
PROOF
<1> USE EventsAssumption
<1>1. CASE UNCHANGED eventVars BY <1>1 DEF eventVars
<1>2. CASE Subscribe BY <1>2 DEF Subscribe, ListNext
<1>3. ASSUME NEW p \in Producer, EnqueueEvent(p) \/ EnqueuePromise(p) \/ EmitDirectly(p)
      PROVE  [ListNext]_listVars
  <2>1. p \in Iterator BY DEF Thread
  <2> QED BY <1>3, <2>1 DEF EnqueueEvent, EnqueuePromise, EmitDirectly, ListNext
<1>4. ASSUME NEW t \in Thread, EventStep(t) PROVE [ListNext]_listVars
  BY <1>4 DEF EventStep, DeliverEvent, DeliverNext, FunctionReturns, ListNext
<1>5. ASSUME NEW s \in Servicer, SchedulerStep(s) PROVE [ListNext]_listVars
  BY <1>5 DEF SchedulerStep
<1>6. CASE FlushStep BY <1>6 DEF FlushStep
<1>7. CASE (Tick \/ Stop) /\ UNCHANGED <<listVars, undelivered>> BY <1>7
<1> QED BY <1>1, <1>2, <1>3, <1>4, <1>5, <1>6, <1>7 DEF EventsNext

\* The validation events implement the list of subscribers.
THEOREM EventsImplementList == EventsSpec => ListSpec
PROOF
<1>1. EventsInit => ListInit BY DEF EventsInit
<1>2. [EventsNext]_eventVars => [ListNext]_listVars BY EventsNextIsListNext
<1> QED BY <1>1, <1>2, PTL DEF EventsSpec, ListSpec

\* Whichever threads deliver events, from the queue or directly, no list entry is
\* erased while it is registered or in a callback, none is left behind, and no
\* subscriber that stays is passed over.
THEOREM EventsKeepSubscribersSafe == EventsSpec => []SubscribersAreSafe
PROOF
BY EventsImplementList, SubscribersAreSafeHolds, PTL
-----------------------------------------------------------------------------
\* The queue.

Before == Len(finished) + IF m_are_callbacks_running THEN 1 ELSE 0
\* The numbers of the callbacks are where OneByOneInOrder puts them.
NumbersInOrder ==
    /\ \A i \in DOMAIN finished : finished[i] = i
    /\ \A t \in InCallback : m_are_callbacks_running /\ mine[t] = Len(finished) + 1
    /\ \A i \in DOMAIN m_callbacks_pending : m_callbacks_pending[i] = Before + i
    /\ queued = Before + Len(m_callbacks_pending)
\* m_are_callbacks_running is up when, and only when, one thread is in a callback.
OneRuns ==
    /\ m_are_callbacks_running => InCallback # {}
    /\ \A t, u \in InCallback : t = u
\* When FlushBackgroundCallbacks runs, the service threads have been joined and
\* no producer queues; when it has returned nothing is left.
ShutdownIsAlone ==
    /\ shutdown \in {"flushing", "done"} =>
         /\ \A s \in Servicer : pc[s] = "exited"
         /\ \A p \in Producer : pc[p] \in {"idle", "sync"}
    /\ shutdown # "flushing" => pc["shutdown"] = "idle"
    /\ shutdown = "done" => m_callbacks_pending = <<>>

QInv == TypeOK /\ NumbersInOrder /\ OneRuns /\ ShutdownIsAlone /\ PendingIsNoticed
-----------------------------------------------------------------------------
\* An empty queue satisfies the invariant.
LEMMA QInitQInv ==
    ASSUME Init PROVE QInv
PROOF
<1> USE SignalAssumption
<1>1. pc \in [Thread -> PcValues] /\ InCallback = {} BY DEF Init, PcValues, InCallback
<1>2. pc["shutdown"] = "idle" BY DEF Init, Thread
<1>3. TypeOK
  <2>1. m_callbacks_pending \in Seq(1..MaxCallbacks) /\ finished \in Seq(1..MaxCallbacks)
    BY EmptySeq DEF Init
  <2>2. taskQueue \in Seq({"process", "periodic"}) BY EmptySeq DEF Init
  <2>3. mine \in [Thread -> 0..MaxCallbacks] BY DEF Init
  <2>4. queued \in 0..MaxCallbacks BY DEF Init
  <2>5. /\ m_are_callbacks_running \in BOOLEAN /\ later \in BOOLEAN /\ stopRequested \in BOOLEAN
        /\ shutdown \in {"no", "stopping", "flushing", "done"}
    BY DEF Init
  <2> QED BY <1>1, <2>1, <2>2, <2>3, <2>4, <2>5 DEF TypeOK
<1>4. NumbersInOrder
  <2>1. Len(finished) = 0 /\ Len(m_callbacks_pending) = 0 /\ Before = 0
    BY DEF Init, Before
  <2>2. DOMAIN finished = {} /\ DOMAIN m_callbacks_pending = {} BY DEF Init
  <2> QED BY <1>1, <2>1, <2>2 DEF Init, NumbersInOrder
<1>5. OneRuns BY <1>1 DEF Init, OneRuns
<1>6. ShutdownIsAlone BY <1>2 DEF Init, ShutdownIsAlone
<1>7. PendingIsNoticed BY DEF Init, PendingIsNoticed
<1> QED BY <1>3, <1>4, <1>5, <1>6, <1>7 DEF QInv

\* What a thread's step to another place means for the others.
LEMMA GotoElsewhere ==
    ASSUME TypeOK, NEW t \in Thread, NEW w \in PcValues, Goto(t, w)
    PROVE  /\ pc' \in [Thread -> PcValues]
           /\ pc'[t] = w /\ \A u \in Thread : u # t => pc'[u] = pc[u]
PROOF
BY DEF TypeOK, Goto

\* notify_one moves at most one sleeping service thread besides.
LEMMA NotifyElsewhere ==
    ASSUME TypeOK, NEW t \in Thread, NEW w \in PcValues, pc[t] \notin {"wait", "wait_until", "timeout"},
           GotoAndNotify(t, w)
    PROVE  /\ pc' \in [Thread -> PcValues]
           /\ pc'[t] = w
           /\ \A u \in Thread : u # t => pc'[u] = pc[u] \/ (u \in Sleeping /\ pc'[u] = "top")
PROOF
<1>1. CASE Sleeping = {} /\ Goto(t, w) BY <1>1, GotoElsewhere
<1>2. CASE \E s \in Sleeping : pc' = [pc EXCEPT ![t] = w, ![s] = "top"]
  <2>1. PICK s \in Sleeping : pc' = [pc EXCEPT ![t] = w, ![s] = "top"] BY <1>2
  <2>2. s \in Thread /\ s # t BY DEF Sleeping, Thread
  <2>3. "top" \in PcValues BY DEF PcValues
  <2> QED BY <2>1, <2>2, <2>3 DEF TypeOK
<1> QED BY <1>1, <1>2 DEF GotoAndNotify

\* A step that leaves the client alone and moves nobody into a callback keeps
\* the numbers in order.
LEMMA SameClient ==
    ASSUME QInv, UNCHANGED <<client, queued, finished, mine>>, InCallback' = InCallback
    PROVE  NumbersInOrder' /\ OneRuns'
PROOF
BY DEF QInv, NumbersInOrder, OneRuns, client, Before

\* AddToProcessQueue preserves the invariant.
LEMMA AddQInv ==
    ASSUME QInv, Running, NEW p \in Producer, NEW w \in {"maybe", "sync_maybe"},
           AddToProcessQueue(p, w)
    PROVE  QInv'
PROOF
<1> USE SignalAssumption
<1>0. TypeOK /\ NumbersInOrder /\ OneRuns /\ ShutdownIsAlone BY DEF QInv
<1>1. p \in Thread /\ w \in PcValues /\ p # "shutdown" BY DEF Thread, PcValues
<1>2. /\ pc' \in [Thread -> PcValues]
      /\ pc'[p] = w /\ \A u \in Thread : u # p => pc'[u] = pc[u]
  BY <1>0, <1>1, GotoElsewhere DEF AddToProcessQueue
<1>3. InCallback' = InCallback BY <1>1, <1>2 DEF InCallback, AddToProcessQueue
<1>4. queued \in Nat /\ queued + 1 \in 1..MaxCallbacks BY <1>0 DEF TypeOK, AddToProcessQueue
<1>5. /\ m_callbacks_pending' \in Seq(1..MaxCallbacks)
      /\ Len(m_callbacks_pending') = Len(m_callbacks_pending) + 1
      /\ \A i \in 1..Len(m_callbacks_pending) : m_callbacks_pending'[i] = m_callbacks_pending[i]
      /\ m_callbacks_pending'[Len(m_callbacks_pending) + 1] = queued + 1
      /\ Len(m_callbacks_pending) \in Nat
      /\ DOMAIN m_callbacks_pending' = 1..Len(m_callbacks_pending')
      /\ DOMAIN m_callbacks_pending = 1..Len(m_callbacks_pending)
  BY <1>0, <1>4, AppendProperties, LenProperties DEF TypeOK, AddToProcessQueue
<1>6. TypeOK'
  <2>1. mine' \in [Thread -> 0..MaxCallbacks]
    BY <1>0, <1>1, <1>4 DEF TypeOK, AddToProcessQueue
  <2> QED BY <1>0, <1>2, <1>4, <1>5, <2>1 DEF TypeOK, AddToProcessQueue
<1>7. NumbersInOrder'
  <2>1. \A t \in InCallback : t # p BY DEF InCallback, AddToProcessQueue
  <2>2. \A t \in InCallback : mine'[t] = mine[t]
    BY <2>1, <1>0 DEF TypeOK, AddToProcessQueue, InCallback
  <2>3. Before' = Before /\ Before \in Nat
    BY <1>0, LenProperties DEF Before, AddToProcessQueue, TypeOK
  <2>4. queued' = Before' + Len(m_callbacks_pending')
    BY <1>0, <1>4, <1>5, <2>3 DEF NumbersInOrder, AddToProcessQueue
  <2>5. \A i \in DOMAIN m_callbacks_pending' : m_callbacks_pending'[i] = Before' + i
    <3> TAKE i \in DOMAIN m_callbacks_pending'
    <3>1. i \in 1..(Len(m_callbacks_pending) + 1) BY <1>5
    <3>2. CASE i \in 1..Len(m_callbacks_pending)
      BY <3>2, <1>0, <1>5, <2>3 DEF NumbersInOrder
    <3>3. CASE i = Len(m_callbacks_pending) + 1
      <4>1. queued + 1 = Before + i BY <3>3, <1>0, <1>5, <2>3 DEF NumbersInOrder
      <4> QED BY <4>1, <3>3, <1>5, <2>3
    <3> QED BY <3>1, <3>2, <3>3, <1>5
  <2>6. \A t \in InCallback' : m_are_callbacks_running' /\ mine'[t] = Len(finished') + 1
    BY <1>0, <1>3, <2>2 DEF NumbersInOrder, AddToProcessQueue
  <2>7. \A i \in DOMAIN finished' : finished'[i] = i
    BY <1>0 DEF NumbersInOrder, AddToProcessQueue
  <2> QED BY <2>4, <2>5, <2>6, <2>7 DEF NumbersInOrder
<1>8. OneRuns' BY <1>0, <1>3 DEF OneRuns, AddToProcessQueue
<1>9. ShutdownIsAlone'
  BY <1>0, <1>1, <1>2 DEF ShutdownIsAlone, AddToProcessQueue, Running, Thread
<1>10. PendingIsNoticed' BY <1>1, <1>2 DEF PendingIsNoticed
<1> QED BY <1>6, <1>7, <1>8, <1>9, <1>10 DEF QInv

\* Where the threads are after t's step, as far as the shutdown is concerned.
LEMMA ShutdownKept ==
    ASSUME QInv, NEW t \in Thread, pc[t] \notin {"idle", "exited"},
           UNCHANGED shutdown,
           UNCHANGED m_callbacks_pending \/ pc[t] # "sync",
           pc[t] = "sync" => pc'[t] = "idle",
           \A u \in Thread : u # t => pc'[u] = pc[u] \/ (u \in Sleeping /\ pc'[u] = "top")
    PROVE  ShutdownIsAlone'
PROOF
<1> USE SignalAssumption
<1>0. ShutdownIsAlone BY DEF QInv
<1>1. CASE shutdown \in {"flushing", "done"}
  <2>1. t \notin Servicer BY <1>0, <1>1 DEF ShutdownIsAlone
  <2>2. \A u \in Thread : u # t => pc'[u] = pc[u]
    BY <1>0, <1>1 DEF ShutdownIsAlone, Sleeping
  <2>3. \A s \in Servicer : s \in Thread /\ pc'[s] = "exited"
    BY <1>0, <1>1, <2>1, <2>2 DEF ShutdownIsAlone, Thread
  <2>4. \A p \in Producer : pc'[p] \in {"idle", "sync"}
    BY <1>0, <1>1, <2>2 DEF ShutdownIsAlone, Thread
  <2>5. CASE shutdown = "done"
    <3>1. pc[t] = "sync" /\ t # "shutdown" BY <1>0, <2>1, <2>5 DEF ShutdownIsAlone, Thread
    <3> QED BY <3>1, <1>0, <2>2, <2>3, <2>4, <2>5 DEF ShutdownIsAlone, Thread
  <2> QED BY <1>1, <2>3, <2>4, <2>5 DEF ShutdownIsAlone
<1>2. CASE shutdown \notin {"flushing", "done"}
  <2>1. t # "shutdown" BY <1>0, <1>2 DEF ShutdownIsAlone
  <2>2. pc'["shutdown"] = pc["shutdown"]
    BY <2>1, <1>0, <1>2 DEF Sleeping, Thread, ShutdownIsAlone
  <2> QED BY <1>0, <1>2, <2>2 DEF ShutdownIsAlone
<1> QED BY <1>1, <1>2

\* The check of MaybeScheduleProcessQueue preserves the invariant.
LEMMA MaybeQInv ==
    ASSUME QInv, NEW t \in Thread, MaybeScheduleProcessQueue(t)
    PROVE  QInv'
PROOF
<1>0. TypeOK BY DEF QInv
<1> DEFINE w == IF NeedsTask
               THEN IF pc[t] = "maybe" THEN "schedule" ELSE "sync_schedule"
               ELSE After(t)
<1>1. w \in PcValues /\ w # "callback" BY DEF After, PcValues
<1>2. pc[t] \in {"maybe", "sync_maybe"} /\ Goto(t, w) BY DEF MaybeScheduleProcessQueue
<1>3. /\ pc' \in [Thread -> PcValues]
      /\ pc'[t] = w /\ \A u \in Thread : u # t => pc'[u] = pc[u]
  <2> HIDE DEF w
  <2> QED BY <1>0, <1>1, <1>2, GotoElsewhere
<1>4. InCallback' = InCallback BY <1>1, <1>2, <1>3 DEF InCallback
<1>5. NumbersInOrder' /\ OneRuns' BY <1>4, SameClient DEF MaybeScheduleProcessQueue
<1>6. TypeOK' BY <1>0, <1>3 DEF TypeOK, MaybeScheduleProcessQueue, client
<1>7. ShutdownIsAlone'
  <2>1. UNCHANGED <<shutdown, m_callbacks_pending>> BY DEF MaybeScheduleProcessQueue, client
  <2> QED BY <1>2, <1>3, <2>1, ShutdownKept
<1>8. PendingIsNoticed'
  <2>1. CASE NeedsTask
    <3>1. pc'[t] \in {"schedule", "sync_schedule"} BY <2>1, <1>3
    <3> QED BY <3>1 DEF PendingIsNoticed
  <2>2. CASE ~NeedsTask
    BY <2>2 DEF NeedsTask, PendingIsNoticed, MaybeScheduleProcessQueue, client
  <2> QED BY <2>1, <2>2
<1> QED BY <1>5, <1>6, <1>7, <1>8 DEF QInv

\* Scheduling ProcessQueue preserves the invariant.
LEMMA ScheduleQInv ==
    ASSUME QInv, NEW t \in Thread, Schedule(t)
    PROVE  QInv'
PROOF
<1>0. TypeOK BY DEF QInv
<1>1. After(t) \in PcValues /\ After(t) # "callback" BY DEF After, PcValues
<1>2. pc[t] \in {"schedule", "sync_schedule"} BY DEF Schedule
<1>3. /\ pc' \in [Thread -> PcValues]
      /\ pc'[t] = After(t)
      /\ \A u \in Thread : u # t => pc'[u] = pc[u] \/ (u \in Sleeping /\ pc'[u] = "top")
  BY <1>0, <1>1, <1>2, NotifyElsewhere DEF Schedule
<1>4. InCallback' = InCallback BY <1>1, <1>2, <1>3 DEF InCallback, Sleeping
<1>5. NumbersInOrder' /\ OneRuns' BY <1>4, SameClient DEF Schedule
<1>6. /\ taskQueue' \in Seq({"process", "periodic"})
      /\ Len(taskQueue') \in DOMAIN taskQueue' /\ taskQueue'[Len(taskQueue')] = "process"
  BY <1>0, AppendProperties, LenProperties DEF TypeOK, Schedule
<1>7. TypeOK' BY <1>0, <1>3, <1>6 DEF TypeOK, Schedule, client
<1>8. ShutdownIsAlone'
  <2>1. UNCHANGED <<shutdown, m_callbacks_pending>> BY DEF Schedule, client
  <2> QED BY <1>2, <1>3, <2>1, ShutdownKept
<1>9. PendingIsNoticed' BY <1>6 DEF PendingIsNoticed
<1> QED BY <1>5, <1>7, <1>8, <1>9 DEF QInv

\* The return of SyncWithValidationInterfaceQueue preserves the invariant.
LEMMA SyncReturnsQInv ==
    ASSUME QInv, NEW t \in Thread, SyncReturns(t)
    PROVE  QInv'
PROOF
<1>0. TypeOK /\ PendingIsNoticed BY DEF QInv
<1>1. "idle" \in PcValues BY DEF PcValues
<1>2. pc[t] = "sync" BY DEF SyncReturns
<1>3. /\ pc' \in [Thread -> PcValues]
      /\ pc'[t] = "idle" /\ \A u \in Thread : u # t => pc'[u] = pc[u]
  BY <1>0, <1>1, GotoElsewhere DEF SyncReturns
<1>4. InCallback' = InCallback BY <1>2, <1>3 DEF InCallback
<1>5. NumbersInOrder' /\ OneRuns' BY <1>4, SameClient DEF SyncReturns
<1>6. TypeOK' BY <1>0, <1>3 DEF TypeOK, SyncReturns, client
<1>7. ShutdownIsAlone'
  <2>1. UNCHANGED <<shutdown, m_callbacks_pending>> BY DEF SyncReturns, client
  <2> QED BY <1>2, <1>3, <2>1, ShutdownKept
<1>8. PendingIsNoticed'
  <2>1. \A u \in Thread : pc[u] \in {"maybe", "schedule", "sync_maybe", "sync_schedule", "process"}
          => pc'[u] = pc[u]
    BY <1>2, <1>3
  <2> QED BY <2>1, <1>0 DEF PendingIsNoticed, SyncReturns, client
<1> QED BY <1>5, <1>6, <1>7, <1>8 DEF QInv

\* The return of a callback preserves the invariant.
LEMMA CallbackReturnsQInv ==
    ASSUME QInv, NEW t \in Thread, CallbackReturns(t)
    PROVE  QInv'
PROOF
<1> USE SignalAssumption
<1>0. TypeOK /\ NumbersInOrder /\ OneRuns BY DEF QInv
<1>1. "maybe" \in PcValues BY DEF PcValues
<1>2. pc[t] = "callback" BY DEF CallbackReturns
<1>3. /\ pc' \in [Thread -> PcValues]
      /\ pc'[t] = "maybe" /\ \A u \in Thread : u # t => pc'[u] = pc[u]
  BY <1>0, <1>1, GotoElsewhere DEF CallbackReturns
<1>4. InCallback = {t} BY <1>0, <1>2 DEF InCallback, OneRuns
<1>5. InCallback' = {} BY <1>3, <1>4 DEF InCallback
<1>6. m_are_callbacks_running /\ mine[t] = Len(finished) + 1 BY <1>0, <1>4 DEF NumbersInOrder
<1>7. Len(finished) \in Nat /\ Len(m_callbacks_pending) \in Nat
      /\ DOMAIN finished = 1..Len(finished)
  BY <1>0, LenProperties DEF TypeOK
<1>8. queued = Len(finished) + 1 + Len(m_callbacks_pending) /\ Before = Len(finished) + 1
  BY <1>0, <1>6, <1>7 DEF NumbersInOrder, Before
<1>9. mine[t] \in 1..MaxCallbacks BY <1>0, <1>6, <1>7, <1>8 DEF TypeOK
<1>10. /\ finished' \in Seq(1..MaxCallbacks) /\ Len(finished') = Len(finished) + 1
       /\ \A i \in 1..Len(finished) : finished'[i] = finished[i]
       /\ finished'[Len(finished) + 1] = Len(finished) + 1
       /\ DOMAIN finished' = 1..Len(finished')
  BY <1>0, <1>6, <1>9, AppendProperties, LenProperties DEF TypeOK, CallbackReturns
<1>11. Before' = Before
  BY <1>7, <1>8, <1>10 DEF Before, CallbackReturns
<1>12. NumbersInOrder'
  <2>1. \A i \in DOMAIN finished' : finished'[i] = i
    <3> TAKE i \in DOMAIN finished'
    <3>1. i \in 1..(Len(finished) + 1) BY <1>10
    <3>2. CASE i \in 1..Len(finished) BY <3>2, <1>0, <1>7, <1>10 DEF NumbersInOrder
    <3>3. CASE i = Len(finished) + 1 BY <3>3, <1>10
    <3> QED BY <3>1, <3>2, <3>3, <1>7
  <2> QED BY <2>1, <1>0, <1>5, <1>11 DEF NumbersInOrder, CallbackReturns
<1>13. OneRuns' BY <1>5 DEF OneRuns, CallbackReturns
<1>14. TypeOK' BY <1>0, <1>3, <1>10 DEF TypeOK, CallbackReturns
<1>15. ShutdownIsAlone'
  <2>1. UNCHANGED <<shutdown, m_callbacks_pending>> BY DEF CallbackReturns
  <2> QED BY <1>2, <1>3, <2>1, ShutdownKept
<1>16. PendingIsNoticed' BY <1>3 DEF PendingIsNoticed
<1> QED BY <1>12, <1>13, <1>14, <1>15, <1>16 DEF QInv

\* ProcessQueue taking a callback preserves the invariant.
LEMMA ProcessQueueQInv ==
    ASSUME QInv, NEW t \in Thread, pc[t] = "process", ProcessQueue(t),
           UNCHANGED <<queued, finished, taskQueue, later, stopRequested, shutdown>>
    PROVE  QInv'
PROOF
<1> USE SignalAssumption
<1>0. TypeOK /\ NumbersInOrder /\ OneRuns BY DEF QInv
<1>1. CASE NeedsTask
  <2>1. /\ m_are_callbacks_running' = TRUE
        /\ m_callbacks_pending' = Tail(m_callbacks_pending)
        /\ mine' = [mine EXCEPT ![t] = Head(m_callbacks_pending)]
        /\ Goto(t, "callback") /\ ~m_are_callbacks_running /\ m_callbacks_pending # <<>>
    BY <1>1 DEF ProcessQueue, NeedsTask
  <2>2. "callback" \in PcValues BY DEF PcValues
  <2>3. /\ pc' \in [Thread -> PcValues]
        /\ pc'[t] = "callback" /\ \A u \in Thread : u # t => pc'[u] = pc[u]
    BY <1>0, <2>1, <2>2, GotoElsewhere
  <2>4. InCallback = {} BY <1>0, <2>1 DEF NumbersInOrder
  <2>5. InCallback' = {t} BY <2>3, <2>4 DEF InCallback
  <2>6. /\ Head(m_callbacks_pending) \in 1..MaxCallbacks
        /\ Head(m_callbacks_pending) = m_callbacks_pending[1]
        /\ m_callbacks_pending' \in Seq(1..MaxCallbacks)
        /\ Len(m_callbacks_pending') = Len(m_callbacks_pending) - 1
        /\ \A i \in 1..Len(m_callbacks_pending') : m_callbacks_pending'[i] = m_callbacks_pending[i + 1]
    BY <1>0, <2>1, HeadTailProperties DEF TypeOK
  <2>7. /\ Len(m_callbacks_pending) \in Nat \ {0} /\ Len(finished) \in Nat
        /\ DOMAIN m_callbacks_pending = 1..Len(m_callbacks_pending)
        /\ DOMAIN m_callbacks_pending' = 1..Len(m_callbacks_pending')
    BY <1>0, <2>1, <2>6, LenProperties, EmptySeq DEF TypeOK
  <2>8. Before = Len(finished) /\ Before' = Len(finished) + 1
    BY <2>1, <2>7 DEF Before
  <2>9. NumbersInOrder'
    <3>1. mine'[t] = Len(finished) + 1
      <4>1. mine'[t] = m_callbacks_pending[1] BY <1>0, <2>1, <2>6 DEF TypeOK
      <4> QED BY <4>1, <1>0, <2>7, <2>8 DEF NumbersInOrder
    <3>2. \A i \in DOMAIN m_callbacks_pending' : m_callbacks_pending'[i] = Before' + i
      <4> TAKE i \in DOMAIN m_callbacks_pending'
      <4>0. i \in 1 .. (Len(m_callbacks_pending) - 1) /\ Len(m_callbacks_pending) \in Nat BY <2>6, <2>7
      <4>1. i \in Nat /\ i + 1 \in DOMAIN m_callbacks_pending
        <5>1. i \in Nat /\ i + 1 \in 1 .. Len(m_callbacks_pending) BY <4>0
        <5> QED BY <5>1, <2>7
      <4>2. m_callbacks_pending'[i] = m_callbacks_pending[i + 1]
        <5>1. i \in 1 .. Len(m_callbacks_pending') BY <2>7
        <5> QED BY <5>1, <2>6
      <4>3. m_callbacks_pending[i + 1] = Len(finished) + (i + 1)
        BY <4>1, <1>0, <2>8 DEF NumbersInOrder
      <4> QED BY <4>1, <4>2, <4>3, <2>7, <2>8
    <3>3. queued' = Before' + Len(m_callbacks_pending')
      BY <1>0, <2>6, <2>7, <2>8 DEF NumbersInOrder
    <3> QED BY <3>1, <3>2, <3>3, <1>0, <2>1, <2>5 DEF NumbersInOrder
  <2>10. OneRuns' BY <2>5 DEF OneRuns
  <2>11. TypeOK'
    <3>1. mine' \in [Thread -> 0..MaxCallbacks] BY <1>0, <2>1, <2>6 DEF TypeOK
    <3> QED BY <1>0, <2>1, <2>3, <2>6, <3>1 DEF TypeOK
  <2>12. ShutdownIsAlone' BY <2>3, ShutdownKept
  <2>13. PendingIsNoticed' BY <2>1 DEF PendingIsNoticed
  <2> QED BY <2>9, <2>10, <2>11, <2>12, <2>13 DEF QInv
<1>2. CASE ~NeedsTask
  <2>1. UNCHANGED <<client, mine>> /\ Goto(t, After(t)) BY <1>2 DEF ProcessQueue
  <2>2. After(t) \in PcValues /\ After(t) # "callback" BY DEF After, PcValues
  <2>3. /\ pc' \in [Thread -> PcValues]
        /\ pc'[t] = After(t) /\ \A u \in Thread : u # t => pc'[u] = pc[u]
    BY <1>0, <2>1, <2>2, GotoElsewhere
  <2>4. InCallback' = InCallback BY <2>2, <2>3 DEF InCallback
  <2>5. NumbersInOrder' /\ OneRuns' BY <2>1, <2>4, SameClient
  <2>6. TypeOK' BY <1>0, <2>1, <2>3 DEF TypeOK, client
  <2>7. ShutdownIsAlone' BY <2>3, ShutdownKept
  <2>8. PendingIsNoticed' BY <1>2, <2>1 DEF PendingIsNoticed, NeedsTask, client
  <2> QED BY <2>5, <2>6, <2>7, <2>8 DEF QInv
<1> QED BY <1>1, <1>2

\* Threads that will look at what is pending.
Looking == {"maybe", "schedule", "sync_maybe", "sync_schedule", "process"}

\* A step that leaves the client and the scheduled ProcessQueue tasks alone, and
\* takes no thread off its way to them.
LEMMA NoticeKept ==
    ASSUME QInv, UNCHANGED <<m_callbacks_pending, m_are_callbacks_running, shutdown>>,
           \A u \in Thread : pc[u] \in Looking => pc'[u] = pc[u],
           (\E i \in DOMAIN taskQueue : taskQueue[i] = "process") =>
             (\E i \in DOMAIN taskQueue' : taskQueue'[i] = "process")
             \/ \E u \in Thread : pc'[u] = "process"
    PROVE  PendingIsNoticed'
PROOF
<1>1. PendingIsNoticed BY DEF QInv
<1> QED BY <1>1 DEF PendingIsNoticed, Looking

\* The top of the loop of serviceQueue preserves the invariant.
LEMMA ServiceTopQInv ==
    ASSUME QInv, NEW s \in Servicer, ServiceTop(s)
    PROVE  QInv'
PROOF
<1>0. TypeOK BY DEF QInv
<1> DEFINE w == IF stopRequested THEN "exited"
               ELSE IF Empty THEN "wait"
               ELSE IF taskQueue = <<>> THEN "wait_until" ELSE "timeout"
<1>1. w \in PcValues /\ w # "callback" BY DEF PcValues
<1>2. pc[s] = "top" /\ Goto(s, w) /\ s \in Thread BY DEF ServiceTop, Thread
<1>3. /\ pc' \in [Thread -> PcValues]
      /\ pc'[s] = w /\ \A u \in Thread : u # s => pc'[u] = pc[u]
  <2> HIDE DEF w
  <2> QED BY <1>0, <1>1, <1>2, GotoElsewhere
<1>4. InCallback' = InCallback BY <1>1, <1>2, <1>3 DEF InCallback
<1>5. NumbersInOrder' /\ OneRuns' BY <1>4, SameClient DEF ServiceTop
<1>6. TypeOK' BY <1>0, <1>3 DEF TypeOK, ServiceTop, client
<1>7. UNCHANGED <<shutdown, m_callbacks_pending, m_are_callbacks_running, taskQueue>>
  BY DEF ServiceTop, client
<1>8. ShutdownIsAlone' BY <1>2, <1>3, <1>7, ShutdownKept
<1>9. PendingIsNoticed' BY <1>2, <1>3, <1>7, NoticeKept DEF Looking
<1> QED BY <1>5, <1>6, <1>8, <1>9 DEF QInv

\* serviceQueue taking a task preserves the invariant.
LEMMA TakeTaskQInv ==
    ASSUME QInv, NEW s \in Servicer, TakeTask(s)
    PROVE  QInv'
PROOF
<1>0. TypeOK BY DEF QInv
<1>1. pc[s] = "timeout" /\ s \in Thread BY DEF TakeTask, Thread
<1>2. UNCHANGED <<client, queued, finished, mine, shutdown, stopRequested>> BY DEF TakeTask
<1>3. PICK w \in {"top", "periodic", "process"} :
      /\ Goto(s, w) /\ later' \in BOOLEAN
      /\ taskQueue' \in Seq({"process", "periodic"})
      /\ \A i \in DOMAIN taskQueue : taskQueue[i] = "process" =>
           w = "process" \/ \E j \in DOMAIN taskQueue' : taskQueue'[j] = "process"
  <2>1. CASE stopRequested \/ Empty BY <2>1, <1>0 DEF TakeTask, TypeOK
  <2>2. CASE ~(stopRequested \/ Empty) /\ taskQueue = <<>>
    BY <2>2, <1>0 DEF TakeTask, TypeOK
  <2>3. CASE ~(stopRequested \/ Empty) /\ taskQueue # <<>>
    <3>1. taskQueue' = Tail(taskQueue) /\ Goto(s, Head(taskQueue)) /\ UNCHANGED later
      BY <2>3 DEF TakeTask
    <3>2. /\ Head(taskQueue) \in {"process", "periodic"} /\ Head(taskQueue) = taskQueue[1]
          /\ taskQueue' \in Seq({"process", "periodic"})
          /\ Len(taskQueue') = Len(taskQueue) - 1
          /\ \A i \in 1..Len(taskQueue') : taskQueue'[i] = taskQueue[i + 1]
      BY <1>0, <2>3, <3>1, HeadTailProperties DEF TypeOK
    <3>3. /\ DOMAIN taskQueue = 1..Len(taskQueue) /\ DOMAIN taskQueue' = 1..Len(taskQueue')
          /\ Len(taskQueue) \in Nat
      BY <1>0, <3>2, LenProperties DEF TypeOK
    <3>4. ASSUME NEW i \in DOMAIN taskQueue, taskQueue[i] = "process", i # 1
          PROVE  \E j \in DOMAIN taskQueue' : taskQueue'[j] = "process"
      <4>1. i - 1 \in 1..Len(taskQueue') /\ (i - 1) + 1 = i BY <3>2, <3>3, <3>4
      <4> QED BY <4>1, <3>2, <3>3, <3>4
    <3>5. \A i \in DOMAIN taskQueue : taskQueue[i] = "process" =>
            Head(taskQueue) = "process" \/ \E j \in DOMAIN taskQueue' : taskQueue'[j] = "process"
      BY <3>2, <3>4
    <3>6. Head(taskQueue) \in {"top", "periodic", "process"} BY <3>2
    <3> QED BY <3>1, <3>2, <3>5, <3>6, <1>0 DEF TypeOK
  <2> QED BY <2>1, <2>2, <2>3
<1>4. w \in PcValues BY DEF PcValues
<1>5. /\ pc' \in [Thread -> PcValues]
      /\ pc'[s] = w /\ \A u \in Thread : u # s => pc'[u] = pc[u]
  BY <1>0, <1>1, <1>3, <1>4, GotoElsewhere
<1>6. InCallback' = InCallback BY <1>1, <1>5 DEF InCallback
<1>7. NumbersInOrder' /\ OneRuns' BY <1>2, <1>6, SameClient
<1>8. TypeOK' BY <1>0, <1>2, <1>3, <1>5 DEF TypeOK, client
<1>9. UNCHANGED <<shutdown, m_callbacks_pending, m_are_callbacks_running>> BY <1>2 DEF client
<1>10. ShutdownIsAlone' BY <1>1, <1>5, <1>9, ShutdownKept
<1>11. PendingIsNoticed' BY <1>1, <1>3, <1>5, <1>9, NoticeKept DEF Looking
<1> QED BY <1>7, <1>8, <1>10, <1>11 DEF QInv

\* A periodic task preserves the invariant.
LEMMA RunPeriodicQInv ==
    ASSUME QInv, NEW s \in Servicer, RunPeriodic(s)
    PROVE  QInv'
PROOF
<1>0. TypeOK BY DEF QInv
<1>1. pc[s] = "periodic" /\ s \in Thread /\ "top" \in PcValues BY DEF RunPeriodic, Thread, PcValues
<1>2. /\ pc' \in [Thread -> PcValues]
      /\ pc'[s] = "top"
      /\ \A u \in Thread : u # s => pc'[u] = pc[u] \/ (u \in Sleeping /\ pc'[u] = "top")
  BY <1>0, <1>1, NotifyElsewhere DEF RunPeriodic
<1>3. InCallback' = InCallback BY <1>1, <1>2 DEF InCallback, Sleeping
<1>4. NumbersInOrder' /\ OneRuns' BY <1>3, SameClient DEF RunPeriodic
<1>5. TypeOK' BY <1>0, <1>2 DEF TypeOK, RunPeriodic, client
<1>6. UNCHANGED <<shutdown, m_callbacks_pending, m_are_callbacks_running, taskQueue>>
  BY DEF RunPeriodic, client
<1>7. ShutdownIsAlone' BY <1>1, <1>2, <1>6, ShutdownKept
<1>8. \A u \in Thread : pc[u] \in Looking => pc'[u] = pc[u]
  BY <1>1, <1>2 DEF Looking, Sleeping
<1>9. PendingIsNoticed' BY <1>6, <1>8, NoticeKept
<1> QED BY <1>4, <1>5, <1>7, <1>9 DEF QInv

\* The passing of time preserves the invariant.
LEMMA TickQInv ==
    ASSUME QInv, Tick
    PROVE  QInv'
PROOF
<1>0. TypeOK /\ ShutdownIsAlone BY DEF QInv
<1>1. pc' = [t \in Thread |-> IF pc[t] = "wait_until" THEN "timeout" ELSE pc[t]] BY DEF Tick
<1>2. pc' \in [Thread -> PcValues] BY <1>0, <1>1 DEF TypeOK, PcValues
<1>3. InCallback' = InCallback BY <1>1 DEF InCallback
<1>4. NumbersInOrder' /\ OneRuns' BY <1>3, SameClient DEF Tick
<1>5. /\ taskQueue' \in Seq({"process", "periodic"})
      /\ \A i \in DOMAIN taskQueue : i \in DOMAIN taskQueue' /\ taskQueue'[i] = taskQueue[i]
  BY <1>0, AppendProperties, LenProperties DEF TypeOK, Tick
<1>6. TypeOK' BY <1>0, <1>2, <1>5 DEF TypeOK, Tick, client
<1>7. UNCHANGED <<shutdown, m_callbacks_pending, m_are_callbacks_running>> BY DEF Tick, client
<1>8. ShutdownIsAlone' BY <1>0, <1>1, <1>7 DEF ShutdownIsAlone, Thread
<1>9. PendingIsNoticed' BY <1>1, <1>5, <1>7, NoticeKept DEF Looking
<1> QED BY <1>4, <1>6, <1>8, <1>9 DEF QInv

\* Stopping the scheduler preserves the invariant.
LEMMA StopQInv ==
    ASSUME QInv, Stop
    PROVE  QInv'
PROOF
<1> USE SignalAssumption
<1>0. TypeOK /\ ShutdownIsAlone BY DEF QInv
<1>1. pc' = [t \in Thread |-> IF t \in Sleeping THEN "top" ELSE pc[t]] BY DEF Stop
<1>2. pc' \in [Thread -> PcValues] BY <1>0, <1>1 DEF TypeOK, PcValues
<1>3. InCallback' = InCallback BY <1>1 DEF InCallback, Sleeping
<1>4. NumbersInOrder' /\ OneRuns' BY <1>3, SameClient DEF Stop
<1>5. TypeOK' BY <1>0, <1>2 DEF TypeOK, Stop, client
<1>6. ShutdownIsAlone' BY <1>0, <1>1 DEF ShutdownIsAlone, Stop, Thread, Sleeping
<1>7. PendingIsNoticed' BY DEF PendingIsNoticed, Stop
<1> QED BY <1>4, <1>5, <1>6, <1>7 DEF QInv

\* The start of FlushBackgroundCallbacks preserves the invariant.
LEMMA StartFlushQInv ==
    ASSUME QInv, StartFlush
    PROVE  QInv'
PROOF
<1> USE SignalAssumption
<1>0. TypeOK /\ ShutdownIsAlone BY DEF QInv
<1>1. "shutdown" \in Thread /\ "process" \in PcValues BY DEF Thread, PcValues
<1>2. /\ pc' \in [Thread -> PcValues] /\ pc'["shutdown"] = "process"
      /\ \A u \in Thread : u # "shutdown" => pc'[u] = pc[u]
  BY <1>0, <1>1 DEF TypeOK, StartFlush
<1>3. pc["shutdown"] = "idle" BY <1>0 DEF ShutdownIsAlone, StartFlush
<1>4. InCallback' = InCallback BY <1>2, <1>3 DEF InCallback
<1>5. NumbersInOrder' /\ OneRuns' BY <1>4, SameClient DEF StartFlush
<1>6. TypeOK' BY <1>0, <1>2 DEF TypeOK, StartFlush, client
<1>7. ShutdownIsAlone' BY <1>2 DEF ShutdownIsAlone, StartFlush, Thread
<1>8. PendingIsNoticed' BY DEF PendingIsNoticed, StartFlush
<1> QED BY <1>5, <1>6, <1>7, <1>8 DEF QInv

\* EmptyQueue preserves the invariant.
LEMMA EmptyQueueQInv ==
    ASSUME QInv, EmptyQueue
    PROVE  QInv'
PROOF
<1> USE SignalAssumption
<1>0. TypeOK /\ ShutdownIsAlone BY DEF QInv
<1>1. "shutdown" \in Thread /\ "process" \in PcValues BY DEF Thread, PcValues
<1>2. CASE pc["shutdown"] = "process" /\ ProcessQueue("shutdown")
           /\ UNCHANGED <<queued, finished, taskQueue, later, stopRequested, shutdown>>
  BY <1>1, <1>2, ProcessQueueQInv
<1>3. CASE /\ pc["shutdown"] = "idle"
           /\ IF m_callbacks_pending # <<>>
              THEN Goto("shutdown", "process") /\ UNCHANGED shutdown
              ELSE shutdown' = "done" /\ UNCHANGED pc
           /\ UNCHANGED <<client, queued, finished, taskQueue, later, stopRequested, mine>>
  <2>1. pc' \in [Thread -> PcValues] /\ \A u \in Thread : u # "shutdown" => pc'[u] = pc[u]
    BY <1>0, <1>1, <1>3, GotoElsewhere DEF TypeOK
  <2>2. pc'["shutdown"] \in {"idle", "process"}
    BY <1>0, <1>1, <1>3, GotoElsewhere
  <2>3. InCallback' = InCallback BY <2>1, <2>2, <1>3 DEF InCallback
  <2>4. NumbersInOrder' /\ OneRuns' BY <1>3, <2>3, SameClient
  <2>5. shutdown' \in {"flushing", "done"} BY <1>3 DEF EmptyQueue
  <2>6. TypeOK' BY <1>0, <1>3, <2>1, <2>5 DEF TypeOK, client
  <2>7. ShutdownIsAlone'
    <3>1. shutdown' = "done" => pc'["shutdown"] = "idle" /\ m_callbacks_pending' = <<>>
      BY <1>3 DEF EmptyQueue, client
    <3>2. \A s \in Servicer : pc'[s] = "exited"
      BY <1>0, <2>1 DEF ShutdownIsAlone, EmptyQueue, Thread
    <3>3. \A p \in Producer : pc'[p] \in {"idle", "sync"}
      BY <1>0, <2>1 DEF ShutdownIsAlone, EmptyQueue, Thread
    <3> QED BY <2>5, <3>1, <3>2, <3>3 DEF ShutdownIsAlone
  <2>8. PendingIsNoticed' BY <2>5 DEF PendingIsNoticed
  <2> QED BY <2>4, <2>6, <2>7, <2>8 DEF QInv
<1> QED BY <1>2, <1>3 DEF EmptyQueue
-----------------------------------------------------------------------------
\* Every step of the composition preserves the invariant of the queue.
LEMMA NextQInv ==
    ASSUME QInv, [EventsNext]_eventVars PROVE QInv'
PROOF
<1>1. ASSUME UNCHANGED vars PROVE QInv'
  <2>1. InCallback' = InCallback BY <1>1 DEF vars, InCallback
  <2>2. NumbersInOrder' /\ OneRuns' BY <1>1, <2>1, SameClient DEF vars
  <2>3. TypeOK' BY <1>1 DEF vars, client, QInv, TypeOK
  <2>4. ShutdownIsAlone' BY <1>1 DEF vars, client, QInv, ShutdownIsAlone
  <2>5. PendingIsNoticed' BY <1>1 DEF vars, client, QInv, PendingIsNoticed
  <2> QED BY <2>2, <2>3, <2>4, <2>5 DEF QInv
<1>2. CASE UNCHANGED eventVars BY <1>1, <1>2 DEF eventVars
<1>3. ASSUME NEW p \in Producer, EnqueueEvent(p) \/ EnqueuePromise(p) \/ EmitDirectly(p)
      PROVE  QInv'
  BY <1>1, <1>3, AddQInv DEF EnqueueEvent, EnqueuePromise, EmitDirectly
<1>4. ASSUME NEW t \in Thread, EventStep(t) PROVE QInv'
  BY <1>1, <1>4, CallbackReturnsQInv, MaybeQInv, ScheduleQInv, SyncReturnsQInv
  DEF EventStep, DeliverEvent, DeliverNext, FunctionReturns
<1>5. ASSUME NEW s \in Servicer, SchedulerStep(s) PROVE QInv'
  <2>1. s \in Thread BY DEF Thread
  <2>2. CASE RunProcessQueue(s) BY <2>1, <2>2, ProcessQueueQInv DEF RunProcessQueue
  <2> QED BY <1>5, <2>2, ServiceTopQInv, TakeTaskQInv, RunPeriodicQInv
      DEF SchedulerStep, ServiceStep
<1>6. CASE FlushStep BY <1>6, StartFlushQInv, EmptyQueueQInv DEF FlushStep
<1>7. CASE Tick \/ Stop BY <1>7, TickQInv, StopQInv
<1>8. CASE Subscribe BY <1>1, <1>8 DEF Subscribe
<1> QED BY <1>2, <1>3, <1>4, <1>5, <1>6, <1>7, <1>8 DEF EventsNext

\* The invariant of the queue holds of every behaviour of the composition.
LEMMA SpecQInv == EventsSpec => []QInv
PROOF
<1>1. EventsInit => QInv BY QInitQInv DEF EventsInit
<1>2. QInv /\ [EventsNext]_eventVars => QInv' BY NextQInv
<1> QED BY <1>1, <1>2, PTL DEF EventsSpec

\* The numbers put together are 1..queued in order.
LEMMA InOrderAsSequence ==
    ASSUME QInv PROVE OneByOneInOrder
PROOF
<1>0. TypeOK /\ NumbersInOrder /\ OneRuns BY DEF QInv
<1> DEFINE running == IF InCallback = {} THEN <<>> ELSE <<mine[CHOOSE t \in InCallback : TRUE]>>
           r == IF m_are_callbacks_running THEN 1 ELSE 0
<1>1. Cardinality(InCallback) = r
  <2>1. CASE InCallback = {}
    <3>1. ~m_are_callbacks_running BY <2>1, <1>0 DEF OneRuns
    <3> QED BY <2>1, <3>1, FS_EmptySet
  <2>2. CASE InCallback # {}
    <3>1. PICK t \in InCallback : InCallback = {t} BY <2>2, <1>0 DEF OneRuns
    <3>2. Cardinality({t}) = 1 BY FS_Singleton
    <3>3. m_are_callbacks_running BY <3>1, <1>0 DEF NumbersInOrder
    <3> QED BY <3>1, <3>2, <3>3
  <2> QED BY <2>1, <2>2
<1>2. /\ finished \in Seq(Nat) /\ m_callbacks_pending \in Seq(Nat)
      /\ Len(finished) \in Nat /\ DOMAIN finished = 1..Len(finished)
      /\ Len(m_callbacks_pending) \in Nat
      /\ DOMAIN m_callbacks_pending = 1..Len(m_callbacks_pending)
  <2>1. 1..MaxCallbacks \subseteq Nat BY SignalAssumption
  <2>2. finished \in Seq(1..MaxCallbacks) /\ m_callbacks_pending \in Seq(1..MaxCallbacks)
    BY <1>0 DEF TypeOK
  <2> QED BY <2>1, <2>2, SeqMonotonic, LenProperties
<1>3. /\ running \in Seq(Nat) /\ Len(running) = r
      /\ \A i \in 1..r : running[i] = Len(finished) + 1
  <2>1. CASE InCallback = {}
    <3>1. ~m_are_callbacks_running BY <2>1, <1>0 DEF OneRuns
    <3>2. running = <<>> /\ r = 0 BY <2>1, <3>1
    <3> HIDE DEF running, r
    <3> QED BY <3>2, EmptySeq
  <2>2. CASE InCallback # {}
    <3> DEFINE t == CHOOSE t \in InCallback : TRUE
    <3>1. t \in InCallback BY <2>2
    <3>2. m_are_callbacks_running /\ mine[t] = Len(finished) + 1
      <4> HIDE DEF t
      <4> QED BY <3>1, <1>0 DEF NumbersInOrder
    <3>3. running = <<mine[t]>> /\ r = 1 BY <2>2, <3>2
    <3> HIDE DEF running, r, t
    <3>4. running = <<Len(finished) + 1>> BY <3>2, <3>3
    <3> QED BY <3>3, <3>4, <1>2
  <2> QED BY <2>1, <2>2
<1>4. r \in {0, 1} OBVIOUS
<1>5. Before = Len(finished) + r BY DEF Before
<1> HIDE DEF running, r
<1> DEFINE fr == finished \o running
           all == fr \o m_callbacks_pending
<1>6. /\ fr \in Seq(Nat) /\ Len(fr) = Len(finished) + r
      /\ \A i \in 1..Len(fr) : fr[i] = i
  <2>1. /\ fr \in Seq(Nat) /\ Len(fr) = Len(finished) + r
        /\ \A i \in 1..(Len(finished) + r) : fr[i] =
             IF i <= Len(finished) THEN finished[i] ELSE running[i - Len(finished)]
    BY <1>2, <1>3, ConcatProperties
  <2>2. ASSUME NEW i \in 1..Len(fr) PROVE fr[i] = i
    <3> HIDE DEF fr
    <3>1. CASE i <= Len(finished)
      <4>1. fr[i] = finished[i] BY <3>1, <2>1, <2>2
      <4>2. i \in DOMAIN finished BY <3>1, <2>1, <2>2, <1>2, <1>4
      <4> QED BY <4>1, <4>2, <1>0 DEF NumbersInOrder
    <3>2. CASE ~(i <= Len(finished))
      <4>1. i = Len(finished) + 1 /\ i - Len(finished) \in 1..r BY <3>2, <2>1, <2>2, <1>2, <1>4
      <4>2. fr[i] = running[i - Len(finished)] BY <3>2, <2>1, <2>2
      <4> QED BY <4>1, <4>2, <1>2, <1>3
    <3> QED BY <3>1, <3>2
  <2> QED BY <2>1, <2>2
<1>7. /\ all \in Seq(Nat) /\ Len(all) = queued
      /\ \A i \in 1..queued : all[i] = i
  <2> HIDE DEF fr
  <2>1. /\ all \in Seq(Nat) /\ Len(all) = Len(fr) + Len(m_callbacks_pending)
        /\ \A i \in 1..(Len(fr) + Len(m_callbacks_pending)) : all[i] =
             IF i <= Len(fr) THEN fr[i] ELSE m_callbacks_pending[i - Len(fr)]
    <3>1. ASSUME NEW f \in Seq(Nat), NEW p \in Seq(Nat)
          PROVE  /\ f \o p \in Seq(Nat) /\ Len(f \o p) = Len(f) + Len(p)
                 /\ \A i \in 1..(Len(f) + Len(p)) : (f \o p)[i] =
                      IF i <= Len(f) THEN f[i] ELSE p[i - Len(f)]
      BY ConcatProperties
    <3>2. fr \in Seq(Nat) /\ m_callbacks_pending \in Seq(Nat) BY <1>2, <1>6
    <3> QED BY <3>1, <3>2, Zenon
  <2>2. queued = Len(fr) + Len(m_callbacks_pending) /\ Before = Len(fr)
    BY <1>0, <1>5, <1>6 DEF NumbersInOrder
  <2>3. ASSUME NEW i \in 1..queued PROVE all[i] = i
    <3> HIDE DEF all
    <3>1. CASE i <= Len(fr) BY <3>1, <2>1, <2>2, <1>2, <1>4, <1>6
    <3>2. CASE ~(i <= Len(fr))
      <4>1. i - Len(fr) \in 1..Len(m_callbacks_pending)
        BY <3>2, <2>2, <1>2, <1>4, <1>6
      <4>2. m_callbacks_pending[i - Len(fr)] = Len(fr) + (i - Len(fr))
        BY <4>1, <1>0, <1>2, <2>2 DEF NumbersInOrder
      <4>3. all[i] = m_callbacks_pending[i - Len(fr)] BY <3>2, <2>1, <2>2
      <4> QED BY <4>2, <4>3, <1>2, <1>4, <1>6
    <3> QED BY <3>1, <3>2
  <2> QED BY <2>1, <2>2, <2>3
<1>8. all = [i \in 1..queued |-> i]
  <2> HIDE DEF all
  <2>1. all \in [1..queued -> Nat] BY <1>7, LenProperties
  <2> QED BY <2>1, <1>7
<1> QED BY <1>1, <1>8 DEF OneByOneInOrder, r, running

\* For any number of producers, service threads and callbacks, whatever is
\* scheduled besides and whenever Shutdown comes: callbacks run one by one in the
\* order in which they were queued, pending ones are always seen to, and
\* FlushBackgroundCallbacks leaves none.
THEOREM DeliveryIsOrderedHolds == EventsSpec => []DeliveryIsOrdered
PROOF
<1>1. ASSUME QInv PROVE DeliveryIsOrdered
  <2>0. TypeOK /\ NumbersInOrder /\ OneRuns /\ ShutdownIsAlone /\ PendingIsNoticed
    BY <1>1 DEF QInv
  <2>1. OneByOneInOrder BY <1>1, InOrderAsSequence
  <2>2. NothingLostAtShutdown
    <3>1. ASSUME shutdown = "done" PROVE Len(finished) = queued
      <4>1. InCallback = {}
        BY <3>1, <2>0 DEF InCallback, ShutdownIsAlone, Thread
      <4>2. ~m_are_callbacks_running BY <4>1, <2>0 DEF OneRuns
      <4>3. m_callbacks_pending = <<>> BY <3>1, <2>0 DEF ShutdownIsAlone
      <4>4. Len(finished) \in Nat BY <2>0, LenProperties DEF TypeOK
      <4>5. Len(m_callbacks_pending) = 0 BY <4>3
      <4> QED BY <4>2, <4>4, <4>5, <2>0 DEF NumbersInOrder, Before
    <3> QED BY <3>1, <2>0 DEF NothingLostAtShutdown, ShutdownIsAlone
  <2> QED BY <2>0, <2>1, <2>2 DEF DeliveryIsOrdered
<1> QED BY <1>1, SpecQInv, PTL

\* Only the return of SyncWithValidationInterfaceQueue takes a producer from
\* "sync" to "idle".
LEMMA OnlySyncReturns ==
    ASSUME QInv, [EventsNext]_eventVars, NEW p \in Producer, pc[p] = "sync", pc'[p] = "idle"
    PROVE  SyncReturns(p)
PROOF
<1> USE SignalAssumption
<1>0. TypeOK BY DEF QInv
<1>1. p \in Thread /\ p \notin Servicer /\ p # "shutdown" BY DEF Thread
<1>2. ASSUME NEW t \in Thread, NEW w, Goto(t, w), t # p PROVE FALSE
  BY <1>0, <1>1, <1>2 DEF TypeOK, Goto
<1>3. ASSUME NEW t \in Thread, NEW w, GotoAndNotify(t, w), t # p PROVE FALSE
  <2>1. PICK s \in Sleeping : pc' = [pc EXCEPT ![t] = w, ![s] = "top"]
    BY <1>2, <1>3 DEF GotoAndNotify
  <2>2. s # p BY <1>1 DEF Sleeping
  <2> QED BY <1>0, <1>1, <1>3, <2>1, <2>2 DEF TypeOK
<1>4. ~UNCHANGED pc OBVIOUS
<1>5. ASSUME NEW q \in Producer, EnqueueEvent(q) \/ EnqueuePromise(q) \/ EmitDirectly(q)
      PROVE  FALSE
  <2>1. q \in Thread BY DEF Thread
  <2> QED BY <1>2, <1>4, <1>5, <2>1
      DEF EnqueueEvent, EnqueuePromise, EmitDirectly, AddToProcessQueue, vars
<1>6. ASSUME NEW t \in Thread, EventStep(t) PROVE SyncReturns(p)
  BY <1>2, <1>3, <1>4, <1>6
  DEF EventStep, DeliverEvent, DeliverNext, FunctionReturns, CallbackReturns,
      MaybeScheduleProcessQueue, Schedule, SyncReturns, vars
<1>7. ASSUME NEW s \in Servicer, SchedulerStep(s) PROVE FALSE
  <2>1. s \in Thread /\ s # p BY <1>1 DEF Thread
  <2> QED BY <1>2, <1>3, <1>7, <2>1
      DEF SchedulerStep, ServiceStep, ServiceTop, TakeTask, RunProcessQueue, ProcessQueue, RunPeriodic
<1>8. CASE FlushStep
  <2>1. "shutdown" \in Thread BY DEF Thread
  <2>2. CASE StartFlush BY <1>2, <1>1, <2>1, <2>2 DEF StartFlush, Goto
  <2>3. CASE EmptyQueue BY <1>2, <1>1, <1>4, <2>1, <2>3 DEF EmptyQueue, ProcessQueue
  <2> QED BY <1>8, <2>2, <2>3 DEF FlushStep
<1>9. CASE Tick BY <1>1, <1>9 DEF Tick
<1>10. CASE Stop BY <1>1, <1>10 DEF Stop, Sleeping
<1>11. CASE Subscribe \/ UNCHANGED eventVars BY <1>4, <1>11 DEF Subscribe, vars, eventVars
<1> QED BY <1>5, <1>6, <1>7, <1>8, <1>9, <1>10, <1>11 DEF EventsNext

\* For any number of threads and callbacks: when SyncWithValidationInterfaceQueue
\* returns, every callback queued before it was called has returned.
THEOREM SyncIsBarrierHolds == EventsSpec => SyncIsBarrier
PROOF
<1>1. ASSUME QInv, [EventsNext]_eventVars
      PROVE  [\A p \in Producer : pc[p] = "sync" /\ pc'[p] = "idle" =>
                \A i \in 1..mine[p] : \E k \in DOMAIN finished : finished[k] = i]_vars
  <2>1. ASSUME NEW p \in Producer, pc[p] = "sync", pc'[p] = "idle", NEW i \in 1..mine[p]
        PROVE  \E k \in DOMAIN finished : finished[k] = i
    <3>1. SyncReturns(p) BY <1>1, <2>1, OnlySyncReturns
    <3>2. PICK k \in DOMAIN finished : finished[k] = mine[p] BY <3>1 DEF SyncReturns
    <3>3. TypeOK /\ NumbersInOrder BY <1>1 DEF QInv
    <3>4. DOMAIN finished = 1..Len(finished) /\ Len(finished) \in Nat
      BY <3>3, LenProperties DEF TypeOK
    <3>5. mine[p] = k BY <3>2, <3>3 DEF NumbersInOrder
    <3>6. i \in DOMAIN finished BY <3>4, <3>5
    <3> QED BY <3>3, <3>6 DEF NumbersInOrder
  <2> QED BY <2>1
<1> QED BY <1>1, SpecQInv, PTL DEF EventsSpec, SyncIsBarrier
=============================================================================
