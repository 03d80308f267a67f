----------------------------- MODULE MainSignals -----------------------------
(* The list of subscribers of the validation events (MainSignalsImpl in      *)
(* validationinterface.cpp).  Iterate calls each subscriber with m_mutex     *)
(* released, and keeps its list entry alive meanwhile by counting itself in; *)
(* subscribers come and go at any time, from other threads or from inside a  *)
(* callback.  The list only grows at its end, so its entries are numbered in *)
(* the order in which they are made and the list is the set of live numbers. *)
EXTENDS Integers, FiniteSets

CONSTANTS
    Interface,    \* CValidationInterface objects
    Iterator,     \* threads that deliver an event (Iterate)
    MaxEntries    \* bound: list entries ever made

ASSUME MainSignalsAssumption == MaxEntries \in Nat /\ IsFiniteSet(Iterator)

Entry == 1..MaxEntries
None == 0

VARIABLES
    m_list,       \* the entries of the list
    m_map,        \* m_map[c]: the entry of interface c, None if not registered
    count,        \* count[e]: the entry's reference count
    made,         \* entries made so far
    at,           \* at[i]: the entry whose callback i is in, or None
    due           \* history: due[i], the entries registered since i began to
                  \* iterate and not called yet

listVars == <<m_list, m_map, count, made, at, due>>

ListInit ==
    /\ m_list = {} /\ m_map = [c \in Interface |-> None]
    /\ count = [e \in Entry |-> 0] /\ made = 0
    /\ at = [i \in Iterator |-> None]
    /\ due = [i \in Iterator |-> {}]

Mapped == {e \in Entry : \E c \in Interface : m_map[c] = e}
-----------------------------------------------------------------------------
\* An interface that is registered already keeps its entry.
Register(c) ==
    /\ m_map[c] = None /\ made < MaxEntries
    /\ made' = made + 1
    /\ m_list' = m_list \cup {made + 1}
    /\ m_map' = [m_map EXCEPT ![c] = made + 1]
    /\ count' = [count EXCEPT ![made + 1] = 1]
    /\ UNCHANGED <<at, due>>

\* Mutant: the entry is erased even while a callback of it runs.
MutUnregister(c) ==
    /\ m_map[c] # None
    /\ count' = [count EXCEPT ![m_map[c]] = @ - 1]
    /\ m_list' = m_list \ {m_map[c]}
    /\ m_map' = [m_map EXCEPT ![c] = None]
    /\ due' = [i \in Iterator |-> due[i] \ {m_map[c]}]
    /\ UNCHANGED <<made, at>>
Unregister(c) ==
    /\ m_map[c] # None
    /\ count' = [count EXCEPT ![m_map[c]] = @ - 1]
    /\ m_list' = IF count'[m_map[c]] = 0 THEN m_list \ {m_map[c]} ELSE m_list
    /\ m_map' = [m_map EXCEPT ![c] = None]
    /\ due' = [i \in Iterator |-> due[i] \ {m_map[c]}]
    /\ UNCHANGED <<made, at>>

Clear ==
    /\ count' = [e \in Entry |-> IF e \in Mapped THEN count[e] - 1 ELSE count[e]]
    /\ m_list' = m_list \ {e \in Mapped : count'[e] = 0}
    /\ m_map' = [c \in Interface |-> None]
    /\ due' = [i \in Iterator |-> {}]
    /\ UNCHANGED <<made, at>>

\* n is the entry after e in `list`, or None at the end of the list.
IsNext(n, e, list) ==
    IF \E f \in list : f > e
    THEN n \in list /\ n > e /\ \A f \in list : f > e => n <= f
    ELSE n = None

\* The thread goes on to entry n, and into its callback.
Visit(i, n) ==
    /\ at' = [at EXCEPT ![i] = n]
    /\ UNCHANGED <<m_map, made>>

Begin(i) ==
    \E n \in m_list :
        /\ at[i] = None
        /\ IsNext(n, None, m_list)
        /\ count' = [count EXCEPT ![n] = @ + 1]
        /\ due' = [due EXCEPT ![i] = Mapped \ {n}]
        /\ Visit(i, n) /\ UNCHANGED m_list

\* The callback has returned: the entry is let go, and the next one counted in.
Advance(i) ==
    /\ at[i] # None
    /\ m_list' = IF count[at[i]] = 1 THEN m_list \ {at[i]} ELSE m_list
    /\ \E n \in m_list' \cup {None} :
         /\ IsNext(n, at[i], m_list')
         /\ count' = [e \in Entry |-> IF e = at[i] THEN count[e] - 1
                                      ELSE IF e = n THEN count[e] + 1 ELSE count[e]]
         /\ due' = [due EXCEPT ![i] = @ \ {n}]
         /\ Visit(i, n)

ListNext ==
    \/ \E c \in Interface : Register(c) \/ Unregister(c)
    \/ Clear
    \/ \E i \in Iterator : Begin(i) \/ Advance(i)

ListSpec == ListInit /\ [][ListNext]_listVars
-----------------------------------------------------------------------------
\* The types of the variables; an interface is in the list at most once, and
\* the entries not made yet are not in use.
ListTypeOK ==
    /\ m_list \subseteq Entry /\ m_map \in [Interface -> Entry \cup {None}]
    /\ count \in [Entry -> Nat] /\ made \in 0..MaxEntries
    /\ at \in [Iterator -> Entry \cup {None}]
    /\ due \in [Iterator -> SUBSET Entry]
    /\ \A c, d \in Interface : m_map[c] = m_map[d] /\ c # d => m_map[c] = None
    /\ \A e \in m_list : e <= made

Users(e) == {i \in Iterator : at[i] = e}

\* ListEntry::count is the number of those who use the entry: the map, and every
\* thread that is in a callback of it.
CountIsExact ==
    \A e \in Entry : count[e] = (IF e \in Mapped THEN 1 ELSE 0) + Cardinality(Users(e))

\* The list holds exactly the entries in use: none is erased under a thread that
\* is in its callback or while it is registered, and none stays when it is not
\* registered and the last callback has returned.
ListIsExact ==
    m_list = Mapped \cup {e \in Entry : Users(e) # {}}

\* An Iterate passes over no subscriber that was registered when it began and
\* still is, whatever others register and unregister meanwhile.
NobodySkipped ==
    \A i \in Iterator :
        due[i] \subseteq IF at[i] = None THEN {} ELSE {f \in m_list : f > at[i]}

\* Subscribers come, go and are called at any time: nobody is called through an
\* erased entry, no entry is leaked, and nobody who stays is passed over.
SubscribersAreSafe == ListTypeOK /\ CountIsExact /\ ListIsExact /\ NobodySkipped
=============================================================================
