------------------------ MODULE CalendarStoreProofs ------------------------
(***************************************************************************)
(* Theorems about CalendarStore, for any number of requests and crashes.   *)
(***************************************************************************)
EXTENDS CalendarStore, FiniteSetTheorems, TLAPS

\* Only a running process has a binding in memory, a lock held or a request begun.
Alive == /\ ~up => memory = None /\ mu = None
         /\ \A r \in Requests : pc[r] \notin {"idle", "gone"} => up

\* The lock holder is the only one between memory and file.
Synced == up => \/ memory = file
                \/ /\ mu # None /\ pc[mu] = "publish"
                   /\ memory = None /\ file = mu

\* Where a request is says what it has written and what it has been told.
Progress == \A r \in Requests :
              /\ pc[r] = "rename" => temps[r] = r
              /\ pc[r] = "publish" => file = r
              /\ pc[r] \in {"create", "write", "rename"} => file = None
              /\ pc[r] # "gone" => told[r] = "none"
              /\ file = r => pc[r] \in {"publish", "gone"}

Inv == TypeOK /\ FileComplete /\ Alive /\ Synced /\ Progress

\* The inductive invariant.
LEMMA Inductive == Spec => []Inv
<1> USE StoreAssumption DEF StoreAssumption
<1>1. Init => Inv
  <2> SUFFICES ASSUME Init PROVE Inv
    OBVIOUS
  <2>1. TypeOK
    BY DEF Init, TypeOK, Contents, Steps
  <2>2. FileComplete /\ Alive /\ Synced /\ Progress
    BY DEF Init, FileComplete, Alive, Synced, Progress
  <2>3. QED
    BY <2>1, <2>2 DEF Inv
<1>2. Inv /\ [Next]_vars => Inv'
  <2> SUFFICES ASSUME Inv, [Next]_vars PROVE Inv'
    OBVIOUS
  <2> USE DEF Inv, TypeOK, Contents, Steps, FileComplete, Alive, Synced, Progress, Goto, Answer
  <2>1. ASSUME NEW r \in Requests, Callback(r) PROVE Inv'
    BY <2>1 DEF Callback
  <2>2. ASSUME NEW r \in Requests, Exchange(r) PROVE Inv'
    BY <2>2 DEF Exchange
  <2>3. ASSUME NEW r \in Requests, SaveLock(r) PROVE Inv'
    BY <2>3 DEF SaveLock
  <2>4. ASSUME NEW r \in Requests, Create(r) PROVE Inv'
    BY <2>4 DEF Create, Fail
  <2>5. ASSUME NEW r \in Requests, Write(r) PROVE Inv'
    BY <2>5 DEF Write, Fail
  <2>6. ASSUME NEW r \in Requests, Rename(r) PROVE Inv'
    BY <2>6 DEF Rename, Fail
  <2>7. ASSUME NEW r \in Requests, Publish(r) PROVE Inv'
    BY <2>7 DEF Publish
  <2>8. CASE Crash
    <3>1. \A r \in Requests : pc'[r] = IF pc[r] = "idle" THEN "idle" ELSE "gone"
      BY <2>8 DEF Crash
    <3>2. pc' \in [Requests -> Steps]
      BY <2>8 DEF Crash
    <3>3. TypeOK'
      <4>1. \A r \in Requests : mu' # r /\ pc'[r] \in {"idle", "gone"}
        BY <2>8, <3>1 DEF Crash
      <4>2. up' = FALSE /\ memory' = None /\ mu' = None /\ crashes' \in Nat
        BY <2>8 DEF Crash
      <4>3. UNCHANGED <<file, temps, told>>
        BY <2>8 DEF Crash
      <4>4. QED
        BY <3>2, <4>1, <4>2, <4>3
    <3>4. FileComplete' /\ Alive' /\ Synced'
      BY <2>8, <3>1 DEF Crash
    <3>5. Progress'
      BY <2>8, <3>1 DEF Crash
    <3>6. QED
      BY <3>3, <3>4, <3>5
  <2>9. CASE Restart
    BY <2>9 DEF Restart
  <2>10. CASE UNCHANGED vars
    BY <2>10 DEF vars
  <2>11. QED
    BY <2>1, <2>2, <2>3, <2>4, <2>5, <2>6, <2>7, <2>8, <2>9, <2>10 DEF Next, Step
<1>3. QED
  BY <1>1, <1>2, PTL DEF Spec

\* The variables keep their types, and the lock is held exactly by the request that
\* is inside Save.
THEOREM TypeCorrect == Spec => []TypeOK
<1>1. Inv => TypeOK
  BY DEF Inv
<1>2. QED
  BY Inductive, <1>1, PTL

\* No crash leaves a partly written file where NewStore will read it.
THEOREM FileAlwaysComplete == Spec => []FileComplete
<1>1. Inv => FileComplete
  BY DEF Inv
<1>2. QED
  BY Inductive, <1>1, PTL

\* A reader of the running process sees what a restart would load.
THEOREM ReadersSeeTheFile == Spec => []MemoryMatchesFile
<1>1. Inv => MemoryMatchesFile
  BY DEF Inv, Synced, MemoryMatchesFile
<1>2. QED
  BY Inductive, <1>1, PTL

\* However many browsers link at once and wherever the process dies, one binding is
\* established at most, it never changes, and nobody is told otherwise.
THEOREM ImplementsOneTimeBinding == Spec => BindingSpec
<1> USE StoreAssumption DEF StoreAssumption
<1>1. Init => Binding!BInit
  BY DEF Init, Binding!BInit
<1>2. Inv /\ [Next]_vars
        => [\E r \in Requests : Binding!Bind(r) \/ Binding!Tell(r)]_(Binding!bvars)
  <2> SUFFICES ASSUME Inv, [Next]_vars
               PROVE  \/ \E r \in Requests : Binding!Bind(r) \/ Binding!Tell(r)
                      \/ UNCHANGED <<file, told>>
    BY DEF Binding!bvars
  <2> USE DEF Inv, TypeOK, Goto
  <2>1. ASSUME NEW r \in Requests, NEW a \in {"linked", "conflict", "failed", "rejected"},
               pc[r] # "gone", Answer(r, a), UNCHANGED file,
               a = "linked" => file = r,
               a = "conflict" => file # None,
               a \in {"failed", "rejected"} => file # r
        PROVE  Binding!Tell(r)
    BY <2>1 DEF Progress, Answer, Binding!Tell, Binding!Answers
  <2>2. ASSUME NEW r \in Requests, Callback(r)
        PROVE  Binding!Tell(r) \/ UNCHANGED <<file, told>>
    BY <2>1, <2>2 DEF Callback, Synced, Progress
  <2>3. ASSUME NEW r \in Requests, Exchange(r)
        PROVE  Binding!Tell(r) \/ UNCHANGED <<file, told>>
    BY <2>1, <2>3 DEF Exchange, Progress
  <2>4. ASSUME NEW r \in Requests, SaveLock(r)
        PROVE  Binding!Tell(r) \/ UNCHANGED <<file, told>>
    BY <2>1, <2>4 DEF SaveLock, Alive, Synced
  <2>5. ASSUME NEW r \in Requests, Create(r) \/ Write(r)
        PROVE  Binding!Tell(r) \/ UNCHANGED <<file, told>>
    BY <2>1, <2>5 DEF Create, Write, Fail, Progress
  <2>6. ASSUME NEW r \in Requests, Rename(r)
        PROVE  Binding!Bind(r) \/ Binding!Tell(r)
    BY <2>1, <2>6 DEF Rename, Fail, Progress, Binding!Bind
  <2>7. ASSUME NEW r \in Requests, Publish(r)
        PROVE  Binding!Tell(r)
    BY <2>1, <2>7 DEF Publish, Progress
  <2>8. CASE Crash \/ Restart \/ UNCHANGED vars
    BY <2>8 DEF Crash, Restart, vars
  <2>9. QED
    BY <2>2, <2>3, <2>4, <2>5, <2>6, <2>7, <2>8 DEF Next, Step
<1>3. QED
  BY Inductive, <1>1, <1>2, PTL DEF Spec, BindingSpec, Binding!BSpec

\* The temporary files nobody is writing: each was left behind by a crash.
Leftovers == {r \in Requests : temps[r] # None /\ mu # r}

LeftByCrash == /\ IsFiniteSet(Leftovers) /\ Cardinality(Leftovers) <= crashes
               /\ \A r \in Requests : pc[r] = "publish" => temps[r] = None

LEMMA LeftoversShrink ==
  ASSUME TypeOK, LeftByCrash, Leftovers' \subseteq Leftovers, crashes' = crashes
  PROVE  IsFiniteSet(Leftovers') /\ Cardinality(Leftovers') <= crashes'
<1>1. IsFiniteSet(Leftovers') /\ Cardinality(Leftovers') <= Cardinality(Leftovers)
  BY FS_Subset DEF LeftByCrash
<1>2. /\ Cardinality(Leftovers) \in Nat /\ Cardinality(Leftovers') \in Nat
      /\ Cardinality(Leftovers) <= crashes /\ crashes \in Nat
  BY <1>1, FS_CardinalityType DEF LeftByCrash, TypeOK
<1>3. QED
  BY <1>1, <1>2

\* A step inside Save leaves the other requests alone, and its own file only with the lock.
LEMMA SaveStep ==
  ASSUME temps \in [Requests -> Contents], pc \in [Requests -> Steps], LeftByCrash,
         NEW r \in Requests, mu = r, Create(r) \/ Write(r) \/ Rename(r) \/ Publish(r)
  PROVE  /\ crashes' = crashes
         /\ \A q \in Requests \ {r} : temps'[q] = temps[q] /\ pc'[q] = pc[q]
         /\ pc'[r] = "publish" => temps'[r] = None
         /\ mu' = r \/ (mu' = None /\ temps'[r] = None)
<1> USE DEF Goto, Answer, Fail
<1>1. CASE Create(r)
  BY <1>1 DEF Create
<1>2. CASE Write(r)
  BY <1>2 DEF Write
<1>3. CASE Rename(r)
  BY <1>3 DEF Rename
<1>4. CASE Publish(r)
  BY <1>4 DEF Publish, LeftByCrash
<1>5. QED
  BY <1>1, <1>2, <1>3, <1>4

\* Temporary files do not pile up: every error return removes its own, so that one is
\* left per crash at most, and one more belongs to the Save under way.
THEOREM TempsStayBounded == Spec => []TempsBounded
<1> USE StoreAssumption DEF StoreAssumption
<1>1. Init => LeftByCrash
  <2> SUFFICES ASSUME Init PROVE LeftByCrash
    OBVIOUS
  <2>1. Leftovers = {}
    BY DEF Init, Leftovers
  <2>2. QED
    BY <2>1, FS_EmptySet DEF Init, LeftByCrash
<1>2. Inv /\ LeftByCrash /\ [Next]_vars => LeftByCrash'
  <2> SUFFICES ASSUME Inv, LeftByCrash, [Next]_vars PROVE LeftByCrash'
    OBVIOUS
  <2> USE DEF Inv, TypeOK, Goto, Answer
  <2>1. ASSUME NEW r \in Requests, Callback(r) \/ Exchange(r) \/ SaveLock(r) PROVE LeftByCrash'
    <3>1. temps' = temps /\ crashes' = crashes
      BY <2>1 DEF Callback, Exchange, SaveLock
    <3>2. mu' = mu \/ mu = None
      BY <2>1 DEF Callback, Exchange, SaveLock
    <3>3. \A q \in Requests : pc'[q] = "publish" => pc[q] = "publish"
      <4>1. \E step \in Steps \ {"publish"} : pc' = [pc EXCEPT ![r] = step]
        BY <2>1 DEF Callback, Exchange, SaveLock, Steps
      <4>2. QED
        BY <4>1
    <3>4. Leftovers' \subseteq Leftovers
      BY <3>1, <3>2 DEF Leftovers
    <3>5. QED
      BY <3>1, <3>3, <3>4, LeftoversShrink DEF LeftByCrash
  <2>2. ASSUME NEW r \in Requests, Create(r) \/ Write(r) \/ Rename(r) \/ Publish(r)
        PROVE  LeftByCrash'
    <3>1. mu = r
      BY <2>2 DEF Create, Write, Rename, Publish
    <3>2. /\ crashes' = crashes
          /\ \A q \in Requests \ {r} : temps'[q] = temps[q] /\ pc'[q] = pc[q]
          /\ pc'[r] = "publish" => temps'[r] = None
          /\ mu' = r \/ (mu' = None /\ temps'[r] = None)
      BY <2>2, <3>1, SaveStep
    <3>3. Leftovers' \subseteq Leftovers
      BY <3>1, <3>2 DEF Leftovers
    <3>4. QED
      BY <3>2, <3>3, LeftoversShrink DEF LeftByCrash
  <2>3. CASE Crash
    <3>1. /\ crashes' = crashes + 1 /\ temps' = temps
          /\ \A q \in Requests : pc'[q] # "publish"
      BY <2>3 DEF Crash
    <3>2. IsFiniteSet(Leftovers \cup {mu}) /\ Cardinality(Leftovers \cup {mu}) <= crashes + 1
      <4>1. IsFiniteSet(Leftovers) /\ Cardinality(Leftovers) \in Nat /\ Cardinality(Leftovers) <= crashes
        BY FS_CardinalityType DEF LeftByCrash
      <4>2. /\ IsFiniteSet(Leftovers \cup {mu})
            /\ Cardinality(Leftovers \cup {mu}) \in {Cardinality(Leftovers), Cardinality(Leftovers) + 1}
        BY <4>1, FS_AddElement
      <4>3. QED
        BY <4>1, <4>2
    <3>3. Leftovers' \subseteq Leftovers \cup {mu}
      BY <2>3 DEF Crash, Leftovers
    <3>4. IsFiniteSet(Leftovers') /\ Cardinality(Leftovers') <= Cardinality(Leftovers \cup {mu})
      BY <3>2, <3>3, FS_Subset
    <3>5. Cardinality(Leftovers') \in Nat /\ Cardinality(Leftovers \cup {mu}) \in Nat
      BY <3>2, <3>4, FS_CardinalityType
    <3>6. QED
      BY <3>1, <3>2, <3>4, <3>5 DEF LeftByCrash
  <2>4. CASE Restart \/ UNCHANGED vars
    <3>1. UNCHANGED <<temps, mu, pc, crashes>>
      BY <2>4 DEF Restart, vars
    <3>2. QED
      BY <3>1 DEF LeftByCrash, Leftovers
  <2>5. QED
    BY <2>1, <2>2, <2>3, <2>4 DEF Next, Step
<1>3. TypeOK /\ LeftByCrash => TempsBounded
  <2> SUFFICES ASSUME TypeOK, LeftByCrash PROVE TempsBounded
    OBVIOUS
  <2> DEFINE All == {r \in Requests : temps[r] # None}
  <2>1. Cardinality(Leftovers) \in Nat /\ Cardinality(Leftovers) <= crashes /\ crashes \in Nat
    BY FS_CardinalityType DEF LeftByCrash, TypeOK
  <2>2. CASE mu = None
    <3>1. All = Leftovers
      BY <2>2 DEF Leftovers
    <3>2. QED
      BY <2>1, <2>2, <3>1 DEF TempsBounded
  <2>3. CASE mu # None
    <3>1. All \subseteq Leftovers \cup {mu}
      BY DEF Leftovers
    <3>2. /\ IsFiniteSet(Leftovers \cup {mu})
          /\ Cardinality(Leftovers \cup {mu}) \in {Cardinality(Leftovers), Cardinality(Leftovers) + 1}
      BY FS_AddElement DEF LeftByCrash
    <3>3. IsFiniteSet(All) /\ Cardinality(All) <= Cardinality(Leftovers \cup {mu})
      BY <3>1, <3>2, FS_Subset
    <3>4. Cardinality(All) \in Nat
      BY <3>3, FS_CardinalityType
    <3>5. QED
      BY <2>1, <2>3, <3>2, <3>3, <3>4 DEF TempsBounded
  <2>4. QED
    BY <2>2, <2>3
<1>4. Inv => TypeOK
  BY DEF Inv
<1>5. QED
  BY Inductive, <1>1, <1>2, <1>3, <1>4, PTL DEF Spec
=============================================================================
