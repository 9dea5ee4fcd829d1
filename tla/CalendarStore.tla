--------------------------- MODULE CalendarStore ---------------------------
(***************************************************************************)
(* internal/calendar/store.go, with the OAuth callback of                  *)
(* internal/server/server.go that calls it: concurrent requests to link    *)
(* the calendar, each of which tests IsBound, spends seconds at Google,    *)
(* and then calls Save; and crashes of the process between any two steps,  *)
(* after which NewStore reads the file again.                              *)
(*                                                                         *)
(* A binding is named by the request that obtained it; a temporary file is *)
(* named by the request that created it.  A crash kills the process, not   *)
(* the machine: what has been written to a file stays there.               *)
(***************************************************************************)
EXTENDS Naturals, FiniteSets

CONSTANTS Requests,    \* calls of the OAuth callback
          None,        \* no binding, no file, nobody
          Partial,     \* the content of a file not yet completely written
          MaxCrashes   \* bound on the crashes

ASSUME StoreAssumption == /\ None \notin Requests /\ Partial \notin Requests
                          /\ None # Partial
                          /\ MaxCrashes \in Nat

VARIABLES
  up,       \* the process runs
  memory,   \* Store.binding
  file,     \* the content of the file at Store.path
  temps,    \* the temporary files, with their contents
  mu,       \* the request that holds the write lock of Store.mu
  pc,       \* where each request is
  told,     \* the answer the handler has decided on
  crashes

vars == <<up, memory, file, temps, mu, pc, told, crashes>>

Steps == {"idle", "exchange", "save", "create", "write", "rename", "publish", "gone"}

Init == /\ up = TRUE /\ memory = None /\ file = None
        /\ temps = [r \in Requests |-> None]
        /\ mu = None
        /\ pc = [r \in Requests |-> "idle"]
        /\ told = [r \in Requests |-> "none"]
        /\ crashes = 0

\* The request goes on, or is over with an answer.
Goto(r, step)   == pc' = [pc EXCEPT ![r] = step] /\ UNCHANGED told
Answer(r, what) == pc' = [pc EXCEPT ![r] = "gone"] /\ told' = [told EXCEPT ![r] = what]

-----------------------------------------------------------------------------
(* The callback handler.                                                   *)

\* IsBound, which waits for a Save under way, and the tests on the request: the
\* state and its cookie, an error reported by Google, the code.
Callback(r) == /\ up /\ pc[r] = "idle" /\ mu = None
               /\ \/ memory # None /\ Answer(r, "conflict")
                  \/ memory = None /\ Answer(r, "rejected")
                  \/ memory = None /\ Goto(r, "exchange")
               /\ UNCHANGED <<up, memory, file, temps, mu, crashes>>

\* Manager.ExchangeCode, within its ten seconds.
Exchange(r) == /\ pc[r] = "exchange"
               /\ Goto(r, "save") \/ Answer(r, "failed")
               /\ UNCHANGED <<up, memory, file, temps, mu, crashes>>

\* Mutant: Save trusts the test the handler has made.
SaveLockUnchecked(r) == /\ pc[r] = "save" /\ mu = None
                        /\ Goto(r, "create") /\ mu' = r
                        /\ UNCHANGED <<up, memory, file, temps, crashes>>

\* Save takes the lock and tests again.
SaveLock(r) == /\ pc[r] = "save" /\ mu = None
               /\ \/ memory # None /\ Answer(r, "conflict") /\ UNCHANGED mu
                  \/ memory = None /\ Goto(r, "create") /\ mu' = r
               /\ UNCHANGED <<up, memory, file, temps, crashes>>

\* Mutant: the deferred cleanup is missing.
FailDirty(r) == /\ Answer(r, "failed")
                /\ mu' = None
                /\ UNCHANGED temps

\* Mutant: the error path forgets the lock.
FailLocked(r) == /\ Answer(r, "failed")
                 /\ temps' = [temps EXCEPT ![r] = None]
                 /\ UNCHANGED mu

\* Save returns an error; its deferred calls remove the temporary file and unlock.
Fail(r) == /\ Answer(r, "failed")
           /\ temps' = [temps EXCEPT ![r] = None]
           /\ mu' = None

Create(r) == /\ pc[r] = "create"
             /\ \/ /\ temps' = [temps EXCEPT ![r] = Partial]
                   /\ Goto(r, "write") /\ UNCHANGED mu
                \/ Fail(r)
             /\ UNCHANGED <<up, memory, file, crashes>>

\* Mutant: the file is renamed although it has not been written.
WriteLater(r) == /\ pc[r] = "write"
                 /\ Goto(r, "rename") /\ UNCHANGED <<temps, mu>>
                 /\ UNCHANGED <<up, memory, file, crashes>>

\* Write, Sync, Close and Chmod, any of which may fail.
Write(r) == /\ pc[r] = "write"
            /\ \/ /\ temps' = [temps EXCEPT ![r] = r]
                  /\ Goto(r, "rename") /\ UNCHANGED mu
               \/ Fail(r)
            /\ UNCHANGED <<up, memory, file, crashes>>

Rename(r) == /\ pc[r] = "rename"
             /\ \/ /\ file' = temps[r]
                   /\ temps' = [temps EXCEPT ![r] = None]
                   /\ Goto(r, "publish") /\ UNCHANGED mu
                \/ Fail(r) /\ UNCHANGED file
             /\ UNCHANGED <<up, memory, crashes>>

\* The binding is cached, the lock released, and the browser told.
Publish(r) == /\ pc[r] = "publish"
              /\ memory' = r
              /\ mu' = None
              /\ Answer(r, "linked")
              /\ UNCHANGED <<up, file, temps, crashes>>

-----------------------------------------------------------------------------

\* The process dies, and its requests with it; the files stay.
Crash == /\ up /\ crashes < MaxCrashes
         /\ crashes' = crashes + 1
         /\ up' = FALSE
         /\ memory' = None /\ mu' = None
         /\ pc' = [r \in Requests |-> IF pc[r] = "idle" THEN "idle" ELSE "gone"]
         /\ UNCHANGED <<file, temps, told>>

\* Mutant: a restart begins unbound.
RestartEmpty == /\ ~up /\ up' = TRUE
                /\ UNCHANGED <<memory, file, temps, mu, pc, told, crashes>>

\* NewStore: a missing file is an unbound store, an unreadable one stops the start.
Restart == /\ ~up /\ file # Partial
           /\ up' = TRUE
           /\ memory' = file
           /\ UNCHANGED <<file, temps, mu, pc, told, crashes>>

Step(r) == \/ Callback(r) \/ Exchange(r) \/ SaveLock(r) \/ Create(r) \/ Write(r)
           \/ Rename(r) \/ Publish(r)

Next == (\E r \in Requests : Step(r)) \/ Crash \/ Restart

Spec == Init /\ [][Next]_vars

\* A handler that has begun runs to its end: Exchange has a timeout.
Fairness == \A r \in Requests : WF_vars(pc[r] # "idle" /\ Step(r))

FairSpec == Spec /\ Fairness

-----------------------------------------------------------------------------
(* Properties.                                                             *)

Contents == Requests \cup {None, Partial}

TypeOK == /\ up \in BOOLEAN
          /\ memory \in Requests \cup {None}
          /\ file \in Contents
          /\ temps \in [Requests -> Contents]
          /\ mu \in Requests \cup {None}
          /\ pc \in [Requests -> Steps]
          /\ told \in [Requests -> {"none", "linked", "conflict", "failed", "rejected"}]
          /\ crashes \in Nat
          /\ \A r \in Requests : mu = r <=> pc[r] \in {"create", "write", "rename", "publish"}

\* At every instant, a crash included, the file is absent or a complete binding.
FileComplete == file # Partial

\* While the process runs, what Get and IsBound report is what a restart would
\* load, except between the rename and the end of the same Save.
MemoryMatchesFile ==
  up /\ memory # file => memory = None /\ mu # None /\ pc[mu] = "publish"

\* A leftover temporary file is the trace of a crash: there are never more than one
\* for each crash and one for the Save under way.
TempsBounded == Cardinality({r \in Requests : temps[r] # None})
                  <= crashes + (IF mu = None THEN 0 ELSE 1)

\* The calendar is bound at most once for ever, and every browser is told the truth.
Binding == INSTANCE OneTimeBinding WITH bound <- file, told <- told
BindingSpec == Binding!BSpec

\* Every request that gets past the tests is answered unless the process dies.
Answered == \A r \in Requests : (pc[r] = "exchange") ~> (pc[r] = "gone")
=============================================================================
