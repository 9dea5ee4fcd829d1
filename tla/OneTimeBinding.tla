--------------------------- MODULE OneTimeBinding ---------------------------
(***************************************************************************)
(* What the calendar linking promises: at most one binding is ever         *)
(* established and it never changes, whatever crashes and restarts; a      *)
(* request that was told "linked" established its own binding, and one     *)
(* that was told "conflict" came after somebody's.                         *)
(*                                                                         *)
(* A binding is named by the request that obtained it from Google.         *)
(* CalendarStore implements this specification.                            *)
(***************************************************************************)
CONSTANTS Requests, None

VARIABLES bound,   \* the binding established, or None
          told     \* what each request has been told so far

bvars == <<bound, told>>

Answers == {"none", "linked", "conflict", "failed", "rejected"}

BInit == bound = None /\ told = [r \in Requests |-> "none"]

Bind(r) == /\ bound = None
           /\ told[r] = "none"
           /\ bound' = r
           /\ UNCHANGED told

Tell(r) == /\ told[r] = "none"
           /\ \E a \in Answers \ {"none"} :
                /\ a = "linked" => bound = r
                /\ a = "conflict" => bound # None
                /\ a \in {"failed", "rejected"} => bound # r
                /\ told' = [told EXCEPT ![r] = a]
           /\ UNCHANGED bound

BSpec == BInit /\ [][\E r \in Requests : Bind(r) \/ Tell(r)]_bvars
=============================================================================
