--------------------------- MODULE SessionContract ---------------------------
(***************************************************************************)
(* What the session manager of claudecode-remoted promises to everything   *)
(* that looks at it from outside: the clients, which see the status of a   *)
(* session, and the idle updater, which sees its terminal lock.            *)
(*                                                                         *)
(*   - a session goes from unknown to open to closed and never back;       *)
(*   - a lock is taken only for a session that exists;                     *)
(*   - a lock goes away only once its session is closed, or because a      *)
(*     reboot emptied the tmpfs the lock directory lives on;               *)
(*   - a session that was acknowledged to its creator is locked from that  *)
(*     moment on for as long as it is open, up to the next reboot.         *)
(*                                                                         *)
(* The contract does not promise that the lock of a closed session is      *)
(* gone: SessionLifecycle shows why the implementation cannot promise it.  *)
(***************************************************************************)
CONSTANT Sessions

VARIABLES
    status,     \* Sessions -> {"none", "open", "closed"}: the database row
    held,       \* the sessions whose lock file exists
    promised    \* the sessions acknowledged to their creator since boot

contractVars == <<status, held, promised>>

ContractTypeOK ==
    /\ status \in [Sessions -> {"none", "open", "closed"}]
    /\ held \in SUBSET Sessions
    /\ promised \in SUBSET Sessions

ContractInit ==
    /\ status = [s \in Sessions |-> "none"]
    /\ held = {}
    /\ promised = {}

Open(s) ==
    /\ status[s] = "none"
    /\ status' = [status EXCEPT ![s] = "open"]
    /\ UNCHANGED <<held, promised>>

Lock(s) ==
    /\ status[s] # "none"
    /\ held' = held \cup {s}
    /\ UNCHANGED <<status, promised>>

Acknowledge(s) ==
    /\ status[s] # "none"
    /\ status[s] = "open" => s \in held
    /\ promised' = promised \cup {s}
    /\ UNCHANGED <<status, held>>

Close(s) ==
    /\ status[s] = "open"
    /\ status' = [status EXCEPT ![s] = "closed"]
    /\ UNCHANGED <<held, promised>>

Unlock(s) ==
    /\ status[s] = "closed"
    /\ held' = held \ {s}
    /\ UNCHANGED <<status, promised>>

Reboot ==
    /\ held' = {}
    /\ promised' = {}
    /\ UNCHANGED status

ContractNext ==
    \/ \E s \in Sessions :
          Open(s) \/ Lock(s) \/ Acknowledge(s) \/ Close(s) \/ Unlock(s)
    \/ Reboot

ContractSpec == ContractInit /\ [][ContractNext]_contractVars

\* A session that was acknowledged and has not been closed holds its lock.
PromisedOpenIsHeld ==
    \A s \in promised : status[s] = "open" => s \in held

=============================================================================
