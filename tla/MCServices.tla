----------------------------- MODULE MCServices -----------------------------
(***************************************************************************)
(* Four small services of the server, checked in one run: the chat         *)
(* session, the lock of the memory files, the validation of issues and the *)
(* development servers.  They share nothing; a behaviour is one of one     *)
(* service, chosen at its beginning, with the others at rest.              *)
(***************************************************************************)
EXTENDS AgentSession, FileLock, IssueValidation, DevServer

VARIABLE service

ServicesVars == <<service, SessionVars, LockVars, ValidationVars, DevVars>>

\* Services that are at rest have the smallest of their initial states.
ServicesInit ==
  /\ service \in {"session", "lock", "validation", "servers"}
  /\ SessionInit /\ LockInit /\ ValidationInit /\ DevInit
  /\ service # "session" => traffic = {}
  /\ service # "lock" => crowd = 1 /\ ~created
  /\ service # "validation" => demand = {}
  /\ service # "servers" =>
       habit = {} /\ \A s \in Start : place[s] = CHOOSE w \in Worktree : TRUE

ServicesNext ==
  /\ UNCHANGED service
  /\ \/ /\ service = "session" /\ SessionNext
        /\ UNCHANGED <<LockVars, ValidationVars, DevVars>>
     \/ /\ service = "lock" /\ LockNext
        /\ UNCHANGED <<SessionVars, ValidationVars, DevVars>>
     \/ /\ service = "validation" /\ ValidationNext
        /\ UNCHANGED <<SessionVars, LockVars, DevVars>>
     \/ /\ service = "servers" /\ DevNext
        /\ UNCHANGED <<SessionVars, LockVars, ValidationVars>>

\* The fairness of a service that is at rest asks for nothing.
ServicesSpec ==
  /\ ServicesInit /\ [][ServicesNext]_ServicesVars
  /\ SessionFairness /\ LockFairness /\ ValidationFairness

\* The variables of every service have their types.
ServicesTypeOK == SessionTypeOK /\ LockTypeOK /\ ValidationTypeOK /\ DevTypeOK
=============================================================================
