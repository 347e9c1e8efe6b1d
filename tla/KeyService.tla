------------------------------ MODULE KeyService ------------------------------
(***************************************************************************)
(* What signing_key promises its callers, with no cache and no lock: each  *)
(* thread asks for the key of one scope at a time and is handed exactly    *)
(* the key derived from the credential's seed for that scope.              *)
(***************************************************************************)
CONSTANTS
  Threads,     \* callers of signing_key
  Scopes,      \* the scopes they ask for
  None,        \* no request or no answer
  KeyFor(_)    \* the key that belongs to a scope

VARIABLES
  phase,       \* phase[t]: "idle", "busy" or "done"
  req,         \* req[t]: the scope thread t asked for
  answer       \* answer[t]: the key returned to thread t

vars == <<phase, req, answer>>

Init ==
  /\ phase  = [t \in Threads |-> "idle"]
  /\ req    = [t \in Threads |-> None]
  /\ answer = [t \in Threads |-> None]

Call(t, s) ==
  /\ phase[t] = "idle"
  /\ phase' = [phase EXCEPT ![t] = "busy"]
  /\ req'   = [req EXCEPT ![t] = s]
  /\ UNCHANGED answer

Serve(t) ==
  /\ phase[t] = "busy"
  /\ phase'  = [phase EXCEPT ![t] = "done"]
  /\ answer' = [answer EXCEPT ![t] = KeyFor(req[t])]
  /\ UNCHANGED req

Return(t) ==
  /\ phase[t] = "done"
  /\ phase'  = [phase EXCEPT ![t] = "idle"]
  /\ req'    = [req EXCEPT ![t] = None]
  /\ answer' = [answer EXCEPT ![t] = None]

Next ==
  \E t \in Threads :
    \/ \E s \in Scopes : Call(t, s)
    \/ Serve(t)
    \/ Return(t)

Spec == Init /\ [][Next]_vars
===============================================================================
