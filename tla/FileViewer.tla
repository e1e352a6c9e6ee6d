----------------------------- MODULE FileViewer -----------------------------
(***************************************************************************)
(* What the backend promises the grid, with no cache, no index, no lock    *)
(* and no interrupt in sight: a request is answered from the one snapshot  *)
(* that was open when it was served, whatever page it asks for, and the    *)
(* file never changes under a request being served.                        *)
(***************************************************************************)
EXTENDS Naturals

CONSTANT Readers

VARIABLES
  current,  \* the snapshot requests are served from, 0 when none
  phase,    \* where each request is
  source,   \* the snapshot a request is being served from
  answer    \* what the finished request was answered with

vars == <<current, phase, source, answer>>

NoAnswer == [from |-> {}, exact |-> TRUE]

Init ==
  /\ current = 0
  /\ phase = [r \in Readers |-> "idle"]
  /\ source = [r \in Readers |-> 0]
  /\ answer = [r \in Readers |-> NoAnswer]

Ask(r) ==
  /\ phase[r] = "idle"
  /\ phase' = [phase EXCEPT ![r] = "asked"]
  /\ UNCHANGED <<current, source, answer>>

(* No file of this engine is open, or the request failed or was cancelled. *)
Decline(r) ==
  /\ phase[r] \in {"asked", "serving"}
  /\ phase' = [phase EXCEPT ![r] = "done"]
  /\ source' = [source EXCEPT ![r] = 0]
  /\ UNCHANGED <<current, answer>>

Serve(r) ==
  /\ phase[r] = "asked"
  /\ current # 0
  /\ phase' = [phase EXCEPT ![r] = "serving"]
  /\ source' = [source EXCEPT ![r] = current]
  /\ UNCHANGED <<current, answer>>

(* Everything in the answer was read from the snapshot being served, by    *)
(* way of nothing that belongs to another view or is incomplete.           *)
Give(r) ==
  /\ phase[r] = "serving"
  /\ phase' = [phase EXCEPT ![r] = "done"]
  /\ source' = [source EXCEPT ![r] = 0]
  /\ answer' = [answer EXCEPT ![r] = [from |-> {source[r]}, exact |-> TRUE]]
  /\ UNCHANGED current

Forget(r) ==
  /\ phase[r] = "done"
  /\ phase' = [phase EXCEPT ![r] = "idle"]
  /\ answer' = [answer EXCEPT ![r] = NoAnswer]
  /\ UNCHANGED <<current, source>>

(* Another file is opened, or the file is closed, between requests only.   *)
Change ==
  /\ \A r \in Readers : phase[r] # "serving"
  /\ current' \in Nat
  /\ UNCHANGED <<phase, source, answer>>

Next ==
  \/ Change
  \/ \E r \in Readers : Ask(r) \/ Decline(r) \/ Serve(r) \/ Give(r) \/ Forget(r)

Spec == Init /\ [][Next]_vars
=============================================================================
