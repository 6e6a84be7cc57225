------------------------------ MODULE CallOnce ------------------------------
(***************************************************************************)
(* What a caller of FloClient.sendRequest may rely on, however often the   *)
(* client sends the request underneath: the server runs it at most once;   *)
(* an OK says it ran; a refusal that says it did not run is the truth for  *)
(* good. Any other end leaves open whether it ran, or yet will.            *)
(***************************************************************************)
EXTENDS Naturals

CONSTANT Calls

VARIABLES ran,     \* how often the server has run each call
          answer   \* what the caller was told: none, ok, notRun or open

vars == <<ran, answer>>

Init ==
  /\ ran = [c \in Calls |-> 0]
  /\ answer = [c \in Calls |-> "none"]

Run(c) ==
  /\ ran[c] = 0
  /\ answer[c] \in {"none", "open"}
  /\ ran' = [ran EXCEPT ![c] = 1]
  /\ UNCHANGED answer

Tell(c, a) ==
  /\ answer[c] = "none"
  /\ a = "ok" => ran[c] = 1
  /\ a = "notRun" => ran[c] = 0
  /\ answer' = [answer EXCEPT ![c] = a]
  /\ UNCHANGED ran

Next == \E c \in Calls : Run(c) \/ \E a \in {"ok", "notRun", "open"} : Tell(c, a)

Spec == Init /\ [][Next]_vars
=============================================================================
