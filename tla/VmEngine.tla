------------------------------ MODULE VmEngine ------------------------------
(* What an engine promises the agent about one VM (the trait VmEngine):      *)
(* the guest executes at most through a create or start call, a stop that    *)
(* answers ok leaves no execution, a destroy that answers ok leaves nothing, *)
(* and a state query never calls a live guest stopped. Executions may end at *)
(* any time; the agent may crash inside a call and never learn its answer,   *)
(* and a launch that outlived it then may take effect once.                  *)

CONSTANTS Calls,    \* create, start, stop, destroy, state
          None      \* no call is under way, no answer is known

VARIABLES
  call,    \* the call under way, or None
  exec,    \* whether the guest executes
  left,    \* whether anything of the VM is left on the host
  reply,   \* the last answer: the call it belongs to and what it said
  late     \* a launch that outlived a crashed agent: pending, or came

contractVars == <<call, exec, left, reply, late>>

Silent == [call |-> None, said |-> None]

\* What an answer claims of the moment at which it is given.
Honest(c, said, executing, remains) ==
  late /= "came" =>
  /\ c = "stop" /\ said = "ok" => ~executing
  /\ c = "destroy" /\ said = "ok" => ~executing /\ ~remains
  /\ c = "state" /\ said = "stopped" => ~executing

\* Resources are laid out by create and removed by destroy alone; a guest
\* appears in a create or start call, and never without resources.
Changes == /\ exec' => exec \/ call \in {"create", "start"}
           /\ left' /= left => call = (IF left THEN "destroy" ELSE "create")
           /\ exec' => left' \/ late = "came"
           /\ UNCHANGED late

Init == call = None /\ exec = FALSE /\ left = FALSE /\ reply = Silent /\ late = None

Begin == /\ call = None
         /\ call' \in Calls
         /\ reply' = Silent
         /\ UNCHANGED <<exec, left, late>>

Work == call /= None /\ Changes /\ UNCHANGED <<call, reply>>

Answer == /\ call /= None
          /\ call' = None
          /\ Changes
          /\ reply'.call = call
          /\ Honest(call, reply'.said, exec', left')

\* The guest ends by itself.
Vanish == exec /\ exec' = FALSE /\ UNCHANGED <<call, left, reply, late>>

\* The agent or its host goes down: the call is forgotten, the guest may end.
Crash == /\ call' = None
         /\ exec' => exec
         /\ late' \in {late, None} \cup (IF call = "create" THEN {"pending"} ELSE {})
         /\ left' /= left => left /\ late = "came"
         /\ UNCHANGED reply

\* It takes effect, beside whatever call is under way by then.
Late == /\ late = "pending" /\ late' = "came"
        /\ left => left'
        /\ exec' => left'
        /\ UNCHANGED <<call, reply>>

Next == Begin \/ Work \/ Answer \/ Vanish \/ Crash \/ Late

Spec == Init /\ [][Next]_contractVars
=============================================================================
