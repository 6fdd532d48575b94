------------------------ MODULE MCCaptureEvaluation ------------------------
(***************************************************************************)
(* The instance of CaptureEvaluation for TLC.                              *)
(***************************************************************************)
EXTENDS CaptureEvaluation

Turn(type) == [type |-> type, id |-> NoId, kind |-> "none", detail |-> "none"]
Item(type, id, kind, detail) ==
  [type |-> type, id |-> id, kind |-> kind, detail |-> detail]

SmallAlphabet ==
  {Turn(t) : t \in {"thread.started", "turn.started", "turn.completed"}}
  \cup {Turn("error"), Turn("other"),
        [Turn("thread.started") EXCEPT !.detail = "malformed"],
        Item("turn.completed", NoId, "command_execution", "none")}
  \cup {Item("item.completed", "i1", "agent_message", d) : d \in {"valid", "fenced"}}
  \cup {Item("item.completed", "i2", "request_user_input_rejection", d) :
          d \in {"confirmed", "malformed"}}
  \cup {Item("item.started", "i2", "command_execution", "in_progress"),
        Item("item.completed", "i2", "command_execution", "done"),
        Item("item.updated", "i1", "todo_list", "in_progress"),
        Item("item.completed", "i2", "command_execution", "declined"),
        Item("item.started", "i1", "agent_message", "none"),
        Item("item.completed", "i2", "agent_message", "uncovered"),
        Item("item.completed", "i1", "error", "none")}

\* All options on a clean ending, and each other ending and model report
\* once with default options.
Clean(fence, warn, granted, suspicious) ==
  [signs |-> {}, fence |-> fence, warn |-> warn, granted |-> granted,
   suspicious |-> suspicious, served |-> "unreported"]
SmallFacts ==
  {Clean(fence, warn, granted, suspicious) :
     fence \in BOOLEAN, warn \in BOOLEAN,
     granted \in {{}, {"command_execution"}}, suspicious \in BOOLEAN}
  \cup {[Clean(FALSE, FALSE, {}, FALSE) EXCEPT !.signs = {s}] : s \in Signs}
  \cup {[Clean(FALSE, FALSE, {}, FALSE) EXCEPT !.served = m] :
          m \in {"allowed", "other", "several"}}
=============================================================================
