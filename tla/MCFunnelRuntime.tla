--------------------------- MODULE MCFunnelRuntime ---------------------------
(* A small funnel for FunnelRuntime: a greeting that waits for a button    *)
(* and leads to the question or straight to the farewell, a question that  *)
(* may be put again when it has timed out, a delay that leads back to the  *)
(* question or to the end.                                                 *)
EXTENDS FunnelRuntime

CONSTANTS hello, ask, pause, bye, done, handoff

MCSteps == {hello, ask, pause, bye, done, handoff}
MCKind  == [n \in MCSteps |->
              CASE n \in {hello, bye} -> "message" [] n = ask -> "input" [] n = pause -> "delay"
                [] n = done -> "finish" [] n = handoff -> "operator"]
MCScript == [n \in MCSteps |->
              CASE n = hello -> <<"plain", "waits", "delayed", "plain">> [] n = bye -> <<"plain">>
                [] OTHER -> <<>>]
MCFollow == [n \in MCSteps |->
              CASE n = hello -> {ask, bye} [] n = ask -> {ask, pause} [] n = pause -> {ask, done, handoff}
                [] OTHER -> {}]
=============================================================================
