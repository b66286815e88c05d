------------------------------ MODULE MCRequests ------------------------------
(* Instances of Requests for TLC. *)
EXTENDS Requests, TLC

CONSTANTS a, b, c

UseOf3(r, s, t, serial, faults) ==
    [script |-> (a :> r @@ b :> s @@ c :> t), serial |-> serial, faults |-> faults]
UseOf(r, s, serial, faults) == UseOf3(r, s, <<>>, serial, faults)

\* Callers in turns, who may meet a refusal; callers that overlap, with the
\* same and with different operations; with time running out and with the
\* connection lost.
MCUses ==
    { UseOf(<<"session", "setenv", "pty", "exec">>, <<"direct", "exec">>, TRUE, {"refuse"}),
      UseOf(<<"listen">>, <<"direct">>, TRUE, {}),
      UseOf(<<"session", "exec">>, <<"session", "exec">>, FALSE, {"refuse"}),
      UseOf(<<"direct">>, <<"direct">>, FALSE, {"refuse"}),
      UseOf(<<"direct">>, <<"session", "exec">>, FALSE, {"timeout"}),
      UseOf(<<"listen">>, <<"listen">>, FALSE, {"refuse", "timeout"}),
      UseOf(<<"session", "setenv", "setenv", "exec", "exec">>, <<"listen">>, FALSE,
            {"timeout"}),
      UseOf(<<"session", "exec">>, <<"direct">>, FALSE, {"drop"}),
      UseOf3(<<"direct">>, <<"direct">>, <<"session">>, FALSE, {}),
      UseOf3(<<"session", "exec">>, <<"session", "exec">>, <<"listen">>, FALSE, {}) }
===============================================================================
