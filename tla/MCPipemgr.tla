----------------------------- MODULE MCPipemgr -----------------------------
(* Instances of Pipemgr for TLC.                                              *)
EXTENDS Pipemgr

Pm(ops) == [pm |-> TRUE, ops |-> ops, reads |-> {}]
Plain(service) == [pm |-> FALSE, ops |-> <<>>, reads |-> {service}]
To(op, file) == [op |-> op, file |-> file]
Pipe    == To("|", "")

\* One, two and three commands; the last knows PIPEMGR only if it redirects.
Pipelines ==
    {<<Pm(<<>>)>>, <<Pm(<<To("<", "IN"), To(">", "OUT")>>)>>, <<Pm(<<To(">&", "IN")>>)>>,
     <<Pm(<<To("<", "LOST"), To(">", "NUL:")>>)>>,
     <<Pm(<<To(">>", "IN")>>)>>, <<Pm(<<To(">>&", "TEXT")>>)>>, <<Pm(<<To(">>", "OUT")>>)>>,
     <<Pm(<<Pipe>>), Plain(1)>>, <<Pm(<<Pipe>>), Plain(10)>>,
     <<Pm(<<To("<", "IN"), To("|&", "")>>), Pm(<<To(">", "IN")>>)>>,
     <<Pm(<<Pipe>>), Pm(<<Pipe>>), Plain(1)>>, <<Pm(<<Pipe>>), Pm(<<To(">>", "TEXT")>>)>>}

\* IN has its exact size, TEXT ends with ^Z.
Before == {[f \in {"IN", "TEXT"} |-> IF f = "IN" THEN [recs |-> <<13, 26, 10, 10, 26, 26>>, unused |-> 2]
                                     ELSE [recs |-> <<10, 13, 13, 10, 26, 26>>, unused |-> 0]]}

\* Input through a pipe only, read by BDOS 6.
InPipe == {<<Pm(<<Pipe>>), Plain(6)>>}

\* The instances are among those that the theorems speak of.
ASSUME InstanceIsUsual == Usual
=============================================================================
