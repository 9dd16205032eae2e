------------------------------ MODULE MCConfig ------------------------------
(* Instances of Config: names and keys are strings, "Port" is one with a    *)
(* capital; "x" converts to no type, "1" only to "int".                     *)
EXTENDS Config
CONSTANTS t1, t2

MCLower(k) == IF k = "Port" THEN "port" ELSE k
MCConvert(text, ty) == IF text = "1" /\ ty = "int" THEN 1 ELSE IF text = "2" THEN 2 ELSE None
MCThrowing(l, v) == l = 2 /\ v = 2
MCNode(k, w, x) == [key |-> k, within |-> w, text |-> x]
MCDocs == { << MCNode("net", {}, "x"), MCNode("net.port", {"net"}, "1"), MCNode("port", {}, "2") >>,
            << MCNode("Net", {}, "2"), MCNode("net.port", {"Net"}, "2"), MCNode("port", {}, "x"),
               MCNode("port", {}, "1") >> }
============================================================================
