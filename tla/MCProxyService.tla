--------------------------- MODULE MCProxyService ---------------------------
(* Instances of ProxyService for TLC.                                      *)
EXTENDS ProxyService

Setting(c, l, f) == [clash |-> c, lan |-> l, fixed |-> f]

(* The default: no clash, no port of the user's choice.                    *)
Default == {Setting(FALSE, FALSE, NoPort)}

(* Every combination, the fixed port being free, the fall-back, or none.   *)
AllSettings == {Setting(c, l, f) : c \in BOOLEAN, l \in BOOLEAN, f \in {NoPort, 1081, 2000}}
=============================================================================
