------------------------------ MODULE ServeMC ------------------------------
(* Small instances of Serve: the checks of the start, and two clients that *)
(* ask for anything of a server with one slot or two.                      *)
EXTENDS Serve

CONSTANTS r1, r2

CommandLines ==
    [host : {"loopback", "remote", "name"},
     token : {"unset", "both", "unreadable", "empty", "short", "long"},
     noAuth : BOOLEAN, allowRemote : BOOLEAN, maxConcurrency : {0, 1, 2, 5}]

Serving(host, token, allowRemote, slotsGiven) ==
    [host |-> host, token |-> token, noAuth |-> token = "unset",
     allowRemote |-> allowRemote, maxConcurrency |-> slotsGiven]

MCStartups ==
    {c \in CommandLines : StartRefusal(c) # 0}
        \cup {Serving("remote", "long", TRUE, 2), Serving("name", "unset", FALSE, 1)}
============================================================================
