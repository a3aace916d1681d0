------------------------------- MODULE MCRpc -------------------------------
(* A service of one method; the other kinds of requests get an error. *)
EXTENDS Rpc

LoginOnly == {<<"login", "Login">>}
Ask(service, method, arguments) ==
    [service |-> service, method |-> method, arguments |-> arguments]
SomeAsks == {Ask("login", "Login", "good"), Ask("login", "Logout", "good"), Ask("login", "Login", "garbled")}
=============================================================================
