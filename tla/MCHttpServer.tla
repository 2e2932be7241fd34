---------------------------- MODULE MCHttpServer ----------------------------
(* HttpServer with the bodies that tell its cases apart.                   *)
EXTENDS HttpServer

Frame(errors, messages) == [errors |-> errors, messages |-> messages]

MCFrames == {Frame(0, <<"init">>), Frame(0, <<"note">>), Frame(1, <<"req", "note", "req">>)}
=============================================================================
