----------------------------- MODULE MCHandler -----------------------------
(* Handler with the requests that take different ways through it.          *)
EXTENDS Handler, TLC

CONSTANTS w1, w2

Ask(line, method, length, close) ==
  [line |-> line, method |-> method, length |-> length, long |-> FALSE, close |-> close]

MCRequests ==
  w1 :> { Ask("ok", "GET", FALSE, FALSE), Ask("ok", "HEAD", FALSE, FALSE),
          Ask("ok", "POST", TRUE, TRUE),
          Ask("ok", "POST", FALSE, FALSE), Ask("ok", "OTHER", FALSE, TRUE),
          Ask("incomplete", "GET", FALSE, FALSE), Ask("http10", "GET", FALSE, TRUE),
          Ask("dotdot", "HEAD", FALSE, FALSE),
          [Ask("ok", "POST", TRUE, FALSE) EXCEPT !.long = TRUE] }
  @@ w2 :> { Ask("ok", "POST", TRUE, FALSE) }

(* A file is replaced, becomes a directory, or is removed.                 *)
MCRenames == { <<"exact", 2>>, <<"index", Dir>>, <<"html", Absent>> }

(* 9 is larger than an int and taken for 1, 5 for -3.                      *)
MCDisks == {
  [public |-> [exact |-> 1, index |-> Absent, html |-> 2], size |-> <<2, 0>>],
  [public |-> [exact |-> Dir, index |-> 1, html |-> Absent], size |-> <<5, 2>>],
  [public |-> [exact |-> Absent, index |-> Absent, html |-> 2], size |-> <<0, 9>>] }
=============================================================================
