------------------------------ MODULE MCDaemon ------------------------------
(***************************************************************************)
(* Instance of Daemon: a network that reaches the API, where DoH does not  *)
(* answer, one where DNS and DoH both lie, so that only the fallbacks      *)
(* help, and one request of every kind.                                    *)
(***************************************************************************)
EXTENDS Daemon

Net(dns, doh) == [dns |-> dns, doh |-> doh]
Nets == {Net("api", <<>>), Net("sink", <<"sink">>)}
Apis == {"api", "known"}
Fallbacks == <<"gone", "known">>

Get(path, on, n) == [method |-> "GET", token |-> TRUE, path |-> path, on |-> on, slot |-> n]
Calls ==
  {[method |-> "OPTIONS", token |-> FALSE, path |-> "add", on |-> Absent, slot |-> Absent],
   [method |-> "GET", token |-> FALSE, path |-> "add", on |-> Absent, slot |-> Absent],
   Get("toggle", FALSE, Absent), Get("select", Absent, -1),
   Get("interval", Absent, -5), Get("http2", Absent, Absent),
   Get("rotate", Absent, Absent), Get("rotate", Absent, 7), Get("add", Absent, Absent),
   Get("remove", Absent, 1), Get("remove", Absent, Absent)}
=============================================================================
