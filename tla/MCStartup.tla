----------------------------- MODULE MCStartup -----------------------------
(***************************************************************************)
(* Instances of Startup for TLC.                                           *)
(***************************************************************************)
EXTENDS Startup

CONSTANTS e1, e2

App(source, given, interval) ==
    [name |-> "app", source |-> source, given |-> given, interval |-> interval]

Hook(given) == [type |-> "webhook", target |-> given, mode |-> ""]
Agent(mode) == [type |-> "cli_agent", target |-> TRUE, mode |-> mode]
Team(concurrency, action) ==
    [app |-> "app", concurrency |-> concurrency, actions |-> <<Hook(TRUE), action>>]

(* Durations of all kinds, for all applications and for one.               *)
Durations ==
    {[NoConfig EXCEPT !.apps = <<App("mock", FALSE, own)>>, !.interval = all] :
        own \in {-1, 0, 2}, all \in {-1, 0, 3}}

(* Two applications of all kinds with each queue.                          *)
Kinds ==
    {[NoConfig EXCEPT !.apps = <<App(s, TRUE, 0), App(t, given, 1)>>, !.queue = q] :
        s \in {"gcp", "mock", "file"}, t \in {"aws", "file"}, given \in BOOLEAN,
        q \in {"none", "file", "sqs"}}

(* Workers that can and cannot be built.                                   *)
Teams ==
    {[NoConfig EXCEPT !.apps = <<App("mock", TRUE, 0)>>, !.queue = q,
                      !.workers = <<Team(0, a), Team(2, Agent("arg"))>>] :
        a \in {Hook(TRUE), Hook(FALSE), Agent(""), Agent("pipe")}, q \in {"none", "file", "sqs"}}

Files == {NoConfig} \cup Durations \cup Kinds \cup Teams
=============================================================================
