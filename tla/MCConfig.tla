------------------------------- MODULE MCConfig -------------------------------
(* Config for TLC: two hosts whose names differ in a dot and a dash. *)
EXTENDS Config

Url(host) ==
    [scheme |-> "https", host |-> host, port |-> NoPort, path |-> <<>>,
     loose |-> FALSE, bad |-> FALSE]

MCRaws == {Url("team.space.io"), Url("team-space.io")}
MCWords == [h \in {"team.space.io", "team-space.io"} |-> <<"team", "space", "io">>]

MCWritten ==
    {[present |-> FALSE, gateway |-> TRUE, servers |-> <<>>, sinks |-> <<>>,
      hooks |-> <<>>, backends |-> <<>>]}
=============================================================================
