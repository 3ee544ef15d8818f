----------------------------- MODULE MCSupervisor -----------------------------
(* An instance of Supervisor for TLC: two servers on one host. *)
EXTENDS Supervisor

Url(port, path, loose, bad) ==
    [scheme |-> "https", host |-> "h.example", port |-> port, path |-> path,
     loose |-> loose, bad |-> bad]

\* A server at the root of a host, typed in two ways; one below a path; a URL with a
\* query.
MCRoot == Url(NoPort, <<>>, FALSE, FALSE)
MCRootTyped == Url("443", <<>>, TRUE, FALSE)
MCTeam == Url(NoPort, <<"team-a">>, FALSE, FALSE)
MCRaws == {MCRoot, MCRootTyped, MCTeam, Url(NoPort, <<>>, FALSE, TRUE)}
MCWords == [x \in {"h.example", "team-a"} |->
                IF x = "h.example" THEN <<"h", "example">> ELSE <<"team", "a">>]

Entry(url, enabled) == [url |-> url, enabled |-> enabled]
Hook(key, throttled, enabled) ==
    [key |-> key, command |-> <<"notify">>, throttled |-> throttled, enabled |-> enabled]
File(present, servers, sinks, hks, backends) ==
    [present |-> present, gateway |-> TRUE, servers |-> servers, sinks |-> sinks,
     hooks |-> hks, backends |-> backends]

MCSpaces == {"small", "large", "own"}
MCGenerated == {"small", "large"}
Backend(space, installed) == [space |-> space, enabled |-> TRUE, installed |-> installed]

\* No file; a file with everything in it, one server typed loosely and disabled and one
\* whose manager every start spawns; a file with one server twice; one with a hook
\* called as the second is by default.
MCWritten ==
    {File(FALSE, <<>>, <<>>, <<>>, <<>>),
     File(TRUE, <<Entry(MCRootTyped, FALSE), Entry(MCTeam, TRUE)>>,
          <<[key |-> Blank, kind |-> "db", enabled |-> TRUE]>>,
          <<Hook(<<"page">>, TRUE, TRUE), Hook(Blank, FALSE, FALSE)>>,
          <<Backend("small", TRUE), Backend("own", TRUE), Backend("small", TRUE),
            Backend("large", FALSE)>>),
     File(TRUE, <<Entry(MCRoot, TRUE), Entry(MCRootTyped, TRUE)>>, <<>>, <<>>, <<>>),
     File(TRUE, <<Entry(MCTeam, TRUE)>>, <<>>,
          <<Hook(<<"hook", "2">>, TRUE, TRUE), Hook(Blank, TRUE, TRUE)>>, <<>>)}

MCFragile == {Gateway, Manager(MCRoot)}
MCNoisy == {Gateway}
MCFirers == {Gateway, Sup}
MCEvents ==
    {TaskExit(t) : t \in Tasks} \cup {Noise(t) : t \in Tasks} \cup {StoreNotReady}

\* Requests of up to two embeddings and two wanted spaces.
MCNames == {Exact("small"), [id |-> "small", padded |-> TRUE], Exact("own")}
MCLists(names) == {<<>>} \cup {<<a>> : a \in names} \cup {<<a, b>> : a, b \in names}
MCRequests ==
    [supplied : MCLists(MCNames), wanted : MCLists({Exact("large")} \cup MCNames),
     override : BOOLEAN]
=============================================================================
