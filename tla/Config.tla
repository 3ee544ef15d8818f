-------------------------------- MODULE Config --------------------------------
(***************************************************************************)
(* config.json (src/src/config.rs) and the one command that writes it,     *)
(* `setup` (src/src/setup.rs): how a server URL is made canonical, which   *)
(* directory of servers/ its state lives in, which files the daemon        *)
(* accepts, and what a setup adds to them.  Locks, crashes and the session *)
(* token are the subject of Setup, which takes servers as given; here a    *)
(* setup is one step and the servers are what the URLs make of them.       *)
(*                                                                         *)
(* A URL is its parts.  The words of a host name or of a path segment are  *)
(* its runs of letters and digits in lower case, which is all that         *)
(* sanitize_server_key_component keeps; a server key is a sequence of      *)
(* words.  Of the settings that are only defaulted and handed on, nothing  *)
(* is kept.                                                                *)
(***************************************************************************)
EXTENDS Queues, Functions, TLC

CONSTANTS
    Raws,       \* the URLs that are typed, in setups and in config.json
    Words,      \* the words of each host name and path segment
    Written,    \* the files an operator may have written before the first start
    NoUrl, Blank

NoPort == "none"

\* port: as typed, or NoPort.  loose: blanks around it, capitals in the scheme or the
\* host, or slashes at the end.  bad: it does not parse, or has a userinfo, a query
\* or a fragment.
Urls == [scheme : STRING, host : DOMAIN Words, port : STRING \cup {NoPort},
         path : Seq(DOMAIN Words), loose : BOOLEAN, bad : BOOLEAN]

VARIABLES
    stored,     \* config.json; present is FALSE as long as there is no such file
    session,    \* whose session the directory of each server key holds
    registered, \* the servers that have been asked to register the daemon
    setUp       \* the servers that a setup has saved

configVars == <<stored, session, registered, setUp>>

-----------------------------------------------------------------------------
(* Server URLs. *)

DefaultPort(scheme) == IF scheme = "http" THEN "80" ELSE "443"

\* port_or_known_default.
EffectivePort(u) == IF u.port = NoPort THEN DefaultPort(u.scheme) ELSE u.port

\* canonicalize_base_url; NoUrl stands for its errors.
Canonicalize(u) ==
    IF u.bad \/ u.scheme \notin {"http", "https"} THEN NoUrl
    ELSE [u EXCEPT !.loose = FALSE,
                   !.port = IF EffectivePort(u) = DefaultPort(u.scheme)
                            THEN NoPort ELSE u.port]

\* The words of a path, its segments joined.
PathWords(path) ==
    LET upTo[i \in 0..Len(path)] ==
            IF i = 0 THEN <<>> ELSE upTo[i - 1] \o Words[path[i]]
    IN  upTo[Len(path)]

\* derive_server_key of a canonical URL.
ServerKey(c) ==
    <<c.scheme>> \o Words[c.host] \o <<EffectivePort(c)>> \o PathWords(c.path)

\* Both conversions succeed; a host without a word has no key.
IsServer(u) == Canonicalize(u) # NoUrl /\ Words[u.host] # <<>>

Servers == {Canonicalize(u) : u \in {r \in Raws : IsServer(r)}}
Keys == {ServerKey(c) : c \in Servers}

-----------------------------------------------------------------------------
(* StoredConfig; Blank where a file says nothing. *)

Entries == [url : Raws \cup Servers, enabled : BOOLEAN]

\* The name of a sink or a hook, or a command: its words.
Labels == Seq(STRING) \cup {Blank}

Files ==
    [present : BOOLEAN, gateway : BOOLEAN, servers : Seq(Entries),
     sinks : Seq([key : Labels, kind : STRING, enabled : BOOLEAN]),
     hooks : Seq([key : Labels, command : Labels, throttled : BOOLEAN, enabled : BOOLEAN]),
     backends : Seq([space : STRING, enabled : BOOLEAN, installed : BOOLEAN])]

ASSUME ConfigAssumption ==
    /\ Raws \subseteq Urls /\ NoUrl \notin Urls
    /\ Words \in [DOMAIN Words -> Seq(STRING)]
    /\ Written \subseteq Files

-----------------------------------------------------------------------------
(* Config::from_stored. *)

\* No two entries are one server, no two sinks or hooks have one key: the BTreeSet of
\* what has been seen finds nothing twice.
ServersAccepted(f) ==
    /\ \A i \in DOMAIN f.servers : IsServer(f.servers[i].url)
    /\ IsInjective([i \in DOMAIN f.servers |-> Canonicalize(f.servers[i].url)])

\* normalize_sinks: a sink without a key is named after its kind.
SinkKey(f, i) == IF f.sinks[i].key = Blank THEN <<f.sinks[i].kind>> ELSE f.sinks[i].key

SinksAccepted(f) ==
    /\ \A i \in DOMAIN f.sinks :
          f.sinks[i].kind \in {"db", "agent_session_wake"} /\ SinkKey(f, i) # <<>>
    /\ IsInjective([i \in DOMAIN f.sinks |-> SinkKey(f, i)])

\* normalize_hard_failure_hooks: the i-th hook is called "hook-i" unless it says
\* otherwise; another may have that name already.
HookKey(f, i) == IF f.hooks[i].key = Blank THEN <<"hook", ToString(i)>> ELSE f.hooks[i].key

HooksAccepted(f) ==
    /\ \A i \in DOMAIN f.hooks : HookKey(f, i) # <<>> /\ f.hooks[i].command # Blank
    /\ IsInjective([i \in DOMAIN f.hooks |-> HookKey(f, i)])

\* from_stored returns a configuration.  gateway: the client id and the scopes are the
\* only ones there are, and openclaw.json is readable or missing.
Accepted(f) == f.gateway /\ ServersAccepted(f) /\ SinksAccepted(f) /\ HooksAccepted(f)

HasDbSink(f) == \E i \in DOMAIN f.sinks : f.sinks[i].enabled /\ f.sinks[i].kind = "db"

-----------------------------------------------------------------------------
(* setup. *)

\* Mutant of SameServer: the URLs are compared as they were typed.
SameSpelling(entry, c) == entry.url = c

\* An entry that cannot be made canonical matches nothing.
SameServer(entry, c) == Canonicalize(entry.url) = c

\* Mutant of UpsertServer: an entry that is there is not enabled.
UpsertAsItIs(entries, c) ==
    LET found == {i \in DOMAIN entries : SameServer(entries[i], c)}
        first == CHOOSE i \in found : \A j \in found : i <= j
    IN  IF found = {} THEN Append(entries, [url |-> c, enabled |-> TRUE])
        ELSE [entries EXCEPT ![first].url = c]

\* StoredConfig::upsert_server: the first entry for the server, or a new one.
UpsertServer(entries, c) ==
    LET found == {i \in DOMAIN entries : SameServer(entries[i], c)}
        first == CHOOSE i \in found : \A j \in found : i <= j
        entry == [url |-> c, enabled |-> TRUE]
    IN  IF found = {} THEN Append(entries, entry) ELSE [entries EXCEPT ![first] = entry]

\* perform_setup up to the save: a server whose directory holds a session is taken to
\* be registered, any other is asked to register the daemon, with the same identity.
\* What a setup that fails on the way leaves behind is the subject of Setup.
SetupSaves(raw) ==
    LET c == Canonicalize(raw) IN
    /\ IsServer(raw)
    /\ IF session[ServerKey(c)] # NoUrl THEN UNCHANGED <<session, registered>>
       ELSE /\ registered' = registered \cup {c}
            /\ session' = [session EXCEPT ![ServerKey(c)] = c]
    /\ stored' = [stored EXCEPT !.present = TRUE, !.servers = UpsertServer(@, c)]
    /\ setUp' = setUp \cup {c}

ConfigInit ==
    /\ stored \in Written
    /\ session = [k \in Keys |-> NoUrl]
    /\ registered = {} /\ setUp = {}

ConfigSpec == ConfigInit /\ [][\E raw \in Raws : SetupSaves(raw)]_configVars

ConfigTypeOK ==
    /\ stored \in Files
    /\ session \in [Keys -> Servers \cup {NoUrl}]
    /\ registered \subseteq Servers /\ setUp \subseteq Servers

-----------------------------------------------------------------------------
(* Properties. *)

\* No setup, however its URL is typed, turns a file that the daemon accepts into one
\* that it refuses at its next start (upsert_server looks for duplicates as
\* from_stored does).
SetupKeepsLoadable == [][Accepted(stored) => Accepted(stored')]_configVars

\* "Each setup call adds or updates exactly one server entry" (README.md): the servers
\* of an accepted file keep their places, at most one entry changes, and the server
\* that was set up is there, enabled.
SetupAddsOne ==
    [][Accepted(stored) /\ stored' # stored =>
        /\ \A i \in DOMAIN stored.servers :
              Canonicalize(stored'.servers[i].url) = Canonicalize(stored.servers[i].url)
        /\ \E i \in DOMAIN stored'.servers :
              /\ stored'.servers[i].enabled /\ stored'.servers[i].url \in setUp'
              /\ \A j \in DOMAIN stored.servers \ {i} : stored'.servers[j] = stored.servers[j]
              /\ DOMAIN stored'.servers = DOMAIN stored.servers \cup {i}
       ]_configVars

\* What the README says of setup: it "registers with the server using that keypair,
\* stores the per-server session credentials locally".  Whatever was set up before,
\* a server that has been set up has registered the daemon.
SetUpIsRegistered == setUp \subseteq registered
=============================================================================
