------------------------------ MODULE Outbound ------------------------------
(***************************************************************************)
(* The embeddings of an outgoing message (attention/mod.rs, ipc.rs): those *)
(* the caller brings and those the daemon's plugins make, merged by space. *)
(*                                                                         *)
(* A space is named by text that may have blanks around it: the names the  *)
(* caller wants made are trimmed, the names of what it brings are not.  A  *)
(* vector is who made it: <<"caller", i>> for the i-th embedding of the    *)
(* request, <<"daemon", i>> for the i-th backend of the configuration.     *)
(***************************************************************************)
EXTENDS Naturals, Sequences

CONSTANTS Spaces,      \* space ids
          Generated,   \* is_supported_generated_space
          Requests     \* what senders ask for

Names == [id : Spaces, padded : BOOLEAN]

ASSUME OutboundAssumption ==
    /\ Generated \subseteq Spaces
    /\ Requests \subseteq [supplied : Seq(Names), wanted : Seq(Names), override : BOOLEAN]

Exact(s) == [id |-> s, padded |-> FALSE]

\* validate_embedding_request lets it through; empty names and empty vectors are
\* refused and are not among the names.
Valid(req) == \A i \in DOMAIN req.wanted : req.wanted[i].id \in Generated

\* The backends that configured_generated_embedding_clients makes clients of.
Usable(backends) ==
    {i \in DOMAIN backends :
        backends[i].enabled /\ backends[i].space \in Generated /\ backends[i].installed}

\* Collected into a map by space: of several backends for one space, the last.
Clients(backends) ==
    [s \in {backends[i].space : i \in Usable(backends)} |->
        CHOOSE i \in Usable(backends) :
            /\ backends[i].space = s
            /\ \A j \in Usable(backends) : backends[j].space = s => j <= i]

Wanted(req) == {req.wanted[i].id : i \in DOMAIN req.wanted}

Supplied(req) == {req.supplied[i] : i \in DOMAIN req.supplied}

\* Mutant of Skips: what the caller brings is never made again.
SkipsSupplied(req, s) == Exact(s) \in Supplied(req)

\* The daemon does not make what the caller brings, unless it is asked to override.
Skips(req, s) == ~req.override /\ Exact(s) \in Supplied(req)

\* The spaces a plugin is run for.
Tried(req, clients) == {s \in Wanted(req) \cap DOMAIN clients : ~Skips(req, s)}

\* Inserting the caller's embeddings into a map, or the daemon's: the last one of a
\* name stays.
ByCaller(req) ==
    [n \in Supplied(req) |->
        <<"caller", CHOOSE i \in DOMAIN req.supplied :
                        /\ req.supplied[i] = n
                        /\ \A j \in DOMAIN req.supplied : req.supplied[j] = n => j <= i>>]

ByDaemon(made, clients) == [n \in {Exact(s) : s \in made} |-> <<"daemon", clients[n.id]>>]

\* f, then g inserted over it.
Insert(f, g) ==
    [n \in DOMAIN f \cup DOMAIN g |-> IF n \in DOMAIN g THEN g[n] ELSE f[n]]

\* merge_outbound_embeddings.
Merge(supplied, generated, override) ==
    IF override THEN Insert(supplied, generated) ELSE Insert(generated, supplied)

\* compose_outbound_embeddings, when the plugins of the spaces in failing fail, time
\* out or return nothing.
Compose(req, clients, failing) ==
    Merge(ByCaller(req), ByDaemon(Tried(req, clients) \ failing, clients), req.override)

\* What the README promises of a send, space by space, whatever plugins fail:
\* "Caller-supplied embeddings win duplicate space_id collisions unless
\* generated_embeddings_override_supplied is true"; a failing plugin costs no more than
\* its own space, and not even that if the caller brought the space too; a space that
\* is wanted, not brought, and made, is there; and nothing else is.
FollowsRequest(req, clients, failing) ==
    LET out == Compose(req, clients, failing)
        made(n) == ~n.padded /\ n.id \in Wanted(req) \cap DOMAIN clients /\ n.id \notin failing
    IN  /\ DOMAIN out = Supplied(req) \cup {n \in Names : made(n)}
        /\ \A n \in DOMAIN out :
              IF n \in Supplied(req) /\ ~(req.override /\ made(n))
              THEN \E i \in DOMAIN req.supplied : req.supplied[i] = n /\ out[n] = <<"caller", i>>
              ELSE out[n] = <<"daemon", clients[n.id]>>
=============================================================================
