------------------------------ MODULE Attention ------------------------------
(***************************************************************************)
(* The attention layer of one server (attention/mod.rs, receptor.rs): how  *)
(* it is built at start-up from the receptor packs and the embedding       *)
(* backend, and how it then judges each inbound message.                   *)
(*                                                                         *)
(* A receptor is its identity, its class and the embedding space it asks   *)
(* for; the three interest classes (broad, intersection, project) are      *)
(* treated alike by the code and are one here.  A score is abstracted to   *)
(* the set of receptors whose threshold the message reaches.  A pack is    *)
(* "missing" (skipped by the loader), "loaded", "invalid" (readable text   *)
(* that the parser or the validation rejects) or "unreadable".  Directory  *)
(* entries come in any order, so the receptors are a set and the steps     *)
(* that walk through them take them in any order.                          *)
(***************************************************************************)
EXTENDS FiniteSets

CONSTANTS Receptors,   \* the receptor definitions of all the packs
          Packs        \* the entries of local_pack_paths

VARIABLES packOf,      \* the pack a definition is written in
          class,       \* its class
          space,       \* "own" if it names the backend's space or none
          packState,   \* what the loader finds at each path
          backend,     \* "none", "absent" (no executable) or "available"
          pc,          \* "new", "load", "compute", "ready"
          plugin,      \* AttentionLayer.plugin is Some
          todo,        \* the definitions compute_receptors has not reached
          receptors,   \* AttentionLayer.receptors
          vectors,     \* those of them that have a vector
          degraded, vetoUnavailable,
          result,      \* the last AttentionResult
          message      \* the message it was about

config == <<packOf, class, space, packState, backend>>
layer == <<plugin, receptors, vectors, degraded, vetoUnavailable>>
vars == <<config, pc, todo, layer, result, message>>

Dispositions == {"deliver", "filtered", "no_active_receptor", "vetoed",
                 "evaluation_unavailable", "veto_enforcement_unavailable"}

Matches == [receptor : Receptors, above : BOOLEAN]

\* What a message brings: "own" is an embedding in the layer's space, "other"
\* only embeddings in other spaces, "odd" one in the layer's space whose
\* length is not that of the receptors' vectors.
Messages == [embedding : {"none", "other", "odd"}, near : {{}}]
              \cup [embedding : {"own"}, near : SUBSET Receptors]

Results == [deliver : BOOLEAN, matches : SUBSET Matches, fallback : BOOLEAN,
            disposition : Dispositions \cup {"none"}, vetoNotEvaluated : BOOLEAN]

NoMessage == [embedding |-> "none", near |-> {}]

NoResult == [deliver |-> FALSE, matches |-> {}, fallback |-> FALSE,
             disposition |-> "none", vetoNotEvaluated |-> FALSE]

TypeOK ==
  /\ packOf \in [Receptors -> Packs]
  /\ class \in [Receptors -> {"interest", "wildcard", "veto"}]
  /\ space \in [Receptors -> {"own", "foreign"}]
  /\ packState \in [Packs -> {"missing", "loaded", "invalid", "unreadable"}]
  /\ backend \in {"none", "absent", "available"}
  /\ pc \in {"new", "load", "compute", "ready"}
  /\ plugin \in BOOLEAN
  /\ todo \subseteq Receptors
  /\ receptors \subseteq Receptors
  /\ vectors \subseteq receptors
  /\ degraded \in BOOLEAN
  /\ vetoUnavailable \in BOOLEAN
  /\ result \in Results
  /\ message \in Messages

IsVeto(r) == class[r] = "veto"
IsWildcard(r) == class[r] = "wildcard"
IsInterest(r) == class[r] = "interest"

Init ==
  /\ packOf \in [Receptors -> Packs]
  /\ class \in [Receptors -> {"interest", "wildcard", "veto"}]
  /\ space \in [Receptors -> {"own", "foreign"}]
  /\ packState \in [Packs -> {"missing", "loaded", "invalid", "unreadable"}]
  /\ backend \in {"none", "absent", "available"}
  /\ pc = "new"
  /\ plugin = FALSE
  /\ todo = {}
  /\ receptors = {}
  /\ vectors = {}
  /\ degraded = FALSE
  /\ vetoUnavailable = FALSE
  /\ result = NoResult
  /\ message = NoMessage

(***************************************************************************)
(* AttentionLayer::new.                                                    *)
(***************************************************************************)

\* The backend is looked at first.  Receptors without one degrade the layer,
\* and so does a backend whose executable is not there.
ChooseBackend ==
  /\ pc = "new"
  /\ plugin' = (backend = "available")
  /\ degraded' = (backend = "absent" \/ (backend = "none" /\ Packs # {}))
  /\ pc' = IF Packs = {} THEN "ready" ELSE "load"
  /\ UNCHANGED <<config, todo, receptors, vectors, vetoUnavailable, result, message>>

\* load_receptor_packs: a missing path is skipped, and the first pack that
\* cannot be read, parsed or validated fails the whole load.
LoadFailure == \E p \in Packs : packState[p] \in {"invalid", "unreadable"}

Loaded == {r \in Receptors : packState[packOf[r]] = "loaded"}

\* paths_contain_veto_receptor reads the files again, and cannot see into one
\* it cannot read.
PathsContainVeto ==
  \E r \in Receptors : IsVeto(r) /\ packState[packOf[r]] \in {"loaded", "invalid"}

LoadPacksFails ==
  /\ pc = "load"
  /\ LoadFailure
  /\ degraded' = TRUE
  /\ vetoUnavailable' = (vetoUnavailable \/ PathsContainVeto)
  /\ pc' = "ready"
  /\ UNCHANGED <<config, todo, plugin, receptors, vectors, result, message>>

LoadPacks ==
  /\ pc = "load"
  /\ ~LoadFailure
  /\ todo' = Loaded
  /\ pc' = "compute"
  /\ UNCHANGED <<config, layer, result, message>>

\* compute_receptors without a plugin keeps every definition, vectorless.
ComputeWithoutPlugin ==
  /\ pc = "compute"
  /\ ~plugin
  /\ receptors' = todo
  /\ vetoUnavailable' = (vetoUnavailable \/ \E r \in todo : IsVeto(r))
  /\ todo' = {}
  /\ pc' = "ready"
  /\ UNCHANGED <<config, plugin, vectors, degraded, result, message>>

ComputeWildcard(r) ==
  /\ pc = "compute"
  /\ plugin
  /\ r \in todo
  /\ IsWildcard(r)
  /\ receptors' = receptors \cup {r}
  /\ todo' = todo \ {r}
  /\ UNCHANGED <<config, pc, plugin, vectors, degraded, vetoUnavailable, result, message>>

ComputeVector(r) ==
  /\ pc = "compute"
  /\ plugin
  /\ r \in todo
  /\ ~IsWildcard(r)
  /\ space[r] = "own"
  /\ receptors' = receptors \cup {r}
  /\ vectors' = vectors \cup {r}
  /\ todo' = todo \ {r}
  /\ UNCHANGED <<config, pc, plugin, degraded, vetoUnavailable, result, message>>

\* Mutant of ComputeFails: a failure degrades the layer without a word on vetoes.
ComputeFailsQuietly(r) ==
  /\ pc = "compute"
  /\ plugin
  /\ r \in todo
  /\ ~IsWildcard(r)
  /\ degraded' = TRUE
  /\ todo' = {}
  /\ pc' = "ready"
  /\ UNCHANGED <<config, plugin, receptors, vectors, vetoUnavailable, result, message>>

\* A definition for another space is refused at once; otherwise the plugin may
\* fail to run, time out, answer an error or return no vector.  Definitions
\* computed before it stay in the layer; has_configured_veto looks at all.
ComputeFails(r) ==
  /\ pc = "compute"
  /\ plugin
  /\ r \in todo
  /\ ~IsWildcard(r)
  /\ degraded' = TRUE
  /\ vetoUnavailable' = (vetoUnavailable \/ \E d \in Loaded : IsVeto(d))
  /\ todo' = {}
  /\ pc' = "ready"
  /\ UNCHANGED <<config, plugin, receptors, vectors, result, message>>

ComputeDone ==
  /\ pc = "compute"
  /\ plugin
  /\ todo = {}
  /\ pc' = "ready"
  /\ UNCHANGED <<config, todo, layer, result, message>>

(***************************************************************************)
(* evaluate_with_embeddings: one action per way it returns.                *)
(***************************************************************************)

Answer(m, deliver, matches, fallback, disposition, vetoNotEvaluated) ==
  /\ pc = "ready"
  /\ message' = m
  /\ result' = [deliver |-> deliver, matches |-> matches, fallback |-> fallback,
                disposition |-> disposition, vetoNotEvaluated |-> vetoNotEvaluated]
  /\ UNCHANGED <<config, pc, todo, layer>>

\* select_message_vector: the first embedding in the layer's own space.
HasVector(m) == plugin /\ m.embedding \in {"own", "odd"}

\* cosine_similarity is 0 for vectors of different lengths, below any
\* threshold the packs are written with.
Above(m, r) == m.embedding = "own" /\ r \in m.near

Match(r, above) == [receptor |-> r, above |-> above]

Vetoes == {r \in receptors : IsVeto(r)}
Interests == receptors \ Vetoes
Wildcards == {r \in receptors : IsWildcard(r)}

\* A receptor is compared when it has a vector of the message's space.
Compared(S) == S \cap vectors

VetoMatches(m) == {Match(v, FALSE) : v \in Compared(Vetoes)}

EvaluateVetoUnavailable(m) ==
  /\ vetoUnavailable
  /\ Answer(m, FALSE, {}, FALSE, "veto_enforcement_unavailable", FALSE)

EvaluateDegraded(m) ==
  /\ ~vetoUnavailable
  /\ degraded
  /\ Answer(m, FALSE, {}, FALSE, "evaluation_unavailable", FALSE)

\* Mutant of Sound: a degraded layer goes on to judge with what it has.
SoundWhenDegraded == ~vetoUnavailable

Sound == ~vetoUnavailable /\ ~degraded

EvaluateNoReceptor(m) ==
  /\ Sound
  /\ receptors = {}
  /\ Answer(m, FALSE, {}, TRUE, "no_active_receptor", FALSE)

\* Some veto that is compared reaches its threshold.
Vetoed(m) == HasVector(m) /\ \E v \in Compared(Vetoes) : Above(m, v)

\* The vetoes before the first that matches are reported with it.
EvaluateVetoed(m) ==
  /\ Sound
  /\ Vetoed(m)
  /\ \E v \in Compared(Vetoes), before \in SUBSET Compared(Vetoes) :
       /\ Above(m, v)
       /\ \A b \in before : ~Above(m, b)
       /\ Answer(m, FALSE, {Match(v, TRUE)} \cup {Match(b, FALSE) : b \in before},
                 FALSE, "vetoed", FALSE)

VetoNotEvaluated(m) == Vetoes # {} /\ ~HasVector(m)

EvaluateVetoOnly(m) ==
  /\ Sound
  /\ receptors # {}
  /\ ~Vetoed(m)
  /\ Interests = {}
  /\ Answer(m, FALSE, IF HasVector(m) THEN VetoMatches(m) ELSE {}, TRUE,
            "no_active_receptor", VetoNotEvaluated(m))

EvaluateVetoBlind(m) ==
  /\ Sound
  /\ Interests # {}
  /\ VetoNotEvaluated(m)
  /\ Answer(m, FALSE, {}, FALSE, "evaluation_unavailable", TRUE)

\* The search for a wildcard finds the first one, if any.
FoundWildcard == IF Wildcards = {} THEN {{}} ELSE {{w} : w \in Wildcards}

WildcardMatch(W) == {Match(w, TRUE) : w \in W}

\* Mutant of EvaluatePlain: a wildcard takes a message whose veto was not evaluated.
EvaluatePlainDespiteVeto(m) ==
  /\ Sound
  /\ Interests # {}
  /\ ~HasVector(m)
  /\ \E W \in FoundWildcard :
       Answer(m, W # {}, WildcardMatch(W), FALSE,
              IF W # {} THEN "deliver" ELSE "filtered", FALSE)

\* No vector and no veto: only a wildcard can take the message.
EvaluatePlain(m) ==
  /\ Sound
  /\ Interests # {}
  /\ ~HasVector(m)
  /\ ~VetoNotEvaluated(m)
  /\ \E W \in FoundWildcard :
       Answer(m, W # {}, WildcardMatch(W), FALSE,
              IF W # {} THEN "deliver" ELSE "filtered", FALSE)

ScoredMatches(m) ==
  VetoMatches(m) \cup {Match(r, Above(m, r)) : r \in Compared(Interests)}

\* Mutant of EvaluateScored: the wildcard is not reported among the matches.
EvaluateScoredSilently(m) ==
  /\ Sound
  /\ Interests # {}
  /\ HasVector(m)
  /\ ~Vetoed(m)
  /\ \E W \in FoundWildcard :
       LET deliver == W # {} \/ \E r \in Compared(Interests) : Above(m, r)
       IN  Answer(m, deliver, ScoredMatches(m), FALSE,
                  IF deliver THEN "deliver" ELSE "filtered", FALSE)

\* Every interest receptor is scored, and a wildcard takes the message whatever
\* the scores.
EvaluateScored(m) ==
  /\ Sound
  /\ Interests # {}
  /\ HasVector(m)
  /\ ~Vetoed(m)
  /\ \E W \in FoundWildcard :
       LET deliver == W # {} \/ \E r \in Compared(Interests) : Above(m, r)
       IN  Answer(m, deliver, ScoredMatches(m) \cup WildcardMatch(W), FALSE,
                  IF deliver THEN "deliver" ELSE "filtered", FALSE)

Evaluate(m) ==
  \/ EvaluateVetoUnavailable(m)
  \/ EvaluateDegraded(m)
  \/ EvaluateNoReceptor(m)
  \/ EvaluateVetoed(m)
  \/ EvaluateVetoOnly(m)
  \/ EvaluateVetoBlind(m)
  \/ EvaluatePlain(m)
  \/ EvaluateScored(m)

Next ==
  \/ ChooseBackend
  \/ LoadPacksFails
  \/ LoadPacks
  \/ ComputeWithoutPlugin
  \/ \E r \in Receptors : ComputeWildcard(r) \/ ComputeVector(r) \/ ComputeFails(r)
  \/ ComputeDone
  \/ \E m \in Messages : Evaluate(m)

Spec == Init /\ [][Next]_vars

(***************************************************************************)
(* What health reports of the layer.                                       *)
(***************************************************************************)

DeliveryMode ==
  IF vetoUnavailable THEN "veto_enforcement_unavailable"
  ELSE IF degraded THEN "evaluation_unavailable"
  ELSE IF receptors = {} THEN "no_active_receptors"
  ELSE IF Interests = {} THEN "veto_only_no_positive_receptors"
  ELSE "receptor_gated"

VetoEnforcementState ==
  IF vetoUnavailable THEN "unavailable"
  ELSE IF Vetoes # {} THEN "ready"
  ELSE "not_configured"

(***************************************************************************)
(* The properties.                                                         *)
(***************************************************************************)

\* ensure_receptor_accepted_for_sink_delivery, the gate of the delivery store.
PassesGate(r) ==
  /\ r.deliver
  /\ r.disposition = "deliver"
  /\ ~r.vetoNotEvaluated
  /\ ~r.fallback
  /\ \E x \in r.matches : x.above /\ ~IsVeto(x.receptor)

\* A result that says deliver always passes the delivery store's own gate
\* (storage.rs).  The wake router treats a refusal by the store as fatal, so a
\* result that failed the gate would end the daemon, and again on each replay.
DeliverPassesGate == result.deliver => PassesGate(result)

\* The vetoes the operator configured: those in packs that are there.
ConfiguredVetoes == {r \in Receptors : IsVeto(r) /\ packState[packOf[r]] # "missing"}

\* evaluate_with_embeddings fails closed: a message is delivered only if every
\* veto of every pack that exists, however start-up went, was embedded, was
\* compared with an embedding of the message and did not reach its threshold.
VetoFailClosed ==
  result.deliver =>
    \A v \in ConfiguredVetoes :
      v \in vectors /\ message.embedding \in {"own", "odd"} /\ ~Above(message, v)

\* Health never flatters: messages are delivered only under "receptor_gated",
\* and veto enforcement is "ready" only if every configured veto has its vector.
HealthIsHonest ==
  /\ result.deliver => DeliveryMode = "receptor_gated"
  /\ pc = "ready" /\ VetoEnforcementState = "ready" => ConfiguredVetoes \subseteq vectors

Embedded(S) == {r \in S : ~IsWildcard(r)}

\* The backend is there, every pack was read and every receptor embedded.
Usable == backend = "available" /\ ~LoadFailure /\ Embedded(Loaded) \subseteq vectors

\* Delivery as the documentation tells it (README, "How receptors work" and "Using a
\* wildcard receptor"): every configured veto is evaluated and none is reached, and a
\* loaded pack has a wildcard, which needs no embedding, or an interest that is
\* reached, which can be proven only by a layer that is not degraded.
Policy(m) ==
  /\ \A v \in ConfiguredVetoes :
       v \in vectors /\ m.embedding \in {"own", "odd"} /\ ~Above(m, v)
  /\ \/ \E r \in Loaded : IsWildcard(r)
     \/ Usable /\ \E r \in Loaded : IsInterest(r) /\ Above(m, r)

\* Nothing is delivered that the documented policy keeps back, in any of the eight
\* ways that evaluate_with_embeddings has of returning.  What the policy lets through
\* is delivered too, with one exception: the code follows the documentation's "if the
\* embedding plugin is unavailable or degraded, delivery fails closed" for wildcards
\* as well, and then health says that evaluation is not available.
DeliveryIsPolicy ==
  [][pc = "ready" =>
       /\ result'.deliver => Policy(message')
       /\ Policy(message') /\ ~result'.deliver =>
            /\ ~Usable
            /\ DeliveryMode \in {"evaluation_unavailable", "veto_enforcement_unavailable"}]_vars

(***************************************************************************)
(* The inductive invariant behind them: what start-up has made of the      *)
(* packs so far, that a layer which is ready is either complete or says    *)
(* that it is not, and that a delivery was due.                            *)
(***************************************************************************)

\* What evaluate_with_embeddings comes to: the policy, in a layer that is usable.
Decision(m) ==
  /\ Usable
  /\ \A v \in Loaded : IsVeto(v) => m.embedding \in {"own", "odd"} /\ ~Above(m, v)
  /\ \E r \in Loaded : IsWildcard(r) \/ (IsInterest(r) /\ Above(m, r))

StartInv ==
  /\ pc \in {"new", "load"} => receptors = {} /\ vectors = {} /\ ~vetoUnavailable
  /\ pc = "new" => ~degraded
  /\ pc # "new" => (plugin <=> backend = "available") /\ (plugin \/ degraded \/ Packs = {})
  /\ pc \in {"load", "compute"} => (degraded <=> ~plugin)
  /\ pc = "compute" =>
       /\ ~LoadFailure /\ ~vetoUnavailable
       /\ todo \subseteq Loaded /\ (plugin \/ todo = Loaded)
       /\ receptors = Loaded \ todo
       /\ vectors = Embedded(receptors)

ReadyInv ==
  pc = "ready" =>
    /\ receptors \subseteq Loaded
    /\ Sound => ~LoadFailure /\ receptors = Loaded /\ vectors = Embedded(Loaded)
    /\ ~Sound => ~Usable
    /\ Vetoes # {} /\ ~vetoUnavailable => ~degraded

ResultInv == result.deliver => pc = "ready" /\ Decision(message) /\ PassesGate(result)

Inv == TypeOK /\ StartInv /\ ReadyInv /\ ResultInv
=============================================================================
