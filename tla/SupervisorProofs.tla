-------------------------- MODULE SupervisorProofs --------------------------
(***************************************************************************)
(* Proofs about Supervisor and the modules it is made of, for any URLs,    *)
(* files, hooks, events and tasks.                                         *)
(*                                                                         *)
(* What setup adds to config.json rests on one fact about URLs: making one *)
(* canonical twice is making it so once.  That the supervisor's last       *)
(* report reaches the hooks rests on IInv: whatever the throttle remembers *)
(* was really run, and two hooks never share a key, which from_stored      *)
(* guarantees and every start hands on to the process.                     *)
(***************************************************************************)
EXTENDS Supervisor, SequenceTheorems, WellFoundedInduction, TLAPS

USE DEF joinVars

-----------------------------------------------------------------------------
(* Induction. *)

\* A set of natural numbers that has an element has a least one.
LEMMA LeastNat ==
    ASSUME NEW T \in SUBSET Nat, T # {}
    PROVE  \E x \in T : \A y \in T : x <= y
<1> DEFINE R == {ss \in Nat \X Nat : ss[1] < ss[2]}
<1>1. IsWellFoundedOn(R, Nat)
  BY NatLessThanWellFounded DEF OpToRel
<1>2. PICK x \in T : \A y \in T : ~(<<y, x>> \in R)
  <2> HIDE DEF R
  <2> QED
    BY <1>1, WFMin
<1>3. \A y \in T : ~(y < x)
  BY <1>2
<1> QED
  BY <1>2, <1>3

\* Induction up to a bound, with a set in place of the predicate.
LEMMA UpTo ==
    ASSUME NEW N \in Nat, NEW S, 0 \in S, \A n \in 1..N : n - 1 \in S => n \in S
    PROVE  0..N \subseteq S
<1> DEFINE T == (0..N) \ S
<1> SUFFICES ASSUME T # {} PROVE FALSE
  OBVIOUS
<1>1. T \in SUBSET Nat
  OBVIOUS
<1>2. PICK n \in T : \A m \in T : n <= m
  BY <1>1, LeastNat
<1>3. n \in 1..N /\ n - 1 \in 0..N /\ n - 1 \notin T
  BY <1>2
<1> QED
  BY <1>2, <1>3

-----------------------------------------------------------------------------
(* Server URLs. *)

\* A URL that has been made canonical is a URL, and making it canonical again changes
\* nothing (canonicalize_base_url).
LEMMA CanonicalTwice ==
    ASSUME NEW u \in Urls, Canonicalize(u) # NoUrl
    PROVE  /\ Canonicalize(u) \in Urls
           /\ Canonicalize(Canonicalize(u)) = Canonicalize(u)
           /\ Canonicalize(u).host = u.host
<1> DEFINE c == Canonicalize(u)
<1>1. ~u.bad /\ u.scheme \in {"http", "https"}
  BY DEF Canonicalize
<1>2. PICK p \in {NoPort, u.port} :
        /\ c = [u EXCEPT !.loose = FALSE, !.port = p]
        /\ p = IF EffectivePort(u) = DefaultPort(u.scheme) THEN NoPort ELSE u.port
  BY <1>1 DEF Canonicalize
<1>3. p \in STRING \cup {NoPort}
  BY <1>2 DEF Urls
<1>4. /\ c \in Urls /\ c.port = p /\ c.loose = FALSE /\ c.bad = u.bad
      /\ c.scheme = u.scheme /\ c.host = u.host
  BY <1>2, <1>3 DEF Urls
<1>5. (IF EffectivePort(c) = DefaultPort(c.scheme) THEN NoPort ELSE c.port) = p
  BY <1>2, <1>4 DEF EffectivePort
<1>6. Canonicalize(c) = [c EXCEPT !.loose = FALSE, !.port = p]
  BY <1>1, <1>4, <1>5 DEF Canonicalize
<1>7. [c EXCEPT !.loose = FALSE, !.port = p] = c
  BY <1>4 DEF Urls
<1> QED
  BY <1>4, <1>6, <1>7

\* A server is a canonical URL and a server when it is read back.
LEMMA ServerFacts ==
    ASSUME NEW c \in Servers
    PROVE  c \in Urls /\ c # NoUrl /\ Canonicalize(c) = c /\ IsServer(c)
<1>1. PICK u \in Raws : IsServer(u) /\ c = Canonicalize(u)
  BY DEF Servers
<1>2. u \in Urls /\ NoUrl \notin Urls
  BY ConfigAssumption
<1> QED
  BY <1>1, <1>2, CanonicalTwice DEF IsServer

\* What a URL of a file or of a setup becomes is one of the servers.
LEMMA TypedIsServer ==
    ASSUME NEW u \in Raws \cup Servers, IsServer(u)
    PROVE  Canonicalize(u) \in Servers
BY ServerFacts DEF Servers

-----------------------------------------------------------------------------
(* setup and config.json. *)

\* upsert_server keeps the list a list of entries.
LEMMA UpsertType ==
    ASSUME NEW q \in Seq(Entries), NEW c \in Servers
    PROVE  UpsertServer(q, c) \in Seq(Entries)
<1> DEFINE found == {i \in DOMAIN q : SameServer(q[i], c)}
           first == CHOOSE i \in found : \A j \in found : i <= j
           entry == [url |-> c, enabled |-> TRUE]
<1>1. entry \in Entries
  BY DEF Entries
<1>2. UpsertServer(q, c) \in {Append(q, entry), [q EXCEPT ![first] = entry]}
  BY DEF UpsertServer
<1> HIDE DEF first, entry
<1>3. Append(q, entry) \in Seq(Entries)
  BY <1>1
<1>4. q \in [1..Len(q) -> Entries] /\ Len(q) \in Nat
  OBVIOUS
<1>5. [q EXCEPT ![first] = entry] \in [1..Len(q) -> Entries]
  BY <1>1, <1>4
<1>6. [q EXCEPT ![first] = entry] \in Seq(Entries)
  BY <1>4, <1>5, SeqDef
<1> QED
  BY <1>2, <1>3, <1>6

\* A setup keeps the types of what it writes, and saves a server.
LEMMA SetupSavesType ==
    ASSUME ConfigTypeOK, NEW raw \in Raws, SetupSaves(raw)
    PROVE  ConfigTypeOK' /\ Canonicalize(raw) \in Servers
<1> DEFINE c == Canonicalize(raw)
<1>1. c \in Servers /\ ServerKey(c) \in Keys
  BY DEF SetupSaves, Servers, Keys
<1> HIDE DEF c
<1>2. UpsertServer(stored.servers, c) \in Seq(Entries)
  BY <1>1, UpsertType DEF ConfigTypeOK, Files
<1>3. stored' = [stored EXCEPT !.present = TRUE, !.servers = UpsertServer(stored.servers, c)]
  BY DEF SetupSaves, c
<1>4. stored' \in Files
  BY <1>2, <1>3 DEF ConfigTypeOK, Files
<1>5. session' \in [Keys -> Servers \cup {NoUrl}] /\ registered' \subseteq Servers
  <2>1. CASE session[ServerKey(c)] # NoUrl
    BY <2>1 DEF SetupSaves, ConfigTypeOK, c
  <2>2. CASE session[ServerKey(c)] = NoUrl
    <3>1. registered' = registered \cup {c} /\ session' = [session EXCEPT ![ServerKey(c)] = c]
      BY <2>2 DEF SetupSaves, c
    <3> QED
      BY <1>1, <3>1 DEF ConfigTypeOK
  <2> QED
    BY <2>1, <2>2
<1>6. setUp' \subseteq Servers
  BY <1>1 DEF SetupSaves, ConfigTypeOK, c
<1> QED
  BY <1>1, <1>4, <1>5, <1>6 DEF ConfigTypeOK, c

\* No two entries of a list are for one server.
OneEach(q) ==
    \A i, j \in DOMAIN q : Canonicalize(q[i].url) = Canonicalize(q[j].url) => i = j

\* The list r is q with c, enabled, at a place where there was this server or nothing.
OneEntryFor(q, c, r) ==
    \E i \in DOMAIN r :
        /\ r[i] = [url |-> c, enabled |-> TRUE]
        /\ DOMAIN r = DOMAIN q \cup {i}
        /\ \A j \in DOMAIN q \ {i} : r[j] = q[j] /\ Canonicalize(q[j].url) # c
        /\ i \in DOMAIN q => Canonicalize(q[i].url) = c

\* That is what upsert_server makes of the list of an accepted file.
LEMMA UpsertFacts ==
    ASSUME NEW q \in Seq(Entries), NEW c \in Servers, OneEach(q)
    PROVE  OneEntryFor(q, c, UpsertServer(q, c))
<1> DEFINE found == {i \in DOMAIN q : SameServer(q[i], c)}
           first == CHOOSE i \in found : \A j \in found : i <= j
           entry == [url |-> c, enabled |-> TRUE]
           r == UpsertServer(q, c)
<1>1. CASE found = {}
  <2>1. r = Append(q, entry)
    BY <1>1 DEF UpsertServer
  <2>2. \A j \in DOMAIN q : Canonicalize(q[j].url) # c
    BY <1>1 DEF SameServer
  <2> HIDE DEF r, entry, found
  <2>3. /\ DOMAIN q = 1..Len(q) /\ Len(q) \in Nat
        /\ DOMAIN r = 1..Len(q) + 1 /\ r[Len(q) + 1] = entry
        /\ \A j \in 1..Len(q) : r[j] = q[j]
    BY <2>1
  <2>4. Len(q) + 1 \in DOMAIN r /\ DOMAIN r = DOMAIN q \cup {Len(q) + 1}
    BY <2>3
  <2>5. Len(q) + 1 \notin DOMAIN q
    BY <2>3
  <2>6. /\ r[Len(q) + 1] = entry
        /\ \A j \in DOMAIN q \ {Len(q) + 1} : r[j] = q[j] /\ Canonicalize(q[j].url) # c
    BY <2>2, <2>3
  <2> QED
    BY <2>4, <2>5, <2>6 DEF r, entry, OneEntryFor
<1>2. CASE found # {}
  <2>1. PICK k \in DOMAIN q : SameServer(q[k], c)
    BY <1>2
  <2>2. \A j \in DOMAIN q : Canonicalize(q[j].url) = c => j = k
    BY <2>1 DEF SameServer, OneEach
  <2>3. found = {k}
    BY <2>1, <2>2 DEF SameServer
  <2>4. k \in Nat
    BY <2>1
  <2>5. first = k
    BY <2>3, <2>4
  <2>6. r = [q EXCEPT ![first] = entry]
    BY <1>2 DEF UpsertServer
  <2> HIDE DEF r, entry, found, first
  <2>7. DOMAIN r = DOMAIN q /\ r[k] = entry /\ \A j \in DOMAIN q \ {k} : r[j] = q[j]
    BY <2>1, <2>5, <2>6
  <2>8. Canonicalize(q[k].url) = c
    BY <2>1 DEF SameServer
  <2> QED
    BY <2>1, <2>2, <2>7, <2>8 DEF r, entry, OneEntryFor
<1> QED
  BY <1>1, <1>2

\* No setup turns an accepted file into one that is refused.
LEMMA SetupKeepsAccepted ==
    ASSUME ConfigTypeOK, NEW raw \in Raws, SetupSaves(raw), Accepted(stored)
    PROVE  Accepted(stored')
<1> DEFINE c == Canonicalize(raw)
           q == stored.servers
           r == UpsertServer(q, c)
           entry == [url |-> c, enabled |-> TRUE]
<1>1. c \in Servers /\ q \in Seq(Entries)
  BY SetupSavesType DEF ConfigTypeOK, Files
<1>2. stored' = [stored EXCEPT !.present = TRUE, !.servers = r]
  BY DEF SetupSaves
<1>3. /\ \A j \in DOMAIN q : IsServer(q[j].url)
      /\ OneEach(q)
  BY DEF Accepted, ServersAccepted, IsInjective, OneEach
<1>4. IsServer(c) /\ Canonicalize(c) = c
  BY <1>1, ServerFacts
<1> HIDE DEF c, q
<1>5. OneEntryFor(q, c, r)
  BY <1>1, <1>3, UpsertFacts
<1> HIDE DEF r
<1>6. PICK i \in DOMAIN r :
        /\ r[i] = entry
        /\ DOMAIN r = DOMAIN q \cup {i}
        /\ \A j \in DOMAIN q \ {i} : r[j] = q[j] /\ Canonicalize(q[j].url) # c
        /\ i \in DOMAIN q => Canonicalize(q[i].url) = c
  BY <1>5 DEF OneEntryFor
<1>7. /\ stored'.servers = r /\ stored'.gateway = stored.gateway
      /\ stored'.sinks = stored.sinks /\ stored'.hooks = stored.hooks
  BY <1>2 DEF ConfigTypeOK, Files
<1>8. \A j \in DOMAIN r : IsServer(r[j].url)
  BY <1>3, <1>4, <1>6
<1>9. \A j, k \in DOMAIN r : Canonicalize(r[j].url) = Canonicalize(r[k].url) => j = k
  <2>1. Canonicalize(r[i].url) = c
    BY <1>4, <1>6
  <2> QED
    BY <1>3, <1>6, <2>1 DEF OneEach
<1>10. ServersAccepted(stored')
  BY <1>7, <1>8, <1>9 DEF ServersAccepted, IsInjective
<1>11. SinksAccepted(stored') /\ HooksAccepted(stored')
  BY <1>7 DEF Accepted, SinksAccepted, HooksAccepted, SinkKey, HookKey
<1> QED
  BY <1>7, <1>10, <1>11 DEF Accepted

\* A setup leaves every server of an accepted file where it is and changes one entry.
LEMMA SetupChangesOne ==
    ASSUME ConfigTypeOK, NEW raw \in Raws, SetupSaves(raw), Accepted(stored)
    PROVE  /\ \A i \in DOMAIN stored.servers :
                 Canonicalize(stored'.servers[i].url) = Canonicalize(stored.servers[i].url)
           /\ \E i \in DOMAIN stored'.servers :
                 /\ stored'.servers[i].enabled /\ stored'.servers[i].url \in setUp'
                 /\ \A j \in DOMAIN stored.servers \ {i} :
                       stored'.servers[j] = stored.servers[j]
                 /\ DOMAIN stored'.servers = DOMAIN stored.servers \cup {i}
<1> DEFINE c == Canonicalize(raw)
           q == stored.servers
           r == UpsertServer(q, c)
           entry == [url |-> c, enabled |-> TRUE]
<1>1. c \in Servers /\ q \in Seq(Entries) /\ c \in setUp'
  BY SetupSavesType DEF ConfigTypeOK, Files, SetupSaves
<1>2. stored' = [stored EXCEPT !.present = TRUE, !.servers = r]
  BY DEF SetupSaves
<1>3. OneEach(q)
  BY DEF Accepted, ServersAccepted, IsInjective, OneEach
<1>4. Canonicalize(c) = c
  BY <1>1, ServerFacts
<1> HIDE DEF c, q
<1>5. OneEntryFor(q, c, r)
  BY <1>1, <1>3, UpsertFacts
<1> HIDE DEF r
<1>6. PICK i \in DOMAIN r :
        /\ r[i] = entry
        /\ DOMAIN r = DOMAIN q \cup {i}
        /\ \A j \in DOMAIN q \ {i} : r[j] = q[j] /\ Canonicalize(q[j].url) # c
        /\ i \in DOMAIN q => Canonicalize(q[i].url) = c
  BY <1>5 DEF OneEntryFor
<1>7. stored'.servers = r
  BY <1>2 DEF ConfigTypeOK, Files
<1>8. \A j \in DOMAIN q : Canonicalize(r[j].url) = Canonicalize(q[j].url)
  BY <1>4, <1>6
<1>9. r[i].enabled /\ r[i].url \in setUp'
  BY <1>1, <1>6
<1> QED
  BY <1>6, <1>7, <1>8, <1>9 DEF q

-----------------------------------------------------------------------------
(* The hooks. *)

\* No two hooks share a key.
HooksDistinct ==
    \A i, j \in 1..Len(hooks) : hooks[i].key = hooks[j].key => i = j

\* What the throttle remembers of a hook was run in this process.
SentIsTried ==
    \A i \in 1..Len(hooks) : \A e \in Events :
        ThrottleKey(hooks[i], e) \in lastSent => <<i, e>> \in tried

\* So was the hook whose child is written to or waited for.
ChildIsTried == \A f \in Firers : child[f] # "none" => <<at[f], firing[f]>> \in tried

HookInv == HookTypeOK /\ HooksDistinct /\ SentIsTried /\ ChildIsTried

\* A task that is not reporting begins to report.
LEMMA FireBeginsInv ==
    ASSUME HookInv, NEW f \in Firers, NEW e \in Events, Idle(f), FireBegins(f, e)
    PROVE  HookInv'
<1>1. /\ firing' = [firing EXCEPT ![f] = e] /\ at' = [at EXCEPT ![f] = 1]
      /\ UNCHANGED <<hooks, lastSent, child, tried>> /\ child[f] = "none"
  BY DEF FireBegins, HookInv, HookTypeOK, Idle
<1>2. HookTypeOK'
  BY <1>1 DEF HookInv, HookTypeOK
<1>3. HooksDistinct' /\ SentIsTried'
  BY <1>1 DEF HookInv, HooksDistinct, SentIsTried, ThrottleKey
<1>4. ChildIsTried'
  BY <1>1 DEF HookInv, HookTypeOK, ChildIsTried
<1> QED
  BY <1>2, <1>3, <1>4 DEF HookInv

\* A hook is passed over, run, given its payload, or over.
LEMMA HookPassedInv ==
    ASSUME HookInv, NEW f \in Firers, HookPassed(f)
    PROVE  HookInv'
<1>1. /\ at' = [at EXCEPT ![f] = at[f] + 1] /\ child[f] = "none" /\ at[f] <= Len(hooks)
      /\ UNCHANGED <<hooks, lastSent, firing, child, tried>>
  BY DEF HookPassed, AtHook, HookInv, HookTypeOK
<1>2. HookTypeOK'
  BY <1>1 DEF HookInv, HookTypeOK
<1>3. HooksDistinct' /\ SentIsTried'
  BY <1>1 DEF HookInv, HooksDistinct, SentIsTried, ThrottleKey
<1>4. ChildIsTried'
  BY <1>1 DEF HookInv, HookTypeOK, ChildIsTried
<1> QED
  BY <1>2, <1>3, <1>4 DEF HookInv

LEMMA HookRunsInv ==
    ASSUME HookInv, NEW f \in Firers, HookRuns(f)
    PROVE  HookInv'
<1> DEFINE k == at[f]
           e == firing[f]
<1>1. /\ k \in 1..Len(hooks) /\ e \in Events /\ Len(hooks) \in Nat
      /\ child' = [child EXCEPT ![f] = "writing"] /\ tried' = tried \cup {<<k, e>>}
      /\ lastSent' \subseteq lastSent \cup {ThrottleKey(hooks[k], e)}
      /\ UNCHANGED <<hooks, firing, at>>
  BY DEF HookRuns, AtHook, HookInv, HookTypeOK
<1> HIDE DEF k, e
<1>2. HookTypeOK'
  <2>1. child' \in [Firers -> {"none", "writing", "waiting"}]
    BY <1>1 DEF HookInv, HookTypeOK
  <2>2. \A g \in Firers : child'[g] # "none" => firing[g] # NoEvent /\ at[g] <= Len(hooks)
    BY <1>1, HookAssumption DEF HookInv, HookTypeOK, k, e
  <2>3. tried' \subseteq (1..Len(hooks)) \X Events
    BY <1>1 DEF HookInv, HookTypeOK
  <2>4. \A p \in lastSent' : p[2] \in Events
    BY <1>1 DEF HookInv, HookTypeOK, ThrottleKey
  <2> QED
    BY <1>1, <2>1, <2>2, <2>3, <2>4 DEF HookInv, HookTypeOK
<1>3. HooksDistinct'
  BY <1>1 DEF HookInv, HooksDistinct
<1>4. SentIsTried'
  <2>1. SUFFICES ASSUME NEW i \in 1..Len(hooks), NEW x \in Events,
                        ThrottleKey(hooks[i], x) \in lastSent'
                 PROVE  <<i, x>> \in tried'
    BY <1>1 DEF SentIsTried, ThrottleKey
  <2>2. CASE ThrottleKey(hooks[i], x) \in lastSent
    BY <1>1, <2>2 DEF HookInv, SentIsTried
  <2>3. CASE ThrottleKey(hooks[i], x) = ThrottleKey(hooks[k], e)
    <3>1. hooks[i].key = hooks[k].key /\ x = e
      BY <2>3 DEF ThrottleKey
    <3>2. i = k
      BY <1>1, <3>1 DEF HookInv, HooksDistinct
    <3> QED
      BY <1>1, <3>1, <3>2
  <2> QED
    BY <1>1, <2>1, <2>2, <2>3
<1>5. ChildIsTried'
  BY <1>1 DEF HookInv, HookTypeOK, ChildIsTried, k, e
<1> QED
  BY <1>2, <1>3, <1>4, <1>5 DEF HookInv

LEMMA HookWritesInv ==
    ASSUME HookInv, NEW f \in Firers, HookWrites(f)
    PROVE  HookInv'
<1>1. /\ child' = [child EXCEPT ![f] = "waiting"] /\ child[f] = "writing"
      /\ UNCHANGED <<hooks, lastSent, firing, at, tried>>
  BY DEF HookWrites
<1>2. HookTypeOK'
  BY <1>1 DEF HookInv, HookTypeOK
<1>3. HooksDistinct' /\ SentIsTried'
  BY <1>1 DEF HookInv, HooksDistinct, SentIsTried, ThrottleKey
<1>4. ChildIsTried'
  BY <1>1 DEF HookInv, HookTypeOK, ChildIsTried
<1> QED
  BY <1>2, <1>3, <1>4 DEF HookInv

LEMMA HookOverInv ==
    ASSUME HookInv, NEW f \in Firers, HookOver(f)
    PROVE  HookInv'
<1>1. /\ at' = [at EXCEPT ![f] = at[f] + 1] /\ child' = [child EXCEPT ![f] = "none"]
      /\ at[f] <= Len(hooks) /\ UNCHANGED <<hooks, lastSent, firing, tried>>
  BY DEF HookOver, HookInv, HookTypeOK
<1>2. HookTypeOK'
  BY <1>1 DEF HookInv, HookTypeOK
<1>3. HooksDistinct' /\ SentIsTried'
  BY <1>1 DEF HookInv, HooksDistinct, SentIsTried, ThrottleKey
<1>4. ChildIsTried'
  BY <1>1 DEF HookInv, HookTypeOK, ChildIsTried
<1> QED
  BY <1>2, <1>3, <1>4 DEF HookInv

LEMMA FireReturnsInv ==
    ASSUME HookInv, NEW f \in Firers, FireReturns(f)
    PROVE  HookInv'
<1>1. /\ at' = [at EXCEPT ![f] = 1] /\ firing' = [firing EXCEPT ![f] = NoEvent]
      /\ child[f] = "none" /\ UNCHANGED <<hooks, lastSent, child, tried>>
  BY DEF FireReturns, HookInv, HookTypeOK
<1>2. HookTypeOK'
  BY <1>1 DEF HookInv, HookTypeOK
<1>3. HooksDistinct' /\ SentIsTried'
  BY <1>1 DEF HookInv, HooksDistinct, SentIsTried, ThrottleKey
<1>4. ChildIsTried'
  BY <1>1 DEF HookInv, HookTypeOK, ChildIsTried
<1> QED
  BY <1>2, <1>3, <1>4 DEF HookInv

LEMMA WindowPassesInv ==
    ASSUME HookInv, NEW p, WindowPasses(p)
    PROVE  HookInv'
<1>1. lastSent' \subseteq lastSent /\ UNCHANGED <<hooks, firing, at, child, tried>>
  BY DEF WindowPasses
<1>2. HookTypeOK'
  BY <1>1 DEF HookInv, HookTypeOK
<1>3. HooksDistinct' /\ SentIsTried' /\ ChildIsTried'
  BY <1>1 DEF HookInv, HooksDistinct, SentIsTried, ThrottleKey, ChildIsTried
<1> QED
  BY <1>2, <1>3 DEF HookInv

\* A process that ends leaves nothing behind.
LEMMA HooksLostInv ==
    ASSUME HooksLost
    PROVE  HookInv' /\ hooks' = <<>> /\ lastSent' = {} /\ firing' = [f \in Firers |-> NoEvent]
<1>1. Len(<<>>) = 0
  OBVIOUS
<1> QED
  BY <1>1 DEF HooksLost, HookInv, HookTypeOK, HooksDistinct, SentIsTried, ChildIsTried

\* A fresh process has the hooks of its configuration.
LEMMA HooksNewInv ==
    ASSUME HookInv, hooks = <<>>, lastSent = {}, NEW c \in Files, HooksAccepted(c),
           HooksNew(Hooks(c))
    PROVE  HookInv'
<1>1. /\ hooks' = Hooks(c) /\ Len(hooks) = 0
      /\ UNCHANGED <<lastSent, firing, at, child, tried>>
  BY DEF HooksNew
<1> DEFINE hs == c.hooks
           H == [key : Labels, command : Labels, throttled : BOOLEAN, enabled : BOOLEAN]
<1>2. hs \in Seq(H)
  BY DEF Files
<1> HIDE DEF hs
<1>3. /\ DOMAIN hs = 1..Len(hs) /\ Len(hs) \in Nat
      /\ \A i \in 1..Len(hs) : hs[i].throttled \in BOOLEAN /\ hs[i].enabled \in BOOLEAN
  <2>1. DOMAIN hs = 1..Len(hs) /\ Len(hs) \in Nat
    BY <1>2
  <2>2. ASSUME NEW i \in 1..Len(hs) PROVE hs[i] \in H
    <3> HIDE DEF H
    <3> QED
      BY <1>2
  <2> QED
    BY <2>1, <2>2
<1>4. /\ Len(hooks') = Len(hs)
      /\ \A i \in 1..Len(hs) :
            /\ hooks'[i].key = HookKey(c, i)
            /\ hooks'[i].throttled = hs[i].throttled
            /\ hooks'[i].enabled = hs[i].enabled
  BY <1>1, <1>3 DEF Hooks, hs
<1>5. \A f \in Firers : child[f] = "none" /\ (firing[f] # NoEvent => at[f] = 1)
  BY <1>1 DEF HookInv, HookTypeOK
<1>6. tried = {}
  BY <1>1 DEF HookInv, HookTypeOK
<1>7. HookTypeOK'
  BY <1>1, <1>3, <1>4, <1>5, <1>6 DEF HookInv, HookTypeOK
<1>8. HooksDistinct'
  <2>1. \A i, j \in 1..Len(hs) : HookKey(c, i) = HookKey(c, j) => i = j
    BY <1>3 DEF HooksAccepted, IsInjective, hs
  <2> QED
    BY <1>3, <1>4, <2>1 DEF HooksDistinct
<1>9. SentIsTried' /\ ChildIsTried'
  BY <1>1, <1>5 DEF SentIsTried, ChildIsTried
<1> QED
  BY <1>7, <1>8, <1>9 DEF HookInv

-----------------------------------------------------------------------------
(* The inductive invariant. *)

\* A running daemon has an accepted configuration.
Started == pc # "off" => Accepted(conf)

\* Without a process there is no throttle.
OffIsEmpty == pc = "off" => hooks = <<>> /\ lastSent = {}

\* The supervisor runs hooks for nothing but its last report.
SupReports == firing[Sup] = report /\ (pc # "report" => report = NoEvent)

IInv ==
    /\ TypeOK /\ HookInv
    /\ Started /\ OffIsEmpty /\ SupReports /\ ReportReachesHooks

\* All of it but the types of the configuration and of the tasks.
Rest == HookInv /\ Started /\ OffIsEmpty /\ SupReports /\ ReportReachesHooks

LEMMA TaskNames ==
    /\ Core \subseteq Tasks /\ Managers \subseteq Tasks
    /\ Gateway \in Core /\ WakeQueue \in Core /\ Ipc \in Core
    /\ \A c \in Servers : Manager(c) \in Managers
BY DEF Core, Tasks, Managers

LEMMA EventNames ==
    /\ Sup \in Firers /\ Noisy \subseteq Firers /\ Sup \notin Noisy
    /\ \A t \in Tasks : TaskExit(t) \in Events /\ Noise(t) \in Events
    /\ StoreNotReady \in Events /\ NoEvent \notin Events
BY SupervisorAssumption, HookAssumption

LEMMA InitInv == Init => IInv
<1> SUFFICES ASSUME Init PROVE IInv
  OBVIOUS
<1>1. ConfigTypeOK
  BY ConfigAssumption DEF Init, ConfigInit, ConfigTypeOK
<1>2. LifeTypeOK
  <2>1. managers \in Seq(Managers) /\ waiting \in Seq(Tasks)
    BY DEF Init
  <2>2. pc \in Pcs /\ next \in Nat \ {0} /\ conf \in Files
    BY <1>1 DEF Init, Pcs, ConfigTypeOK
  <2>3. task \in [Tasks -> {"none", "up", "ended"}]
    BY DEF Init
  <2>4. /\ joining \in Servers \cup {NoUrl} /\ stage \in {"spawn", "insert", "push"}
        /\ handles \subseteq Managers /\ orphans \subseteq Managers /\ strays \subseteq Managers
    BY DEF Init
  <2> QED
    BY <2>1, <2>2, <2>3, <2>4 DEF Init, LifeTypeOK
<1>3. HookInv
  BY DEF Init, HooksInit, HookInv, HookTypeOK, HooksDistinct, SentIsTried, ChildIsTried
<1>4. Started /\ OffIsEmpty /\ ReportReachesHooks
  BY DEF Init, HooksInit, Started, OffIsEmpty, ReportReachesHooks
<1>5. SupReports
  BY EventNames DEF Init, HooksInit, SupReports
<1> QED
  BY <1>1, <1>2, <1>3, <1>4, <1>5 DEF IInv, TypeOK, HookInv

\* A step that has nothing to do with hooks or reports.
LEMMA QuietStep ==
    ASSUME Rest, UNCHANGED <<hookVars, conf, report>>,
           \/ pc' = pc
           \/ pc \notin {"off", "report"} /\ pc' \notin {"off", "report"}
    PROVE  Rest'
<1>1. HookInv'
  BY DEF Rest, hookVars, HookInv, HookTypeOK, HooksDistinct, SentIsTried, ThrottleKey,
         ChildIsTried
<1>2. Started' /\ OffIsEmpty' /\ SupReports' /\ ReportReachesHooks'
  BY DEF Rest, hookVars, Started, OffIsEmpty, SupReports, ReportReachesHooks, Accepted,
         ServersAccepted, SinksAccepted, HooksAccepted, SinkKey, HookKey
<1> QED
  BY <1>1, <1>2 DEF Rest

\* The supervisor begins its last report.
LEMMA ReportStep ==
    ASSUME Rest, NEW e \in Events, Report(e), conf' = conf,
           pc \notin {"off", "report"}, pc' = "report"
    PROVE  Rest'
<1>1. firing[Sup] = NoEvent /\ FireBegins(Sup, e) /\ report' = e
  BY DEF Rest, SupReports, Report
<1>2. HookInv'
  BY <1>1, FireBeginsInv, EventNames DEF Rest, Idle
<1>3. firing'[Sup] = e /\ at'[Sup] = 1
  BY <1>1, EventNames DEF FireBegins, Rest, HookInv, HookTypeOK
<1>4. Started' /\ OffIsEmpty' /\ SupReports'
  BY <1>1, <1>3 DEF Rest, Started, OffIsEmpty, SupReports, Accepted, ServersAccepted,
                    SinksAccepted, HooksAccepted, SinkKey, HookKey
<1>5. ReportReachesHooks'
  BY <1>1, <1>2, <1>3 DEF ReportReachesHooks, HookInv, HookTypeOK
<1> QED
  BY <1>2, <1>4, <1>5 DEF Rest

\* The process starts, or ends.
LEMMA ServeStep ==
    ASSUME Rest, ConfigTypeOK, Serve
    PROVE  Rest'
<1>1. /\ hooks = <<>> /\ lastSent = {} /\ report = NoEvent /\ stored \in Files
      /\ Accepted(stored) /\ conf' = stored /\ pc' = "store" /\ report' = report
      /\ HooksNew(Hooks(stored)) /\ firing' = firing
  BY DEF Rest, OffIsEmpty, SupReports, ConfigTypeOK, Serve, HooksNew
<1>2. HookInv'
  BY <1>1, HooksNewInv DEF Rest, Accepted
<1>3. Started'
  BY <1>1 DEF Started, Accepted, ServersAccepted, SinksAccepted, HooksAccepted, SinkKey, HookKey
<1>4. OffIsEmpty' /\ SupReports' /\ ReportReachesHooks'
  BY <1>1 DEF Rest, OffIsEmpty, SupReports, ReportReachesHooks
<1> QED
  BY <1>2, <1>3, <1>4 DEF Rest

LEMMA EndsStep ==
    ASSUME Ends
    PROVE  Rest'
<1>1. HookInv' /\ hooks' = <<>> /\ lastSent' = {} /\ firing' = [f \in Firers |-> NoEvent]
  BY HooksLostInv DEF Ends
<1>2. pc' = "off" /\ report' = NoEvent
  BY DEF Ends
<1> QED
  BY <1>1, <1>2, EventNames DEF Rest, Started, OffIsEmpty, SupReports, ReportReachesHooks

\* A hook is passed over, run, written to or over, a task's report ends, or a throttle runs out.
LEMMA HookStepInv ==
    ASSUME Rest, HookStep
    PROVE  Rest'
<1>1. UNCHANGED <<pc, conf, report>>
  BY DEF HookStep, lifeVars
<1>2. /\ HookInv' /\ hooks' = hooks /\ tried \subseteq tried'
      /\ firing'[Sup] = firing[Sup]
      /\ lastSent = {} => lastSent' = {} \/ hooks # <<>>
      /\ at'[Sup] # at[Sup] =>
            /\ at'[Sup] = at[Sup] + 1 /\ at[Sup] \in 1..Len(hooks)
            /\ hooks[at[Sup]].enabled => <<at[Sup], firing[Sup]>> \in tried
  <2>1. ASSUME NEW f \in Firers, HookPassed(f) PROVE <1>2!:
    <3>1. HookInv'
      BY <2>1, HookPassedInv DEF Rest
    <3>2. /\ UNCHANGED <<hooks, tried, firing, lastSent>> /\ at' = [at EXCEPT ![f] = at[f] + 1]
          /\ firing[f] \in Events /\ at[f] \in 1..Len(hooks)
          /\ ~hooks[at[f]].enabled \/ Throttled(hooks[at[f]], firing[f])
      BY <2>1 DEF HookPassed, AtHook, Rest, HookInv, HookTypeOK
    <3>3. hooks[at[f]].enabled => <<at[f], firing[f]>> \in tried
      BY <3>2 DEF Throttled, Rest, HookInv, SentIsTried
    <3>4. at \in [Firers -> Nat \ {0}]
      BY DEF Rest, HookInv, HookTypeOK
    <3> QED
      BY <3>1, <3>2, <3>3, <3>4, EventNames
  <2>2. ASSUME NEW f \in Firers, HookRuns(f) PROVE <1>2!:
    <3>1. HookInv'
      BY <2>2, HookRunsInv DEF Rest
    <3>2. /\ UNCHANGED <<hooks, firing, at>> /\ tried \subseteq tried'
          /\ at[f] \in 1..Len(hooks)
      BY <2>2 DEF HookRuns, AtHook, Rest, HookInv, HookTypeOK
    <3>3. hooks # <<>>
      BY <3>2
    <3> QED
      BY <3>1, <3>2, <3>3
  <2>3. ASSUME NEW f \in Firers, HookOver(f) PROVE <1>2!:
    <3>1. HookInv'
      BY <2>3, HookOverInv DEF Rest
    <3>2. /\ UNCHANGED <<hooks, tried, firing, lastSent>> /\ at' = [at EXCEPT ![f] = at[f] + 1]
          /\ at[f] \in 1..Len(hooks) /\ <<at[f], firing[f]>> \in tried
      BY <2>3 DEF HookOver, Rest, HookInv, HookTypeOK, ChildIsTried
    <3>3. at \in [Firers -> Nat \ {0}]
      BY DEF Rest, HookInv, HookTypeOK
    <3> QED
      BY <3>1, <3>2, <3>3, EventNames
  <2>4. ASSUME NEW t \in Noisy, FireReturns(t) PROVE <1>2!:
    <3>1. HookInv'
      BY <2>4, FireReturnsInv, EventNames DEF Rest
    <3>2. /\ UNCHANGED <<hooks, tried, lastSent>>
          /\ firing'[Sup] = firing[Sup] /\ at'[Sup] = at[Sup]
      BY <2>4, EventNames DEF FireReturns, Rest, HookInv, HookTypeOK
    <3> QED
      BY <3>1, <3>2
  <2>5. ASSUME NEW p \in lastSent, WindowPasses(p) PROVE <1>2!:
    <3>1. HookInv'
      BY <2>5, WindowPassesInv DEF Rest
    <3> QED
      BY <2>5, <3>1 DEF WindowPasses
  <2>6. ASSUME NEW f \in Firers, HookWrites(f) PROVE <1>2!:
    <3>1. HookInv'
      BY <2>6, HookWritesInv DEF Rest
    <3> QED
      BY <2>6, <3>1 DEF HookWrites
  <2> QED
    BY <2>1, <2>2, <2>3, <2>4, <2>5, <2>6 DEF HookStep, FireStep, ChildExits, HookTimesOut
<1>3. Started' /\ SupReports'
  BY <1>1, <1>2 DEF Rest, Started, SupReports, Accepted, ServersAccepted, SinksAccepted,
                    HooksAccepted, SinkKey, HookKey
<1>4. OffIsEmpty'
  BY <1>1, <1>2 DEF Rest, OffIsEmpty
<1>5. ReportReachesHooks'
  <2> SUFFICES ASSUME pc' = "report", NEW i \in 1..Len(hooks), hooks[i].enabled, i < at'[Sup]
               PROVE  <<i, report>> \in tried'
    BY <1>1, <1>2 DEF ReportReachesHooks
  <2>1. pc = "report" /\ firing[Sup] = report
    BY <1>1 DEF Rest, SupReports
  <2>2. CASE i < at[Sup]
    BY <1>2, <2>1, <2>2 DEF Rest, ReportReachesHooks
  <2>3. CASE ~(i < at[Sup])
    <3>1. i = at[Sup]
      BY <1>2, <2>3
    <3> QED
      BY <1>2, <2>1, <3>1
  <2> QED
    BY <2>2, <2>3
<1> QED
  BY <1>2, <1>3, <1>4, <1>5 DEF Rest

\* A task begins to report a failure of its own.
LEMMA TaskReportsStep ==
    ASSUME Rest, NEW t \in Tasks, TaskReports(t)
    PROVE  Rest'
<1>1. /\ t \in Firers /\ t # Sup /\ Noise(t) \in Events /\ FireBegins(t, Noise(t)) /\ Idle(t)
      /\ UNCHANGED <<pc, conf, report>>
  BY EventNames DEF TaskReports, lifeVars
<1>2. HookInv'
  BY <1>1, FireBeginsInv DEF Rest
<1>3. /\ firing'[Sup] = firing[Sup] /\ at'[Sup] = at[Sup]
      /\ UNCHANGED <<hooks, lastSent, tried>>
  BY <1>1, EventNames DEF FireBegins, Rest, HookInv, HookTypeOK
<1>4. Started' /\ OffIsEmpty' /\ SupReports' /\ ReportReachesHooks'
  BY <1>1, <1>3 DEF Rest, Started, OffIsEmpty, SupReports, ReportReachesHooks, Accepted,
                    ServersAccepted, SinksAccepted, HooksAccepted, SinkKey, HookKey
<1> QED
  BY <1>2, <1>4 DEF Rest

-----------------------------------------------------------------------------
(* Steps of the supervisor. *)

\* The types of the supervisor's variables, action by action.
LEMMA StartTypes ==
    ASSUME IInv, Serve \/ StoreReady \/ StoreFails \/ StartGateway \/ StartTasks
    PROVE  LifeTypeOK'
<1>1. Core \subseteq Tasks /\ Gateway \in Tasks /\ WakeQueue \in Tasks /\ Ipc \in Tasks
  BY TaskNames
<1>2. StoreNotReady \in Events
  BY EventNames
<1>3. CASE Serve
  BY <1>3 DEF Serve, IInv, TypeOK, ConfigTypeOK, LifeTypeOK, Pcs
<1>4. CASE StoreReady
  BY <1>4 DEF StoreReady, IInv, TypeOK, LifeTypeOK, Pcs
<1>5. CASE StoreFails
  BY <1>2, <1>5 DEF StoreFails, Report, IInv, TypeOK, LifeTypeOK, Pcs
<1>6. CASE StartGateway
  BY <1>1, <1>6 DEF StartGateway, IInv, TypeOK, LifeTypeOK, Pcs
<1>7. CASE StartTasks
  <2>1. task' \in [Tasks -> {"none", "up", "ended"}]
    BY <1>1, <1>7 DEF StartTasks, IInv, TypeOK, LifeTypeOK
  <2> QED
    BY <1>7, <2>1 DEF StartTasks, IInv, TypeOK, LifeTypeOK, Pcs
<1> QED
  BY <1>3, <1>4, <1>5, <1>6, <1>7

LEMMA SpawnTypes ==
    ASSUME IInv, SpawnManager
    PROVE  LifeTypeOK'
<1> DEFINE entry == conf.servers[next]
           t == Manager(Canonicalize(entry.url))
<1>1. conf \in Files /\ next \in Nat \ {0} /\ next <= Len(conf.servers) /\ Accepted(conf)
  BY DEF IInv, TypeOK, LifeTypeOK, SpawnManager, Started
<1>2. conf.servers \in Seq(Entries)
  BY <1>1 DEF Files
<1>3. next \in DOMAIN conf.servers /\ entry \in Entries
  BY <1>1, <1>2
<1>4. entry.url \in Raws \cup Servers /\ IsServer(entry.url)
  BY <1>1, <1>3 DEF Entries, Accepted, ServersAccepted
<1>5. t \in Managers /\ t \in Tasks
  BY <1>4, TypedIsServer, TaskNames
<1> HIDE DEF t
<1>6. /\ task' \in {task, [task EXCEPT ![t] = "up"]} /\ managers' \in {managers, Append(managers, t)}
      /\ next' = next + 1 /\ handles' \in {handles, handles \cup {t}}
      /\ UNCHANGED <<pc, conf, unread, waiting, socket, listening, joining, stage, orphans,
                     strays, report>>
  BY DEF SpawnManager, t
<1>7. task' \in [Tasks -> {"none", "up", "ended"}]
  BY <1>5, <1>6 DEF IInv, TypeOK, LifeTypeOK
<1>8. managers' \in Seq(Managers)
  BY <1>5, <1>6 DEF IInv, TypeOK, LifeTypeOK
<1>9. handles' \subseteq Managers
  BY <1>5, <1>6 DEF IInv, TypeOK, LifeTypeOK
<1> QED
  BY <1>1, <1>6, <1>7, <1>8, <1>9 DEF IInv, TypeOK, LifeTypeOK

LEMMA TaskTypes ==
    ASSUME IInv,
           \/ \E t \in Tasks : TaskEnds(t) \/ TaskStops(t) \/ TaskReports(t)
           \/ GatewayMisreads \/ IpcBinds \/ HookStep
    PROVE  LifeTypeOK'
<1>1. ASSUME NEW t \in Tasks, TaskEnds(t) \/ TaskStops(t) PROVE LifeTypeOK'
  BY <1>1 DEF TaskEnds, TaskStops, IInv, TypeOK, LifeTypeOK
<1>2. CASE GatewayMisreads \/ IpcBinds
  BY <1>2 DEF GatewayMisreads, IpcBinds, IInv, TypeOK, LifeTypeOK
<1>3. ASSUME UNCHANGED <<lifeVars, socket>> PROVE LifeTypeOK'
  BY <1>3 DEF lifeVars, IInv, TypeOK, LifeTypeOK
<1> QED
  BY <1>1, <1>2, <1>3 DEF TaskReports, HookStep

LEMMA SetupTypes ==
    ASSUME IInv,
           \/ \E raw \in Raws : SetupAlone(raw) \/ SetupLive(raw)
           \/ SetupSpawns \/ SetupInserts \/ SetupPushes \/ SetupFails \/ SetupCancelled
           \/ \E t \in Managers : OrphanReturns(t)
    PROVE  LifeTypeOK'
<1>1. ASSUME NEW raw \in Raws, SetupAlone(raw) PROVE LifeTypeOK'
  BY <1>1 DEF SetupAlone, lifeVars, IInv, TypeOK, LifeTypeOK
<1>2. ASSUME NEW raw \in Raws, SetupLive(raw) PROVE LifeTypeOK'
  <2>1. Canonicalize(raw) \in Servers
    BY <1>2, SetupSavesType DEF SetupLive, IInv, TypeOK
  <2> QED
    BY <1>2, <2>1 DEF SetupLive, IInv, TypeOK, LifeTypeOK
<1>3. joining # NoUrl => Manager(joining) \in Managers /\ Manager(joining) \in Tasks
  BY TaskNames DEF IInv, TypeOK, LifeTypeOK
<1>4. CASE SetupSpawns
  <2>1. task' \in [Tasks -> {"none", "up", "ended"}]
    BY <1>3, <1>4 DEF SetupSpawns, IInv, TypeOK, LifeTypeOK
  <2> QED
    BY <1>4, <2>1 DEF SetupSpawns, IInv, TypeOK, LifeTypeOK
<1>5. CASE SetupInserts
  BY <1>3, <1>5 DEF SetupInserts, IInv, TypeOK, LifeTypeOK
<1>6. CASE SetupPushes
  <2>1. managers' \in Seq(Managers)
    BY <1>3, <1>6 DEF SetupPushes, IInv, TypeOK, LifeTypeOK
  <2> QED
    BY <1>6, <2>1 DEF SetupPushes, IInv, TypeOK, LifeTypeOK
<1>7. CASE SetupFails
  BY <1>7 DEF SetupFails, IInv, TypeOK, LifeTypeOK
<1>8. CASE SetupCancelled
  <2>1. /\ task' \in [Tasks -> {"none", "up", "ended"}] /\ unread' \subseteq Tasks
        /\ orphans' \subseteq Managers /\ strays' \subseteq Managers
    BY <1>3, <1>8 DEF SetupCancelled, IInv, TypeOK, LifeTypeOK
  <2> QED
    BY <1>8, <2>1 DEF SetupCancelled, IInv, TypeOK, LifeTypeOK
<1>9. ASSUME NEW t \in Managers, OrphanReturns(t) PROVE LifeTypeOK'
  BY <1>9 DEF OrphanReturns, IInv, TypeOK, LifeTypeOK
<1> QED
  BY <1>1, <1>2, <1>4, <1>5, <1>6, <1>7, <1>8, <1>9

LEMMA EndTypes ==
    ASSUME IInv, Dies \/ CtrlC \/ EndStep
    PROVE  LifeTypeOK'
<1>1. Core \subseteq Tasks /\ Managers \subseteq Tasks
      /\ Gateway \in Tasks /\ WakeQueue \in Tasks /\ Ipc \in Tasks
  BY TaskNames
<1>2. ASSUME Ends, socket' \in BOOLEAN PROVE LifeTypeOK'
  <2>1. managers' \in Seq(Managers) /\ waiting' \in Seq(Tasks)
    BY <1>2 DEF Ends
  <2>2. task' \in [Tasks -> {"none", "up", "ended"}]
    BY <1>2 DEF Ends
  <2>3. /\ pc' = "off" /\ next' = 1 /\ report' = NoEvent /\ unread' = {}
        /\ listening' = FALSE /\ joining' = NoUrl /\ conf' = conf
    BY <1>2 DEF Ends
  <2>4. conf \in Files
    BY DEF IInv, TypeOK, LifeTypeOK
  <2>5. /\ pc' \in Pcs /\ next' \in Nat \ {0} /\ conf' \in Files /\ unread' \subseteq Tasks
        /\ joining' \in Servers \cup {NoUrl} /\ report' \in Events \cup {NoEvent}
    BY <2>3, <2>4 DEF Pcs
  <2>6. listening' \in BOOLEAN
    BY <2>3
  <2>7. /\ stage' \in {"spawn", "insert", "push"} /\ handles' \subseteq Managers
        /\ orphans' \subseteq Managers /\ strays' \subseteq Managers
    BY <1>2 DEF Ends
  <2> QED
    BY <1>2, <2>1, <2>2, <2>5, <2>6, <2>7 DEF LifeTypeOK
<1>3. CASE Dies \/ StopDone \/ ReportDone
  <2>1. Ends /\ socket' \in BOOLEAN
    BY <1>3 DEF Dies, StopDone, ReportDone, IInv, TypeOK, LifeTypeOK
  <2> QED
    BY <1>2, <2>1
<1>4. CASE CtrlC
  <2>1. waiting' \in Seq(Tasks) /\ unread' \subseteq Tasks
    BY <1>1, <1>4 DEF CtrlC, Broadcast, Up
  <2> QED
    BY <1>4, <2>1 DEF CtrlC, IInv, TypeOK, LifeTypeOK, Pcs
<1>5. CASE WaitOver
  <2>1. waiting' \in Seq(Tasks)
    BY <1>5 DEF WaitOver, IInv, TypeOK, LifeTypeOK
  <2> QED
    BY <1>5, <2>1 DEF WaitOver, IInv, TypeOK, LifeTypeOK
<1>6. CASE WaitForManagers
  <2>1. managers \in Seq(Tasks)
    BY <1>1 DEF IInv, TypeOK, LifeTypeOK
  <2> QED
    BY <1>6, <2>1 DEF WaitForManagers, IInv, TypeOK, LifeTypeOK, Pcs
<1>7. ASSUME NEW t \in Core, CoreExit(t) PROVE LifeTypeOK'
  <2>1. TaskExit(t) \in Events /\ unread' \subseteq Tasks
    BY <1>1, <1>7, EventNames DEF CoreExit, Broadcast, Up
  <2> QED
    BY <1>7, <2>1 DEF CoreExit, Report, IInv, TypeOK, LifeTypeOK, Pcs
<1>8. CASE ManagerExit
  <2>1. PICK i \in DOMAIN managers :
          /\ pc' = "report" /\ Report(TaskExit(managers[i]))
          /\ UNCHANGED <<conf, next, task, unread, managers, waiting, socket, listening, joinVars>>
    BY <1>8 DEF ManagerExit
  <2>2. managers[i] \in Managers
    BY <2>1 DEF IInv, TypeOK, LifeTypeOK
  <2>3. TaskExit(managers[i]) \in Events
    BY <1>1, <2>2, EventNames
  <2> QED
    BY <2>1, <2>3 DEF Report, IInv, TypeOK, LifeTypeOK, Pcs
<1> QED
  BY <1>3, <1>4, <1>5, <1>6, <1>7, <1>8 DEF EndStep

\* The rest of the invariant, action by action.
LEMMA RestStep == IInv /\ Next => Rest'
<1> SUFFICES ASSUME IInv, Next PROVE Rest'
  OBVIOUS
<1>1. Rest /\ ConfigTypeOK
  BY DEF IInv, Rest, TypeOK
<1>2. CASE Serve
  BY <1>1, <1>2, ServeStep
<1>3. CASE StoreReady \/ StartGateway \/ SpawnManager \/ StartTasks \/ CtrlC \/ WaitForManagers
  <2>1. /\ UNCHANGED <<hookVars, conf, report>>
        /\ \/ pc' = pc
           \/ pc \notin {"off", "report"} /\ pc' \notin {"off", "report"}
    BY <1>3 DEF StoreReady, StartGateway, SpawnManager, StartTasks, CtrlC, WaitForManagers
  <2> QED
    BY <1>1, <2>1, QuietStep
<1>4. CASE \/ \E t \in Tasks : TaskEnds(t) \/ TaskStops(t)
           \/ GatewayMisreads \/ IpcBinds \/ WaitOver
           \/ SetupSpawns \/ SetupInserts \/ SetupPushes \/ SetupFails \/ SetupCancelled
           \/ \E t \in Managers : OrphanReturns(t)
           \/ \E raw \in Raws : SetupAlone(raw) \/ SetupLive(raw)
  <2>1. UNCHANGED <<hookVars, conf, report, pc>>
    BY <1>4 DEF TaskEnds, TaskStops, GatewayMisreads, IpcBinds, SetupSpawns, SetupInserts,
                SetupPushes, SetupFails, SetupCancelled, OrphanReturns, WaitOver, SetupAlone,
                SetupLive, lifeVars
  <2> QED
    BY <1>1, <2>1, QuietStep
<1>5. CASE StoreFails
  <2>1. /\ Report(StoreNotReady) /\ conf' = conf /\ pc' = "report"
        /\ pc \notin {"off", "report"} /\ StoreNotReady \in Events
    BY <1>5, EventNames DEF StoreFails
  <2> QED
    BY <1>1, <2>1, ReportStep
<1>6. ASSUME NEW t \in Core, CoreExit(t) PROVE Rest'
  <2>1. /\ Report(TaskExit(t)) /\ conf' = conf /\ pc' = "report"
        /\ pc \notin {"off", "report"}
    BY <1>6 DEF CoreExit
  <2>2. TaskExit(t) \in Events
    BY EventNames, TaskNames
  <2> QED
    BY <1>1, <2>1, <2>2, ReportStep
<1>7. CASE ManagerExit
  <2>1. PICK i \in DOMAIN managers :
          /\ Report(TaskExit(managers[i])) /\ conf' = conf /\ pc' = "report"
          /\ pc \notin {"off", "report"}
    BY <1>7 DEF ManagerExit
  <2>2. managers[i] \in Managers
    BY <2>1 DEF IInv, TypeOK, LifeTypeOK
  <2>3. TaskExit(managers[i]) \in Events
    BY <2>2, EventNames, TaskNames
  <2> QED
    BY <1>1, <2>1, <2>3, ReportStep
<1>8. CASE Dies \/ StopDone \/ ReportDone
  BY <1>8, EndsStep DEF Dies, StopDone, ReportDone
<1>9. CASE HookStep
  BY <1>1, <1>9, HookStepInv
<1>10. ASSUME NEW t \in Tasks, TaskReports(t) PROVE Rest'
  BY <1>1, <1>10, TaskReportsStep
<1> QED
  BY <1>2, <1>3, <1>4, <1>5, <1>6, <1>7, <1>8, <1>9, <1>10 DEF Next, EndStep

\* config.json changes by setups only.
LEMMA ConfigStep ==
    ASSUME IInv, [Next]_vars
    PROVE  \/ UNCHANGED configVars
           \/ \E raw \in Raws : SetupSaves(raw)
<1>1. CASE \E raw \in Raws : SetupAlone(raw) \/ SetupLive(raw)
  BY <1>1 DEF SetupAlone, SetupLive
<1>2. CASE Serve \/ StoreReady \/ StoreFails \/ StartGateway \/ SpawnManager \/ StartTasks
  BY <1>2 DEF Serve, StoreReady, StoreFails, StartGateway, SpawnManager, StartTasks
<1>3. CASE \/ \E t \in Tasks : TaskEnds(t) \/ TaskStops(t) \/ TaskReports(t)
           \/ GatewayMisreads \/ IpcBinds \/ HookStep
           \/ SetupSpawns \/ SetupInserts \/ SetupPushes \/ SetupFails \/ SetupCancelled
           \/ \E t \in Managers : OrphanReturns(t)
  BY <1>3 DEF TaskEnds, TaskStops, TaskReports, GatewayMisreads, IpcBinds, HookStep,
              SetupSpawns, SetupInserts, SetupPushes, SetupFails, SetupCancelled, OrphanReturns
<1>4. CASE Dies \/ CtrlC \/ EndStep
  BY <1>4 DEF Dies, CtrlC, EndStep, WaitOver, WaitForManagers, StopDone, ReportDone,
              CoreExit, ManagerExit, Ends
<1>5. CASE UNCHANGED vars
  BY <1>5 DEF vars
<1> QED
  BY <1>1, <1>2, <1>3, <1>4, <1>5 DEF Next

LEMMA StepInv == IInv /\ [Next]_vars => IInv'
<1> SUFFICES ASSUME IInv, [Next]_vars PROVE IInv'
  OBVIOUS
<1>1. ConfigTypeOK'
  <2>1. CASE UNCHANGED configVars
    BY <2>1 DEF configVars, IInv, TypeOK, ConfigTypeOK
  <2>2. ASSUME NEW raw \in Raws, SetupSaves(raw) PROVE ConfigTypeOK'
    BY <2>2, SetupSavesType DEF IInv, TypeOK
  <2> QED
    BY <2>1, <2>2, ConfigStep
<1>2. LifeTypeOK'
  <2>1. CASE Next
    BY <2>1, StartTypes, SpawnTypes, TaskTypes, SetupTypes, EndTypes DEF Next
  <2>2. CASE UNCHANGED vars
    BY <2>2 DEF vars, lifeVars, IInv, TypeOK, LifeTypeOK
  <2> QED
    BY <2>1, <2>2
<1>3. Rest'
  <2>1. CASE Next
    BY <2>1, RestStep
  <2>2. CASE UNCHANGED vars
    <3>1. Rest /\ UNCHANGED <<hookVars, conf, report>> /\ pc' = pc
      BY <2>2 DEF vars, lifeVars, IInv, Rest
    <3> QED
      BY <3>1, QuietStep
  <2> QED
    BY <2>1, <2>2
<1> QED
  BY <1>1, <1>2, <1>3 DEF IInv, Rest, TypeOK, HookInv

LEMMA Invariance == Spec => []IInv
BY InitInv, StepInv, PTL DEF Spec

-----------------------------------------------------------------------------
(* Theorems. *)

\* Every variable of the supervisor, of the hooks and of config.json keeps its type,
\* for any URLs, files, hooks and tasks (run_supervisor, HardFailureHooks, setup).
THEOREM TypeCorrect == Spec => []TypeOK
<1>1. IInv => TypeOK
  BY DEF IInv
<1> QED
  BY <1>1, Invariance, PTL

\* The supervisor's last report reaches every enabled hook, however many events the
\* tasks have reported before and whatever the throttles (fire, throttled,
\* fire_task_exit_hook).
THEOREM LastReportIsSent == Spec => []ReportReachesHooks
<1>1. IInv => ReportReachesHooks
  BY DEF IInv
<1> QED
  BY <1>1, Invariance, PTL

\* No setup makes config.json unloadable, however the URL is typed (upsert_server,
\* from_stored).
THEOREM SetupIsSafe == Spec => SetupKeepsLoadable
<1>1. IInv /\ [Next]_vars => [Accepted(stored) => Accepted(stored')]_configVars
  <2> SUFFICES ASSUME IInv, [Next]_vars, Accepted(stored)
               PROVE  Accepted(stored') \/ UNCHANGED configVars
    OBVIOUS
  <2>1. ASSUME NEW raw \in Raws, SetupSaves(raw) PROVE Accepted(stored')
    BY <2>1, SetupKeepsAccepted DEF IInv, TypeOK
  <2> QED
    BY <2>1, ConfigStep
<1> QED
  BY <1>1, Invariance, PTL DEF Spec, SetupKeepsLoadable

\* A setup adds or updates exactly one entry of an accepted file (upsert_server).
THEOREM SetupIsLocal == Spec => SetupAddsOne
<1> DEFINE A == Accepted(stored) /\ stored' # stored =>
        /\ \A i \in DOMAIN stored.servers :
              Canonicalize(stored'.servers[i].url) = Canonicalize(stored.servers[i].url)
        /\ \E i \in DOMAIN stored'.servers :
              /\ stored'.servers[i].enabled /\ stored'.servers[i].url \in setUp'
              /\ \A j \in DOMAIN stored.servers \ {i} : stored'.servers[j] = stored.servers[j]
              /\ DOMAIN stored'.servers = DOMAIN stored.servers \cup {i}
<1>1. IInv /\ [Next]_vars => [A]_configVars
  <2> SUFFICES ASSUME IInv, [Next]_vars, Accepted(stored), stored' # stored
               PROVE  A
    BY DEF A
  <2>1. ASSUME NEW raw \in Raws, SetupSaves(raw) PROVE A
    BY <2>1, SetupChangesOne DEF IInv, TypeOK
  <2> QED
    BY <2>1, ConfigStep DEF configVars
<1> QED
  BY <1>1, Invariance, PTL DEF Spec, SetupAddsOne

-----------------------------------------------------------------------------
(* Server keys. *)

\* The words of a path are words.  (The recursion has a solution up to each place and
\* its values are sequences of words, both by induction.)
LEMMA PathWordsType ==
    ASSUME NEW path \in Seq(DOMAIN Words)
    PROVE  PathWords(path) \in Seq(STRING)
<1> DEFINE N == Len(path)
           Step(f, i) == IF i = 0 THEN <<>> ELSE f[i - 1] \o Words[path[i]]
           Rec(f, n) == f = [i \in 0..n |-> Step(f, i)]
           Good == {n \in 0..N : \E f \in [0..n -> Seq(STRING)] : Rec(f, n)}
           fcn == CHOOSE f : Rec(f, N)
<1>0. N \in Nat /\ \A i \in 1..N : Words[path[i]] \in Seq(STRING)
  BY ConfigAssumption
<1>1. PathWords(path) = fcn[N]
  BY DEF PathWords
<1> HIDE DEF N
<1>2. 0 \in Good
  <2> DEFINE g == [i \in 0..0 |-> <<>>]
  <2>1. g \in [0..0 -> Seq(STRING)]
    OBVIOUS
  <2>2. Rec(g, 0)
    BY SMT
  <2>3. \E f \in [0..0 -> Seq(STRING)] : Rec(f, 0)
    <3> WITNESS g \in [0..0 -> Seq(STRING)]
    <3> QED
      BY <2>2
  <2> HIDE DEF Rec
  <2> QED
    BY <1>0, <2>3
<1>3. ASSUME NEW n \in 1..N, n - 1 \in Good PROVE n \in Good
  <2>0. n - 1 \in Nat /\ n \in Nat /\ 0..n = (0..n - 1) \cup {n} /\ n \notin 0..n - 1
    BY <1>0
  <2>1. PICK f \in [0..n - 1 -> Seq(STRING)] : Rec(f, n - 1)
    BY <1>3
  <2> DEFINE w == f[n - 1] \o Words[path[n]]
             g == [i \in 0..n |-> IF i = n THEN w ELSE f[i]]
  <2>2. w \in Seq(STRING)
    BY <1>0, <2>0, <2>1
  <2>3. \A i \in 0..n - 1 : f[i] = Step(f, i)
    BY <2>1
  <2> HIDE DEF w
  <2>4. g[n] = w /\ \A i \in 0..n - 1 : g[i] = f[i]
    BY <2>0
  <2>5. g \in [0..n -> Seq(STRING)]
    BY <2>0, <2>2, <2>1
  <2>6. g = [i \in 0..n |-> g[i]]
    OBVIOUS
  <2> HIDE DEF g
  <2>7. ASSUME NEW i \in 0..n PROVE g[i] = Step(g, i)
    <3>1. CASE i = n
      <4>1. n # 0 /\ n - 1 \in 0..n - 1
        BY <1>0, <2>0
      <4>2. g[n - 1] = f[n - 1]
        BY <2>4, <4>1
      <4> QED
        BY <2>4, <3>1, <4>1, <4>2 DEF w
    <3>2. CASE i = 0
      <4>1. 0 \in 0..n - 1
        BY <2>0
      <4>2. f[0] = Step(f, 0)
        BY <2>3, <4>1
      <4> QED
        BY <2>4, <3>2, <4>1, <4>2
    <3>3. CASE i # n /\ i # 0
      <4>1. i \in 0..n - 1 /\ i - 1 \in 0..n - 1
        BY <2>0, <3>3
      <4> QED
        BY <2>3, <2>4, <3>3, <4>1
    <3> QED
      BY <3>1, <3>2, <3>3
  <2>8. Rec(g, n)
    BY <2>6, <2>7
  <2>9. \E h \in [0..n -> Seq(STRING)] : Rec(h, n)
    <3> HIDE DEF Rec
    <3> QED
      BY <2>5, <2>8
  <2> HIDE DEF Rec
  <2> QED
    BY <1>0, <2>9
<1>4. N \in Good
  <2> HIDE DEF Good
  <2>1. 0..N \subseteq Good
    BY <1>0, <1>2, <1>3, UpTo
  <2> QED
    BY <1>0, <2>1
<1>5. Rec(fcn, N)
  BY <1>4
<1> HIDE DEF fcn
<1>6. \A i \in 0..N : fcn[i] = Step(fcn, i)
  BY <1>5
<1>7. fcn[N] \in Seq(STRING)
  <2> DEFINE S == {n \in 0..N : fcn[n] \in Seq(STRING)}
  <2>1. 0 \in S
    <3>1. 0 \in 0..N
      BY <1>0
    <3>2. fcn[0] = <<>>
      BY <1>6, <3>1
    <3>3. fcn[0] \in Seq(STRING)
      BY <3>2
    <3> QED
      BY <3>1, <3>3
  <2>2. ASSUME NEW n \in 1..N, n - 1 \in S PROVE n \in S
    <3>1. n \in 0..N /\ n # 0
      BY <1>0
    <3>2. fcn[n] = fcn[n - 1] \o Words[path[n]]
      BY <1>6, <3>1
    <3>3. fcn[n - 1] \in Seq(STRING) /\ Words[path[n]] \in Seq(STRING)
      BY <1>0, <2>2
    <3>4. fcn[n] \in Seq(STRING)
      BY <3>2, <3>3
    <3> QED
      BY <3>1, <3>4
  <2>3. 0..N \subseteq S
    <3> HIDE DEF S
    <3> QED
      BY <1>0, <2>1, <2>2, UpTo
  <2> QED
    BY <1>0, <2>3
<1> QED
  BY <1>1, <1>7

\* port_or_known_default tells canonical ports apart.
LEMMA CanonicalPort ==
    ASSUME NEW c \in Servers, NEW d \in Servers, c.scheme = d.scheme,
           EffectivePort(c) = EffectivePort(d)
    PROVE  c.port = d.port
<1>1. ASSUME NEW e \in Servers
      PROVE  e.port = IF EffectivePort(e) = DefaultPort(e.scheme) THEN NoPort ELSE e.port
  <2>1. Canonicalize(e) = e /\ e \in Urls /\ NoUrl \notin Urls
    BY ServerFacts, ConfigAssumption
  <2>2. e = [e EXCEPT !.loose = FALSE,
                   !.port = IF EffectivePort(e) = DefaultPort(e.scheme) THEN NoPort ELSE e.port]
    BY <2>1 DEF Canonicalize
  <2> QED
    BY <2>1, <2>2 DEF Urls
<1> QED
  BY <1>1 DEF EffectivePort

\* derive_server_key keeps the scheme and the port of a URL apart from the rest: two
\* servers on one host and one path never share a directory.
LEMMA KeysOfOneHost ==
    ASSUME NEW c \in Servers, NEW d \in Servers, c.host = d.host, c.path = d.path,
           ServerKey(c) = ServerKey(d)
    PROVE  c = d
<1> DEFINE w == Words[c.host]
           p == PathWords(c.path)
           Parts == STRING \cup {"80", "443"}
<1>1. c \in Urls /\ d \in Urls /\ c # NoUrl /\ d # NoUrl
  BY ServerFacts
<1>2. w \in Seq(Parts) /\ p \in Seq(Parts)
  <2>1. w \in Seq(STRING) /\ p \in Seq(STRING)
    BY <1>1, PathWordsType, ConfigAssumption DEF Urls
  <2> HIDE DEF w, p
  <2> QED
    BY <2>1
<1>3. /\ c.scheme \in Parts /\ EffectivePort(c) \in Parts
      /\ d.scheme \in Parts /\ EffectivePort(d) \in Parts
  <2>1. ASSUME NEW e \in Urls PROVE e.scheme \in Parts /\ EffectivePort(e) \in Parts
    <3>1. e.scheme \in STRING /\ e.port \in STRING \cup {NoPort}
      BY DEF Urls
    <3> QED
      BY <3>1 DEF EffectivePort, DefaultPort
  <2> QED
    BY <1>1, <2>1
<1> HIDE DEF Parts
<1>4. <<c.scheme>> \o w \o <<EffectivePort(c)>> \o p = <<d.scheme>> \o w \o <<EffectivePort(d)>> \o p
  BY DEF ServerKey
<1>5. ASSUME NEW a \in Parts, NEW b \in Parts
      PROVE  /\ (<<a>> \o w \o <<b>> \o p)[1] = a
             /\ (<<a>> \o w \o <<b>> \o p)[Len(w) + 2] = b
  <2> HIDE DEF w, p
  <2> QED
    BY <1>2
<1>6. c.scheme = d.scheme /\ EffectivePort(c) = EffectivePort(d)
  <2> HIDE DEF w, p
  <2> QED
    BY <1>3, <1>4, <1>5
<1>7. c.port = d.port
  BY <1>6, CanonicalPort
<1>8. c.loose = d.loose /\ c.bad = d.bad
  <2>1. ASSUME NEW e \in Servers PROVE e.loose = FALSE /\ e.bad = FALSE
    <3>1. Canonicalize(e) = e /\ e \in Urls /\ NoUrl \notin Urls
      BY ServerFacts, ConfigAssumption
    <3> QED
      BY <3>1 DEF Canonicalize, Urls
  <2> QED
    BY <2>1
<1> QED
  BY <1>1, <1>6, <1>7, <1>8 DEF Urls

\* The session that a directory holds is of a server that has been asked and has that
\* directory, and a server that was set up found one there.
KeyInv ==
    /\ \A c \in setUp : \E d \in registered : ServerKey(d) = ServerKey(c)
    /\ \A k \in Keys :
          session[k] # NoUrl => session[k] \in registered /\ ServerKey(session[k]) = k

\* A setup keeps it, whichever way it finds the directory.
LEMMA KeyInvSetup ==
    ASSUME ConfigTypeOK, KeyInv, NEW raw \in Raws, SetupSaves(raw)
    PROVE  KeyInv'
<1> DEFINE c == Canonicalize(raw)
           key == ServerKey(c)
<1>1. c \in Servers /\ key \in Keys /\ c # NoUrl
  BY SetupSavesType, ServerFacts DEF Keys
<1>2. setUp' = setUp \cup {c}
  BY DEF SetupSaves
<1>3. CASE session[key] # NoUrl
  <2>1. UNCHANGED <<session, registered>>
    BY <1>3 DEF SetupSaves
  <2>2. session[key] \in registered /\ ServerKey(session[key]) = key
    BY <1>1, <1>3 DEF KeyInv
  <2> QED
    BY <1>2, <2>1, <2>2 DEF KeyInv
<1>4. CASE session[key] = NoUrl
  <2>1. registered' = registered \cup {c} /\ session' = [session EXCEPT ![key] = c]
    BY <1>4 DEF SetupSaves
  <2> HIDE DEF c
  <2>2. \A k \in Keys : session'[k] = IF k = key THEN c ELSE session[k]
    BY <1>1, <2>1 DEF ConfigTypeOK
  <2> QED
    BY <1>2, <2>1, <2>2 DEF KeyInv
<1> QED
  BY <1>3, <1>4

\* It holds in every reachable state.
LEMMA KeyInvariance == Spec => []KeyInv
<1>1. Init => KeyInv
  BY DEF Init, ConfigInit, KeyInv
<1>2. IInv /\ KeyInv /\ [Next]_vars => KeyInv'
  <2> SUFFICES ASSUME IInv, KeyInv, [Next]_vars PROVE KeyInv'
    OBVIOUS
  <2>1. CASE UNCHANGED configVars
    BY <2>1 DEF configVars, KeyInv
  <2>2. ASSUME NEW raw \in Raws, SetupSaves(raw) PROVE KeyInv'
    BY <2>2, KeyInvSetup DEF IInv, TypeOK
  <2> QED
    BY <2>1, <2>2, ConfigStep
<1> QED
  BY <1>1, <1>2, Invariance, PTL DEF Spec

\* A server that was set up without being asked to register the daemon shares its
\* directory with a registered one on another host or another path.
RegisteredOrShared ==
    \A c \in setUp \ registered :
        \E d \in registered :
            ServerKey(d) = ServerKey(c) /\ (d.host # c.host \/ d.path # c.path)

\* Setups of servers on one host and one path do not get into each other's way: two
\* of them, with other schemes or ports, are both asked (derive_server_key,
\* canonicalize_base_url).
THEOREM OneHostIsSafe == Spec => []RegisteredOrShared
<1>1. IInv /\ KeyInv => RegisteredOrShared
  <2> SUFFICES ASSUME IInv, KeyInv, NEW c \in setUp \ registered
               PROVE  \E d \in registered :
                        ServerKey(d) = ServerKey(c) /\ (d.host # c.host \/ d.path # c.path)
    BY DEF RegisteredOrShared
  <2>1. PICK d \in registered : ServerKey(d) = ServerKey(c)
    BY DEF KeyInv
  <2>2. c \in Servers /\ d \in Servers /\ c # d
    BY DEF IInv, TypeOK, ConfigTypeOK
  <2> QED
    BY <2>1, <2>2, KeysOfOneHost
<1> QED
  BY <1>1, Invariance, KeyInvariance, PTL

\* No two servers have one key.
KeysDistinct == \A c, d \in Servers : ServerKey(c) = ServerKey(d) => c = d

\* What the README says of setup is true wherever the keys tell the servers apart: a
\* server that has been set up has registered the daemon.  The collision of two keys
\* is the only way to break it.
THEOREM DistinctKeysRegister == Spec => [](KeysDistinct => SetUpIsRegistered)
<1>1. IInv /\ KeyInv => (KeysDistinct => SetUpIsRegistered)
  BY DEF IInv, TypeOK, ConfigTypeOK, KeyInv, KeysDistinct, SetUpIsRegistered
<1> QED
  BY <1>1, Invariance, KeyInvariance, PTL

-----------------------------------------------------------------------------
(* Outgoing embeddings. *)

\* What is in a sequence has a last place there.
LEMMA LastPlace ==
    ASSUME NEW S, NEW q \in Seq(S), NEW k \in DOMAIN q
    PROVE  \E i \in DOMAIN q : q[i] = q[k] /\ \A j \in DOMAIN q : q[j] = q[k] => j <= i
<1> DEFINE n == Len(q)
           T == {m \in Nat : \E i \in 1..n : q[i] = q[k] /\ m = n - i}
<1>1. n \in Nat /\ DOMAIN q = 1..n
  OBVIOUS
<1>2. \A j \in 1..n : q[j] = q[k] => n - j \in T
  <2> SUFFICES ASSUME NEW j \in 1..n, q[j] = q[k] PROVE n - j \in T
    OBVIOUS
  <2>1. n - j \in Nat
    BY <1>1
  <2> QED
    BY <2>1
<1>3. T # {} /\ T \in SUBSET Nat
  BY <1>1, <1>2
<1>4. \A x \in T : \E i \in 1..n : q[i] = q[k] /\ x = n - i
  OBVIOUS
<1> HIDE DEF T
<1>5. PICK m \in T : \A y \in T : m <= y
  BY <1>3, LeastNat
<1>6. PICK i \in 1..n : q[i] = q[k] /\ m = n - i
  BY <1>4, <1>5
<1>7. ASSUME NEW j \in 1..n, q[j] = q[k] PROVE j <= i
  <2>1. m <= n - j
    BY <1>2, <1>5, <1>7
  <2> QED
    BY <1>1, <1>6, <2>1
<1> QED
  BY <1>1, <1>6, <1>7

\* Of the embeddings a caller brings, one of each name stays.
LEMMA CallerFacts ==
    ASSUME NEW req \in Requests, NEW n \in Supplied(req)
    PROVE  \E i \in DOMAIN req.supplied :
              req.supplied[i] = n /\ ByCaller(req)[n] = <<"caller", i>>
<1> DEFINE q == req.supplied
           P(i) == q[i] = n /\ \A j \in DOMAIN q : q[j] = n => j <= i
<1>1. q \in Seq(Names)
  BY OutboundAssumption
<1>2. PICK k \in DOMAIN q : n = q[k]
  BY DEF Supplied
<1>3. \E i \in DOMAIN q : P(i)
  <2> HIDE DEF q
  <2> QED
    BY <1>1, <1>2, LastPlace
<1>4. P(CHOOSE i \in DOMAIN q : P(i)) /\ (CHOOSE i \in DOMAIN q : P(i)) \in DOMAIN q
  BY <1>3
<1>5. ByCaller(req)[n] = <<"caller", CHOOSE i \in DOMAIN q : P(i)>>
  BY DEF ByCaller
<1> QED
  BY <1>4, <1>5

\* The embeddings that go out are those that the request and the README ask for, for
\* any clients, and whichever of their plugins fail.
LEMMA ComposeFollows ==
    ASSUME NEW req \in Requests, NEW clients, NEW failing
    PROVE  FollowsRequest(req, clients, failing)
<1> DEFINE W == Wanted(req) \cap DOMAIN clients
           T == Tried(req, clients) \ failing
           made(n) == ~n.padded /\ n.id \in W /\ n.id \notin failing
           bc == ByCaller(req)
           bd == ByDaemon(T, clients)
           out == Compose(req, clients, failing)
<1>1. Supplied(req) \subseteq Names /\ Wanted(req) \subseteq Spaces /\ req.override \in BOOLEAN
  <2>1. req.supplied \in Seq(Names) /\ req.wanted \in Seq(Names) /\ req.override \in BOOLEAN
    BY OutboundAssumption
  <2>2. \A i \in DOMAIN req.supplied : req.supplied[i] \in Names
    BY <2>1
  <2>3. \A i \in DOMAIN req.wanted : req.wanted[i] \in Names
    BY <2>1
  <2>4. Wanted(req) \subseteq Spaces
    BY <2>3 DEF Wanted, Names
  <2> QED
    BY <2>1, <2>2, <2>4 DEF Supplied
<1>2. DOMAIN bc = Supplied(req) /\ DOMAIN bd = {Exact(s) : s \in T}
  BY DEF ByCaller, ByDaemon
<1>3. \A n \in Names : n \in DOMAIN bd <=> made(n) /\ (req.override \/ n \notin Supplied(req))
  <2> SUFFICES ASSUME NEW n \in Names
               PROVE  n \in DOMAIN bd <=> made(n) /\ (req.override \/ n \notin Supplied(req))
    OBVIOUS
  <2>1. \A s \in Spaces : n = Exact(s) <=> ~n.padded /\ s = n.id
    BY DEF Exact, Names
  <2>2. n \in DOMAIN bd <=> ~n.padded /\ n.id \in T
    BY <1>1, <1>2, <2>1 DEF Tried
  <2>3. n.id \in T <=> n.id \in W /\ n.id \notin failing /\ ~Skips(req, n.id)
    BY DEF Tried
  <2>4. ~n.padded => (Skips(req, n.id) <=> ~req.override /\ n \in Supplied(req))
    BY <1>1, <2>1 DEF Skips, Names
  <2> QED
    BY <2>2, <2>3, <2>4
<1>4. \A n \in DOMAIN bd : n \in Names /\ bd[n] = <<"daemon", clients[n.id]>>
  <2> SUFFICES ASSUME NEW n \in DOMAIN bd
               PROVE  n \in Names /\ bd[n] = <<"daemon", clients[n.id]>>
    OBVIOUS
  <2>1. bd[n] = <<"daemon", clients[n.id]>>
    BY DEF ByDaemon
  <2>2. PICK s \in T : n = Exact(s)
    BY <1>2
  <2>3. s \in Spaces
    BY <1>1 DEF Tried
  <2> QED
    BY <2>1, <2>2, <2>3 DEF Exact, Names
<1>5. \A n \in Supplied(req) :
        \E i \in DOMAIN req.supplied : req.supplied[i] = n /\ bc[n] = <<"caller", i>>
  BY CallerFacts
<1> HIDE DEF bc, bd, T
<1>6. out = IF req.override THEN Insert(bc, bd) ELSE Insert(bd, bc)
  BY DEF Compose, Merge, bc, bd, T
<1>7. DOMAIN out = DOMAIN bc \cup DOMAIN bd
  BY <1>6 DEF Insert
<1>8. \A n \in DOMAIN out :
        out[n] = IF n \in DOMAIN bd /\ (req.override \/ n \notin DOMAIN bc) THEN bd[n] ELSE bc[n]
  BY <1>6, <1>7 DEF Insert
<1> HIDE DEF out
<1>9. DOMAIN out = Supplied(req) \cup {n \in Names : made(n)}
  BY <1>1, <1>2, <1>3, <1>4, <1>7
<1>10. ASSUME NEW n \in DOMAIN out
       PROVE  IF n \in Supplied(req) /\ ~(req.override /\ made(n))
              THEN \E i \in DOMAIN req.supplied : req.supplied[i] = n /\ out[n] = <<"caller", i>>
              ELSE out[n] = <<"daemon", clients[n.id]>>
  <2>1. n \in Names
    BY <1>1, <1>9
  <2>2. CASE n \in Supplied(req) /\ ~(req.override /\ made(n))
    <3>1. out[n] = bc[n]
      BY <1>2, <1>3, <1>8, <2>1, <2>2
    <3> QED
      BY <1>5, <2>2, <3>1
  <2>3. CASE ~(n \in Supplied(req) /\ ~(req.override /\ made(n)))
    <3>1. n \in DOMAIN bd /\ (req.override \/ n \notin DOMAIN bc)
      BY <1>2, <1>3, <1>9, <2>1, <2>3
    <3> QED
      BY <1>4, <1>8, <2>3, <3>1
  <2> QED
    BY <2>2, <2>3
<1> QED
  BY <1>9, <1>10 DEF FollowsRequest, out

\* A message goes out with the embeddings that its sender asked for, for any backends
\* and any plugins that fail (compose_outbound_embeddings).
THEOREM OutboundIsFaithful == Spec => []OutboundFollowsRequest
<1>1. OutboundFollowsRequest
  BY ComposeFollows DEF OutboundFollowsRequest
<1> QED
  BY <1>1, PTL

-----------------------------------------------------------------------------
(***************************************************************************)
(* The way out.  StopEnds and FailureEnds are liveness, which is left to   *)
(* TLC; here is what they rest on, for every number of tasks, managers and *)
(* hooks: the step that fairness asks for is there to be taken, taking it  *)
(* brings the end nearer, and no other step takes the end further away.    *)
(***************************************************************************)
Stopping == pc \in {"waitCore", "waitServers"}

\* The tasks that CoreExit and ManagerExit look at.
FailureSeen ==
    \/ \E t \in Core : task[t] = "ended"
    \/ \E i \in DOMAIN managers :
        /\ task[managers[i]] = "ended"
        /\ \A j \in 1..i-1 : task[managers[j]] # "ended"

\* A task that has ended is one that run_supervisor looks at, a manager that a setup has
\* added included, unless a setup has still to push it or was cancelled before it did
\* (Unwatched); and the supervisor that runs hooks has a hook to pass over or to start,
\* a child to write to or to wait for, or has run them all.
WayOut ==
    /\ pc = "select" /\ Failed => FailureSeen
    /\ pc = "report" => at[Sup] > Len(hooks) \/ child[Sup] # "none" \/ AtHook(Sup)

\* What is left of the last report: three steps for each hook, of which a child that is
\* written to has taken one and a child that is waited for two.
HooksLeft ==
    3 * (Len(hooks) + 1 - at[Sup])
        - (IF child[Sup] = "none" THEN 0 ELSE IF child[Sup] = "writing" THEN 1 ELSE 2)

StopNearer ==
    \/ pc = "waitCore" /\ pc' = "waitServers"
    \/ pc' = pc /\ Len(waiting') < Len(waiting)

\* Up to the end of the process: after ctrl-c each step of the supervisor leaves one task
\* less to wait for, and no setup adds one; a failure of a task is not forgotten, and no
\* cancelled setup hides it; and a report goes on, hook by hook, by every step of fire and
\* by every payload that a child takes, and makes way for nothing else.
Nearer ==
    [][\/ pc' = "off"
       \/ /\ Stopping => (EndStep /\ StopNearer) \/ (~EndStep /\ UNCHANGED <<pc, waiting>>)
          /\ pc = "select" /\ Failed => pc' # "select" \/ Failed'
          /\ pc = "select" /\ EndStep => pc' = "report"
          /\ pc = "report" =>
                /\ UNCHANGED <<pc, report>>
                /\ HooksLeft \in Nat /\ HooksLeft' \in Nat /\ HooksLeft' <= HooksLeft
                /\ FireStep(Sup) \/ HookWrites(Sup) => HooksLeft' < HooksLeft]_vars

\* The manager t is in server_tasks; it is the one that a setup is about to add.
Pushed(t) == \E i \in DOMAIN managers : managers[i] = t
Joins(t) == joining # NoUrl /\ t = Manager(joining)

\* What the two lists say of a manager.  It has been started if and only if it has a
\* handle, but for the one that a setup is adding; and one with a handle is in
\* server_tasks, but for that one and for those of cancelled setups.
Listed(t) ==
    /\ Pushed(t) \/ t \in strays => t \in handles
    /\ t \in handles => task[t] # "none" /\ (Pushed(t) \/ t \in strays \/ Joins(t))
    /\ task[t] # "none" => t \in handles \/ Joins(t)
    /\ Joins(t) =>
        /\ ~Pushed(t) /\ t \notin strays
        /\ t \in handles <=> stage = "push"
        /\ task[t] = "none" <=> stage = "spawn"

WatchInv ==
    /\ pc \in {"off", "store", "gateway", "spawn"} => joining = NoUrl /\ task[Ipc] = "none"
    /\ pc = "report" => report # NoEvent
    /\ joining = NoUrl => stage = "spawn"
    /\ \A t \in Managers : Listed(t)

LEMMA InitWatch == Init => WatchInv
BY TaskNames DEF Init, WatchInv, Listed, Pushed, Joins

\* Names of tasks.
LEMMA IpcIsNoManager ==
    /\ Ipc \in Tasks /\ Ipc \notin Managers
    /\ Gateway \in Tasks /\ Gateway \notin Managers
    /\ WakeQueue \in Tasks /\ WakeQueue \notin Managers
BY DEF Ipc, Gateway, WakeQueue, Managers, Manager, Tasks, Core

\* A step that changes neither list and starts or loses no manager.
LEMMA SameLists ==
    ASSUME WatchInv, UNCHANGED <<managers, joinVars>>,
           \A t \in Managers : task'[t] = "none" <=> task[t] = "none"
    PROVE  (joining' = NoUrl => stage' = "spawn") /\ \A t \in Managers : Listed(t)'
BY DEF WatchInv, Listed, Pushed, Joins

\* What a push adds to server_tasks.
LEMMA AppendPushes ==
    ASSUME IInv, NEW m \in Managers, managers' = Append(managers, m)
    PROVE  \A t \in Managers : Pushed(t)' <=> Pushed(t) \/ t = m
<1>1. managers \in Seq(Managers)
  BY DEF IInv, TypeOK, LifeTypeOK
<1>2. /\ Len(managers) \in Nat /\ DOMAIN managers = 1..Len(managers)
      /\ DOMAIN managers' = 1..(Len(managers) + 1)
      /\ managers'[Len(managers) + 1] = m
      /\ \A i \in DOMAIN managers : managers'[i] = managers[i]
  BY <1>1
<1>3. \A i \in DOMAIN managers' : i \in DOMAIN managers \/ i = Len(managers) + 1
  BY <1>2
<1>4. DOMAIN managers \subseteq DOMAIN managers' /\ Len(managers) + 1 \in DOMAIN managers'
  BY <1>2
<1> QED
  BY <1>2, <1>3, <1>4 DEF Pushed

\* The steps of a setup inside the daemon.
LEMMA SetupWatch ==
    ASSUME IInv, WatchInv,
           \/ \E raw \in Raws : SetupLive(raw)
           \/ SetupSpawns \/ SetupInserts \/ SetupPushes \/ SetupFails \/ SetupCancelled
           \/ \E t \in Managers : OrphanReturns(t)
    PROVE  WatchInv'
<1>1. /\ task \in [Tasks -> {"none", "up", "ended"}] /\ joining \in Servers \cup {NoUrl}
      /\ stage \in {"spawn", "insert", "push"}
  BY DEF IInv, TypeOK, LifeTypeOK
<1>2. Managers \subseteq Tasks /\ Ipc \notin Managers /\ Ipc \in Tasks
  BY TaskNames, IpcIsNoManager
<1>3. joining # NoUrl => Manager(joining) \in Managers
  BY <1>1, TaskNames
<1>4. ASSUME NEW raw \in Raws, SetupLive(raw) PROVE WatchInv'
  <2>1. /\ joining = NoUrl /\ stage = "spawn" /\ task[Ipc] = "up"
        /\ UNCHANGED <<pc, report, task, managers, stage, handles, strays>>
        /\ joining' # NoUrl => Manager(joining') \notin handles
    BY <1>4 DEF SetupLive, WatchInv
  <2>2. \A t \in Managers : Listed(t)'
    BY <2>1 DEF WatchInv, Listed, Pushed, Joins
  <2> QED
    BY <2>1, <2>2 DEF WatchInv
<1>5. CASE SetupSpawns
  <2>1. /\ joining # NoUrl /\ stage = "spawn" /\ stage' = "insert"
        /\ UNCHANGED <<pc, report, managers, joining, handles, strays>>
        /\ \A t \in Tasks : task'[t] = IF t = Manager(joining) THEN "up" ELSE task[t]
    BY <1>1, <1>5 DEF SetupSpawns
  <2>2. \A t \in Managers : Listed(t)'
    BY <1>2, <2>1 DEF WatchInv, Listed, Pushed, Joins
  <2> QED
    BY <2>1, <2>2 DEF WatchInv
<1>6. CASE SetupInserts
  <2>1. /\ joining # NoUrl /\ stage = "insert" /\ stage' = "push"
        /\ UNCHANGED <<pc, report, task, managers, joining, strays>>
        /\ handles' = handles \cup {Manager(joining)}
    BY <1>6 DEF SetupInserts
  <2>2. \A t \in Managers : Listed(t)'
    BY <2>1 DEF WatchInv, Listed, Pushed, Joins
  <2> QED
    BY <2>1, <2>2 DEF WatchInv
<1>7. CASE SetupPushes
  <2>1. /\ joining # NoUrl /\ stage = "push" /\ stage' = "spawn" /\ joining' = NoUrl
        /\ UNCHANGED <<pc, report, task, handles, strays>>
        /\ managers' = Append(managers, Manager(joining))
    BY <1>7 DEF SetupPushes
  <2>2. \A t \in Managers : Pushed(t)' <=> Pushed(t) \/ t = Manager(joining)
    BY <1>3, <2>1, AppendPushes
  <2>3. \A t \in Managers : Listed(t)'
    BY <2>1, <2>2 DEF WatchInv, Listed, Joins
  <2> QED
    BY <2>1, <2>3 DEF WatchInv
<1>8. CASE SetupFails
  <2>1. /\ joining # NoUrl /\ stage = "spawn" /\ joining' = NoUrl
        /\ UNCHANGED <<pc, report, task, managers, stage, handles, strays>>
    BY <1>8 DEF SetupFails
  <2>2. \A t \in Managers : Listed(t)'
    BY <2>1 DEF WatchInv, Listed, Pushed, Joins
  <2> QED
    BY <2>1, <2>2 DEF WatchInv
<1>9. CASE SetupCancelled
  <2>1. /\ joining # NoUrl /\ stage # "spawn" /\ stage' = "spawn" /\ joining' = NoUrl
        /\ UNCHANGED <<pc, report, managers, handles>>
        /\ IF stage = "insert"
             THEN /\ \A t \in Tasks : task'[t] = IF t = Manager(joining) THEN "none" ELSE task[t]
                  /\ UNCHANGED strays
             ELSE task' = task /\ strays' = strays \cup {Manager(joining)}
    BY <1>1, <1>9 DEF SetupCancelled
  <2>2. \A t \in Managers : Listed(t)'
    BY <1>1, <1>2, <2>1 DEF WatchInv, Listed, Pushed, Joins
  <2> QED
    BY <2>1, <2>2 DEF WatchInv
<1>10. ASSUME NEW t \in Managers, OrphanReturns(t) PROVE WatchInv'
  <2>1. UNCHANGED <<pc, report, task, managers, joining, stage, handles, strays>>
    BY <1>10 DEF OrphanReturns
  <2> QED
    BY <2>1 DEF WatchInv, Listed, Pushed, Joins
<1> QED
  BY <1>4, <1>5, <1>6, <1>7, <1>8, <1>9, <1>10

\* Every step keeps the managers watched.
LEMMA WatchStep == IInv /\ WatchInv /\ [Next]_vars => WatchInv'
<1> SUFFICES ASSUME IInv, WatchInv, [Next]_vars PROVE WatchInv'
  OBVIOUS
<1>1. /\ task \in [Tasks -> {"none", "up", "ended"}] /\ managers \in Seq(Managers)
      /\ joining \in Servers \cup {NoUrl} /\ Managers \subseteq Tasks
  BY TaskNames DEF IInv, TypeOK, LifeTypeOK
<1>2. ASSUME UNCHANGED <<task, managers, joinVars>>,
             pc' = pc \/ pc' \notin {"off", "store", "gateway", "spawn", "report"}
                 \/ (pc' = "report" /\ report' # NoEvent),
             pc' = pc => report' = report
      PROVE  WatchInv'
  <2>1. \A t \in Managers : Listed(t)'
    BY <1>2, SameLists
  <2> QED
    BY <1>2, <2>1 DEF WatchInv
<1>3. CASE Serve \/ StoreReady
  <2>1. /\ UNCHANGED <<task, managers, joinVars>> /\ pc \in {"off", "store"}
        /\ pc' \in {"store", "gateway"}
    BY <1>3 DEF Serve, StoreReady
  <2>2. \A t \in Managers : Listed(t)'
    BY <2>1, SameLists
  <2> QED
    BY <2>1, <2>2 DEF WatchInv
<1>4. CASE StoreFails
  <2>1. UNCHANGED <<task, managers, joinVars>> /\ pc' = "report" /\ report' # NoEvent /\ pc # pc'
    BY <1>4, EventNames DEF StoreFails, Report
  <2> QED
    BY <1>2, <2>1
<1>5. CASE StartGateway
  <2>1. /\ \A t \in Tasks : t # Gateway => task'[t] = task[t]
        /\ pc = "gateway" /\ pc' = "spawn" /\ UNCHANGED <<managers, joinVars>>
    BY <1>1, <1>5 DEF StartGateway
  <2>2. task'[Ipc] = task[Ipc] /\ \A t \in Managers : task'[t] = task[t]
    BY <1>1, <2>1, IpcIsNoManager DEF Ipc, Gateway
  <2>3. \A t \in Managers : Listed(t)'
    BY <2>1, <2>2, SameLists
  <2> QED
    BY <2>1, <2>2, <2>3 DEF WatchInv
<1>6. CASE SpawnManager
  <2> DEFINE entry == conf.servers[next]
             m == Manager(Canonicalize(entry.url))
  <2>1. conf \in Files /\ next \in Nat \ {0} /\ next <= Len(conf.servers) /\ Accepted(conf)
    BY <1>6 DEF IInv, TypeOK, LifeTypeOK, SpawnManager, Started
  <2>2. conf.servers \in Seq(Entries)
    BY <2>1 DEF Files
  <2>3. entry \in Entries /\ next \in DOMAIN conf.servers
    BY <2>1, <2>2
  <2>4. entry.url \in Raws \cup Servers /\ IsServer(entry.url)
    BY <2>1, <2>3 DEF Entries, Accepted, ServersAccepted
  <2>5. m \in Managers /\ m # Ipc
    BY <2>4, TypedIsServer, TaskNames, IpcIsNoManager
  <2> HIDE DEF m
  <2>6. /\ pc = "spawn" /\ pc' = pc /\ UNCHANGED <<joining, stage, orphans, strays, report>>
        /\ \/ /\ task' = [task EXCEPT ![m] = "up"] /\ managers' = Append(managers, m)
              /\ handles' = handles \cup {m}
           \/ UNCHANGED <<task, managers, handles>>
    BY <1>6 DEF SpawnManager, m
  <2>7. CASE UNCHANGED <<task, managers, handles>>
    BY <1>2, <2>6, <2>7
  <2>8. CASE /\ task' = [task EXCEPT ![m] = "up"] /\ managers' = Append(managers, m)
             /\ handles' = handles \cup {m}
    <3>1. \A t \in Managers : Pushed(t)' <=> Pushed(t) \/ t = m
      BY <2>5, <2>8, AppendPushes
    <3>2. \A t \in Tasks : task'[t] = IF t = m THEN "up" ELSE task[t]
      BY <1>1, <2>8
    <3>3. joining = NoUrl /\ joining' = NoUrl /\ task'[Ipc] = task[Ipc]
      BY <2>5, <2>6, <3>2, IpcIsNoManager DEF WatchInv
    <3>4. \A t \in Managers : Listed(t)'
      BY <1>1, <2>6, <2>8, <3>1, <3>2, <3>3 DEF WatchInv, Listed, Joins
    <3> QED
      BY <2>6, <3>3, <3>4 DEF WatchInv
  <2> QED
    BY <2>6, <2>7, <2>8
<1>7. CASE StartTasks
  <2>1. /\ \A t \in Tasks : t # WakeQueue /\ t # Ipc => task'[t] = task[t]
        /\ pc' = "select" /\ UNCHANGED <<managers, joinVars>>
    BY <1>1, <1>7 DEF StartTasks
  <2>2. \A t \in Managers : task'[t] = task[t]
    BY <1>1, <2>1, IpcIsNoManager
  <2>3. (joining' = NoUrl => stage' = "spawn") /\ \A t \in Managers : Listed(t)'
    BY <2>1, <2>2, SameLists
  <2> QED
    BY <2>1, <2>3 DEF WatchInv
<1>8. ASSUME NEW t \in Tasks, TaskEnds(t) \/ TaskStops(t) PROVE WatchInv'
  <2>1. /\ task' = [task EXCEPT ![t] = "ended"] /\ task[t] = "up"
        /\ UNCHANGED <<pc, managers, joinVars, report>>
    BY <1>8 DEF TaskEnds, TaskStops, MayEnd
  <2>2. \A u \in Tasks : task'[u] = "none" <=> task[u] = "none"
    BY <1>1, <2>1
  <2>3. (joining' = NoUrl => stage' = "spawn") /\ \A u \in Managers : Listed(u)'
    BY <1>1, <2>1, <2>2, SameLists
  <2> QED
    BY <2>1, <2>2, <2>3, IpcIsNoManager DEF WatchInv
<1>9. CASE CtrlC \/ WaitOver \/ WaitForManagers \/ GatewayMisreads \/ IpcBinds
  <2>1. /\ UNCHANGED <<task, managers, joinVars, report>>
        /\ pc' = pc \/ pc' \notin {"off", "store", "gateway", "spawn", "report"}
    BY <1>9 DEF CtrlC, WaitOver, WaitForManagers, GatewayMisreads, IpcBinds
  <2> QED
    BY <1>2, <2>1
<1>10. CASE \/ \E t \in Tasks : TaskReports(t)
            \/ HookStep \/ \E raw \in Raws : SetupAlone(raw)
            \/ UNCHANGED vars
  <2>1. UNCHANGED lifeVars
    BY <1>10 DEF TaskReports, HookStep, SetupAlone, vars
  <2> QED
    BY <1>2, <2>1 DEF lifeVars
<1>11. CASE Dies \/ StopDone \/ ReportDone
  <2>1. /\ pc' = "off" /\ managers' = <<>> /\ task' = [t \in Tasks |-> "none"]
        /\ joining' = NoUrl /\ stage' = "spawn" /\ handles' = {} /\ strays' = {}
    BY <1>11 DEF Dies, StopDone, ReportDone, Ends
  <2>2. \A t \in Managers : Listed(t)'
    BY <1>1, <2>1 DEF Listed, Pushed, Joins
  <2> QED
    BY <2>1, <2>2, IpcIsNoManager DEF WatchInv
<1>12. ASSUME NEW t \in Core, CoreExit(t) PROVE WatchInv'
  <2>1. UNCHANGED <<task, managers, joinVars>> /\ pc' = "report" /\ report' # NoEvent /\ pc # pc'
    BY <1>12, EventNames, TaskNames DEF CoreExit, Report
  <2> QED
    BY <1>2, <2>1
<1>13. CASE ManagerExit
  <2>1. PICK i \in DOMAIN managers :
          /\ pc' = "report" /\ Report(TaskExit(managers[i]))
          /\ UNCHANGED <<task, managers, joinVars>> /\ pc = "select"
    BY <1>13 DEF ManagerExit
  <2>2. managers[i] \in Managers
    BY <1>1, <2>1
  <2>3. report' # NoEvent
    BY <1>1, <2>1, <2>2, EventNames DEF Report
  <2> QED
    BY <1>2, <2>1, <2>3
<1>14. CASE \/ \E raw \in Raws : SetupLive(raw)
            \/ SetupSpawns \/ SetupInserts \/ SetupPushes \/ SetupFails \/ SetupCancelled
            \/ \E t \in Managers : OrphanReturns(t)
  BY <1>14, SetupWatch
<1> QED
  BY <1>3, <1>4, <1>5, <1>6, <1>7, <1>8, <1>9, <1>10, <1>11, <1>12, <1>13, <1>14
  DEF Next, EndStep

\* IInv and WatchInv hold throughout.
LEMMA Watched == Spec => [](IInv /\ WatchInv)
<1>1. Init => IInv /\ WatchInv
  BY InitInv, InitWatch
<1>2. IInv /\ WatchInv /\ [Next]_vars => (IInv /\ WatchInv)'
  BY StepInv, WatchStep
<1> QED
  BY <1>1, <1>2, PTL DEF Spec

\* The supervisor that has to end is never without a step: every task is watched by
\* run_supervisor, however it came to be, but for the manager that a setup is adding and
\* those that cancelled setups have left outside server_tasks; and the last report has
\* always a hook to go on with, a child to write to or to wait for, or is done.
THEOREM EndIsPossible == Spec => []WayOut
<1>1. ASSUME IInv, WatchInv PROVE WayOut
  <2>1. ASSUME Failed PROVE FailureSeen
    <3>1. PICK t \in Tasks \ Unwatched : task[t] = "ended"
      BY <2>1 DEF Failed
    <3>2. CASE t \in Core
      BY <3>1, <3>2 DEF FailureSeen
    <3>3. CASE t \in Managers
      <4> DEFINE T == {i \in DOMAIN managers : task[managers[i]] = "ended"}
      <4>1. managers \in Seq(Managers)
        BY <1>1 DEF IInv, TypeOK, LifeTypeOK
      <4>2. \E i \in DOMAIN managers : managers[i] = t
        BY <1>1, <3>1, <3>3 DEF WatchInv, Listed, Joins, Pushed, Unwatched
      <4>3. T \in SUBSET Nat /\ T # {}
        BY <3>1, <4>1, <4>2
      <4>4. PICK i \in T : \A j \in T : i <= j
        BY <4>3, LeastNat
      <4>5. \A j \in 1..i-1 : j \in DOMAIN managers /\ j \notin T
        BY <4>1, <4>4
      <4> QED
        BY <4>4, <4>5 DEF FailureSeen
    <3> QED
      BY <3>2, <3>3 DEF Tasks
  <2>2. pc = "report" => firing[Sup] # NoEvent /\ Sup \in Firers
    BY <1>1, EventNames DEF IInv, SupReports, WatchInv
  <2>3. pc = "report" => at[Sup] \in 1..Len(hooks) + 1 /\ Len(hooks) \in Nat
    BY <1>1, <2>2 DEF IInv, TypeOK, HookTypeOK
  <2> QED
    BY <2>1, <2>2, <2>3 DEF WayOut, AtHook
<1> QED
  BY <1>1, Watched, PTL

\* While the supervisor reports, what is left of it is a natural number.
LEMMA HooksLeftNat ==
    ASSUME IInv, WatchInv, pc = "report"
    PROVE  /\ HooksLeft \in Nat
           /\ at[Sup] \in 1..Len(hooks) + 1 /\ Len(hooks) \in Nat 
           /\ child[Sup] \in {"none", "writing", "waiting"}
           /\ child[Sup] # "none" => at[Sup] <= Len(hooks)
<1>1. firing[Sup] # NoEvent /\ Sup \in Firers
  BY EventNames DEF IInv, SupReports, WatchInv
<1>2. /\ at[Sup] \in 1..Len(hooks) + 1 /\ Len(hooks) \in Nat
      /\ child[Sup] # "none" => at[Sup] <= Len(hooks)
  BY <1>1 DEF IInv, TypeOK, HookTypeOK
<1>3. child[Sup] \in {"none", "writing", "waiting"}
  BY <1>1 DEF IInv, TypeOK, HookTypeOK
<1>4. CASE child[Sup] # "none"
  BY <1>2, <1>3, <1>4 DEF HooksLeft
<1>5. CASE child[Sup] = "none"
  BY <1>2, <1>3, <1>5 DEF HooksLeft
<1> QED
  BY <1>2, <1>3, <1>4, <1>5

LEMMA HooksLeftNext ==
    IInv' /\ WatchInv' /\ pc' = "report" => HooksLeft' \in Nat
<1>1. IInv /\ WatchInv /\ pc = "report" => HooksLeft \in Nat
  BY HooksLeftNat
<1>2. (IInv /\ WatchInv /\ pc = "report" => HooksLeft \in Nat)'
  BY <1>1, PTL
<1> QED
  BY <1>2

\* A step of fire, or of the child, takes the supervisor's report on.
LEMMA FireStepNearer ==
    ASSUME IInv, WatchInv, pc = "report",
           FireStep(Sup) \/ HookWrites(Sup) \/ ChildExits(Sup)
    PROVE  HooksLeft' < HooksLeft
<1>1. /\ at[Sup] \in 1..Len(hooks) + 1 /\ Len(hooks) \in Nat
      /\ child[Sup] \in {"none", "writing", "waiting"}
  BY HooksLeftNat
<1>2. Sup \in Firers /\ DOMAIN at = Firers /\ DOMAIN child = Firers
  BY EventNames DEF IInv, TypeOK, HookTypeOK
<1>3. CASE HookPassed(Sup)
  <2>1. hooks' = hooks /\ at'[Sup] = at[Sup] + 1 /\ child'[Sup] = child[Sup]
    BY <1>2, <1>3 DEF HookPassed
  <2> QED
    BY <1>1, <2>1 DEF HooksLeft
<1>4. CASE HookRuns(Sup)
  <2>1. hooks' = hooks /\ at'[Sup] = at[Sup] /\ child[Sup] = "none" /\ child'[Sup] = "writing"
    BY <1>2, <1>4 DEF HookRuns, AtHook
  <2> QED
    BY <1>1, <2>1 DEF HooksLeft
<1>5. CASE HookOver(Sup)
  <2>1. hooks' = hooks /\ at'[Sup] = at[Sup] + 1 /\ child[Sup] # "none" /\ child'[Sup] = "none"
    BY <1>2, <1>5 DEF HookOver
  <2> QED
    BY <1>1, <2>1 DEF HooksLeft
<1>6. CASE HookWrites(Sup)
  <2>1. hooks' = hooks /\ at'[Sup] = at[Sup] /\ child[Sup] = "writing" /\ child'[Sup] = "waiting"
    BY <1>2, <1>6 DEF HookWrites
  <2> QED
    BY <1>1, <2>1 DEF HooksLeft
<1> QED
  BY <1>3, <1>4, <1>5, <1>6 DEF FireStep, HookTimesOut, ChildExits

\* No other step gives the supervisor more hooks to run, or something else to do.
LEMMA ReportGoesOn ==
    ASSUME IInv, WatchInv, [Next]_vars, pc = "report", pc' # "off"
    PROVE  UNCHANGED <<pc, report>> /\ HooksLeft' <= HooksLeft
<1> DEFINE Same == UNCHANGED <<hooks>> /\ at'[Sup] = at[Sup] /\ child'[Sup] = child[Sup]
<1>1. HooksLeft \in Nat
  BY HooksLeftNat
<1>2. ASSUME Same PROVE HooksLeft' = HooksLeft
  BY <1>2 DEF HooksLeft
<1>3. /\ Sup \in Firers /\ at \in [Firers -> Nat \ {0}] /\ child \in [Firers -> {"none", "writing", "waiting"}]
      /\ Noisy \subseteq Firers /\ Sup \notin Noisy
  BY EventNames DEF IInv, TypeOK, HookTypeOK
<1>4. CASE HookStep
  <2>1. UNCHANGED <<pc, report>>
    BY <1>4 DEF HookStep, lifeVars
  <2>2. CASE FireStep(Sup) \/ HookWrites(Sup) \/ ChildExits(Sup)
    <3>1. HooksLeft' < HooksLeft /\ HooksLeft' \in Int
      <4>1. pc' = "report" /\ IInv' /\ WatchInv'
        BY <2>1, StepInv, WatchStep
      <4>2. HooksLeft' \in Nat
        BY <4>1, HooksLeftNext
      <4> QED
        BY <2>2, <4>2, FireStepNearer
    <3> QED
      BY <1>1, <2>1, <3>1
  <2>3. ASSUME NEW f \in Firers, f # Sup, FireStep(f) \/ HookWrites(f) \/ ChildExits(f)
        PROVE  Same
    BY <1>3, <2>3 DEF FireStep, ChildExits, HookPassed, HookRuns, HookWrites, HookTimesOut,
                      HookOver
  <2>4. ASSUME NEW t \in Noisy, FireReturns(t) PROVE Same
    BY <1>3, <2>4 DEF FireReturns
  <2>5. ASSUME NEW p \in lastSent, WindowPasses(p) PROVE Same
    BY <2>5 DEF WindowPasses
  <2> QED
    BY <1>1, <1>2, <1>4, <2>1, <2>2, <2>3, <2>4, <2>5 DEF HookStep
<1>5. ASSUME NEW t \in Tasks, TaskReports(t) PROVE Same /\ UNCHANGED <<pc, report>>
  BY <1>3, <1>5 DEF TaskReports, FireBegins, lifeVars
<1>6. CASE \/ \E t \in Tasks : TaskEnds(t) \/ TaskStops(t)
           \/ GatewayMisreads \/ IpcBinds
           \/ SetupSpawns \/ SetupInserts \/ SetupPushes \/ SetupFails \/ SetupCancelled
           \/ \E t \in Managers : OrphanReturns(t)
           \/ \E raw \in Raws : SetupAlone(raw) \/ SetupLive(raw)
           \/ UNCHANGED vars
  <2>1. UNCHANGED <<hookVars, pc, report>>
    BY <1>6 DEF TaskEnds, TaskStops, GatewayMisreads, IpcBinds, SetupSpawns, SetupInserts,
                SetupPushes, SetupFails, SetupCancelled, OrphanReturns, SetupAlone, SetupLive,
                lifeVars, vars
  <2> QED
    BY <1>1, <1>2, <2>1 DEF hookVars
<1>7. CASE \/ Serve \/ StoreReady \/ StoreFails \/ StartGateway \/ SpawnManager \/ StartTasks
           \/ CtrlC \/ WaitOver \/ WaitForManagers \/ StopDone \/ ManagerExit
           \/ \E t \in Core : CoreExit(t)
  BY <1>7 DEF Serve, StoreReady, StoreFails, StartGateway, SpawnManager, StartTasks,
              CtrlC, WaitOver, WaitForManagers, StopDone, ManagerExit, CoreExit
<1>8. CASE Dies \/ ReportDone
  BY <1>8 DEF Dies, ReportDone, Ends
<1> QED
  BY <1>1, <1>2, <1>4, <1>5, <1>6, <1>7, <1>8 DEF Next, EndStep

\* After ctrl-c the list of tasks to wait for gets shorter by the supervisor's own steps.
LEMMA StopGoesOn ==
    ASSUME IInv, [Next]_vars, Stopping, pc' # "off"
    PROVE  (EndStep /\ StopNearer) \/ (~EndStep /\ UNCHANGED <<pc, waiting>>)
<1>1. CASE EndStep
  <2>1. waiting \in Seq(Tasks)
    BY DEF IInv, TypeOK, LifeTypeOK
  <2>2. CASE WaitOver
    <3>1. waiting # <<>> /\ waiting' = Tail(waiting) /\ pc' = pc
      BY <2>2 DEF WaitOver
    <3>2. Len(waiting') < Len(waiting)
      BY <2>1, <3>1
    <3> QED
      BY <1>1, <3>1, <3>2 DEF StopNearer
  <2>3. CASE WaitForManagers
    BY <1>1, <2>3 DEF WaitForManagers, StopNearer
  <2>4. CASE StopDone \/ ReportDone \/ ManagerExit \/ \E t \in Core : CoreExit(t)
    BY <2>4 DEF StopDone, ReportDone, ManagerExit, CoreExit, Ends, Stopping
  <2> QED
    BY <1>1, <2>2, <2>3, <2>4 DEF EndStep
<1>2. CASE ~EndStep
  <2>1. CASE \/ Serve \/ StoreReady \/ StoreFails \/ StartGateway \/ SpawnManager \/ StartTasks
             \/ CtrlC \/ Dies
    BY <2>1 DEF Serve, StoreReady, StoreFails, StartGateway, SpawnManager, StartTasks,
                CtrlC, Dies, Ends, Stopping
  <2>2. CASE \/ \E t \in Tasks : TaskEnds(t) \/ TaskStops(t) \/ TaskReports(t)
             \/ GatewayMisreads \/ IpcBinds \/ HookStep
             \/ SetupSpawns \/ SetupInserts \/ SetupPushes \/ SetupFails \/ SetupCancelled
             \/ \E t \in Managers : OrphanReturns(t)
             \/ \E raw \in Raws : SetupAlone(raw) \/ SetupLive(raw)
             \/ UNCHANGED vars
    BY <1>2, <2>2 DEF TaskEnds, TaskStops, TaskReports, GatewayMisreads, IpcBinds, HookStep,
                SetupSpawns, SetupInserts, SetupPushes, SetupFails, SetupCancelled,
                OrphanReturns, SetupAlone, SetupLive, lifeVars, vars
  <2> QED
    BY <1>2, <2>1, <2>2 DEF Next
<1> QED
  BY <1>1, <1>2

\* A watched task that has ended has ended until the process does, and stays watched.
LEMMA FailureStays ==
    ASSUME IInv, WatchInv, [Next]_vars, pc = "select", Failed
    PROVE  pc' # "select" \/ Failed'
<1>1. PICK t \in Tasks \ Unwatched : task[t] = "ended"
  BY DEF Failed
<1>2. task \in [Tasks -> {"none", "up", "ended"}]
  BY DEF IInv, TypeOK, LifeTypeOK
<1>3. t \notin strays /\ ~Joins(t)
  BY <1>1 DEF Unwatched, Joins
<1>4. SUFFICES (task'[t] = "ended" /\ t \notin strays' /\ ~Joins(t)') \/ pc' # "select"
  BY <1>1 DEF Failed, Unwatched, Joins
<1>5. ASSUME NEW u \in Tasks, TaskEnds(u) \/ TaskStops(u)
      PROVE  task'[t] = "ended" /\ t \notin strays' /\ ~Joins(t)'
  BY <1>1, <1>2, <1>3, <1>5 DEF TaskEnds, TaskStops, Joins
<1>6. ASSUME NEW raw \in Raws, SetupLive(raw)
      PROVE  task'[t] = "ended" /\ t \notin strays' /\ ~Joins(t)'
  <2>1. /\ UNCHANGED <<task, strays>>
        /\ joining' # NoUrl => joining' \in Servers /\ Manager(joining') \notin handles
    BY <1>6, SetupSavesType DEF SetupLive, IInv, TypeOK
  <2>2. CASE t \in Core
    BY <1>1, <1>3, <2>1, <2>2, TaskNames, IpcIsNoManager DEF Core, Joins
  <2>3. CASE t \in Managers
    <3>1. t \in handles
      BY <1>1, <1>3, <2>3 DEF WatchInv, Listed
    <3> QED
      BY <1>1, <1>3, <2>1, <3>1 DEF Joins
  <2> QED
    BY <1>1, <2>2, <2>3 DEF Tasks
<1>7. CASE SetupSpawns \/ SetupCancelled
  BY <1>1, <1>2, <1>3, <1>7 DEF SetupSpawns, SetupCancelled, Joins
<1>8. CASE \/ SetupInserts \/ SetupPushes \/ SetupFails
           \/ \E u \in Managers : OrphanReturns(u)
  BY <1>1, <1>3, <1>8 DEF SetupInserts, SetupPushes, SetupFails, OrphanReturns, Joins
<1>9. CASE \/ \E u \in Tasks : TaskReports(u)
           \/ GatewayMisreads \/ IpcBinds \/ HookStep
           \/ \E raw \in Raws : SetupAlone(raw)
           \/ UNCHANGED vars
  BY <1>1, <1>3, <1>9 DEF TaskReports, GatewayMisreads, IpcBinds, HookStep, SetupAlone,
              lifeVars, vars, Joins
<1>10. CASE \/ Serve \/ StoreReady \/ StoreFails \/ StartGateway \/ SpawnManager \/ StartTasks
            \/ CtrlC \/ Dies \/ EndStep
  BY <1>10 DEF Serve, StoreReady, StoreFails, StartGateway, SpawnManager, StartTasks, CtrlC,
              Dies, EndStep, WaitOver, WaitForManagers, StopDone, ReportDone, ManagerExit,
              CoreExit, Ends
<1> QED
  BY <1>5, <1>6, <1>7, <1>8, <1>9, <1>10 DEF Next

\* Every step of the supervisor on its way out brings the end nearer, and no step of a
\* task, of a setup, cancelled or not, or of a child takes it further away (run_supervisor,
\* fire): with EndIsPossible, the weak fairness of these steps and children that take
\* their payload, this is why StopEnds and FailureEnds hold.
THEOREM EndComesNearer == Spec => Nearer
<1> DEFINE Step ==
      /\ Stopping => (EndStep /\ StopNearer) \/ (~EndStep /\ UNCHANGED <<pc, waiting>>)
      /\ pc = "select" /\ Failed => pc' # "select" \/ Failed'
      /\ pc = "select" /\ EndStep => pc' = "report"
      /\ pc = "report" =>
            /\ UNCHANGED <<pc, report>>
            /\ HooksLeft \in Nat /\ HooksLeft' \in Nat /\ HooksLeft' <= HooksLeft
            /\ FireStep(Sup) \/ HookWrites(Sup) => HooksLeft' < HooksLeft
<1>1. ASSUME IInv, WatchInv, [Next]_vars, pc' # "off" PROVE Step
  <2>1. Stopping => (EndStep /\ StopNearer) \/ (~EndStep /\ UNCHANGED <<pc, waiting>>)
    BY <1>1, StopGoesOn
  <2>2. pc = "select" /\ Failed => pc' # "select" \/ Failed'
    BY <1>1, FailureStays
  <2>3. pc = "select" /\ EndStep => pc' = "report"
    BY DEF EndStep, WaitOver, WaitForManagers, StopDone, ReportDone, ManagerExit, CoreExit
  <2>4. ASSUME pc = "report"
        PROVE  /\ UNCHANGED <<pc, report>> /\ HooksLeft' <= HooksLeft
               /\ FireStep(Sup) \/ HookWrites(Sup) => HooksLeft' < HooksLeft
    BY <1>1, <2>4, ReportGoesOn, FireStepNearer
  <2>5. ASSUME pc = "report" PROVE HooksLeft \in Nat /\ HooksLeft' \in Nat
    <3>1. IInv' /\ WatchInv'
      BY <1>1, StepInv, WatchStep
    <3>2. pc' = "report"
      BY <2>4, <2>5
    <3>3. HooksLeft \in Nat
      BY <1>1, <2>5, HooksLeftNat
    <3>4. HooksLeft' \in Nat
      BY <3>1, <3>2, HooksLeftNext
    <3> QED
      BY <3>3, <3>4
  <2> QED
    BY <2>1, <2>2, <2>3, <2>4, <2>5
<1>2. IInv /\ WatchInv /\ [Next]_vars => [pc' = "off" \/ Step]_vars
  <2> HIDE DEF Step
  <2> QED
    BY <1>1
<1> QED
  BY <1>2, Watched, PTL DEF Spec, Nearer

-----------------------------------------------------------------------------
(* One manager for each server. *)

\* No server has two managers in server_tasks.
NoTwins == \A i, j \in DOMAIN managers : managers[i] = managers[j] => i = j

\* No server has two managers in server_tasks, none is there without a handle, and a
\* setup that is about to start one finds none that has a handle or that an earlier setup
\* has started and is adding.  Only a manager that a cancelled setup has left without
\* a handle (orphans) may run beside another one of its server.
OneManagerEach ==
    /\ NoTwins
    /\ \A t \in Managers : Pushed(t) \/ t \in strays => t \in handles
    /\ \A t \in Managers : task[t] # "none" => t \in handles \/ Joins(t)
    /\ \A t \in Managers :
          Joins(t) /\ stage = "spawn" => task[t] = "none" /\ t \notin handles

\* While the managers of the configuration are spawned, the list holds those of its
\* first entries; later, a setup adds only managers that are not there.
TwinInv ==
    /\ NoTwins
    /\ pc \in {"off", "store", "gateway"} => next = 1 /\ managers = <<>>
    /\ pc = "spawn" =>
        \A i \in DOMAIN managers : \E n \in 1..next-1 :
            managers[i] = Manager(Canonicalize(conf.servers[n].url))

LEMMA TwinPush ==
    ASSUME IInv, NoTwins, NEW m \in Managers, ~Pushed(m), managers' = Append(managers, m)
    PROVE  NoTwins'
<1>1. managers \in Seq(Managers)
  BY DEF IInv, TypeOK, LifeTypeOK
<1>2. /\ Len(managers) \in Nat /\ DOMAIN managers = 1..Len(managers)
      /\ DOMAIN managers' = 1..(Len(managers) + 1)
      /\ managers'[Len(managers) + 1] = m
      /\ \A i \in DOMAIN managers : managers'[i] = managers[i] /\ managers[i] # m
  BY <1>1 DEF Pushed
<1>3. \A i \in DOMAIN managers' : i = Len(managers) + 1 \/ i \in DOMAIN managers
  BY <1>2
<1> QED
  BY <1>2, <1>3 DEF NoTwins

LEMMA TwinStep == IInv /\ WatchInv /\ TwinInv /\ [Next]_vars => TwinInv'
<1> SUFFICES ASSUME IInv, WatchInv, TwinInv, [Next]_vars PROVE TwinInv'
  OBVIOUS
<1>1. managers \in Seq(Managers) /\ joining \in Servers \cup {NoUrl}
  BY DEF IInv, TypeOK, LifeTypeOK
<1>3. ASSUME UNCHANGED <<managers, next, conf>>,
             pc' = pc \/ pc' \notin {"off", "store", "gateway", "spawn"}
      PROVE  TwinInv'
  BY <1>3 DEF TwinInv, NoTwins
<1>4. CASE Serve
  BY <1>4 DEF Serve, TwinInv, NoTwins
<1>5. CASE StoreReady
  BY <1>5 DEF StoreReady, TwinInv, NoTwins
<1>6. CASE StartGateway
  <2>1. managers' = <<>> /\ pc' = "spawn"
    BY <1>6 DEF StartGateway, TwinInv
  <2> QED
    BY <2>1 DEF TwinInv, NoTwins
<1>7. CASE SpawnManager
  <2> DEFINE c(n) == Canonicalize(conf.servers[n].url)
             m == Manager(c(next))
  <2>1. conf \in Files /\ next \in Nat \ {0} /\ next <= Len(conf.servers) /\ Accepted(conf)
    BY <1>7 DEF IInv, TypeOK, LifeTypeOK, SpawnManager, Started
  <2>2. conf.servers \in Seq(Entries)
    BY <2>1 DEF Files
  <2>3. /\ DOMAIN conf.servers = 1..Len(conf.servers) /\ Len(conf.servers) \in Nat
        /\ next \in DOMAIN conf.servers /\ conf.servers[next] \in Entries
    BY <2>1, <2>2
  <2>4. /\ conf.servers[next].url \in Raws \cup Servers /\ IsServer(conf.servers[next].url)
        /\ \A i, j \in DOMAIN conf.servers : c(i) = c(j) => i = j
    BY <2>1, <2>3 DEF Entries, Accepted, ServersAccepted, IsInjective
  <2>5. m \in Managers
    BY <2>4, TypedIsServer, TaskNames
  <2>6. ~Pushed(m)
    <3> SUFFICES ASSUME NEW i \in DOMAIN managers, managers[i] = m PROVE FALSE
      BY DEF Pushed
    <3>1. PICK n \in 1..next-1 : managers[i] = Manager(c(n))
      BY <1>7 DEF SpawnManager, TwinInv
    <3>2. c(n) = c(next)
      BY <3>1 DEF Manager
    <3> QED
      BY <2>1, <2>3, <2>4, <3>1, <3>2
  <2>7. /\ pc = "spawn" /\ pc' = "spawn" /\ next' = next + 1 /\ conf' = conf
        /\ managers' = Append(managers, m) \/ managers' = managers
    BY <1>7 DEF SpawnManager
  <2>8. next \in 1..next'-1 /\ \A n \in 1..next-1 : n \in 1..next'-1
    BY <2>1, <2>7
  <2>9. CASE managers' = managers
    BY <2>7, <2>8, <2>9 DEF TwinInv, NoTwins
  <2>10. CASE managers' = Append(managers, m)
    <3>1. NoTwins'
      <4> HIDE DEF m
      <4> QED
        BY <2>5, <2>6, <2>10, TwinPush DEF TwinInv
    <3>2. \A i \in DOMAIN managers' :
            \/ i \in DOMAIN managers /\ managers'[i] = managers[i]
            \/ managers'[i] = m
      <4> HIDE DEF m
      <4> QED
        BY <1>1, <2>10
    <3>3. ASSUME NEW i \in DOMAIN managers'
          PROVE  \E n \in 1..next'-1 : managers'[i] = Manager(Canonicalize(conf'.servers[n].url))
      <4>1. CASE managers'[i] = m
        BY <2>7, <2>8, <4>1
      <4>2. CASE i \in DOMAIN managers /\ managers'[i] = managers[i]
        BY <2>7, <2>8, <4>2 DEF TwinInv
      <4> QED
        BY <3>2, <4>1, <4>2
    <3> QED
      BY <2>7, <3>1, <3>3 DEF TwinInv
  <2> QED
    BY <2>7, <2>9, <2>10
<1>8. CASE SetupPushes
  <2>1. /\ joining # NoUrl /\ Manager(joining) \in Managers /\ pc' = pc
        /\ managers' = Append(managers, Manager(joining))
    BY <1>1, <1>8, TaskNames DEF SetupPushes
  <2>2. ~Pushed(Manager(joining))
    BY <2>1 DEF WatchInv, Listed, Joins
  <2>3. NoTwins'
    BY <2>1, <2>2, TwinPush DEF TwinInv
  <2>4. pc' \notin {"off", "store", "gateway", "spawn"}
    BY <2>1 DEF WatchInv
  <2> QED
    BY <2>3, <2>4 DEF TwinInv
<1>9. CASE \/ StoreFails \/ StartTasks \/ CtrlC \/ WaitOver \/ WaitForManagers
           \/ GatewayMisreads \/ IpcBinds \/ ManagerExit \/ \E t \in Core : CoreExit(t)
  BY <1>3, <1>9 DEF StoreFails, StartTasks, CtrlC, WaitOver, WaitForManagers, GatewayMisreads,
     IpcBinds, ManagerExit, CoreExit
<1>10. CASE \/ SetupSpawns \/ SetupInserts \/ SetupFails \/ SetupCancelled
            \/ (\E t \in Managers : OrphanReturns(t)) \/ \E raw \in Raws : SetupLive(raw)
  BY <1>3, <1>10 DEF SetupSpawns, SetupInserts, SetupFails, SetupCancelled, OrphanReturns,
     SetupLive
<1>11. ASSUME NEW t \in Tasks, TaskEnds(t) \/ TaskStops(t) PROVE TwinInv'
  BY <1>3, <1>11 DEF TaskEnds, TaskStops
<1>12. CASE \/ \E t \in Tasks : TaskReports(t)
            \/ HookStep \/ (\E raw \in Raws : SetupAlone(raw)) \/ UNCHANGED vars
  <2>1. UNCHANGED lifeVars
    BY <1>12 DEF TaskReports, HookStep, SetupAlone, vars
  <2> QED
    BY <1>3, <2>1 DEF lifeVars
<1>13. CASE Dies \/ StopDone \/ ReportDone
  <2>1. pc' = "off" /\ next' = 1 /\ managers' = <<>>
    BY <1>13 DEF Dies, StopDone, ReportDone, Ends
  <2> QED
    BY <2>1 DEF TwinInv, NoTwins
<1> QED
  BY <1>4, <1>5, <1>6, <1>7, <1>8, <1>9, <1>10, <1>11, <1>12, <1>13 DEF Next, EndStep

\* However the URLs of config.json and of the setups are typed, run_supervisor and
\* ensure_server_manager give a server at most one manager that the daemon knows of:
\* from_stored refuses a file that names a server twice, and a setup starts a manager only
\* for a server that has no handle.  What the theorem cannot exclude is the manager that a
\* setup whose client went away has left without one.
THEOREM NoTwinManagers == Spec => []OneManagerEach
<1>1. Init => TwinInv
  BY DEF Init, TwinInv, NoTwins
<1>2. IInv /\ WatchInv /\ TwinInv /\ [Next]_vars => TwinInv'
  BY TwinStep
<1>3. WatchInv /\ TwinInv => OneManagerEach
  BY DEF WatchInv, Listed, TwinInv, OneManagerEach
<1> QED
  BY <1>1, <1>2, <1>3, Watched, PTL DEF Spec
=============================================================================
