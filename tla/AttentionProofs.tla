-------------------------- MODULE AttentionProofs --------------------------
(***************************************************************************)
(* The attention layer decides by the documented policy and fails closed,  *)
(* for any receptors, packs and messages.                                  *)
(***************************************************************************)
EXTENDS Attention, TLAPS

\* The steps of AttentionLayer::new.
Building ==
  \/ ChooseBackend \/ LoadPacksFails \/ LoadPacks \/ ComputeWithoutPlugin \/ ComputeDone
  \/ \E r \in Receptors : ComputeWildcard(r) \/ ComputeVector(r) \/ ComputeFails(r)

\* The flags of the layer only ever take Boolean values.
FlagsOK == plugin \in BOOLEAN /\ degraded \in BOOLEAN /\ vetoUnavailable \in BOOLEAN

\* Start-up keeps the types of the layer.
LEMMA BuildingType == TypeOK /\ StartInv /\ Building => TypeOK'
<1> SUFFICES ASSUME TypeOK, StartInv, Building PROVE TypeOK'
  OBVIOUS
<1> USE DEF config, layer
<1>1. UNCHANGED <<config, result, message>>
  BY DEF Building, ChooseBackend, LoadPacksFails, LoadPacks, ComputeWithoutPlugin, ComputeDone,
         ComputeWildcard, ComputeVector, ComputeFails
<1>2. FlagsOK'
  BY Zenon DEF TypeOK, FlagsOK, Building, ChooseBackend, LoadPacksFails, LoadPacks,
     ComputeWithoutPlugin, ComputeDone, ComputeWildcard, ComputeVector, ComputeFails
<1> DEFINE Sets == /\ pc \in {"new", "load", "compute", "ready"} /\ todo \subseteq Receptors
                   /\ receptors \subseteq Receptors /\ vectors \subseteq receptors
<1>s. Sets
  BY DEF TypeOK
<1>3. Sets'
  <2>1. CASE ChooseBackend
    BY <1>s, <2>1 DEF ChooseBackend
  <2>2. CASE LoadPacksFails
    BY <1>s, <2>2 DEF LoadPacksFails
  <2>3. CASE LoadPacks
    BY <1>s, <2>3 DEF LoadPacks, Loaded
  <2>4. CASE ComputeWithoutPlugin
    BY <1>s, <2>4 DEF ComputeWithoutPlugin, StartInv, Embedded
  <2>5. CASE ComputeDone
    BY <1>s, <2>5 DEF ComputeDone
  <2>6. ASSUME NEW r \in Receptors, ComputeWildcard(r) PROVE Sets'
    BY <1>s, <2>6 DEF ComputeWildcard
  <2>7. ASSUME NEW r \in Receptors, ComputeVector(r) PROVE Sets'
    BY <1>s, <2>7 DEF ComputeVector
  <2>8. ASSUME NEW r \in Receptors, ComputeFails(r) PROVE Sets'
    BY <1>s, <2>8 DEF ComputeFails
  <2> QED
    BY <2>1, <2>2, <2>3, <2>4, <2>5, <2>6, <2>7, <2>8 DEF Building
<1> QED
  BY <1>1, <1>2, <1>3 DEF TypeOK, FlagsOK

\* An evaluation changes nothing but the result and the message it is about.
LEMMA EvaluateFrame ==
    ASSUME NEW m \in Messages, Evaluate(m)
    PROVE  /\ pc = "ready" /\ message' = m
           /\ UNCHANGED <<config, pc, todo, layer>>
BY DEF Evaluate, EvaluateVetoUnavailable, EvaluateDegraded, EvaluateNoReceptor, EvaluateVetoed,
   EvaluateVetoOnly, EvaluateVetoBlind, EvaluatePlain, EvaluateScored, Answer

\* What Answer returns is a result.
LEMMA AnswerType ==
    ASSUME TypeOK, NEW m \in Messages, NEW deliver \in BOOLEAN, NEW matches \in SUBSET Matches,
           NEW fallback \in BOOLEAN, NEW disposition \in Dispositions,
           NEW blind \in BOOLEAN, Answer(m, deliver, matches, fallback, disposition, blind)
    PROVE  TypeOK'
<1>1. result' \in Results /\ message' \in Messages
  BY DEF Answer, Results
<1>2. UNCHANGED <<config, pc, todo, layer>>
  BY DEF Answer
<1> QED
  BY <1>1, <1>2 DEF TypeOK, config, layer

\* Each way of returning is an Answer of the right type.
LEMMA EvaluateType == ASSUME TypeOK, NEW m \in Messages, Evaluate(m) PROVE TypeOK'
<1> DEFINE Ok(M) == M \in SUBSET Matches
<1>r. receptors \subseteq Receptors
  BY DEF TypeOK
<1>t. \A r \in Receptors, b \in BOOLEAN : Match(r, b) \in Matches
  BY DEF Match, Matches
<1>a. \A r : Above(m, r) \in BOOLEAN
  BY DEF Above
<1>m. /\ Ok({})
      /\ \A S \in SUBSET receptors : Ok({Match(r, TRUE) : r \in S})
      /\ \A S \in SUBSET receptors : Ok({Match(r, FALSE) : r \in S})
      /\ \A S \in SUBSET receptors : Ok({Match(r, Above(m, r)) : r \in S})
  BY <1>r, <1>t, <1>a
<1>c. /\ Compared(Vetoes) \in SUBSET receptors
      /\ Compared(Interests) \in SUBSET receptors
  BY DEF Compared, Vetoes, Interests
<1>v. Ok(VetoMatches(m))
  BY <1>m, <1>c DEF VetoMatches
<1>s. Ok(ScoredMatches(m))
  BY <1>m, <1>c, <1>v DEF ScoredMatches
<1>w. \A W \in FoundWildcard : Ok(WildcardMatch(W))
  <2>1. \A W \in FoundWildcard : W \in SUBSET receptors
    BY DEF FoundWildcard, Wildcards
  <2> QED
    BY <2>1, <1>m DEF WildcardMatch
<1>b. VetoNotEvaluated(m) \in BOOLEAN
  BY DEF VetoNotEvaluated
<1> HIDE DEF Ok
<1>1. CASE EvaluateVetoUnavailable(m)
  BY <1>1, <1>m, AnswerType DEF EvaluateVetoUnavailable, Dispositions, Ok
<1>2. CASE EvaluateDegraded(m)
  BY <1>2, <1>m, AnswerType DEF EvaluateDegraded, Dispositions, Ok
<1>3. CASE EvaluateNoReceptor(m)
  BY <1>3, <1>m, AnswerType DEF EvaluateNoReceptor, Dispositions, Ok
<1>4. CASE EvaluateVetoed(m)
  <2>1. PICK v \in Compared(Vetoes), before \in SUBSET Compared(Vetoes) :
          Answer(m, FALSE, {Match(v, TRUE)} \cup {Match(b, FALSE) : b \in before},
                 FALSE, "vetoed", FALSE)
    BY <1>4 DEF EvaluateVetoed
  <2>2. {Match(v, TRUE)} \cup {Match(b, FALSE) : b \in before} \in SUBSET Matches
    BY <1>r, <1>c, <1>t
  <2> QED
    BY <2>1, <2>2, AnswerType DEF Dispositions
<1>5. CASE EvaluateVetoOnly(m)
  <2> DEFINE M == IF HasVector(m) THEN VetoMatches(m) ELSE {}
  <2>1. Answer(m, FALSE, M, TRUE, "no_active_receptor", VetoNotEvaluated(m))
    BY <1>5 DEF EvaluateVetoOnly
  <2>2. M \in SUBSET Matches
    BY <1>m, <1>v DEF Ok
  <2> HIDE DEF M
  <2> QED
    BY <2>1, <2>2, <1>b, AnswerType DEF Dispositions
<1>6. CASE EvaluateVetoBlind(m)
  BY <1>6, <1>m, AnswerType DEF EvaluateVetoBlind, Dispositions, Ok
<1>7. CASE EvaluatePlain(m)
  <2>1. PICK W \in FoundWildcard :
          Answer(m, W # {}, WildcardMatch(W), FALSE,
                 IF W # {} THEN "deliver" ELSE "filtered", FALSE)
    BY <1>7 DEF EvaluatePlain
  <2> QED
    BY <2>1, <1>w, AnswerType DEF Dispositions, Ok
<1>8. CASE EvaluateScored(m)
  <2> DEFINE D(W) == W # {} \/ \E r \in Compared(Interests) : Above(m, r)
  <2>1. PICK W \in FoundWildcard :
          Answer(m, D(W), ScoredMatches(m) \cup WildcardMatch(W), FALSE,
                 IF D(W) THEN "deliver" ELSE "filtered", FALSE)
    BY <1>8 DEF EvaluateScored
  <2>2. D(W) \in BOOLEAN
    OBVIOUS
  <2>3. ScoredMatches(m) \cup WildcardMatch(W) \in SUBSET Matches
    BY <1>w, <1>s DEF Ok
  <2> HIDE DEF D
  <2> QED
    BY <2>1, <2>2, <2>3, AnswerType DEF Dispositions
<1> QED
  BY <1>1, <1>2, <1>3, <1>4, <1>5, <1>6, <1>7, <1>8 DEF Evaluate

\* What each step of start-up makes of the packs.
LEMMA BuildingStart ==
    ASSUME TypeOK, StartInv, Building
    PROVE  StartInv' /\ ReadyInv'
<1> USE DEF config, layer
<1>t. /\ plugin \in BOOLEAN /\ degraded \in BOOLEAN /\ vetoUnavailable \in BOOLEAN
      /\ packOf \in [Receptors -> Packs]
  BY DEF TypeOK
<1>1. UNCHANGED config
  BY DEF Building, ChooseBackend, LoadPacksFails, LoadPacks, ComputeWithoutPlugin, ComputeDone,
         ComputeWildcard, ComputeVector, ComputeFails
<1>2. /\ UNCHANGED <<LoadFailure, Loaded, PathsContainVeto>>
      /\ \A r : IsWildcard(r)' = IsWildcard(r) /\ IsVeto(r)' = IsVeto(r)
  BY <1>1 DEF LoadFailure, Loaded, PathsContainVeto, IsWildcard, IsVeto
<1>3. CASE ChooseBackend
  <2>1. /\ pc = "new" /\ UNCHANGED <<backend, receptors, vectors, vetoUnavailable>>
        /\ pc' = IF Packs = {} THEN "ready" ELSE "load"
        /\ plugin' <=> backend = "available"
        /\ degraded' <=> (backend = "absent" \/ (backend = "none" /\ Packs # {}))
    BY <1>3, Zenon DEF ChooseBackend
  <2>2. receptors = {} /\ vectors = {} /\ ~vetoUnavailable
    BY <2>1 DEF StartInv
  <2>3. backend \in {"none", "absent", "available"}
    BY DEF TypeOK
  <2>4. StartInv'
    BY <2>1, <2>2, <2>3 DEF StartInv
  <2>5. ReadyInv'
    <3> SUFFICES ASSUME Packs = {} PROVE ReadyInv'
      BY <2>1 DEF ReadyInv
    <3>1. Receptors = {}
      BY <1>t
    <3>2. Loaded = {} /\ ~LoadFailure
      BY <3>1 DEF Loaded, LoadFailure
    <3> QED
      BY <2>1, <2>2, <2>3, <3>2, <1>2 DEF ReadyInv, Sound, Usable, Embedded, Vetoes
  <2> QED
    BY <2>4, <2>5
<1>4. CASE LoadPacksFails
  <2>1. /\ pc = "load" /\ pc' = "ready" /\ LoadFailure /\ degraded'
        /\ UNCHANGED <<backend, plugin, receptors, vectors>>
    BY <1>4, Zenon DEF LoadPacksFails
  <2>2. receptors = {} /\ vectors = {}
    BY <2>1 DEF StartInv
  <2>3. StartInv'
    BY <2>1, <2>2 DEF StartInv
  <2>4. ReadyInv'
    BY <2>1, <2>2, <1>2 DEF ReadyInv, Sound, Usable, Vetoes
  <2> QED
    BY <2>3, <2>4
<1>5. CASE LoadPacks
  <2>1. /\ pc = "load" /\ pc' = "compute" /\ ~LoadFailure /\ todo' = Loaded
        /\ UNCHANGED <<backend, plugin, receptors, vectors, degraded, vetoUnavailable>>
    BY <1>5 DEF LoadPacks
  <2>2. receptors = {} /\ vectors = {} /\ ~vetoUnavailable
    BY <2>1 DEF StartInv
  <2> QED
    BY <2>1, <2>2, <1>2 DEF StartInv, ReadyInv, Embedded
<1>6. CASE ComputeWithoutPlugin
  <2>1. /\ pc = "compute" /\ pc' = "ready" /\ ~plugin /\ receptors' = todo
        /\ UNCHANGED <<backend, plugin, vectors, degraded>>
        /\ vetoUnavailable' <=> (vetoUnavailable \/ \E r \in todo : IsVeto(r))
    BY <1>6, Zenon DEF ComputeWithoutPlugin
  <2>2. todo = Loaded /\ degraded /\ backend # "available"
    BY <2>1 DEF StartInv
  <2>3. StartInv'
    BY <2>1, <2>2 DEF StartInv
  <2>4. Vetoes' # {} => vetoUnavailable'
    BY <2>1, <1>2 DEF Vetoes
  <2>5. ~Sound' /\ ~Usable'
    BY <2>1, <2>2 DEF Sound, Usable
  <2>6. ReadyInv'
    BY <2>1, <2>2, <2>4, <2>5, <1>2 DEF ReadyInv
  <2> QED
    BY <2>3, <2>6
<1>7. CASE ComputeDone
  <2>1. /\ pc = "compute" /\ pc' = "ready" /\ plugin /\ todo = {}
        /\ UNCHANGED <<backend, plugin, receptors, vectors, degraded, vetoUnavailable>>
    BY <1>7 DEF ComputeDone
  <2>2. /\ ~LoadFailure /\ ~vetoUnavailable /\ ~degraded
        /\ receptors = Loaded /\ vectors = Embedded(Loaded)
    BY <2>1 DEF StartInv
  <2> QED
    BY <2>1, <2>2, <1>2 DEF StartInv, ReadyInv, Sound, Embedded
<1>8. ASSUME NEW r \in Receptors, ComputeWildcard(r) PROVE StartInv' /\ ReadyInv'
  <2>1. /\ pc = "compute" /\ pc' = "compute" /\ plugin /\ r \in todo /\ IsWildcard(r)
        /\ receptors' = receptors \cup {r} /\ todo' = todo \ {r}
        /\ UNCHANGED <<backend, plugin, vectors, degraded, vetoUnavailable>>
    BY <1>8 DEF ComputeWildcard
  <2>2. receptors' = Loaded \ todo' /\ todo' \subseteq Loaded
    BY <2>1 DEF StartInv
  <2>3. vectors' = Embedded(receptors)'
    BY <2>1, <1>2 DEF StartInv, Embedded
  <2> QED
    BY <2>1, <2>2, <2>3, <1>2 DEF StartInv, ReadyInv
<1>9. ASSUME NEW r \in Receptors, ComputeVector(r) PROVE StartInv' /\ ReadyInv'
  <2>1. /\ pc = "compute" /\ pc' = "compute" /\ plugin /\ r \in todo /\ ~IsWildcard(r)
        /\ receptors' = receptors \cup {r} /\ todo' = todo \ {r}
        /\ vectors' = vectors \cup {r}
        /\ UNCHANGED <<backend, plugin, degraded, vetoUnavailable>>
    BY <1>9 DEF ComputeVector
  <2>2. receptors' = Loaded \ todo' /\ todo' \subseteq Loaded
    BY <2>1 DEF StartInv
  <2>3. vectors' = Embedded(receptors)'
    BY <2>1, <1>2 DEF StartInv, Embedded
  <2> QED
    BY <2>1, <2>2, <2>3, <1>2 DEF StartInv, ReadyInv
<1>10. ASSUME NEW r \in Receptors, ComputeFails(r) PROVE StartInv' /\ ReadyInv'
  <2>1. /\ pc = "compute" /\ pc' = "ready" /\ plugin /\ r \in todo /\ ~IsWildcard(r)
        /\ degraded'
        /\ UNCHANGED <<backend, plugin, receptors, vectors>>
        /\ vetoUnavailable' <=> (vetoUnavailable \/ \E d \in Loaded : IsVeto(d))
    BY <1>10, Zenon DEF ComputeFails
  <2>2. r \in Loaded /\ receptors \subseteq Loaded /\ r \notin vectors
    BY <2>1 DEF StartInv, Embedded
  <2>3. StartInv'
    BY <2>1 DEF StartInv
  <2>4. Vetoes' # {} => vetoUnavailable'
    BY <2>1, <2>2, <1>2 DEF Vetoes
  <2>5. ~Sound' /\ ~Usable'
    BY <2>1, <2>2, <1>2 DEF Sound, Usable, Embedded
  <2>6. ReadyInv'
    BY <2>1, <2>2, <2>4, <2>5, <1>2 DEF ReadyInv
  <2> QED
    BY <2>3, <2>6
<1> QED
  BY <1>3, <1>4, <1>5, <1>6, <1>7, <1>8, <1>9, <1>10 DEF Building

\* A layer that is ready and sound holds every loaded receptor, with its vector
\* unless it is a wildcard, and has its backend if it has a receptor.
LEMMA SoundLayer ==
    ASSUME TypeOK, StartInv, ReadyInv, pc = "ready", Sound
    PROVE  /\ ~LoadFailure
           /\ receptors = Loaded
           /\ Compared(Vetoes) = Vetoes
           /\ Compared(Interests) = {r \in Loaded : IsInterest(r)}
           /\ Wildcards = {r \in Loaded : IsWildcard(r)}
           /\ \A r \in Loaded : ~IsWildcard(r) => r \in vectors
           /\ receptors # {} => plugin /\ backend = "available"
<1>1. ~LoadFailure /\ receptors = Loaded /\ vectors = {r \in Loaded : ~IsWildcard(r)}
  BY DEF ReadyInv, Embedded
<1>2. \A r \in Receptors : class[r] \in {"interest", "wildcard", "veto"} /\ packOf[r] \in Packs
  BY DEF TypeOK
<1>3. Loaded \subseteq Receptors
  BY DEF Loaded
<1>4. Compared(Vetoes) = Vetoes
  BY <1>1 DEF Compared, Vetoes, IsVeto, IsWildcard
<1>5. Compared(Interests) = {r \in Loaded : IsInterest(r)}
  BY <1>1, <1>2, <1>3 DEF Compared, Interests, Vetoes, IsVeto, IsWildcard, IsInterest
<1>6. receptors # {} => plugin /\ backend = "available"
  <2>1. receptors # {} => Packs # {}
    BY <1>1, <1>2, <1>3
  <2> QED
    BY <2>1 DEF StartInv, Sound
<1> QED
  BY <1>1, <1>4, <1>5, <1>6 DEF Wildcards

\* Every way of returning decides as the policy does, and what it delivers
\* passes the gate of the delivery store.
LEMMA EvaluateDecides ==
    ASSUME TypeOK, StartInv, ReadyInv, NEW m \in Messages, Evaluate(m)
    PROVE  /\ result'.deliver = Decision(m)
           /\ result'.deliver => PassesGate(result')
<1>r. pc = "ready"
  BY EvaluateFrame
<1>n. ASSUME result'.deliver = FALSE, ~Decision(m)
      PROVE  result'.deliver = Decision(m) /\ (result'.deliver => PassesGate(result'))
  <2>1. Decision(m) \in BOOLEAN
    BY DEF Decision
  <2> QED
    BY <1>n, <2>1
<1>1. CASE EvaluateVetoUnavailable(m) \/ EvaluateDegraded(m)
  <2>1. result'.deliver = FALSE /\ ~Sound
    BY <1>1 DEF EvaluateVetoUnavailable, EvaluateDegraded, Answer, Sound
  <2>2. ~Usable
    BY <1>r, <2>1 DEF ReadyInv
  <2> QED
    BY <1>n, <2>1, <2>2 DEF Decision
<1>2. CASE EvaluateNoReceptor(m)
  <2>1. result'.deliver = FALSE /\ Sound /\ receptors = {}
    BY <1>2 DEF EvaluateNoReceptor, Answer
  <2>2. Loaded = {}
    BY <1>r, <2>1, SoundLayer
  <2>3. ~Decision(m)
    BY <2>2 DEF Decision
  <2> QED
    BY <1>n, <2>1, <2>3
<1>3. CASE EvaluateVetoed(m)
  <2>1. result'.deliver = FALSE /\ Sound /\ Vetoed(m)
    BY <1>3 DEF EvaluateVetoed, Answer
  <2>2. PICK v \in Compared(Vetoes) : Above(m, v)
    BY <2>1 DEF Vetoed
  <2>3. v \in Loaded /\ IsVeto(v)
    BY <1>r, <2>1, SoundLayer DEF Vetoes
  <2>4. ~Decision(m)
    BY <2>2, <2>3 DEF Decision
  <2> QED
    BY <1>n, <2>1, <2>4
<1>4. CASE EvaluateVetoOnly(m)
  <2>1. result'.deliver = FALSE /\ Sound /\ Interests = {}
    BY <1>4 DEF EvaluateVetoOnly, Answer
  <2>2. \A r \in Loaded : IsVeto(r)
    BY <1>r, <2>1, SoundLayer DEF Interests, Vetoes
  <2>3. ~Decision(m)
    BY <2>2 DEF Decision, IsVeto, IsWildcard, IsInterest
  <2> QED
    BY <1>n, <2>1, <2>3
<1>5. CASE EvaluateVetoBlind(m)
  <2>1. result'.deliver = FALSE /\ Sound /\ Interests # {} /\ VetoNotEvaluated(m)
    BY <1>5 DEF EvaluateVetoBlind, Answer
  <2>2. plugin /\ receptors = Loaded
    BY <1>r, <2>1, SoundLayer DEF Interests
  <2>3. PICK v \in Loaded : IsVeto(v)
    BY <2>1, <2>2 DEF VetoNotEvaluated, Vetoes
  <2>4. m.embedding \notin {"own", "odd"}
    BY <2>1, <2>2 DEF VetoNotEvaluated, HasVector
  <2>5. ~Decision(m)
    BY <2>3, <2>4 DEF Decision
  <2> QED
    BY <1>n, <2>1, <2>5
<1>w. ASSUME NEW W \in FoundWildcard, NEW D \in BOOLEAN, NEW M,
             Sound, Interests # {},
             WildcardMatch(W) \subseteq M,
             \A r \in Compared(Interests) : Above(m, r) => Match(r, TRUE) \in M,
             D <=> W # {} \/ \E r \in Compared(Interests) : Above(m, r),
             \A v \in Vetoes : m.embedding \in {"own", "odd"} /\ ~Above(m, v),
             Answer(m, D, M, FALSE, IF D THEN "deliver" ELSE "filtered", FALSE)
      PROVE  result'.deliver = Decision(m) /\ (result'.deliver => PassesGate(result'))
  <2>1. /\ result'.deliver = D /\ result'.matches = M
        /\ result'.fallback = FALSE /\ result'.vetoNotEvaluated = FALSE
        /\ result'.disposition = IF D THEN "deliver" ELSE "filtered"
    BY <1>w DEF Answer
  <2>2. /\ ~LoadFailure /\ receptors = Loaded /\ backend = "available"
        /\ Compared(Interests) = {r \in Loaded : IsInterest(r)}
        /\ Wildcards = {r \in Loaded : IsWildcard(r)}
        /\ Usable
    BY <1>r, <1>w, SoundLayer DEF Interests, Usable, Embedded
  <2>3. (W = {} <=> Wildcards = {}) /\ W \subseteq Wildcards
    BY <1>w DEF FoundWildcard
  <2>4. \A v \in Loaded : IsVeto(v) => m.embedding \in {"own", "odd"} /\ ~Above(m, v)
    BY <1>w, <2>2 DEF Vetoes
  <2>5. D <=> \E r \in Loaded : IsWildcard(r) \/ (IsInterest(r) /\ Above(m, r))
    BY <1>w, <2>2, <2>3
  <2>6. D <=> Decision(m)
    BY <2>2, <2>4, <2>5 DEF Decision
  <2>7. D = Decision(m)
    BY <2>6, Zenon DEF Decision
  <2>8. ASSUME D = TRUE PROVE \E x \in M : x.above /\ ~IsVeto(x.receptor)
    <3>1. \A r : Match(r, TRUE).above /\ Match(r, TRUE).receptor = r
      BY DEF Match
    <3>2. CASE W # {}
      <4>1. PICK w \in W : TRUE
        BY <3>2
      <4>2. Match(w, TRUE) \in M /\ IsWildcard(w)
        BY <4>1, <2>3, <1>w DEF WildcardMatch, Wildcards
      <4> QED
        BY <4>2, <3>1 DEF IsWildcard, IsVeto
    <3>3. CASE W = {}
      <4>1. PICK r \in Compared(Interests) : Above(m, r)
        BY <3>3, <2>8, <1>w
      <4>2. Match(r, TRUE) \in M /\ IsInterest(r)
        BY <4>1, <2>2, <1>w
      <4> QED
        BY <4>2, <3>1 DEF IsInterest, IsVeto
    <3> QED
      BY <3>2, <3>3
  <2> QED
    BY <2>1, <2>7, <2>8 DEF PassesGate
<1>6. CASE EvaluatePlain(m)
  <2>1. Sound /\ Interests # {} /\ ~HasVector(m) /\ ~VetoNotEvaluated(m)
    BY <1>6 DEF EvaluatePlain
  <2>2. PICK W \in FoundWildcard :
          Answer(m, W # {}, WildcardMatch(W), FALSE,
                 IF W # {} THEN "deliver" ELSE "filtered", FALSE)
    BY <1>6 DEF EvaluatePlain
  <2>3. plugin /\ Vetoes = {}
    BY <1>r, <2>1, SoundLayer DEF Interests, VetoNotEvaluated
  <2>4. \A r : ~Above(m, r)
    BY <2>1, <2>3 DEF HasVector, Above
  <2> QED
    BY <2>1, <2>2, <2>3, <2>4, <1>w
<1>7. CASE EvaluateScored(m)
  <2> DEFINE D(W) == W # {} \/ \E r \in Compared(Interests) : Above(m, r)
             M(W) == ScoredMatches(m) \cup WildcardMatch(W)
  <2>1. Sound /\ Interests # {} /\ HasVector(m) /\ ~Vetoed(m)
    BY <1>7 DEF EvaluateScored
  <2>2. PICK W \in FoundWildcard :
          Answer(m, D(W), M(W), FALSE, IF D(W) THEN "deliver" ELSE "filtered", FALSE)
    BY <1>7 DEF EvaluateScored
  <2>3. Compared(Vetoes) = Vetoes
    BY <1>r, <2>1, SoundLayer
  <2>4. \A v \in Vetoes : m.embedding \in {"own", "odd"} /\ ~Above(m, v)
    BY <2>1, <2>3 DEF Vetoed, HasVector
  <2>5. ASSUME NEW r \in Compared(Interests), Above(m, r) PROVE Match(r, TRUE) \in M(W)
    <3>1. Above(m, r) = TRUE
      BY <2>5 DEF Above
    <3> QED
      BY <2>5, <3>1 DEF ScoredMatches
  <2>6. WildcardMatch(W) \subseteq M(W) /\ D(W) \in BOOLEAN
    OBVIOUS
  <2>7. D(W) <=> W # {} \/ \E r \in Compared(Interests) : Above(m, r)
    OBVIOUS
  <2> HIDE DEF D, M
  <2> QED
    BY <2>1, <2>2, <2>4, <2>5, <2>6, <2>7, <1>w
<1> QED
  BY <1>1, <1>2, <1>3, <1>4, <1>5, <1>6, <1>7 DEF Evaluate

\* An evaluation leaves what start-up established as it was.
LEMMA EvaluateKeeps ==
    ASSUME StartInv, ReadyInv, NEW m \in Messages, Evaluate(m)
    PROVE  StartInv' /\ ReadyInv' /\ Decision(m)' = Decision(m)
<1>1. UNCHANGED <<config, pc, todo, layer>>
  BY EvaluateFrame
<1>2. StartInv'
  BY <1>1 DEF StartInv, Embedded, Loaded, LoadFailure, IsWildcard, config, layer
<1>3. ReadyInv'
  BY <1>1 DEF ReadyInv, Sound, Usable, Vetoes, Embedded, Loaded, LoadFailure, IsWildcard, IsVeto,
     config, layer
<1>4. Decision(m)' = Decision(m)
  BY <1>1 DEF Decision, Usable, Embedded, Loaded, LoadFailure, IsWildcard, IsVeto, IsInterest,
     Above, config, layer
<1> QED
  BY <1>2, <1>3, <1>4

\* The inductive step.
LEMMA Step == Inv /\ [Next]_vars => Inv'
<1> SUFFICES ASSUME Inv, [Next]_vars PROVE Inv'
  OBVIOUS
<1>i. TypeOK /\ StartInv /\ ReadyInv /\ ResultInv
  BY DEF Inv
<1>1. CASE Building
  <2>1. TypeOK' /\ StartInv' /\ ReadyInv'
    BY <1>1, <1>i, BuildingType, BuildingStart
  <2>2. pc # "ready" /\ result' = result
    BY <1>1 DEF Building, ChooseBackend, LoadPacksFails, LoadPacks, ComputeWithoutPlugin,
       ComputeDone, ComputeWildcard, ComputeVector, ComputeFails
  <2>3. ~result.deliver
    BY <1>i, <2>2 DEF ResultInv
  <2> QED
    BY <2>1, <2>2, <2>3 DEF Inv, ResultInv
<1>2. ASSUME NEW m \in Messages, Evaluate(m) PROVE Inv'
  <2>1. TypeOK'
    BY <1>2, <1>i, EvaluateType
  <2>2. StartInv' /\ ReadyInv' /\ Decision(m)' = Decision(m)
    BY <1>2, <1>i, EvaluateKeeps
  <2>3. result'.deliver = Decision(m) /\ (result'.deliver => PassesGate(result'))
    BY <1>2, <1>i, EvaluateDecides
  <2>4. pc' = "ready" /\ message' = m /\ class' = class
    BY <1>2, EvaluateFrame DEF config
  <2>5. PassesGate(result') => PassesGate(result)'
    BY <2>4 DEF PassesGate, IsVeto
  <2>6. Decision(m)' => Decision(message)'
    BY <2>4
  <2>7. ResultInv'
    BY <2>2, <2>3, <2>4, <2>5, <2>6 DEF ResultInv
  <2> QED
    BY <2>1, <2>2, <2>7 DEF Inv
<1>3. CASE UNCHANGED vars
  BY <1>3, <1>i DEF vars, config, layer, Inv, TypeOK, StartInv, ReadyInv, ResultInv, Sound, Usable,
     Embedded, Vetoes, Loaded, LoadFailure, IsWildcard, IsVeto, IsInterest, Decision, PassesGate,
     Above
<1> QED
  BY <1>1, <1>2, <1>3 DEF Next, Building

\* Start-up begins with an empty layer and no result.
LEMMA Start == Init => Inv
<1> SUFFICES ASSUME Init PROVE Inv
  OBVIOUS
<1>1. result \in Results /\ message \in Messages /\ ~result.deliver
  BY DEF Init, Results, Messages, NoResult, NoMessage
<1>2. TypeOK
  BY <1>1 DEF Init, TypeOK
<1> QED
  BY <1>1, <1>2 DEF Init, Inv, StartInv, ReadyInv, ResultInv

\* The invariant of AttentionLayer: start-up, readiness and results.
THEOREM Invariance == Spec => []Inv
BY Start, Step, PTL DEF Spec

\* Every variable of the layer keeps its type.
THEOREM TypeCorrect == Spec => []TypeOK
<1>1. Inv => TypeOK
  BY DEF Inv
<1> QED
  BY <1>1, Invariance, PTL

\* What evaluate_with_embeddings delivers always passes the gate of the store.
THEOREM DeliveryIsJustified == Spec => []DeliverPassesGate
<1>1. Inv => DeliverPassesGate
  BY DEF Inv, ResultInv, DeliverPassesGate
<1> QED
  BY <1>1, Invariance, PTL

\* A loaded pack set without failure has all configured vetoes among the loaded.
LEMMA VetoesAreLoaded ==
    ASSUME TypeOK, ~LoadFailure
    PROVE  \A v \in ConfiguredVetoes : v \in Loaded /\ IsVeto(v)
<1>1. \A v \in Receptors : packOf[v] \in Packs
  BY DEF TypeOK
<1>2. \A p \in Packs : packState[p] \in {"missing", "loaded", "invalid", "unreadable"}
  BY DEF TypeOK
<1> QED
  BY <1>1, <1>2 DEF ConfiguredVetoes, Loaded, LoadFailure

\* No message passes a veto that was not embedded, compared and below threshold.
THEOREM VetoesFailClosed == Spec => []VetoFailClosed
<1>1. ASSUME Inv, result.deliver
      PROVE  \A v \in ConfiguredVetoes :
               v \in vectors /\ message.embedding \in {"own", "odd"} /\ ~Above(message, v)
  <2>1. TypeOK /\ Decision(message)
    BY <1>1 DEF Inv, ResultInv
  <2>2. \A v \in ConfiguredVetoes : v \in Loaded /\ IsVeto(v)
    BY <2>1, VetoesAreLoaded DEF Decision, Usable
  <2> QED
    BY <2>1, <2>2 DEF Decision, Usable, Embedded, IsVeto, IsWildcard
<1>2. Inv => VetoFailClosed
  BY <1>1 DEF VetoFailClosed
<1> QED
  BY <1>2, Invariance, PTL

\* Health says receptor_gated when messages are delivered, and ready for vetoes
\* only when every configured one has its vector.
THEOREM HealthNeverFlatters == Spec => []HealthIsHonest
<1>1. ASSUME Inv, result.deliver PROVE DeliveryMode = "receptor_gated"
  <2>1. TypeOK /\ ReadyInv /\ pc = "ready" /\ Decision(message)
    BY <1>1 DEF Inv, ResultInv
  <2>2. Sound /\ receptors = Loaded
    BY <2>1 DEF ReadyInv, Decision
  <2>3. PICK r \in Loaded : IsWildcard(r) \/ IsInterest(r)
    BY <2>1 DEF Decision
  <2>4. r \in Interests
    BY <2>2, <2>3 DEF Interests, Vetoes, IsVeto, IsWildcard, IsInterest
  <2> QED
    BY <2>2, <2>4 DEF DeliveryMode, Sound, Interests
<1>2. ASSUME Inv, pc = "ready", VetoEnforcementState = "ready"
      PROVE  ConfiguredVetoes \subseteq vectors
  <2>1. TypeOK /\ ReadyInv
    BY <1>2 DEF Inv
  <2>2. ~vetoUnavailable /\ Vetoes # {}
    BY <1>2 DEF VetoEnforcementState
  <2>3. ~LoadFailure /\ vectors = Embedded(Loaded)
    BY <1>2, <2>1, <2>2 DEF ReadyInv, Sound
  <2>4. \A v \in ConfiguredVetoes : v \in Loaded /\ IsVeto(v)
    BY <2>1, <2>3, VetoesAreLoaded
  <2> QED
    BY <2>3, <2>4 DEF Embedded, IsVeto, IsWildcard
<1>3. Inv => HealthIsHonest
  BY <1>1, <1>2 DEF HealthIsHonest
<1> QED
  BY <1>3, Invariance, PTL

\* What the code decides is the documented policy in a usable layer.
LEMMA DecisionIsPolicy ==
    ASSUME TypeOK, NEW m
    PROVE  Decision(m) <=> Usable /\ Policy(m)
<1>1. ~LoadFailure => ConfiguredVetoes = {v \in Loaded : IsVeto(v)}
  <2>1. ConfiguredVetoes \subseteq Receptors /\ {v \in Loaded : IsVeto(v)} \subseteq ConfiguredVetoes
    BY DEF ConfiguredVetoes, Loaded
  <2> QED
    BY <2>1, VetoesAreLoaded
<1>2. Usable => \A v \in Loaded : IsVeto(v) => v \in vectors
  BY DEF Usable, Embedded, IsVeto, IsWildcard
<1>3. Usable => ~LoadFailure
  BY DEF Usable
<1> QED
  BY <1>1, <1>2, <1>3 DEF Decision, Policy

\* evaluate_with_embeddings delivers nothing against the documented policy, and what it
\* keeps back against it, it keeps back in a layer that reports itself as unavailable.
THEOREM DecidesByPolicy == Spec => DeliveryIsPolicy
<1> DEFINE Unavailable == {"evaluation_unavailable", "veto_enforcement_unavailable"}
           A == /\ result'.deliver => Policy(message')
                /\ Policy(message') /\ ~result'.deliver => ~Usable /\ DeliveryMode \in Unavailable
<1>1. Inv /\ [Next]_vars => [pc = "ready" => A]_vars
  <2> SUFFICES ASSUME Inv, Next, pc = "ready" PROVE A
    OBVIOUS
  <2>1. ~Building
    BY DEF Building, ChooseBackend, LoadPacksFails, LoadPacks, ComputeWithoutPlugin,
       ComputeDone, ComputeWildcard, ComputeVector, ComputeFails
  <2>2. PICK m \in Messages : Evaluate(m)
    BY <2>1 DEF Next, Building
  <2>3. result'.deliver = Decision(m) /\ message' = m
    BY <2>2, EvaluateDecides, EvaluateFrame DEF Inv
  <2>4. Decision(m) <=> Usable /\ Policy(m)
    BY DecisionIsPolicy DEF Inv
  <2>5. ASSUME Policy(m), ~Usable PROVE DeliveryMode \in Unavailable
    <3>1. Loaded # {}
      BY <2>5 DEF Policy
    <3>2. ~Sound
      BY <2>5, <3>1, SoundLayer DEF Inv, Usable, Embedded
    <3> QED
      BY <3>2 DEF Sound, DeliveryMode
  <2> QED
    BY <2>3, <2>4, <2>5
<1> QED
  BY <1>1, Invariance, PTL DEF Spec, DeliveryIsPolicy
=============================================================================
