---------------------- MODULE StatefulSetTemplateProofs ----------------------
(***************************************************************************)
(* Theorems about the StatefulSet the operator writes, for every set of    *)
(* specs, environments, labels and pods, and any number of edits.          *)
(***************************************************************************)
EXTENDS StatefulSetTemplate, GoUtilitiesProofs, FiniteSetTheorems

-----------------------------------------------------------------------------
(* The inductive invariant.  What the pass works with, and what it has     *)
(* written, is some spec the user gave; the generation it goes by tells    *)
(* whether it is the spec as it is now.                                    *)

\* A pass that goes by the generation of the WildFlyServer works with its spec.
PassIsOld ==
    pass # NoPass =>
        /\ pass.generation \in 1 .. generation
        /\ pass.spec \in Requests
        /\ pass.generation = generation => pass.spec = spec

\* The pods of the pass are there, in the order of their numbers.
PassPods ==
    pass # NoPass => InOrder(pass.podList) /\ ToSet(pass.podList) \subseteq PodNames

\* A quantity that keeps its text is the amount the text says.
IsQuantity(q) ==
    /\ q.amount \in Nat \ {0}
    /\ q.text = NoText \/ (q.text = <<q.text[1]>> /\ q.text[1] \in Written
                             /\ q.amount = q.text[1].n * Factor[q.text[1].unit])

IsClaim(c) ==
    /\ c = [name |-> c.name, resources |-> c.resources, class |-> c.class, mode |-> c.mode]
    /\ IsQuantity(c.resources)

IsStatefulSet(s) ==
    /\ s = [generation |-> s.generation, selector |-> s.selector,
            template |-> s.template, claims |-> s.claims]
    /\ s.claims = <<>> \/ (s.claims = <<s.claims[1]>> /\ IsClaim(s.claims[1]))

\* The StatefulSet was written for r.
WrittenFor(s, r) ==
    /\ s.template = Template(r)
    /\ SameVolume(s.claims, VolumeClaimTemplates(r))

\* The StatefulSet was written for a spec, and for the one as it is now when it
\* carries its generation.
SetIsOld ==
    sts # Absent =>
        /\ IsStatefulSet(sts)
        /\ sts.generation \in 1 .. generation
        /\ \E r \in Requests : /\ WrittenFor(sts, r)
                               /\ sts.generation = generation => r = spec

\* The StatefulSet selects its own pods.
SetIsAccepted == sts # Absent => sts.selector = SelectorLabels /\ Accepted(sts)

TemplateInv ==
    /\ environment \in Environments /\ spec \in Requests /\ generation \in Generations
    /\ PassIsOld /\ PassPods
    /\ SetIsOld /\ SetIsAccepted

-----------------------------------------------------------------------------
(* Quantities and claims.                                                  *)

LEMMA ParsedIs ==
    ASSUME NEW w \in Written
    PROVE  /\ IsQuantity(ParseQuantity(w))
           /\ ParseQuantity(w).amount = w.n * Factor[w.unit]
<1>1. w.n \in Nat \ {0} /\ w.unit \in {"Mi", "Gi"}
  BY DEF Written
<1>2. Factor[w.unit] \in {1, 1024}
  BY <1>1 DEF Factor
<1>3. w.n * Factor[w.unit] \in Nat \ {0}
  BY <1>1, <1>2
<1> QED
  BY <1>3 DEF ParseQuantity, IsQuantity, NoText

\* Writing a quantity and parsing it again keeps the amount.
LEMMA ReadBackIs ==
    ASSUME NEW q, IsQuantity(q)
    PROVE  /\ Marshal(q) \in Written
           /\ IsQuantity(ParseQuantity(Marshal(q)))
           /\ ParseQuantity(Marshal(q)).amount = q.amount
<1>1. Marshal(q) \in Written /\ Marshal(q).n * Factor[Marshal(q).unit] = q.amount
  <2>1. CASE q.text # NoText
    BY <2>1 DEF Marshal, IsQuantity
  <2>2. CASE q.text = NoText
    <3>1. Marshal(q) = CanonicalizeBytes(q.amount) /\ q.amount \in Nat \ {0}
      BY <2>2 DEF Marshal, IsQuantity
    <3>2. CASE q.amount % 1024 = 0
      <4>1. q.amount \div 1024 \in Nat \ {0} /\ (q.amount \div 1024) * 1024 = q.amount
        BY <3>1, <3>2
      <4>2. Marshal(q) = [n |-> q.amount \div 1024, unit |-> "Gi"]
        BY <3>1, <3>2 DEF CanonicalizeBytes
      <4> QED
        BY <4>1, <4>2 DEF Written, Factor
    <3>3. CASE q.amount % 1024 # 0
      <4>1. Marshal(q) = [n |-> q.amount, unit |-> "Mi"]
        BY <3>1, <3>3 DEF CanonicalizeBytes
      <4> QED
        BY <3>1, <4>1 DEF Written, Factor
    <3> QED
      BY <3>2, <3>3
  <2> QED
    BY <2>1, <2>2
<1> QED
  BY <1>1, ParsedIs

\* What the API server keeps of a claim asks for the same volume.
LEMMA StoredClaimIs ==
    ASSUME NEW c, IsClaim(c)
    PROVE  /\ IsClaim(StoredClaim(c))
           /\ StoredClaim(c).name = c.name
           /\ StoredClaim(c).resources = ParseQuantity(Marshal(c.resources))
           /\ StoredClaim(c).resources.amount = c.resources.amount
<1> DEFINE q == ParseQuantity(Marshal(c.resources))
<1>1. IsQuantity(q) /\ q.amount = c.resources.amount
  BY ReadBackIs DEF IsClaim
<1> HIDE DEF q
<1>2. StoredClaim(c) = [name |-> c.name, resources |-> q, class |-> c.class, mode |-> "Filesystem"]
  <2>1. c = [name |-> c.name, resources |-> c.resources, class |-> c.class, mode |-> c.mode]
    BY DEF IsClaim
  <2> DEFINE d == [c EXCEPT !.mode = "Filesystem"]
  <2>2. d = [name |-> c.name, resources |-> c.resources, class |-> c.class, mode |-> "Filesystem"]
    BY <2>1
  <2>3. [c EXCEPT !.mode = "Filesystem", !.resources = q] = [d EXCEPT !.resources = q]
    OBVIOUS
  <2> HIDE DEF d
  <2>4. d.name = c.name /\ d.class = c.class /\ d.mode = "Filesystem"
        /\ d = [name |-> d.name, resources |-> d.resources, class |-> d.class, mode |-> d.mode]
    BY <2>2
  <2>5. [d EXCEPT !.resources = q] =
        [name |-> c.name, resources |-> q, class |-> c.class, mode |-> "Filesystem"]
    BY <2>4
  <2> QED
    BY <2>3, <2>5 DEF StoredClaim, q
<1> QED
  BY <1>1, <1>2 DEF IsClaim, q

LEMMA WantedClaims ==
    ASSUME NEW r \in Requests
    PROVE  \/ VolumeClaimTemplates(r) = <<>>
           \/ /\ VolumeClaimTemplates(r) = <<VolumeClaimTemplates(r)[1]>>
              /\ IsClaim(VolumeClaimTemplates(r)[1])
              /\ VolumeClaimTemplates(r)[1].resources = ParseQuantity(r.storage.size)
              /\ r.storage.size \in Written
<1>1. CASE r.storage.kind # "claim"
  BY <1>1 DEF VolumeClaimTemplates
<1>2. CASE r.storage.kind = "claim"
  <2> DEFINE c == [name      |-> IF r.storage.name = <<>> THEN DataVolumeName ELSE r.storage.name,
                   resources |-> ParseQuantity(r.storage.size),
                   class     |-> r.storage.class,
                   mode      |-> "none"]
  <2>1. VolumeClaimTemplates(r) = <<c>>
    BY <1>2 DEF VolumeClaimTemplates
  <2>2. IsQuantity(ParseQuantity(r.storage.size)) /\ r.storage.size \in Written
    BY <1>2, ParsedIs, RequestsAssumption
  <2>3. IsClaim(c)
    BY <2>2 DEF IsClaim
  <2>4. c.resources = ParseQuantity(r.storage.size)
    OBVIOUS
  <2> HIDE DEF c
  <2> QED
    BY <2>1, <2>2, <2>3, <2>4
<1> QED
  BY <1>1, <1>2

\* What the API server keeps of a StatefulSet.
LEMMA StoredIs ==
    ASSUME NEW set, IsStatefulSet(set)
    PROVE  /\ IsStatefulSet(Stored(set))
           /\ Stored(set).generation = set.generation
           /\ Stored(set).selector = set.selector
           /\ Stored(set).template = set.template
           /\ set.claims = <<>> => Stored(set).claims = <<>>
           /\ set.claims # <<>> => Stored(set).claims = <<StoredClaim(set.claims[1])>>
<1> DEFINE k == [i \in DOMAIN set.claims |-> StoredClaim(set.claims[i])]
<1>1. Stored(set) = [generation |-> set.generation, selector |-> set.selector,
                     template |-> set.template, claims |-> k]
  BY DEF Stored, IsStatefulSet
<1>2. CASE set.claims = <<>>
  <2>1. k = <<>>
    BY <1>2
  <2> HIDE DEF k
  <2> QED
    BY <1>1, <1>2, <2>1 DEF IsStatefulSet
<1>3. CASE set.claims # <<>>
  <2>1. set.claims = <<set.claims[1]>> /\ IsClaim(set.claims[1])
    BY <1>3 DEF IsStatefulSet
  <2>2. DOMAIN set.claims = 1 .. 1
    BY <2>1
  <2>3. k = <<StoredClaim(set.claims[1])>>
    BY <2>2
  <2>4. IsClaim(StoredClaim(set.claims[1]))
    BY <2>1, StoredClaimIs
  <2> HIDE DEF k
  <2> QED
    BY <1>1, <1>3, <2>3, <2>4 DEF IsStatefulSet
<1> QED
  BY <1>2, <1>3

\* What is kept asks for the volumes that were asked for.
LEMMA StoredSameVolume ==
    ASSUME NEW set, IsStatefulSet(set), NEW d, SameVolume(set.claims, d)
    PROVE  SameVolume(Stored(set).claims, d)
<1>1. CASE set.claims = <<>>
  BY <1>1, StoredIs
<1>2. CASE set.claims # <<>>
  <2>1. set.claims = <<set.claims[1]>> /\ IsClaim(set.claims[1])
    BY <1>2 DEF IsStatefulSet
  <2>2. Stored(set).claims = <<StoredClaim(set.claims[1])>>
    BY <1>2, StoredIs
  <2>3. /\ StoredClaim(set.claims[1]).name = set.claims[1].name
        /\ StoredClaim(set.claims[1]).resources.amount = set.claims[1].resources.amount
    BY <2>1, StoredClaimIs
  <2>4. Len(Stored(set).claims) = 1 /\ Len(set.claims) = 1
        /\ Stored(set).claims[1] = StoredClaim(set.claims[1])
    BY <2>1, <2>2
  <2> QED
    BY <1>2, <2>3, <2>4 DEF SameVolume
<1> QED
  BY <1>1, <1>2

\* Claims that do not differ ask for the same volume.
LEMMA NotDifferIsSame ==
    ASSUME NEW found, NEW wanted, ~ClaimsDiffer(found, wanted),
           found = <<>> \/ found = <<found[1]>>, wanted = <<>> \/ wanted = <<wanted[1]>>
    PROVE  SameVolume(found, wanted)
BY DEF ClaimsDiffer, SameVolume

-----------------------------------------------------------------------------
(* The invariant holds.                                                    *)

\* What is derived from a spec stays as long as the environment does.
LEMMA TemplateStays ==
    ASSUME environment' = environment
    PROVE  \A r : Template(r)' = Template(r)
<1>1. TemplateLabels' = TemplateLabels
  BY DEF TemplateLabels
<1>2. ASSUME NEW r, NEW k PROVE CreateProbe(r, k)' = CreateProbe(r, k)
  BY DEF CreateProbe, ProbeAction
<1> QED
  BY <1>1, <1>2 DEF Template

LEMMA InitInv == Init => TemplateInv
<1> SUFFICES ASSUME Init PROVE TemplateInv
  OBVIOUS
<1>1. 1 \in Generations
  BY MaxEditsAssumption DEF Generations
<1> QED
  BY <1>1 DEF Init, TemplateInv, PassIsOld, PassPods, SetIsOld, SetIsAccepted

\* The pods of a new pass.
LEMMA FetchedPods ==
    ASSUME NEW podList \in IF sts = Absent THEN {<<>>} ELSE SetToSeqs(PodNames)
    PROVE  /\ InOrder(SortPodListByName(podList))
           /\ ToSet(SortPodListByName(podList)) \subseteq PodNames
<1>1. podList \in Seq(PodNames)
  <2>1. CASE sts = Absent
    BY <2>1
  <2>2. CASE sts # Absent
    <3>1. Cardinality(PodNames) \in Nat
      BY PodNamesAssumption, FS_CardinalityType
    <3>2. podList \in [1 .. Cardinality(PodNames) -> PodNames]
      BY <2>2 DEF SetToSeqs
    <3> QED
      BY <3>1, <3>2
  <2> QED
    BY <2>1, <2>2
<1>2. Numbered(PodNames)
  <2> SUFFICES ASSUME NEW p \in PodNames PROVE HasNumber(p) /\ Number(p) \in Nat
    BY DEF Numbered
  <2>1. p \in Seq(STRING) /\ HasNumber(p)
    BY PodNamesAssumption DEF Text
  <2> QED
    BY <2>1, NumberIsNat
<1>3. ToSet(podList) \subseteq PodNames
  BY <1>1 DEF ToSet
<1>4. /\ InOrder(SortPodListByName(podList))
      /\ ToSet(SortPodListByName(podList)) = ToSet(podList)
  BY <1>1, <1>2, SortPutsInOrder
<1> QED
  BY <1>3, <1>4

LEMMA FetchInv == ASSUME TemplateInv, Fetch PROVE TemplateInv'
<1>1. UNCHANGED <<environment, spec, generation, sts>>
  BY DEF Fetch
<1>2. PICK podList \in IF sts = Absent THEN {<<>>} ELSE SetToSeqs(PodNames) :
          pass' = [generation |-> generation, spec |-> spec,
                   podList |-> SortPodListByName(podList)]
  BY DEF Fetch
<1>3. /\ pass'.generation = generation /\ pass'.spec = spec
      /\ pass'.podList = SortPodListByName(podList)
  BY <1>2
<1>4. PassPods'
  BY <1>3, FetchedPods DEF PassPods
<1>5. PassIsOld'
  BY <1>1, <1>3, MaxEditsAssumption DEF PassIsOld, TemplateInv, Generations
<1>6. SetIsOld' /\ SetIsAccepted'
  <2>1. \A r : Template(r)' = Template(r)
    BY <1>1, TemplateStays
  <2>2. \A r : WrittenFor(sts, r)' <=> WrittenFor(sts, r)
    BY <1>1, <2>1 DEF WrittenFor
  <2>3. SetIsOld'
    BY <1>1, <2>2 DEF SetIsOld, TemplateInv
  <2> QED
    BY <1>1, <2>3 DEF SetIsAccepted, TemplateInv
<1> QED
  BY <1>1, <1>4, <1>5, <1>6 DEF TemplateInv

\* A set that is written for the pass keeps the invariant.
LEMMA WriteInv ==
    ASSUME TemplateInv, NEW set, Write(set),
           IsStatefulSet(set), set.generation = pass.generation, set.selector = SelectorLabels,
           set.template = Template(pass.spec),
           SameVolume(set.claims, VolumeClaimTemplates(pass.spec))
    PROVE  TemplateInv'
<1>1. UNCHANGED <<environment, spec, generation>> /\ pass' = NoPass /\ pass # NoPass
  BY DEF Write
<1>2. PassIsOld' /\ PassPods'
  BY <1>1 DEF PassIsOld, PassPods
<1>3. \A r : Template(r)' = Template(r)
  BY <1>1, TemplateStays
<1>4. CASE ~Accepted(set)
  <2>1. sts' = sts
    BY <1>4 DEF Write
  <2>2. \A r : WrittenFor(sts, r)' <=> WrittenFor(sts, r)
    BY <1>3, <2>1 DEF WrittenFor
  <2>3. SetIsOld'
    BY <1>1, <2>1, <2>2 DEF SetIsOld, TemplateInv
  <2>4. SetIsAccepted'
    BY <2>1 DEF SetIsAccepted, TemplateInv
  <2> QED
    BY <1>1, <1>2, <2>3, <2>4 DEF TemplateInv
<1>5. CASE Accepted(set)
  <2>1. sts' = Stored(set)
    BY <1>5 DEF Write
  <2>2. /\ IsStatefulSet(sts') /\ sts'.generation = pass.generation
        /\ sts'.selector = SelectorLabels /\ sts'.template = Template(pass.spec)
    BY <2>1, StoredIs
  <2>3. SameVolume(sts'.claims, VolumeClaimTemplates(pass.spec))
    BY <2>1, StoredSameVolume
  <2>4. /\ pass.generation \in 1 .. generation /\ pass.spec \in Requests
        /\ pass.generation = generation => pass.spec = spec
    BY <1>1 DEF TemplateInv, PassIsOld
  <2>5. PICK r \in Requests : r = pass.spec
    BY <2>4
  <2>6. WrittenFor(sts, r)'
    BY <1>3, <2>2, <2>3, <2>5 DEF WrittenFor
  <2>7. SetIsOld'
    BY <1>1, <2>2, <2>4, <2>5, <2>6 DEF SetIsOld
  <2>8. Accepted(sts')
    BY <1>5, <2>1, StoredIs DEF Accepted
  <2>9. SetIsAccepted'
    BY <2>2, <2>8 DEF SetIsAccepted
  <2> QED
    BY <1>1, <1>2, <2>7, <2>9 DEF TemplateInv
<1> QED
  BY <1>4, <1>5

LEMMA CreateInv == ASSUME TemplateInv, CreateStatefulSet PROVE TemplateInv'
<1> DEFINE set == NewStatefulSet(pass.spec)
           d == VolumeClaimTemplates(pass.spec)
<1>1. Write(set) /\ pass # NoPass /\ pass.spec \in Requests
  BY DEF CreateStatefulSet, Write, TemplateInv, PassIsOld
<1>2. d = <<>> \/ (d = <<d[1]>> /\ IsClaim(d[1]))
  BY <1>1, WantedClaims
<1>3. set = [generation |-> pass.generation, selector |-> SelectorLabels,
             template |-> Template(pass.spec), claims |-> d]
  BY DEF NewStatefulSet, Marker
<1> HIDE DEF set, d
<1>4. /\ set.generation = pass.generation /\ set.selector = SelectorLabels
      /\ set.template = Template(pass.spec) /\ set.claims = d
      /\ set = [generation |-> set.generation, selector |-> set.selector,
                template |-> set.template, claims |-> set.claims]
  BY <1>3
<1>5. IsStatefulSet(set)
  BY <1>2, <1>4 DEF IsStatefulSet
<1>6. SameVolume(set.claims, VolumeClaimTemplates(pass.spec))
  BY <1>4 DEF SameVolume, d
<1> QED
  BY <1>1, <1>4, <1>5, <1>6, WriteInv

\* What an update writes: the claims and the selector stay.
LEMMA UpdatedSet ==
    ASSUME IsStatefulSet(sts),
           Write([sts EXCEPT !.template = Template(pass.spec), !.generation = Marker])
    PROVE  \E set : /\ IsStatefulSet(set) /\ Write(set)
                    /\ set.generation = pass.generation /\ set.selector = sts.selector
                    /\ set.template = Template(pass.spec) /\ set.claims = sts.claims
<1> DEFINE T == Template(pass.spec)
           G == pass.generation
           u == [sts EXCEPT !.template = T]
           set == [sts EXCEPT !.template = T, !.generation = G]
<1>1. set = [u EXCEPT !.generation = G] /\ Write(set)
  BY DEF Marker
<1>2. sts = [generation |-> sts.generation, selector |-> sts.selector,
             template |-> sts.template, claims |-> sts.claims]
  BY DEF IsStatefulSet
<1> HIDE DEF T, G, set
<1>3. u = [generation |-> sts.generation, selector |-> sts.selector,
           template |-> T, claims |-> sts.claims]
  BY <1>2
<1> HIDE DEF u
<1>4. /\ u.selector = sts.selector /\ u.template = T /\ u.claims = sts.claims
      /\ u = [generation |-> u.generation, selector |-> u.selector,
              template |-> u.template, claims |-> u.claims]
  BY <1>3
<1>5. set = [generation |-> G, selector |-> u.selector, template |-> u.template,
             claims |-> u.claims]
  BY <1>1, <1>4
<1>6. /\ set.generation = G /\ set.selector = sts.selector
      /\ set.template = T /\ set.claims = sts.claims
      /\ set = [generation |-> set.generation, selector |-> set.selector,
                template |-> set.template, claims |-> set.claims]
  BY <1>4, <1>5
<1>7. IsStatefulSet(set)
  BY <1>6 DEF IsStatefulSet
<1> QED
  BY <1>1, <1>6, <1>7 DEF T, G

LEMMA UpdateInv == ASSUME TemplateInv, UpdateStatefulSet PROVE TemplateInv'
<1>1. /\ Write([sts EXCEPT !.template = Template(pass.spec), !.generation = Marker])
      /\ pass # NoPass /\ sts # Absent /\ pass.spec \in Requests
      /\ ~ClaimsDiffer(sts.claims, VolumeClaimTemplates(pass.spec))
  BY DEF UpdateStatefulSet, Outdated, TemplateInv, PassIsOld
<1>2. IsStatefulSet(sts) /\ sts.selector = SelectorLabels
  BY <1>1 DEF TemplateInv, SetIsOld, SetIsAccepted
<1>3. PICK set : /\ IsStatefulSet(set) /\ Write(set)
                 /\ set.generation = pass.generation /\ set.selector = sts.selector
                 /\ set.template = Template(pass.spec) /\ set.claims = sts.claims
  BY <1>1, <1>2, UpdatedSet
<1>4. SameVolume(set.claims, VolumeClaimTemplates(pass.spec))
  <2>1. sts.claims = <<>> \/ sts.claims = <<sts.claims[1]>>
    BY <1>2 DEF IsStatefulSet
  <2>2. \/ VolumeClaimTemplates(pass.spec) = <<>>
        \/ VolumeClaimTemplates(pass.spec) = <<VolumeClaimTemplates(pass.spec)[1]>>
    BY <1>1, WantedClaims
  <2> QED
    BY <1>1, <1>3, <2>1, <2>2, NotDifferIsSame
<1> QED
  BY <1>2, <1>3, <1>4, WriteInv

LEMMA DeleteInv == ASSUME TemplateInv, DeleteStatefulSet PROVE TemplateInv'
BY DEF DeleteStatefulSet, TemplateInv, PassIsOld, PassPods, SetIsOld, SetIsAccepted

\* The pass ends, or nothing happens.
LEMMA StayInv ==
    ASSUME TemplateInv, UNCHANGED <<environment, spec, generation, sts>>,
           pass' = NoPass \/ pass' = pass
    PROVE  TemplateInv'
<1>1. \A r : Template(r)' = Template(r)
  BY TemplateStays
<1>2. \A r : WrittenFor(sts, r)' <=> WrittenFor(sts, r)
  BY <1>1 DEF WrittenFor
<1>3. SetIsOld' /\ SetIsAccepted'
  BY <1>2 DEF SetIsOld, SetIsAccepted, TemplateInv
<1>4. PassIsOld' /\ PassPods'
  BY DEF PassIsOld, PassPods, TemplateInv
<1> QED
  BY <1>3, <1>4 DEF TemplateInv

LEMMA EditInv == ASSUME TemplateInv, EditSpec PROVE TemplateInv'
<1>1. /\ UNCHANGED <<environment, pass, sts>> /\ generation' = generation + 1
      /\ spec' \in Requests /\ generation <= MaxEdits /\ generation \in Nat
  BY MaxEditsAssumption DEF EditSpec, TemplateInv, Generations
<1>2. generation' \in Generations
  BY <1>1, MaxEditsAssumption DEF Generations
<1>3. \A r : WrittenFor(sts, r)' <=> WrittenFor(sts, r)
  BY <1>1, TemplateStays DEF WrittenFor
<1>4. SetIsOld'
  BY <1>1, <1>3 DEF SetIsOld, TemplateInv
<1>5. SetIsAccepted'
  BY <1>1 DEF SetIsAccepted, TemplateInv
<1>6. PassIsOld' /\ PassPods'
  BY <1>1 DEF PassIsOld, PassPods, TemplateInv
<1> QED
  BY <1>1, <1>2, <1>4, <1>5, <1>6 DEF TemplateInv

LEMMA NextInv == TemplateInv /\ [Next]_vars => TemplateInv'
<1> SUFFICES ASSUME TemplateInv, [Next]_vars PROVE TemplateInv'
  OBVIOUS
<1>1. CASE StatefulSetIsCurrent
  BY <1>1, StayInv DEF StatefulSetIsCurrent
<1>2. CASE UNCHANGED vars
  BY <1>2, StayInv DEF vars
<1> QED
  BY <1>1, <1>2, FetchInv, CreateInv, DeleteInv, UpdateInv, EditInv DEF Next

\* The StatefulSet is one the operator wrote for a spec the user gave, and for the
\* spec as it is now when it carries its generation, whatever edits come between the
\* read, the deletion and the write (checkStatefulSet and NewStatefulSet).
THEOREM TemplateInvariant == Spec => []TemplateInv
BY InitInv, NextInv, PTL DEF Spec

-----------------------------------------------------------------------------
(* What follows from the invariant.                                        *)

\* Every variable stays in its set; a StatefulSet has at most one claim.
THEOREM TypeCorrect == Spec => []TypeOK
<1>1. TemplateInv => TypeOK
  <2> SUFFICES ASSUME TemplateInv PROVE TypeOK
    OBVIOUS
  <2>1. generation \in Nat /\ generation <= MaxEdits + 1
    BY MaxEditsAssumption DEF TemplateInv, Generations
  <2>2. 1 .. generation \subseteq Generations
    BY <2>1, MaxEditsAssumption DEF Generations
  <2>3. sts # Absent => sts.generation \in Generations /\ Len(sts.claims) \in 0 .. 1
    <3> SUFFICES ASSUME sts # Absent
                 PROVE  sts.generation \in Generations /\ Len(sts.claims) \in 0 .. 1
      OBVIOUS
    <3>1. sts.generation \in Generations
      BY <2>2 DEF TemplateInv, SetIsOld
    <3>2. sts.claims = <<>> \/ sts.claims = <<sts.claims[1]>>
      BY DEF TemplateInv, SetIsOld, IsStatefulSet
    <3>3. Len(sts.claims) = 0 \/ Len(sts.claims) = 1
      <4>1. Len(<<>>) = 0 /\ \A c : Len(<<c>>) = 1
        OBVIOUS
      <4> QED
        BY <3>2, <4>1
    <3> QED
      BY <3>1, <3>3
  <2> QED
    BY <2>2, <2>3 DEF TypeOK, TemplateInv, PassIsOld, PassPods
<1> QED
  BY <1>1, TemplateInvariant, PTL

\* A StatefulSet that carries the generation of the WildFlyServer has the pod template
\* and asks for the volume of the spec as it is now (checkStatefulSet, which looks no
\* further once the generations agree).
THEOREM DeployedWhenCurrent == Spec => []CurrentMeansDeployed
<1>1. TemplateInv => CurrentMeansDeployed
  BY DEF TemplateInv, SetIsOld, WrittenFor, CurrentMeansDeployed, Current
<1> QED
  BY <1>1, TemplateInvariant, PTL

\* A probe of a current StatefulSet does what the user asks, and a Bootable JAR runs
\* no script of the operator (createCommonProbe).
THEOREM ProbesDoAsAsked == Spec => []ProbesAsAsked
<1>1. TemplateInv => ProbesAsAsked
  <2> SUFFICES ASSUME TemplateInv, Current, NEW k \in ProbeKinds
               PROVE  LET probe == sts.template.probes[k] asked == spec.probes[k] IN
                      /\ \A t \in Timings \cap DOMAIN asked.timing :
                            t = "delay" \/ asked.timing[t] # 0
                               => probe.timing[t] = asked.timing[t]
                      /\ asked.handlers # {} => probe.action[2] = "user"
                      /\ "exec" \in asked.handlers => probe.action[1] = "exec"
                      /\ spec.bootableJar => probe.action[2] # "script"
    BY DEF ProbesAsAsked
  <2>1. sts.template = Template(spec) /\ spec \in Requests
    BY DEF TemplateInv, SetIsOld, WrittenFor, Current
  <2>2. /\ sts.template.probes[k].action = ProbeAction(spec, k)
        /\ sts.template.probes[k].timing =
              [t \in Timings |-> IF IsGiven(spec.probes[k].timing, t)
                                 THEN spec.probes[k].timing[t]
                                 ELSE DefaultTiming[k][t]]
    BY <2>1 DEF Template, CreateProbe
  <2>3. spec.probes[k].handlers \subseteq {"exec", "httpGet"} /\ spec.bootableJar \in BOOLEAN
    BY <2>1, RequestsAssumption
  <2>4. \A t \in Timings \cap DOMAIN spec.probes[k].timing :
            t = "delay" \/ spec.probes[k].timing[t] # 0
               => sts.template.probes[k].timing[t] = spec.probes[k].timing[t]
    BY <2>2 DEF IsGiven
  <2> DEFINE h == spec.probes[k].handlers
             a == ProbeAction(spec, k)
  <2>5. CASE "exec" \in h
    <3>1. a = <<"exec", "user">>
      BY <2>5 DEF ProbeAction
    <3> QED
      BY <2>2, <2>4, <3>1
  <2>6. CASE h = {"httpGet"}
    <3>1. a = <<"httpGet", "user">>
      BY <2>6 DEF ProbeAction
    <3> QED
      BY <2>2, <2>4, <2>6, <3>1
  <2>7. CASE h = {}
    <3>1. spec.bootableJar => a = <<"httpGet", EndPoint[k]>>
      BY <2>7 DEF ProbeAction
    <3>2. EndPoint[k] # "script"
      BY DEF EndPoint, ProbeKinds
    <3> QED
      BY <2>2, <2>4, <2>7, <3>1, <3>2
  <2> QED
    BY <2>3, <2>5, <2>6, <2>7
<1> QED
  BY <1>1, TemplateInvariant, PTL

\* The pods a pass works with are in the order of their numbers, however the API
\* server lists them (SortPodListByName).
THEOREM PodsStayInOrder == Spec => []PodsInOrder
<1>1. TemplateInv => PodsInOrder
  BY DEF TemplateInv, PassPods, PodsInOrder
<1> QED
  BY <1>1, TemplateInvariant, PTL

-----------------------------------------------------------------------------
(* Volumes and mounts.                                                     *)

\* A function on 1 .. n is a sequence of its values.
LEMMA SeqOfValues ==
    ASSUME NEW n \in Nat, NEW g, g = [i \in 1 .. n |-> g[i]]
    PROVE  g \in Seq(ToSet(g)) /\ Len(g) = n /\ DOMAIN g = 1 .. n
<1>1. DOMAIN g = 1 .. n
  OBVIOUS
<1>2. \A i \in 1 .. n : g[i] \in ToSet(g)
  BY <1>1 DEF ToSet
<1> DEFINE T == ToSet(g)
<1>3. g \in [1 .. n -> T]
  <2> HIDE DEF T
  <2>1. \A i \in 1 .. n : g[i] \in T
    BY <1>2 DEF T
  <2> QED
    BY <2>1
<1> HIDE DEF T
<1>4. g \in Seq(T) /\ Len(g) = n
  BY <1>3
<1> QED
  BY <1>1, <1>4 DEF T

\* What is in a concatenation.
LEMMA ConcatIs ==
    ASSUME NEW V, NEW s \in Seq(V), NEW t \in Seq(V)
    PROVE  /\ s \o t \in Seq(V) /\ Len(s \o t) = Len(s) + Len(t)
           /\ \A i \in 1 .. Len(s) : (s \o t)[i] = s[i]
           /\ \A i \in 1 .. Len(t) : (s \o t)[Len(s) + i] = t[i]
           /\ ToSet(s \o t) = ToSet(s) \cup ToSet(t)
<1> DEFINE c == s \o t
<1>1. c \in Seq(V) /\ Len(c) = Len(s) + Len(t) /\ Len(s) \in Nat /\ Len(t) \in Nat
  OBVIOUS
<1>2. \A i \in 1 .. Len(s) : c[i] = s[i]
  OBVIOUS
<1>3. \A i \in 1 .. Len(t) : c[Len(s) + i] = t[i]
  OBVIOUS
<1> HIDE DEF c
<1>4. ASSUME NEW x \in ToSet(c) PROVE x \in ToSet(s) \cup ToSet(t)
  <2>1. PICK i \in 1 .. Len(c) : x = c[i]
    BY <1>1 DEF ToSet
  <2>2. CASE i <= Len(s)
    <3>1. i \in 1 .. Len(s)
      BY <1>1, <2>2
    <3> QED
      BY <1>2, <2>1, <3>1 DEF ToSet
  <2>3. CASE ~(i <= Len(s))
    <3>1. i - Len(s) \in 1 .. Len(t) /\ Len(s) + (i - Len(s)) = i
      BY <1>1, <2>3
    <3>2. x = t[i - Len(s)]
      BY <1>3, <2>1, <3>1
    <3> QED
      BY <3>1, <3>2 DEF ToSet
  <2> QED
    BY <2>2, <2>3
<1>5. ASSUME NEW x \in ToSet(s) PROVE x \in ToSet(c)
  <2>1. PICK i \in 1 .. Len(s) : x = s[i]
    BY <1>1 DEF ToSet
  <2>2. i \in 1 .. Len(c) /\ c[i] = x
    BY <1>1, <1>2, <2>1
  <2> QED
    BY <1>1, <2>2 DEF ToSet
<1>6. ASSUME NEW x \in ToSet(t) PROVE x \in ToSet(c)
  <2>1. PICK i \in 1 .. Len(t) : x = t[i]
    BY <1>1 DEF ToSet
  <2>2. Len(s) + i \in 1 .. Len(c) /\ c[Len(s) + i] = x
    BY <1>1, <1>3, <2>1
  <2> QED
    BY <1>1, <2>2 DEF ToSet
<1>7. ToSet(c) = ToSet(s) \cup ToSet(t)
  BY <1>4, <1>5, <1>6
<1> QED
  BY <1>1, <1>2, <1>3, <1>7 DEF c

\* Two injective functions without a common value are injective one after the other.
LEMMA InjectiveConcat ==
    ASSUME NEW n \in Nat, NEW m \in Nat, NEW f, NEW g, NEW h,
           DOMAIN f = 1 .. n, DOMAIN g = 1 .. m, DOMAIN h = 1 .. n + m,
           IsInjective(f), IsInjective(g), \A i \in 1 .. n, j \in 1 .. m : f[i] # g[j],
           \A i \in 1 .. n : h[i] = f[i], \A i \in 1 .. m : h[n + i] = g[i]
    PROVE  IsInjective(h)
<1> SUFFICES ASSUME NEW i \in 1 .. n + m, NEW j \in 1 .. n + m, h[i] = h[j] PROVE i = j
  BY DEF IsInjective
<1>1. \A k \in 1 .. n + m : k \in 1 .. n \/ (k - n \in 1 .. m /\ n + (k - n) = k)
  OBVIOUS
<1>2. CASE i \in 1 .. n /\ j \in 1 .. n
  BY <1>2 DEF IsInjective
<1>3. CASE i \in 1 .. n /\ j \notin 1 .. n
  BY <1>1, <1>3
<1>4. CASE i \notin 1 .. n /\ j \in 1 .. n
  BY <1>1, <1>4
<1>5. CASE i \notin 1 .. n /\ j \notin 1 .. n
  <2>1. i - n \in 1 .. m /\ n + (i - n) = i /\ j - n \in 1 .. m /\ n + (j - n) = j
    BY <1>1, <1>5
  <2>2. h[i] = g[i - n] /\ h[j] = g[j - n]
    BY <2>1
  <2>3. i - n = j - n
    BY <2>1, <2>2 DEF IsInjective
  <2> QED
    BY <2>3
<1> QED
  BY <1>2, <1>3, <1>4, <1>5

\* Two sequences without a common name, each without a name twice, have no name twice
\* together; and so for paths.
LEMMA ConcatNames ==
    ASSUME NEW V, NEW s \in Seq(V), NEW t \in Seq(V),
           IsInjective(Names(s)), IsInjective(Names(t)),
           \A x \in ToSet(s), y \in ToSet(t) : x.name # y.name
    PROVE  IsInjective(Names(s \o t))
<1> DEFINE c == s \o t
           n == Len(s)
           m == Len(t)
<1>1. DOMAIN c = 1 .. n + m /\ DOMAIN s = 1 .. n /\ DOMAIN t = 1 .. m /\ n \in Nat /\ m \in Nat
  OBVIOUS
<1>2. (\A i \in 1 .. n : c[i] = s[i]) /\ (\A i \in 1 .. m : c[n + i] = t[i])
  BY ConcatIs
<1> HIDE DEF c, n, m
<1>3. \A i \in 1 .. n, j \in 1 .. m : s[i].name # t[j].name
  BY <1>1 DEF ToSet
<1> DEFINE f == Names(s)
           g == Names(t)
           h == Names(c)
<1>4. /\ DOMAIN f = 1 .. n /\ DOMAIN g = 1 .. m /\ DOMAIN h = 1 .. n + m
      /\ \A i \in 1 .. n : f[i] = s[i].name
      /\ \A i \in 1 .. m : g[i] = t[i].name
      /\ \A i \in 1 .. n + m : h[i] = c[i].name
  BY <1>1 DEF Names
<1> HIDE DEF f, g, h
<1>5. /\ \A i \in 1 .. n : h[i] = f[i]
      /\ \A i \in 1 .. m : h[n + i] = g[i]
      /\ \A i \in 1 .. n, j \in 1 .. m : f[i] # g[j]
  <2>1. \A i \in 1 .. n : i \in 1 .. n + m
    BY <1>1
  <2>2. \A i \in 1 .. m : n + i \in 1 .. n + m
    BY <1>1
  <2>3. \A i \in 1 .. n : h[i] = f[i]
    BY <1>2, <1>4, <2>1
  <2>4. \A i \in 1 .. m : h[n + i] = g[i]
    BY <1>2, <1>4, <2>2
  <2>5. \A i \in 1 .. n, j \in 1 .. m : f[i] # g[j]
    BY <1>3, <1>4
  <2> QED
    BY <2>3, <2>4, <2>5
<1>6. IsInjective(f) /\ IsInjective(g)
  BY DEF f, g
<1>7. IsInjective(h)
  BY <1>1, <1>4, <1>5, <1>6, InjectiveConcat
<1> QED
  BY <1>7 DEF h, c

LEMMA ConcatPaths ==
    ASSUME NEW V, NEW s \in Seq(V), NEW t \in Seq(V),
           IsInjective(Paths(s)), IsInjective(Paths(t)),
           \A x \in ToSet(s), y \in ToSet(t) : x.path # y.path
    PROVE  IsInjective(Paths(s \o t))
<1> DEFINE c == s \o t
           n == Len(s)
           m == Len(t)
<1>1. DOMAIN c = 1 .. n + m /\ DOMAIN s = 1 .. n /\ DOMAIN t = 1 .. m /\ n \in Nat /\ m \in Nat
  OBVIOUS
<1>2. (\A i \in 1 .. n : c[i] = s[i]) /\ (\A i \in 1 .. m : c[n + i] = t[i])
  BY ConcatIs
<1> HIDE DEF c, n, m
<1>3. \A i \in 1 .. n, j \in 1 .. m : s[i].path # t[j].path
  BY <1>1 DEF ToSet
<1> DEFINE f == Paths(s)
           g == Paths(t)
           h == Paths(c)
<1>4. /\ DOMAIN f = 1 .. n /\ DOMAIN g = 1 .. m /\ DOMAIN h = 1 .. n + m
      /\ \A i \in 1 .. n : f[i] = s[i].path
      /\ \A i \in 1 .. m : g[i] = t[i].path
      /\ \A i \in 1 .. n + m : h[i] = c[i].path
  BY <1>1 DEF Paths
<1> HIDE DEF f, g, h
<1>5. /\ \A i \in 1 .. n : h[i] = f[i]
      /\ \A i \in 1 .. m : h[n + i] = g[i]
      /\ \A i \in 1 .. n, j \in 1 .. m : f[i] # g[j]
  <2>1. \A i \in 1 .. n : i \in 1 .. n + m
    BY <1>1
  <2>2. \A i \in 1 .. m : n + i \in 1 .. n + m
    BY <1>1
  <2>3. \A i \in 1 .. n : h[i] = f[i]
    BY <1>2, <1>4, <2>1
  <2>4. \A i \in 1 .. m : h[n + i] = g[i]
    BY <1>2, <1>4, <2>2
  <2>5. \A i \in 1 .. n, j \in 1 .. m : f[i] # g[j]
    BY <1>3, <1>4
  <2> QED
    BY <2>3, <2>4, <2>5
<1>6. IsInjective(f) /\ IsInjective(g)
  BY DEF f, g
<1>7. IsInjective(h)
  BY <1>1, <1>4, <1>5, <1>6, InjectiveConcat
<1> QED
  BY <1>7 DEF h, c

\* A Bootable JAR keeps its data where the data volume is mounted, whatever variables
\* the user sets (NewStatefulSet puts JAVA_ARGS after those of the user).
THEOREM DataStaysOnVolume == Spec => []DataIsOnVolume
<1>1. ASSUME NEW r \in Requests, r.bootableJar
      PROVE  Value(Env(r), "JAVA_ARGS") = DataDir(TRUE)
  <2> DEFINE e == r.env
             n == Len(e)
             args == Var("JAVA_ARGS", DataDir(TRUE))
             home == Var("JBOSS_HOME", <<JBossHome(TRUE)>>)
             front == e \o EnvForClustering \o EnvForEJBRecovery
             all == front \o <<args, home>>
             S == {i \in DOMAIN all : all[i].name = "JAVA_ARGS"}
  <2>1. e \in Seq([name : STRING, value : Text])
    BY RequestsAssumption
  <2>2. Env(r) = all
    BY <1>1 DEF Env, EnvArgsForBootableJAR
  <2>3. /\ DOMAIN all = 1 .. n + 5 /\ n \in Nat
        /\ all[n + 4] = args /\ all[n + 5] = home
    <3> DEFINE T == [name : STRING, value : Text]
               a == Var("KUBERNETES_NAMESPACE", <<"namespace">>)
               b == Var("KUBERNETES_LABELS", <<"labels">>)
               c == Var("STATEFULSET_HEADLESS_SERVICE_NAME", <<"headless">>)
               V == T \cup {a, b, c, args, home}
    <3>1. EnvForClustering = <<a, b>> /\ EnvForEJBRecovery = <<c>>
      BY DEF EnvForClustering, EnvForEJBRecovery
    <3>2. e \in Seq(T)
      BY <2>1
    <3> HIDE DEF T, a, b, c, e, args, home
    <3>3. e \in Seq(V) /\ <<a, b>> \in Seq(V) /\ <<c>> \in Seq(V) /\ args \in V /\ home \in V
      BY <3>2
    <3> HIDE DEF V
    <3> DEFINE d == e \o <<a, b>>
    <3>4. d \in Seq(V) /\ Len(d) = n + 2 /\ n \in Nat
      BY <3>3
    <3> HIDE DEF d
    <3>5. d \o <<c>> \in Seq(V) /\ Len(d \o <<c>>) = n + 3
      BY <3>3, <3>4
    <3>6. front \in Seq(V) /\ Len(front) = n + 3
      BY <3>1, <3>5 DEF d
    <3> HIDE DEF front
    <3>7. <<args, home>> \in Seq(V)
      BY <3>3
    <3> QED
      BY <3>4, <3>6, <3>7
  <2> HIDE DEF args, home
  <2> HIDE DEF all, n
  <2>4. all[n + 4].name = "JAVA_ARGS" /\ all[n + 4].value = DataDir(TRUE)
        /\ all[n + 5].name = "JBOSS_HOME"
    BY <2>3 DEF Var, args, home
  <2>5. n + 4 \in S /\ S \in SUBSET Nat /\ \A x \in S : x <= n + 4
    <3>1. n + 4 \in S /\ S \in SUBSET Nat
      BY <2>3, <2>4
    <3>2. ASSUME NEW x \in S PROVE x <= n + 4
      <4>1. x \in 1 .. n + 5 /\ x # n + 5
        BY <2>3, <2>4
      <4> QED
        BY <2>3, <4>1
    <3> QED
      BY <3>1, <3>2
  <2>6. Max(S) = n + 4
    <3> HIDE DEF S
    <3>1. n + 4 \in Nat /\ S # {}
      BY <2>3, <2>5
    <3>2. Max(S) \in S /\ \A x \in S : x <= Max(S)
      BY <2>5, <3>1, MaxIsGreatest
    <3>3. Max(S) \in Nat /\ n + 4 <= Max(S) /\ Max(S) <= n + 4
      BY <2>5, <3>2
    <3> QED
      BY <3>1, <3>3
  <2> QED
    BY <2>2, <2>4, <2>6 DEF Value
<1>2. TemplateInv => DataIsOnVolume
  <2> SUFFICES ASSUME TemplateInv, sts # Absent, sts.template.imageType = "bootable-jar"
               PROVE  \E m \in ToSet(sts.template.mounts) :
                         m.name = DataVolumeName /\ m.path = Value(sts.template.env, "JAVA_ARGS")
    BY DEF DataIsOnVolume
  <2>1. PICK r \in Requests : sts.template = Template(r)
    BY DEF TemplateInv, SetIsOld, WrittenFor
  <2>2. /\ r.bootableJar
        /\ sts.template.env = Env(r)
        /\ sts.template.mounts = VolumeMounts(r)
    BY <2>1 DEF Template
  <2> DEFINE m == [name |-> DataVolumeName, path |-> DataDir(r.bootableJar)]
             c == IF r.standaloneConfigMap
                  THEN <<[name |-> ConfigVolume, path |-> <<JBossHome(r.bootableJar), "standalone.xml">>]>>
                  ELSE <<>>
             d == Each(NamedMount, "secret", r.secrets)
             f == Each(NamedMount, "configmap", r.configMaps)
  <2>3. m.name = DataVolumeName /\ m.path = DataDir(TRUE)
    BY <2>2, RequestsAssumption
  <2>4. m \in ToSet(VolumeMounts(r))
    <3>1. VolumeMounts(r) = <<m>> \o c \o d \o f
      BY DEF VolumeMounts
    <3>2. DOMAIN d = 1 .. Len(r.secrets) /\ DOMAIN f = 1 .. Len(r.configMaps)
          /\ Len(r.secrets) \in Nat /\ Len(r.configMaps) \in Nat
      BY RequestsAssumption DEF Each
    <3>3. c \in Seq(ToSet(c)) /\ d \in Seq(ToSet(d)) /\ f \in Seq(ToSet(f))
      <4>1. c \in Seq(ToSet(c))
        BY DEF ToSet
      <4>2. d \in Seq(ToSet(d)) /\ f \in Seq(ToSet(f))
        BY <3>2, SeqOfValues DEF Each
      <4> QED
        BY <4>1, <4>2
    <3> HIDE DEF c, d, f, m
    <3> DEFINE V == {m} \cup ToSet(c) \cup ToSet(d) \cup ToSet(f)
    <3>4. <<m>> \in Seq(V) /\ c \in Seq(V) /\ d \in Seq(V) /\ f \in Seq(V)
      BY <3>3
    <3> HIDE DEF V
    <3>5. /\ <<m>> \o c \in Seq(V) /\ Len(<<m>> \o c) >= 1 /\ (<<m>> \o c)[1] = m
      BY <3>4
    <3> DEFINE a == <<m>> \o c
    <3> HIDE DEF a
    <3>6. a \o d \in Seq(V) /\ Len(a \o d) >= 1 /\ (a \o d)[1] = m
      BY <3>4, <3>5 DEF a
    <3> DEFINE b == a \o d
    <3> HIDE DEF b
    <3>7. b \o f \in Seq(V) /\ Len(b \o f) >= 1 /\ (b \o f)[1] = m
      BY <3>4, <3>6 DEF b
    <3>8. VolumeMounts(r) = b \o f
      BY <3>1 DEF a, b
    <3>9. 1 \in DOMAIN VolumeMounts(r) /\ VolumeMounts(r)[1] = m
      BY <3>7, <3>8
    <3> QED
      BY <3>9 DEF ToSet
  <2> HIDE DEF m
  <2> QED
    BY <1>1, <2>2, <2>3, <2>4
<1> QED
  BY <1>2, TemplateInvariant, PTL

-----------------------------------------------------------------------------
(* The pods can be created.                                                *)

\* The volumes of the secrets or of the config maps, and their mounts.
LEMMA NamedVolumesAre ==
    ASSUME NEW kind \in {"secret", "configmap"}, NEW names \in Seq(Text)
    PROVE  LET v == Each(NamedVolume, kind, names) m == Each(NamedMount, kind, names) IN
           /\ v \in Seq(ToSet(v)) /\ m \in Seq(ToSet(m))
           /\ \A x \in ToSet(v) : IsDNSLabel(x.name) /\ x.name[1] = kind
           /\ \A x \in ToSet(m) : x.path[1] = kind /\ \E y \in ToSet(v) : y.name = x.name
           /\ IsInjective(Names(v)) => IsInjective(Paths(m))
<1> DEFINE n == Len(names)
           label(i) == SanitizeVolumeName(<<kind, "-">> \o names[i])
           v == Each(NamedVolume, kind, names)
           m == Each(NamedMount, kind, names)
<1>1. n \in Nat /\ DOMAIN names = 1 .. n /\ \A i \in 1 .. n : names[i] \in Text
  OBVIOUS
<1>2. /\ v = [i \in 1 .. n |-> [name |-> label(i), source |-> <<kind, names[i]>>]]
      /\ m = [i \in 1 .. n |-> [name |-> label(i), path |-> <<kind, names[i]>>]]
  BY <1>1 DEF Each, NamedVolume, NamedMount
<1>3. ASSUME NEW i \in 1 .. n PROVE IsDNSLabel(label(i)) /\ label(i)[1] = kind
  <2> DEFINE w == <<kind, "-">> \o names[i]
  <2>1. names[i] \in Seq(STRING)
    BY <1>1 DEF Text
  <2> DEFINE A == STRING \cup {kind, "-"}
  <2>2. w \in Seq(A) /\ Len(w) > 0 /\ w[1] = kind
    <3>1. \A V, x, y : x \in V /\ y \in V => <<x, y>> \in Seq(V) /\ Len(<<x, y>>) = 2
                                             /\ <<x, y>>[1] = x
      OBVIOUS
    <3>2. \A U, V, x : x \in Seq(U) /\ U \subseteq V => x \in Seq(V)
      OBVIOUS
    <3>3. PICK V, s, t : V = A /\ s = <<kind, "-">> /\ t = names[i]
      OBVIOUS
    <3>4. s \in Seq(V) /\ Len(s) = 2 /\ s[1] = kind /\ t \in Seq(V)
      <4>1. kind \in V /\ "-" \in V /\ STRING \subseteq V
        BY <3>3
      <4> QED
        BY <2>1, <3>1, <3>2, <3>3, <4>1
    <3>5. s \o t \in Seq(V) /\ Len(s \o t) = Len(s) + Len(t) /\ (s \o t)[1] = s[1]
      <4>1. 1 \in 1 .. Len(s)
        BY <3>4
      <4>2. /\ s \o t \in Seq(V) /\ Len(s \o t) = Len(s) + Len(t)
            /\ \A j \in 1 .. Len(s) : (s \o t)[j] = s[j]
        BY <3>4, ConcatIs
      <4> QED
        BY <4>1, <4>2
    <3>6. Len(s \o t) > 0
      BY <3>4, <3>5
    <3> QED
      BY <3>3, <3>4, <3>5, <3>6
  <2>3. kind \in Letters \ {"A", "-"}
    BY WordsAssumption
  <2> HIDE DEF w, A
  <2>4. /\ SanitizeVolumeName(w) # <<>> => IsDNSLabel(SanitizeVolumeName(w))
        /\ SanitizeVolumeName(w) # <<>> /\ SanitizeVolumeName(w)[1] = w[1]
    BY <2>2, <2>3, SanitizedIsLabel
  <2> QED
    BY <2>2, <2>4 DEF w
<1> HIDE DEF label, v, m, n
<1>4. v \in Seq(ToSet(v)) /\ m \in Seq(ToSet(m)) /\ DOMAIN v = 1 .. n /\ DOMAIN m = 1 .. n
  BY <1>1, <1>2, SeqOfValues
<1>5. \A i \in 1 .. n : /\ v[i].name = label(i)
                        /\ m[i].name = label(i) /\ m[i].path = <<kind, names[i]>>
  BY <1>2
<1>6. ASSUME NEW x \in ToSet(v) PROVE IsDNSLabel(x.name) /\ x.name[1] = kind
  <2>1. PICK i \in 1 .. n : x = v[i]
    BY <1>4 DEF ToSet
  <2> QED
    BY <1>3, <1>5, <2>1
<1>7. ASSUME NEW x \in ToSet(m) PROVE x.path[1] = kind /\ \E y \in ToSet(v) : y.name = x.name
  <2>1. PICK i \in 1 .. n : x = m[i]
    BY <1>4 DEF ToSet
  <2>2. x.path = <<kind, names[i]>> /\ x.name = v[i].name /\ v[i] \in ToSet(v)
    BY <1>4, <1>5, <2>1 DEF ToSet
  <2> QED
    BY <2>2
<1>8. ASSUME IsInjective(Names(v)) PROVE IsInjective(Paths(m))
  <2>1. \A i, j \in 1 .. n : label(i) = label(j) => i = j
    BY <1>4, <1>5, <1>8 DEF IsInjective, Names
  <2>2. ASSUME NEW i \in 1 .. n, NEW j \in 1 .. n, m[i].path = m[j].path PROVE i = j
    <3>1. names[i] = names[j]
      BY <1>5, <2>2
    <3>2. label(i) = label(j)
      BY <3>1 DEF label
    <3> QED
      BY <2>1, <3>2
  <2> QED
    BY <1>4, <2>2 DEF IsInjective, Paths
<1> QED
  BY <1>4, <1>6, <1>7, <1>8 DEF v, m

\* The names the operator gives are labels.
LEMMA FixedNames ==
    /\ IsDNSLabel(DataVolumeName) /\ DataVolumeName[1] = "w"
    /\ IsDNSLabel(ConfigVolume) /\ ConfigVolume[1] = "standalone"
<1> DEFINE Spells(s, w) == /\ Len(s) = 3 /\ DOMAIN s = 1 .. 3
                           /\ s[1] = w /\ s[2] = "-" /\ s[3] = "volume"
<1>1. Spells(DataVolumeName, "w")
  <2>1. PICK a, b, c : a = "w" /\ b = "-" /\ c = "volume"
    OBVIOUS
  <2> DEFINE t == <<a>> \o <<b, c>>
  <2>2. Len(t) = 3 /\ DOMAIN t = 1 .. 3 /\ t[1] = a /\ t[2] = b /\ t[3] = c
    OBVIOUS
  <2> HIDE DEF t
  <2>3. DataVolumeName = t
    BY <2>1 DEF DataVolumeName, Name, t
  <2> QED
    BY <2>1, <2>2, <2>3
<1>2. Spells(ConfigVolume, "standalone")
  <2>1. PICK a, b, c : a = "standalone" /\ b = "-" /\ c = "volume"
    OBVIOUS
  <2> DEFINE t == <<a, b, c>>
  <2>2. Len(t) = 3 /\ DOMAIN t = 1 .. 3 /\ t[1] = a /\ t[2] = b /\ t[3] = c
    OBVIOUS
  <2> HIDE DEF t
  <2>3. ConfigVolume = t
    BY <2>1 DEF ConfigVolume, t
  <2> QED
    BY <2>1, <2>2, <2>3
<1>3. ASSUME NEW s, NEW w \in Letters, w # "-", Spells(s, w)
      PROVE  IsDNSLabel(s)
  <2>1. ToSet(s) = {w, "-", "volume"}
    <3>1. \A i \in 1 .. 3 : s[i] \in {w, "-", "volume"}
      BY <1>3
    <3>2. 1 \in 1 .. 3 /\ 2 \in 1 .. 3 /\ 3 \in 1 .. 3
      OBVIOUS
    <3> QED
      BY <1>3, <3>1, <3>2 DEF ToSet
  <2>2. ToSet(s) \subseteq Allowed
    BY <2>1, WordsAssumption DEF Allowed
  <2>3. 3 \in 1 .. DNS1123LabelMaxLength
    BY WordsAssumption, LabelLengthAssumption
  <2> QED
    BY <1>3, <2>2, <2>3 DEF IsDNSLabel
<1>4. "w" \in Letters /\ "standalone" \in Letters
  BY WordsAssumption
<1> QED
  BY <1>1, <1>2, <1>3, <1>4

\* The volumes of a pod, with the claim, have valid names of their own, and every
\* mount has its volume and a path of its own.
LEMMA VolumesAreValid ==
    ASSUME NEW r \in Requests, NamesStayApart(r), NEW claims,
           r.storage.kind = "claim" => claims = <<claims[1]>> /\ claims[1].name = DataVolumeName,
           r.storage.kind # "claim" => claims = <<>>
    PROVE  /\ \A v \in ToSet(Volumes(r)) : IsDNSLabel(v.name)
           /\ IsInjective(Names(Volumes(r) \o claims))
           /\ IsInjective(Paths(VolumeMounts(r)))
           /\ \A m \in ToSet(VolumeMounts(r)) :
                 m.name \in {v.name : v \in ToSet(Volumes(r) \o claims)}
<1> DEFINE D == IF r.storage.kind = "claim" THEN <<>>
                ELSE <<[name |-> DataVolumeName, source |-> <<"emptyDir", r.storage.kind>>]>>
           C == IF r.standaloneConfigMap
                THEN <<[name |-> ConfigVolume, source |-> <<"standalone">>]>> ELSE <<>>
           S == Each(NamedVolume, "secret", r.secrets)
           M == Each(NamedVolume, "configmap", r.configMaps)
           Dm == <<[name |-> DataVolumeName, path |-> DataDir(r.bootableJar)]>>
           Cm == IF r.standaloneConfigMap
                 THEN <<[name |-> ConfigVolume, path |-> <<JBossHome(r.bootableJar), "standalone.xml">>]>>
                 ELSE <<>>
           Sm == Each(NamedMount, "secret", r.secrets)
           Mm == Each(NamedMount, "configmap", r.configMaps)
<1>1. Volumes(r) = D \o C \o S \o M /\ VolumeMounts(r) = Dm \o Cm \o Sm \o Mm
  BY DEF Volumes, VolumeMounts
<1>2. r.secrets \in Seq(Text) /\ r.configMaps \in Seq(Text)
  BY RequestsAssumption
<1>3. /\ S \in Seq(ToSet(S)) /\ Sm \in Seq(ToSet(Sm))
      /\ \A x \in ToSet(S) : IsDNSLabel(x.name) /\ x.name[1] = "secret"
      /\ \A x \in ToSet(Sm) : x.path[1] = "secret" /\ \E y \in ToSet(S) : y.name = x.name
      /\ IsInjective(Names(S)) /\ IsInjective(Paths(Sm))
  BY <1>2, NamedVolumesAre DEF NamesStayApart
<1>4. /\ M \in Seq(ToSet(M)) /\ Mm \in Seq(ToSet(Mm))
      /\ \A x \in ToSet(M) : IsDNSLabel(x.name) /\ x.name[1] = "configmap"
      /\ \A x \in ToSet(Mm) : x.path[1] = "configmap" /\ \E y \in ToSet(M) : y.name = x.name
      /\ IsInjective(Names(M)) /\ IsInjective(Paths(Mm))
  BY <1>2, NamedVolumesAre DEF NamesStayApart
<1>5. \A x : /\ <<x>> \in Seq(ToSet(<<x>>)) /\ ToSet(<<x>>) = {x}
             /\ IsInjective(Names(<<x>>)) /\ IsInjective(Paths(<<x>>))
  <2>1. \A x : DOMAIN <<x>> = {1} /\ <<x>>[1] = x /\ \A T : x \in T => <<x>> \in Seq(T)
    OBVIOUS
  <2>2. \A x : ToSet(<<x>>) = {x}
    BY <2>1 DEF ToSet
  <2> QED
    BY <2>1, <2>2 DEF IsInjective, Names, Paths
<1>6. /\ \A T : <<>> \in Seq(T)
      /\ ToSet(<<>>) = {} /\ IsInjective(Names(<<>>)) /\ IsInjective(Paths(<<>>))
  BY DEF ToSet, IsInjective, Names, Paths
<1>7. /\ D \in Seq(ToSet(D)) /\ IsInjective(Names(D))
      /\ \A x \in ToSet(D) : x.name = DataVolumeName
      /\ claims \in Seq(ToSet(claims)) /\ IsInjective(Names(claims))
      /\ \A x \in ToSet(claims) : x.name = DataVolumeName
      /\ (ToSet(D) # {} /\ ToSet(claims) = {}) \/ (ToSet(D) = {} /\ ToSet(claims) # {})
  <2>1. CASE r.storage.kind = "claim"
    BY <1>5, <1>6, <2>1
  <2>2. CASE r.storage.kind # "claim"
    <3> DEFINE x == [name |-> DataVolumeName, source |-> <<"emptyDir", r.storage.kind>>]
    <3>1. D = <<x>> /\ claims = <<>> /\ x.name = DataVolumeName
      BY <2>2
    <3> HIDE DEF x, D
    <3> QED
      BY <1>5, <1>6, <3>1
  <2> QED
    BY <2>1, <2>2
<1>8. /\ C \in Seq(ToSet(C)) /\ IsInjective(Names(C))
      /\ \A x \in ToSet(C) : x.name = ConfigVolume
      /\ Cm \in Seq(ToSet(Cm)) /\ IsInjective(Paths(Cm))
      /\ \A x \in ToSet(Cm) : /\ x.name = ConfigVolume
                              /\ x.path = <<JBossHome(r.bootableJar), "standalone.xml">>
      /\ ToSet(Cm) # {} => ToSet(C) # {}
  <2>1. CASE ~r.standaloneConfigMap
    BY <1>6, <2>1
  <2>2. CASE r.standaloneConfigMap
    <3> DEFINE x == [name |-> ConfigVolume, source |-> <<"standalone">>]
               y == [name |-> ConfigVolume, path |-> <<JBossHome(r.bootableJar), "standalone.xml">>]
    <3>1. C = <<x>> /\ Cm = <<y>> /\ x.name = ConfigVolume /\ y.name = ConfigVolume
          /\ y.path = <<JBossHome(r.bootableJar), "standalone.xml">>
      BY <2>2
    <3> HIDE DEF x, y, C, Cm
    <3> QED
      BY <1>5, <3>1
  <2> QED
    BY <2>1, <2>2
<1>9. /\ Dm \in Seq(ToSet(Dm)) /\ IsInjective(Paths(Dm))
      /\ \A x \in ToSet(Dm) : x.name = DataVolumeName /\ x.path = DataDir(r.bootableJar)
  <2> DEFINE x == [name |-> DataVolumeName, path |-> DataDir(r.bootableJar)]
  <2>1. Dm = <<x>> /\ x.name = DataVolumeName /\ x.path = DataDir(r.bootableJar)
    OBVIOUS
  <2> HIDE DEF x, Dm
  <2> QED
    BY <1>5, <2>1
<1> HIDE DEF D, C, S, M, Dm, Cm, Sm, Mm
<1> DEFINE V == ToSet(D) \cup ToSet(C) \cup ToSet(S) \cup ToSet(M) \cup ToSet(claims)
           W == ToSet(Dm) \cup ToSet(Cm) \cup ToSet(Sm) \cup ToSet(Mm)
<1>10. /\ D \in Seq(V) /\ C \in Seq(V) /\ S \in Seq(V) /\ M \in Seq(V) /\ claims \in Seq(V)
       /\ Dm \in Seq(W) /\ Cm \in Seq(W) /\ Sm \in Seq(W) /\ Mm \in Seq(W)
  <2>1. \A A, B, s : s \in Seq(A) /\ A \subseteq B => s \in Seq(B)
    OBVIOUS
  <2>2. /\ ToSet(D) \subseteq V /\ ToSet(C) \subseteq V /\ ToSet(S) \subseteq V
        /\ ToSet(M) \subseteq V /\ ToSet(claims) \subseteq V
        /\ ToSet(Dm) \subseteq W /\ ToSet(Cm) \subseteq W /\ ToSet(Sm) \subseteq W
        /\ ToSet(Mm) \subseteq W
    OBVIOUS
  <2> HIDE DEF V, W
  <2> QED
    BY <1>3, <1>4, <1>7, <1>8, <1>9, <2>1, <2>2
<1> HIDE DEF V, W
<1> DEFINE p == D \o C
           q == p \o S
           v == q \o M
           a == v \o claims
           pm == Dm \o Cm
           qm == pm \o Sm
           vm == qm \o Mm
<1>11. p \in Seq(V) /\ ToSet(p) = ToSet(D) \cup ToSet(C)
  BY <1>10, ConcatIs
<1> HIDE DEF p
<1>12. q \in Seq(V) /\ ToSet(q) = ToSet(p) \cup ToSet(S)
  BY <1>10, <1>11, ConcatIs
<1> HIDE DEF q
<1>13. v \in Seq(V) /\ ToSet(v) = ToSet(q) \cup ToSet(M)
  BY <1>10, <1>12, ConcatIs
<1> HIDE DEF v
<1>14. ToSet(a) = ToSet(v) \cup ToSet(claims)
  BY <1>10, <1>13, ConcatIs
<1> HIDE DEF a
<1>15. pm \in Seq(W) /\ ToSet(pm) = ToSet(Dm) \cup ToSet(Cm)
  BY <1>10, ConcatIs
<1> HIDE DEF pm
<1>16. qm \in Seq(W) /\ ToSet(qm) = ToSet(pm) \cup ToSet(Sm)
  BY <1>10, <1>15, ConcatIs
<1> HIDE DEF qm
<1>17. ToSet(vm) = ToSet(qm) \cup ToSet(Mm)
  BY <1>10, <1>16, ConcatIs
<1> HIDE DEF vm
<1>18. Volumes(r) = v /\ VolumeMounts(r) = vm /\ Volumes(r) \o claims = a
  BY <1>1 DEF p, q, v, a, pm, qm, vm
<1>19. \A x \in ToSet(v) : IsDNSLabel(x.name)
  BY <1>3, <1>4, <1>7, <1>8, <1>11, <1>12, <1>13, FixedNames
<1>20. IsInjective(Names(a))
  <2>1. IsInjective(Names(p))
    <3>1. \A x \in ToSet(D), y \in ToSet(C) : x.name # y.name
      BY <1>7, <1>8, FixedNames
    <3> QED
      BY <1>7, <1>8, <1>10, <3>1, ConcatNames DEF p
  <2>2. \A x \in ToSet(p) : x.name[1] \in {"w", "standalone"}
    BY <1>7, <1>8, <1>11, FixedNames
  <2>3. IsInjective(Names(q))
    <3>1. \A x \in ToSet(p), y \in ToSet(S) : x.name # y.name
      BY <1>3, <2>2
    <3> QED
      BY <1>3, <1>10, <1>11, <2>1, <3>1, ConcatNames DEF q
  <2>4. IsInjective(Names(v))
    <3>1. \A x \in ToSet(q), y \in ToSet(M) : x.name # y.name
      BY <1>3, <1>4, <1>12, <2>2
    <3> QED
      BY <1>4, <1>10, <1>12, <2>3, <3>1, ConcatNames DEF v
  <2>5. \A x \in ToSet(v), y \in ToSet(claims) : x.name # y.name
    <3> SUFFICES ASSUME NEW x \in ToSet(v), NEW y \in ToSet(claims) PROVE x.name # y.name
      OBVIOUS
    <3>1. y.name[1] = "w" /\ x \notin ToSet(D)
      BY <1>7, FixedNames
    <3>2. x.name[1] \in {"standalone", "secret", "configmap"}
      BY <1>3, <1>4, <1>8, <1>11, <1>12, <1>13, <3>1, FixedNames
    <3> QED
      BY <3>1, <3>2
  <2> QED
    BY <1>7, <1>10, <1>13, <2>4, <2>5, ConcatNames DEF a
<1>21. IsInjective(Paths(vm))
  <2>1. /\ DataDir(r.bootableJar)[2] = "standalone/data"
        /\ DataDir(r.bootableJar)[1] \in {"home", "bootableData"}
        /\ <<JBossHome(r.bootableJar), "standalone.xml">>[2] = "standalone.xml"
        /\ <<JBossHome(r.bootableJar), "standalone.xml">>[1] \in {"home", "bootableHome"}
    BY DEF DataDir, JBossHome, JBossHomeDataDir
  <2>2. IsInjective(Paths(pm))
    <3>1. \A x \in ToSet(Dm), y \in ToSet(Cm) : x.path # y.path
      BY <1>8, <1>9, <2>1
    <3> QED
      BY <1>8, <1>9, <1>10, <3>1, ConcatPaths DEF pm
  <2>3. \A x \in ToSet(pm) : x.path[1] \in {"home", "bootableData", "bootableHome"}
    BY <1>8, <1>9, <1>15, <2>1
  <2>4. IsInjective(Paths(qm))
    <3>1. \A x \in ToSet(pm), y \in ToSet(Sm) : x.path # y.path
      BY <1>3, <2>3
    <3> QED
      BY <1>3, <1>10, <1>15, <2>2, <3>1, ConcatPaths DEF qm
  <2>5. \A x \in ToSet(qm), y \in ToSet(Mm) : x.path # y.path
    BY <1>3, <1>4, <1>16, <2>3
  <2> QED
    BY <1>4, <1>10, <1>16, <2>4, <2>5, ConcatPaths DEF vm
<1>22. \A x \in ToSet(vm) : \E y \in ToSet(a) : y.name = x.name
  <2>1. \A x \in ToSet(Dm) : \E y \in ToSet(a) : y.name = x.name
    BY <1>7, <1>9, <1>11, <1>12, <1>13, <1>14
  <2>2. \A x \in ToSet(Cm) : \E y \in ToSet(a) : y.name = x.name
    BY <1>8, <1>11, <1>12, <1>13, <1>14
  <2>3. \A x \in ToSet(Sm) : \E y \in ToSet(a) : y.name = x.name
    BY <1>3, <1>12, <1>13, <1>14
  <2>4. \A x \in ToSet(Mm) : \E y \in ToSet(a) : y.name = x.name
    BY <1>4, <1>13, <1>14
  <2> QED
    BY <1>15, <1>16, <1>17, <2>1, <2>2, <2>3, <2>4
<1> QED
  BY <1>18, <1>19, <1>20, <1>21, <1>22

\* The pods of a current StatefulSet can be created: their volumes have valid names of
\* their own and every mount has its volume, however long the names of the secrets and
\* config maps are and whatever characters they have (NewStatefulSet and
\* SanitizeVolumeName).
THEOREM PodsStayCreatable == Spec => []PodsCanBeCreated
<1>1. TemplateInv => PodsCanBeCreated
  <2> SUFFICES ASSUME TemplateInv, Current, NamesStayApart(spec), spec.storage.name = <<>>
               PROVE  ValidPod(sts)
    BY DEF PodsCanBeCreated
  <2>1. /\ spec \in Requests /\ IsStatefulSet(sts)
        /\ sts.template = Template(spec) /\ SameVolume(sts.claims, VolumeClaimTemplates(spec))
    BY DEF TemplateInv, SetIsOld, WrittenFor, Current
  <2>2. sts.template.volumes = Volumes(spec) /\ sts.template.mounts = VolumeMounts(spec)
    BY <2>1 DEF Template
  <2>3. sts.claims = <<>> \/ sts.claims = <<sts.claims[1]>>
    BY <2>1 DEF IsStatefulSet
  <2>4. ASSUME spec.storage.kind = "claim"
        PROVE  sts.claims = <<sts.claims[1]>> /\ sts.claims[1].name = DataVolumeName
    <3> DEFINE d == VolumeClaimTemplates(spec)
    <3>1. Len(d) = 1 /\ d[1].name = DataVolumeName
      BY <2>4 DEF VolumeClaimTemplates
    <3> HIDE DEF d
    <3>2. Len(sts.claims) = 1
      BY <2>1, <3>1 DEF SameVolume, d
    <3>3. sts.claims # <<>>
      <4>1. Len(<<>>) = 0
        OBVIOUS
      <4>2. 0 # 1
        OBVIOUS
      <4> QED
        BY <3>2, <4>1, <4>2, Zenon
    <3> QED
      BY <2>1, <2>3, <3>1, <3>3 DEF SameVolume, d
  <2>5. ASSUME spec.storage.kind # "claim" PROVE sts.claims = <<>>
    <3>1. VolumeClaimTemplates(spec) = <<>>
      BY <2>5 DEF VolumeClaimTemplates
    <3>2. Len(sts.claims) = 0
      BY <2>1, <3>1 DEF SameVolume
    <3>3. \A c : Len(<<c>>) = 1
      OBVIOUS
    <3> QED
      BY <2>3, <3>2, <3>3
  <2>6. /\ \A v \in ToSet(Volumes(spec)) : IsDNSLabel(v.name)
        /\ IsInjective(Names(Volumes(spec) \o sts.claims))
        /\ IsInjective(Paths(VolumeMounts(spec)))
        /\ \A m \in ToSet(VolumeMounts(spec)) :
              m.name \in {v.name : v \in ToSet(Volumes(spec) \o sts.claims)}
    BY <2>1, <2>4, <2>5, VolumesAreValid
  <2> QED
    BY <2>2, <2>6 DEF ValidPod
<1> QED
  BY <1>1, TemplateInvariant, PTL

-----------------------------------------------------------------------------
(* When the StatefulSet is deleted.                                        *)

\* The sizes are written the way the API server writes them back: a text that passes
\* for canonical is kept, and a multiple of eight that another unit divides is not.
StorageIsCanonical ==
    \A r \in Requests : r.storage.kind = "claim" =>
        LET q == ParseQuantity(r.storage.size) IN q = ParseQuantity(CanonicalizeBytes(q.amount))

IsCanonical(q) == q = ParseQuantity(CanonicalizeBytes(q.amount))

\* So is the claim of the StatefulSet.
SetIsCanonical == sts # Absent /\ sts.claims # <<>> => IsCanonical(sts.claims[1].resources)

\* Such a quantity is read back as it was.
LEMMA CanonicalIsKept ==
    ASSUME NEW q, IsQuantity(q), IsCanonical(q)
    PROVE  ParseQuantity(Marshal(q)) = q
<1> DEFINE w == CanonicalizeBytes(q.amount)
<1>1. q = ParseQuantity(w)
  BY DEF IsCanonical
<1>2. q.text = <<w>> \/ q.text = NoText
  BY <1>1 DEF ParseQuantity
<1>3. Marshal(q) = w
  <2>1. CASE q.text = NoText
    BY <2>1 DEF Marshal
  <2>2. CASE q.text # NoText
    <3>1. q.text = <<w>>
      BY <1>2, <2>2
    <3> HIDE DEF w
    <3>2. <<w>>[1] = w
      OBVIOUS
    <3> QED
      BY <2>2, <3>1, <3>2 DEF Marshal
  <2> QED
    BY <2>1, <2>2
<1> QED
  BY <1>1, <1>3

\* What is written with such a claim is kept with it.
LEMMA StoredIsCanonical ==
    ASSUME NEW set, IsStatefulSet(set), Write(set), SetIsCanonical,
           set.claims # <<>> => IsCanonical(set.claims[1].resources)
    PROVE  SetIsCanonical'
<1>1. sts' = sts \/ sts' = Stored(set)
  BY DEF Write
<1>2. CASE sts' = sts
  BY <1>2 DEF SetIsCanonical
<1>3. CASE sts' = Stored(set)
  <2>1. CASE set.claims = <<>>
    <3>1. sts'.claims = <<>>
      BY <1>3, <2>1, StoredIs
    <3> QED
      BY <3>1 DEF SetIsCanonical
  <2>2. CASE set.claims # <<>>
    <3> DEFINE c == set.claims[1]
    <3>1. IsClaim(c) /\ IsCanonical(c.resources)
      BY <2>2 DEF IsStatefulSet
    <3>2. sts'.claims = <<StoredClaim(c)>>
      BY <1>3, <2>2, StoredIs
    <3>3. StoredClaim(c).resources = ParseQuantity(Marshal(c.resources))
      BY <3>1, StoredClaimIs
    <3>4. ParseQuantity(Marshal(c.resources)) = c.resources
      BY <3>1, CanonicalIsKept DEF IsClaim
    <3>5. sts'.claims[1].resources = c.resources
      BY <3>2, <3>3, <3>4
    <3> QED
      BY <3>1, <3>5 DEF SetIsCanonical
  <2> QED
    BY <2>1, <2>2
<1> QED
  BY <1>1, <1>2, <1>3

LEMMA NextCanonical ==
    ASSUME StorageIsCanonical, TemplateInv, SetIsCanonical, [Next]_vars
    PROVE  SetIsCanonical'
<1>1. CASE CreateStatefulSet
  <2> DEFINE set == NewStatefulSet(pass.spec)
             d == VolumeClaimTemplates(pass.spec)
  <2>1. Write(set) /\ pass # NoPass /\ pass.spec \in Requests
    BY <1>1 DEF CreateStatefulSet, Write, TemplateInv, PassIsOld
  <2>2. /\ d = <<>> \/ (d = <<d[1]>> /\ IsClaim(d[1]))
        /\ d # <<>> => d[1].resources = ParseQuantity(pass.spec.storage.size)
    BY <2>1, WantedClaims
  <2>3. d # <<>> => pass.spec.storage.kind = "claim"
    BY DEF VolumeClaimTemplates
  <2>4. d # <<>> => IsCanonical(d[1].resources)
    <3> HIDE DEF d
    <3> QED
      BY <2>1, <2>2, <2>3 DEF StorageIsCanonical, IsCanonical
  <2>5. set = [generation |-> pass.generation, selector |-> SelectorLabels,
               template |-> Template(pass.spec), claims |-> d]
    BY DEF NewStatefulSet, Marker
  <2> HIDE DEF set, d
  <2>6. set.claims = d /\ IsStatefulSet(set)
    BY <2>2, <2>5 DEF IsStatefulSet
  <2> QED
    BY <2>1, <2>4, <2>6, StoredIsCanonical
<1>2. CASE UpdateStatefulSet
  <2>1. /\ sts # Absent /\ IsStatefulSet(sts)
        /\ Write([sts EXCEPT !.template = Template(pass.spec), !.generation = Marker])
    BY <1>2 DEF UpdateStatefulSet, Outdated, TemplateInv, SetIsOld
  <2>2. PICK set : IsStatefulSet(set) /\ Write(set) /\ set.claims = sts.claims
    BY <2>1, UpdatedSet
  <2> QED
    BY <2>1, <2>2, StoredIsCanonical DEF SetIsCanonical
<1>3. CASE DeleteStatefulSet
  BY <1>3 DEF DeleteStatefulSet, SetIsCanonical
<1>4. CASE UNCHANGED sts
  BY <1>4 DEF SetIsCanonical
<1> QED
  BY <1>1, <1>2, <1>3, <1>4 DEF Next, vars, Fetch, StatefulSetIsCurrent, EditSpec

\* For sizes that are written as they are written back, the StatefulSet and its pods
\* are deleted only for a spec that asks for another volume (the comparison in
\* checkStatefulSet; the run same_storage shows what happens for other sizes).
THEOREM DeletedForStorageOnly == StorageIsCanonical => (Spec => DeletedOnlyForStorage)
<1> SUFFICES ASSUME StorageIsCanonical PROVE Spec => DeletedOnlyForStorage
  OBVIOUS
<1>1. Init => SetIsCanonical
  BY DEF Init, SetIsCanonical
<1>2. TemplateInv /\ SetIsCanonical /\ [Next]_vars => SetIsCanonical'
  BY NextCanonical
<1>3. TemplateInv /\ SetIsCanonical /\ [Next]_vars =>
          [sts # Absent /\ sts' = Absent
             => ~SameVolume(sts.claims, VolumeClaimTemplates(pass.spec))]_vars
  <2> SUFFICES ASSUME TemplateInv, SetIsCanonical, [Next]_vars, sts # Absent, sts' = Absent,
                      SameVolume(sts.claims, VolumeClaimTemplates(pass.spec))
               PROVE  FALSE
    OBVIOUS
  <2> DEFINE d == VolumeClaimTemplates(pass.spec)
             s == sts.claims
  <2>1. ~CreateStatefulSet /\ ~Fetch /\ ~StatefulSetIsCurrent /\ ~EditSpec /\ ~UNCHANGED vars
    BY DEF CreateStatefulSet, Fetch, StatefulSetIsCurrent, EditSpec, vars
  <2>2. ~UpdateStatefulSet
    <3> SUFFICES ASSUME UpdateStatefulSet PROVE FALSE
      OBVIOUS
    <3>1. /\ IsStatefulSet(sts) /\ pass # NoPass
          /\ Write([sts EXCEPT !.template = Template(pass.spec), !.generation = Marker])
      BY DEF TemplateInv, SetIsOld, UpdateStatefulSet, Outdated
    <3>2. PICK set : /\ IsStatefulSet(set) /\ Write(set)
                     /\ set.claims = sts.claims /\ set.generation = pass.generation
      BY <3>1, UpdatedSet
    <3>3. sts' = Stored(set)
      BY <3>2 DEF Write
    <3>4. sts'.generation = pass.generation /\ pass.generation \in 1 .. generation
      BY <3>1, <3>2, <3>3, StoredIs DEF TemplateInv, PassIsOld
    <3>5. Absent.generation = 0
      BY DEF Absent
    <3> QED
      BY <3>4, <3>5 DEF TemplateInv, Generations
  <2>3. DeleteStatefulSet
    BY <2>1, <2>2 DEF Next
  <2>4. ClaimsDiffer(s, d) /\ pass # NoPass
    BY <2>3 DEF DeleteStatefulSet, Outdated
  <2>5. pass.spec \in Requests
    BY <2>4 DEF TemplateInv, PassIsOld
  <2>6. /\ d = <<>> \/ d = <<d[1]>>
        /\ d # <<>> => /\ d[1].resources = ParseQuantity(pass.spec.storage.size)
                       /\ pass.spec.storage.kind = "claim"
    BY <2>5, WantedClaims DEF VolumeClaimTemplates
  <2>7. s = <<>> \/ s = <<s[1]>>
    BY DEF TemplateInv, SetIsOld, IsStatefulSet
  <2> HIDE DEF d, s
  <2>8. Len(s) = Len(d) /\ (s # <<>> => s[1].name = d[1].name
                                        /\ s[1].resources.amount = d[1].resources.amount)
    BY DEF SameVolume, d, s
  <2>9. \A x : Len(<<>>) # Len(<<x>>)
    OBVIOUS
  <2>10. s # <<>> /\ d # <<>>
    BY <2>4, <2>6, <2>7, <2>8, <2>9 DEF ClaimsDiffer
  <2>11. IsCanonical(s[1].resources) /\ IsCanonical(d[1].resources)
    BY <2>5, <2>6, <2>10 DEF SetIsCanonical, StorageIsCanonical, IsCanonical, s
  <2>12. s[1].resources = d[1].resources
    BY <2>8, <2>10, <2>11 DEF IsCanonical
  <2> QED
    BY <2>4, <2>8, <2>10, <2>12 DEF ClaimsDiffer
<1> QED
  BY <1>1, <1>2, <1>3, TemplateInvariant, PTL DEF Spec, DeletedOnlyForStorage

-----------------------------------------------------------------------------
(* Labels.                                                                 *)

\* Neither the user nor the deployment of the operator sets the markers.
MarkersAreOurs ==
    /\ Markers \cap DOMAIN UserLabels = {}
    /\ \A e \in Environments : Markers \cap DOMAIN e.templateLabels = {}

\* Where the markers are the operator's, a pod stays the StatefulSet's when they are
\* disabled, and the services select it as long as theirs are active (NewStatefulSet
\* copies the labels before it adds the markers; the selectors are in service.go).
THEOREM PodsStayOwned == MarkersAreOurs => (Spec => []MarkedPodsStayOwned)
<1> SUFFICES ASSUME MarkersAreOurs PROVE Spec => []MarkedPodsStayOwned
  OBVIOUS
<1>1. TemplateInv => MarkedPodsStayOwned
  <2> SUFFICES ASSUME TemplateInv, sts # Absent, NEW markers \in SUBSET Markers
               PROVE  LET labels == Disabled(sts.template.labels, markers) IN
                      /\ Selects(sts.selector, labels)
                      /\ Selects(ServiceSelector("cluster"), labels) <=> markers = {}
                      /\ \A s \in {"headless", "admin"} :
                            Selects(ServiceSelector(s), labels)
                               <=> "operated-by-headless" \notin markers
    BY DEF MarkedPodsStayOwned
  <2> DEFINE L == LabelsForWildFly
             T == sts.template.labels
             labels == Disabled(T, markers)
  <2>1. sts.selector = L /\ T = TemplateLabels /\ Selects(L, T)
    <3>1. sts.selector = L /\ Selects(sts.selector, T)
      BY DEF TemplateInv, SetIsAccepted, Accepted, SelectorLabels
    <3>2. PICK r \in Requests : sts.template = Template(r)
      BY DEF TemplateInv, SetIsOld, WrittenFor
    <3>3. Template(r).labels = TemplateLabels
      BY DEF Template
    <3> QED
      BY <3>1, <3>2, <3>3
  <2>2. Markers \cap DOMAIN L = {}
    BY DEF LabelsForWildFly, MapMerge, MarkersAreOurs, Markers
  <2>3. \A m \in Markers : m \in DOMAIN T /\ T[m] = "active"
    <3>1. environment \in Environments
      BY DEF TemplateInv
    <3>2. Markers \cap DOMAIN environment.templateLabels = {}
      BY <3>1 DEF MarkersAreOurs
    <3> QED
      BY <2>1, <3>2 DEF TemplateLabels, MapMerge, Active
  <2> HIDE DEF L, T
  <2>4. /\ DOMAIN labels = DOMAIN T \cup markers
        /\ \A m \in markers : labels[m] = "disabled"
        /\ \A l \in DOMAIN T \ markers : labels[l] = T[l]
    BY DEF Disabled, MapMerge
  <2> HIDE DEF labels
  <2>5. \A l \in DOMAIN L : l \in DOMAIN labels /\ labels[l] = L[l]
    BY <2>1, <2>2, <2>4 DEF Selects
  <2>6. \A m \in Markers : m \in DOMAIN labels /\ (labels[m] = "active" <=> m \notin markers)
    BY <2>3, <2>4
  <2>7. ASSUME NEW ms \in SUBSET Markers
        PROVE  Selects(MapMerge(L, [m \in ms |-> "active"]), labels) <=> ms \cap markers = {}
    <3> DEFINE a == [m \in ms |-> "active"]
               sel == MapMerge(L, a)
    <3>1. DOMAIN a = ms /\ \A m \in ms : a[m] = "active"
      OBVIOUS
    <3> HIDE DEF a
    <3>2. /\ DOMAIN sel = DOMAIN L \cup ms
          /\ \A m \in ms : sel[m] = "active"
          /\ \A l \in DOMAIN L \ ms : sel[l] = L[l]
      BY <3>1 DEF MapMerge
    <3> HIDE DEF sel
    <3>3. Selects(sel, labels) <=> ms \cap markers = {}
      BY <2>2, <2>5, <2>6, <3>2 DEF Selects
    <3> QED
      BY <3>3 DEF sel, a
  <2>8. /\ ServiceSelector("cluster") = MapMerge(L, [m \in Markers |-> "active"])
        /\ \A s \in {"headless", "admin"} :
              ServiceSelector(s) = MapMerge(L, [m \in {"operated-by-headless"} |-> "active"])
    <3>1. {"operated-by-headless"} \cup {"operated-by-loadbalancer"} = Markers
          /\ {"operated-by-headless"} \cup {} = {"operated-by-headless"}
      BY DEF Markers
    <3> QED
      BY <3>1 DEF ServiceSelector, L
  <2>9. Selects(ServiceSelector("cluster"), labels) <=> markers = {}
    <3>1. Selects(MapMerge(L, [m \in Markers |-> "active"]), labels) <=> Markers \cap markers = {}
      BY <2>7
    <3> QED
      BY <2>8, <3>1
  <2>10. ASSUME NEW s \in {"headless", "admin"}
         PROVE  Selects(ServiceSelector(s), labels) <=> "operated-by-headless" \notin markers
    <3>1. {"operated-by-headless"} \in SUBSET Markers
      BY DEF Markers
    <3>2. Selects(MapMerge(L, [m \in {"operated-by-headless"} |-> "active"]), labels)
            <=> {"operated-by-headless"} \cap markers = {}
      BY <2>7, <3>1
    <3> QED
      BY <2>8, <3>2
  <2> QED
    BY <2>1, <2>5, <2>9, <2>10 DEF Selects, labels, T
<1> QED
  BY <1>1, TemplateInvariant, PTL
=============================================================================
